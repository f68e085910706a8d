------------------------ MODULE FunctionTableProofs ------------------------
(***************************************************************************)
(* The type invariant of FunctionTable, and that its Get() answers as the  *)
(* visitor and the match rule expect, for all names, parameter lists and   *)
(* numbers of declarations.  Get() looks at the table only, the match rule *)
(* is about all the functions declared: the inductive invariant says that  *)
(* what is declared is in the table, up to its tag, and only once.         *)
(***************************************************************************)
EXTENDS FunctionTable, WellFoundedInduction, TLAPS

(* No two functions of a name have the same tag. *)
TagsDistinct ==
  \A n \in Names : \A i, j \in DOMAIN table[n] :
    Tag(table[n][i].args) = Tag(table[n][j].args) => i = j

(* Every function declared is in the table, or one with its tag is. *)
Covered ==
  \A i \in DOMAIN declared : \E k \in DOMAIN table[declared[i].name] :
    Tag(table[declared[i].name][k].args) = Tag(declared[i].args)

IInv == TypeOK /\ TagsDistinct /\ Covered
-----------------------------------------------------------------------------
(* The first of some indices exists. *)
LEMMA FirstLemma ==
  ASSUME NEW S, S \subseteq Nat, S # {}
  PROVE  First(S) \in S /\ \A j \in S : First(S) <= j
<1> DEFINE R == OpToRel(<, Nat)
<1>1. \E x \in S : \A y \in S : ~(<<y, x>> \in R)
  BY NatLessThanWellFounded, WFMin
<1>2. \A x, y \in Nat : <<y, x>> \in R <=> y < x
  BY DEF OpToRel
<1> HIDE DEF R
<1>3. PICK x \in S : \A y \in S : ~(<<y, x>> \in R)
  BY <1>1
<1>4. \A y \in S : x <= y
  <2>1. \A y \in S : y \in Nat /\ ~(y < x) /\ x \in Nat
    BY <1>2, <1>3
  <2> QED BY <2>1
<1> QED BY <1>3, <1>4 DEF First

(* Lists with the same tag have the same length. *)
LEMMA TagLemma ==
  ASSUME NEW s \in Seq(Type), NEW t \in Seq(Type), Tag(s) = Tag(t)
  PROVE  Len(s) = Len(t)
<1>1. DOMAIN Tag(s) = 1 .. Len(s) /\ DOMAIN Tag(t) = 1 .. Len(t)
  BY DEF Tag
<1> QED BY <1>1

(* What Get() answers: a function its first loop stops at, or else the     *)
(* only one its second loop counts.                                        *)
LEMMA GetLemma ==
  ASSUME NEW v \in Seq(Function), NEW args
  PROVE  /\ Direct(v, args) # {} =>
              /\ Get(v, args) \in Direct(v, args)
              /\ \A j \in Direct(v, args) : Get(v, args) <= j
         /\ Direct(v, args) = {} =>
              \/ Get(v, args) = 0 /\ ~\E i \in DOMAIN v : Fitting(v, args) = {i}
              \/ Get(v, args) \in DOMAIN v /\ Fitting(v, args) = {Get(v, args)}
<1>1. DOMAIN v \subseteq Nat \ {0}
  OBVIOUS
<1>2. CASE Direct(v, args) # {}
  <2>1. Direct(v, args) \subseteq Nat
    BY <1>1 DEF Direct
  <2>2. Get(v, args) = First(Direct(v, args))
    BY <1>2 DEF Get
  <2> QED BY <1>2, <2>1, <2>2, FirstLemma
<1>3. CASE Direct(v, args) = {}
  <2>1. CASE \E i \in DOMAIN v : Fitting(v, args) = {i}
    BY <1>3, <2>1 DEF Get
  <2>2. CASE ~\E i \in DOMAIN v : Fitting(v, args) = {i}
    BY <1>3, <2>2 DEF Get
  <2> QED BY <1>3, <2>1, <2>2
<1> QED BY <1>2, <1>3
-----------------------------------------------------------------------------
LEMMA InitIInv == Init => IInv
<1> SUFFICES ASSUME Init PROVE IInv
  OBVIOUS
<1>1. \A n \in Names : table[n] = <<>>
  BY DEF Init
<1>2. TypeOK
  BY <1>1 DEF Init, TypeOK
<1>3. TagsDistinct
  BY <1>1 DEF TagsDistinct
<1>4. Covered
  BY DEF Init, Covered
<1> QED BY <1>2, <1>3, <1>4 DEF IInv

(* The table of n after a declaration: as it was, because it had a         *)
(* function with the tag, or with one more function at its end.            *)
LEMMA InsertedLemma ==
  ASSUME TypeOK, NEW n \in Names, NEW args \in ArgLists, NEW varargs \in BOOLEAN,
         Insert(n, args, varargs)
  PROVE  LET f == Declared(args, varargs)
             v == table[n]
         IN  /\ f \in Function /\ v \in Seq(Function)
             /\ table' \in [Names -> Seq(Function)]
             /\ \A m \in Names \ {n} : table'[m] = table[m]
             /\ \/ /\ table'[n] = v
                   /\ \E i \in DOMAIN v : Tag(v[i].args) = Tag(args)
                \/ /\ table'[n] = Append(v, f)
                   /\ \A i \in DOMAIN v : Tag(v[i].args) # Tag(args)
<1> DEFINE f == Declared(args, varargs)
           v == table[n]
<1>1. f \in Function /\ f.args = args
  <2>1. Len(declared) + 1 \in Nat /\ args \in Seq(Type)
    BY ArgListsAssumption DEF TypeOK
  <2> QED BY <2>1 DEF Declared, Function
<1>2. v \in Seq(Function) /\ table \in [Names -> Seq(Function)]
  BY DEF TypeOK
<1>3. table' = [table EXCEPT ![n] = Inserted(v, f)]
  BY <1>2 DEF Insert
<1> HIDE DEF f
<1>4. \/ Inserted(v, f) = v /\ \E i \in DOMAIN v : Tag(v[i].args) = Tag(args)
      \/ Inserted(v, f) = Append(v, f)
         /\ \A i \in DOMAIN v : Tag(v[i].args) # Tag(args)
  BY <1>1 DEF Inserted
<1>5. Inserted(v, f) \in Seq(Function)
  BY <1>1, <1>2, <1>4
<1> QED BY <1>1, <1>2, <1>3, <1>4, <1>5 DEF f

LEMMA NextIInv ==
  ASSUME IInv, NEW n \in Names, NEW args \in ArgLists, NEW varargs \in BOOLEAN,
         Insert(n, args, varargs)
  PROVE  IInv'
<1> DEFINE f == Declared(args, varargs)
           v == table[n]
           d == [name |-> n, args |-> args, varargs |-> varargs]
<1>1. TypeOK /\ TagsDistinct /\ Covered
  BY DEF IInv
<1>2. /\ f \in Function /\ v \in Seq(Function)
      /\ table' \in [Names -> Seq(Function)]
      /\ \A m \in Names \ {n} : table'[m] = table[m]
      /\ \/ /\ table'[n] = v
            /\ \E i \in DOMAIN v : Tag(v[i].args) = Tag(args)
         \/ /\ table'[n] = Append(v, f)
            /\ \A i \in DOMAIN v : Tag(v[i].args) # Tag(args)
  BY <1>1, InsertedLemma
<1>3. f.args = args /\ f.varargs = varargs /\ f.value = Len(declared) + 1
  BY DEF Declared
<1>4. declared' = Append(declared, d) /\ declared \in Seq([name : Names, args : ArgLists, varargs : BOOLEAN])
  BY <1>1 DEF Insert, TypeOK
<1>5. d \in [name : Names, args : ArgLists, varargs : BOOLEAN]
  OBVIOUS
<1>6. d.name = n /\ d.args = args
  OBVIOUS
<1> HIDE DEF f, d
<1>7. /\ declared' \in Seq([name : Names, args : ArgLists, varargs : BOOLEAN])
      /\ DOMAIN declared' = 1 .. Len(declared) + 1
      /\ \A i \in DOMAIN declared : i \in DOMAIN declared' /\ declared'[i] = declared[i]
      /\ declared'[Len(declared) + 1] = d
      /\ Len(declared) \in Nat /\ DOMAIN declared = 1 .. Len(declared)
  BY <1>4, <1>5
<1>8. ASSUME table'[n] = Append(v, f)
      PROVE  /\ DOMAIN table'[n] = 1 .. Len(v) + 1
             /\ \A i \in DOMAIN v : i \in DOMAIN table'[n] /\ table'[n][i] = v[i]
             /\ table'[n][Len(v) + 1] = f
             /\ DOMAIN v = 1 .. Len(v) /\ Len(v) \in Nat
  BY <1>2, <1>8
<1>9. TypeOK'
  <2>1. ASSUME NEW m \in Names, NEW i \in DOMAIN table'[m]
        PROVE  /\ table'[m][i].value \in DOMAIN declared'
               /\ declared'[table'[m][i].value] =
                    [name |-> m, args |-> table'[m][i].args, varargs |-> table'[m][i].varargs]
    <3>1. CASE i \in DOMAIN table[m] /\ table'[m][i] = table[m][i]
      BY <1>1, <1>7, <3>1 DEF TypeOK
    <3>2. CASE m = n /\ table'[n] = Append(v, f) /\ i = Len(v) + 1
      BY <1>3, <1>7, <1>8, <3>2 DEF d
    <3>3. CASE m = n /\ table'[n] = Append(v, f) /\ i # Len(v) + 1
      <4>1. i \in DOMAIN v
        BY <1>8, <3>3
      <4> QED BY <1>8, <3>1, <3>3, <4>1
    <3> QED BY <1>2, <3>1, <3>2, <3>3
  <2> QED BY <1>2, <1>7, <2>1 DEF TypeOK
<1>10. TagsDistinct'
  <2> SUFFICES ASSUME NEW m \in Names, NEW i \in DOMAIN table'[m], NEW j \in DOMAIN table'[m],
                      Tag(table'[m][i].args) = Tag(table'[m][j].args)
               PROVE  i = j
    BY DEF TagsDistinct
  <2>1. CASE table'[m] = table[m]
    BY <1>1, <2>1 DEF TagsDistinct
  <2>2. CASE m = n /\ table'[n] = Append(v, f) /\ \A k \in DOMAIN v : Tag(v[k].args) # Tag(args)
    <3>1. \A k \in DOMAIN table'[n] : k \in DOMAIN v \/ k = Len(v) + 1
      BY <1>8, <2>2
    <3>2. CASE i \in DOMAIN v /\ j \in DOMAIN v
      BY <1>1, <1>8, <2>2, <3>2 DEF TagsDistinct
    <3>3. CASE i = Len(v) + 1 /\ j \in DOMAIN v
      BY <1>3, <1>8, <2>2, <3>3
    <3>4. CASE i \in DOMAIN v /\ j = Len(v) + 1
      BY <1>3, <1>8, <2>2, <3>4
    <3> QED BY <2>2, <3>1, <3>2, <3>3, <3>4
  <2> QED BY <1>2, <2>1, <2>2
<1>11. Covered'
  <2> SUFFICES ASSUME NEW i \in DOMAIN declared'
               PROVE  \E k \in DOMAIN table'[declared'[i].name] :
                        Tag(table'[declared'[i].name][k].args) = Tag(declared'[i].args)
    BY DEF Covered
  <2>1. CASE i \in DOMAIN declared
    <3>1. declared'[i] = declared[i] /\ declared[i].name \in Names
      <4> DEFINE D == [name : Names, args : ArgLists, varargs : BOOLEAN]
      <4>1. declared \in Seq(D)
        BY <1>4
      <4> HIDE DEF D
      <4>2. declared[i] \in D
        BY <2>1, <4>1
      <4> QED BY <1>7, <2>1, <4>2 DEF D
    <3>2. PICK k \in DOMAIN table[declared[i].name] :
            Tag(table[declared[i].name][k].args) = Tag(declared[i].args)
      BY <1>1, <2>1 DEF Covered
    <3>3. k \in DOMAIN table'[declared[i].name]
          /\ table'[declared[i].name][k] = table[declared[i].name][k]
      BY <1>2, <1>8, <3>1, <3>2
    <3> QED BY <3>1, <3>2, <3>3
  <2>2. CASE i = Len(declared) + 1
    <3>1. declared'[i].name = n /\ declared'[i].args = args
      BY <1>6, <1>7, <2>2
    <3>2. CASE table'[n] = v /\ \E k \in DOMAIN v : Tag(v[k].args) = Tag(args)
      BY <3>1, <3>2
    <3>3. CASE table'[n] = Append(v, f)
      <4>1. Len(v) + 1 \in DOMAIN table'[n] /\ table'[n][Len(v) + 1].args = args
        BY <1>3, <1>8, <3>3
      <4> QED BY <3>1, <4>1
    <3> QED BY <1>2, <3>2, <3>3
  <2> QED BY <1>7, <2>1, <2>2
<1> QED BY <1>9, <1>10, <1>11 DEF IInv

THEOREM SpecIInv == Spec => []IInv
<1>1. IInv /\ [Next]_vars => IInv'
  <2> SUFFICES ASSUME IInv, [Next]_vars PROVE IInv'
    OBVIOUS
  <2>1. CASE Next
    BY <2>1, NextIInv DEF Next
  <2>2. CASE UNCHANGED vars
    BY <2>2 DEF vars, IInv, TypeOK, TagsDistinct, Covered
  <2> QED BY <2>1, <2>2
<1> QED BY InitIInv, <1>1, PTL DEF Spec
-----------------------------------------------------------------------------
(* The table holds functions that were declared. *)
THEOREM TypeCorrect == Spec => []TypeOK
BY SpecIInv, PTL DEF IInv

(* A function Get() chooses has as many parameters as the call has         *)
(* arguments, or takes "...": the visitor may index its parameters.        *)
THEOREM ArityAlwaysMatches == Spec => []ArityMatches
<1>1. TypeOK => ArityMatches
  <2> SUFFICES ASSUME TypeOK, NEW n \in Names, NEW args \in ArgLists,
                      Get(table[n], args) # 0, ~table[n][Get(table[n], args)].varargs
               PROVE  Len(table[n][Get(table[n], args)].args) = Len(args)
    BY DEF ArityMatches
  <2> DEFINE v == table[n]
             r == Get(v, args)
  <2>1. v \in Seq(Function) /\ args \in Seq(Type)
    BY ArgListsAssumption DEF TypeOK
  <2>2. r \in Direct(v, args) \/ (r \in DOMAIN v /\ Fitting(v, args) = {r})
    BY <2>1, GetLemma
  <2>3. CASE r \in Direct(v, args)
    <3>1. r \in DOMAIN v /\ Tag(v[r].args) = Tag(args)
      BY <2>3 DEF Direct
    <3>2. v[r] \in Function
      BY <2>1, <3>1
    <3>3. v[r].args \in Seq(Type)
      BY <3>2 DEF Function
    <3> QED BY <2>1, <3>1, <3>3, TagLemma
  <2>4. CASE r \in DOMAIN v /\ Fitting(v, args) = {r}
    BY <2>4 DEF Fitting
  <2> QED BY <2>2, <2>3, <2>4
<1> QED BY <1>1, TypeCorrect, PTL

(* A call that has an exact match, or a function that takes "...", keeps   *)
(* its meaning whatever is declared later.                                 *)
THEOREM BindingsStable == Spec => EarlyBindingStable
<1>1. TypeOK /\ [Next]_vars =>
        [\A n \in Names, args \in ArgLists :
           Direct(table[n], args) # {} =>
             Get(table'[n], args) = Get(table[n], args)]_vars
  <2> SUFFICES ASSUME TypeOK, Next, NEW n \in Names, NEW args \in ArgLists,
                      Direct(table[n], args) # {}
               PROVE  Get(table'[n], args) = Get(table[n], args)
    OBVIOUS
  <2> DEFINE v == table[n]
             w == table'[n]
  <2>1. \/ w = v
        \/ \E f \in Function : w = Append(v, f)
    <3>1. PICK m \in Names, params \in ArgLists, varargs \in BOOLEAN :
            Insert(m, params, varargs)
      BY DEF Next
    <3> QED BY <3>1, InsertedLemma
  <2>2. v \in Seq(Function)
    BY DEF TypeOK
  <2>3. ASSUME NEW f \in Function, w = Append(v, f)
        PROVE  Get(w, args) = Get(v, args)
    <3>1. /\ w \in Seq(Function) /\ DOMAIN w = 1 .. Len(v) + 1
          /\ DOMAIN v = 1 .. Len(v) /\ Len(v) \in Nat
          /\ \A i \in DOMAIN v : w[i] = v[i]
      BY <2>2, <2>3
    <3> HIDE DEF v, w
    <3>2. \A i \in DOMAIN v : i \in Direct(w, args) <=> i \in Direct(v, args)
      BY <3>1 DEF Direct
    <3>3. Direct(v, args) \subseteq DOMAIN v /\ Direct(w, args) \subseteq DOMAIN w
      BY DEF Direct
    <3>4. Direct(v, args) # {} /\ Direct(w, args) # {}
      BY <3>1, <3>2, <3>3 DEF v
    <3>5. /\ Get(v, args) \in Direct(v, args) /\ \A j \in Direct(v, args) : Get(v, args) <= j
          /\ Get(w, args) \in Direct(w, args) /\ \A j \in Direct(w, args) : Get(w, args) <= j
      BY <2>2, <3>1, <3>4, GetLemma
    <3>6. Get(v, args) \in DOMAIN v /\ Get(v, args) \in Direct(w, args)
          /\ Get(w, args) \in DOMAIN w
      BY <3>2, <3>3, <3>5
    <3>7. Get(w, args) <= Get(v, args)
      BY <3>5, <3>6
    <3>8. Get(w, args) \in DOMAIN v
      BY <3>1, <3>6, <3>7
    <3>9. Get(v, args) <= Get(w, args)
      BY <3>2, <3>5, <3>8
    <3> QED BY <3>1, <3>6, <3>7, <3>8, <3>9
  <2> QED BY <2>1, <2>3
<1> QED BY <1>1, TypeCorrect, PTL DEF Spec, EarlyBindingStable

(* For names whose parameter lists differ in more than the width of an     *)
(* integer and that take no "...", Get() follows the match rule.           *)
THEOREM MatchRuleFollowed == Spec => []MatchRule
<1>1. IInv => MatchRule
  <2> SUFFICES ASSUME IInv, NEW n \in Names, NEW args \in ArgLists, Plain(n, args)
               PROVE  FollowsRule(n, args)
    BY DEF MatchRule
  <2> DEFINE v == table[n]
             r == Get(v, args)
             S == Signatures(n)
  <2>1. TypeOK /\ TagsDistinct /\ Covered
    BY DEF IInv
  <2>2. v \in Seq(Function) /\ declared \in Seq([name : Names, args : ArgLists, varargs : BOOLEAN])
    BY <2>1 DEF TypeOK
  <2>3. /\ \A i \in DOMAIN v : v[i].args \in S /\ ~v[i].varargs
        /\ \A i, j \in DOMAIN v : v[i].args = v[j].args => i = j
    <3>1. ASSUME NEW i \in DOMAIN v
          PROVE  v[i].args \in S /\ ~v[i].varargs
      <4>1. /\ v[i].value \in DOMAIN declared
            /\ declared[v[i].value] = [name |-> n, args |-> v[i].args, varargs |-> v[i].varargs]
        BY <2>1 DEF TypeOK
      <4>2. /\ declared[v[i].value].name = n /\ declared[v[i].value].args = v[i].args
            /\ declared[v[i].value].varargs = v[i].varargs
        BY <4>1
      <4> QED BY <4>1, <4>2 DEF Signatures, Plain
    <3> QED BY <2>1, <3>1 DEF TagsDistinct
  <2>4. \A s \in S : \E i \in DOMAIN v : v[i].args = s
    <3> SUFFICES ASSUME NEW k \in DOMAIN declared, declared[k].name = n
                 PROVE  \E i \in DOMAIN v : v[i].args = declared[k].args
      BY DEF Signatures
    <3>1. PICK i \in DOMAIN v : Tag(v[i].args) = Tag(declared[k].args)
      BY <2>1 DEF Covered
    <3>2. declared[k].args \in S
      BY DEF Signatures
    <3> QED BY <2>3, <3>1, <3>2 DEF Plain
  <2>5. \A i \in DOMAIN v : i \in Direct(v, args) <=> v[i].args = args
    BY <2>3 DEF Direct, Plain
  <2>6. \A i \in DOMAIN v : i \in Fitting(v, args) <=> Casts(args, v[i].args)
    BY DEF Fitting, Casts
  <2>7. Direct(v, args) \subseteq DOMAIN v /\ Fitting(v, args) \subseteq DOMAIN v
    BY DEF Direct, Fitting
  <2>8. /\ Direct(v, args) # {} => r \in Direct(v, args)
        /\ Direct(v, args) = {} =>
             \/ r = 0 /\ ~\E i \in DOMAIN v : Fitting(v, args) = {i}
             \/ r \in DOMAIN v /\ Fitting(v, args) = {r}
    BY <2>2, GetLemma
  <2>9. 0 \notin DOMAIN v
    BY <2>2
  <2> HIDE DEF v, r, S
  <2>10. CASE args \in S
    <3>1. r \in DOMAIN v /\ v[r].args = args
      BY <2>4, <2>5, <2>7, <2>8, <2>10
    <3> QED BY <2>9, <2>10, <3>1 DEF FollowsRule, Matches, v, r, S
  <2>11. CASE args \notin S
    <3>1. Direct(v, args) = {}
      BY <2>3, <2>5, <2>7, <2>11
    <3>2. CASE r = 0 /\ ~\E i \in DOMAIN v : Fitting(v, args) = {i}
      <4>1. ASSUME NEW s \in S, {p \in S : Casts(args, p)} = {s}
            PROVE  FALSE
        <5>1. PICK i \in DOMAIN v : v[i].args = s
          BY <2>4, <4>1
        <5>2. i \in Fitting(v, args)
          BY <2>6, <4>1, <5>1
        <5>3. \A j \in Fitting(v, args) : j = i
          BY <2>3, <2>6, <2>7, <4>1, <5>1
        <5>4. Fitting(v, args) = {i}
          BY <5>2, <5>3
        <5> QED BY <3>2, <5>4
      <4> QED BY <2>11, <3>2, <4>1 DEF FollowsRule, Matches, v, r, S
    <3>3. CASE r \in DOMAIN v /\ Fitting(v, args) = {r}
      <4>1. Casts(args, v[r].args) /\ v[r].args \in S
        BY <2>3, <2>6, <3>3
      <4>2. \A p \in S : Casts(args, p) => p = v[r].args
        <5> SUFFICES ASSUME NEW p \in S, Casts(args, p) PROVE p = v[r].args
          OBVIOUS
        <5>1. PICK i \in DOMAIN v : v[i].args = p
          BY <2>4
        <5>2. i \in Fitting(v, args)
          BY <2>6, <5>1
        <5> QED BY <3>3, <5>1, <5>2
      <4>3. {p \in S : Casts(args, p)} = {v[r].args}
        BY <4>1, <4>2
      <4> QED BY <2>9, <2>11, <3>3, <4>3 DEF FollowsRule, Matches, v, r, S
    <3> QED BY <2>8, <3>1, <3>2, <3>3
  <2> QED BY <2>10, <2>11
<1> QED BY <1>1, SpecIInv, PTL
=============================================================================
