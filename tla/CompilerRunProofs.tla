-------------------------- MODULE CompilerRunProofs --------------------------
(***************************************************************************)
(* CompilerRun and the parts it is made of: the tags of UniqueSymtable,    *)
(* the form of the JSON file, which files a run leaves behind, that its    *)
(* tree is that of its source, and the JSON file the tree; for all         *)
(* sources, options, faults and numbers of runs.                           *)
(***************************************************************************)
EXTENDS CompilerRun, Induction, FiniteSetTheorems, SequenceTheorems, TLAPS
-----------------------------------------------------------------------------
(* UniqueSymtable: tags denote names as long as there are fewer names than *)
(* ids, and the table implements Interner.                                 *)

(* A sequence is a function on the numbers up to its length.               *)
LEMMA SeqIsFunction ==
  ASSUME NEW S, NEW q \in Seq(S)
  PROVE  q \in [1 .. Len(q) -> S]
OBVIOUS

(* A name that is not in the table gets the next id, and no other does.    *)
LEMMA InsertIsUse ==
  ASSUME TagsDenoteNames, NEW key \in Names, Insert(key)
  PROVE  TagsDenoteNames' /\ (Tags!Use(key) \/ UNCHANGED map)
<1>1. CASE Id(key) > 0
  BY <1>1 DEF Insert, TagsDenoteNames
<1>2. CASE ~(Id(key) > 0)
  <2>1. key \notin DOMAIN map
    BY <1>2 DEF Id, TagsDenoteNames
  <2>2. /\ vec' = Append(vec, key) /\ vec' \in Seq(Names) /\ Len(vec') = Len(vec) + 1
        /\ \A i \in 1 .. Len(vec) : vec'[i] = vec[i]
        /\ vec'[Len(vec) + 1] = key
    BY <1>2 DEF Insert, TagsDenoteNames
  <2>3. Len(vec') < IdModulus
    <3>1. Cardinality(Names) \in Nat
      BY NamesAssumption, FS_CardinalityType
    <3>2. key \notin {vec[i] : i \in DOMAIN vec}
      BY <2>1 DEF TagsDenoteNames
    <3>3. Len(vec') <= Cardinality(Names)
      <4> DEFINE S == 1 .. Len(vec')
      <4>0. Len(vec') \in Int /\ Len(vec') > 0 /\ 1 \in Int
        BY <2>2 DEF TagsDenoteNames
      <4>1. Cardinality(S) = Len(vec')
        BY <4>0, FS_Interval, SMTT(40)
      <4>2. \A i, j \in S : vec'[i] = vec'[j] => i = j
        BY <2>2, <3>2 DEF TagsDenoteNames
      <4>3. vec' \in Injection(S, Names)
        <5>1. vec' \in [S -> Names]
          BY <2>2, SeqIsFunction
        <5> QED BY <4>2, <5>1 DEF Injection, IsInjective
      <4>4. Cardinality(S) <= Cardinality(Names)
        BY <4>1, <4>3, NamesAssumption, FS_Injection
      <4> QED BY <4>1, <4>4
    <3> QED BY <2>2, <3>1, <3>3, NamesAssumption, IdModulusAssumption DEF TagsDenoteNames
  <2>4. Len(vec') % IdModulus = Len(vec) + 1
    BY <2>2, <2>3, IdModulusAssumption DEF TagsDenoteNames
  <2>5. map' = [n \in DOMAIN map \cup {key} |-> IF n = key THEN Len(vec) + 1 ELSE map[n]]
    BY <1>2, <2>1, <2>4 DEF Insert
  <2>6. TagsDenoteNames'
    <3>1. DOMAIN map' = {vec'[i] : i \in DOMAIN vec'}
      BY <2>2, <2>5 DEF TagsDenoteNames
    <3>2. \A i \in DOMAIN vec' : map'[vec'[i]] = i
      BY <2>1, <2>2, <2>5 DEF TagsDenoteNames
    <3> QED BY <2>2, <3>1, <3>2 DEF TagsDenoteNames
  <2>7. Tags!Use(key)
    <3>1. Len(vec) + 1 \in Nat \ {0}
      BY DEF TagsDenoteNames
    <3>2. \A m \in DOMAIN map : map[m] # Len(vec) + 1
      BY DEF TagsDenoteNames
    <3> QED BY <2>1, <2>5, <3>1, <3>2 DEF Tags!Use
  <2> QED BY <2>6, <2>7
<1> QED BY <1>1, <1>2

(* Tags denote names in every state of the table.                          *)
THEOREM TagsAlwaysDenoteNames == TableSpec => []TagsDenoteNames
<1>1. TableInit => TagsDenoteNames
  BY DEF TableInit, TagsDenoteNames
<1>2. TagsDenoteNames /\ [TableNext]_<<vec, map>> => TagsDenoteNames'
  BY InsertIsUse DEF TableNext, TagsDenoteNames
<1> QED BY <1>1, <1>2, PTL DEF TableSpec

(* The table gives every name a number of its own and never another one.   *)
THEOREM TableImplementsInterner == TableSpec => ImplementsInterner
<1>1. TableInit => Tags!Init
  BY DEF TableInit, Tags!Init
<1>2. TagsDenoteNames /\ [TableNext]_<<vec, map>> => [Tags!Next]_map
  BY InsertIsUse DEF TableNext, Tags!Next
<1> QED BY <1>1, <1>2, TagsAlwaysDenoteNames, PTL DEF TableSpec, ImplementsInterner, Tags!Spec
-----------------------------------------------------------------------------
(* JsonDumper: the text is well-formed for every tree.  The dumper has one *)
(* flag for all the objects that are open; the invariant says which one it *)
(* is about, and that the others cannot be empty.                          *)

IsSequence(q) == \E T : q \in Seq(T)

LEMMA SequenceLength ==
  ASSUME NEW q, IsSequence(q)
  PROVE  Len(q) \in Nat /\ (q = <<>> <=> Len(q) = 0)
BY DEF IsSequence

LEMMA AppendSequence ==
  ASSUME NEW q, NEW x, IsSequence(q)
  PROVE  /\ IsSequence(Append(q, x))
         /\ Len(Append(q, x)) = Len(q) + 1
         /\ \A i \in 1 .. Len(q) : Append(q, x)[i] = q[i]
         /\ Append(q, x)[Len(q) + 1] = x
<1>1. PICK T : q \in Seq(T)
  BY DEF IsSequence
<1> DEFINE U == T \cup {x}
<1>2. q \in Seq(U) /\ Append(q, x) \in Seq(U)
  BY <1>1
<1> HIDE DEF U
<1>3. IsSequence(Append(q, x))
  BY <1>2 DEF IsSequence
<1> QED BY <1>1, <1>3

LEMMA ExceptSequence ==
  ASSUME NEW q, NEW x, NEW k \in 1 .. Len(q), IsSequence(q)
  PROVE  /\ IsSequence([q EXCEPT ![k] = x])
         /\ Len([q EXCEPT ![k] = x]) = Len(q)
         /\ \A i \in 1 .. Len(q) : [q EXCEPT ![k] = x][i] = IF i = k THEN x ELSE q[i]
<1>1. PICK T : q \in Seq(T)
  BY DEF IsSequence
<1> DEFINE U == T \cup {x}
<1>2. q \in Seq(U) /\ x \in U
  BY <1>1
<1> HIDE DEF U
<1>3. [q EXCEPT ![k] = x] \in Seq(U) /\ Len([q EXCEPT ![k] = x]) = Len(q)
  BY <1>2
<1>4. IsSequence([q EXCEPT ![k] = x])
  BY <1>3 DEF IsSequence
<1> QED BY <1>2, <1>3, <1>4

LEMMA FrontSequence ==
  ASSUME NEW q, IsSequence(q), q # <<>>
  PROVE  /\ IsSequence(Front(q))
         /\ Len(Front(q)) = Len(q) - 1
         /\ \A i \in 1 .. Len(q) - 1 : Front(q)[i] = q[i]
<1>1. PICK T : q \in Seq(T)
  BY DEF IsSequence
<1>2. /\ Front(q) \in Seq(T) /\ Len(Front(q)) = Len(q) - 1
      /\ \A i \in 1 .. Len(q) - 1 : Front(q)[i] = q[i]
  <2> DEFINE n == Len(q) - 1
  <2>1. n \in Nat /\ Len(q) = n + 1
    BY <1>1
  <2>2. Front(q) = SubSeq(q, 1, n)
    BY DEF Front
  <2> HIDE DEF n
  <2>3. /\ SubSeq(q, 1, n) \in Seq(T) /\ Len(SubSeq(q, 1, n)) = n
        /\ \A i \in 1 .. n : SubSeq(q, 1, n)[i] = q[i]
    BY <1>1, <2>1
  <2>4. Len(q) - 1 = n
    BY DEF n
  <2> QED BY <2>2, <2>3, <2>4
<1>3. IsSequence(Front(q))
  BY <1>2 DEF IsSequence
<1> QED BY <1>2, <1>3
-----------------------------------------------------------------------------
(* The object that is written to has a member, or the flag is set; those   *)
(* around it have one.                                                     *)
Objects ==
  /\ Len(reader.members) = Len(calls)
  /\ \A i \in 1 .. Len(calls) : reader.members[i] \in Nat
  /\ \A i \in 1 .. Len(calls) - 1 : reader.members[i] > 0
  /\ calls # <<>> => (block_head <=> reader.members[Len(calls)] = 0)

Sequences3 == IsSequence(calls) /\ IsSequence(doc) /\ IsSequence(reader.members)

Excused ==
  reader.refused => \E i \in DOMAIN doc : doc[i][1] = "terminal" /\ ~Readable(doc[i][4])

DumpInv == Sequences3 /\ Objects /\ Excused /\ block_head \in BOOLEAN /\ reader.refused \in BOOLEAN

LEMMA DumperStarts == DumperInit => DumpInv
<1> SUFFICES ASSUME DumperInit PROVE DumpInv
  OBVIOUS
<1>1. IsSequence(<<>>)
  <2>1. <<>> \in Seq({})
    OBVIOUS
  <2> QED BY <2>1 DEF IsSequence
<1> QED BY <1>1 DEF DumperInit, DumpInv, Sequences3, Objects, Excused

LEMMA ConstructKeeps ==
  ASSUME DumpInv, NEW tree, Construct(tree)
  PROVE  DumpInv'
<1>1. /\ calls' = <<<<tree>>>> /\ block_head' = TRUE /\ doc' = <<>>
      /\ reader'.members = <<0>> /\ reader'.refused = FALSE
  BY DEF Construct
<1>2. IsSequence(calls') /\ IsSequence(doc') /\ IsSequence(reader'.members)
  <2>1. calls' \in Seq({<<tree>>}) /\ doc' \in Seq({}) /\ reader'.members \in Seq({0})
    BY <1>1
  <2> QED BY <2>1 DEF IsSequence
<1>3. Objects'
  BY <1>1 DEF Objects
<1> QED BY <1>1, <1>2, <1>3 DEF DumpInv, Sequences3, Excused

(* The comma before a member is where it belongs.                          *)
LEMMA MemberRead ==
  ASSUME DumpInv, calls # <<>>, NEW legal \in BOOLEAN
  PROVE  LET r == ReadMember(~block_head, legal)
         IN  /\ IsSequence(r.members) /\ Len(r.members) = Len(calls)
             /\ \A i \in 1 .. Len(calls) : r.members[i] \in Nat \ {0}
             /\ r.refused <=> (reader.refused \/ ~legal)
<1>1. Len(calls) \in Nat /\ Len(calls) > 0 /\ Len(reader.members) = Len(calls)
  BY SequenceLength DEF DumpInv, Sequences3, Objects
<1> DEFINE k == Len(reader.members)
<1> DEFINE new == [reader.members EXCEPT ![k] = reader.members[k] + 1]
<1>2. /\ IsSequence(new) /\ Len(new) = Len(calls)
      /\ \A i \in 1 .. Len(calls) :
           new[i] = IF i = k THEN reader.members[k] + 1 ELSE reader.members[i]
  <2>1. IsSequence(reader.members) /\ k \in 1 .. Len(reader.members) /\ k = Len(calls)
    BY <1>1 DEF DumpInv, Sequences3
  <2> DEFINE M == reader.members
  <2> DEFINE x == M[k] + 1
  <2>2. IsSequence(M) /\ k \in 1 .. Len(M) /\ new = [M EXCEPT ![k] = x]
    BY <2>1
  <2> HIDE DEF k, M, x, new
  <2>3. /\ IsSequence([M EXCEPT ![k] = x]) /\ Len([M EXCEPT ![k] = x]) = Len(M)
        /\ \A i \in 1 .. Len(M) : [M EXCEPT ![k] = x][i] = IF i = k THEN x ELSE M[i]
    <3>1. IsSequence(M) /\ k \in 1 .. Len(M)
      BY <2>2
    <3> QED BY ONLY <3>1, ExceptSequence, ZenonT(60)
  <2>4. M = reader.members /\ x = M[k] + 1
    BY DEF M, x
  <2> QED BY <1>1, <2>2, <2>3, <2>4
<1>3. \A i \in 1 .. Len(calls) : new[i] \in Nat \ {0}
  BY <1>1, <1>2 DEF DumpInv, Objects
<1>4. ~block_head <=> Last(reader.members) > 0
  BY <1>1 DEF DumpInv, Objects, Last
<1>5. /\ ReadMember(~block_head, legal).members = new
      /\ ReadMember(~block_head, legal).refused <=>
           (reader.refused \/ ~legal \/ ~(~block_head <=> Last(reader.members) > 0))
  <2>1. ReadMember(~block_head, legal).members = new
    BY DEF ReadMember
  <2>2. ReadMember(~block_head, legal).refused <=>
           (reader.refused \/ ~legal \/ ~(~block_head <=> Last(reader.members) > 0))
    BY DEF ReadMember
  <2> QED BY <2>1, <2>2
<1>6. ReadMember(~block_head, legal).refused <=> (reader.refused \/ ~legal)
  BY <1>4, <1>5
<1> HIDE DEF new
<1> QED BY <1>2, <1>3, <1>5, <1>6

(* What has been written stays written.                                    *)
LEMMA DocumentGrows ==
  ASSUME IsSequence(doc), NEW entry, doc' = Append(doc, entry)
  PROVE  /\ IsSequence(doc')
         /\ Excused /\ (reader'.refused => reader.refused) => Excused'
         /\ entry[1] = "terminal" /\ ~Readable(entry[4]) => Excused'
<1>1. /\ IsSequence(doc') /\ Len(doc') = Len(doc) + 1
      /\ \A i \in 1 .. Len(doc) : doc'[i] = doc[i]
      /\ doc'[Len(doc) + 1] = entry
  BY AppendSequence
<1>2. DOMAIN doc = 1 .. Len(doc) /\ DOMAIN doc' = 1 .. Len(doc') /\ Len(doc) \in Nat
  BY <1>1 DEF IsSequence
<1> QED BY <1>1, <1>2 DEF Excused

LEMMA AdvanceKeeps ==
  ASSUME IsSequence(calls), calls # <<>>
  PROVE  IsSequence(Advance) /\ Len(Advance) = Len(calls)
<1>1. Len(calls) \in Nat /\ Len(calls) > 0
  BY SequenceLength
<1> DEFINE k == Len(calls)
<1> DEFINE rest == Tail(calls[k])
<1>2. Advance = [calls EXCEPT ![k] = rest] /\ k \in 1 .. Len(calls)
  BY <1>1 DEF Advance
<1> HIDE DEF k, rest
<1> QED BY <1>2, ExceptSequence

LEMMA TerminalKeeps ==
  ASSUME DumpInv, VisitTerminal
  PROVE  DumpInv'
<1> DEFINE r == ReadMember(~block_head, Readable(Here.text))
<1> DEFINE entry == <<"terminal", terminal_id, Here.type, Here.text>>
<1>1. /\ calls # <<>> /\ block_head' = FALSE /\ reader' = r
      /\ calls' = Advance /\ doc' = Append(doc, entry)
  BY DEF VisitTerminal
<1>2. entry[1] = "terminal" /\ entry[4] = Here.text
  OBVIOUS
<1>3. Readable(Here.text) \in BOOLEAN
  BY DEF Readable
<1>4. /\ IsSequence(r.members) /\ Len(r.members) = Len(calls)
      /\ \A i \in 1 .. Len(calls) : r.members[i] \in Nat \ {0}
      /\ r.refused <=> (reader.refused \/ ~Readable(Here.text))
  BY <1>1, <1>3, MemberRead
<1> HIDE DEF r, entry
<1>5. IsSequence(calls') /\ Len(calls') = Len(calls) /\ Len(calls) \in Nat
  BY <1>1, AdvanceKeeps, SequenceLength DEF DumpInv, Sequences3
<1>6. Objects'
  BY <1>1, <1>4, <1>5, SequenceLength DEF Objects
<1>7. IsSequence(doc') /\ Excused'
  <2>1. IsSequence(doc) /\ Excused
    BY DEF DumpInv, Sequences3
  <2>2. CASE Readable(Here.text)
    BY <1>1, <1>4, <2>1, <2>2, DocumentGrows
  <2>3. CASE ~Readable(Here.text)
    BY <1>1, <1>2, <2>1, <2>3, DocumentGrows
  <2> QED BY <2>2, <2>3
<1>8. reader'.refused \in BOOLEAN
  BY <1>1, <1>3 DEF r, ReadMember
<1> QED BY <1>1, <1>4, <1>5, <1>6, <1>7, <1>8 DEF DumpInv, Sequences3

LEMMA NonTerminalKeeps ==
  ASSUME DumpInv, VisitNonTerminal
  PROVE  DumpInv'
<1> DEFINE r == ReadMember(~block_head, TRUE)
<1>1. /\ calls # <<>> /\ block_head' = TRUE
      /\ calls' = Append(Advance, Here.kids)
      /\ doc' = Append(doc, <<"symbol", Name(Here.type)>>)
      /\ reader' = [r EXCEPT !.members = Append(r.members, 0)]
  BY DEF VisitNonTerminal
<1>2. /\ IsSequence(r.members) /\ Len(r.members) = Len(calls)
      /\ \A i \in 1 .. Len(calls) : r.members[i] \in Nat \ {0}
      /\ r.refused <=> reader.refused
  BY <1>1, MemberRead
<1>3. /\ reader'.members = Append(r.members, 0)
      /\ reader'.refused <=> r.refused
      /\ reader'.refused \in BOOLEAN
  BY <1>1 DEF ReadMember
<1> HIDE DEF r
<1>4. /\ IsSequence(calls') /\ Len(calls') = Len(calls) + 1 /\ Len(calls) \in Nat
  BY <1>1, AdvanceKeeps, AppendSequence, SequenceLength DEF DumpInv, Sequences3
<1>5. /\ IsSequence(reader'.members) /\ Len(reader'.members) = Len(calls) + 1
      /\ \A i \in 1 .. Len(calls) : reader'.members[i] \in Nat \ {0}
      /\ reader'.members[Len(calls) + 1] = 0
  BY <1>2, <1>3, AppendSequence
<1>6. Objects'
  BY <1>1, <1>4, <1>5 DEF Objects
<1>7. IsSequence(doc') /\ Excused'
  BY <1>1, <1>2, <1>3, DocumentGrows DEF DumpInv, Sequences3
<1> QED BY <1>1, <1>3, <1>4, <1>5, <1>6, <1>7 DEF DumpInv, Sequences3

LEMMA ExitKeeps ==
  ASSUME DumpInv, ExitNonTerminal
  PROVE  DumpInv'
<1>1. /\ Len(calls) > 1 /\ block_head' = FALSE /\ calls' = Front(calls)
      /\ doc' = Append(doc, <<"end">>)
      /\ reader' = [members |-> Front(reader.members), refused |-> reader.refused]
  BY DEF ExitNonTerminal
<1>2. IsSequence(calls) /\ IsSequence(reader.members) /\ calls # <<>> /\ reader.members # <<>>
  BY <1>1, SequenceLength DEF DumpInv, Sequences3, Objects
<1>3. /\ reader'.members = Front(reader.members)
      /\ reader'.refused <=> reader.refused
      /\ reader'.refused \in BOOLEAN
  BY <1>1 DEF DumpInv
<1>4. IsSequence(calls') /\ Len(calls') = Len(calls) - 1
  BY <1>1, <1>2, FrontSequence
<1>5. /\ IsSequence(reader'.members) /\ Len(reader'.members) = Len(reader.members) - 1
      /\ \A i \in 1 .. Len(reader.members) - 1 : reader'.members[i] = reader.members[i]
  BY <1>2, <1>3, FrontSequence
<1>6. Objects'
  <2>1. /\ Len(calls) \in Nat /\ Len(reader.members) = Len(calls)
        /\ \A i \in 1 .. Len(calls) - 1 : reader.members[i] \in Nat /\ reader.members[i] > 0
    BY <1>2, SequenceLength DEF DumpInv, Objects
  <2>2. \A i \in 1 .. Len(calls') : reader'.members[i] \in Nat /\ reader'.members[i] > 0
    BY <1>4, <1>5, <2>1
  <2>3. Len(calls') \in 1 .. Len(calls')
    BY <1>1, <1>4, <2>1
  <2> QED BY <1>1, <1>4, <1>5, <2>1, <2>2, <2>3 DEF Objects
<1>7. IsSequence(doc') /\ Excused'
  BY <1>1, <1>3, DocumentGrows DEF DumpInv, Sequences3
<1> QED BY <1>1, <1>3, <1>4, <1>5, <1>6, <1>7 DEF DumpInv, Sequences3

LEMMA DestructKeeps ==
  ASSUME DumpInv, Destruct
  PROVE  DumpInv'
<1>1. /\ Len(calls) = 1 /\ calls' = <<>> /\ doc' = doc /\ block_head' = block_head
      /\ reader'.members = Front(reader.members)
      /\ reader'.refused <=> (reader.refused \/ Len(reader.members) # 1)
      /\ reader'.refused \in BOOLEAN
  BY DEF Destruct, DumpInv
<1>2. Len(reader.members) = 1 /\ reader.members # <<>> /\ IsSequence(reader.members)
  BY <1>1, SequenceLength DEF DumpInv, Objects, Sequences3
<1>3. IsSequence(reader'.members) /\ Len(reader'.members) = 0
  BY <1>1, <1>2, FrontSequence, SMTT(30)
<1>4. IsSequence(calls') /\ Objects'
  <2>1. <<>> \in Seq({})
    OBVIOUS
  <2>2. IsSequence(<<>>)
    BY <2>1 DEF IsSequence
  <2> QED BY <1>1, <1>3, <2>2 DEF Objects
<1>5. Excused'
  BY <1>1, <1>2 DEF Excused, DumpInv
<1> QED BY <1>1, <1>3, <1>4, <1>5 DEF DumpInv, Sequences3

LEMMA WalkKeeps ==
  ASSUME DumpInv, Walk
  PROVE  DumpInv'
BY TerminalKeeps, NonTerminalKeeps, ExitKeeps DEF Walk

LEMMA DumpInvWellFormed == DumpInv => DumpWellFormed
BY SequenceLength DEF DumpInv, Sequences3, Objects, Excused, DumpWellFormed
-----------------------------------------------------------------------------
(* CompilerRun: which files a run leaves behind.                           *)

Working == {"parse", "dump", "json", "visit", "ir", "obj"}

(* What is settled when Run() is at each of its phases.                    *)
Settled ==
  /\ pc \in Working => s = "OK"
  /\ pc = "visit" => wanted \cap {"ir", "obj"} # {}
  /\ pc = "obj" /\ "ir" \in wanted =>
       ~broken /\ ("ir" \notin faulty => files["ir"] = "complete")

RunInv == TypeOK /\ Settled /\ OutputsComplete /\ JsonSurvives

LEMMA RunStarts == Init => RunInv
BY DEF Init, RunInv, TypeOK, Settled, OutputsComplete, JsonSurvives, Working, Outputs

LEMMA StartRunKeeps ==
  ASSUME RunInv, StartRun
  PROVE  RunInv'
<1>1. wanted' \subseteq Outputs
  BY OptionsAssumption DEF StartRun
<1>2. pc' = "parse" /\ s' = "OK" /\ broken' = FALSE /\ files' = [o \in Outputs |-> "none"]
  BY DEF StartRun
<1> QED BY <1>1, <1>2 DEF RunInv, TypeOK, Settled, OutputsComplete, JsonSurvives, Working

LEMMA ParseKeeps ==
  ASSUME RunInv, ParseStep \/ ParseReturns
  PROVE  RunInv'
<1>1. CASE ParseStep
  BY <1>1 DEF ParseStep, request, result, RunInv, TypeOK, Settled, OutputsComplete,
    JsonSurvives, Working
<1>2. CASE ParseReturns
  BY <1>2 DEF ParseReturns, AfterDump, request, result, RunInv, TypeOK, Settled,
    OutputsComplete, JsonSurvives, Working, Outputs
<1> QED BY <1>1, <1>2

LEMMA DumpKeeps ==
  ASSUME RunInv, StartDump \/ DumpStep \/ FinishDump
  PROVE  RunInv'
<1>1. CASE StartDump
  BY <1>1 DEF StartDump, request, parser, RunInv, TypeOK, Settled, OutputsComplete,
    JsonSurvives, Working, Outputs
<1>2. CASE DumpStep
  BY <1>2 DEF DumpStep, request, result, parser, RunInv, TypeOK, Settled,
    OutputsComplete, JsonSurvives, Working
<1>3. CASE FinishDump
  BY <1>3 DEF FinishDump, AfterDump, request, parser, RunInv, TypeOK, Settled,
    OutputsComplete, JsonSurvives, Working, Outputs
<1> QED BY <1>1, <1>2, <1>3

LEMMA ExportKeeps ==
  ASSUME RunInv, Visit \/ ExportIR \/ ExportObj
  PROVE  RunInv'
<1>1. CASE Visit
  BY <1>1 DEF Visit, Export, request, parser, RunInv, TypeOK, Settled, OutputsComplete,
    JsonSurvives, Working, Outputs
<1>2. CASE ExportIR
  BY <1>2 DEF ExportIR, request, parser, RunInv, TypeOK, Settled, OutputsComplete,
    JsonSurvives, Working, Outputs
<1>3. CASE ExportObj
  BY <1>3 DEF ExportObj, request, parser, RunInv, TypeOK, Settled, OutputsComplete,
    JsonSurvives, Working, Outputs
<1> QED BY <1>1, <1>2, <1>3

LEMMA RunKeeps ==
  ASSUME RunInv, [Next]_vars
  PROVE  RunInv'
<1>1. CASE StartRun
  BY <1>1, StartRunKeeps
<1>2. CASE Step
  BY <1>2, ParseKeeps, DumpKeeps, ExportKeeps DEF Step
<1>3. CASE UNCHANGED vars
  BY <1>3 DEF vars, parser, request, result, RunInv, TypeOK, Settled, OutputsComplete,
    JsonSurvives, Working
<1> QED BY <1>1, <1>2, <1>3 DEF Next

LEMMA RunInvHolds == Spec => []RunInv
BY RunStarts, RunKeeps, PTL DEF Spec

(* Run() works on outputs that were asked for, and its variables have      *)
(* their values.                                                           *)
THEOREM TypeCorrect == Spec => []TypeOK
<1>1. RunInv => TypeOK
  BY DEF RunInv
<1> QED BY <1>1, RunInvHolds, PTL

(* A run that returns OK after a tree was there has written every file it  *)
(* could, but for the object file of a module nobody verified.             *)
THEOREM OutputsAlwaysComplete == Spec => []OutputsComplete
<1>1. RunInv => OutputsComplete
  BY DEF RunInv
<1> QED BY <1>1, RunInvHolds, PTL

(* The JSON file is complete before the visitor can fail.                  *)
THEOREM JsonAlwaysSurvives == Spec => []JsonSurvives
<1>1. RunInv => JsonSurvives
  BY DEF RunInv
<1> QED BY <1>1, RunInvHolds, PTL
-----------------------------------------------------------------------------
LEMMA DumperKeeps ==
  ASSUME DumpInv, [Next]_vars
  PROVE  DumpInv'
<1>1. CASE UNCHANGED dumper
  BY <1>1 DEF dumper, DumpInv, Sequences3, Objects, Excused
<1>2. CASE StartDump
  BY <1>2, ConstructKeeps DEF StartDump
<1>3. CASE DumpStep
  BY <1>3, WalkKeeps DEF DumpStep
<1>4. CASE FinishDump
  BY <1>4, DestructKeeps DEF FinishDump
<1>5. StartRun \/ ParseStep \/ ParseReturns \/ Visit \/ ExportIR \/ ExportObj => UNCHANGED dumper
  BY DEF StartRun, ParseStep, ParseReturns, Visit, ExportIR, ExportObj
<1>6. UNCHANGED vars => UNCHANGED dumper
  BY DEF vars
<1> QED BY <1>1, <1>2, <1>3, <1>4, <1>5, <1>6 DEF Next, Step

(* A reader of JSON accepts what the dumper writes of any tree, at any     *)
(* time, unless a terminal's text is one that filter() lets through.       *)
THEOREM DumpAlwaysWellFormed == Spec => []DumpWellFormed
<1>1. Init => DumpInv
  BY DumperStarts DEF Init
<1>2. Spec => []DumpInv
  BY <1>1, DumperKeeps, PTL DEF Spec
<1> QED BY <1>2, DumpInvWellFormed, PTL
-----------------------------------------------------------------------------
(* The names that are still to be reduced are names of the grammar.        *)
NamesAhead ==
  /\ IsSequence(text)
  /\ \A i \in 1 .. Len(text) : text[i].op = "reduce" => text[i].name \in Names

TagInv == TagsDenoteNames /\ NamesAhead

LEMMA TailAhead ==
  ASSUME NamesAhead, text # <<>>, text' = Tail(text)
  PROVE  NamesAhead'
<1>1. PICK T : text \in Seq(T)
  BY DEF NamesAhead, IsSequence
<1>2. /\ text' \in Seq(T) /\ Len(text') = Len(text) - 1
      /\ \A i \in 1 .. Len(text') : text'[i] = text[i + 1]
  BY <1>1
<1>3. Len(text) \in Nat
  BY <1>1
<1>4. \A i \in 1 .. Len(text') : i + 1 \in 1 .. Len(text)
  BY <1>2, <1>3
<1> QED BY <1>2, <1>4 DEF NamesAhead, IsSequence

LEMMA SourceAhead ==
  ASSUME NamesAhead, NEW src \in Sources, text' = text \o src
  PROVE  NamesAhead'
<1>1. PICK T : text \in Seq(T)
  BY DEF NamesAhead, IsSequence
<1> DEFINE S == {src[i] : i \in DOMAIN src}
<1>2. /\ src \in Seq(S)
      /\ \A i \in DOMAIN src : src[i].op = "reduce" => src[i].name \in Names
  <2>1. src \in Seq(S)
    BY SourcesAssumption
  <2>2. ASSUME NEW i \in DOMAIN src, src[i].op = "reduce" PROVE src[i].name \in Names
    BY <2>2, SourcesAssumption DEF IsOperation
  <2> QED BY <2>1, <2>2
<1> HIDE DEF S
<1> DEFINE U == T \cup S
<1>3. text \in Seq(U) /\ src \in Seq(U)
  BY <1>1, <1>2
<1> HIDE DEF U
<1>4. /\ text' \in Seq(U) /\ Len(text') = Len(text) + Len(src)
      /\ \A i \in 1 .. Len(text') :
           text'[i] = IF i <= Len(text) THEN text[i] ELSE src[i - Len(text)]
  BY <1>3
<1>5. /\ Len(text) \in Nat /\ Len(src) \in Nat /\ DOMAIN src = 1 .. Len(src)
      /\ IsSequence(text')
  BY <1>3, <1>4 DEF IsSequence
<1>6. ASSUME NEW i \in 1 .. Len(text'), text'[i].op = "reduce"
      PROVE  text'[i].name \in Names
  <2>1. CASE i <= Len(text)
    BY <1>4, <1>5, <1>6, <2>1 DEF NamesAhead
  <2>2. CASE i > Len(text)
    <3>1. i - Len(text) \in DOMAIN src /\ text'[i] = src[i - Len(text)]
      BY <1>4, <1>5, <2>2
    <3> QED BY <1>2, <1>6, <3>1
  <2> QED BY <1>5, <2>1, <2>2
<1> QED BY <1>5, <1>6 DEF NamesAhead

(* A reduction uses a name of the grammar; nothing else touches the table. *)
LEMMA ParseUsesNames ==
  ASSUME TagInv, Parse
  PROVE  TagInv' /\ ((\E n \in Names : Tags!Use(n)) \/ UNCHANGED map)
<1>1. text # <<>> /\ text' = Tail(text)
  BY DEF Parse, ShiftToken, ReduceRule, ReduceTranslationUnit
<1>2. NamesAhead'
  BY <1>1, TailAhead DEF TagInv
<1>3. CASE ShiftToken
  BY <1>2, <1>3 DEF ShiftToken, TagInv, TagsDenoteNames
<1>4. CASE ReduceRule
  <2>1. Head(text).op = "reduce" /\ Insert(Head(text).name)
    BY <1>4 DEF ReduceRule, Build
  <2>2. Head(text).name \in Names
    <3>1. Head(text) = text[1] /\ 1 \in 1 .. Len(text)
      BY <1>1 DEF TagInv, NamesAhead, IsSequence
    <3> QED BY <2>1, <3>1 DEF TagInv, NamesAhead
  <2> QED BY <1>2, <2>1, <2>2, InsertIsUse DEF TagInv
<1>5. CASE ReduceTranslationUnit
  <2>1. Insert("translation_unit")
    BY <1>5 DEF ReduceTranslationUnit, Build
  <2> QED BY <1>2, <2>1, SourcesAssumption, InsertIsUse DEF TagInv
<1> QED BY <1>3, <1>4, <1>5 DEF Parse

LEMMA TagStep ==
  ASSUME TagInv, [Next]_vars
  PROVE  TagInv' /\ [Tags!Next]_map
<1>1. CASE ParseStep
  BY <1>1, ParseUsesNames DEF ParseStep, Tags!Next
<1>2. CASE StartRun
  <2>1. PICK src \in Sources : text' = text \o src
    BY <1>2 DEF StartRun
  <2>2. UNCHANGED <<vec, map>>
    BY <1>2 DEF StartRun, table
  <2> QED BY <2>1, <2>2, SourceAhead DEF TagInv, TagsDenoteNames
<1>3. CASE ParseReturns
  <2>1. UNCHANGED <<vec, map>> /\ ((text' = Tail(text) /\ text # <<>>) \/ text' = <<>>)
    BY <1>3 DEF ParseReturns, Rest, table
  <2>2. NamesAhead'
    <3>1. CASE text' = <<>>
      <4>1. <<>> \in Seq({})
        OBVIOUS
      <4> QED BY <3>1, <4>1 DEF NamesAhead, IsSequence
    <3> QED BY <2>1, <3>1, TailAhead DEF TagInv
  <2> QED BY <2>1, <2>2 DEF TagInv, TagsDenoteNames
<1>4. CASE UNCHANGED <<vec, map, text>>
  BY <1>4 DEF TagInv, TagsDenoteNames, NamesAhead
<1>5. StartDump \/ DumpStep \/ FinishDump \/ Visit \/ ExportIR \/ ExportObj =>
        UNCHANGED <<vec, map, text>>
  BY DEF StartDump, DumpStep, FinishDump, Visit, ExportIR, ExportObj, table, parser
<1>6. UNCHANGED vars => UNCHANGED <<vec, map, text>>
  BY DEF vars, table, parser
<1> QED BY <1>1, <1>2, <1>3, <1>4, <1>5, <1>6 DEF Next, Step

LEMMA TagInvHolds == Spec => []TagInv
<1>1. Init => TagInv
  <2>1. <<>> \in Seq({})
    OBVIOUS
  <2> QED BY <2>1 DEF Init, TableInit, ParserInit, TagInv, TagsDenoteNames, NamesAhead, IsSequence
<1> QED BY <1>1, TagStep, PTL DEF Spec

(* In all runs of a process a tag denotes one name, and Untag gives the    *)
(* name that Tag was given.                                                *)
THEOREM TagsDenoteInAllRuns == Spec => []TagsDenoteNames
<1>1. TagInv => TagsDenoteNames
  BY DEF TagInv
<1> QED BY <1>1, TagInvHolds, PTL

(* The compiler uses the table of tags as an interner.                     *)
THEOREM RunImplementsInterner == Spec => ImplementsInterner
<1>1. Init => Tags!Init
  BY DEF Init, TableInit, Tags!Init
<1> QED BY <1>1, TagStep, TagInvHolds, PTL DEF Spec, ImplementsInterner, Tags!Spec
-----------------------------------------------------------------------------
(* TreeOfThisRun and DumpIsTree.  Both compare the tree with a list of its *)
(* symbols: what bison did to make it, and what the dumper writes of it.   *)
(* Listing is defined by recursion over trees; the lemmas of the next      *)
(* three sections are what the proofs need to know of it.                  *)
(*                                                                         *)
(* A walk lists its part for each of the trees in a sequence.              *)
Mapped(q, list) == [i \in DOMAIN q |-> list[q[i]]]

IsMapped(m, q, list, Y) ==
  m \in Seq(Y) /\ Len(m) = Len(q) /\ \A i \in 1 .. Len(q) : m[i] = list[q[i]]

LEMMA MappedSequence ==
  ASSUME NEW T, NEW Y, NEW list \in [T -> Y], NEW q \in Seq(T)
  PROVE  IsMapped(Mapped(q, list), q, list, Y)
<1>1. DOMAIN q = 1 .. Len(q) /\ Len(q) \in Nat /\ \A i \in 1 .. Len(q) : q[i] \in T
  BY LenProperties, ElementOfSeq
<1>2. /\ Mapped(q, list) = [i \in 1 .. Len(q) |-> list[q[i]]]
      /\ \A i \in 1 .. Len(q) : list[q[i]] \in Y
  BY <1>1 DEF Mapped
<1> QED BY <1>1, <1>2 DEF IsMapped

LEMMA MappedConcat ==
  ASSUME NEW T, NEW Y, NEW list \in [T -> Y], NEW p \in Seq(T), NEW q \in Seq(T)
  PROVE  Mapped(p \o q, list) = Mapped(p, list) \o Mapped(q, list)
<1> DEFINE a == Mapped(p, list)
           b == Mapped(q, list)
           c == Mapped(p \o q, list)
<1>1. /\ p \o q \in Seq(T) /\ Len(p \o q) = Len(p) + Len(q)
      /\ Len(p) \in Nat /\ Len(q) \in Nat
      /\ \A i \in 1 .. Len(p) + Len(q) :
           (p \o q)[i] = IF i <= Len(p) THEN p[i] ELSE q[i - Len(p)]
  BY ConcatProperties, LenProperties
<1>2. /\ a \in Seq(Y) /\ Len(a) = Len(p) /\ \A i \in 1 .. Len(p) : a[i] = list[p[i]]
      /\ b \in Seq(Y) /\ Len(b) = Len(q) /\ \A i \in 1 .. Len(q) : b[i] = list[q[i]]
  <2>1. IsMapped(a, p, list, Y) /\ IsMapped(b, q, list, Y)
    BY MappedSequence, Zenon
  <2> HIDE DEF a, b
  <2> QED BY <2>1 DEF IsMapped
<1>3. /\ c \in Seq(Y) /\ Len(c) = Len(p) + Len(q)
      /\ \A i \in 1 .. Len(p) + Len(q) : c[i] = list[(p \o q)[i]]
  <2>1. p \o q \in Seq(T) /\ Len(p \o q) = Len(p) + Len(q)
    BY <1>1
  <2>2. IsMapped(c, p \o q, list, Y)
    BY <2>1, MappedSequence, Zenon
  <2> HIDE DEF c
  <2> QED BY <2>1, <2>2 DEF IsMapped
<1> HIDE DEF a, b, c
<1>4. /\ a \o b \in Seq(Y) /\ Len(a \o b) = Len(p) + Len(q)
      /\ \A i \in 1 .. Len(p) + Len(q) :
           (a \o b)[i] = IF i <= Len(p) THEN a[i] ELSE b[i - Len(p)]
  <2>1. a \in Seq(Y) /\ b \in Seq(Y)
    BY <1>2
  <2>2. /\ a \o b \in Seq(Y) /\ Len(a \o b) = Len(a) + Len(b)
        /\ \A i \in 1 .. Len(a) + Len(b) :
             (a \o b)[i] = IF i <= Len(a) THEN a[i] ELSE b[i - Len(a)]
    BY <2>1, ConcatProperties
  <2> QED BY <1>2, <2>2
<1>5. ASSUME NEW i \in 1 .. Len(c) PROVE c[i] = (a \o b)[i]
  <2>1. CASE i <= Len(p)
    BY <1>1, <1>2, <1>3, <1>4, <2>1
  <2>2. CASE ~(i <= Len(p))
    <3>1. i - Len(p) \in 1 .. Len(q) /\ i \in 1 .. Len(p) + Len(q)
      BY <1>1, <1>3, <2>2
    <3>2. c[i] = list[q[i - Len(p)]] /\ (a \o b)[i] = b[i - Len(p)]
      BY <1>1, <1>3, <1>4, <2>2, <3>1
    <3> QED BY <1>2, <3>1, <3>2
  <2> QED BY <2>1, <2>2
<1>6. c = a \o b
  BY <1>3, <1>4, <1>5, SeqEqual
<1> QED BY <1>6 DEF a, b, c

(* What is listed for a sequence of trees.                                 *)
Flat(q, list) == FlattenSeq(Mapped(q, list))

(* What the trees of a sequence list: a list, that of two sequences, and   *)
(* that of one more tree.                                                  *)
LEMMA FlatOf ==
  ASSUME NEW T, NEW X, NEW list \in [T -> Seq(X)], NEW p \in Seq(T)
  PROVE  /\ Flat(p, list) \in Seq(X) /\ Flat(<<>>, list) = <<>>
         /\ \A i \in 1 .. Len(p) : Len(list[p[i]]) <= Len(Flat(p, list))
<1> DEFINE Y == Seq(X)
           a == Mapped(p, list)
<1>1. <<>> \in Seq(X)
  BY EmptySeq
<1>2. IsMapped(a, p, list, Y)
  BY MappedSequence, Zenon
<1>3. Mapped(<<>>, list) = <<>>
  BY DEF Mapped
<1> HIDE DEF a
<1>4. a \in Seq(Seq(X)) /\ Len(a) = Len(p) /\ \A i \in 1 .. Len(p) : a[i] = list[p[i]]
  BY <1>2 DEF IsMapped
<1>5. FlattenSeq(a) \in Seq(X) /\ FlattenSeq(<<>>) = <<>>
  BY <1>1, <1>4, FlatAppend
<1>6. ASSUME NEW i \in 1 .. Len(p) PROVE Len(list[p[i]]) <= Len(FlattenSeq(a))
  <2>1. i \in 1 .. Len(a) /\ a[i] = list[p[i]]
    BY <1>4
  <2>2. Len(a[i]) <= Len(FlattenSeq(a))
    BY <1>4, <2>1, FlatPart
  <2> QED BY <2>1, <2>2
<1> QED BY <1>3, <1>5, <1>6 DEF Flat, a

LEMMA FlatBoth ==
  ASSUME NEW T, NEW X, NEW list \in [T -> Seq(X)], NEW p \in Seq(T), NEW q \in Seq(T)
  PROVE  Flat(p \o q, list) = Flat(p, list) \o Flat(q, list)
<1> DEFINE Y == Seq(X)
           a == Mapped(p, list)
           b == Mapped(q, list)
<1>1. IsMapped(a, p, list, Y) /\ IsMapped(b, q, list, Y) /\ list \in [T -> Y]
  BY MappedSequence, Zenon
<1> HIDE DEF a, b
<1>2. a \in Seq(Seq(X)) /\ b \in Seq(Seq(X))
  BY <1>1 DEF IsMapped
<1>3. Mapped(p \o q, list) = a \o b
  <2> HIDE DEF Y
  <2> QED BY <1>1, MappedConcat, ZenonT(90) DEF a, b
<1>4. FlattenSeq(a \o b) = FlattenSeq(a) \o FlattenSeq(b)
  BY <1>2, FlatConcat
<1> QED BY <1>3, <1>4 DEF Flat, a, b

LEMMA FlatOne ==
  ASSUME NEW T, NEW X, NEW list \in [T -> Seq(X)], NEW p \in Seq(T), NEW t \in T
  PROVE  Flat(Append(p, t), list) = Flat(p, list) \o list[t] /\ Flat(<<t>>, list) = list[t]
<1> DEFINE Y == Seq(X)
           one == <<t>>
           b == Mapped(one, list)
           x == list[t]
<1>1. x \in Seq(X) /\ list \in [T -> Y]
  OBVIOUS
<1>2. one \in Seq(T) /\ Len(one) = 1 /\ one[1] = t /\ Append(p, t) = p \o one
  OBVIOUS
<1> HIDE DEF one
<1>3. IsMapped(b, one, list, Y)
  BY <1>2, MappedSequence, Zenon
<1> HIDE DEF b
<1>4. b \in Seq(Y) /\ Len(b) = 1 /\ b[1] = x
  <2> HIDE DEF Y
  <2>1. b \in Seq(Y) /\ Len(b) = Len(one) /\ \A i \in 1 .. Len(one) : b[i] = list[one[i]]
    BY <1>3 DEF IsMapped
  <2> QED BY <1>2, <2>1
<1> HIDE DEF x
<1>5. b = <<x>>
  <2> HIDE DEF Y
  <2> QED BY <1>4
<1>6. FlattenSeq(b) = x
  <2>1. <<x>> = Append(<<>>, x) /\ <<>> \in Seq(Seq(X))
    BY EmptySeq
  <2>2. FlattenSeq(Append(<<>>, x)) = FlattenSeq(<<>>) \o x /\ FlattenSeq(<<>>) = <<>>
    BY <1>1, <2>1, FlatAppend
  <2>3. <<>> \o x = x
    BY <1>1, ConcatEmptySeq
  <2> QED BY <1>5, <2>1, <2>2, <2>3
<1>7. Flat(p \o one, list) = Flat(p, list) \o Flat(one, list)
  BY <1>2, FlatBoth
<1>8. Flat(one, list) = x
  BY <1>6 DEF Flat, b
<1> QED BY <1>2, <1>7, <1>8 DEF x, one

-----------------------------------------------------------------------------
(* A set of trees that has the children of each of its trees, and nothing  *)
(* that is below itself.                                                   *)
Closed(T) == \A t \in T : t.kids \in Seq(T)
Ranks(T, r, N) ==
  N \in Nat /\ r \in [T -> 0 .. N] /\ \A t \in T : \A i \in 1 .. Len(t.kids) : r[t.kids[i]] < r[t]
Forest(T) == Closed(T) /\ \E N : \E r : Ranks(T, r, N)

Satisfies(list, T, entered, left) ==
  \A t \in T : list[t] = entered[t] \o Flat(t.kids, list) \o left[t]
IsListing(list, T, entered, left, X) ==
  list \in [T -> Seq(X)] /\ Satisfies(list, T, entered, left)

SameParts(T, e, l, f, m) == \A t \in T : e[t] = f[t] /\ l[t] = m[t]

(* What two lists have in common at the children they have at the parent.  *)
LEMMA FlatCommon ==
  ASSUME NEW T, NEW q \in Seq(T), NEW a, NEW b, \A i \in 1 .. Len(q) : a[q[i]] = b[q[i]]
  PROVE  Flat(q, a) = Flat(q, b)
<1>1. DOMAIN q = 1 .. Len(q)
  BY LenProperties
<1>2. Mapped(q, a) = Mapped(q, b)
  BY <1>1 DEF Mapped
<1> QED BY <1>2 DEF Flat

(* Two lists of the same parts are the same.                               *)
LEMMA ListsAgree ==
  ASSUME NEW T, Forest(T), NEW a, NEW b, NEW e, NEW l, NEW f, NEW m,
         Satisfies(a, T, e, l), Satisfies(b, T, f, m), SameParts(T, e, l, f, m)
  PROVE  \A t \in T : a[t] = b[t]
<1>1. PICK N, r : Ranks(T, r, N)
  BY DEF Forest
<1>2. r \in [T -> 0 .. N] /\ N \in Nat /\ \A t \in T : r[t] \in Nat /\ r[t] < N + 1
  BY <1>1 DEF Ranks
<1> DEFINE P == {n \in Nat : \A t \in T : r[t] < n => a[t] = b[t]}
<1>3. 0 \in P
  BY <1>2
<1>4. ASSUME NEW n \in P PROVE n + 1 \in P
  <2>1. n \in Nat /\ n + 1 \in Nat /\ \A t \in T : r[t] < n => a[t] = b[t]
    OBVIOUS
  <2> HIDE DEF P
  <2>2. ASSUME NEW t \in T, r[t] < n + 1 PROVE a[t] = b[t]
    <3>1. t.kids \in Seq(T)
      BY DEF Forest, Closed
    <3>2. ASSUME NEW i \in 1 .. Len(t.kids) PROVE a[t.kids[i]] = b[t.kids[i]]
      <4>1. t.kids[i] \in T
        BY <3>1, ElementOfSeq
      <4>2. r[t.kids[i]] < r[t]
        BY <1>1 DEF Ranks
      <4>3. r[t.kids[i]] < n
        BY <1>2, <2>1, <2>2, <4>1, <4>2
      <4> QED BY <2>1, <4>1, <4>3
    <3>3. Flat(t.kids, a) = Flat(t.kids, b)
      <4> DEFINE q == t.kids
      <4>1. q \in Seq(T) /\ \A i \in 1 .. Len(q) : a[q[i]] = b[q[i]]
        BY <3>1, <3>2
      <4> HIDE DEF q
      <4>2. Flat(q, a) = Flat(q, b)
        BY <4>1, FlatCommon
      <4> QED BY <4>2 DEF q
    <3> QED BY <3>3 DEF Satisfies, SameParts
  <2> QED BY <2>1, <2>2 DEF P
<1>5. P \subseteq Nat
  OBVIOUS
<1>6. \A n \in Nat : n \in P
  <2> HIDE DEF P
  <2> QED BY <1>3, <1>4, <1>5, SetInduction
<1>7. N + 1 \in P
  <2> HIDE DEF P
  <2> QED BY <1>2, <1>6
<1> QED BY <1>2, <1>7

(* There is such a list, built up by rank; Listing chooses it.             *)
LEMMA ListingExists ==
  ASSUME NEW T, Forest(T), NEW X, NEW entered \in [T -> Seq(X)], NEW left \in [T -> Seq(X)]
  PROVE  \E list : IsListing(list, T, entered, left, X)
<1> DEFINE S == [T -> Seq(X)]
           next(f) == [t \in T |-> entered[t] \o Flat(t.kids, f) \o left[t]]
           G == [p \in Nat \X S |-> next(p[2])]
           a == [t \in T |-> <<>>]
<1>1. PICK N, r : Ranks(T, r, N)
  BY DEF Forest
<1>2. Closed(T)
  BY DEF Forest
<1>3. a \in S
  BY EmptySeq
<1>4. ASSUME NEW f \in S PROVE next(f) \in S
  <2>1. ASSUME NEW t \in T PROVE entered[t] \o Flat(t.kids, f) \o left[t] \in Seq(X)
    <3>1. t.kids \in Seq(T) /\ entered[t] \in Seq(X) /\ left[t] \in Seq(X)
      BY <1>2 DEF Closed
    <3> DEFINE q == t.kids
    <3>2. q \in Seq(T) /\ f \in [T -> Seq(X)]
      BY <3>1
    <3> HIDE DEF q, S
    <3>3. Flat(q, f) \in Seq(X)
      BY <3>2, FlatOf, Zenon
    <3> DEFINE x == entered[t]
               y == Flat(q, f)
               z == left[t]
    <3>4. x \in Seq(X) /\ y \in Seq(X) /\ z \in Seq(X)
      BY <3>1, <3>3
    <3> HIDE DEF x, y, z
    <3>5. x \o y \o z \in Seq(X)
      BY <3>4
    <3> QED BY <3>5 DEF x, y, z, q
  <2> QED BY <2>1
<1> HIDE DEF next
<1>5. G \in StepFunctions(S)
  BY <1>4 DEF StepFunctions
<1>6. PICK F : IsRecursion(F, S, a, G)
  <2> HIDE DEF G, S, a
  <2> QED BY <1>3, <1>5, NatRecursion
<1>7. F \in [Nat -> S] /\ \A n \in Nat : F[n + 1] = next(F[n])
  <2> HIDE DEF S, a
  <2> QED BY <1>6 DEF IsRecursion
<1>8. \A n \in Nat : F[n] \in S /\ F[n + 1] = next(F[n])
  <2> HIDE DEF S, a, G
  <2> QED BY <1>7
<1> HIDE DEF G, a, S
<1>9. \A f : \A t \in T : next(f)[t] = entered[t] \o Flat(t.kids, f) \o left[t]
  BY DEF next
(* After as many steps as its rank a tree's list does not change any more. *)
<1> DEFINE P == {n \in Nat : \A t \in T : r[t] < n => F[n + 1][t] = F[n][t]}
<1>10. r \in [T -> 0 .. N] /\ N \in Nat /\ \A t \in T : r[t] \in Nat /\ r[t] < N + 1
  BY <1>1 DEF Ranks
<1>11. 0 \in P
  BY <1>10
<1>12. ASSUME NEW n \in P PROVE n + 1 \in P
  <2>1. n \in Nat /\ n + 1 \in Nat /\ \A t \in T : r[t] < n => F[n + 1][t] = F[n][t]
    OBVIOUS
  <2> HIDE DEF P
  <2>2. ASSUME NEW t \in T, r[t] < n + 1 PROVE F[(n + 1) + 1][t] = F[n + 1][t]
    <3>1. t.kids \in Seq(T)
      BY <1>2 DEF Closed
    <3>2. ASSUME NEW i \in 1 .. Len(t.kids) PROVE F[n + 1][t.kids[i]] = F[n][t.kids[i]]
      <4>1. t.kids[i] \in T
        BY <3>1, ElementOfSeq
      <4>2. r[t.kids[i]] < r[t]
        BY <1>1 DEF Ranks
      <4>3. r[t.kids[i]] < n
        BY <1>10, <2>1, <2>2, <4>1, <4>2, SMTT(40)
      <4> QED BY <2>1, <4>1, <4>3
    <3>3. Flat(t.kids, F[n + 1]) = Flat(t.kids, F[n])
      <4> DEFINE q == t.kids
                 x == F[n + 1]
                 y == F[n]
      <4>1. q \in Seq(T) /\ \A i \in 1 .. Len(q) : x[q[i]] = y[q[i]]
        BY <3>1, <3>2
      <4> HIDE DEF q, x, y
      <4>2. Flat(q, x) = Flat(q, y)
        BY <4>1, FlatCommon
      <4> QED BY <4>2 DEF q, x, y
    <3>4. F[(n + 1) + 1] = next(F[n + 1]) /\ F[n + 1] = next(F[n])
      BY <1>8, <2>1
    <3> QED BY <1>9, <3>3, <3>4, ZenonT(90)
  <2>3. n + 1 \in P
    BY <2>1, <2>2 DEF P
  <2> QED BY <2>3
<1>13. P \subseteq Nat
  OBVIOUS
<1>14. \A n \in Nat : n \in P
  <2> HIDE DEF P
  <2> QED BY <1>11, <1>12, <1>13, SetInduction
<1> DEFINE list == F[N + 1]
<1>15. \A t \in T : F[(N + 1) + 1][t] = list[t]
  <2>1. N + 1 \in P /\ N + 1 \in Nat
    <3> HIDE DEF P
    <3> QED BY <1>10, <1>14
  <2> QED BY <1>10, <2>1
<1>16. list \in S /\ F[(N + 1) + 1] = next(list)
  BY <1>8, <1>10
<1> HIDE DEF list
<1>17. IsListing(list, T, entered, left, X)
  BY <1>9, <1>15, <1>16 DEF IsListing, Satisfies, S
<1> QED BY <1>17

(* Listing is what its definition asks for.                                *)
LEMMA ListingEquation ==
  ASSUME NEW T, Forest(T), NEW X, NEW entered \in [T -> Seq(X)], NEW left \in [T -> Seq(X)]
  PROVE  IsListing(Listing(T, entered, left), T, entered, left, X)
<1> DEFINE body(w) == [t \in T |-> entered[t] \o FlattenSeq([i \in DOMAIN t.kids |-> w[t.kids[i]]]) \o left[t]]
           list == Listing(T, entered, left)
<1>1. list = CHOOSE w : w = body(w)
  BY DEF Listing
<1>2. PICK L : IsListing(L, T, entered, left, X)
  BY ListingExists
<1>3. L = body(L)
  <2>1. L \in [T -> Seq(X)]
    BY <1>2 DEF IsListing
  <2>2. \A t \in T : L[t] = entered[t] \o FlattenSeq([i \in DOMAIN t.kids |-> L[t.kids[i]]]) \o left[t]
    BY <1>2 DEF IsListing, Satisfies, Flat, Mapped
  <2> QED BY <2>1, <2>2
<1>4. list = body(list)
  <2> HIDE DEF body, list
  <2>1. \E w : w = body(w)
    BY <1>3
  <2> QED BY <1>1, <2>1, Zenon
<1> HIDE DEF list
<1>5. Satisfies(list, T, entered, left)
  BY <1>4 DEF Satisfies, Flat, Mapped
<1>6. \A t \in T : list[t] = L[t]
  <2>1. Satisfies(L, T, entered, left)
    BY <1>2 DEF IsListing
  <2>2. SameParts(T, entered, left, entered, left)
    BY DEF SameParts
  <2> QED BY <1>5, <2>1, <2>2, ListsAgree, SMT
<1>7. list \in [T -> Seq(X)]
  <2>1. L \in [T -> Seq(X)]
    BY <1>2 DEF IsListing
  <2>2. list = [t \in T |-> list[t]]
    BY <1>4
  <2>3. \A t \in T : list[t] \in Seq(X)
    BY <1>6, <2>1
  <2> HIDE DEF body
  <2> QED BY <2>2, <2>3
<1> QED BY <1>5, <1>7 DEF IsListing, list

(* The trees of a part of a forest that is closed list the same in both.   *)
LEMMA ForestPart ==
  ASSUME NEW T, Forest(T), NEW U, U \subseteq T, Closed(U)
  PROVE  Forest(U)
<1>1. PICK N, r : Ranks(T, r, N)
  BY DEF Forest
<1> DEFINE q == [t \in U |-> r[t]]
<1>2. N \in Nat /\ r \in [T -> 0 .. N]
  BY <1>1 DEF Ranks
<1>3. \A t \in U : q[t] = r[t]
  OBVIOUS
<1>4. q \in [U -> 0 .. N]
  BY <1>2
<1> HIDE DEF q
<1>5. ASSUME NEW t \in U, NEW i \in 1 .. Len(t.kids) PROVE q[t.kids[i]] < q[t]
  <2>1. t.kids \in Seq(U)
    BY DEF Closed
  <2>2. t.kids[i] \in U
    BY <2>1, ElementOfSeq
  <2>3. r[t.kids[i]] < r[t]
    BY <1>1 DEF Ranks
  <2> QED BY <1>3, <2>2, <2>3
<1>6. Ranks(U, q, N)
  BY <1>2, <1>4, <1>5 DEF Ranks
<1> QED BY <1>6 DEF Forest

(* A forest in which a tree is put together of trees it has.               *)
LEMMA ForestGrows ==
  ASSUME NEW T, Forest(T), NEW x, x.kids \in Seq(T)
  PROVE  Forest(T \cup {x})
<1>1. PICK N, r : Ranks(T, r, N)
  BY DEF Forest
<1> DEFINE U == T \cup {x}
           q == [t \in U |-> IF t \in T THEN r[t] ELSE N + 1]
<1>2. N \in Nat /\ r \in [T -> 0 .. N] /\ N + 1 \in Nat
  BY <1>1 DEF Ranks
<1>3. /\ \A t \in T : q[t] = r[t] /\ q[t] \in 0 .. N
      /\ x \notin T => q[x] = N + 1
  BY <1>2
<1>4. q \in [U -> 0 .. N + 1]
  BY <1>2
<1>5. \A t \in U : t.kids \in Seq(T)
  BY DEF Forest, Closed
<1> HIDE DEF q
<1>6. ASSUME NEW t \in U, NEW i \in 1 .. Len(t.kids) PROVE q[t.kids[i]] < q[t]
  <2>1. t.kids[i] \in T
    BY <1>5, ElementOfSeq
  <2>2. CASE t \in T
    <3>1. r[t.kids[i]] < r[t]
      BY <1>1, <2>2 DEF Ranks
    <3> QED BY <1>3, <2>1, <2>2, <3>1
  <2>3. CASE t \notin T
    <3>1. t = x
      BY <2>3
    <3> DEFINE k == t.kids[i]
    <3>2. k \in T
      BY <2>1
    <3> HIDE DEF k
    <3>3. q[k] \in 0 .. N /\ q[t] = N + 1
      BY <1>3, <2>3, <3>1, <3>2
    <3>4. q[k] < q[t]
      BY <1>2, <3>3
    <3> QED BY <3>4 DEF k
  <2> QED BY <2>2, <2>3
<1>7. Ranks(U, q, N + 1)
  BY <1>2, <1>4, <1>6 DEF Ranks
<1>8. Closed(U)
  <2>1. ASSUME NEW t \in U PROVE t.kids \in Seq(U)
    <3>1. t.kids \in Seq(T) /\ T \subseteq U
      BY <1>5
    <3> HIDE DEF U
    <3> QED BY <3>1, SeqMonotonic
  <2> HIDE DEF U
  <2> QED BY <2>1 DEF Closed
<1> HIDE DEF U
<1>9. Forest(U)
  BY <1>7, <1>8 DEF Forest
<1> QED BY <1>9 DEF U

(* The symbols of a tree, down to a depth its list is long enough for.     *)
LEMMA SymbolsClosed ==
  ASSUME NEW T, Closed(T), NEW tree \in T, NEW w \in [T -> Nat \ {0}],
         \A t \in T : \A i \in 1 .. Len(t.kids) : w[t.kids[i]] < w[t]
  PROVE  /\ Symbols(tree, w[tree]) \subseteq T /\ tree \in Symbols(tree, w[tree])
         /\ Closed(Symbols(tree, w[tree]))
<1> DEFINE all == UNION {{tree}}
           next(U) == UNION {{t} \cup ToSet(t.kids) : t \in U}
           body(f) == [n \in Nat |-> IF n = 0 THEN {tree} ELSE next(f[n - 1])]
           Upto == CHOOSE f : f = body(f)
           G == [p \in Nat \X SUBSET T |-> next(p[2])]
<1>1. Symbols(tree, w[tree]) = Upto[w[tree]]
  BY DEF Symbols
<1>2. \A t \in T : ToSet(t.kids) = {t.kids[i] : i \in 1 .. Len(t.kids)} /\ ToSet(t.kids) \subseteq T
  <2>1. ASSUME NEW t \in T
        PROVE  ToSet(t.kids) = {t.kids[i] : i \in 1 .. Len(t.kids)} /\ ToSet(t.kids) \subseteq T
    <3> DEFINE q == t.kids
    <3>1. q \in Seq(T)
      BY DEF Closed
    <3> HIDE DEF q
    <3>2. DOMAIN q = 1 .. Len(q) /\ \A i \in 1 .. Len(q) : q[i] \in T
      BY <3>1, LenProperties, ElementOfSeq
    <3>3. ToSet(q) = {q[i] : i \in 1 .. Len(q)} /\ ToSet(q) \subseteq T
      BY <3>2 DEF ToSet
    <3> QED BY <3>3 DEF q
  <2> QED BY <2>1
<1>3. ASSUME NEW U \in SUBSET T PROVE next(U) \in SUBSET T
  BY <1>2
<1> HIDE DEF next
<1>4. G \in StepFunctions(SUBSET T)
  BY <1>3 DEF StepFunctions
<1>5. PICK g : IsRecursion(g, SUBSET T, {tree}, G)
  <2> HIDE DEF G, Upto
  <2>1. {tree} \in SUBSET T
    OBVIOUS
  <2> QED BY <1>4, <2>1, NatRecursion
<1>6. g \in [Nat -> SUBSET T] /\ g[0] = {tree} /\ \A n \in Nat : g[n + 1] = next(g[n])
  <2> HIDE DEF Upto
  <2>1. g \in [Nat -> SUBSET T] /\ g[0] = {tree} /\ \A n \in Nat : g[n + 1] = G[<<n, g[n]>>]
    <3> HIDE DEF G
    <3> QED BY <1>5 DEF IsRecursion
  <2> QED BY <2>1
<1>7. g = body(g)
  <2>1. ASSUME NEW n \in Nat PROVE g[n] = IF n = 0 THEN {tree} ELSE next(g[n - 1])
    <3>1. CASE n = 0
      BY <1>6, <3>1
    <3>2. CASE n # 0
      <4>1. n - 1 \in Nat /\ (n - 1) + 1 = n
        BY <3>2
      <4> QED BY <1>6, <3>2, <4>1
    <3> QED BY <3>1, <3>2
  <2> QED BY <1>6, <2>1
<1>8. Upto = body(Upto)
  <2> HIDE DEF body
  <2>1. \E f : f = body(f)
    BY <1>7
  <2> QED BY <2>1, Zenon
<1> HIDE DEF Upto, G
<1>9. Upto[0] = {tree} /\ \A n \in Nat : Upto[n + 1] = next(Upto[n])
  <2>1. \A n \in Nat : Upto[n] = IF n = 0 THEN {tree} ELSE next(Upto[n - 1])
    BY <1>8
  <2>2. ASSUME NEW n \in Nat PROVE Upto[n + 1] = next(Upto[n])
    <3>1. n + 1 \in Nat /\ n + 1 # 0 /\ (n + 1) - 1 = n
      OBVIOUS
    <3> QED BY <2>1, <3>1
  <2> QED BY <2>1, <2>2
<1> DEFINE Open(n, t) == \E i \in 1 .. Len(t.kids) : t.kids[i] \notin Upto[n]
           P == {n \in Nat : /\ Upto[n] \subseteq T /\ tree \in Upto[n]
                             /\ \A t \in Upto[n] : Open(n, t) => w[t] + n <= w[tree]}
<1>10. 0 \in P
  BY <1>9
<1>11. ASSUME NEW n \in P PROVE n + 1 \in P
  <2>1. /\ n \in Nat /\ Upto[n] \subseteq T /\ tree \in Upto[n]
        /\ \A t \in Upto[n] : Open(n, t) => w[t] + n <= w[tree]
    OBVIOUS
  <2>2. Upto[n + 1] = UNION {{t} \cup ToSet(t.kids) : t \in Upto[n]}
    BY <1>9, <2>1 DEF next
  <2> HIDE DEF P
  <2>3. Upto[n + 1] \subseteq T /\ tree \in Upto[n + 1]
    BY <1>2, <2>1, <2>2
  <2>4. ASSUME NEW u \in Upto[n + 1], Open(n + 1, u) PROVE w[u] + (n + 1) <= w[tree]
    <3>1. u \notin Upto[n]
      <4>1. ASSUME u \in Upto[n], NEW i \in 1 .. Len(u.kids) PROVE u.kids[i] \in Upto[n + 1]
        <5>1. u \in T
          BY <2>1, <4>1
        <5>2. u.kids[i] \in ToSet(u.kids)
          BY <1>2, <5>1
        <5> QED BY <2>2, <4>1, <5>2
      <4> QED BY <2>4, <4>1
    <3>2. PICK t \in Upto[n] : u \in ToSet(t.kids)
      BY <2>2, <3>1
    <3>3. PICK i \in 1 .. Len(t.kids) : u = t.kids[i]
      BY <1>2, <2>1, <3>2
    <3>4. w[t] + n <= w[tree]
      BY <2>1, <3>1, <3>3
    <3>5. t \in T /\ u \in T /\ w[u] < w[t]
      BY <2>1, <2>3, <3>3
    <3>6. w[t] \in Nat /\ w[u] \in Nat /\ w[tree] \in Nat
      BY <3>5
    <3> QED BY <2>1, <3>4, <3>5, <3>6
  <2>5. n + 1 \in Nat
    BY <2>1
  <2> HIDE DEF Open
  <2> QED BY <2>3, <2>4, <2>5 DEF P
<1>12. P \subseteq Nat
  OBVIOUS
<1>13. \A n \in Nat : n \in P
  <2> HIDE DEF P
  <2> QED BY <1>10, <1>11, <1>12, SetInduction
<1> DEFINE n == w[tree]
           U == Upto[n]
<1>14. n \in Nat /\ n \in P
  <2> HIDE DEF P
  <2> QED BY <1>13
<1>15. U \subseteq T /\ tree \in U /\ \A t \in U : Open(n, t) => w[t] + n <= n
  BY <1>14
<1>16. ASSUME NEW t \in U PROVE t.kids \in Seq(U)
  <2>1. t \in T /\ w[t] \in Nat /\ w[t] > 0
    BY <1>15
  <2>2. ~Open(n, t)
    BY <1>14, <1>15, <2>1
  <2>3. \A i \in 1 .. Len(t.kids) : t.kids[i] \in U
    BY <2>2
  <2>4. t.kids \in Seq(T)
    BY <2>1 DEF Closed
  <2> DEFINE q == t.kids
  <2> HIDE DEF q, U
  <2>5. q \in Seq(T) /\ \A i \in 1 .. Len(q) : q[i] \in U
    BY <2>3, <2>4 DEF q
  <2>6. q \in Seq(U)
    <3>1. q = [i \in 1 .. Len(q) |-> q[i]] /\ Len(q) \in Nat
      BY <2>5, LenProperties
    <3>2. [i \in 1 .. Len(q) |-> q[i]] \in Seq(U)
      BY <2>5, <3>1
    <3> QED BY <3>1, <3>2
  <2> QED BY <2>6 DEF q
<1> HIDE DEF U, n
<1>17. Closed(U)
  BY <1>16 DEF Closed
<1> QED BY <1>1, <1>15, <1>17 DEF U, n
-----------------------------------------------------------------------------
(* A list over a forest is that of each closed part of it.                 *)
LEMMA ListingPart ==
  ASSUME NEW T, Forest(T), NEW list, NEW e, NEW l, Satisfies(list, T, e, l),
         NEW U, U \subseteq T, Closed(U),
         NEW other, NEW f, NEW m, Satisfies(other, U, f, m), SameParts(U, e, l, f, m)
  PROVE  \A t \in U : other[t] = list[t]
<1>1. Forest(U)
  BY ForestPart
<1>2. Satisfies(list, U, e, l)
  BY DEF Satisfies
<1>3. \A t \in U : list[t] = other[t]
  BY <1>1, <1>2, ListsAgree, SMT
<1> QED BY <1>3

(* Where each tree lists something itself, its children list less.         *)
LEMMA ListingLength ==
  ASSUME NEW T, Closed(T), NEW X, NEW e \in [T -> Seq(X)], NEW l \in [T -> Seq(X)],
         \A t \in T : Len(e[t]) + Len(l[t]) > 0,
         NEW list, IsListing(list, T, e, l, X), NEW t \in T
  PROVE  /\ Len(list[t]) \in Nat \ {0}
         /\ \A i \in 1 .. Len(t.kids) : Len(list[t.kids[i]]) < Len(list[t])
<1> DEFINE q == t.kids
           x == e[t]
           y == Flat(q, list)
           z == l[t]
<1>1. q \in Seq(T)
  BY DEF Closed
<1>2. list \in [T -> Seq(X)] /\ list[t] = x \o y \o z
  BY DEF IsListing, Satisfies
<1>3. y \in Seq(X) /\ \A i \in 1 .. Len(q) : Len(list[q[i]]) <= Len(y)
  <2> HIDE DEF q
  <2> QED BY <1>1, <1>2, FlatOf
<1>4. x \in Seq(X) /\ z \in Seq(X) /\ Len(x) + Len(z) > 0
  OBVIOUS
<1>5. \A i \in 1 .. Len(q) : list[q[i]] \in Seq(X)
  <2> HIDE DEF q
  <2> QED BY <1>1, <1>2, ElementOfSeq
<1>6. \A i \in 1 .. Len(q) : Len(list[q[i]]) \in Nat
  BY <1>5, LenProperties
<1> HIDE DEF q, x, y, z
<1>7. Len(x \o y \o z) = Len(x) + Len(y) + Len(z) /\ Len(x) \in Nat /\ Len(y) \in Nat /\ Len(z) \in Nat
  BY <1>3, <1>4
<1>8. Len(list[t]) \in Nat \ {0} /\ Len(list[t]) > Len(y)
  BY <1>2, <1>4, <1>7
<1>9. \A i \in 1 .. Len(q) : Len(list[q[i]]) < Len(list[t])
  BY <1>3, <1>6, <1>7, <1>8
<1> QED BY <1>8, <1>9 DEF q

(* The symbols of a tree, to the depth of its list, are a closed part.     *)
LEMMA SymbolsPart ==
  ASSUME NEW T, Closed(T), NEW X, NEW e \in [T -> Seq(X)], NEW l \in [T -> Seq(X)],
         \A t \in T : Len(e[t]) + Len(l[t]) > 0,
         NEW list, IsListing(list, T, e, l, X), NEW tree \in T
  PROVE  LET U == Symbols(tree, Len(list[tree]))
         IN  U \subseteq T /\ tree \in U /\ Closed(U)
<1> DEFINE w == [t \in T |-> Len(list[t])]
<1>1. \A t \in T : /\ Len(list[t]) \in Nat \ {0}
                   /\ \A i \in 1 .. Len(t.kids) : Len(list[t.kids[i]]) < Len(list[t])
  BY ListingLength
<1>2. w \in [T -> Nat \ {0}] /\ \A t \in T : w[t] = Len(list[t])
  BY <1>1
<1>3. \A t \in T : \A i \in 1 .. Len(t.kids) : t.kids[i] \in T
  BY ElementOfSeq DEF Closed
<1> HIDE DEF w
<1>4. \A t \in T : \A i \in 1 .. Len(t.kids) : w[t.kids[i]] < w[t]
  BY <1>1, <1>2, <1>3
<1>5. /\ Symbols(tree, w[tree]) \subseteq T /\ tree \in Symbols(tree, w[tree])
      /\ Closed(Symbols(tree, w[tree]))
  BY <1>2, <1>4, SymbolsClosed
<1> QED BY <1>2, <1>5
-----------------------------------------------------------------------------
(* The derivations of a forest, with the names a table gives its tags.      *)
OperationIn(v, t) ==
  IF t.terminal THEN Shift(t)
  ELSE IF v[t.type] = "translation_unit" THEN ReduceUnit
  ELSE Reduce(v[t.type], Len(t.kids), 0)

Nothing(T) == [t \in T |-> <<>>]
Operations(v, T) == [t \in T |-> <<OperationIn(v, t)>>]
DerivationsIn(v, T) == Listing(T, Nothing(T), Operations(v, T))

(* Each tree of T has tags from 1 to n, or is a leaf. *)
Tagged(T, n) ==
  \A t \in T : IF t.terminal THEN t.kids = <<>> ELSE t.type \in 1 .. n

LEMMA DerivationsListing ==
  ASSUME NEW T, Forest(T), NEW v, NEW X, \A t \in T : OperationIn(v, t) \in X
  PROVE  /\ IsListing(DerivationsIn(v, T), T, Nothing(T), Operations(v, T), X)
         /\ Nothing(T) \in [T -> Seq(X)] /\ Operations(v, T) \in [T -> Seq(X)]
         /\ \A t \in T : Len(Nothing(T)[t]) + Len(Operations(v, T)[t]) > 0
<1>1. Nothing(T) \in [T -> Seq(X)] /\ \A t \in T : Nothing(T)[t] = <<>>
  BY EmptySeq DEF Nothing
<1>2. Operations(v, T) \in [T -> Seq(X)] /\ \A t \in T : Operations(v, T)[t] = <<OperationIn(v, t)>>
  BY DEF Operations
<1>3. IsListing(DerivationsIn(v, T), T, Nothing(T), Operations(v, T), X)
  BY <1>1, <1>2, ListingEquation DEF DerivationsIn
<1>4. \A t \in T : Len(Nothing(T)[t]) + Len(Operations(v, T)[t]) > 0
  <2>1. ASSUME NEW t \in T PROVE Len(Nothing(T)[t]) + Len(Operations(v, T)[t]) > 0
    <3>1. Nothing(T)[t] = <<>> /\ Operations(v, T)[t] = <<OperationIn(v, t)>>
      BY <1>1, <1>2
    <3>2. Len(<<>>) = 0 /\ Len(<<OperationIn(v, t)>>) = 1
      OBVIOUS
    <3> QED BY <3>1, <3>2
  <2> QED BY <2>1
<1> QED BY <1>1, <1>2, <1>3, <1>4

(* A tree's derivation is that of its children and its own operation.      *)
LEMMA DerivationOf ==
  ASSUME NEW T, Forest(T), NEW v, NEW X, \A t \in T : OperationIn(v, t) \in X, NEW t \in T
  PROVE  /\ DerivationsIn(v, T) \in [T -> Seq(X)]
         /\ DerivationsIn(v, T)[t] = Append(Flat(t.kids, DerivationsIn(v, T)), OperationIn(v, t))
<1> DEFINE D == DerivationsIn(v, T)
           q == t.kids
           o == OperationIn(v, t)
<1>1. D \in [T -> Seq(X)] /\ Satisfies(D, T, Nothing(T), Operations(v, T))
  BY DerivationsListing DEF IsListing
<1>2. q \in Seq(T) /\ o \in X
  BY DEF Forest, Closed
<1>3. Nothing(T)[t] = <<>> /\ Operations(v, T)[t] = <<o>>
  BY DEF Nothing, Operations
<1> HIDE DEF D, q, o
<1>4. D[t] = <<>> \o Flat(q, D) \o <<o>>
  BY <1>1, <1>3 DEF Satisfies, q
<1> DEFINE y == Flat(q, D)
<1>5. y \in Seq(X)
  BY <1>1, <1>2, FlatOf
<1> HIDE DEF y
<1>6. <<>> \o y \o <<o>> = Append(y, o)
  BY <1>2, <1>5
<1>7. D[t] = Append(y, o)
  BY <1>4, <1>6 DEF y
<1> QED BY <1>1, <1>7 DEF D, q, o, y

(* Names that are added change nothing for the trees there are.            *)
LEMMA DerivationsStay ==
  ASSUME NEW T, Forest(T), NEW U, Forest(U), T \subseteq U, NEW n, Tagged(T, n),
         NEW v, NEW w, \A i \in 1 .. n : w[i] = v[i]
  PROVE  \A t \in T : DerivationsIn(w, U)[t] = DerivationsIn(v, T)[t]
<1> DEFINE a == DerivationsIn(w, U)
           b == DerivationsIn(v, T)
           e == Nothing(U)
           l == Operations(w, U)
           f == Nothing(T)
           m == Operations(v, T)
           X == {OperationIn(w, t) : t \in U}
           Y == {OperationIn(v, t) : t \in T}
<1>1. Satisfies(a, U, e, l)
  <2>1. \A t \in U : OperationIn(w, t) \in X
    OBVIOUS
  <2> HIDE DEF X
  <2> QED BY <2>1, DerivationsListing DEF IsListing
<1>2. Satisfies(b, T, f, m)
  <2>1. \A t \in T : OperationIn(v, t) \in Y
    OBVIOUS
  <2> HIDE DEF Y
  <2> QED BY <2>1, DerivationsListing DEF IsListing
<1>3. SameParts(T, e, l, f, m)
  <2>1. \A t \in T : OperationIn(w, t) = OperationIn(v, t)
    BY DEF OperationIn, Tagged
  <2>2. \A t \in T : t \in U
    OBVIOUS
  <2> QED BY <2>1, <2>2 DEF SameParts, Nothing, Operations
<1> HIDE DEF a, b, e, l, f, m
<1>4. Satisfies(a, T, e, l)
  BY <1>1 DEF Satisfies
<1>5. \A t \in T : a[t] = b[t]
  BY <1>2, <1>3, <1>4, ListsAgree, SMT
<1> QED BY <1>5 DEF a, b

(* What is derived among the symbols of a tree is the same.                *)
LEMMA DerivationFound ==
  ASSUME NEW T, Forest(T), NEW tree \in T
  PROVE  Derivations(Symbols(tree, Len(DerivationsIn(vec, T)[tree])))[tree] = DerivationsIn(vec, T)[tree]
<1> DEFINE X == {OperationIn(vec, t) : t \in T}
           D == DerivationsIn(vec, T)
           e == Nothing(T)
           l == Operations(vec, T)
           U == Symbols(tree, Len(D[tree]))
           f == Nothing(U)
           m == Operations(vec, U)
<1>1. /\ IsListing(D, T, e, l, X) /\ e \in [T -> Seq(X)] /\ l \in [T -> Seq(X)]
      /\ \A t \in T : Len(e[t]) + Len(l[t]) > 0
  <2>1. \A t \in T : OperationIn(vec, t) \in X
    OBVIOUS
  <2> HIDE DEF X
  <2> QED BY <2>1, DerivationsListing
<1>2. \A t : Operation(t) = OperationIn(vec, t)
  BY DEF Operation, OperationIn, Name
<1>3. Derivations(U) = Listing(U, f, m)
  BY <1>2, Zenon DEF Derivations, Nothing, Operations
<1>4. U \subseteq T /\ tree \in U /\ Closed(U)
  <2> HIDE DEF D, e, l, X
  <2> QED BY <1>1, SymbolsPart DEF Forest
<1> HIDE DEF U
<1>5. f \in [U -> Seq(X)] /\ m \in [U -> Seq(X)]
  BY <1>4, EmptySeq DEF Nothing, Operations
<1>6. SameParts(U, e, l, f, m)
  BY <1>4 DEF SameParts, Nothing, Operations
<1> HIDE DEF D, e, l, f, m, X
<1>7. \A t \in U : Listing(U, f, m)[t] = D[t]
  <2>1. Satisfies(D, T, e, l)
    BY <1>1 DEF IsListing
  <2>2. U \subseteq T /\ Closed(U) /\ Forest(U)
    BY <1>4, ForestPart
  <2> DEFINE other == Listing(U, f, m)
  <2>3. Satisfies(other, U, f, m)
    BY <1>5, <2>2, ListingEquation DEF IsListing
  <2> HIDE DEF other
  <2>4. \A t \in U : other[t] = D[t]
    BY <1>6, <2>1, <2>2, <2>3, ListingPart, SMT
  <2> QED BY <2>4 DEF other
<1> QED BY <1>3, <1>4, <1>7 DEF D, U
-----------------------------------------------------------------------------
(* The parser.  An operation that is still to come must find the values it *)
(* takes, in a text that may begin with the rest of an earlier source: the *)
(* invariant says that all that is left of the text is feasible.           *)
(*                                                                         *)
(* What bison does with the sources, and the heights of its stack: before  *)
(* each operation there are at least as many values as it takes.           *)
AllOperations == UNION {{src[i] : i \in DOMAIN src} : src \in Sources}

Fits(o, before, after) ==
  CASE o.op = "shift"  -> after <= before + 1
    [] o.op = "reduce" -> o.n <= before /\ after <= before - o.n + 1
    [] o.op = "unit"   -> after <= 1
    [] OTHER           -> after <= 0

Heights(d, ops) ==
  d \in [0 .. Len(ops) -> Nat] /\ \A i \in 1 .. Len(ops) : Fits(ops[i], d[i - 1], d[i])

Feasible(ops, n) == \E d : Heights(d, ops) /\ d[0] <= n

LEMMA SourceOperations ==
  ASSUME NEW src \in Sources
  PROVE  src \in Seq(AllOperations) /\ \A o \in AllOperations : IsOperation(o)
<1>1. src \in Seq({src[i] : i \in DOMAIN src})
  BY SourcesAssumption
<1>2. {src[i] : i \in DOMAIN src} \subseteq AllOperations
  BY DEF AllOperations
<1> DEFINE S == {src[i] : i \in DOMAIN src}
<1>3. src \in Seq(S) /\ S \subseteq AllOperations
  BY <1>1, <1>2
<1> HIDE DEF S
<1>4. src \in Seq(AllOperations)
  BY <1>3, SeqMonotonic
<1>5. \A o \in AllOperations : IsOperation(o)
  BY SourcesAssumption DEF AllOperations
<1> QED BY <1>4, <1>5

(* Height is as high as its definition says. *)
LEMMA SourceFits ==
  ASSUME NEW src \in Sources
  PROVE  Heights(Height(src), src) /\ Height(src)[0] = 0
<1> DEFINE n == Len(src)
           after(i, h) == CASE src[i].op = "shift"  -> h + 1
                            [] src[i].op = "reduce" -> h - src[i].n + 1
                            [] src[i].op = "unit"   -> 1
                            [] OTHER                -> 0
           body(w) == [i \in 0 .. n |-> IF i = 0 THEN 0 ELSE after(i, w[i - 1])]
           G == [p \in Nat \X Int |-> IF p[1] < n THEN after(p[1] + 1, p[2]) ELSE p[2]]
           H == Height(src)
<1>0. n \in Nat /\ DOMAIN src = 1 .. n
  BY SourceOperations, LenProperties
<1>1. H = CHOOSE w : w = body(w)
  BY DEF Height
<1>2. \A i \in 1 .. n : src[i].op = "reduce" => src[i].n \in Nat /\ src[i].n <= H[i - 1]
  <2>1. \A i \in 1 .. n : IsOperation(src[i])
    BY <1>0, SourcesAssumption
  <2>2. \A i \in 1 .. n : src[i].op = "reduce" => src[i].n <= H[i - 1]
    <3> HIDE DEF H, n
    <3> QED BY <1>0, SourcesAssumption DEF H
  <2>3. \A i \in 1 .. n : src[i].op = "reduce" => src[i].n \in Nat
    <3> HIDE DEF n
    <3> QED BY <2>1 DEF IsOperation
  <2> QED BY <2>2, <2>3
<1> HIDE DEF H, n
<1>3. ASSUME NEW i \in 1 .. n, NEW h \in Int PROVE after(i, h) \in Int
  BY <1>2
<1>4. G \in StepFunctions(Int)
  <2>1. ASSUME NEW k \in Nat, NEW h \in Int, k < n PROVE after(k + 1, h) \in Int
    <3>1. k + 1 \in 1 .. n
      BY <1>0, <2>1
    <3> HIDE DEF after
    <3> QED BY <1>3, <3>1
  <2> HIDE DEF after
  <2> QED BY <2>1 DEF StepFunctions
<1> HIDE DEF after
<1>5. PICK g : IsRecursion(g, Int, 0, G)
  <2> HIDE DEF G
  <2>1. 0 \in Int
    OBVIOUS
  <2> QED BY <1>4, <2>1, NatRecursion
<1>6. g \in [Nat -> Int] /\ g[0] = 0 /\ \A k \in Nat : g[k + 1] = G[<<k, g[k]>>]
  <2> HIDE DEF G
  <2> QED BY <1>5 DEF IsRecursion
<1> DEFINE f == [i \in 0 .. n |-> g[i]]
<1>7. f = body(f)
  <2>1. ASSUME NEW i \in 0 .. n PROVE f[i] = IF i = 0 THEN 0 ELSE after(i, f[i - 1])
    <3>1. CASE i = 0
      BY <1>0, <1>6, <3>1
    <3>2. CASE i # 0
      <4>1. i - 1 \in Nat /\ (i - 1) + 1 = i /\ i - 1 < n /\ i - 1 \in 0 .. n
        BY <1>0, <3>2
      <4>2. g[i] = G[<<i - 1, g[i - 1]>>] /\ g[i - 1] \in Int
        BY <1>6, <4>1
      <4>3. g[i] = after(i, g[i - 1])
        BY <4>1, <4>2
      <4> QED BY <3>2, <4>1, <4>3
    <3> QED BY <3>1, <3>2
  <2> QED BY <2>1
<1>8. H = body(H)
  <2> HIDE DEF body, f
  <2>1. \E w : w = body(w)
    BY <1>7
  <2> QED BY <1>1, <2>1, Zenon
<1>9. H[0] = 0 /\ \A i \in 1 .. n : H[i] = after(i, H[i - 1])
  <2>1. \A i \in 0 .. n : H[i] = IF i = 0 THEN 0 ELSE after(i, H[i - 1])
    BY <1>8
  <2> QED BY <1>0, <2>1
<1> DEFINE P == {k \in Nat : k <= n => H[k] \in Nat}
<1>10. 0 \in P
  BY <1>9
<1>11. ASSUME NEW k \in P PROVE k + 1 \in P
  <2>1. k \in Nat /\ (k <= n => H[k] \in Nat)
    OBVIOUS
  <2> HIDE DEF P
  <2>2. ASSUME k + 1 <= n PROVE H[k + 1] \in Nat
    <3>1. k + 1 \in 1 .. n /\ (k + 1) - 1 = k /\ H[k] \in Nat
      BY <1>0, <2>1, <2>2
    <3>2. H[k + 1] = after(k + 1, H[k])
      BY <1>9, <3>1
    <3>3. src[k + 1].op = "reduce" => src[k + 1].n \in Nat /\ src[k + 1].n <= H[k]
      BY <1>2, <3>1
    <3> QED BY <3>1, <3>2, <3>3 DEF after
  <2> QED BY <2>1, <2>2 DEF P
<1>12. P \subseteq Nat
  OBVIOUS
<1>13. \A k \in Nat : k \in P
  <2> HIDE DEF P
  <2> QED BY <1>10, <1>11, <1>12, SetInduction
<1>14. \A k \in 0 .. n : H[k] \in Nat
  BY <1>0, <1>13
<1>15. H \in [0 .. n -> Nat]
  <2>1. H = [k \in 0 .. n |-> H[k]]
    BY <1>8
  <2> QED BY <1>14, <2>1
<1>16. ASSUME NEW i \in 1 .. n PROVE Fits(src[i], H[i - 1], H[i])
  <2>1. i - 1 \in 0 .. n /\ H[i - 1] \in Nat /\ H[i] = after(i, H[i - 1])
    BY <1>0, <1>9, <1>14
  <2>2. src[i].op = "reduce" => src[i].n \in Nat /\ src[i].n <= H[i - 1]
    BY <1>2
  <2> QED BY <2>1, <2>2 DEF after, Fits
<1> QED BY <1>9, <1>15, <1>16 DEF Heights, H, n

(* The rest of the operations fits what the first one leaves.              *)
LEMMA FeasibleRest ==
  ASSUME NEW ops \in Seq(AllOperations), ops # <<>>, NEW n \in Nat, Feasible(ops, n),
         NEW m \in Nat,
         \A before, after \in Nat : before <= n /\ Fits(Head(ops), before, after) => after <= m
  PROVE  Feasible(Tail(ops), m)
<1>1. PICK d : Heights(d, ops) /\ d[0] <= n
  BY DEF Feasible
<1> DEFINE k == Len(ops)
           rest == Tail(ops)
           f == [i \in 0 .. k - 1 |-> d[i + 1]]
<1>2. /\ k \in Nat /\ k > 0 /\ Len(rest) = k - 1 /\ Head(ops) = ops[1]
      /\ \A i \in 1 .. k - 1 : rest[i] = ops[i + 1]
  OBVIOUS
<1>3. d \in [0 .. k -> Nat] /\ \A i \in 1 .. k : Fits(ops[i], d[i - 1], d[i])
  BY <1>1 DEF Heights
<1> HIDE DEF k, rest
<1>4. f \in [0 .. k - 1 -> Nat]
  BY <1>2, <1>3
<1>5. \A i \in 0 .. k - 1 : f[i] = d[i + 1]
  OBVIOUS
<1> HIDE DEF f
<1>6. ASSUME NEW i \in 1 .. k - 1 PROVE Fits(rest[i], f[i - 1], f[i])
  <2>1. i + 1 \in 1 .. k /\ (i + 1) - 1 = i /\ i - 1 \in 0 .. k - 1 /\ i \in 0 .. k - 1 /\ (i - 1) + 1 = i
    BY <1>2
  <2>2. Fits(ops[i + 1], d[i], d[i + 1])
    BY <1>3, <2>1
  <2> QED BY <1>2, <1>5, <2>1, <2>2
<1>7. f[0] <= m
  <2>1. 1 \in 1 .. k /\ 0 \in 0 .. k /\ 1 - 1 = 0 /\ 0 + 1 = 1 /\ 0 \in 0 .. k - 1
    BY <1>2
  <2>2. Fits(Head(ops), d[0], d[1]) /\ d[0] \in Nat /\ d[1] \in Nat
    BY <1>2, <1>3, <2>1
  <2>3. d[1] <= m
    BY <1>1, <2>2
  <2> QED BY <1>5, <2>1, <2>3
<1>8. Heights(f, rest)
  BY <1>2, <1>4, <1>6 DEF Heights
<1>9. Feasible(rest, m)
  BY <1>7, <1>8 DEF Feasible
<1> QED BY <1>9 DEF rest

(* A rule that is reduced finds its symbols.                               *)
LEMMA FeasibleReduce ==
  ASSUME NEW ops \in Seq(AllOperations), ops # <<>>, NEW n \in Nat, Feasible(ops, n),
         Head(ops).op = "reduce", Head(ops).n \in Nat
  PROVE  Head(ops).n <= n
<1>1. PICK d : Heights(d, ops) /\ d[0] <= n
  BY DEF Feasible
<1> DEFINE k == Len(ops)
<1>2. k \in Nat /\ k > 0 /\ Head(ops) = ops[1] /\ 1 \in 1 .. k /\ 0 \in 0 .. k /\ 1 - 1 = 0
  OBVIOUS
<1>3. d \in [0 .. k -> Nat] /\ \A i \in 1 .. k : Fits(ops[i], d[i - 1], d[i])
  BY <1>1 DEF Heights
<1> HIDE DEF k
<1>4. Fits(Head(ops), d[0], d[1]) /\ d[0] \in Nat
  <2>1. Fits(ops[1], d[1 - 1], d[1])
    BY <1>2, <1>3
  <2> QED BY <1>2, <1>3, <2>1
<1>5. Head(ops).n <= d[0]
  BY <1>4 DEF Fits
<1> QED BY <1>1, <1>4, <1>5

(* A source fits behind whatever is left of others.                        *)
LEMMA FeasibleConcat ==
  ASSUME NEW ops \in Seq(AllOperations), NEW n \in Nat, Feasible(ops, n), NEW src \in Sources
  PROVE  Feasible(ops \o src, n)
<1>1. PICK d : Heights(d, ops) /\ d[0] <= n
  BY DEF Feasible
<1> DEFINE k == Len(ops)
           l == Len(src)
           H == Height(src)
           both == ops \o src
           f == [i \in 0 .. k + l |-> IF i < k THEN d[i] ELSE H[i - k]]
<1>2. src \in Seq(AllOperations)
  BY SourceOperations
<1>3. /\ k \in Nat /\ l \in Nat /\ Len(both) = k + l
      /\ \A i \in 1 .. k + l : both[i] = IF i <= k THEN ops[i] ELSE src[i - k]
  BY <1>2, LenProperties, ConcatProperties
<1>4. d \in [0 .. k -> Nat] /\ \A i \in 1 .. k : Fits(ops[i], d[i - 1], d[i])
  BY <1>1 DEF Heights
<1>5. H \in [0 .. l -> Nat] /\ H[0] = 0 /\ \A i \in 1 .. l : Fits(src[i], H[i - 1], H[i])
  BY SourceFits DEF Heights
<1> HIDE DEF k, l, H, both
<1>6. ASSUME NEW i \in 0 .. k + l
      PROVE  f[i] = (IF i < k THEN d[i] ELSE H[i - k]) /\ f[i] \in Nat
  <2>1. CASE i < k
    BY <1>3, <1>4, <2>1
  <2>2. CASE ~(i < k)
    <3>1. i - k \in 0 .. l
      BY <1>3, <2>2
    <3> QED BY <1>5, <2>2, <3>1
  <2> QED BY <2>1, <2>2
<1>7. f \in [0 .. k + l -> Nat]
  BY <1>6
<1> HIDE DEF f
<1>8. ASSUME NEW i \in 1 .. k + l PROVE Fits(both[i], f[i - 1], f[i])
  <2>0. i - 1 \in 0 .. k + l /\ i \in 0 .. k + l
    BY <1>3
  <2>1. CASE i < k
    <3>1. f[i] = d[i] /\ f[i - 1] = d[i - 1] /\ both[i] = ops[i] /\ i \in 1 .. k
      BY <1>3, <1>6, <2>0, <2>1
    <3> QED BY <1>4, <3>1
  <2>2. CASE i = k
    <3>1. f[i] = H[0] /\ f[i - 1] = d[i - 1] /\ both[i] = ops[i] /\ i \in 1 .. k
      BY <1>3, <1>6, <2>0, <2>2
    <3>2. Fits(ops[i], d[i - 1], d[i]) /\ d[i - 1] \in Nat /\ d[i] \in Nat
      BY <1>3, <1>4, <3>1
    <3>3. Fits(ops[i], d[i - 1], 0)
      <4>1. \A o \in AllOperations : o.op = "reduce" => o.n \in Nat
        BY SourceOperations DEF IsOperation
      <4>2. ops[i] \in AllOperations
        BY <3>1, ElementOfSeq DEF k
      <4> QED BY <3>2, <4>1, <4>2 DEF Fits
    <3> QED BY <1>5, <3>1, <3>3
  <2>3. CASE i > k
    <3>1. /\ f[i] = H[i - k] /\ f[i - 1] = H[(i - 1) - k] /\ both[i] = src[i - k]
          /\ i - k \in 1 .. l /\ (i - 1) - k = (i - k) - 1
      BY <1>3, <1>6, <2>0, <2>3
    <3> QED BY <1>5, <3>1
  <2> QED BY <1>3, <2>1, <2>2, <2>3
<1>9. f[0] <= n
  <2>1. 0 \in 0 .. k + l /\ 0 \in 0 .. k
    BY <1>3
  <2>2. CASE 0 < k
    BY <1>1, <1>6, <2>1, <2>2
  <2>3. CASE k = 0
    BY <1>5, <1>6, <2>1, <2>3
  <2> QED BY <1>3, <2>2, <2>3
<1>10. Heights(f, both)
  BY <1>3, <1>7, <1>8 DEF Heights
<1>11. Feasible(both, n)
  BY <1>9, <1>10 DEF Feasible
<1> QED BY <1>11 DEF both
-----------------------------------------------------------------------------
(* What is recorded after an operation.                                    *)
Noted(o, before) ==
  IF Drops(o)
  THEN Append(RemoveAt(before, Len(before) - (o.n - o.drop)), Reduce(o.name, o.n - 1, 0))
  ELSE Append(before, o)

(* As many of the last operations are shifts.                              *)
Shifted(src, i, k) == k \in 0 .. i /\ \A j \in 1 .. k : src[i - j + 1].op = "shift"

(* What a rule leaves out is among the tokens before it.                   *)
LEMMA SourceDrops ==
  ASSUME NEW src \in Sources, NEW i \in 1 .. Len(src), Drops(src[i])
  PROVE  /\ src[i].n \in Nat /\ src[i].drop \in 1 .. src[i].n
         /\ Shifted(src, i - 1, src[i].n - src[i].drop + 1)
<1> DEFINE o == src[i]
           m == o.n - o.drop + 1
<1>1. i \in DOMAIN src /\ i \in Nat
  BY SourceOperations, LenProperties
<1>2. IsOperation(o) /\ o.op = "reduce" /\ o.drop # 0
  BY <1>1, SourcesAssumption DEF Drops
<1>3. o.n \in Nat /\ o.drop \in 1 .. o.n
  BY <1>2 DEF IsOperation
<1>4. \A k \in 1 .. m : i - k > 0 /\ src[i - k].op = "shift"
  BY <1>1, SourcesAssumption
<1> HIDE DEF o
<1>5. m \in Nat /\ m >= 1
  BY <1>3
<1>6. m \in 0 .. i - 1
  BY <1>1, <1>4, <1>5
<1>7. ASSUME NEW j \in 1 .. m PROVE src[(i - 1) - j + 1].op = "shift"
  <2>1. (i - 1) - j + 1 = i - j
    BY <1>1, <1>5
  <2> QED BY <1>4, <2>1
<1> QED BY <1>3, <1>6, <1>7 DEF Shifted, o

(* Something in a sequence is taken out of it.                             *)
LEMMA RemovedSequence ==
  ASSUME NEW X, NEW q \in Seq(X), NEW i \in 1 .. Len(q)
  PROVE  RemoveAt(q, i) \in Seq(X) /\ Len(RemoveAt(q, i)) = Len(q) - 1
<1> DEFINE a == SubSeq(q, 1, i - 1)
           b == SubSeq(q, i + 1, Len(q))
<1>1. a \in Seq(X) /\ Len(a) = i - 1
  OBVIOUS
<1>2. b \in Seq(X) /\ Len(b) = Len(q) - i
  OBVIOUS
<1>3. Len(q) \in Nat
  OBVIOUS
<1>4. RemoveAt(q, i) = a \o b
  BY DEF RemoveAt
<1> HIDE DEF a, b
<1>5. a \o b \in Seq(X) /\ Len(a \o b) = Len(a) + Len(b)
  BY <1>1, <1>2
<1>6. (i - 1) + (Len(q) - i) = Len(q) - 1
  BY <1>3
<1> QED BY <1>1, <1>2, <1>4, <1>5, <1>6

(* Recorded records what its definition says.                              *)
LEMMA RecordedSteps ==
  ASSUME NEW src \in Sources
  PROVE  /\ Recorded(src)[0] = <<>>
         /\ \A i \in 1 .. Len(src) : Recorded(src)[i] = Noted(src[i], Recorded(src)[i - 1])
<1> DEFINE n == Len(src)
           X == AllOperations \cup {Reduce(o.name, o.n - 1, 0) : o \in AllOperations}
           S == Seq(X)
           Finds(o, h) == Drops(o) => o.n - o.drop + 1 <= Len(h)
           body(w) == [i \in 0 .. n |-> IF i = 0 THEN <<>> ELSE Noted(src[i], w[i - 1])]
           G == [p \in Nat \X S |-> IF p[1] < n /\ Finds(src[p[1] + 1], p[2])
                                    THEN Noted(src[p[1] + 1], p[2]) ELSE p[2]]
           R == Recorded(src)
<1>0. n \in Nat /\ src \in Seq(AllOperations) /\ \A i \in 1 .. n : src[i] \in AllOperations
  BY SourceOperations, LenProperties, ElementOfSeq
<1>1. R = CHOOSE w : w = body(w)
  BY Zenon DEF Recorded, Noted
<1>2. ASSUME NEW o \in AllOperations, NEW h \in S, Finds(o, h)
      PROVE  Noted(o, h) \in S /\ Len(Noted(o, h)) = IF Drops(o) THEN Len(h) ELSE Len(h) + 1
  <2>1. CASE ~Drops(o)
    BY <1>2, <2>1 DEF Noted
  <2>2. CASE Drops(o)
    <3> DEFINE i == Len(h) - (o.n - o.drop)
               r == Reduce(o.name, o.n - 1, 0)
    <3>1. o.n \in Nat /\ o.drop \in 1 .. o.n /\ Len(h) \in Nat
      BY <2>2, SourceOperations DEF IsOperation, Drops
    <3>2. i \in 1 .. Len(h)
      BY <1>2, <2>2, <3>1
    <3>3. r \in X
      OBVIOUS
    <3>4. Noted(o, h) = Append(RemoveAt(h, i), r)
      BY <2>2 DEF Noted
    <3> HIDE DEF i, r, X
    <3>5. RemoveAt(h, i) \in Seq(X) /\ Len(RemoveAt(h, i)) = Len(h) - 1
      BY <3>2, RemovedSequence
    <3> QED BY <2>2, <3>1, <3>3, <3>4, <3>5
  <2> QED BY <2>1, <2>2
<1> HIDE DEF n, R, Finds
<1>3. G \in StepFunctions(S) /\ <<>> \in S
  <2>1. ASSUME NEW k \in Nat, NEW h \in S, k < n, Finds(src[k + 1], h)
        PROVE  Noted(src[k + 1], h) \in S
    <3>1. k + 1 \in 1 .. n
      BY <1>0, <2>1
    <3> HIDE DEF S
    <3> QED BY <1>0, <1>2, <2>1, <3>1
  <2>2. <<>> \in S
    BY EmptySeq
  <2> HIDE DEF S
  <2> QED BY <2>1, <2>2 DEF StepFunctions
<1>4. PICK g : IsRecursion(g, S, <<>>, G)
  <2> HIDE DEF G, S
  <2> QED BY <1>3, NatRecursion
<1>5. g \in [Nat -> S] /\ g[0] = <<>> /\ \A k \in Nat : g[k + 1] = G[<<k, g[k]>>]
  <2> HIDE DEF G, S
  <2> QED BY <1>4 DEF IsRecursion
<1> HIDE DEF S
<1> DEFINE Long(k) == \A m : Shifted(src, k, m) => m <= Len(g[k])
<1>6. ASSUME NEW k \in Nat, k < n, Long(k)
      PROVE  g[k + 1] = Noted(src[k + 1], g[k]) /\ Long(k + 1)
  <2>1. k + 1 \in 1 .. n /\ (k + 1) - 1 = k /\ g[k] \in S /\ src[k + 1] \in AllOperations
    BY <1>0, <1>5, <1>6
  <2>2. Finds(src[k + 1], g[k])
    <3> SUFFICES ASSUME Drops(src[k + 1])
                 PROVE  src[k + 1].n - src[k + 1].drop + 1 <= Len(g[k])
      BY DEF Finds
    <3>1. Shifted(src, (k + 1) - 1, src[k + 1].n - src[k + 1].drop + 1)
      BY <2>1, SourceDrops DEF n
    <3> QED BY <1>6, <2>1, <3>1
  <2>3. g[k + 1] = Noted(src[k + 1], g[k])
    BY <1>5, <1>6, <2>1, <2>2
  <2>4. ASSUME NEW m, Shifted(src, k + 1, m) PROVE m <= Len(g[k + 1])
    <3>1. m \in 0 .. k + 1 /\ \A j \in 1 .. m : src[(k + 1) - j + 1].op = "shift"
      BY <2>4 DEF Shifted
    <3>2. Len(g[k]) \in Nat /\ Len(g[k + 1]) \in Nat
      BY <1>5, LenProperties DEF S
    <3>3. CASE m = 0
      BY <3>2, <3>3
    <3>4. CASE m # 0
      <4>1. 1 \in 1 .. m /\ (k + 1) - 1 + 1 = k + 1 /\ m - 1 \in 0 .. k
        BY <3>1, <3>4
      <4>2. src[k + 1].op = "shift"
        BY <3>1, <4>1
      <4>3. ASSUME NEW j \in 1 .. m - 1 PROVE src[k - j + 1].op = "shift"
        <5> DEFINE l == j + 1
        <5>1. l \in 1 .. m /\ (k + 1) - l + 1 = k - j + 1
          BY <3>1, <4>1
        <5> HIDE DEF l
        <5>2. src[(k + 1) - l + 1].op = "shift"
          BY <3>1, <5>1
        <5> QED BY <5>1, <5>2
      <4>4. m - 1 <= Len(g[k])
        BY <1>6, <4>1, <4>3 DEF Shifted
      <4>5. Len(g[k + 1]) = Len(g[k]) + 1
        <5>1. ~Drops(src[k + 1])
          BY <4>2 DEF Drops
        <5> QED BY <1>2, <2>1, <2>2, <2>3, <5>1
      <4> QED BY <3>1, <3>2, <4>4, <4>5
    <3> QED BY <3>3, <3>4
  <2> QED BY <2>3, <2>4
<1> DEFINE P == {k \in Nat : k <= n => Long(k)}
<1>7. 0 \in P
  <2>1. ASSUME NEW m, Shifted(src, 0, m) PROVE m <= Len(g[0])
    <3>1. m = 0 /\ Len(<<>>) = 0
      BY <2>1 DEF Shifted
    <3> QED BY <1>5, <3>1
  <2> QED BY <2>1
<1>8. ASSUME NEW k \in P PROVE k + 1 \in P
  <2>1. k \in Nat /\ (k <= n => Long(k))
    OBVIOUS
  <2>2. k + 1 <= n => Long(k) /\ k < n
    BY <1>0, <2>1
  <2> HIDE DEF Long
  <2> QED BY <1>6, <2>1, <2>2
<1>9. \A k \in Nat : k \in P
  <2>1. P \subseteq Nat
    OBVIOUS
  <2> HIDE DEF P
  <2> QED BY <1>7, <1>8, <2>1, SetInduction
<1>10. \A k \in Nat : k < n => g[k + 1] = Noted(src[k + 1], g[k])
  <2>1. \A k \in Nat : k < n => Long(k)
    BY <1>0, <1>9
  <2> HIDE DEF Long
  <2> QED BY <1>6, <2>1
<1> DEFINE f == [i \in 0 .. n |-> g[i]]
<1>11. f = body(f)
  <2>1. ASSUME NEW i \in 0 .. n PROVE f[i] = IF i = 0 THEN <<>> ELSE Noted(src[i], f[i - 1])
    <3>1. CASE i = 0
      BY <1>0, <1>5, <3>1
    <3>2. CASE i # 0
      <4>1. i - 1 \in Nat /\ (i - 1) + 1 = i /\ i - 1 < n /\ i - 1 \in 0 .. n
        BY <1>0, <3>2
      <4>2. g[i] = Noted(src[i], g[i - 1])
        BY <1>10, <4>1
      <4> QED BY <3>2, <4>1, <4>2
    <3> QED BY <3>1, <3>2
  <2> QED BY <2>1
<1>12. R = body(R)
  <2> HIDE DEF body, f
  <2>1. \E w : w = body(w)
    BY <1>11
  <2> QED BY <1>1, <2>1, Zenon
<1>13. \A i \in 0 .. n : R[i] = IF i = 0 THEN <<>> ELSE Noted(src[i], R[i - 1])
  BY <1>12
<1>14. R[0] = <<>> /\ \A i \in 1 .. n : R[i] = Noted(src[i], R[i - 1])
  BY <1>0, <1>13
<1> QED BY <1>14 DEF n, R

-----------------------------------------------------------------------------
(* After a name is tagged its tag denotes it, and others what they did.    *)
LEMMA InsertNames ==
  ASSUME TagsDenoteNames, NEW key \in Names, Insert(key)
  PROVE  /\ TagsDenoteNames' /\ Len(vec) \in Nat /\ Len(vec') \in Nat /\ Len(vec) <= Len(vec')
         /\ \A i \in 1 .. Len(vec) : vec'[i] = vec[i]
         /\ map'[key] \in 1 .. Len(vec') /\ vec'[map'[key]] = key
<1>1. TagsDenoteNames'
  BY InsertIsUse
<1>2. vec \in Seq(Names) /\ vec' \in Seq(Names)
  BY <1>1 DEF TagsDenoteNames
<1>3. DOMAIN vec = 1 .. Len(vec) /\ DOMAIN vec' = 1 .. Len(vec') /\ Len(vec) \in Nat /\ Len(vec') \in Nat
  BY <1>2, LenProperties
<1>4. CASE Id(key) > 0
  <2>1. vec' = vec /\ map' = map /\ key \in DOMAIN map
    BY <1>4 DEF Insert, Id
  <2>2. PICK i \in DOMAIN vec : key = vec[i]
    BY <2>1 DEF TagsDenoteNames
  <2>3. map[key] = i
    BY <2>2 DEF TagsDenoteNames
  <2> QED BY <1>1, <1>3, <2>1, <2>2, <2>3
<1>5. CASE ~(Id(key) > 0)
  <2>1. vec' = Append(vec, key)
    BY <1>5 DEF Insert
  <2>2. Len(vec') = Len(vec) + 1 /\ vec'[Len(vec) + 1] = key /\ \A i \in 1 .. Len(vec) : vec'[i] = vec[i]
    BY <1>2, <2>1
  <2>3. Len(vec) + 1 \in DOMAIN vec'
    BY <1>3, <2>2
  <2>4. map'[vec'[Len(vec) + 1]] = Len(vec) + 1
    BY <1>1, <2>3 DEF TagsDenoteNames
  <2> QED BY <1>1, <1>3, <2>2, <2>3, <2>4
<1> QED BY <1>4, <1>5

(* A forest for the state: its tags are in the table, and it has the       *)
(* values and the root.                                                    *)
HasTrees(T) == Forest(T) /\ Tagged(T, Len(vec)) /\ values \in Seq(T)

(* What is derived from the values, and then that of a longer forest.      *)
LEMMA ValuesStay ==
  ASSUME NEW T, Forest(T), NEW U, Forest(U), T \subseteq U, NEW n, Tagged(T, n),
         NEW v, NEW w, \A i \in 1 .. n : w[i] = v[i], NEW q \in Seq(T)
  PROVE  Flat(q, DerivationsIn(w, U)) = Flat(q, DerivationsIn(v, T))
<1> DEFINE a == DerivationsIn(w, U)
           b == DerivationsIn(v, T)
<1>1. \A t \in T : a[t] = b[t]
  BY DerivationsStay, SMT
<1>2. \A i \in 1 .. Len(q) : q[i] \in T
  BY ElementOfSeq
<1> HIDE DEF a, b
<1>3. Flat(q, a) = Flat(q, b)
  BY <1>1, <1>2, FlatCommon
<1> QED BY <1>3 DEF a, b

(* The forest grows by the token that is shifted, and by the tree that is  *)
(* built; the derivation of the stack grows by that operation.             *)
LEMMA ShiftTree ==
  ASSUME NEW T, HasTrees(T), NEW t, IsToken(t)
  PROVE  LET U == T \cup {t}
         IN  /\ Forest(U) /\ Tagged(U, Len(vec)) /\ Append(values, t) \in Seq(U)
             /\ Flat(Append(values, t), DerivationsIn(vec, U)) =
                  Append(Flat(values, DerivationsIn(vec, T)), Shift(t))
<1> DEFINE U == T \cup {t}
           X == {OperationIn(vec, u) : u \in U}
           D == DerivationsIn(vec, U)
           C == DerivationsIn(vec, T)
<1>1. Forest(T) /\ Tagged(T, Len(vec)) /\ values \in Seq(T)
  BY DEF HasTrees
<1>2. t.terminal = TRUE /\ t.kids = <<>>
  BY DEF IsToken, Symbol
<1>3. Forest(U)
  <2>1. t.kids \in Seq(T)
    BY <1>2, EmptySeq
  <2> QED BY <1>1, <2>1, ForestGrows
<1>4. Tagged(U, Len(vec))
  BY <1>1, <1>2 DEF Tagged
<1>5. \A u \in U : OperationIn(vec, u) \in X
  OBVIOUS
<1>6. T \subseteq U /\ t \in U
  OBVIOUS
<1> HIDE DEF U, X
<1>7. values \in Seq(U)
  BY <1>1, <1>6, SeqMonotonic
<1>8. Append(values, t) \in Seq(U)
  BY <1>6, <1>7
<1>9. D \in [U -> Seq(X)] /\ D[t] = Append(Flat(t.kids, D), OperationIn(vec, t))
  BY <1>3, <1>5, <1>6, DerivationOf
<1>10. Flat(values, D) = Flat(values, C)
  BY <1>1, <1>3, <1>6, ValuesStay, ZenonT(90)
<1> HIDE DEF D, C
<1>11. Flat(values, D) \in Seq(X) /\ Flat(<<>>, D) = <<>>
       /\ Flat(Append(values, t), D) = Flat(values, D) \o D[t]
  BY <1>6, <1>7, <1>9, FlatOf, FlatOne, ZenonT(90)
<1>12. D[t] = <<Shift(t)>>
  <2>1. OperationIn(vec, t) = Shift(t)
    BY <1>2 DEF OperationIn
  <2>2. Append(<<>>, Shift(t)) = <<Shift(t)>>
    OBVIOUS
  <2> QED BY <1>2, <1>9, <1>11, <2>1, <2>2
<1>13. Flat(values, D) \o <<Shift(t)>> = Append(Flat(values, D), Shift(t))
  <2> DEFINE a == Flat(values, D)
             o == Shift(t)
  <2>1. a \in Seq(X) /\ o \in {o}
    BY <1>11
  <2> HIDE DEF a, o
  <2>2. a \o <<o>> = Append(a, o)
    BY <2>1
  <2> QED BY <2>2 DEF a, o
<1> QED BY <1>3, <1>4, <1>8, <1>10, <1>11, <1>12, <1>13 DEF U, D, C

(* A sequence and one of its members.                                      *)
Splits(X, q, d, a, b) ==
  /\ a \in Seq(X) /\ b \in Seq(X) /\ Len(a) = d - 1 /\ Len(b) = Len(q) - d
  /\ q = a \o (<<q[d]>> \o b) /\ RemoveAt(q, d) = a \o b

LEMMA SplitAt ==
  ASSUME NEW X, NEW q \in Seq(X), NEW d \in 1 .. Len(q)
  PROVE  \E a, b : Splits(X, q, d, a, b)
<1> DEFINE a == SubSeq(q, 1, d - 1)
           b == SubSeq(q, d + 1, Len(q))
           c == <<q[d]>> \o b
<1>1. Len(q) \in Nat /\ q[d] \in X
  OBVIOUS
<1>2. /\ a \in Seq(X) /\ Len(a) = d - 1
      /\ \A i \in 1 .. d - 1 : a[i] = q[i]
  OBVIOUS
<1>3. /\ b \in Seq(X) /\ Len(b) = Len(q) - d
      /\ \A i \in 1 .. Len(q) - d : b[i] = q[d + i]
  OBVIOUS
<1> HIDE DEF a, b
<1>4. /\ c \in Seq(X) /\ Len(c) = Len(q) - d + 1
      /\ \A i \in 1 .. Len(q) - d + 1 : c[i] = q[d + i - 1]
  <2> DEFINE one == <<q[d]>>
  <2>0. one \in Seq(X) /\ Len(one) = 1 /\ one[1] = q[d] /\ c = one \o b
    BY <1>1
  <2> HIDE DEF c, one
  <2>1. /\ c \in Seq(X) /\ Len(c) = Len(b) + 1 /\ c[1] = q[d]
        /\ \A i \in 2 .. Len(b) + 1 : c[i] = b[i - 1]
    <3>1. /\ one \o b \in Seq(X) /\ Len(one \o b) = Len(one) + Len(b)
          /\ \A i \in 1 .. Len(one) + Len(b) :
               (one \o b)[i] = IF i <= Len(one) THEN one[i] ELSE b[i - Len(one)]
      BY <1>3, <2>0, ConcatProperties
    <3>2. Len(b) \in Nat
      BY <1>3
    <3> QED BY <2>0, <3>1, <3>2
  <2>2. ASSUME NEW i \in 1 .. Len(q) - d + 1 PROVE c[i] = q[d + i - 1]
    <3>1. CASE i = 1
      BY <1>1, <2>1, <3>1
    <3>2. CASE i # 1
      <4>1. i \in 2 .. Len(b) + 1 /\ i - 1 \in 1 .. Len(q) - d /\ d + (i - 1) = d + i - 1
        BY <1>1, <1>3, <3>2
      <4> QED BY <1>3, <2>1, <4>1
    <3> QED BY <3>1, <3>2
  <2> QED BY <1>1, <1>3, <2>1, <2>2
<1> HIDE DEF c
<1>5. a \o c \in Seq(X) /\ Len(a \o c) = Len(q)
  BY <1>1, <1>2, <1>4
<1>6. ASSUME NEW i \in 1 .. Len(q) PROVE (a \o c)[i] = q[i]
  <2>1. (a \o c)[i] = IF i <= Len(a) THEN a[i] ELSE c[i - Len(a)]
    BY <1>1, <1>2, <1>4, ConcatProperties
  <2>2. CASE i <= d - 1
    BY <1>2, <2>1, <2>2
  <2>3. CASE ~(i <= d - 1)
    <3>1. i - (d - 1) \in 1 .. Len(q) - d + 1 /\ d + (i - (d - 1)) - 1 = i
      BY <1>1, <2>3
    <3> QED BY <1>2, <1>4, <2>1, <2>3, <3>1
  <2> QED BY <2>2, <2>3
<1>7. q = a \o c
  BY <1>5, <1>6, SeqEqual
<1>8. RemoveAt(q, d) = a \o b
  BY DEF RemoveAt, a, b
<1>9. Splits(X, q, d, a, b)
  BY <1>2, <1>3, <1>7, <1>8 DEF c, Splits
<1> QED BY <1>9

LEMMA RemoveBetween ==
  ASSUME NEW X, NEW a \in Seq(X), NEW o \in X, NEW b \in Seq(X)
  PROVE  LET q == a \o (<<o>> \o b)
         IN  Len(q) = Len(a) + Len(b) + 1 /\ RemoveAt(q, Len(q) - Len(b)) = a \o b
<1> DEFINE c == <<o>> \o b
           q == a \o c
           d == Len(a) + 1
<1>1. Len(a) \in Nat /\ Len(b) \in Nat
  OBVIOUS
<1>2. /\ c \in Seq(X) /\ Len(c) = Len(b) + 1
      /\ \A i \in 1 .. Len(b) : c[i + 1] = b[i]
  BY <1>1
<1> HIDE DEF c
<1>3. /\ q \in Seq(X) /\ Len(q) = Len(a) + Len(b) + 1
      /\ \A i \in 1 .. Len(q) : q[i] = IF i <= Len(a) THEN a[i] ELSE c[i - Len(a)]
  <2>1. /\ a \o c \in Seq(X) /\ Len(a \o c) = Len(a) + Len(c)
        /\ \A i \in 1 .. Len(a) + Len(c) :
             (a \o c)[i] = IF i <= Len(a) THEN a[i] ELSE c[i - Len(a)]
    BY <1>2, ConcatProperties
  <2> QED BY <1>1, <1>2, <2>1
<1> HIDE DEF q
<1>4. SubSeq(q, 1, d - 1) = a
  <2>1. /\ SubSeq(q, 1, d - 1) \in Seq(X) /\ Len(SubSeq(q, 1, d - 1)) = Len(a)
        /\ \A i \in 1 .. Len(a) : SubSeq(q, 1, d - 1)[i] = q[i]
    BY <1>1, <1>3
  <2>2. \A i \in 1 .. Len(a) : q[i] = a[i]
    BY <1>1, <1>3
  <2> QED BY <2>1, <2>2, SeqEqual
<1>5. SubSeq(q, d + 1, Len(q)) = b
  <2>1. /\ SubSeq(q, d + 1, Len(q)) \in Seq(X) /\ Len(SubSeq(q, d + 1, Len(q))) = Len(b)
        /\ \A i \in 1 .. Len(b) : SubSeq(q, d + 1, Len(q))[i] = q[d + i]
    BY <1>1, <1>3
  <2>2. ASSUME NEW i \in 1 .. Len(b) PROVE q[d + i] = b[i]
    <3>1. d + i \in 1 .. Len(q) /\ ~(d + i <= Len(a)) /\ (d + i) - Len(a) = i + 1
      BY <1>1, <1>3
    <3> QED BY <1>2, <1>3, <3>1
  <2> QED BY <2>1, <2>2, SeqEqual
<1>6. Len(q) - Len(b) = d
  BY <1>1, <1>3
<1> QED BY <1>3, <1>4, <1>5, <1>6 DEF RemoveAt, q, c

(* Tokens derive themselves.                                               *)
LEMMA TokensFlat ==
  ASSUME NEW T, Forest(T), NEW v, NEW X, \A t \in T : OperationIn(v, t) \in X,
         NEW q \in Seq(T), \A i \in 1 .. Len(q) : q[i].kids = <<>>
  PROVE  Len(Flat(q, DerivationsIn(v, T))) = Len(q)
<1> DEFINE D == DerivationsIn(v, T)
           n == Len(q)
           head(k) == SubSeq(q, 1, k)
<1>1. n \in Nat /\ \A i \in 1 .. n : q[i] \in T
  OBVIOUS
<1>2. D \in [T -> Seq(X)]
  BY DerivationsListing DEF IsListing
<1>3. ASSUME NEW i \in 1 .. n PROVE Len(D[q[i]]) = 1
  <2>1. q[i] \in T /\ q[i].kids = <<>>
    BY <1>1
  <2> DEFINE t == q[i]
  <2>2. t \in T /\ t.kids = <<>>
    BY <2>1
  <2> HIDE DEF t
  <2>3. D[t] = Append(Flat(t.kids, D), OperationIn(v, t))
    BY <2>2, DerivationOf
  <2>4. Flat(<<>>, D) = <<>>
    BY DEF Flat, Mapped, FlattenSeq
  <2>5. D[t] = Append(<<>>, OperationIn(v, t))
    BY <2>2, <2>3, <2>4
  <2>6. Len(Append(<<>>, OperationIn(v, t))) = 1
    OBVIOUS
  <2> QED BY <2>5, <2>6 DEF t
<1> HIDE DEF D, n
<1>4. /\ head(0) = <<>> /\ head(n) = q
      /\ \A k \in 0 .. n : head(k) \in Seq(T)
      /\ \A k \in 0 .. n : k < n => head(k + 1) = Append(head(k), q[k + 1])
  BY <1>1 DEF n
<1> HIDE DEF head
<1> DEFINE P == {k \in Nat : k <= n => Len(Flat(head(k), D)) = k}
<1>5. 0 \in P
  <2>1. Flat(<<>>, D) = <<>> /\ Len(<<>>) = 0
    BY DEF Flat, Mapped, FlattenSeq
  <2> QED BY <1>4, <2>1
<1>6. ASSUME NEW k \in P PROVE k + 1 \in P
  <2>1. k \in Nat /\ (k <= n => Len(Flat(head(k), D)) = k)
    OBVIOUS
  <2> HIDE DEF P
  <2>2. ASSUME k + 1 <= n PROVE Len(Flat(head(k + 1), D)) = k + 1
    <3>1. k \in 0 .. n /\ k < n /\ k + 1 \in 1 .. n
      BY <1>1, <2>1, <2>2
    <3> DEFINE p == head(k)
               t == q[k + 1]
    <3>2. p \in Seq(T) /\ t \in T /\ head(k + 1) = Append(p, t) /\ Len(D[t]) = 1 /\ Len(Flat(p, D)) = k
      BY <1>1, <1>3, <1>4, <2>1, <3>1
    <3> HIDE DEF p, t
    <3>3. Flat(Append(p, t), D) = Flat(p, D) \o D[t]
      BY <1>2, <3>2, FlatOne, ZenonT(120)
    <3>4. Flat(p, D) \in Seq(X)
      BY <1>2, <3>2, FlatOf
    <3> DEFINE x == Flat(p, D)
               y == D[t]
    <3>5. x \in Seq(X) /\ y \in Seq(X) /\ Len(x) = k /\ Len(y) = 1
      BY <1>2, <3>2, <3>4
    <3> HIDE DEF x, y
    <3>6. Len(x \o y) = Len(x) + Len(y)
      BY <3>5, ConcatProperties
    <3> QED BY <3>2, <3>3, <3>5, <3>6 DEF x, y
  <2> QED BY <2>1, <2>2 DEF P
<1>7. P \subseteq Nat
  OBVIOUS
<1>8. n \in P
  <2> HIDE DEF P
  <2> QED BY <1>1, <1>5, <1>6, <1>7, SetInduction
<1> QED BY <1>4, <1>8 DEF n, D

(* BUILD: the tree that is made grows the forest, and its derivation is    *)
(* that of what it links, with the reduction behind it.                    *)
Made(T, key, n, drop) ==
  LET first == SubSeq(values, 1, Len(values) - n)
      C == DerivationsIn(vec, T)
  IN  Append(Flat(first, C) \o Flat(Linked(n, drop), C),
             IF key = "translation_unit" THEN ReduceUnit
             ELSE Reduce(key, IF drop = 0 THEN n ELSE n - 1, 0))

Grown(T, U, x) ==
  Forest(U) /\ Tagged(U, Len(vec')) /\ values' \in Seq(U) /\ T \subseteq U /\ x \in U

LEMMA BuildTree ==
  ASSUME TagsDenoteNames, NEW T, HasTrees(T), NEW key \in Names, NEW n \in 0 .. Len(values),
         NEW drop \in 0 .. n, Build(key, n, drop)
  PROVE  LET x == Built(key, n, drop)
             U == T \cup {x}
         IN  /\ TagsDenoteNames' /\ Grown(T, U, x)
             /\ Len(values') = Len(values) - n + 1 /\ Last(values') = x
             /\ Flat(values', DerivationsIn(vec', U)) = Made(T, key, n, drop)
<1> DEFINE x == Built(key, n, drop)
           U == T \cup {x}
           w == vec'
           X == {OperationIn(w, u) : u \in U}
           D == DerivationsIn(w, U)
           C == DerivationsIn(vec, T)
           k == Len(values)
           first == SubSeq(values, 1, k - n)
           rest == Linked(n, drop)
<1>1. Forest(T) /\ Tagged(T, Len(vec)) /\ values \in Seq(T)
  BY DEF HasTrees
<1>2. Insert(key) /\ values' = Append(first, x)
  BY DEF Build
<1>3. /\ TagsDenoteNames' /\ Len(vec) <= Len(w) /\ Len(vec) \in Nat /\ Len(w) \in Nat
      /\ \A i \in 1 .. Len(vec) : w[i] = vec[i]
      /\ map'[key] \in 1 .. Len(w) /\ w[map'[key]] = key
  BY <1>2, InsertNames
<1>4. x.terminal = FALSE /\ x.type = map'[key] /\ x.kids = rest
  BY DEF Built, Symbol
<1>5. /\ first \in Seq(T) /\ rest \in Seq(T) /\ Len(first) = k - n
      /\ Len(rest) = IF drop = 0 THEN n ELSE n - 1
  <2> DEFINE q == values
             right == SubSeq(q, (k - n) + 1, k)
  <2>1. k \in Nat /\ n \in Nat /\ n <= k /\ q \in Seq(T) /\ k = Len(q) /\ drop \in 0 .. n
    BY <1>1, LenProperties
  <2> HIDE DEF k, q
  <2>2. SubSeq(q, 1, k - n) \in Seq(T) /\ Len(SubSeq(q, 1, k - n)) = k - n
    BY <2>1
  <2>3. right \in Seq(T) /\ Len(right) = n
    BY <2>1
  <2>4. rest = IF drop = 0 THEN right ELSE RemoveAt(right, drop)
    BY DEF Linked, k, q
  <2> HIDE DEF right
  <2> HIDE DEF rest
  <2>5. rest \in Seq(T) /\ Len(rest) = IF drop = 0 THEN n ELSE n - 1
    <3>1. CASE drop = 0
      BY <2>3, <2>4, <3>1
    <3>2. CASE drop # 0
      <4>1. drop \in 1 .. Len(right)
        BY <2>1, <2>3, <3>2
      <4>2. RemoveAt(right, drop) \in Seq(T) /\ Len(RemoveAt(right, drop)) = n - 1
        BY <2>3, <4>1, RemovedSequence
      <4> QED BY <2>4, <3>2, <4>2
    <3> QED BY <3>1, <3>2
  <2> QED BY <2>2, <2>5 DEF q
<1>6. Forest(U)
  BY <1>1, <1>4, <1>5, ForestGrows
<1>7. Tagged(U, Len(w))
  <2>1. \A t \in T : IF t.terminal THEN t.kids = <<>> ELSE t.type \in 1 .. Len(w)
    BY <1>1, <1>3 DEF Tagged
  <2> HIDE DEF x, w
  <2>2. IF x.terminal THEN x.kids = <<>> ELSE x.type \in 1 .. Len(w)
    BY <1>3, <1>4
  <2> QED BY <2>1, <2>2 DEF Tagged
<1>8. \A u \in U : OperationIn(w, u) \in X
  OBVIOUS
<1>9. T \subseteq U /\ x \in U
  OBVIOUS
<1>10. k \in Nat /\ n \in Nat /\ n <= k
  BY <1>1, LenProperties
<1> HIDE DEF U, X, x, first, rest
<1>12. first \in Seq(U) /\ rest \in Seq(U) /\ values \in Seq(U)
  BY <1>1, <1>5, <1>9, SeqMonotonic
<1>13. values' \in Seq(U) /\ Len(values') = Len(values) - n + 1 /\ Last(values') = x
  <2>1. Len(Append(first, x)) = (k - n) + 1 /\ Append(first, x) \in Seq(U)
        /\ Append(first, x)[(k - n) + 1] = x
    BY <1>5, <1>9, <1>10, <1>12
  <2> QED BY <1>2, <2>1 DEF Last
<1> HIDE DEF w
<1>14. D \in [U -> Seq(X)] /\ D[x] = Append(Flat(x.kids, D), OperationIn(w, x))
  BY <1>6, <1>8, <1>9, DerivationOf
<1>15. Flat(first, D) = Flat(first, C) /\ Flat(rest, D) = Flat(rest, C)
  <2>1. ASSUME NEW q \in Seq(T) PROVE Flat(q, D) = Flat(q, C)
    BY <1>1, <1>3, <1>6, <1>9, ValuesStay, SMTT(40)
  <2> HIDE DEF D, C
  <2> QED BY <1>5, <2>1
<1> HIDE DEF D, C
<1> DEFINE o == OperationIn(w, x)
           a == Flat(first, D)
           b == Flat(rest, D)
<1>16. /\ a \in Seq(X) /\ b \in Seq(X) /\ o \in X
       /\ Flat(Append(first, x), D) = a \o D[x]
  <2>1. a \in Seq(X) /\ b \in Seq(X)
    BY <1>12, <1>14, FlatOf
  <2>2. Flat(Append(first, x), D) = a \o D[x]
    BY <1>9, <1>12, <1>14, FlatOne, ZenonT(90)
  <2>3. o \in X
    BY <1>8, <1>9
  <2> QED BY <2>1, <2>2, <2>3
<1>17. D[x] = Append(b, o)
  BY <1>4, <1>14
<1>18. a = Flat(first, C) /\ b = Flat(rest, C)
  BY <1>15
<1> HIDE DEF a, b, o
<1>19. Flat(values', D) = Append(a \o b, o)
  <2>1. a \o Append(b, o) = Append(a \o b, o)
    BY <1>16
  <2> QED BY <1>2, <1>16, <1>17, <2>1
<1>20. o = IF key = "translation_unit" THEN ReduceUnit
           ELSE Reduce(key, IF drop = 0 THEN n ELSE n - 1, 0)
  BY <1>3, <1>4, <1>5 DEF o, OperationIn
<1>21. Flat(values', D) = Made(T, key, n, drop)
  BY <1>18, <1>19, <1>20 DEF Made, C, first, rest, k
<1>22. Grown(T, U, x)
  BY <1>6, <1>7, <1>9, <1>13 DEF Grown, w
<1> QED BY <1>3, <1>13, <1>21, <1>22 DEF U, D, x, w

(* That is what is recorded, if what a rule leaves out and all that is     *)
(* behind it are tokens.                                                   *)
LEMMA BuildNoted ==
  ASSUME NEW T, HasTrees(T), NEW key \in Names, NEW n \in 0 .. Len(values), NEW drop \in 0 .. n,
         key = "translation_unit" => drop = 0 /\ n = Len(values),
         drop # 0 => \A j \in 1 .. n - drop + 1 : values[Len(values) - j + 1].terminal,
         NEW o, o = IF key = "translation_unit" THEN ReduceUnit ELSE Reduce(key, n, drop)
  PROVE  Made(T, key, n, drop) = Noted(o, Flat(values, DerivationsIn(vec, T)))
<1> DEFINE C == DerivationsIn(vec, T)
           X == {OperationIn(vec, t) : t \in T}
           q == values
           k == Len(q)
           first == SubSeq(q, 1, k - n)
           right == SubSeq(q, (k - n) + 1, k)
           a == Flat(first, C)
<1>1. Forest(T) /\ Tagged(T, Len(vec)) /\ q \in Seq(T) /\ \A t \in T : OperationIn(vec, t) \in X
  BY DEF HasTrees
<1>2. C \in [T -> Seq(X)]
  <2> HIDE DEF X
  <2> QED BY <1>1, DerivationsListing DEF IsListing
<1>3. k \in Nat /\ n \in Nat /\ n <= k /\ k = Len(q) /\ drop \in Nat /\ drop <= n
  BY <1>1, LenProperties
<1>4. drop # 0 => \A j \in 1 .. n - drop + 1 : q[k - j + 1].terminal
  OBVIOUS
<1>5. Linked(n, drop) = IF drop = 0 THEN right ELSE RemoveAt(right, drop)
  BY DEF Linked
<1> HIDE DEF q, k, C, X
<1>6. /\ first \in Seq(T) /\ Len(first) = k - n /\ right \in Seq(T) /\ Len(right) = n
      /\ first \o right = q /\ \A i \in 1 .. n : right[i] = q[k - n + i]
  <2>1. SubSeq(q, 1, k - n) \o SubSeq(q, (k - n) + 1, k) = SubSeq(q, 1, k)
    <3>1. 1 \in 1 .. Len(q) + 1 /\ k - n \in 1 - 1 .. Len(q) /\ k \in k - n .. Len(q)
      BY <1>3
    <3> QED BY <1>1, <1>3, <3>1, ConcatAdjacentSubSeq
  <2>2. SubSeq(q, 1, k) = q
    BY <1>1, <1>3, SubSeqFull
  <2>3. SubSeq(q, 1, k - n) \in Seq(T) /\ Len(SubSeq(q, 1, k - n)) = k - n
    BY <1>1, <1>3
  <2>4. /\ SubSeq(q, (k - n) + 1, k) \in Seq(T) /\ Len(SubSeq(q, (k - n) + 1, k)) = n
        /\ \A i \in 1 .. n : SubSeq(q, (k - n) + 1, k)[i] = q[k - n + i]
    BY <1>1, <1>3
  <2> QED BY <2>1, <2>2, <2>3, <2>4
<1> HIDE DEF first, right
<1>7. a \in Seq(X) /\ Flat(q, C) = a \o Flat(right, C) /\ Flat(right, C) \in Seq(X)
  <2>1. Flat(first \o right, C) = a \o Flat(right, C)
    BY <1>2, <1>6, FlatBoth, ZenonT(90)
  <2>2. a \in Seq(X) /\ Flat(right, C) \in Seq(X)
    BY <1>2, <1>6, FlatOf
  <2> QED BY <1>6, <2>1, <2>2
<1> HIDE DEF a
<1>8. CASE drop = 0
  <2>1. ~Drops(o)
    <3>1. ReduceUnit.op = "unit" /\ Reduce(key, n, 0).drop = 0
      BY DEF ReduceUnit, Reduce
    <3> QED BY <1>8, <3>1 DEF Drops
  <2>2. Noted(o, Flat(q, C)) = Append(a \o Flat(right, C), o)
    BY <1>7, <2>1 DEF Noted
  <2> QED BY <1>5, <1>8, <2>2 DEF Made, C, q, k, a, first
<1>9. CASE drop # 0
  <2>1. drop \in 1 .. Len(right)
    BY <1>3, <1>6, <1>9
  <2>2. PICK p, r \in Seq(T) : /\ right = p \o (<<right[drop]>> \o r)
                               /\ RemoveAt(right, drop) = p \o r
                               /\ Len(p) = drop - 1 /\ Len(r) = n - drop
    <3>0. right \in Seq(T) /\ Len(right) = n
      BY <1>6
    <3>1. PICK f, g : Splits(T, right, drop, f, g)
      BY <2>1, <3>0, SplitAt
    <3> QED BY <3>0, <3>1 DEF Splits
  <2> DEFINE t == right[drop]
             pt == <<t>> \o r
  <2>3. t \in T
    BY <1>6, <2>1, ElementOfSeq
  <2>4. \A i \in drop .. n : right[i].terminal
    <3> SUFFICES ASSUME NEW i \in drop .. n PROVE right[i].terminal
      OBVIOUS
    <3>1. n - i + 1 \in 1 .. n - drop + 1 /\ k - (n - i + 1) + 1 = k - n + i /\ i \in 1 .. n
      BY <1>3, <1>9
    <3>2. q[k - n + i].terminal
      BY <1>4, <1>9, <3>1
    <3> QED BY <1>6, <3>1, <3>2
  <2>5. t.kids = <<>> /\ t.terminal
    <3>1. t.terminal
      BY <1>3, <2>1, <2>4
    <3> QED BY <1>1, <2>3, <3>1 DEF Tagged
  <2>6. \A i \in 1 .. Len(r) : r[i].kids = <<>>
    <3> SUFFICES ASSUME NEW i \in 1 .. Len(r) PROVE r[i].kids = <<>>
      OBVIOUS
    <3>1. pt \in Seq(T) /\ Len(pt) = Len(r) + 1 /\ pt[i + 1] = r[i] /\ Len(r) \in Nat
      BY <2>3
    <3>2. right[drop + i] = pt[i + 1]
      <4>1. right = p \o pt
        BY <2>2
      <4>2. drop + i \in 1 .. Len(p) + Len(pt) /\ ~(drop + i <= Len(p)) /\ (drop + i) - Len(p) = i + 1
        BY <1>3, <2>1, <2>2, <3>1
      <4> HIDE DEF pt
      <4>3. (p \o pt)[drop + i] = pt[(drop + i) - Len(p)]
        BY <3>1, <4>2, ConcatProperties
      <4> QED BY <4>1, <4>2, <4>3
    <3>3. drop + i \in drop .. n
      BY <1>3, <2>2
    <3>4. r[i] \in T /\ r[i].terminal
      <4>1. r[i] \in T
        BY ElementOfSeq
      <4> QED BY <2>4, <3>1, <3>2, <3>3, <4>1
    <3> QED BY <1>1, <3>4 DEF Tagged
  <2> HIDE DEF t, pt
  <2> DEFINE b == Flat(p, C)
             c == Flat(r, C)
             e == OperationIn(vec, t)
             f == a \o b
  <2>7. b \in Seq(X) /\ c \in Seq(X) /\ e \in X
    <3>1. b \in Seq(X) /\ c \in Seq(X)
      BY <1>2, FlatOf
    <3>2. e \in X
      BY <1>1, <2>3
    <3> QED BY <3>1, <3>2
  <2>8. Len(c) = n - drop
    BY <1>1, <2>2, <2>6, TokensFlat DEF C
  <2>9. Flat(<<t>>, C) = <<e>>
    <3>1. C[t] = Append(Flat(t.kids, C), e)
      BY <1>1, <2>3, DerivationOf DEF C
    <3>2. Flat(<<>>, C) = <<>>
      BY DEF Flat, Mapped, FlattenSeq
    <3>3. Flat(<<t>>, C) = C[t]
      <4>1. <<>> \in Seq(T)
        BY EmptySeq
      <4> QED BY <1>2, <2>3, <4>1, FlatOne
    <3>4. Append(<<>>, e) = <<e>>
      OBVIOUS
    <3> QED BY <2>5, <3>1, <3>2, <3>3, <3>4, SMTT(30)
  <2>10. Flat(right, C) = b \o (<<e>> \o c) /\ Flat(p \o r, C) = b \o c
    <3> DEFINE one == <<t>>
    <3>1. one \in Seq(T) /\ pt = one \o r
      BY <2>3 DEF pt
    <3>2. pt \in Seq(T)
      BY <3>1, ConcatProperties
    <3>3. right = p \o pt /\ Flat(one, C) = <<e>>
      BY <2>2, <2>9 DEF pt, t
    <3> HIDE DEF one, e
    <3>4. Flat(pt, C) = Flat(one, C) \o Flat(r, C)
      BY <1>2, <3>1, FlatBoth, ZenonT(60)
    <3>5. Flat(p \o pt, C) = Flat(p, C) \o Flat(pt, C)
      BY <1>2, <3>2, FlatBoth, ZenonT(60)
    <3>6. Flat(p \o r, C) = Flat(p, C) \o Flat(r, C)
      BY <1>2, FlatBoth, ZenonT(60)
    <3> QED BY <3>3, <3>4, <3>5, <3>6
  <2>11. o = Reduce(key, n, drop) /\ key # "translation_unit"
    BY <1>9
  <2>12. Drops(o) /\ o.name = key /\ o.n = n /\ o.drop = drop
    BY <1>9, <2>11 DEF Drops, Reduce
  <2> HIDE DEF b, c, e
  <2>13. /\ a \o (b \o (<<e>> \o c)) = f \o (<<e>> \o c)
         /\ a \o (b \o c) = f \o c /\ f \in Seq(X)
    <3> DEFINE g == <<e>> \o c
    <3>1. g \in Seq(X)
      BY <2>7
    <3> HIDE DEF g
    <3>2. f \in Seq(X)
      BY <1>7, <2>7
    <3>3. \A u \in Seq(X) : a \o (b \o u) = f \o u
      <4> TAKE u \in Seq(X)
      <4>1. a \in Seq(X) /\ b \in Seq(X)
        BY <1>7, <2>7
      <4> HIDE DEF f
      <4>2. (a \o b) \o u = a \o (b \o u)
        BY <4>1, ConcatAssociative, SMTT(30)
      <4> QED BY <4>2 DEF f
    <3>4. a \o (b \o g) = f \o g
      BY <3>1, <3>3
    <3>5. a \o (b \o c) = f \o c
      BY <2>7, <3>3
    <3> QED BY <3>2, <3>4, <3>5 DEF g
  <2> HIDE DEF f
  <2> DEFINE h == f \o (<<e>> \o c)
  <2>14. RemoveAt(h, Len(h) - (n - drop)) = f \o c
    <3>1. RemoveAt(h, Len(h) - Len(c)) = f \o c
      BY <2>7, <2>13, RemoveBetween, ZenonT(60)
    <3> HIDE DEF h
    <3> QED BY <2>8, <3>1
  <2>15. Flat(q, C) = f \o (<<e>> \o c)
    BY <1>7, <2>10, <2>13
  <2>16. a \o Flat(Linked(n, drop), C) = f \o c
    BY <1>5, <1>9, <2>2, <2>10, <2>13
  <2>17. Noted(o, Flat(q, C)) = Append(f \o c, Reduce(key, n - 1, 0))
    BY <2>12, <2>14, <2>15 DEF Noted
  <2> QED BY <1>9, <2>11, <2>16, <2>17 DEF Made, C, q, k, a, first
<1> QED BY <1>8, <1>9
-----------------------------------------------------------------------------
(* The invariant of the parser: there is a forest with all the trees that  *)
(* are on the stack, and with the root; as long as every source was        *)
(* accepted, their derivations are what is recorded of the operations that *)
(* were taken from the source, and the text is the rest of it.             *)
(*                                                                         *)
(* A text that is not refused ends where a translation_unit is reduced.    *)
EndsInUnit(ops) ==
  ops = <<>> \/ Last(ops) = ReduceUnit \/ \E i \in DOMAIN ops : ops[i] = Refuse

LEMMA EndsTail ==
  ASSUME NEW S, NEW ops \in Seq(S), ops # <<>>, Head(ops) # Refuse, EndsInUnit(ops)
  PROVE  EndsInUnit(Tail(ops)) /\ (Tail(ops) = <<>> => Head(ops) = ReduceUnit)
<1> DEFINE n == Len(ops)
           rest == Tail(ops)
<1>1. /\ n \in Nat /\ n > 0 /\ DOMAIN ops = 1 .. n /\ rest \in Seq(S) /\ Len(rest) = n - 1
      /\ \A i \in 1 .. n - 1 : rest[i] = ops[i + 1]
      /\ Head(ops) = ops[1]
  OBVIOUS
<1>3. Last(ops) = ops[n] /\ Last(rest) = rest[n - 1]
  BY <1>1 DEF Last
<1> HIDE DEF n, rest
<1>2. DOMAIN rest = 1 .. n - 1 /\ (rest = <<>> <=> n = 1)
  <2>1. DOMAIN rest = 1 .. Len(rest) /\ (rest = <<>> <=> Len(rest) = 0)
    BY <1>1
  <2> QED BY <1>1, <2>1
<1>4. CASE \E i \in DOMAIN ops : ops[i] = Refuse
  <2>1. PICK i \in 1 .. n : ops[i] = Refuse
    BY <1>1, <1>4
  <2>2. i # 1
    BY <1>1, <2>1
  <2>3. i - 1 \in 1 .. n - 1 /\ (i - 1) + 1 = i
    BY <1>1, <2>2
  <2>4. rest[i - 1] = Refuse
    BY <1>1, <2>1, <2>3
  <2>5. rest # <<>>
    BY <1>1, <1>2, <2>3
  <2> QED BY <1>2, <2>3, <2>4, <2>5 DEF EndsInUnit, rest
<1>5. CASE ops[n] = ReduceUnit
  <2>1. CASE n = 1
    BY <1>1, <1>2, <1>5, <2>1 DEF EndsInUnit, rest
  <2>2. CASE n # 1
    <3>1. n - 1 \in 1 .. n - 1 /\ (n - 1) + 1 = n
      BY <1>1, <2>2
    <3>2. rest[n - 1] = ReduceUnit /\ rest # <<>>
      BY <1>1, <1>2, <1>5, <2>2, <3>1
    <3> QED BY <1>3, <3>2 DEF EndsInUnit, rest
  <2> QED BY <2>1, <2>2
<1> QED BY <1>3, <1>4, <1>5 DEF EndsInUnit

(* The text that bison has not read and the values it has made.            *)
Reading ==
  /\ text \in Seq(AllOperations) /\ Feasible(text, Len(values))
  /\ accepted \in BOOLEAN /\ clean \in BOOLEAN
  /\ pc = "parse" => source \in Sources
  /\ pc # "parse" => values = <<>>
  /\ pc # "parse" /\ accepted /\ clean => text = <<>>
  /\ pc = "parse" => ~accepted
  /\ pc = "parse" /\ clean =>
       EndsInUnit(text) /\ (text = <<>> /\ values # <<>> => values = <<root>>)

(* After i operations of the source: tokens that were shifted last are     *)
(* still on the stack.                                                     *)
Taken(D, i) ==
  /\ text = SubSeq(source, i + 1, Len(source))
  /\ Flat(values, D) = Recorded(source)[i]
  /\ \A k : Shifted(source, i, k) =>
       k <= Len(values) /\ \A j \in 1 .. k : values[Len(values) - j + 1].terminal

Derived(T) ==
  LET D == DerivationsIn(vec, T)
  IN  /\ pc = "parse" /\ clean => \E i \in 0 .. Len(source) : Taken(D, i)
      /\ pc \notin {"idle", "parse"} /\ accepted /\ clean => root \in T /\ D[root] = Told

Rooted(T) == root # NullSymbol => root \in T

TreeInv ==
  /\ TagsDenoteNames
  /\ Reading
  /\ \E T : HasTrees(T) /\ Rooted(T) /\ Derived(T)

LEMMA TreesStart == Init => TreeInv
<1> SUFFICES ASSUME Init PROVE TreeInv
  OBVIOUS
<1>1. /\ vec = <<>> /\ map = [n \in {} |-> 0] /\ text = <<>> /\ values = <<>>
      /\ root = NullSymbol /\ pc = "idle" /\ accepted = TRUE /\ clean = TRUE
  BY DEF Init, TableInit, ParserInit
<1>2. TagsDenoteNames
  BY <1>1 DEF TagsDenoteNames
<1>3. Feasible(<<>>, 0)
  <2> DEFINE d == [i \in 0 .. 0 |-> 0]
  <2>1. Heights(d, <<>>) /\ d[0] <= 0
    BY DEF Heights
  <2> HIDE DEF d
  <2> QED BY <2>1 DEF Feasible
<1>4. Reading
  <2>1. <<>> \in Seq(AllOperations) /\ Len(<<>>) = 0
    BY EmptySeq
  <2> QED BY <1>1, <1>3, <2>1 DEF Reading
<1>5. HasTrees({}) /\ Rooted({}) /\ Derived({})
  <2>1. Ranks({}, [t \in {} |-> 0], 0) /\ Closed({})
    BY DEF Ranks, Closed
  <2>2. Forest({})
    BY <2>1 DEF Forest
  <2>3. values \in Seq({})
    BY <1>1, EmptySeq
  <2> QED BY <1>1, <2>2, <2>3 DEF HasTrees, Tagged, Rooted, Derived
<1> QED BY <1>2, <1>4, <1>5 DEF TreeInv

LEMMA TreesStartRun ==
  ASSUME TreeInv, StartRun
  PROVE  TreeInv'
<1>1. /\ pc \in {"idle", "returned"} /\ source' \in Sources /\ text' = text \o source'
      /\ clean' = (clean /\ accepted) /\ accepted' = FALSE /\ pc' = "parse"
      /\ UNCHANGED <<vec, map, values, root>>
  BY DEF StartRun, table
<1>2. PICK T : HasTrees(T) /\ Rooted(T) /\ Derived(T)
  BY DEF TreeInv
<1> DEFINE src == source'
<1>3. src \in Seq(AllOperations) /\ text \in Seq(AllOperations) /\ values = <<>> /\ Len(values) = 0
  <2>1. src \in Seq(AllOperations)
    BY <1>1, SourceOperations
  <2>2. text \in Seq(AllOperations) /\ values = <<>>
    BY <1>1 DEF TreeInv, Reading
  <2> QED BY <2>1, <2>2
<1>4. clean' => text' = src
  <2>1. ASSUME clean' PROVE text = <<>>
    BY <1>1, <2>1 DEF TreeInv, Reading
  <2>2. <<>> \o src = src
    BY <1>3, ConcatEmptySeq
  <2> QED BY <1>1, <2>1, <2>2
<1>5. Reading'
  <2>1. text' \in Seq(AllOperations)
    BY <1>1, <1>3
  <2>2. Feasible(text', Len(values'))
    <3>1. Feasible(text, 0) /\ src \in Sources
      BY <1>1, <1>3 DEF TreeInv, Reading
    <3> HIDE DEF src
    <3>2. Feasible(text \o src, 0)
      BY <1>3, <3>1, FeasibleConcat
    <3> QED BY <1>1, <1>3, <3>2 DEF src
  <2>3. EndsInUnit(src)
    BY <1>1, SourcesAssumption DEF EndsInUnit
  <2>4. accepted \in BOOLEAN /\ clean \in BOOLEAN
    BY DEF TreeInv, Reading
  <2> QED BY <1>1, <1>3, <1>4, <2>1, <2>2, <2>3, <2>4 DEF Reading
<1>6. HasTrees(T)' /\ Rooted(T)'
  BY <1>1, <1>2 DEF HasTrees, Rooted
<1>7. Derived(T)'
  <2> SUFFICES ASSUME clean'
               PROVE  \E i \in 0 .. Len(src) : Taken(DerivationsIn(vec, T), i)'
    BY <1>1 DEF Derived
  <2>1. Flat(values', DerivationsIn(vec, T)') = <<>>
    BY <1>1, <1>3 DEF Flat, Mapped, FlattenSeq
  <2>2. Recorded(src)[0] = <<>>
    BY <1>1, RecordedSteps
  <2>3. 0 \in 0 .. Len(src) /\ SubSeq(src, 0 + 1, Len(src)) = src
    BY <1>3
  <2>4. ASSUME NEW k, Shifted(src, 0, k)
        PROVE  k <= Len(values') /\ \A j \in 1 .. k : values'[Len(values') - j + 1].terminal
    <3>1. k = 0
      BY <2>4 DEF Shifted
    <3> QED BY <1>1, <1>3, <3>1
  <2>5. Taken(DerivationsIn(vec, T), 0)'
    BY <1>4, <2>1, <2>2, <2>3, <2>4 DEF Taken
  <2> QED BY <2>3, <2>5
<1>8. TagsDenoteNames'
  BY <1>1 DEF TreeInv, TagsDenoteNames
<1> QED BY <1>5, <1>6, <1>7, <1>8 DEF TreeInv

(* The first operation of a text that fits.                                *)
LEMMA FirstOperation ==
  ASSUME Reading, text # <<>>
  PROVE  /\ Head(text) \in AllOperations /\ IsOperation(Head(text))
         /\ Tail(text) \in Seq(AllOperations)
         /\ text = <<Head(text)>> \o Tail(text)
<1>1. text \in Seq(AllOperations)
  BY DEF Reading
<1>2. Head(text) \in AllOperations /\ Tail(text) \in Seq(AllOperations) /\ text = <<Head(text)>> \o Tail(text)
  BY <1>1
<1>3. IsOperation(Head(text))
  BY <1>2, SourceOperations DEF AllOperations
<1> QED BY <1>2, <1>3

LEMMA NotEmpty ==
  ASSUME NEW S, NEW ops \in Seq(S), Len(ops) > 0
  PROVE  ops # <<>>
OBVIOUS

(* It is the next one of the source.                                       *)
LEMMA NextOfSource ==
  ASSUME NEW src \in Sources, NEW i \in 0 .. Len(src), NEW ops, ops = SubSeq(src, i + 1, Len(src))
  PROVE  /\ ops = <<>> => i = Len(src)
         /\ ops # <<>> => /\ i + 1 \in 1 .. Len(src) /\ Head(ops) = src[i + 1]
                         /\ Tail(ops) = SubSeq(src, (i + 1) + 1, Len(src))
<1> DEFINE n == Len(src)
<1>1. src \in Seq(AllOperations) /\ n \in Nat /\ i \in Nat /\ i <= n
  BY SourceOperations, LenProperties
<1>2. CASE i = n
  <2>1. ops = <<>>
    BY <1>1, <1>2
  <2> QED BY <1>2, <2>1
<1>3. CASE i < n
  <2>1. ops \in Seq(AllOperations) /\ Len(ops) = n - i /\ \A j \in 1 .. n - i : ops[j] = src[i + j]
    BY <1>1, <1>3
  <2>2. ops # <<>> /\ i + 1 \in 1 .. n /\ Head(ops) = src[i + 1]
    <3>1. n - i > 0 /\ 1 \in 1 .. n - i /\ i + 1 \in 1 .. n
      BY <1>1, <1>3
    <3>2. ops # <<>>
      BY <2>1, <3>1, NotEmpty
    <3>3. Head(ops) = ops[1]
      BY <2>1, <3>2
    <3> HIDE DEF n
    <3> QED BY <2>1, <3>1, <3>2, <3>3
  <2>3. Tail(ops) = SubSeq(src, (i + 1) + 1, n)
    <3> DEFINE a == Tail(ops)
               b == SubSeq(src, (i + 1) + 1, n)
    <3>1. /\ a \in Seq(AllOperations) /\ Len(a) = n - i - 1
          /\ \A j \in 1 .. n - i - 1 : a[j] = ops[j + 1]
      BY <1>1, <1>3, <2>1, <2>2
    <3>2. /\ b \in Seq(AllOperations) /\ Len(b) = n - i - 1
          /\ \A j \in 1 .. n - i - 1 : b[j] = src[i + 1 + j]
      BY <1>1, <1>3
    <3> HIDE DEF a, b
    <3>3. ASSUME NEW j \in 1 .. n - i - 1 PROVE a[j] = b[j]
      <4>1. j + 1 \in 1 .. n - i /\ i + (j + 1) = i + 1 + j
        BY <1>1, <1>3
      <4> QED BY <2>1, <3>1, <3>2, <4>1
    <3>4. a = b
      BY <3>1, <3>2, <3>3, SeqEqual
    <3> QED BY <3>4 DEF a, b
  <2> QED BY <2>2, <2>3
<1> QED BY <1>1, <1>2, <1>3

LEMMA TreesMove ==
  ASSUME TreeInv, NEW T, HasTrees(T), Derived(T),
         pc = "parse", text # <<>>, text' = Tail(text), UNCHANGED <<source, clean, accepted, pc>>,
         Head(text) # Refuse, Feasible(Tail(text), Len(values')),
         values \in Seq(T), NEW U, values' \in Seq(U),
         clean => Flat(values', DerivationsIn(vec', U)) =
                    Noted(Head(text), Flat(values, DerivationsIn(vec, T))),
         Head(text).op = "shift" =>
           values' = Append(values, Head(text).symbol) /\ Head(text).symbol.terminal,
         Head(text) = ReduceUnit => values' = <<root'>>
  PROVE  Reading' /\ Derived(U)'
<1>1. /\ Head(text) \in AllOperations /\ Tail(text) \in Seq(AllOperations)
      /\ text = <<Head(text)>> \o Tail(text) /\ text \in Seq(AllOperations)
  BY FirstOperation DEF TreeInv, Reading
<1>2. ~accepted /\ accepted \in BOOLEAN /\ clean \in BOOLEAN
  BY DEF TreeInv, Reading
<1>3. Reading'
  <2>1. ASSUME clean
        PROVE  EndsInUnit(Tail(text)) /\ (Tail(text) = <<>> => Head(text) = ReduceUnit)
    <3>1. EndsInUnit(text)
      BY <2>1 DEF TreeInv, Reading
    <3> QED BY <1>1, <3>1, EndsTail
  <2>2. pc = "parse" => source \in Sources
    BY DEF TreeInv, Reading
  <2> QED BY <1>1, <1>2, <2>1, <2>2 DEF Reading
<1>4. Derived(U)'
  <2> SUFFICES ASSUME clean
               PROVE  \E i \in 0 .. Len(source) : Taken(DerivationsIn(vec, U), i)'
    BY DEF Derived
  <2>1. PICK i \in 0 .. Len(source) : Taken(DerivationsIn(vec, T), i)
    BY DEF Derived
  <2>2. source \in Sources
    BY DEF TreeInv, Reading
  <2>3. /\ i + 1 \in 1 .. Len(source) /\ Head(text) = source[i + 1]
        /\ text' = SubSeq(source, (i + 1) + 1, Len(source))
    <3>1. text = SubSeq(source, i + 1, Len(source))
      BY <2>1 DEF Taken
    <3> QED BY <2>2, <3>1, NextOfSource
  <2>4. i \in Nat /\ Len(values) \in Nat /\ Len(values') \in Nat /\ Len(source) \in Nat
    BY <2>2, SourceOperations, LenProperties
  <2>5. Flat(values', DerivationsIn(vec', U)) = Recorded(source)[i + 1]
    <3>1. Flat(values, DerivationsIn(vec, T)) = Recorded(source)[i]
      BY <2>1 DEF Taken
    <3>2. Recorded(source)[i + 1] = Noted(source[i + 1], Recorded(source)[(i + 1) - 1])
      BY <2>2, <2>3, RecordedSteps
    <3>3. (i + 1) - 1 = i
      BY <2>4
    <3> QED BY <2>3, <3>1, <3>2, <3>3
  <2>6. ASSUME NEW k, Shifted(source, i + 1, k)
        PROVE  k <= Len(values') /\ \A j \in 1 .. k : values'[Len(values') - j + 1].terminal
    <3>1. k \in 0 .. i + 1 /\ \A j \in 1 .. k : source[(i + 1) - j + 1].op = "shift"
      BY <2>6 DEF Shifted
    <3>2. CASE k = 0
      BY <2>4, <3>2
    <3>3. CASE k # 0
      <4>1. 1 \in 1 .. k /\ (i + 1) - 1 + 1 = i + 1 /\ k - 1 \in 0 .. i
        BY <2>4, <3>1, <3>3
      <4>2. source[i + 1].op = "shift"
        BY <3>1, <4>1
      <4>3. Shifted(source, i, k - 1)
        <5>1. ASSUME NEW j \in 1 .. k - 1 PROVE source[i - j + 1].op = "shift"
          <6> DEFINE l == j + 1
          <6>1. l \in 1 .. k /\ (i + 1) - l + 1 = i - j + 1
            BY <2>4, <3>1, <4>1
          <6> HIDE DEF l
          <6>2. source[(i + 1) - l + 1].op = "shift"
            BY <3>1, <6>1
          <6> QED BY <6>1, <6>2
        <5> QED BY <4>1, <5>1 DEF Shifted
      <4>4. k - 1 <= Len(values) /\ \A j \in 1 .. k - 1 : values[Len(values) - j + 1].terminal
        BY <2>1, <4>3 DEF Taken
      <4> DEFINE t == Head(text).symbol
      <4>5. values' = Append(values, t) /\ t.terminal
        BY <2>3, <4>2
      <4> HIDE DEF t
      <4>6. /\ Len(values') = Len(values) + 1 /\ values'[Len(values) + 1] = t
            /\ \A j \in 1 .. Len(values) : values'[j] = values[j]
        BY <4>5
      <4>7. ASSUME NEW j \in 1 .. k PROVE values'[Len(values') - j + 1].terminal
        <5>1. CASE j = 1
          <6>1. Len(values') - j + 1 = Len(values) + 1
            BY <2>4, <4>6, <5>1
          <6> QED BY <4>5, <4>6, <6>1
        <5>2. CASE j # 1
          <6>1. /\ j - 1 \in 1 .. k - 1 /\ Len(values') - j + 1 = Len(values) - (j - 1) + 1
                /\ Len(values) - (j - 1) + 1 \in 1 .. Len(values)
            BY <2>4, <3>1, <4>1, <4>4, <4>6, <5>2
          <6> QED BY <4>4, <4>6, <6>1
        <5> QED BY <5>1, <5>2
      <4>8. k <= Len(values')
        BY <2>4, <3>1, <4>1, <4>4, <4>6
      <4> QED BY <4>7, <4>8
    <3> QED BY <3>2, <3>3
  <2>7. Taken(DerivationsIn(vec, U), i + 1)'
    BY <2>3, <2>5, <2>6 DEF Taken
  <2>8. i + 1 \in 0 .. Len(source)
    BY <2>3, <2>4
  <2> QED BY <2>7, <2>8
<1> QED BY <1>3, <1>4

LEMMA TreesShift ==
  ASSUME TreeInv, pc = "parse", ShiftToken, UNCHANGED <<source, clean, accepted, pc>>
  PROVE  TreeInv'
<1>1. PICK T : HasTrees(T) /\ Rooted(T) /\ Derived(T)
  BY DEF TreeInv
<1>2. /\ text # <<>> /\ Head(text).op = "shift" /\ text' = Tail(text)
      /\ values' = Append(values, Head(text).symbol) /\ UNCHANGED <<root, vec, map>>
  BY DEF ShiftToken
<1>3. /\ Head(text) = Shift(Head(text).symbol) /\ IsToken(Head(text).symbol)
      /\ Head(text) # Refuse /\ Head(text) # ReduceUnit
  <2>1. IsOperation(Head(text))
    BY <1>2, FirstOperation DEF TreeInv
  <2>2. Refuse.op = "refuse" /\ ReduceUnit.op = "unit"
    BY DEF Refuse, ReduceUnit
  <2> QED BY <1>2, <2>1, <2>2 DEF IsOperation
<1> DEFINE t == Head(text).symbol
<1>10. PICK U : U = T \cup {t}
  OBVIOUS
<1>4. /\ Forest(U) /\ Tagged(U, Len(vec)) /\ Append(values, t) \in Seq(U)
      /\ Flat(Append(values, t), DerivationsIn(vec, U)) =
           Append(Flat(values, DerivationsIn(vec, T)), Shift(t))
  BY <1>1, <1>3, <1>10, ShiftTree
<1>5. values \in Seq(T) /\ Len(values) \in Nat /\ Len(values') = Len(values) + 1
  BY <1>1, <1>2 DEF HasTrees
<1>6. Feasible(Tail(text), Len(values'))
  <2>1. text \in Seq(AllOperations) /\ Feasible(text, Len(values))
    BY DEF TreeInv, Reading
  <2>2. \A before, after \in Nat :
          before <= Len(values) /\ Fits(Head(text), before, after) => after <= Len(values')
    BY <1>2, <1>5 DEF Fits
  <2>3. Len(values') \in Nat
    BY <1>5
  <2> QED BY <1>2, <1>5, <2>1, <2>2, <2>3, FeasibleRest
<1>7. Reading' /\ Derived(U)'
  <2>1. Flat(values', DerivationsIn(vec', U)) =
          Noted(Head(text), Flat(values, DerivationsIn(vec, T)))
    <3>1. ~Drops(Head(text))
      BY <1>2 DEF Drops
    <3> QED BY <1>2, <1>3, <1>4, <3>1 DEF Noted
  <2>2. t.terminal
    BY <1>3 DEF IsToken, Symbol
  <2>3. values' \in Seq(U)
    BY <1>2, <1>4
  <2> QED BY <1>1, <1>2, <1>3, <1>5, <1>6, <2>1, <2>2, <2>3, TreesMove
<1>8. HasTrees(U)' /\ Rooted(U)'
  <2>1. root' # NullSymbol => root' \in U
    BY <1>1, <1>2, <1>10 DEF Rooted
  <2>2. vec' = vec /\ values' \in Seq(U)
    BY <1>2, <1>4
  <2> QED BY <1>4, <2>1, <2>2 DEF HasTrees, Rooted
<1>9. TagsDenoteNames'
  BY <1>2 DEF TreeInv, TagsDenoteNames
<1> QED BY <1>7, <1>8, <1>9 DEF TreeInv

(* A rule makes a tree of values; its name is new or not.                  *)
LEMMA TreesBuild ==
  ASSUME TreeInv, pc = "parse", UNCHANGED <<source, clean, accepted, pc>>,
         text # <<>>, text' = Tail(text), Head(text) # Refuse,
         NEW key \in Names, NEW n \in 0 .. Len(values), NEW drop \in 0 .. n,
         Build(key, n, drop), key = "translation_unit" => drop = 0 /\ n = Len(values),
         Head(text) = IF key = "translation_unit" THEN ReduceUnit ELSE Reduce(key, n, drop),
         Feasible(Tail(text), Len(values) - n + 1),
         \/ root' = root /\ key # "translation_unit"
         \/ root' = Last(values') /\ key = "translation_unit"
  PROVE  TreeInv'
<1>1. PICK T : HasTrees(T) /\ Rooted(T) /\ Derived(T)
  BY DEF TreeInv
<1> DEFINE x == Built(key, n, drop)
           C == DerivationsIn(vec, T)
<1>6. PICK U : U = T \cup {x}
  OBVIOUS
<1>2. /\ TagsDenoteNames' /\ Grown(T, U, x)
      /\ Len(values') = Len(values) - n + 1 /\ Last(values') = x
      /\ Flat(values', DerivationsIn(vec', U)) = Made(T, key, n, drop)
  BY <1>1, <1>6, BuildTree, ZenonT(90) DEF TreeInv
<1>8. /\ Forest(U) /\ Tagged(U, Len(vec')) /\ values' \in Seq(U)
      /\ T \subseteq U /\ x \in U
  BY <1>2 DEF Grown
<1> HIDE DEF x
<1>7. clean => Flat(values', DerivationsIn(vec', U)) = Noted(Head(text), Flat(values, C))
  <2> SUFFICES ASSUME clean
               PROVE  Flat(values', DerivationsIn(vec', U)) = Noted(Head(text), Flat(values, C))
    OBVIOUS
  <2>1. ASSUME drop # 0
        PROVE  \A j \in 1 .. n - drop + 1 : values[Len(values) - j + 1].terminal
    <3>1. PICK i \in 0 .. Len(source) : Taken(C, i)
      BY <1>1 DEF Derived
    <3>2. source \in Sources
      BY DEF TreeInv, Reading
    <3>3. i + 1 \in 1 .. Len(source) /\ Head(text) = source[i + 1] /\ (i + 1) - 1 = i
      <4>1. text = SubSeq(source, i + 1, Len(source))
        BY <3>1 DEF Taken
      <4>2. i + 1 \in 1 .. Len(source) /\ Head(text) = source[i + 1]
        BY <3>2, <4>1, NextOfSource
      <4> QED BY <4>2
    <3>4. Head(text) = Reduce(key, n, drop)
      BY <2>1
    <3>5. Drops(source[i + 1]) /\ source[i + 1].n = n /\ source[i + 1].drop = drop
      BY <2>1, <3>3, <3>4 DEF Drops, Reduce
    <3>6. Shifted(source, i, n - drop + 1)
      <4>1. Shifted(source, (i + 1) - 1, source[i + 1].n - source[i + 1].drop + 1)
        BY <3>2, <3>3, <3>5, SourceDrops
      <4> QED BY <3>3, <3>5, <4>1
    <3> QED BY <3>1, <3>6 DEF Taken
  <2>2. Made(T, key, n, drop) = Noted(Head(text), Flat(values, C))
    BY <1>1, <2>1, BuildNoted, SMTT(60)
  <2> QED BY <1>2, <2>2
<1>3. Head(text) = ReduceUnit => values' = <<root'>>
  <2> SUFFICES ASSUME Head(text) = ReduceUnit PROVE values' = <<root'>>
    OBVIOUS
  <2>1. ReduceUnit # Reduce(key, n, drop)
    <3>1. ReduceUnit.op = "unit" /\ Reduce(key, n, drop).op = "reduce"
      BY DEF ReduceUnit, Reduce
    <3> QED BY <3>1
  <2>2. root' = x /\ n = Len(values)
    BY <1>2, <2>1
  <2>3. Len(values') = 1 /\ values'[1] = x
    <3>1. Len(values) \in Nat
      BY <1>1, LenProperties DEF HasTrees
    <3>2. Len(values') = 1
      BY <1>2, <2>2, <3>1
    <3> QED BY <1>2, <3>2 DEF Last
  <2> QED BY <1>8, <2>2, <2>3
<1>4. Reading' /\ Derived(U)'
  <2>1. Feasible(Tail(text), Len(values'))
    BY <1>2
  <2>2. Head(text).op # "shift"
    <3>1. ReduceUnit.op = "unit" /\ Reduce(key, n, drop).op = "reduce"
      BY DEF ReduceUnit, Reduce
    <3> QED BY <3>1
  <2>3. values \in Seq(T)
    BY <1>1 DEF HasTrees
  <2> QED BY <1>1, <1>2, <1>3, <1>7, <1>8, <2>1, <2>2, <2>3, TreesMove
<1>5. HasTrees(U)' /\ Rooted(U)'
  <2>1. root' # NullSymbol => root' \in U
    BY <1>1, <1>2, <1>8 DEF Rooted
  <2> QED BY <1>8, <2>1 DEF HasTrees, Rooted
<1> QED BY <1>2, <1>4, <1>5 DEF TreeInv

LEMMA TreesParse ==
  ASSUME TreeInv, pc = "parse", Parse, UNCHANGED <<source, clean, accepted, pc>>
  PROVE  TreeInv'
<1>1. text \in Seq(AllOperations) /\ Feasible(text, Len(values)) /\ Len(values) \in Nat
  <2>1. PICK T : HasTrees(T)
    BY DEF TreeInv
  <2>2. Len(values) \in Nat
    BY <2>1, LenProperties DEF HasTrees
  <2> QED BY <2>2 DEF TreeInv, Reading
<1>2. CASE ShiftToken
  BY <1>2, TreesShift
<1>3. CASE ReduceRule
  <2>1. /\ text # <<>> /\ Head(text).op = "reduce" /\ text' = Tail(text) /\ root' = root
        /\ Build(Head(text).name, Head(text).n, Head(text).drop)
    BY <1>3 DEF ReduceRule
  <2> DEFINE key == Head(text).name
             n == Head(text).n
             drop == Head(text).drop
  <2>2. /\ Head(text) = Reduce(key, n, drop) /\ n \in Nat /\ drop \in 0 .. n
        /\ key \in Names /\ key # "translation_unit"
    <3>1. IsOperation(Head(text))
      BY <2>1, FirstOperation DEF TreeInv
    <3> QED BY <2>1, <3>1 DEF IsOperation
  <2>3. n \in 0 .. Len(values)
    <3>1. n <= Len(values)
      BY <1>1, <2>1, <2>2, FeasibleReduce
    <3> QED BY <1>1, <2>2, <3>1
  <2>4. Head(text) # Refuse
    BY <2>1 DEF Refuse
  <2>5. Feasible(Tail(text), Len(values) - n + 1)
    <3>1. Len(values) - n + 1 \in Nat
      BY <1>1, <2>3
    <3>2. \A before, after \in Nat :
            before <= Len(values) /\ Fits(Head(text), before, after) => after <= Len(values) - n + 1
      BY <1>1, <2>1, <2>2 DEF Fits
    <3> QED BY <1>1, <2>1, <3>1, <3>2, FeasibleRest
  <2>6. Head(text) = IF key = "translation_unit" THEN ReduceUnit ELSE Reduce(key, n, drop)
    BY <2>2
  <2>7. Build(key, n, drop) /\ key \in Names
    BY <2>1, <2>2
  <2> HIDE DEF key, n, drop
  <2> QED BY <2>1, <2>2, <2>3, <2>4, <2>5, <2>6, <2>7, TreesBuild
<1>4. CASE ReduceTranslationUnit
  <2>1. /\ text # <<>> /\ Head(text).op = "unit" /\ text' = Tail(text) /\ root' = Last(values')
        /\ Build("translation_unit", Len(values), 0)
    BY <1>4 DEF ReduceTranslationUnit
  <2>2. Head(text) = ReduceUnit /\ Head(text) # Refuse
    <3>1. IsOperation(Head(text))
      BY <2>1, FirstOperation DEF TreeInv
    <3>2. Refuse.op = "refuse"
      BY DEF Refuse
    <3> QED BY <2>1, <3>1, <3>2 DEF IsOperation
  <2>3. Feasible(Tail(text), Len(values) - Len(values) + 1)
    <3>1. Len(values) - Len(values) + 1 = 1 /\ 1 \in Nat
      BY <1>1
    <3>2. \A before, after \in Nat :
            before <= Len(values) /\ Fits(Head(text), before, after) => after <= 1
      BY <2>1 DEF Fits
    <3>3. Feasible(Tail(text), 1)
      BY <1>1, <2>1, <3>1, <3>2, FeasibleRest
    <3> QED BY <3>1, <3>3
  <2>4. "translation_unit" \in Names /\ Len(values) \in 0 .. Len(values) /\ 0 \in 0 .. Len(values)
    BY <1>1, SourcesAssumption
  <2> QED BY <2>1, <2>2, <2>3, <2>4, TreesBuild
<1> QED BY <1>2, <1>3, <1>4 DEF Parse

LEMMA TreesReturn ==
  ASSUME TreeInv, ParseReturns
  PROVE  TreeInv'
<1>1. /\ pc = "parse" /\ (Accepts \/ Refuses) /\ accepted' = Accepts
      /\ text' = Rest /\ values' = <<>> /\ pc' \notin {"idle", "parse"}
      /\ UNCHANGED <<vec, map, root, source, clean>>
  BY DEF ParseReturns, AfterDump, table, request
<1>2. PICK T : HasTrees(T) /\ Rooted(T) /\ Derived(T)
  BY DEF TreeInv
<1>3. accepted' \in BOOLEAN /\ clean' \in BOOLEAN
  BY <1>1 DEF Accepts, TreeInv, Reading
<1>4. text' \in Seq(AllOperations) /\ Feasible(text', 0)
  <2>1. CASE text = <<>>
    <3>1. Feasible(<<>>, 0)
      <4> DEFINE d == [i \in 0 .. 0 |-> 0]
      <4>1. Heights(d, <<>>) /\ d[0] <= 0
        BY DEF Heights
      <4> HIDE DEF d
      <4> QED BY <4>1 DEF Feasible
    <3>2. <<>> \in Seq(AllOperations)
      BY EmptySeq
    <3> QED BY <1>1, <2>1, <3>1, <3>2 DEF Rest
  <2>2. CASE text # <<>>
    <3>1. Head(text).op = "refuse" /\ text' = Tail(text)
      BY <1>1, <2>2 DEF Accepts, Refuses, Rest
    <3>2. text \in Seq(AllOperations) /\ Feasible(text, Len(values)) /\ Len(values) \in Nat
      <4>1. Len(values) \in Nat
        BY <1>2, LenProperties DEF HasTrees
      <4> QED BY <4>1 DEF TreeInv, Reading
    <3>3. \A before, after \in Nat :
            before <= Len(values) /\ Fits(Head(text), before, after) => after <= 0
      BY <3>1 DEF Fits
    <3>4. Feasible(Tail(text), 0)
      BY <2>2, <3>2, <3>3, FeasibleRest
    <3> QED BY <2>2, <3>1, <3>2, <3>4
  <2> QED BY <2>1, <2>2
<1>5. Reading'
  <2>1. accepted' => text' = <<>>
    BY <1>1 DEF Accepts, Rest
  <2>2. Len(<<>>) = 0
    OBVIOUS
  <2> QED BY <1>1, <1>3, <1>4, <2>1, <2>2 DEF Reading
<1>6. HasTrees(T)' /\ Rooted(T)'
  <2>1. <<>> \in Seq(T)
    BY EmptySeq
  <2> QED BY <1>1, <1>2, <2>1 DEF HasTrees, Rooted
<1>7. Derived(T)'
  <2> DEFINE D == DerivationsIn(vec, T)
             X == {OperationIn(vec, t) : t \in T}
  <2> SUFFICES ASSUME Accepts, clean PROVE root \in T /\ D[root] = Told
    BY <1>1 DEF Derived, Told
  <2>1. text = <<>> /\ values # <<>>
    BY DEF Accepts
  <2>2. values = <<root>>
    BY <1>1, <2>1 DEF TreeInv, Reading
  <2>3. root \in T
    <3>1. values \in Seq(T) /\ Len(values) = 1 /\ values[1] = root
      BY <1>2, <2>2 DEF HasTrees
    <3> QED BY <3>1, ElementOfSeq
  <2>4. Flat(values, D) = Told
    <3>1. PICK i \in 0 .. Len(source) : Taken(D, i)
      BY <1>1, <1>2 DEF Derived
    <3>2. source \in Sources
      BY <1>1 DEF TreeInv, Reading
    <3>3. text = SubSeq(source, i + 1, Len(source)) /\ Flat(values, D) = Recorded(source)[i]
      BY <3>1 DEF Taken
    <3>4. i = Len(source)
      BY <2>1, <3>2, <3>3, NextOfSource
    <3> QED BY <3>3, <3>4 DEF Told
  <2>5. \A t \in T : OperationIn(vec, t) \in X
    OBVIOUS
  <2> HIDE DEF X
  <2>7. D \in [T -> Seq(X)]
    BY <1>2, <2>5, DerivationsListing DEF IsListing, HasTrees
  <2> HIDE DEF D
  <2>8. Flat(<<root>>, D) = D[root]
    <3>1. <<>> \in Seq(T)
      BY EmptySeq
    <3> QED BY <2>3, <2>7, <3>1, FlatOne
  <2> QED BY <2>2, <2>3, <2>4, <2>8
<1>8. TagsDenoteNames'
  BY <1>1 DEF TreeInv, TagsDenoteNames
<1> QED BY <1>5, <1>6, <1>7, <1>8 DEF TreeInv

(* The parser's variables are left alone by the rest of Run().             *)
LEMMA TreesRest ==
  ASSUME TreeInv, UNCHANGED <<vec, map, text, values, root, source, clean, accepted>>,
         pc' = pc \/ (pc \notin {"idle", "parse"} /\ pc' \notin {"idle", "parse"})
  PROVE  TreeInv'
<1>1. PICK T : HasTrees(T) /\ Rooted(T) /\ Derived(T)
  BY DEF TreeInv
<1>2. HasTrees(T)' /\ Rooted(T)' /\ Derived(T)'
  BY <1>1 DEF HasTrees, Rooted, Derived, Taken, Told
<1>3. Reading' /\ TagsDenoteNames'
  BY DEF TreeInv, Reading, TagsDenoteNames
<1> QED BY <1>2, <1>3 DEF TreeInv

LEMMA TreesKeep ==
  ASSUME TreeInv, [Next]_vars
  PROVE  TreeInv'
<1>1. CASE StartRun
  BY <1>1, TreesStartRun
<1>2. CASE ParseStep
  BY <1>2, TreesParse DEF ParseStep, request
<1>3. CASE ParseReturns
  BY <1>3, TreesReturn
<1>4. CASE StartDump \/ DumpStep \/ FinishDump \/ Visit \/ ExportIR \/ ExportObj
  <2>1. UNCHANGED <<vec, map, text, values, root, source, clean, accepted>>
    BY <1>4 DEF StartDump, DumpStep, FinishDump, Visit, ExportIR, ExportObj, table, parser, request
  <2>2. pc \notin {"idle", "parse"} /\ pc' \notin {"idle", "parse"}
    BY <1>4 DEF StartDump, DumpStep, FinishDump, Visit, ExportIR, ExportObj, AfterDump, Export
  <2> QED BY <2>1, <2>2, TreesRest
<1>5. CASE UNCHANGED vars
  BY <1>5, TreesRest DEF vars, table, parser, request
<1> QED BY <1>1, <1>2, <1>3, <1>4, <1>5 DEF Next, Step

(* The invariant holds in all runs of a process.                           *)
LEMMA TreeInvHolds == Spec => []TreeInv
BY TreesStart, TreesKeep, PTL DEF Spec

(* The tree a run works on after its source was accepted was made by what  *)
(* bison does with that source, and of nothing that was there before; only *)
(* the tokens that rules leave out are not in it.                          *)
THEOREM TreesOfTheirRuns == Spec => []TreeOfThisRun
<1>1. TreeInv => TreeOfThisRun
  <2> SUFFICES ASSUME TreeInv, accepted, clean, pc # "idle"
      PROVE  Derivations(Symbols(root, Len(Told)))[root] = Told
    BY DEF TreeOfThisRun
  <2>1. PICK T : HasTrees(T) /\ Derived(T)
    BY DEF TreeInv
  <2>2. pc \notin {"idle", "parse"}
    BY DEF TreeInv, Reading
  <2>3. root \in T /\ DerivationsIn(vec, T)[root] = Told
    BY <2>1, <2>2 DEF Derived
  <2>4. Forest(T)
    BY <2>1 DEF HasTrees
  <2>5. Derivations(Symbols(root, Len(DerivationsIn(vec, T)[root])))[root] = DerivationsIn(vec, T)[root]
    BY <2>3, <2>4, DerivationFound
  <2> QED BY <2>3, <2>5
<1> QED BY <1>1, TreeInvHolds, PTL
-----------------------------------------------------------------------------
(* The dumper.  The keys of the trees of a forest.                         *)
KeyIn(v, t) == IF t.terminal THEN <<"terminal", t.type, t.text>> ELSE <<"symbol", v[t.type]>>
EndKey == <<"end">>

Entered(v, T) == [t \in T |-> <<KeyIn(v, t)>>]
Left(T) == [t \in T |-> IF t.terminal THEN <<>> ELSE <<EndKey>>]
KeysIn(v, T) == Listing(T, Entered(v, T), Left(T))

LEMMA KeysListing ==
  ASSUME NEW T, Forest(T), NEW v, NEW X, EndKey \in X, \A t \in T : KeyIn(v, t) \in X
  PROVE  /\ IsListing(KeysIn(v, T), T, Entered(v, T), Left(T), X)
         /\ Entered(v, T) \in [T -> Seq(X)] /\ Left(T) \in [T -> Seq(X)]
         /\ \A t \in T : Len(Entered(v, T)[t]) + Len(Left(T)[t]) > 0
<1>1. Entered(v, T) \in [T -> Seq(X)] /\ \A t \in T : Entered(v, T)[t] = <<KeyIn(v, t)>>
  BY DEF Entered
<1>2. Left(T) \in [T -> Seq(X)]
  <2>1. <<>> \in Seq(X) /\ <<EndKey>> \in Seq(X)
    BY EmptySeq
  <2> QED BY <2>1 DEF Left
<1>3. IsListing(KeysIn(v, T), T, Entered(v, T), Left(T), X)
  BY <1>1, <1>2, ListingEquation DEF KeysIn
<1>4. \A t \in T : Len(Entered(v, T)[t]) + Len(Left(T)[t]) > 0
  <2>1. ASSUME NEW t \in T PROVE Len(Entered(v, T)[t]) + Len(Left(T)[t]) > 0
    <3>1. Entered(v, T)[t] = <<KeyIn(v, t)>> /\ Left(T)[t] \in Seq(X)
      BY <1>1, <1>2
    <3>2. Len(<<KeyIn(v, t)>>) = 1 /\ Len(Left(T)[t]) \in Nat
      BY <3>1, LenProperties
    <3> QED BY <3>1, <3>2
  <2> QED BY <2>1
<1> QED BY <1>1, <1>2, <1>3, <1>4

(* The keys of a leaf, and of a tree that is put together.                 *)
LEMMA KeysOf ==
  ASSUME NEW T, Forest(T), NEW v, NEW X, EndKey \in X, \A t \in T : KeyIn(v, t) \in X,
         NEW t \in T, NEW n, Tagged(T, n)
  PROVE  LET K == KeysIn(v, T)
         IN  /\ t.terminal => K[t] = <<KeyIn(v, t)>>
             /\ ~t.terminal => K[t] = <<KeyIn(v, t)>> \o Flat(t.kids, K) \o <<EndKey>>
<1> DEFINE K == KeysIn(v, T)
<1>1. K \in [T -> Seq(X)] /\ Satisfies(K, T, Entered(v, T), Left(T))
  BY KeysListing DEF IsListing
<1>2. Entered(v, T)[t] = <<KeyIn(v, t)>> /\ Left(T)[t] = IF t.terminal THEN <<>> ELSE <<EndKey>>
  BY DEF Entered, Left
<1>3. t.kids \in Seq(T)
  BY DEF Forest, Closed
<1> HIDE DEF K
<1>4. K[t] = <<KeyIn(v, t)>> \o Flat(t.kids, K) \o (IF t.terminal THEN <<>> ELSE <<EndKey>>)
  BY <1>1, <1>2 DEF Satisfies
<1>5. Flat(<<>>, K) = <<>>
  <2>1. <<>> \in Seq(T)
    BY EmptySeq
  <2> QED BY <1>1, <2>1, FlatOf
<1>6. t.terminal => K[t] = <<KeyIn(v, t)>>
  <2> SUFFICES ASSUME t.terminal PROVE K[t] = <<KeyIn(v, t)>>
    OBVIOUS
  <2>1. t.kids = <<>>
    BY DEF Tagged
  <2> DEFINE a == <<KeyIn(v, t)>>
  <2>2. a \in Seq(X)
    OBVIOUS
  <2>3. K[t] = (a \o <<>>) \o <<>>
    BY <1>4, <1>5, <2>1
  <2> HIDE DEF a
  <2>4. (a \o <<>>) \o <<>> = a
    BY <2>2, ConcatEmptySeq
  <2> QED BY <2>3, <2>4 DEF a
<1> QED BY <1>4, <1>6 DEF K

(* Keys, which looks for the symbols of its tree, lists the same.          *)
LEMMA KeysFound ==
  ASSUME NEW T, Forest(T), NEW tree \in T
  PROVE  AllKeys(Symbols(tree, Len(KeysIn(vec, T)[tree])))[tree] = KeysIn(vec, T)[tree]
<1> DEFINE X == {KeyIn(vec, t) : t \in T} \cup {EndKey}
           K == KeysIn(vec, T)
           e == Entered(vec, T)
           l == Left(T)
           U == Symbols(tree, Len(K[tree]))
           f == Entered(vec, U)
           m == Left(U)
<1>0. EndKey \in X /\ \A t \in T : KeyIn(vec, t) \in X
  OBVIOUS
<1> HIDE DEF X
<1>1. /\ IsListing(K, T, e, l, X) /\ e \in [T -> Seq(X)] /\ l \in [T -> Seq(X)]
      /\ \A t \in T : Len(e[t]) + Len(l[t]) > 0
  BY <1>0, KeysListing
<1>2. \A t : Key(t) = KeyIn(vec, t)
  BY DEF Key, KeyIn, Name
<1>3. AllKeys(U) = Listing(U, f, m)
  BY <1>2, Zenon DEF AllKeys, Entered, Left, EndKey
<1>4. U \subseteq T /\ tree \in U /\ Closed(U)
  <2> HIDE DEF K, e, l
  <2> QED BY <1>1, SymbolsPart DEF Forest
<1> HIDE DEF U
<1>5. f \in [U -> Seq(X)] /\ m \in [U -> Seq(X)]
  <2>1. Forest(U) /\ \A t \in U : KeyIn(vec, t) \in X
    BY <1>0, <1>4, ForestPart
  <2> QED BY <1>0, <2>1, KeysListing
<1>6. SameParts(U, e, l, f, m)
  BY <1>4 DEF SameParts, Entered, Left
<1> HIDE DEF K, e, l, f, m
<1>7. \A t \in U : Listing(U, f, m)[t] = K[t]
  <2>1. Satisfies(K, T, e, l)
    BY <1>1 DEF IsListing
  <2>2. U \subseteq T /\ Closed(U) /\ Forest(U)
    BY <1>4, ForestPart
  <2> DEFINE other == Listing(U, f, m)
  <2>3. Satisfies(other, U, f, m)
    BY <1>5, <2>2, ListingEquation DEF IsListing
  <2> HIDE DEF other
  <2>4. \A t \in U : other[t] = K[t]
    BY <1>6, <2>1, <2>2, <2>3, ListingPart, SMT
  <2> QED BY <2>4 DEF other
<1> QED BY <1>3, <1>4, <1>7 DEF K, U
-----------------------------------------------------------------------------
(* What the dumper has still to write at each level of Invoke: the keys of *)
(* the children to come, then the end of the object and the level above.   *)
Above(rem, i) == IF i = 1 THEN <<>> ELSE <<EndKey>> \o rem[i - 1]

Remains(rem, cs, K, X) ==
  /\ rem \in [1 .. Len(cs) -> Seq(X)]
  /\ \A i \in 1 .. Len(cs) : rem[i] = Flat(cs[i], K) \o Above(rem, i)

(* The children to come at each level, and lists of keys.                  *)
Levels(cs, T) == cs \in Seq(Seq(T)) /\ cs # <<>>
KeyLists(K, T, X) == EndKey \in X /\ K \in [T -> Seq(X)]
Advanced(cs) == [cs EXCEPT ![Len(cs)] = Tail(cs[Len(cs)])]

(* What remains after a child, at the child's own level, and above it.     *)
AfterChild(r, rem, cs, K, X) ==
  /\ Remains(r, Advanced(cs), K, X) /\ r[Len(cs)] \in Seq(X)
  /\ rem[Len(cs)] = K[Head(cs[Len(cs)])] \o r[Len(cs)]

InChild(r, rem, cs, q, K, X) ==
  /\ Remains(r, Append(cs, q), K, X)
  /\ r[Len(cs) + 1] = Flat(q, K) \o (<<EndKey>> \o rem[Len(cs)])

OutOfChild(r, rem, cs, K, X) ==
  /\ Remains(r, Front(cs), K, X)
  /\ rem[Len(cs)] = <<EndKey>> \o r[Len(cs) - 1]

LEMMA AboveType ==
  ASSUME NEW n \in Nat, NEW X, EndKey \in X, NEW rem \in [1 .. n -> Seq(X)], NEW i \in 1 .. n
  PROVE  Above(rem, i) \in Seq(X)
<1>1. CASE i = 1
  BY <1>1, EmptySeq DEF Above
<1>2. CASE i # 1
  <2>1. i - 1 \in 1 .. n
    BY <1>2
  <2> DEFINE q == rem[i - 1]
  <2>2. q \in Seq(X)
    BY <2>1
  <2> HIDE DEF q
  <2>3. <<EndKey>> \o q \in Seq(X)
    BY <2>2
  <2> QED BY <1>2, <2>3 DEF Above, q
<1> QED BY <1>1, <1>2

(* The dumper turns to the next child of the innermost level.              *)
LEMMA RemainsAdvance ==
  ASSUME NEW T, NEW X, NEW K, KeyLists(K, T, X), NEW cs, Levels(cs, T),
         cs[Len(cs)] # <<>>, NEW rem, Remains(rem, cs, K, X)
  PROVE  /\ Levels(Advanced(cs), T) /\ Len(Advanced(cs)) = Len(cs)
         /\ Head(cs[Len(cs)]) \in T
         /\ \E r : AfterChild(r, rem, cs, K, X)
<1> DEFINE n == Len(cs)
           q == cs[n]
           h == Head(q)
           p == Tail(q)
           ds == [cs EXCEPT ![n] = p]
           a == Above(rem, n)
           r == [rem EXCEPT ![n] = Flat(p, K) \o a]
<1>0. EndKey \in X /\ K \in [T -> Seq(X)] /\ cs \in Seq(Seq(T)) /\ cs # <<>>
  BY DEF KeyLists, Levels
<1>1. n \in Nat /\ n > 0 /\ n \in 1 .. n /\ \A i \in 1 .. n : cs[i] \in Seq(T)
  <2>1. n \in Nat /\ n > 0
    <3> DEFINE Y == Seq(T)
    <3>1. cs \in Seq(Y) /\ cs # <<>>
      BY <1>0
    <3> HIDE DEF Y
    <3>2. Len(cs) \in Nat /\ Len(cs) > 0
      BY <3>1
    <3> QED BY <3>2
  <2> HIDE DEF n
  <2> QED BY <1>0, <2>1, ElementOfSeq DEF n
<1>2. q \in Seq(T) /\ q # <<>>
  BY <1>1
<1>3. rem \in [1 .. n -> Seq(X)] /\ \A i \in 1 .. n : rem[i] = Flat(cs[i], K) \o Above(rem, i)
  BY DEF Remains
<1> HIDE DEF n
<1>4. a \in Seq(X)
  BY <1>0, <1>1, <1>3, AboveType
<1>5. h \in T /\ p \in Seq(T) /\ q = <<h>> \o p
  <2> HIDE DEF q
  <2> QED BY <1>2
<1>6. ds \in Seq(Seq(T)) /\ Len(ds) = n /\ ds[n] = p /\ \A i \in 1 .. n : i # n => ds[i] = cs[i]
  <2> DEFINE Y == Seq(T)
  <2>1. cs \in Seq(Y) /\ p \in Y /\ n = Len(cs) /\ n \in 1 .. Len(cs)
    BY <1>0, <1>1, <1>5 DEF n
  <2> HIDE DEF Y, p, n
  <2>2. ds \in Seq(Y) /\ Len(ds) = Len(cs) /\ \A i \in 1 .. Len(cs) : ds[i] = IF i = n THEN p ELSE cs[i]
    BY <2>1, ExceptSeq
  <2> QED BY <2>1, <2>2 DEF Y
<1> HIDE DEF q, h, p, ds
<1>7. /\ Flat(p, K) \in Seq(X) /\ Flat(<<h>>, K) = K[h] /\ K[h] \in Seq(X)
      /\ Flat(q, K) = Flat(<<h>>, K) \o Flat(p, K)
  <2>1. <<h>> \in Seq(T)
    BY <1>5
  <2>2. Flat(p, K) \in Seq(X)
    BY <1>0, <1>5, FlatOf
  <2>3. Flat(<<h>>, K) = K[h]
    BY <1>0, <1>5, FlatOne, ZenonT(90)
  <2>4. Flat(<<h>> \o p, K) = Flat(<<h>>, K) \o Flat(p, K)
    BY <1>0, <1>5, <2>1, FlatBoth, ZenonT(90)
  <2> QED BY <1>0, <1>5, <2>2, <2>3, <2>4
<1> DEFINE b == Flat(p, K)
           k == K[h]
<1>8. b \o a \in Seq(X) /\ (k \o b) \o a = k \o (b \o a)
  <2>1. a \in Seq(X) /\ b \in Seq(X) /\ k \in Seq(X)
    BY <1>4, <1>7
  <2> HIDE DEF a, b, k
  <2>2. b \o a \in Seq(X)
    BY ONLY <2>1
  <2>3. (k \o b) \o a = k \o (b \o a)
    BY ONLY <2>1, ConcatAssociative, SMTT(40)
  <2> QED BY <2>2, <2>3
<1>9. /\ r \in [1 .. n -> Seq(X)] /\ r[n] = b \o a
      /\ \A i \in 1 .. n : i # n => r[i] = rem[i]
  <2> HIDE DEF a, b
  <2> QED BY <1>1, <1>3, <1>8 DEF b
<1> HIDE DEF r
<1>10. rem[n] = K[h] \o r[n]
  BY <1>1, <1>3, <1>7, <1>8, <1>9 DEF q
<1>11. \A i \in 1 .. n : Above(r, i) = Above(rem, i)
  <2>1. ASSUME NEW i \in 1 .. n, i # 1 PROVE r[i - 1] = rem[i - 1]
    <3>1. i - 1 \in 1 .. n /\ i - 1 # n
      BY <1>1, <2>1
    <3> QED BY <1>9, <3>1
  <2> QED BY <2>1 DEF Above
<1>12. \A i \in 1 .. n : r[i] = Flat(ds[i], K) \o Above(r, i)
  BY <1>3, <1>6, <1>9, <1>11
<1>13. Remains(r, ds, K, X)
  BY <1>6, <1>9, <1>12 DEF Remains
<1>14. r[n] \in Seq(X)
  BY <1>8, <1>9
<1>15. ds = Advanced(cs) /\ n = Len(cs) /\ h = Head(cs[Len(cs)])
  BY DEF ds, Advanced, n, p, q, h
<1>16. ds # <<>>
  <2> DEFINE Y == Seq(T)
  <2>1. ds \in Seq(Y)
    BY <1>6
  <2> HIDE DEF Y
  <2> QED BY <1>1, <1>6, <2>1
<1>17. Levels(ds, T)
  BY <1>6, <1>16 DEF Levels
<1> QED BY <1>5, <1>6, <1>10, <1>13, <1>14, <1>15, <1>17 DEF AfterChild

(* It goes into a child, and comes back from one.                          *)
LEMMA RemainsPush ==
  ASSUME NEW T, NEW X, NEW K, KeyLists(K, T, X), NEW cs, Levels(cs, T),
         NEW q \in Seq(T), NEW rem, Remains(rem, cs, K, X)
  PROVE  /\ Levels(Append(cs, q), T) /\ Len(Append(cs, q)) = Len(cs) + 1
         /\ \E r : InChild(r, rem, cs, q, K, X)
<1> DEFINE n == Len(cs)
           ds == Append(cs, q)
           top == Flat(q, K) \o (<<EndKey>> \o rem[n])
           r == [i \in 1 .. n + 1 |-> IF i <= n THEN rem[i] ELSE top]
<1>0. EndKey \in X /\ K \in [T -> Seq(X)] /\ cs \in Seq(Seq(T)) /\ cs # <<>>
  BY DEF KeyLists, Levels
<1>1. /\ n \in Nat /\ n > 0 /\ ds \in Seq(Seq(T)) /\ Len(ds) = n + 1 /\ ds[n + 1] = q
      /\ \A i \in 1 .. n : ds[i] = cs[i]
  <2> DEFINE Y == Seq(T)
  <2>1. cs \in Seq(Y) /\ cs # <<>> /\ q \in Y
    BY <1>0
  <2> HIDE DEF Y
  <2>2. /\ n \in Nat /\ n > 0 /\ ds \in Seq(Y) /\ Len(ds) = n + 1 /\ ds[n + 1] = q
        /\ \A i \in 1 .. n : ds[i] = cs[i]
    BY <2>1
  <2> QED BY <2>2 DEF Y
<1>2. rem \in [1 .. n -> Seq(X)] /\ \A i \in 1 .. n : rem[i] = Flat(cs[i], K) \o Above(rem, i)
  BY DEF Remains
<1> HIDE DEF n, ds
<1>3. top \in Seq(X)
  <2> DEFINE a == Flat(q, K)
             b == rem[n]
  <2>1. a \in Seq(X) /\ EndKey \in X
    BY <1>0, FlatOf
  <2>3. n \in 1 .. n
    BY <1>1
  <2>4. b \in Seq(X)
    BY <1>2, <2>3
  <2> HIDE DEF a, b
  <2>2. a \o (<<EndKey>> \o b) \in Seq(X)
    BY <2>1, <2>4
  <2> QED BY <2>2 DEF a, b
<1>4. r[n + 1] = top
  BY <1>1
<1>5. \A i \in 1 .. n : r[i] = rem[i]
  BY <1>1
<1>6. r \in [1 .. n + 1 -> Seq(X)]
  <2> HIDE DEF top
  <2> QED BY <1>1, <1>2, <1>3
<1> HIDE DEF r
<1>7. ASSUME NEW i \in 1 .. n + 1 PROVE r[i] = Flat(ds[i], K) \o Above(r, i)
  <2>1. CASE i \in 1 .. n
    <3>1. ASSUME i # 1 PROVE r[i - 1] = rem[i - 1]
      <4>1. i - 1 \in 1 .. n
        BY <1>1, <2>1, <3>1
      <4> QED BY <1>5, <4>1
    <3> QED BY <1>1, <1>2, <1>5, <2>1, <3>1 DEF Above
  <2>2. CASE i = n + 1
    <3>1. i # 1 /\ i - 1 = n /\ n \in 1 .. n
      BY <1>1, <2>2
    <3>2. Above(r, i) = <<EndKey>> \o rem[n]
      BY <1>5, <3>1 DEF Above
    <3> QED BY <1>1, <1>4, <2>2, <3>2
  <2> QED BY <1>1, <2>1, <2>2
<1>8. Remains(r, ds, K, X)
  BY <1>1, <1>6, <1>7 DEF Remains
<1>9. Levels(ds, T)
  <2> DEFINE Y == Seq(T)
  <2>1. ds \in Seq(Y)
    BY <1>1
  <2> HIDE DEF Y
  <2>2. ds # <<>>
    BY <1>1, <2>1
  <2> QED BY <1>1, <2>2 DEF Levels
<1> QED BY <1>1, <1>4, <1>8, <1>9 DEF n, ds, InChild

(* At the end of a level the object's end is written, and the level above  *)
(* goes on.                                                                *)
LEMMA RemainsPop ==
  ASSUME NEW T, NEW X, NEW K, KeyLists(K, T, X), NEW cs, Levels(cs, T), Len(cs) > 1,
         cs[Len(cs)] = <<>>, NEW rem, Remains(rem, cs, K, X)
  PROVE  /\ Levels(Front(cs), T) /\ Len(Front(cs)) = Len(cs) - 1
         /\ \E r : OutOfChild(r, rem, cs, K, X)
<1> DEFINE n == Len(cs)
           ds == Front(cs)
           r == [i \in 1 .. n - 1 |-> rem[i]]
<1>9. EndKey \in X /\ K \in [T -> Seq(X)] /\ cs \in Seq(Seq(T)) /\ cs # <<>>
  BY DEF KeyLists, Levels
<1>1. /\ n \in Nat /\ n > 1 /\ ds \in Seq(Seq(T)) /\ Len(ds) = n - 1
      /\ \A i \in 1 .. n - 1 : ds[i] = cs[i]
  <2> DEFINE Y == Seq(T)
  <2>1. cs \in Seq(Y) /\ n \in Nat
    BY <1>9, LenProperties
  <2> HIDE DEF Y
  <2>2. ds = SubSeq(cs, 1, n - 1)
    BY DEF Front
  <2>3. /\ SubSeq(cs, 1, n - 1) \in Seq(Y) /\ Len(SubSeq(cs, 1, n - 1)) = n - 1
        /\ \A i \in 1 .. n - 1 : SubSeq(cs, 1, n - 1)[i] = cs[i]
    BY <2>1
  <2> QED BY <2>1, <2>2, <2>3 DEF Y
<1>2. rem \in [1 .. n -> Seq(X)] /\ \A i \in 1 .. n : rem[i] = Flat(cs[i], K) \o Above(rem, i)
  BY DEF Remains
<1>0. cs[n] = <<>>
  OBVIOUS
<1> HIDE DEF n, ds
<1>3. rem[n] = <<EndKey>> \o rem[n - 1]
  <2>1. n \in 1 .. n /\ n - 1 \in 1 .. n /\ n # 1
    BY <1>1
  <2>2. Flat(<<>>, K) = <<>>
    <3>1. <<>> \in Seq(T)
      BY EmptySeq
    <3> QED BY <1>9, <3>1, FlatOf
  <2>3. rem[n] = <<>> \o (<<EndKey>> \o rem[n - 1])
    BY <1>0, <1>2, <2>1, <2>2 DEF Above
  <2> DEFINE b == rem[n - 1]
  <2>4. b \in Seq(X) /\ EndKey \in X
    BY <1>2, <1>9, <2>1
  <2> HIDE DEF b
  <2>5. <<>> \o (<<EndKey>> \o b) = <<EndKey>> \o b
    BY <2>4
  <2> QED BY <2>3, <2>5 DEF b
<1>4. \A i \in 1 .. n - 1 : r[i] = rem[i] /\ i \in 1 .. n
  BY <1>1
<1>5. r \in [1 .. n - 1 -> Seq(X)]
  BY <1>2, <1>4
<1> HIDE DEF r
<1>6. ASSUME NEW i \in 1 .. n - 1 PROVE r[i] = Flat(ds[i], K) \o Above(r, i)
  <2>1. ASSUME i # 1 PROVE r[i - 1] = rem[i - 1]
    <3>1. i - 1 \in 1 .. n - 1
      BY <1>1, <2>1
    <3> QED BY <1>4, <3>1
  <2> QED BY <1>1, <1>2, <1>4, <2>1 DEF Above
<1>7. Remains(r, ds, K, X)
  BY <1>1, <1>5, <1>6 DEF Remains
<1>8. r[n - 1] = rem[n - 1]
  BY <1>1, <1>4
<1>10. Levels(ds, T)
  <2> DEFINE Y == Seq(T)
  <2>1. ds \in Seq(Y)
    BY <1>1
  <2> HIDE DEF Y
  <2>2. ds # <<>>
    BY <1>1, <2>1
  <2> QED BY <1>1, <2>2 DEF Levels
<1> QED BY <1>1, <1>3, <1>7, <1>8, <1>10 DEF n, ds, OutOfChild
-----------------------------------------------------------------------------
(* The keys that are written.                                              *)
Written(d) == [i \in DOMAIN d |-> KeyWritten(d[i])]
WrittenNext(d, entry, q) ==
  Written(Append(d, entry)) \o q = Written(d) \o (<<KeyWritten(entry)>> \o q)
WrittenIn(d, X) == IsSequence(d) /\ Written(d) \in Seq(X)

(* What is written next is taken from what remains.                        *)
LEMMA AppendMoves ==
  ASSUME NEW X, NEW a \in Seq(X), NEW o \in X, NEW q \in Seq(X), NEW ops,
         ops = <<o>> \o q
  PROVE  Append(a, o) \o q = a \o ops
<1>1. Append(a, o) = a \o <<o>> /\ <<o>> \in Seq(X)
  OBVIOUS
<1>2. (a \o <<o>>) \o q = a \o (<<o>> \o q)
  BY <1>1, ConcatAssociative
<1> QED BY <1>1, <1>2

LEMMA WrittenGrows ==
  ASSUME NEW X, NEW d, WrittenIn(d, X), NEW entry, KeyWritten(entry) \in X, NEW q \in Seq(X)
  PROVE  WrittenIn(Append(d, entry), X) /\ WrittenNext(d, entry, q)
<1> DEFINE a == Written(d)
           b == Written(Append(d, entry))
           o == KeyWritten(entry)
           n == Len(d)
<1>1. /\ IsSequence(Append(d, entry)) /\ Len(Append(d, entry)) = n + 1
      /\ \A i \in 1 .. n : Append(d, entry)[i] = d[i]
      /\ Append(d, entry)[n + 1] = entry
  BY AppendSequence DEF WrittenIn
<1>2. n \in Nat /\ DOMAIN d = 1 .. n /\ DOMAIN Append(d, entry) = 1 .. n + 1
  BY <1>1, SequenceLength DEF IsSequence, WrittenIn
<1>3. /\ DOMAIN a = 1 .. n /\ DOMAIN b = 1 .. n + 1 /\ b = [i \in 1 .. n + 1 |-> b[i]]
      /\ \A i \in 1 .. n : b[i] = a[i]
      /\ b[n + 1] = o
  BY <1>1, <1>2 DEF Written
<1> HIDE DEF a, b, o, n
<1>4. a \in Seq(X) /\ Len(a) = n /\ o \in X
  <2>1. a \in Seq(X) /\ o \in X
    BY DEF a, o, WrittenIn
  <2>2. Len(a) = n
    BY <1>2, <1>3, <2>1, LenProperties
  <2> QED BY <2>1, <2>2
<1>5. b = Append(a, o)
  <2>1. /\ Append(a, o) \in Seq(X) /\ Len(Append(a, o)) = n + 1
        /\ \A i \in 1 .. n : Append(a, o)[i] = a[i]
        /\ Append(a, o)[n + 1] = o
    BY <1>2, <1>4
  <2> DEFINE c == Append(a, o)
  <2>2. c = [i \in 1 .. n + 1 |-> c[i]]
    <3>1. c \in Seq(X) /\ Len(c) = n + 1
      BY <2>1
    <3> HIDE DEF c
    <3>2. c \in [1 .. Len(c) -> X]
      BY <3>1, SeqIsFunction
    <3> QED BY <3>1, <3>2
  <2>3. c[n + 1] = o /\ \A i \in 1 .. n : c[i] = a[i]
    BY <2>1
  <2> HIDE DEF c
  <2>4. ASSUME NEW i \in 1 .. n + 1 PROVE b[i] = c[i]
    <3>1. CASE i \in 1 .. n
      BY <1>3, <2>3, <3>1
    <3>2. CASE i = n + 1
      BY <1>3, <2>3, <3>2
    <3> QED BY <1>2, <3>1, <3>2
  <2> QED BY <1>3, <2>2, <2>4 DEF c
<1>6. b \in Seq(X)
  BY <1>4, <1>5
<1>7. b \o q = a \o (<<o>> \o q)
  BY <1>4, <1>5, AppendMoves
<1> QED BY <1>1, <1>6, <1>7 DEF a, b, o, WrittenIn, WrittenNext

(* While the dumper is at work, what is written and what remains are the   *)
(* keys of the root.                                                       *)
Writing(T, X, rem) ==
  LET K == KeysIn(vec, T)
  IN  /\ HasTrees(T) /\ root \in T
      /\ EndKey \in X /\ \A t \in T : KeyIn(vec, t) \in X
      /\ Levels(calls, T) /\ Remains(rem, calls, K, X)
      /\ WrittenIn(doc, X)
      /\ Written(doc) \o rem[Len(calls)] = K[root]

LEMMA WritingKeys ==
  ASSUME NEW T, NEW X, NEW rem, Writing(T, X, rem)
  PROVE  KeyLists(KeysIn(vec, T), T, X)
<1>1. EndKey \in X /\ Forest(T) /\ \A t \in T : KeyIn(vec, t) \in X
  BY DEF Writing, HasTrees
<1> QED BY <1>1, KeysListing DEF IsListing, KeyLists

(* A step that writes the first of what remains keeps the invariant.       *)
LEMMA StillWriting ==
  ASSUME NEW T, NEW X, NEW rem, Writing(T, X, rem),
         UNCHANGED <<vec, values, root>>, Levels(calls', T),
         NEW r, Remains(r, calls', KeysIn(vec, T), X),
         NEW entry, doc' = Append(doc, entry), KeyWritten(entry) \in X,
         rem[Len(calls)] = <<KeyWritten(entry)>> \o r[Len(calls')]
  PROVE  Writing(T, X, r)'
<1> DEFINE n == Len(calls')
           q == r[n]
           a == Written(doc)
<1>1. n \in 1 .. n
  <2> DEFINE Y == Seq(T)
             c == calls'
  <2>1. c \in Seq(Y) /\ c # <<>>
    BY DEF Levels
  <2> HIDE DEF Y, c
  <2>2. Len(c) \in 1 .. Len(c)
    BY <2>1
  <2> QED BY <2>2 DEF c
<1>2. r \in [1 .. n -> Seq(X)]
  BY DEF Remains
<1>3. q \in Seq(X)
  BY <1>1, <1>2
<1>4. WrittenIn(doc', X) /\ Written(doc') \o q = a \o (<<KeyWritten(entry)>> \o q)
  <2>1. WrittenIn(doc, X)
    BY DEF Writing
  <2> HIDE DEF q, a
  <2>2. WrittenIn(Append(doc, entry), X) /\ WrittenNext(doc, entry, q)
    BY <1>3, <2>1, WrittenGrows
  <2> QED BY <2>2 DEF a, WrittenNext
<1>5. a \o rem[Len(calls)] = KeysIn(vec, T)[root]
  BY DEF Writing
<1> HIDE DEF a
<1>6. Written(doc') \o q = KeysIn(vec, T)[root]
  BY <1>4, <1>5
<1>7. HasTrees(T)'
  BY DEF Writing, HasTrees
<1> QED BY <1>4, <1>6, <1>7 DEF Writing

(* Where Invoke is, and what it goes on with.                              *)
AfterHere(r, rem, K, X) ==
  /\ Remains(r, Advance, K, X) /\ r[Len(calls)] \in Seq(X)
  /\ rem[Len(calls)] = K[Here] \o r[Len(calls)]

LEMMA WritingHere ==
  ASSUME NEW T, NEW X, NEW rem, Writing(T, X, rem), Last(calls) # <<>>
  PROVE  /\ Here \in T /\ Here.kids \in Seq(T)
         /\ Levels(Advance, T) /\ Len(Advance) = Len(calls)
         /\ \E r : AfterHere(r, rem, KeysIn(vec, T), X)
<1> DEFINE K == KeysIn(vec, T)
           n == Len(calls)
<1>1. Levels(calls, T) /\ Remains(rem, calls, K, X) /\ Forest(T)
  BY DEF Writing, HasTrees
<1>2. KeyLists(K, T, X)
  BY WritingKeys
<1>3. Last(calls) = calls[n] /\ Here = Head(calls[n]) /\ Advance = Advanced(calls)
  BY DEF Last, Here, Advance, Advanced
<1> HIDE DEF K
<1>4. /\ Levels(Advanced(calls), T) /\ Len(Advanced(calls)) = n /\ Head(calls[n]) \in T
      /\ \E r : AfterChild(r, rem, calls, K, X)
  BY <1>1, <1>2, <1>3, RemainsAdvance
<1>5. Here.kids \in Seq(T)
  BY <1>1, <1>3, <1>4 DEF Forest, Closed
<1> QED BY <1>3, <1>4, <1>5 DEF K, AfterChild, AfterHere

LEMMA WritingTerminal ==
  ASSUME NEW T, NEW X, NEW rem, Writing(T, X, rem),
         UNCHANGED <<vec, values, root>>, VisitTerminal
  PROVE  \E r : Writing(T, X, r)'
<1> DEFINE K == KeysIn(vec, T)
           h == Here
           entry == <<"terminal", terminal_id, h.type, h.text>>
<1>1. /\ Last(calls) # <<>> /\ h.terminal /\ calls' = Advance /\ doc' = Append(doc, entry)
  BY DEF VisitTerminal
<1>2. /\ h \in T /\ Levels(Advance, T) /\ Len(Advance) = Len(calls)
      /\ \E r : AfterHere(r, rem, K, X)
  BY <1>1, WritingHere
<1>3. /\ EndKey \in X /\ \A t \in T : KeyIn(vec, t) \in X
      /\ Forest(T) /\ Tagged(T, Len(vec))
  BY DEF Writing, HasTrees
<1>4. K[h] = <<KeyIn(vec, h)>>
  BY <1>1, <1>2, <1>3, KeysOf
<1>5. KeyWritten(entry) = KeyIn(vec, h)
  BY <1>1 DEF KeyWritten, IsTerminal, KeyIn
<1> HIDE DEF K, h, entry
<1>6. PICK r : Remains(r, Advance, K, X) /\ rem[Len(calls)] = K[h] \o r[Len(calls)]
  BY <1>2 DEF AfterHere, h
<1>7. KeyWritten(entry) \in X
  BY <1>2, <1>3, <1>5
<1>8. Writing(T, X, r)'
  <2>1. Remains(r, calls', KeysIn(vec, T), X) /\ Levels(calls', T)
    BY <1>1, <1>2, <1>6 DEF K
  <2>2. rem[Len(calls)] = <<KeyWritten(entry)>> \o r[Len(calls')]
    BY <1>1, <1>2, <1>4, <1>5, <1>6
  <2> QED BY <1>1, <1>7, <2>1, <2>2, StillWriting
<1> QED BY <1>8

LEMMA WritingNonTerminal ==
  ASSUME NEW T, NEW X, NEW rem, Writing(T, X, rem),
         UNCHANGED <<vec, values, root>>, VisitNonTerminal
  PROVE  \E r : Writing(T, X, r)'
<1> DEFINE K == KeysIn(vec, T)
           h == Here
           n == Len(calls)
           entry == <<"symbol", Name(h.type)>>
<1>1. /\ Last(calls) # <<>> /\ ~h.terminal /\ calls' = Append(Advance, h.kids)
      /\ doc' = Append(doc, entry)
  BY DEF VisitNonTerminal
<1>2. /\ h \in T /\ h.kids \in Seq(T) /\ Levels(Advance, T) /\ Len(Advance) = n
      /\ \E r : AfterHere(r, rem, K, X)
  BY <1>1, WritingHere
<1>3. /\ EndKey \in X /\ \A t \in T : KeyIn(vec, t) \in X
      /\ Forest(T) /\ Tagged(T, Len(vec))
  BY DEF Writing, HasTrees
<1>4. K[h] = <<KeyIn(vec, h)>> \o Flat(h.kids, K) \o <<EndKey>>
  BY <1>1, <1>2, <1>3, KeysOf
<1>5. KeyWritten(entry) = KeyIn(vec, h)
  BY <1>1 DEF KeyWritten, IsTerminal, KeyIn, Name
<1>6. KeyLists(K, T, X)
  BY WritingKeys
<1> HIDE DEF K, h, entry, n
<1>7. PICK r1 : Remains(r1, Advance, K, X) /\ r1[n] \in Seq(X) /\ rem[n] = K[h] \o r1[n]
  BY <1>2 DEF AfterHere, h, n
<1>8. /\ Levels(Append(Advance, h.kids), T) /\ Len(Append(Advance, h.kids)) = n + 1
      /\ \E r : InChild(r, r1, Advance, h.kids, K, X)
  BY <1>2, <1>6, <1>7, RemainsPush
<1>9. PICK r : /\ Remains(r, Append(Advance, h.kids), K, X)
               /\ r[n + 1] = Flat(h.kids, K) \o (<<EndKey>> \o r1[n])
  BY <1>2, <1>8 DEF InChild
<1>10. rem[n] = <<KeyIn(vec, h)>> \o r[n + 1]
  <2> DEFINE a == <<KeyIn(vec, h)>>
             b == Flat(h.kids, K)
             c == <<EndKey>>
             d == r1[n]
  <2>1. a \in Seq(X) /\ c \in Seq(X) /\ d \in Seq(X)
    BY <1>2, <1>3, <1>7
  <2>2. b \in Seq(X)
    BY <1>2, <1>6, FlatOf DEF KeyLists
  <2>3. rem[n] = ((a \o b) \o c) \o d
    BY <1>4, <1>7
  <2>6. r[n + 1] = b \o (c \o d)
    BY <1>9
  <2> HIDE DEF a, b, c, d
  <2>4. ((a \o b) \o c) \o d = (a \o b) \o (c \o d) /\ c \o d \in Seq(X)
    <3>1. a \o b \in Seq(X) /\ c \o d \in Seq(X)
      BY ONLY <2>1, <2>2
    <3> DEFINE e == a \o b
    <3>2. e \in Seq(X)
      BY <3>1
    <3> HIDE DEF e
    <3>3. (e \o c) \o d = e \o (c \o d)
      BY ONLY <2>1, <3>2, ConcatAssociative, SMTT(40)
    <3> QED BY <3>1, <3>3 DEF e
  <2>5. (a \o b) \o (c \o d) = a \o (b \o (c \o d))
    <3> DEFINE e == c \o d
    <3>1. e \in Seq(X)
      BY <2>4
    <3> HIDE DEF e
    <3>2. (a \o b) \o e = a \o (b \o e)
      BY ONLY <2>1, <2>2, <3>1, ConcatAssociative, SMTT(40)
    <3> QED BY <3>2 DEF e
  <2> QED BY <2>3, <2>4, <2>5, <2>6 DEF a
<1>11. KeyWritten(entry) \in X
  BY <1>2, <1>3, <1>5
<1>12. Writing(T, X, r)'
  <2>1. Remains(r, calls', KeysIn(vec, T), X) /\ Levels(calls', T)
    BY <1>1, <1>8, <1>9 DEF K
  <2>2. rem[Len(calls)] = <<KeyWritten(entry)>> \o r[Len(calls')]
    BY <1>1, <1>5, <1>8, <1>10 DEF n
  <2> QED BY <1>1, <1>11, <2>1, <2>2, StillWriting
<1> QED BY <1>12

LEMMA WritingExit ==
  ASSUME NEW T, NEW X, NEW rem, Writing(T, X, rem),
         UNCHANGED <<vec, values, root>>, ExitNonTerminal
  PROVE  \E r : Writing(T, X, r)'
<1> DEFINE K == KeysIn(vec, T)
           n == Len(calls)
<1>1. n > 1 /\ calls[n] = <<>> /\ calls' = Front(calls) /\ doc' = Append(doc, EndKey)
  BY DEF ExitNonTerminal, Last, EndKey
<1>2. Levels(calls, T) /\ Remains(rem, calls, K, X) /\ EndKey \in X
  BY DEF Writing
<1>3. KeyLists(K, T, X)
  BY WritingKeys
<1> HIDE DEF K
<1>4. /\ Levels(Front(calls), T) /\ Len(Front(calls)) = n - 1
      /\ \E r : OutOfChild(r, rem, calls, K, X)
  BY <1>1, <1>2, <1>3, RemainsPop
<1>5. PICK r : Remains(r, Front(calls), K, X) /\ rem[n] = <<EndKey>> \o r[n - 1]
  BY <1>4 DEF OutOfChild
<1>6. KeyWritten(EndKey) = EndKey
  BY DEF KeyWritten, IsTerminal, EndKey
<1>7. Writing(T, X, r)'
  <2>1. Remains(r, calls', KeysIn(vec, T), X) /\ Levels(calls', T)
    BY <1>1, <1>4, <1>5 DEF K
  <2>2. rem[Len(calls)] = <<KeyWritten(EndKey)>> \o r[Len(calls')]
    BY <1>1, <1>4, <1>5, <1>6
  <2> QED BY <1>1, <1>2, <1>6, <2>1, <2>2, StillWriting
<1> QED BY <1>7

(* It begins with all the keys of the root still to be written.            *)
LEMMA WritingStarts ==
  ASSUME TreeInv, root # NullSymbol, Construct(root), UNCHANGED <<vec, values, root>>
  PROVE  \E T, X, rem : Writing(T, X, rem)'
<1>1. PICK T : HasTrees(T) /\ Rooted(T)
  BY DEF TreeInv
<1> DEFINE K == KeysIn(vec, T)
           k == K[root]
<1>0. PICK X, rem : X = {KeyIn(vec, t) : t \in T} \cup {EndKey} /\ rem = [i \in 1 .. 1 |-> k]
  OBVIOUS
<1>2. calls' = <<<<root>>>> /\ doc' = <<>> /\ root \in T
  BY <1>1 DEF Construct, Rooted
<1>3. EndKey \in X /\ \A t \in T : KeyIn(vec, t) \in X
  BY <1>0
<1>4. K \in [T -> Seq(X)]
  BY <1>1, <1>3, KeysListing DEF IsListing, HasTrees
<1> HIDE DEF K
<1>5. k \in Seq(X) /\ Flat(<<root>>, K) = k
  <2>1. <<>> \in Seq(T)
    BY EmptySeq
  <2> QED BY <1>2, <1>4, <2>1, FlatOne
<1>6. Levels(calls', T) /\ Len(calls') = 1 /\ calls'[1] = <<root>>
  <2> DEFINE one == <<root>>
             Y == Seq(T)
  <2>1. one \in Y
    BY <1>2
  <2> HIDE DEF one, Y
  <2>2. <<one>> \in Seq(Y) /\ Len(<<one>>) = 1 /\ <<one>> # <<>> /\ <<one>>[1] = one
    BY <2>1
  <2> QED BY <1>2, <2>2 DEF one, Y, Levels
<1> HIDE DEF k
<1>7. rem \in [1 .. 1 -> Seq(X)] /\ rem[1] = k /\ 1 \in 1 .. 1
  BY <1>0, <1>5
<1>8. Remains(rem, calls', K, X)
  <2>1. k \o <<>> = k
    BY <1>5, ConcatEmptySeq
  <2>2. rem[1] = Flat(calls'[1], K) \o Above(rem, 1)
    <3>1. Above(rem, 1) = <<>>
      BY DEF Above
    <3> QED BY <1>5, <1>6, <1>7, <2>1, <3>1
  <2>3. \A i \in 1 .. 1 : i = 1
    OBVIOUS
  <2> QED BY <1>6, <1>7, <2>2, <2>3 DEF Remains
<1>9. Written(doc') = <<>> /\ WrittenIn(doc', X) /\ <<>> \o k = k
  <2>1. Written(<<>>) = <<>>
    BY DEF Written
  <2>2. IsSequence(<<>>) /\ <<>> \in Seq(X)
    BY EmptySeq DEF IsSequence
  <2> QED BY <1>2, <1>5, <2>1, <2>2, ConcatEmptySeq DEF WrittenIn
<1>10. Writing(T, X, rem)'
  <2>1. HasTrees(T)'
    BY <1>1 DEF HasTrees
  <2>2. k = KeysIn(vec', T)[root'] /\ Remains(rem, calls', KeysIn(vec', T), X)
    BY <1>8 DEF k, K
  <2>3. Written(doc') \o rem[Len(calls')] = k
    BY <1>6, <1>7, <1>9
  <2>4. \A t \in T : KeyIn(vec', t) \in X
    BY <1>3
  <2> HIDE DEF k, K
  <2> QED BY <1>2, <1>3, <1>6, <1>9, <2>1, <2>2, <2>3, <2>4 DEF Writing
<1> QED BY <1>10

(* At the end they are all written.                                        *)
LEMMA WritingEnds ==
  ASSUME NEW T, NEW X, NEW rem, Writing(T, X, rem),
         Len(calls) = 1, Last(calls) = <<>>
  PROVE  Written(doc) = Keys(root)
<1> DEFINE K == KeysIn(vec, T)
<1>1. /\ HasTrees(T) /\ root \in T /\ Forest(T)
      /\ EndKey \in X /\ \A t \in T : KeyIn(vec, t) \in X
      /\ Remains(rem, calls, K, X) /\ WrittenIn(doc, X)
      /\ Written(doc) \o rem[1] = K[root] /\ calls[1] = <<>>
  BY DEF Writing, HasTrees, Last
<1>2. K \in [T -> Seq(X)]
  BY <1>1, KeysListing DEF IsListing
<1> DEFINE a == Written(doc)
<1>3. Len(doc) = Len(a)
  <2>1. DOMAIN a = 1 .. Len(doc) /\ Len(doc) \in Nat /\ a \in Seq(X)
    BY <1>1, SequenceLength DEF Written, WrittenIn, IsSequence
  <2> HIDE DEF a
  <2> QED BY <2>1, LenProperties
<1>6. Keys(root) = AllKeys(Symbols(root, Len(doc)))[root]
  BY DEF Keys
<1>7. AllKeys(Symbols(root, Len(K[root])))[root] = K[root]
  BY <1>1, KeysFound
<1> HIDE DEF K, a
<1>4. rem[1] = <<>>
  <2>1. Flat(<<>>, K) = <<>>
    <3>1. <<>> \in Seq(T)
      BY EmptySeq
    <3> QED BY <1>2, <3>1, FlatOf
  <2>2. rem[1] = <<>> \o <<>>
    BY <1>1, <2>1 DEF Remains, Above
  <2>3. <<>> \o <<>> = <<>>
    OBVIOUS
  <2> QED BY <2>2, <2>3
<1>5. a = K[root]
  <2>1. a \in Seq(X) /\ a \o <<>> = K[root]
    BY <1>1, <1>4 DEF a, WrittenIn
  <2> QED BY <2>1, ConcatEmptySeq
<1> QED BY <1>3, <1>5, <1>6, <1>7 DEF a
-----------------------------------------------------------------------------
(* The numbers of the terminals, and the file.                             *)
(*                                                                         *)
(* The terminals among the first entries of a document.                    *)
TerminalsIn(d, i) == {j \in 1 .. i : IsTerminal(d[j])}

Numbers(d) ==
  \A i \in DOMAIN d : IsTerminal(d[i]) => d[i][2] = Cardinality(TerminalsIn(d, i - 1))

Numbered ==
  /\ IsSequence(doc) /\ terminal_id = Cardinality(TerminalsIn(doc, Len(doc)))
  /\ Numbers(doc)

(* A terminal is written with the number of those before it.               *)
LEMMA NumbersGrow ==
  ASSUME NEW d, IsSequence(d), Numbers(d), NEW entry,
         IsTerminal(entry) => entry[2] = Cardinality(TerminalsIn(d, Len(d)))
  PROVE  LET e == Append(d, entry)
         IN  /\ IsSequence(e) /\ Numbers(e)
             /\ Cardinality(TerminalsIn(e, Len(e))) =
                  Cardinality(TerminalsIn(d, Len(d))) + (IF IsTerminal(entry) THEN 1 ELSE 0)
<1> DEFINE n == Len(d)
           e == Append(d, entry)
<1>1. /\ IsSequence(e) /\ Len(e) = n + 1 /\ (\A i \in 1 .. n : e[i] = d[i]) /\ e[n + 1] = entry
  BY AppendSequence
<1>2. n \in Nat /\ DOMAIN d = 1 .. n /\ DOMAIN e = 1 .. n + 1
  BY <1>1, SequenceLength DEF IsSequence
<1> HIDE DEF n, e
<1>3. ASSUME NEW i \in 0 .. n PROVE TerminalsIn(e, i) = TerminalsIn(d, i)
  <2>1. \A j \in 1 .. i : j \in 1 .. n
    BY <1>2
  <2> QED BY <1>1, <2>1 DEF TerminalsIn
<1>4. Numbers(e)
  <2> SUFFICES ASSUME NEW i \in 1 .. n + 1, IsTerminal(e[i])
               PROVE  e[i][2] = Cardinality(TerminalsIn(e, i - 1))
    BY <1>2 DEF Numbers
  <2>1. CASE i \in 1 .. n
    <3>1. i - 1 \in 0 .. n
      BY <1>2, <2>1
    <3>2. d[i][2] = Cardinality(TerminalsIn(d, i - 1))
      BY <1>1, <1>2, <2>1 DEF Numbers
    <3> QED BY <1>1, <1>3, <2>1, <3>1, <3>2
  <2>2. CASE i = n + 1
    <3>1. i - 1 = n /\ n \in 0 .. n
      BY <1>2, <2>2
    <3>2. entry[2] = Cardinality(TerminalsIn(d, n))
      BY <1>1, <2>2 DEF n
    <3> QED BY <1>1, <1>3, <2>2, <3>1, <3>2
  <2> QED BY <1>2, <2>1, <2>2
<1> DEFINE S == TerminalsIn(d, n)
<1>5. IsFiniteSet(S) /\ n + 1 \notin S /\ Cardinality(S) \in Nat
  <2>1. IsFiniteSet(1 .. n)
    BY <1>2, FS_Interval
  <2>2. S \in SUBSET (1 .. n)
    BY DEF TerminalsIn
  <2> QED BY <1>2, <2>1, <2>2, FS_Subset, FS_CardinalityType
<1>6. TerminalsIn(e, n + 1) = IF IsTerminal(entry) THEN S \cup {n + 1} ELSE S
  <2>1. n \in 0 .. n /\ \A j : j \in 1 .. n + 1 <=> j \in 1 .. n \/ j = n + 1
    BY <1>2
  <2>2. TerminalsIn(e, n) = S
    BY <1>3, <2>1
  <2>3. \A j : j \in TerminalsIn(e, n + 1) <=> (j \in TerminalsIn(e, n) \/ (j = n + 1 /\ IsTerminal(entry)))
    BY <1>1, <2>1 DEF TerminalsIn
  <2> HIDE DEF S
  <2> QED BY <2>2, <2>3
<1>7. Cardinality(TerminalsIn(e, n + 1)) = Cardinality(S) + (IF IsTerminal(entry) THEN 1 ELSE 0)
  <2> HIDE DEF S
  <2>1. Cardinality(S \cup {n + 1}) = Cardinality(S) + 1
    BY <1>5, FS_AddElement
  <2> QED BY <1>5, <1>6, <2>1
<1> QED BY <1>1, <1>4, <1>7 DEF n, e

LEMMA NumbersStart ==
  IsSequence(<<>>) /\ Numbers(<<>>) /\ Cardinality(TerminalsIn(<<>>, Len(<<>>))) = 0
<1>1. IsSequence(<<>>)
  <2>1. <<>> \in Seq({})
    OBVIOUS
  <2> QED BY <2>1 DEF IsSequence
<1>2. TerminalsIn(<<>>, 0) = {} /\ Len(<<>>) = 0 /\ DOMAIN <<>> = {}
  BY DEF TerminalsIn
<1> QED BY <1>1, <1>2, FS_EmptySet DEF Numbers

LEMMA NumberedKeeps ==
  ASSUME Numbered, [Next]_vars
  PROVE  Numbered'
<1>1. CASE UNCHANGED <<doc, terminal_id>>
  BY <1>1 DEF Numbered
<1>2. CASE StartDump
  <2>1. doc' = <<>> /\ terminal_id' = 0
    BY <1>2 DEF StartDump, Construct
  <2> QED BY <2>1, NumbersStart DEF Numbered
<1>3. CASE VisitTerminal
  <2> DEFINE entry == <<"terminal", terminal_id, Here.type, Here.text>>
  <2>1. doc' = Append(doc, entry) /\ terminal_id' = terminal_id + 1
    BY <1>3 DEF VisitTerminal
  <2>2. IsTerminal(entry) /\ entry[2] = terminal_id
    BY DEF IsTerminal
  <2> HIDE DEF entry
  <2>3. /\ IsSequence(doc') /\ Numbers(doc')
        /\ Cardinality(TerminalsIn(doc', Len(doc'))) =
             Cardinality(TerminalsIn(doc, Len(doc))) + (IF IsTerminal(entry) THEN 1 ELSE 0)
    BY <2>1, <2>2, NumbersGrow DEF Numbered
  <2> QED BY <2>1, <2>2, <2>3 DEF Numbered
<1>4. CASE VisitNonTerminal \/ ExitNonTerminal
  <2>1. PICK entry : /\ doc' = Append(doc, entry) /\ terminal_id' = terminal_id
                     /\ ~IsTerminal(entry)
    <3>1. CASE VisitNonTerminal
      <4> DEFINE entry == <<"symbol", Name(Here.type)>>
      <4>1. doc' = Append(doc, entry) /\ terminal_id' = terminal_id /\ ~IsTerminal(entry)
        BY <3>1 DEF VisitNonTerminal, IsTerminal
      <4> QED BY <4>1
    <3>2. CASE ExitNonTerminal
      <4>1. doc' = Append(doc, EndKey) /\ terminal_id' = terminal_id /\ ~IsTerminal(EndKey)
        BY <3>2 DEF ExitNonTerminal, IsTerminal, EndKey
      <4> QED BY <4>1
    <3> QED BY <1>4, <3>1, <3>2
  <2>2. Cardinality(TerminalsIn(doc, Len(doc))) \in Nat
    <3>1. Len(doc) \in Nat
      BY SequenceLength DEF Numbered
    <3>2. IsFiniteSet(1 .. Len(doc)) /\ TerminalsIn(doc, Len(doc)) \in SUBSET (1 .. Len(doc))
      BY <3>1, FS_Interval DEF TerminalsIn
    <3> QED BY <3>2, FS_Subset, FS_CardinalityType
  <2> QED BY <2>1, <2>2, NumbersGrow DEF Numbered
<1>5. CASE FinishDump
  BY <1>1, <1>5 DEF FinishDump, Destruct
<1>6. StartRun \/ ParseStep \/ ParseReturns \/ Visit \/ ExportIR \/ ExportObj \/ UNCHANGED vars =>
        UNCHANGED <<doc, terminal_id>>
  BY DEF StartRun, ParseStep, ParseReturns, Visit, ExportIR, ExportObj, vars, dumper
<1> QED BY <1>1, <1>2, <1>3, <1>4, <1>5, <1>6 DEF Next, Step, DumpStep, Walk

(* The file is complete only after the dumper has written all of the tree. *)
JsonInv ==
  /\ pc = "json" => \E T, X, rem : Writing(T, X, rem)
  /\ files["json"] = "complete" =>
       pc \notin {"parse", "dump", "json"} /\ Written(doc) = Keys(root)

LEMMA JsonKeeps ==
  ASSUME JsonInv, TreeInv, RunInv, [Next]_vars
  PROVE  JsonInv'
<1>1. CASE StartRun
  BY <1>1 DEF StartRun, JsonInv, Outputs
<1>2. CASE ParseStep \/ ParseReturns
  <2>1. pc = "parse" /\ files' = files /\ pc' # "json"
    BY <1>2 DEF ParseStep, ParseReturns, AfterDump, result
  <2> QED BY <2>1 DEF JsonInv
<1>3. CASE StartDump
  <2>1. pc = "dump" /\ pc' = "json" /\ Construct(root) /\ UNCHANGED <<vec, values, root>>
    BY <1>3 DEF StartDump, table, parser
  <2>2. files'["json"] # "complete"
    BY <1>3 DEF StartDump, RunInv, TypeOK, Outputs
  <2>3. root # NullSymbol
    BY <2>1 DEF RunInv, TypeOK
  <2>4. \E T, X, rem : Writing(T, X, rem)'
    BY <2>1, <2>3, WritingStarts
  <2> QED BY <2>2, <2>4 DEF JsonInv
<1>4. CASE DumpStep
  <2>1. pc = "json" /\ pc' = pc /\ Walk /\ UNCHANGED <<vec, values, root, files>>
    BY <1>4 DEF DumpStep, table, parser, result
  <2>2. PICK T, X, rem : Writing(T, X, rem)
    BY <2>1 DEF JsonInv
  <2>3. \E r : Writing(T, X, r)'
    BY <2>1, <2>2, WritingTerminal, WritingNonTerminal, WritingExit DEF Walk
  <2>4. files["json"] # "complete"
    BY <2>1 DEF JsonInv
  <2> QED BY <2>1, <2>3, <2>4 DEF JsonInv
<1>5. CASE FinishDump
  <2>1. /\ pc = "json" /\ Len(calls) = 1 /\ Last(calls) = <<>> /\ pc' \notin {"parse", "dump", "json"}
        /\ UNCHANGED <<vec, root, doc>>
    BY <1>5 DEF FinishDump, Destruct, AfterDump, table, parser
  <2>2. PICK T, X, rem : Writing(T, X, rem)
    BY <2>1 DEF JsonInv
  <2>3. Written(doc) = Keys(root)
    BY <2>1, <2>2, WritingEnds
  <2>4. (Written(doc) = Keys(root))'
    BY <2>1, <2>3 DEF Keys, AllKeys, Key, Name, Written
  <2> QED BY <2>1, <2>4 DEF JsonInv
<1>6. CASE Visit \/ ExportIR \/ ExportObj
  <2>1. /\ pc \notin {"parse", "dump", "json"} /\ pc' \notin {"parse", "dump", "json"}
        /\ UNCHANGED <<vec, root, doc>> /\ files'["json"] = files["json"]
    BY <1>6 DEF Visit, ExportIR, ExportObj, Export, table, parser, dumper, RunInv, TypeOK, Outputs
  <2> QED BY <2>1 DEF JsonInv, Keys, AllKeys, Key, Name, Written
<1>7. CASE UNCHANGED vars
  <2>1. UNCHANGED <<pc, files, vec, values, root, doc, calls>>
    BY <1>7 DEF vars, table, parser, dumper, result
  <2>2. (Written(doc) = Keys(root)) => (Written(doc) = Keys(root))'
    BY <2>1 DEF Keys, AllKeys, Key, Name, Written
  <2>3. \A T, X, rem : Writing(T, X, rem) => Writing(T, X, rem)'
    BY <2>1 DEF Writing, HasTrees
  <2> QED BY <2>1, <2>2, <2>3 DEF JsonInv
<1> QED BY <1>1, <1>2, <1>3, <1>4, <1>5, <1>6, <1>7 DEF Next, Step

(* What a complete JSON file has is the tree: each of its symbols once and *)
(* in its place, under the name that BUILD gave it, and the terminals      *)
(* numbered from 0 on in the order of the source.                          *)
THEOREM DumpsAreTrees == Spec => []DumpIsTree
<1>1. JsonInv /\ Numbered => DumpIsTree
  <2>1. Numbered => \A i \in DOMAIN doc : IsTerminal(doc[i]) =>
          doc[i][2] = Cardinality({j \in 1 .. i - 1 : IsTerminal(doc[j])})
    BY DEF Numbered, Numbers, TerminalsIn
  <2>2. JsonInv /\ files["json"] = "complete" => [i \in DOMAIN doc |-> KeyWritten(doc[i])] = Keys(root)
    BY DEF JsonInv, Written
  <2> QED BY <2>1, <2>2 DEF DumpIsTree
<1>2. Init => JsonInv /\ Numbered
  <2>1. Init => Numbered
    BY NumbersStart DEF Init, DumperInit, Numbered
  <2>2. Init => JsonInv
    BY DEF Init, JsonInv, Outputs
  <2> QED BY <2>1, <2>2
<1>3. JsonInv /\ Numbered /\ TreeInv /\ RunInv /\ [Next]_vars => (JsonInv /\ Numbered)'
  BY JsonKeeps, NumberedKeeps
<1>4. Spec => [](JsonInv /\ Numbered)
  BY <1>2, <1>3, TreeInvHolds, RunInvHolds, PTL DEF Spec
<1> QED BY <1>1, <1>4, PTL
=============================================================================
