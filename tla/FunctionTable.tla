--------------------------- MODULE FunctionTable ---------------------------
(***************************************************************************)
(* The function table of one scope while the functions of a program are    *)
(* declared, one after another.  Calls only read it: what Get() answers is *)
(* looked at in every state, for all arguments.                            *)
(***************************************************************************)
EXTENDS Overloads

CONSTANTS
  Names,        (* names of functions                                      *)
  ArgLists,     (* the parameter lists that are declared, and called with  *)
  MaxDeclared   (* bound: declarations                                     *)

ASSUME ArgListsAssumption == ArgLists \subseteq Seq(Type)

VARIABLES
  table,        (* table_: the functions of a name                         *)
  declared      (* history: all functions declared, in order               *)

vars == <<table, declared>>

Init ==
  /\ table = [n \in Names |-> <<>>]
  /\ declared = <<>>

(* Mutant: the number of the previous declaration. *)
Declared_Previous(args, varargs) ==
  [args |-> args, varargs |-> varargs, value |-> Len(declared)]

Declared(args, varargs) ==
  [args |-> args, varargs |-> varargs, value |-> Len(declared) + 1]

Insert(n, args, varargs) ==
  /\ Len(declared) < MaxDeclared
  /\ varargs => args # <<>>
  /\ table' = [table EXCEPT ![n] = Inserted(@, Declared(args, varargs))]
  /\ declared' = Append(declared, [name |-> n, args |-> args, varargs |-> varargs])

Next ==
  \E n \in Names, args \in ArgLists, varargs \in BOOLEAN : Insert(n, args, varargs)

Spec == Init /\ [][Next]_vars
-----------------------------------------------------------------------------
(* The functions of the table are functions that were declared. *)
TypeOK ==
  /\ declared \in Seq([name : Names, args : ArgLists, varargs : BOOLEAN])
  /\ table \in [Names -> Seq(Function)]
  /\ \A n \in Names : \A i \in DOMAIN table[n] :
       LET f == table[n][i]
       IN  /\ f.value \in DOMAIN declared
           /\ declared[f.value] =
                [name |-> n, args |-> f.args, varargs |-> f.varargs]

(* The visitor's assert(arg_size() == args.size() || varargs), and that it *)
(* may take args[i] of the function for each argument of the call: however *)
(* Get() came to its answer, a function without "..." has as many          *)
(* parameters as the call has arguments.                                   *)
ArityMatches ==
  \A n \in Names, args \in ArgLists :
    LET r == Get(table[n], args)
    IN  r # 0 /\ ~table[n][r].varargs => Len(table[n][r].args) = Len(args)

(* Once a call of f(args) has an exact match or a function with "...", no  *)
(* later declaration changes what it means.                                *)
EarlyBindingStable ==
  [][\A n \in Names, args \in ArgLists :
       Direct(table[n], args) # {} =>
         Get(table'[n], args) = Get(table[n], args)]_vars

(* The parameter lists declared for the name n.                            *)
Signatures(n) ==
  {declared[i].args : i \in {j \in DOMAIN declared : declared[j].name = n}}

Casts(args, params) ==
  Len(params) = Len(args) /\ \A k \in DOMAIN args : Castable(args[k], params[k])

(* The comment on global_: "match rule: if no exact match, choose unique   *)
(* castable, or raise an ambiguity error".  s is the parameter list of the *)
(* function to be called, if there is one.                                 *)
Matches(n, args, s) ==
  IF args \in Signatures(n) THEN s = args
  ELSE {p \in Signatures(n) : Casts(args, p)} = {s}

FollowsRule(n, args) ==
  LET r == Get(table[n], args)
  IN  /\ r # 0 => Matches(n, args, table[n][r].args)
      /\ r = 0 => ~\E s \in Signatures(n) : Matches(n, args, s)

(* No function of the name takes "...", and its parameter lists and the    *)
(* arguments are not told apart by the width of an integer alone.          *)
Plain(n, args) ==
  /\ \A i \in DOMAIN declared : declared[i].name = n => ~declared[i].varargs
  /\ \A s, t \in Signatures(n) \cup {args} : Tag(s) = Tag(t) => s = t

(* Then Get() follows the match rule, for all the functions declared and   *)
(* not only those in the table, in whatever order they were declared.      *)
MatchRule ==
  \A n \in Names, args \in ArgLists : Plain(n, args) => FollowsRule(n, args)
=============================================================================
