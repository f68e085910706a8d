----------------------------- MODULE Overloads -----------------------------
(***************************************************************************)
(* Types as TypeChecker and FunctionTable see them, which implicit casts   *)
(* there are, and how FunctionTable chooses a function for the arguments   *)
(* of a call.  A type is a base type and a number of '*'s; LLVM keeps one  *)
(* object for each type, so comparing llvm::Type pointers compares types.  *)
(***************************************************************************)
EXTENDS Integers, Sequences

Integral == {"int", "char", "bool"}
Bases == Integral \cup {"float", "double", "void"}
Type == [base : Bases, depth : Nat]

(* The TypeID of the LLVM type, under the name ToString() gives it.        *)
BaseID(base) ==
  CASE base \in Integral -> "IntegerTy"
    [] base = "float"    -> "FloatTy"
    [] base = "double"   -> "DoubleTy"
    [] OTHER             -> "VoidTy"

TypeID(t) == IF t.depth > 0 THEN "PointerTy" ELSE BaseID(t.base)

(* Tag(): ToString() of each argument.  All integers have the same name,   *)
(* and so have pointers to them.                                           *)
Tag(args) == [i \in DOMAIN args |-> <<BaseID(args[i].base), args[i].depth>>]

Castable(from, to) ==
  \/ from = to
  \/ TypeID(from) = "IntegerTy"
  \/ TypeID(from) = "FloatTy" /\ TypeID(to) # "IntegerTy"

(* CastTo() without _explicit: the value itself, an instruction, one that  *)
(* LLVM does not allow, or the null pointer.  CreateIntCast() goes by the  *)
(* sizes: an int, which is as wide as a float, is turned into one bit by   *)
(* bit, anything else that is no integer cannot be made of an integer.     *)
CastTo(from, to) ==
  CASE from = to -> "same"
    [] from # to /\ TypeID(from) = "IntegerTy" ->
         IF TypeID(to) = "IntegerTy" \/ <<from.base, TypeID(to)>> = <<"int", "FloatTy">>
         THEN "cast" ELSE "illegal"
    [] from # to /\ TypeID(from) = "FloatTy" ->
         IF TypeID(to) = "DoubleTy" THEN "cast" ELSE "illegal"
    [] OTHER -> "null"

(* CastTo() with _explicit, as initializers use it: pointers and integers  *)
(* are converted too.                                                      *)
CastExplicitly(from, to) ==
  IF from # to /\ <<TypeID(from), TypeID(to)>> \in
       {<<"PointerTy", "PointerTy">>, <<"PointerTy", "IntegerTy">>, <<"IntegerTy", "PointerTy">>}
  THEN "cast" ELSE CastTo(from, to)

(* A FunctionIdentifier: parameters, "...", and the LLVM function, here    *)
(* the number of the declaration that made it.                             *)
Function == [args : Seq(Type), varargs : BOOLEAN, value : Nat]
-----------------------------------------------------------------------------
(* Mutant: a function is added whatever there is. *)
Inserted_KeepsDuplicates(v, f) == Append(v, f)

(* Mutant: new functions are put in front. *)
Inserted_InFront(v, f) ==
  IF \E i \in DOMAIN v : Tag(v[i].args) = Tag(f.args) THEN v ELSE <<f>> \o v

(* FunctionTable::Insert, on the functions v of one name: a function with  *)
(* the tag of an earlier one is not added ("duplicate", which no caller    *)
(* looks at).                                                              *)
Inserted(v, f) ==
  IF \E i \in DOMAIN v : Tag(v[i].args) = Tag(f.args) THEN v ELSE Append(v, f)

(* What the first loop of Get() stops at.                                  *)
Direct(v, args) ==
  {i \in DOMAIN v : v[i].varargs \/ Tag(v[i].args) = Tag(args)}

(* Mutant: the number of the arguments is not compared. *)
Fitting_AnyArity(v, args) ==
  {i \in DOMAIN v :
     \A k \in DOMAIN args \cap DOMAIN v[i].args : Castable(args[k], v[i].args[k])}

(* What the second loop counts.                                            *)
Fitting(v, args) ==
  {i \in DOMAIN v :
     /\ Len(v[i].args) = Len(args)
     /\ \A k \in DOMAIN args : Castable(args[k], v[i].args[k])}

First(indices) == CHOOSE i \in indices : \A j \in indices : i <= j

(* FunctionTable::Get: the index of the function, or 0 for "ambiguous      *)
(* match" and NotFound, which its callers treat alike.                     *)
Get(v, args) ==
  IF Direct(v, args) # {} THEN First(Direct(v, args))
  ELSE IF \E i \in DOMAIN v : Fitting(v, args) = {i}
  THEN CHOOSE i \in DOMAIN v : Fitting(v, args) = {i}
  ELSE 0
=============================================================================
