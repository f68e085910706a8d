-------------------------- MODULE MCFunctionTable --------------------------
(***************************************************************************)
(* TLC instances of FunctionTable: parameter lists of up to two types, for *)
(* every kind of type the rule tells apart.                                *)
(***************************************************************************)
EXTENDS FunctionTable, SequencesExt

LOCAL T(base, depth) == [base |-> base, depth |-> depth]

MCTypes == {T("int", 0), T("char", 0), T("float", 0), T("double", 0), T("int", 1)}
MCArgLists == {<<>>} \cup {<<t>> : t \in MCTypes} \cup
              {<<s, t>> : s \in {T("int", 0), T("float", 0)}, t \in MCTypes}
=============================================================================
