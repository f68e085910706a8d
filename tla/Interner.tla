------------------------------ MODULE Interner ------------------------------
(***************************************************************************)
(* What the parser and the visitors rely on when they put a tag where a    *)
(* name of the grammar is meant: a name gets a number when it is first     *)
(* used, no two names the same one, and keeps it as long as the program    *)
(* runs.  0 is the number of no name.                                      *)
(***************************************************************************)
EXTENDS Naturals

CONSTANT Names

VARIABLE tag    (* the numbers of the names used so far                    *)

Init == tag = [n \in {} |-> 0]

Use(n) ==
  /\ n \notin DOMAIN tag
  /\ DOMAIN tag' = DOMAIN tag \cup {n}
  /\ tag'[n] \in Nat \ {0}
  /\ \A m \in DOMAIN tag : tag'[m] = tag[m] /\ tag[m] # tag'[n]

Next == \E n \in Names : Use(n)

Spec == Init /\ [][Next]_tag
=============================================================================
