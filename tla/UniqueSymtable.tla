--------------------------- MODULE UniqueSymtable ---------------------------
(***************************************************************************)
(* UniqueSymtable, and FrontEnv::Tag and Untag, which are its Insert and   *)
(* Get on the one table of the process: names are numbered from 1 on in a  *)
(* uint16_t, and 0 means that a name is not there.                         *)
(***************************************************************************)
EXTENDS Naturals, Sequences, FiniteSets

CONSTANTS
  Names,        (* the names of the symbols in the grammar, 68 in c.y      *)
  IdModulus     (* 2^16: ids are kept modulo it                            *)

ASSUME IdModulusAssumption == IdModulus \in Nat
ASSUME NamesAssumption == IsFiniteSet(Names) /\ Cardinality(Names) < IdModulus

VARIABLES
  vec,          (* vec_: the name of id i is vec[i]                        *)
  map           (* map_: the ids of names                                  *)

TableInit == vec = <<>> /\ map = [n \in {} |-> 0]

(* Get(key) and Get(id).                                                   *)
Id(key) == IF key \in DOMAIN map THEN map[key] ELSE 0
Name(id) == vec[id]

(* Mutant: the id is the size before the name is appended. *)
Insert_OldSize(key) ==
  IF Id(key) > 0 THEN UNCHANGED <<vec, map>>
  ELSE /\ vec' = Append(vec, key)
       /\ map' = [n \in DOMAIN map \cup {key} |-> IF n \in DOMAIN map THEN map[n] ELSE Len(vec)]

(* map_.insert() keeps what it has of a name.                              *)
Insert(key) ==
  IF Id(key) > 0 THEN UNCHANGED <<vec, map>>
  ELSE /\ vec' = Append(vec, key)
       /\ map' = [n \in DOMAIN map \cup {key} |->
                    IF n \in DOMAIN map THEN map[n] ELSE Len(vec') % IdModulus]

TableNext == \E key \in Names : Insert(key)

TableSpec == TableInit /\ [][TableNext]_<<vec, map>>
-----------------------------------------------------------------------------
(* Tags stand for names: each name of the table has its own, and Untag     *)
(* finds the name that was tagged.                                         *)
TagsDenoteNames ==
  /\ vec \in Seq(Names)
  /\ DOMAIN map = {vec[i] : i \in DOMAIN vec}
  /\ \A i \in DOMAIN vec : map[vec[i]] = i

(* With the ids as the numbers of the names, the table is an interner.     *)
Tags == INSTANCE Interner WITH tag <- map
ImplementsInterner == Tags!Spec
=============================================================================
