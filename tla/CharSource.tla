----------------------------- MODULE CharSource -----------------------------
(***************************************************************************)
(* What the preprocessor and YY_INPUT promise the scanner together: a text *)
(* fixed from the start is given to it piece by piece, in order, and the   *)
(* end of the text is told once all of it has been given, and is told      *)
(* eventually.                                                             *)
(***************************************************************************)
EXTENDS Integers, Sequences

VARIABLES wanted, given, done

sourceState == <<wanted, given, done>>

SourceInit == given = <<>> /\ done = FALSE

Give ==
  /\ ~done
  /\ \E n \in Len(given) + 1 .. Len(wanted) : given' = SubSeq(wanted, 1, n)
  /\ UNCHANGED <<wanted, done>>

TellEnd ==
  /\ ~done /\ given = wanted
  /\ done' = TRUE
  /\ UNCHANGED <<wanted, given>>

SourceSteps == SourceInit /\ [][Give \/ TellEnd]_sourceState

SourceSpec == SourceSteps /\ WF_sourceState(Give \/ TellEnd)
=============================================================================
