---------------------------- MODULE MCLineBuffer ----------------------------
(***************************************************************************)
(* TLC instance of LineBuffer.  The initial size is 4 instead of 16, so a  *)
(* line of 20 characters forces up to three doublings, and every length    *)
(* around each capacity occurs, after every sequence of earlier lines.     *)
(***************************************************************************)
EXTENDS LineBuffer

MCLengths == 0 .. 20
=============================================================================
