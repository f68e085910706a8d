------------------------------- MODULE Lines -------------------------------
(***************************************************************************)
(* What PreprocessorImpl::ReadLine leaves in buffer_ for one line of a     *)
(* source file, as a function of two facts about the line: the number of   *)
(* characters before its end, and whether '\n' (nl = TRUE) or the end of   *)
(* the stream (nl = FALSE) ended it.  LineBuffer.tla shows that the loop   *)
(* of getline() calls computes these values; Preprocessor.tla uses them.   *)
(***************************************************************************)
EXTENDS Integers

(* Characters getline() has extracted when it returns the whole line:      *)
(* gcount() includes the delimiter.                                        *)
Extracted(len, nl) == IF nl THEN len + 1 ELSE len

(* "good() && write_cursor_ > 1": shorter lines are left without '\n'.     *)
Completed(len, nl) == Extracted(len, nl) > 1

(* The value of write_cursor_ after ReadLine.                              *)
Width(len, nl) ==
  IF Completed(len, nl) THEN len + 1 ELSE Extracted(len, nl)
=============================================================================
