----------------------------- MODULE LineBuffer -----------------------------
(***************************************************************************)
(* The second half of PreprocessorImpl::ReadLine: the loop that reads one  *)
(* line of a stream into buffer_ with istream::getline(), doubling the     *)
(* buffer when the line does not fit, and the code after the loop that     *)
(* completes the line with '\n' and a terminating '\0'.                    *)
(*                                                                         *)
(* buffer is the vector buffer_, indexed from 1 here and from 0 in the     *)
(* code: buffer_[i] is buffer[i + 1].  A character is the index of the     *)
(* character in its line (1 .. len), NL, NUL, or Stale, whatever an        *)
(* earlier line left behind; a read that mixes up two places is therefore  *)
(* always visible.  Reader reads one line after another with the same      *)
(* buffer, as ReadLine does.                                               *)
(***************************************************************************)
EXTENDS Integers, Sequences, Lines

CONSTANTS
  InitSize,   (* buffer_init_size_, 16 in the code                         *)
  Lengths     (* the lengths of the lines that may be read                 *)

NL    == 0
NUL   == -1
Stale == -2

ASSUME InitSizeAssumption == InitSize \in Nat /\ InitSize >= 2
ASSUME LengthsAssumption  == Lengths \subseteq Nat

VARIABLES
  buffer,        (* buffer_                                                *)
  write_cursor,  (* write_cursor_                                          *)
  len, nl,       (* the line being read: its length, ended by '\n' or eof  *)
  taken,         (* characters of the line extracted from the stream       *)
  pc             (* "idle", "getline" (in the loop), "append" or "end"     *)

vars == <<buffer, write_cursor, len, nl, taken, pc>>

Char == {NL, NUL, Stale} \cup Nat

Init ==
  /\ buffer = [i \in 1 .. InitSize |-> NUL]
  /\ write_cursor = 0
  /\ len = 0 /\ nl = TRUE /\ taken = 0
  /\ pc = "idle"

(* Mutant: the buffer is cut down to what the last line used. *)
StartLine_ShrinksBuffer ==
  /\ pc = "idle" /\ nl
  /\ len' \in Lengths /\ nl' \in BOOLEAN
  /\ buffer' = [i \in 1 .. write_cursor + 1 |-> Stale]
  /\ write_cursor' = 0
  /\ taken' = 0
  /\ pc' = "getline"

(* A new line is asked for: write_cursor_ = 0, and what the buffer holds   *)
(* is of no use any more.  No line follows one that ended the stream; a    *)
(* stream whose last character is '\n' ends with an empty read, the line   *)
(* with len = 0 and nl = FALSE.                                            *)
StartLine ==
  /\ pc = "idle" /\ nl
  /\ len' \in Lengths /\ nl' \in BOOLEAN
  /\ buffer' = [i \in 1 .. Len(buffer) |-> Stale]
  /\ write_cursor' = 0
  /\ taken' = 0
  /\ pc' = "getline"

(* Room for n - 1 characters and the '\0' getline() stores after them.     *)
Room == Len(buffer) - write_cursor

(* What getline() does to the buffer when it stores k characters.          *)
Stored(k) ==
  [i \in 1 .. Len(buffer) |->
     IF i <= write_cursor THEN buffer[i]
     ELSE IF i <= write_cursor + k THEN taken + (i - write_cursor)
     ELSE IF i = write_cursor + k + 1 THEN NUL
     ELSE buffer[i]]

(* Mutant: the buffer is not resized. *)
GetlineChunk_NoResize ==
  /\ pc = "getline"
  /\ len - taken > Room - 1
  /\ buffer' = Stored(Room - 1)
  /\ write_cursor' = Len(buffer) - 1
  /\ taken' = taken + (Room - 1)
  /\ UNCHANGED <<len, nl, pc>>

(* Mutant: write_cursor_ = buffer_.size(), behind the '\0'. *)
GetlineChunk_BehindNul ==
  /\ pc = "getline"
  /\ len - taken > Room - 1
  /\ buffer' = Stored(Room - 1) \o [i \in 1 .. Len(buffer) |-> NUL]
  /\ write_cursor' = Len(buffer)
  /\ taken' = taken + (Room - 1)
  /\ UNCHANGED <<len, nl, pc>>

(* The line does not fit: getline() stores Room - 1 characters and sets    *)
(* failbit.  The code clears the bit, moves write_cursor_ onto the '\0'    *)
(* and doubles the buffer.                                                 *)
GetlineChunk ==
  /\ pc = "getline"
  /\ len - taken > Room - 1
  /\ LET chunk == Stored(Room - 1)
     IN  buffer' = [i \in 1 .. 2 * Len(buffer) |->
                      IF i <= Len(buffer) THEN chunk[i] ELSE NUL]
  /\ write_cursor' = Len(buffer) - 1
  /\ taken' = taken + (Room - 1)
  /\ UNCHANGED <<len, nl, pc>>

(* The rest of the line fits: getline() stores it, extracts the '\n' or    *)
(* meets the end of the stream, and the loop is left.                      *)
GetlineLast ==
  /\ pc = "getline"
  /\ len - taken <= Room - 1
  /\ buffer' = Stored(len - taken)
  /\ write_cursor' = write_cursor + Extracted(len - taken, nl)
  /\ taken' = len
  /\ pc' = "append"
  /\ UNCHANGED <<len, nl>>

(* buffer_[i] = c for an i inside the vector, push_back for the next one.  *)
Put(b, i, c) == IF i > Len(b) THEN Append(b, c) ELSE [b EXCEPT ![i] = c]

(* Mutant: the terminating '\0' is not appended. *)
AppendEnd_NoNul ==
  /\ pc = "append"
  /\ pc' = "idle"
  /\ IF write_cursor > 1
     THEN LET wc == IF buffer[write_cursor] = NUL THEN write_cursor
                    ELSE write_cursor + 1
          IN  write_cursor' = wc /\ buffer' = Put(buffer, wc, NL)
     ELSE UNCHANGED <<buffer, write_cursor>>
  /\ UNCHANGED <<len, nl, taken>>

(* Mutant: '\n' goes behind the '\0' that getline() stored. *)
AppendEnd_KeepNul ==
  /\ pc = "append"
  /\ pc' = "idle"
  /\ IF write_cursor > 1
     THEN /\ write_cursor' = write_cursor + 1
          /\ buffer' = Put(Put(buffer, write_cursor + 1, NL), write_cursor + 2, NUL)
     ELSE UNCHANGED <<buffer, write_cursor>>
  /\ UNCHANGED <<len, nl, taken>>

(* "append '\n'" and "append '\0'", for lines of more than one character.  *)
AppendEnd ==
  /\ pc = "append"
  /\ pc' = "idle"
  /\ IF write_cursor > 1
     THEN LET last == write_cursor
              wc   == IF buffer[last] = NUL THEN last ELSE last + 1
          IN  /\ write_cursor' = wc
              /\ buffer' = Put(Put(buffer, wc, NL), wc + 1, NUL)
     ELSE UNCHANGED <<buffer, write_cursor>>
  /\ UNCHANGED <<len, nl, taken>>

(* A line is asked for, but the last one has ended the stream: ReadLine    *)
(* sets eof_ and returns before its loop.                                  *)
Finish ==
  /\ pc = "idle" /\ ~nl
  /\ write_cursor' = 0
  /\ pc' = "end"
  /\ UNCHANGED <<buffer, len, nl, taken>>

Next == StartLine \/ GetlineChunk \/ GetlineLast \/ AppendEnd \/ Finish

Spec == Init /\ [][Next]_vars /\ WF_vars(GetlineChunk \/ GetlineLast \/ AppendEnd)
-----------------------------------------------------------------------------
(* The values of the variables. *)
TypeOK ==
  /\ buffer \in Seq(Char) /\ Len(buffer) >= InitSize
  /\ write_cursor \in Nat
  /\ len \in Nat /\ nl \in BOOLEAN /\ taken \in Nat
  /\ pc \in {"idle", "getline", "append", "end"}

(* getline() is always given room for a character besides its '\0': with   *)
(* none, gcount() would be 0, the test in the loop would take the failure  *)
(* for the end of the line and the rest of the line would be lost.         *)
RoomForProgress == pc = "getline" => Room >= 2

(* Once a line has been read, every index ProcessLine and get() use lies   *)
(* in the vector: ProcessLine looks at buffer_[read] before it compares    *)
(* read with write_cursor_, so even buffer_[write_cursor_] must exist.     *)
CursorInBuffer == pc \in {"idle", "end"} => write_cursor < Len(buffer)

(* However often the buffer was doubled, the line is in it in order,       *)
(* without a gap, a repetition or something an earlier line left.          *)
ContentPreserved ==
  pc \in {"append", "idle", "end"} => \A i \in 1 .. len : buffer[i] = i

(* The length of the result is the one Preprocessor.tla assumes, and a     *)
(* completed line is followed by '\n' and the '\0' that stops the scans    *)
(* of StringUtil::identifier.                                              *)
LineCompleted ==
  pc = "idle" =>
    /\ write_cursor = Width(len, nl) \/ taken = 0
    /\ Completed(len, nl) =>
         /\ write_cursor = len + 1
         /\ buffer[len + 1] = NL /\ buffer[len + 2] = NUL

(* The loop ends: every line that is started is read to its end.           *)
LineIsRead == pc = "getline" ~> pc \in {"idle", "end"}
=============================================================================
