----------------------------- MODULE Expansion -----------------------------
(***************************************************************************)
(* What preprocessing a source means: the text of the file with every      *)
(* #include line replaced by the text of the header, without the lines of  *)
(* conditional groups whose condition is false.  Conditionals nest.  This  *)
(* is the reference Preprocessor.tla is compared with; it is written from  *)
(* the meaning of the directives and not from the code's loop.             *)
(***************************************************************************)
EXTENDS Integers, Sequences, Lines

(* What a walk through the lines has come to: the text so far, the macros  *)
(* defined and the conditions of the groups it is in.                      *)
Place(disk) == [file : DOMAIN disk, no : Nat, col : Nat]
Names(disk) == UNION {{disk[f][n].arg : n \in DOMAIN disk[f]} : f \in DOMAIN disk}
Walked(disk) ==
  [text : Seq(Place(disk)), macros : SUBSET Names(disk), groups : Seq(BOOLEAN)]

NothingWalked == [text |-> <<>>, macros |-> {}, groups |-> <<>>]

Skipping(s) == \E i \in 1 .. Len(s.groups) : ~s.groups[i]

InGroup(s, condition) == [s EXCEPT !.groups = Append(@, condition)]

EndGroup(s) ==
  IF s.groups = <<>> THEN s
  ELSE [s EXCEPT !.groups = SubSeq(@, 1, Len(@) - 1)]

(* The text of line n of file f, character by character. *)
LineText(f, n, line) ==
  [c \in 1 .. Width(line.len, line.nl) |-> [file |-> f, no |-> n, col |-> c]]

(* A walk maps a file and what was walked before it to what was walked     *)
(* after it; this one goes through no file.                                *)
NoWalk(disk) == [p \in (DOMAIN disk) \X Walked(disk) |-> p[2]]

(* What line n of f makes of s, when header is the walk of the files it    *)
(* can include.                                                            *)
AfterLine(disk, header, f, n, s) ==
  LET line == disk[f][n]
  IN  CASE line.kind = "endif" -> EndGroup(s)
        [] line.kind = "ifdef" -> InGroup(s, line.arg \in s.macros)
        [] line.kind = "ifndef" -> InGroup(s, line.arg \notin s.macros)
        [] line.kind = "define" /\ ~Skipping(s) ->
             [s EXCEPT !.macros = @ \cup {line.arg}]
        [] line.kind = "include" /\ ~Skipping(s) /\ line.arg \in DOMAIN disk ->
             header[<<line.arg, s>>]
        [] line.kind = "text" /\ ~Skipping(s) ->
             [s EXCEPT !.text = @ \o LineText(f, n, line)]
        [] OTHER -> s

(* The walk through the last k lines of a file. *)
LastLines(disk, header) ==
  LET walk[k \in Nat] ==
        [p \in (DOMAIN disk) \X Walked(disk) |->
           LET n == Len(disk[p[1]]) - k + 1
           IN  IF k = 0 \/ n < 1 THEN p[2]
               ELSE walk[k - 1][<<p[1], AfterLine(disk, header, p[1], n, p[2])>>]]
  IN  walk

(* The walk through a file when no more than room files can be open at the *)
(* same time, the file included.                                           *)
FileWalk(disk) ==
  LET walk[room \in Nat] ==
        IF room = 0 THEN NoWalk(disk)
        ELSE [p \in (DOMAIN disk) \X Walked(disk) |->
                LastLines(disk, walk[room - 1])[Len(disk[p[1]])][p]]
  IN  walk

Expanded(disk, f, room) ==
  IF f \in DOMAIN disk THEN FileWalk(disk)[room][<<f, NothingWalked>>].text
  ELSE <<>>
=============================================================================
