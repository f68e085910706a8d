--------------------------- MODULE MCPreprocessor ---------------------------
(***************************************************************************)
(* TLC instances of Preprocessor: what is on disk.                         *)
(***************************************************************************)
EXTENDS Preprocessor

CONSTANT MainLines, HeaderLines  (* how many lines the files may have      *)

MCMacros == {"A", "B"}

Text(len, nl)  == [kind |-> "text", arg |-> "none", len |-> len, nl |-> nl]
Directive(k, a) == [kind |-> k, arg |-> a, len |-> 2, nl |-> TRUE]
Unended(line)  == [line EXCEPT !.nl = FALSE]

(* Lines that occur in a file; a file may also end without '\n'. *)
Contents(lines, n) ==
  LET full == UNION {[1 .. k -> lines] : k \in 0 .. n}
  IN  full \cup {[c EXCEPT ![Len(c)] = Unended(c[Len(c)])] :
                   c \in {x \in full : x # <<>> /\ x[Len(x)].len > 0}}

(* One source and a header: conditionals, definitions, blank lines.        *)
Conditionals == {Directive(k, "A") : k \in {"define", "ifdef", "ifndef", "endif"}}
ConditionalFileSystems ==
  LET main == {Text(1, TRUE), Text(0, TRUE), Directive("include", "a.h")} \cup Conditionals
      header == {Text(2, TRUE)} \cup Conditionals
  IN  {("main.c" :> m) : m \in Contents(main, MainLines)} \cup
      {("main.c" :> m) @@ ("a.h" :> h) :
         m \in {c \in Contents(main, MainLines) : Directive("include", "a.h") \in Range(c)},
         h \in Contents(header, HeaderLines)}

(* Two sources, headers that include each other and themselves, headers    *)
(* that do not exist, and #include lines that are not valid.               *)
NestedFileSystems ==
  LET inc(h) == Directive("include", h)
      header(n) == Contents({Text(1, TRUE), inc("a.h"), inc("b.h")}, n)
      main == {<<inc("b.h"), inc("a.h")>>,
               <<inc("a.h"), Directive("include_bad", "none"), Text(1, TRUE)>>,
               <<inc("a.h"), Directive("include_empty", "none")>>}
  IN  {("main.c" :> <<inc("a.h"), Text(1, TRUE)>>) @@ ("b.c" :> <<Text(1, TRUE)>>)
         @@ ("a.h" :> a) : a \in header(2)}
      \cup
      {("main.c" :> m) @@ ("a.h" :> a) @@ ("b.h" :> b) :
         m \in main, a \in header(2), b \in header(1)}

MCFiles == {"main.c", "b.c", "a.h", "b.h"}
MCSources == {<<>>, <<"main.c", "b.c">>}

(* Files that can be opened but not read to their end.                     *)
UnreadableFileSystems ==
  LET error == Directive("ioerror", "none")
  IN  {("main.c" :> <<error>>), ("main.c" :> <<Text(1, TRUE), error, Text(1, TRUE)>>),
       ("main.c" :> <<Directive("include", "a.h"), Text(1, TRUE)>>)
          @@ ("a.h" :> <<Text(1, TRUE), error>>)}

MCFileSystems == ConditionalFileSystems \cup NestedFileSystems \cup UnreadableFileSystems

(* The files of the violation run. *)
OmitFileSystems ==
  {("main.c" :> <<Directive("ifdef", "A"), Text(1, TRUE),
                  Directive("endif", "none"), Text(2, TRUE)>>)}
-----------------------------------------------------------------------------
(* A group that is left out ends at its #endif, as in the text of the      *)
(* ConditionalMacro test: what follows the #endif is delivered.            *)
EndifEndsOmission ==
  eof /\ source_fs.state = "open" => out = Expected
=============================================================================
