--------------------------- MODULE MCScannerInput ---------------------------
(***************************************************************************)
(* TLC instances of ScannerInput.                                          *)
(***************************************************************************)
EXTENDS ScannerInput

MCMacros == {"A"}
MCFiles == {"main.c", "b.c", "a.h"}
MCSources == {<<>>, <<"main.c">>, <<"b.c">>}

LOCAL Text(len, nl) == [kind |-> "text", arg |-> "none", len |-> len, nl |-> nl]
LOCAL Directive(k, a) == [kind |-> k, arg |-> a, len |-> 2, nl |-> TRUE]
LOCAL Include == Directive("include", "a.h")

(* b.c is missing; headers may include themselves until no file can be     *)
(* opened.  No condition is false: Preprocessor's runs are about that.     *)
MCFileSystems ==
  {("main.c" :> m) @@ ("a.h" :> h) :
     m \in {<<>>, <<Text(1, FALSE)>>, <<Text(0, TRUE), Include>>,
            <<Include, Text(2, TRUE), Text(1, FALSE)>>,
            <<Text(1, TRUE), Text(0, TRUE), Directive("define", "A"),
              Text(2, TRUE), Text(1, FALSE)>>,
            <<Directive("define", "A"), Directive("ifdef", "A"), Text(1, TRUE)>>},
     h \in {<<>>, <<Text(1, TRUE)>>, <<Text(2, FALSE)>>,
            <<Text(0, TRUE), Include, Text(0, TRUE)>>}}

(* The files of the violation run. *)
BadHeaderFiles ==
  {("main.c" :> <<Text(1, TRUE), Directive("include_bad", "none")>>)}
=============================================================================
