--------------------------- MODULE SourceMeaning ---------------------------
(***************************************************************************)
(* What the program means whose tree is walked: for every function, the    *)
(* stores, calls and outcomes of conditions of each way through it.  It    *)
(* follows the same walk as the visitor, but keeps the scopes and branches *)
(* of C and none of the visitor's own state.  A `while' is taken once or   *)
(* not at all; the value a variable has without an initializer is not part *)
(* of the meaning.                                                         *)
(***************************************************************************)
EXTENDS IR, Functions

(* terms     the operands of the expression that is being read             *)
(* scopes    the variables of each scope around this place, the global one *)
(*           first; params: those that the next block takes over           *)
(* declared  the name declared last                                        *)
(* open      the ways that lead here; done: those that have returned       *)
(* forks     for every statement around this place that branches, the ways *)
(*           through its first branch, and those that do not take it       *)
(* nested    whether a statement that branches is in a branch of another   *)
(* valid     whether every name is declared, and only once in its scope    *)
(* meant     the meanings of the functions read so far                     *)
(* ellipsis  whether the parameters read last end with "..."; variadic:    *)
(*           that, for each function declared so far                       *)
Nothing ==
  [terms |-> <<>>, scopes |-> <<<<>>>>, params |-> <<>>, declared |-> <<>>,
   open |-> {}, done |-> {}, forks |-> <<>>, nested |-> FALSE, valid |-> TRUE, meant |-> <<>>,
   ellipsis |-> FALSE, variadic |-> <<>>]

Plus(s, effect) == {Append(w, effect) : w \in s.open}

DropLast(seq, n) == SubSeq(seq, 1, Len(seq) - n)

InScope(s, n) == {i \in DOMAIN s.scopes : n \in DOMAIN s.scopes[i]}

Innermost(s, n) == s.scopes[CHOOSE i \in InScope(s, n) : \A j \in InScope(s, n) : j <= i][n]

Declare(s) ==
  LET n == s.declared[2]
  IN  IF n \in DOMAIN Last(s.scopes) THEN [s EXCEPT !.valid = FALSE]
      ELSE [s EXCEPT !.scopes[Len(s.scopes)] =
              [m \in DOMAIN @ \cup {n} |-> IF m = n THEN s.declared ELSE @[m]]]

-----------------------------------------------------------------------------
(* A terminal: the name or constant n at a place in the source.            *)
ReadTerminal(s, use, n, place) ==
  CASE use = "constant" -> [s EXCEPT !.terms = Append(@, <<"const", place>>)]
    [] use = "callee"   -> [s EXCEPT !.terms = Append(@, <<"callee", n>>)]
    [] use = "declared" -> [s EXCEPT !.declared = <<"var", n, place>>]
    [] use = "variable" ->
         IF InScope(s, n) = {}
         THEN [s EXCEPT !.valid = FALSE, !.terms = Append(@, <<"load", <<"unknown">>>>)]
         ELSE [s EXCEPT !.terms = Append(@, <<"load", Innermost(s, n)>>)]

(* ')' behind a condition: the ways part.                                  *)
ReadThen(s) ==
  [s EXCEPT !.open  = Plus(s, <<"cond", Last(s.terms), TRUE>>),
            !.forks = Append(@, [first |-> {},
                                 second |-> Plus(s, <<"cond", Last(s.terms), FALSE>>)]),
            !.nested = @ \/ s.forks # <<>>,
            !.terms = Front(@)]

ReadEllipsis(s) == [s EXCEPT !.ellipsis = TRUE]

ReadElse(s) ==
  [s EXCEPT !.open  = Last(s.forks).second,
            !.forks = Append(Front(@), [first |-> s.open, second |-> {}])]

Join(s) ==
  [s EXCEPT !.open  = @ \cup Last(s.forks).first \cup Last(s.forks).second,
            !.forks = Front(@)]

(* A symbol before its children.                                           *)
Enter(s, class) ==
  CASE class = "FunctionDefinition" -> [s EXCEPT !.open = {<<>>}, !.done = {}, !.params = <<>>]
    [] class = "CompoundStatement" ->
         [s EXCEPT !.scopes = Append(@, s.params), !.params = <<>>]
    [] OTHER -> s

(* The operands of a call: what follows the last name of a function.       *)
CalleeAt(s) ==
  CHOOSE i \in DOMAIN s.terms :
    /\ s.terms[i][1] = "callee"
    /\ \A j \in i + 1 .. Len(s.terms) : s.terms[j][1] # "callee"

ReadCall(s) ==
  LET i == CalleeAt(s)
      call == <<s.terms[i][2], SubSeq(s.terms, i + 1, Len(s.terms))>>
  IN  [s EXCEPT !.open = Plus(s, <<"call", call>>),
                !.terms = Append(SubSeq(@, 1, i - 1), <<"result", call>>)]

ReadAssignment(s, op) ==
  LET to == s.terms[Len(s.terms) - 1]
      e  == IF op = "=" THEN Last(s.terms) ELSE <<op, Last(s.terms), to>>
  IN  [s EXCEPT !.open = Plus(s, <<"store", <<to[2], e>>>>),
                !.terms = Append(DropLast(@, 2), to)]

ReadReturn(s, e) ==
  [s EXCEPT !.done = @ \cup Plus(s, <<"ret", e>>), !.open = {}, !.terms = <<>>]

(* A symbol behind its children.                                           *)
Leave(s, class, op) ==
  CASE class = "AssignmentExpression" -> ReadAssignment(s, op)
    [] class = "BinaryExpression" ->
         [s EXCEPT !.terms = Append(DropLast(@, 2), <<op, s.terms[Len(s.terms) - 1], Last(s.terms)>>)]
    [] class = "UnaryExpression" ->
         [s EXCEPT !.terms = Append(Front(@), <<op, Last(s.terms)>>)]
    [] class = "PostfixExpression" /\ op = "(" -> ReadCall(s)
    [] class = "ExpressionStatement" -> [s EXCEPT !.terms = <<>>]
    [] class = "ParameterDeclaration" /\ op = "" ->
         [s EXCEPT !.params = [m \in DOMAIN @ \cup {s.declared[2]} |->
                                 IF m = s.declared[2] THEN s.declared ELSE @[m]]]
    [] class = "DirectDeclarator" /\ op = "(" ->
         [s EXCEPT !.variadic = Append(@, s.ellipsis), !.ellipsis = FALSE]
    [] class = "InitDeclarator" /\ op = "" -> Declare(s)
    [] class = "InitDeclarator" /\ op = "=" ->
         Declare([s EXCEPT !.open = Plus(s, <<"store", <<s.declared, Last(s.terms)>>>>),
                           !.terms = Front(@)])
    [] class = "InitDeclarator" /\ op = "prototype" -> [s EXCEPT !.params = <<>>]
    [] class = "CompoundStatement" -> [s EXCEPT !.scopes = Front(@)]
    [] class \in {"SelectionStatement", "IterationStatement"} -> Join(s)
    [] class = "JumpStatement" ->
         ReadReturn(s, IF s.terms = <<>> THEN <<"default">> ELSE Last(s.terms))
    [] class = "FunctionDefinition" ->
         [ReadReturn(s, <<"default">>) EXCEPT !.meant = Append(@, ReadReturn(s, <<"default">>).done)]
    [] OTHER -> s
=============================================================================
