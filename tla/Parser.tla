------------------------------- MODULE Parser -------------------------------
(***************************************************************************)
(* yyparse() as the actions in c.y see it: tokens are pushed on the stack  *)
(* of semantic values, and for each rule that is reduced BUILD makes a     *)
(* nonterminal of the values of its right side, links them as siblings and *)
(* tags it with the rule's name.  Which rule is reduced is bison's matter; *)
(* the text is given as what bison does with it.  It has an end here: that *)
(* of an invalid #include or of a directory has none, and yyparse() does   *)
(* not return from it.                                                     *)
(***************************************************************************)
EXTENDS JsonDumper

VARIABLES
  text,         (* what bison will do with the text it has not read yet,   *)
                (* in flex's buffer or in the preprocessor's sources       *)
  values,       (* the values on its stack                                 *)
  root          (* FrontEnv::root                                          *)

(* A rule has n symbols on its right side.  The actions of most rules hand *)
(* all of them to BUILD; that of a rule with drop # 0 leaves one out: the  *)
(* ';' of return and goto, the name of an enum that has no list, and a     *)
(* ',' behind an initializer_list.                                         *)
Shift(symbol) == [op |-> "shift", symbol |-> symbol]
Reduce(name, n, drop) == [op |-> "reduce", name |-> name, n |-> n, drop |-> drop]
ReduceUnit == [op |-> "unit"]            (* an external_declaration is read *)
Refuse     == [op |-> "refuse"]          (* a token no rule allows here    *)

IsToken(t) == t = Symbol(TRUE, t.type, t.text, <<>>)

NullSymbol == Symbol(FALSE, 0, "plain", <<>>)

ParserInit == text = <<>> /\ values = <<>> /\ root = NullSymbol

(* BUILD, for a rule with n symbols on its right side.                     *)
Linked(n, drop) ==
  LET right == SubSeq(values, Len(values) - n + 1, Len(values))
  IN  IF drop = 0 THEN right ELSE RemoveAt(right, drop)

Built(name, n, drop) == Symbol(FALSE, map'[name], "plain", Linked(n, drop))

Build(name, n, drop) ==
  /\ Insert(name)
  /\ values' = Append(SubSeq(values, 1, Len(values) - n), Built(name, n, drop))

ShiftToken ==
  /\ text # <<>> /\ Head(text).op = "shift"
  /\ values' = Append(values, Head(text).symbol)
  /\ text' = Tail(text)
  /\ UNCHANGED <<root, vec, map>>

ReduceRule ==
  /\ text # <<>> /\ Head(text).op = "reduce"
  /\ Build(Head(text).name, Head(text).n, Head(text).drop)
  /\ text' = Tail(text)
  /\ UNCHANGED root

(* Mutant: only the first external_declaration sets the root. *)
ReduceTranslationUnit_FirstOnly ==
  /\ text # <<>> /\ Head(text).op = "unit"
  /\ Build("translation_unit", Len(values), 0)
  /\ root' = IF Len(values) = 1 THEN Last(values') ELSE root
  /\ text' = Tail(text)

(* translation_unit: the first external_declaration, or one more.          *)
ReduceTranslationUnit ==
  /\ text # <<>> /\ Head(text).op = "unit"
  /\ Build("translation_unit", Len(values), 0)
  /\ root' = Last(values')
  /\ text' = Tail(text)

Parse == ShiftToken \/ ReduceRule \/ ReduceTranslationUnit

(* A translation_unit at the end of the text is accepted.  Nothing, or a   *)
(* token that is refused, is not: yyerror() prints a message, and yyparse  *)
(* returns without a trace of it in FrontEnv::status.  The refused token   *)
(* is gone; what follows it stays with flex.                               *)
Accepts == text = <<>> /\ values # <<>>
Refuses == IF text = <<>> THEN values = <<>> ELSE Head(text).op = "refuse"
Rest    == IF text = <<>> THEN <<>> ELSE Tail(text)
=============================================================================
