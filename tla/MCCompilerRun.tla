--------------------------- MODULE MCCompilerRun ---------------------------
(***************************************************************************)
(* TLC instance of CompilerRun: sources made of declarations derived by    *)
(* the rules of c.y.                                                       *)
(***************************************************************************)
EXTENDS CompilerRun

(* Tokens have bison's numbers, or that of their character.                *)
IDENTIFIER == 258
NUMBER == 259
TOKEN_INT == 293
ENUM == 304
RETURN == 317

Token(type, t) == Shift(Symbol(TRUE, type, t, <<>>))
Plain(types) == [i \in DOMAIN types |-> Token(types[i], "plain")]
Keep(name, n) == Reduce(name, n, 0)
Chain(names) == [i \in DOMAIN names |-> Keep(names[i], 1)]

IntSpecifier == Plain(<<TOKEN_INT>>) \o Chain(<<"type_specifier">>)
IntSpecifiers == IntSpecifier \o Chain(<<"declaration_specifiers">>)

Conditional == Chain(<<
  "unary_expression", "cast_expression", "multiplicative_expression", "additive_expression",
  "shift_expression", "relational_expression", "equality_expression", "and_expression",
  "exclusive_or_expression", "inclusive_or_expression", "logical_and_expression",
  "logical_or_expression", "conditional_expression", "assignment_expression">>)
Number(t) ==
  <<Token(NUMBER, t)>> \o Chain(<<"primary_expression", "postfix_expression">>) \o Conditional

External == Chain(<<"external_declaration">>) \o <<ReduceUnit>>
Declared(n) == Plain(<<59>>) \o <<Keep("declaration", n)>> \o External             (* ; *)

(* int;                                                                    *)
Empty == IntSpecifiers \o Declared(2)

(* int x = expression;                                                     *)
Initialized(expression) ==
  IntSpecifiers \o Plain(<<IDENTIFIER>>) \o Chain(<<"direct_declarator", "declarator">>) \o
  Plain(<<61>>) \o expression \o
  <<Keep("initializer", 1), Keep("init_declarator", 3), Keep("init_declarator_list", 1)>> \o
  Declared(3)

(* (int){ constant, }: the second comma is left out.                       *)
Literal(t) ==
  Plain(<<40>>) \o IntSpecifier \o Chain(<<"specifier_qualifier_list", "type_name">>) \o
  Plain(<<41, 123>>) \o Number(t) \o Chain(<<"initializer", "initializer_list">>) \o
  Plain(<<44, 125>>) \o <<Reduce("postfix_expression", 7, 6)>> \o Conditional

(* enum x;  The name is left out.                                          *)
Enumeration ==
  Plain(<<ENUM, IDENTIFIER>>) \o <<Reduce("enum_specifier", 2, 2)>> \o
  Chain(<<"type_specifier", "declaration_specifiers">>) \o Declared(2)

(* int f() { return constant; }  The semicolon is left out.                *)
Returning(t) ==
  IntSpecifiers \o Plain(<<IDENTIFIER>>) \o Chain(<<"direct_declarator">>) \o
  Plain(<<40, 41>>) \o <<Keep("direct_declarator", 3), Keep("declarator", 1)>> \o
  Plain(<<123, RETURN>>) \o Number(t) \o Chain(<<"expression">>) \o Plain(<<59>>) \o
  <<Reduce("jump_statement", 3, 3)>> \o Chain(<<"statement", "block_item", "block_item_list">>) \o
  Plain(<<125>>) \o <<Keep("compound_statement", 3), Keep("function_definition", 3)>> \o External

(* int )                                                                   *)
Wrong == IntSpecifier \o <<Refuse>>

MCSources ==
  {<<>>, Empty, Wrong, Initialized(Literal("raw")), Enumeration \o Returning("quoted"),
   Wrong \o Empty, Empty \o Wrong \o Empty}

MCNames ==
  {o.name : o \in {p \in UNION {ToSet(src) : src \in MCSources} : p.op = "reduce"}} \cup
  {"translation_unit"}

MCOptions == {{"json"}, {"obj"}, {"ir"}, {"json", "obj"}, {"json", "ir", "obj"}}
MCFaults == {{}} \cup {{o} : o \in Outputs}
=============================================================================
