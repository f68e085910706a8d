-------------------------- MODULE MCSyntaxVisitor --------------------------
(***************************************************************************)
(* The schemes SyntaxVisitor is checked with.                              *)
(***************************************************************************)
EXTENDS SyntaxVisitor

MCVariables == {"x", "y"}
MCFunctions == {"f", "g"}

(* What the symbols derive, and the parts of a scheme's trees.             *)
Symbols ==
  [external |-> {"external_declarations", "external_declaration"},
   compound |-> {"compound_statement"},
   statement |-> {"compound_statement", "block_item_list", "block_item", "statement"},
   declarators |-> {"init_declarator_list", "init_declarator"},
   variable |-> {"variable_declarator"},
   function |-> {"function_declarator"},
   name |-> {}, signature |-> {},
   parameters |-> {"parameter_type_list", "parameter_list", "parameter_declaration"},
   specifiers |-> {"declaration_specifiers"},
   expression |-> {"expression", "effect", "value", "operand",
                   "argument_expression_list", "further_arguments"}]

(* TLC compares the fields of records in the order in which it has first   *)
(* read their names: k has to come before v.                               *)
IsTree(p) == p.k = "tree"
IsLeaf(p) == p.k \in {"constant", "variable"}

Kids(rules) == UNION {Range(r.kids) : r \in rules}

(* No tree of a scheme has more than Depth trees inside each other.        *)
Depth == 8

WithKids(items) == items \cup Kids({p.v : p \in {q \in items : IsTree(q)}})

Classify(items, parts) ==
  [kind \in Kinds |->
     parts[kind] \cup {p \in items : IsTree(p) /\ IsRule(kind, p.v, parts)}]

Subtrees(items) == FoldLeft(LAMBDA all, n : WithKids(all), items, [n \in 1 .. Depth |-> n])

Classified(items, leaves) ==
  FoldLeft(LAMBDA parts, n : Classify(items, parts), leaves, [n \in 1 .. Depth |-> n])

WithParts(s) ==
  LET items == Subtrees(Range(s.start) \cup Kids(UNION {s.rules[sym] : sym \in DOMAIN s.rules}))
      first == [kind \in Kinds |->
                  {Sym(sym) : sym \in Symbols[kind] \cap DOMAIN s.rules} \cup
                  {p \in items : kind = "expression" /\ IsLeaf(p)}]
  IN  s @@ [parts |-> Classified(items, first)]

(* int x; -- int f(int, ...); -- int g(params) { ... }                     *)
Declared(declarator) ==
  Tree(Rule("Declaration", "", <<Tree(Specifiers("int")), Tree(declarator)>>))

IntVariable(x) == Declared(Rule("InitDeclarator", "", <<Tree(VariableDeclarator("", {x}))>>))

Unnamed == Tree(Rule("ParameterDeclaration", "unnamed", <<Tree(Specifiers("int"))>>))

Named(x) ==
  Tree(Rule("ParameterDeclaration", "",
    <<Tree(Specifiers("int")), Tree(VariableDeclarator("", {x}))>>))

Prototype(f, params) ==
  Declared(Rule("InitDeclarator", "prototype",
    <<Tree(FunctionDeclarator("", {f}, Tree(Rule("ParameterList", "", params))))>>))

Definition(g, params) ==
  Tree(Rule("FunctionDefinition", "",
    <<Tree(Specifiers("int")), Tree(FunctionDeclarator("", {g}, params)),
      Sym("compound_statement")>>))

Initialized(e) ==
  Rule("Declaration", "",
    <<Tree(Specifiers("int")), Tree(Rule("InitDeclarator", "=",
                                         <<Tree(VariableDeclarator("", Variables)), e>>))>>)

Braces == Sym("compound_statement")
End == [external_declarations |-> {List(<<>>)}]

(* Blocks, branches, scopes and returns, with the simplest expressions:    *)
(* int x; int g(int y) { ... }                                             *)
Control ==
  LET condition == Tree(Binary(">", Variable, Constant))
  IN  [start  |-> <<IntVariable("x"), Definition("g", Tree(Rule("ParameterList", "", <<Named("y")>>))),
                    Sym("external_declarations")>>,
       budget |-> 10,
       rules  |-> BlockRules @@
         [block_item |-> {Statement(Tree(Assignment("=", Sym("operand")))), Return(Constant),
                          Initialized(Sym("operand")), Compound,
                          If(condition, Braces), IfElse(condition, Braces, Braces)},
          operand |-> Operands] @@ End]

(* Calls, assignments and their operands, in a function that may branch:   *)
(* int f(int); int f(int, int); int x; int g(int y) { ... }                *)
Computation ==
  LET assignments == {Assignment(op, Sym("expression")) : op \in {"=", "+=", "*="}}
      call == Call(Sym("argument_expression_list"))
      values == {Binary("+", Sym("value"), Sym("value")), call} \cup Operands
  IN  [start  |-> <<Prototype("f", <<Unnamed>>), Prototype("f", <<Unnamed, Unnamed>>), IntVariable("x"),
                    Definition("g", Tree(Rule("ParameterList", "", <<Named("y")>>))),
                    Sym("external_declarations")>>,
       budget |-> 6,
       rules  |-> BlockRules @@ ArgumentRules(Sym("value"), Sym("operand")) @@
         [block_item |-> {Statement(Sym("effect")), Return(Sym("value")), Initialized(Sym("value")),
                          If(Tree(Binary(">", Sym("value"), Constant)), Braces)},
          effect |-> assignments \cup {call, Increment},
          expression |-> assignments \cup values,
          value |-> values,
          operand |-> Operands] @@ End]

(* Declarations of all forms, one after another, then int g(int y) { ... } *)
Declaring ==
  [start  |-> <<Sym("external_declarations"),
                Definition("g", Tree(Rule("ParameterList", "", <<Named("y")>>)))>>,
   budget |-> 6,
   rules  |-> DeclarationRules @@ ParameterRules @@ ExternalRules @@
     [compound_statement |-> {Compound},
      block_item_list |-> {List(<<>>), List(<<Tree(Return(Constant)), Sym("block_item_list")>>)},
      expression |-> Operands]]

MCSchemes ==
  [control |-> WithParts(Control), computation |-> WithParts(Computation),
   declaring |-> WithParts(Declaring)]

(* Statements `if (x > 1) { ... }' inside each other:                      *)
(* int x; int g() { ... }                                                  *)
NestedIf ==
  [start  |-> <<IntVariable("x"), Definition("g", Tree(List(<<>>))), Sym("external_declarations")>>,
   budget |-> 10,
   rules  |-> BlockRules @@
     [block_item |-> {If(Tree(Binary(">", Id("variable", {"x"}), Constant)), Braces)}] @@ End]

MCNestedIf == [nested_if |-> WithParts(NestedIf)]

(* Calls in any place of a list of arguments:                              *)
(* int f(int); int f(int, int); int x; int g() { ... }                     *)
Nested ==
  LET call == Call(Sym("argument_expression_list"))
  IN  [start  |-> <<Prototype("f", <<Unnamed>>), Prototype("f", <<Unnamed, Unnamed>>), IntVariable("x"),
                    Definition("g", Tree(List(<<>>))), Sym("external_declarations")>>,
       budget |-> 10,
       rules  |-> BlockRules @@ ArgumentRules(Sym("value"), Sym("value")) @@
         [block_item |-> {Return(Sym("value"))},
          value |-> {call, List(<<Variable>>), List(<<Constant>>)}] @@ End]

MCNested == [nested |-> WithParts(Nested)]
=============================================================================
