----------------------------- MODULE SyntaxTree -----------------------------
(***************************************************************************)
(* Parse trees as Symbol::Invoke walks them: a symbol's Visit method, then *)
(* its children from left to right, then its Exit method.  Of the grammar  *)
(* in c.y the rules are kept whose symbols the visitor looks at; chains of *)
(* rules with one child, lists and punctuation are contracted, because     *)
(* the methods called for them do nothing.  `op' is what the methods see   *)
(* of the terminals among the children (at(0), at(1), at(5)).              *)
(***************************************************************************)
EXTENDS Integers, Sequences

CONSTANTS
  Variables, Functions,   (* names                                         *)
  TypeNames               (* the type_specifiers used                      *)

(* What the children of a symbol can be: a symbol yet to be derived, one   *)
(* whose rule is given, an IDENTIFIER of a set of names, a CONSTANT, and   *)
(* the terminals between the parts of a statement.                         *)
Sym(s)      == [k |-> "symbol", v |-> s]
Tree(r)     == [k |-> "tree", v |-> r]
Id(use, ns) == [k |-> use, v |-> ns]
Constant    == [k |-> "constant", v |-> {"1"}]
Mark(m)     == [k |-> "mark", v |-> m]
Exit(r)     == [k |-> "exit", v |-> [r EXCEPT !.kids = <<>>]]

Variable == Id("variable", Variables)
Callee   == Id("callee", Functions)
Declares(ns) == Id("declared", ns)

Rule(class, op, kids) == [class |-> class, op |-> op, kids |-> kids]
List(kids) == Rule("NonTerminal", "", kids)

(* The declarator of a function with a given list of parameters.           *)
FunctionDeclarator(star, ns, params) ==
  Rule("Declarator", star,
       <<Tree(Rule("DirectDeclarator", "(",
                   <<Tree(Rule("DirectDeclarator", "", <<Declares(ns)>>)),
                     params>>))>>)

VariableDeclarator(star, ns) ==
  Rule("Declarator", star,
       <<Tree(Rule("DirectDeclarator", "", <<Declares(ns)>>))>>)

Specifiers(type) == Rule("DeclarationSpecifiers", type, <<>>)
-----------------------------------------------------------------------------
(* Declarations and what they are made of.                                 *)
Declarations ==
  {Rule("Declaration", "", <<Sym("declaration_specifiers"), Sym("init_declarator_list")>>),
   Rule("Declaration", ";", <<Sym("declaration_specifiers")>>)}

(* "const" stands for every specifier that is not a type.                  *)
DeclarationRules ==
 [declaration_specifiers |->
    {Rule("DeclarationSpecifiers", op, further) :
       op \in TypeNames \cup {"const"}, further \in {<<>>, <<Sym("declaration_specifiers")>>}},
  init_declarator_list |->
    {List(<<Sym("init_declarator")>>),
     List(<<Sym("init_declarator"), Sym("init_declarator_list")>>)},
  init_declarator |->
    {Rule("InitDeclarator", "", <<Sym("variable_declarator")>>),
     Rule("InitDeclarator", "=", <<Sym("variable_declarator"), Sym("expression")>>),
     Rule("InitDeclarator", "prototype", <<Sym("function_declarator")>>)},
  variable_declarator |->
    {VariableDeclarator(star, Variables) : star \in {"", "*"}},
  function_declarator |->
    {FunctionDeclarator(star, Functions, Sym("parameter_type_list")) : star \in {"", "*"}}]

ParameterRules ==
 [parameter_type_list |->
    {List(<<>>),
     Rule("ParameterList", "", <<Sym("parameter_list")>>),
     Rule("ParameterList", ",", <<Sym("parameter_list"), Mark("...")>>)},
  parameter_list |->
    {List(<<Sym("parameter_declaration")>>),
     List(<<Sym("parameter_declaration"), Sym("parameter_list")>>)},
  parameter_declaration |->
    {Rule("ParameterDeclaration", op, <<Sym("declaration_specifiers")>>) :
       op \in {"unnamed", "abstract"}} \cup
    {Rule("ParameterDeclaration", "",
          <<Sym("declaration_specifiers"), Sym("variable_declarator")>>)}]

ExternalRules ==
 [external_declarations |->
    {List(<<>>), List(<<Sym("external_declaration"), Sym("external_declarations")>>)},
  external_declaration |->
    {Rule("FunctionDefinition", "",
          <<Sym("declaration_specifiers"), Sym("function_declarator"),
            Sym("compound_statement")>>)} \cup Declarations]
-----------------------------------------------------------------------------
(* Statements.                                                             *)
Compound == Rule("CompoundStatement", "", <<Sym("block_item_list")>>)

BlockRules ==
 [compound_statement |-> {Compound},
  block_item_list |-> {List(<<>>), List(<<Sym("block_item"), Sym("block_item_list")>>)}]

Statement(e) == Rule("ExpressionStatement", "", <<e>>)
Return(e)    == Rule("JumpStatement", "return", <<e>>)
If(c, s)     == Rule("SelectionStatement", "if", <<c, Mark("then"), s>>)
IfElse(c, s, t) ==
  Rule("SelectionStatement", "if_else", <<c, Mark("then"), s, Mark("else"), t>>)
-----------------------------------------------------------------------------
(* Expressions.                                                            *)
Operands         == {List(<<Variable>>), List(<<Constant>>)}
Binary(op, a, b) == Rule("BinaryExpression", op, <<a, b>>)
Assignment(op, e) == Rule("AssignmentExpression", op, <<Variable, e>>)
Call(arguments)  == Rule("PostfixExpression", "(", <<Callee, arguments>>)
Increment        == Rule("PostfixExpression", "++", <<Variable>>)

ArgumentRules(first, further) ==
 [argument_expression_list |->
    {List(<<>>), List(<<first, Sym("further_arguments")>>)},
  further_arguments |->
    {List(<<>>), List(<<further, Sym("further_arguments")>>)}]
-----------------------------------------------------------------------------
(* The grammar: which rules a part of a tree can have, by what it derives. *)
(* `parts' has the parts of each kind.                                     *)
Kinds == {"external", "compound", "statement", "declarators", "variable", "function",
          "name", "signature", "parameters", "specifiers", "expression"}

IsDeclaration(r, parts) ==
  /\ r.class = "Declaration"
  /\ \E s \in parts.specifiers :
       r.kids = <<s>> \/ \E d \in parts.declarators : r.kids = <<s, d>>

IsStatement(r, parts) ==
  \/ r.class \in {"NonTerminal", "CompoundStatement"} /\ r.kids \in Seq(parts.statement)
  \/ r.class \in {"ExpressionStatement", "JumpStatement"} /\ r.kids \in Seq(parts.expression)
  \/ /\ r.class = "SelectionStatement"
     /\ r.kids \in Seq(parts.expression \cup parts.statement \cup {Mark("then"), Mark("else")})

IsExpression(r, parts) ==
  \/ r.class \in {"NonTerminal", "BinaryExpression"} /\ r.kids \in Seq(parts.expression)
  \/ r.class = "PostfixExpression" /\ r.op # "(" /\ r.kids \in Seq(parts.expression)
  \/ \E e \in parts.expression :
       \/ r.class = "AssignmentExpression" /\ r.kids = <<Variable, e>>
       \/ r.class = "PostfixExpression" /\ r.op = "(" /\ r.kids = <<Callee, e>>

IsDeclarator(r, parts) ==
  \/ r.class = "NonTerminal" /\ r.kids \in Seq(parts.declarators)
  \/ /\ r.class = "InitDeclarator"
     /\ \/ \E f \in parts.function : r.kids = <<f>>
        \/ \E v \in parts.variable : r.kids = <<v>> \/ \E e \in parts.expression : r.kids = <<v, e>>

IsParameter(r, parts) ==
  \/ r.class = "NonTerminal" /\ r.kids \in Seq(parts.parameters)
  \/ r.class = "ParameterList" /\ r.kids \in Seq(parts.parameters \cup {Mark("...")})
  \/ /\ r.class = "ParameterDeclaration"
     /\ \E s \in parts.specifiers :
          \/ r.op \in {"unnamed", "abstract"} /\ r.kids = <<s>>
          \/ r.op = "" /\ \E v \in parts.variable : r.kids = <<s, v>>

IsRule(kind, r, parts) ==
  /\ r = Rule(r.class, r.op, r.kids)
  /\ \/ /\ kind = "external"
        /\ \/ r.class = "NonTerminal" /\ r.kids \in Seq(parts.external)
           \/ IsDeclaration(r, parts)
           \/ /\ r.class = "FunctionDefinition"
              /\ \E s \in parts.specifiers, f \in parts.function, b \in parts.compound :
                   r.kids = <<s, f, b>>
     \/ kind = "compound" /\ r.class = "CompoundStatement" /\ r.kids \in Seq(parts.statement)
     \/ kind = "statement" /\ (IsStatement(r, parts) \/ IsDeclaration(r, parts))
     \/ kind = "expression" /\ IsExpression(r, parts)
     \/ kind = "declarators" /\ IsDeclarator(r, parts)
     \/ kind = "variable" /\ r.class = "Declarator" /\ \E n \in parts.name : r.kids = <<n>>
     \/ kind = "function" /\ r.class = "Declarator" /\ \E d \in parts.signature : r.kids = <<d>>
     \/ /\ kind = "name" /\ r.class = "DirectDeclarator" /\ r.op = ""
        /\ Len(r.kids) = 1 /\ r.kids = <<Declares(r.kids[1].v)>>
     \/ /\ kind = "signature" /\ r.class = "DirectDeclarator" /\ r.op = "("
        /\ \E n \in parts.name, p \in parts.parameters : r.kids = <<n, p>>
     \/ kind = "parameters" /\ IsParameter(r, parts)
     \/ /\ kind = "specifiers" /\ r.class = "DeclarationSpecifiers"
        /\ r.kids = <<>> \/ \E s \in parts.specifiers : r.kids = <<s>>
=============================================================================
