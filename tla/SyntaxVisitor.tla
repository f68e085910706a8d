--------------------------- MODULE SyntaxVisitor ---------------------------
(***************************************************************************)
(* SyntaxVisitor: code generation while the parse tree is walked.  The     *)
(* tree is derived as the walk goes, a rule being chosen when its symbol   *)
(* is reached; that is every tree within the budget of a scheme.  A method *)
(* whose assertion fails, or that reads behind a vector or through a null  *)
(* pointer, ends the run ("aborted"); one that LLVM's release build lets   *)
(* pass leaves an instruction verifyFunction() refuses.                    *)
(***************************************************************************)
EXTENDS SyntaxTree, SourceMeaning, Overloads

CONSTANT
  Schemes       (* where trees come from: rules of symbols, the symbols to *)
                (* start with, a budget (bound) of leaves, and the parts   *)
                (* of its trees by what they derive                        *)

(* What a scheme derives are trees of the grammar.                         *)
IsPart(s, kind, p) ==
  \/ /\ p = Sym(p.v) /\ p.v \in DOMAIN s.rules
     /\ p.v = "external_declarations" => kind = "external"
     /\ \A r \in s.rules[p.v] : IsRule(kind, r, s.parts)
  \/ p = Tree(p.v) /\ IsRule(kind, p.v, s.parts)
  \/ kind = "expression" /\ p.k \in {"constant", "variable"}

ASSUME SchemesAssumption ==
  \A s \in DOMAIN Schemes :
    /\ Schemes[s].start \in Seq(Schemes[s].parts.external)
    /\ \A kind \in Kinds : \A p \in Schemes[s].parts[kind] : IsPart(Schemes[s], kind, p)

VARIABLES
  scheme, todo, budget, place,   (* the walk: the scheme, what is still to *)
                                 (* be visited, leaves left, terminals met *)
  variable_state, function_state, is_complete_type, is_pointer,
  sticky_context, value_top,
  type_stack, value_stack, identifier_stack, context_stack,
  global,                        (* global_: identifier, function          *)
  blocks, functions, insert,     (* the module, and where the builder is   *)
  status, outcome,
  source                         (* history: the meaning of what was read  *)

walk   == <<scheme, todo, budget, place>>
flags  == <<variable_state, function_state, is_complete_type, is_pointer,
            sticky_context, value_top>>
stacks == <<type_stack, value_stack, identifier_stack, context_stack>>
ir     == <<blocks, functions, insert>>
visitor == <<flags, stacks, global, ir, status>>
vars   == <<walk, visitor, outcome, source>>

IntType  == [base |-> "int", depth |-> 0]
BoolType == [base |-> "bool", depth |-> 0]
VoidType == [base |-> "void", depth |-> 0]
NullType == [base |-> "null", depth |-> 0]
Pointer(t) == [t EXCEPT !.depth = @ + 1]
Pointee(t) == [t EXCEPT !.depth = @ - 1]
IsArithmetic(t) == t.depth = 0 /\ t.base # "void"
IsFloating(t) == t.depth = 0 /\ t.base \in {"float", "double"}

(* TypeChecker::FromString.                                                *)
FromString(name) == IF name \in Bases THEN [base |-> name, depth |-> 0] ELSE NullType

(* A value: its type, what it is, the block whose instruction computes it, *)
(* and whether it is a constant.                                           *)
Value(type, term) == [type |-> type, term |-> term, block |-> insert, const |-> FALSE]
Const(type, term) == [type |-> type, term |-> term, block |-> NoBlock, const |-> TRUE]
NullValue == Const(NullType, <<>>)

Identifier(n, type, value) == [name |-> n, place |-> place, type |-> type, value |-> value]
NullIdentifier == [Identifier("...", NullType, NullValue) EXCEPT !.place = 0]

NoFunctions == [n \in Functions |-> <<>>]

Context(block, hook, sticky, identifier) ==
  [llvm |-> block, hook |-> hook, sticky |-> sticky,
   identifier |-> identifier, function |-> NoFunctions]

Top == Last(context_stack)
-----------------------------------------------------------------------------
Init ==
  /\ scheme \in DOMAIN Schemes
  /\ todo = Schemes[scheme].start /\ budget = Schemes[scheme].budget
  /\ place = 0
  /\ variable_state = "kAccess" /\ function_state = "kNotFunction"
  /\ is_complete_type = TRUE /\ is_pointer = FALSE
  /\ sticky_context \in BOOLEAN   (* not initialized; nor is value_top, which *)
  /\ value_top = 0               (* no tree of the runs reads before a call *)
  /\ type_stack = <<>> /\ value_stack = <<>> /\ identifier_stack = <<>>
  /\ context_stack = <<>> /\ global = [identifier |-> <<>>, function |-> NoFunctions]
  /\ blocks = <<>> /\ functions = <<>> /\ insert = NoBlock
  /\ status = "OK" /\ outcome = "running"
  /\ source = Nothing

(* The helpers Fatal() and PopBlock(), and the builder.                    *)
Fatal == status' = "Corruption"

Emitted(instructions) ==
  IF insert = NoBlock THEN blocks
  ELSE [blocks EXCEPT ![insert].code = @ \o instructions]

Computed(uses, legal) == Instruction("value", <<>>, uses, legal)

(* Mutant: the builder stays in the block that was left. *)
PopBlock_KeepsInsertPoint == context_stack' = Front(context_stack) /\ UNCHANGED insert

PopBlock ==
  /\ context_stack' = Front(context_stack)
  /\ insert' = IF Len(context_stack) > 1 THEN Last(context_stack').llvm ELSE NoBlock

(* FindVariable: the contexts from the top down, then global_.             *)
Defining(n) == {i \in DOMAIN context_stack : n \in DOMAIN context_stack[i].identifier}

Found(n) == Defining(n) # {} \/ n \in DOMAIN global.identifier

(* Mutant: the outermost variable of a name is found. *)
FindVariable_Outermost(n) ==
  IF Defining(n) = {} THEN global.identifier[n]
  ELSE context_stack[CHOOSE i \in Defining(n) : \A j \in Defining(n) : i <= j].identifier[n]

FindVariable(n) ==
  IF Defining(n) = {} THEN global.identifier[n]
  ELSE context_stack[CHOOSE i \in Defining(n) : \A j \in Defining(n) : j <= i].identifier[n]

(* IdentifierTable::Insert: the first of a name stays, and nobody looks at *)
(* the status.                                                             *)
WithIdentifier(table, id) ==
  IF id.name \in DOMAIN table.identifier THEN table
  ELSE [table EXCEPT !.identifier =
          [m \in DOMAIN @ \cup {id.name} |-> IF m = id.name THEN id ELSE @[m]]]
-----------------------------------------------------------------------------
(* VisitTerminal                                                           *)
VisitConstant ==
  /\ value_stack' = Append(value_stack, Const(IntType, <<"const", place'>>))
  /\ UNCHANGED <<flags, type_stack, identifier_stack, context_stack, global, ir, status>>

VisitIdentifier(n) ==
  /\ variable_state' = "kAccess"
  /\ IF variable_state \in {"kAccess", "kAddress"}
     THEN /\ UNCHANGED identifier_stack
          /\ IF ~Found(n)
             THEN Fatal /\ value_stack' = Append(value_stack, NullValue) /\ UNCHANGED blocks
             ELSE LET p == FindVariable(n).value
                  IN  /\ UNCHANGED status
                      /\ IF variable_state = "kAddress"
                         THEN value_stack' = Append(value_stack, p) /\ UNCHANGED blocks
                         ELSE /\ value_stack' = Append(value_stack,
                                   Value(Pointee(p.type), <<"load", p.term>>))
                              /\ blocks' = Emitted(<<Computed({p.block}, Pointee(p.type) # VoidType)>>)
     ELSE /\ identifier_stack' =
               Append(identifier_stack, [Identifier(n, NullType, NullValue) EXCEPT !.place = place'])
          /\ UNCHANGED <<value_stack, blocks, status>>
  /\ UNCHANGED <<function_state, is_complete_type, is_pointer, sticky_context, value_top,
                 type_stack, context_stack, global, functions, insert>>

-----------------------------------------------------------------------------
(* Expressions                                                             *)
Below == value_stack[Len(value_stack) - 1]
Above == Last(value_stack)

VisitAssignmentExpression ==
  /\ variable_state' = "kAddress"
  /\ UNCHANGED <<function_state, is_complete_type, is_pointer, sticky_context, value_top,
                 stacks, global, ir, status>>

(* The right side, loaded if it is a pointer, whatever the left side is.   *)
Right == IF Above.type.depth > 0 THEN Value(Pointee(Above.type), <<"load", Above.term>>)
         ELSE Above

Stored(op, right) ==
  IF op = "=" THEN right.term ELSE <<op, right.term, <<"load", Below.term>>>>

AssignmentSurvives(op) ==
  /\ Len(value_stack) >= 2
  /\ Above # NullValue /\ Below.type.depth > 0
  /\ op = "=" => CastTo(Right.type, Pointee(Below.type)) # "null"

(* An operator that is not implemented leaves nothing behind either.       *)
ExitAssignmentExpression(op) ==
  LET to == Pointee(Below.type)
      used == {Right.block, Below.block}
      legal == IF op = "=" THEN CastTo(Right.type, to) # "illegal" /\ to # VoidType
               ELSE Right.type = to /\ IsArithmetic(to)
  IN  /\ value_stack' = DropLast(value_stack, 2)
      /\ IF op \in {"=", "+="}
         THEN /\ blocks' = Emitted(<<Instruction("store", <<Below.term, Stored(op, Right)>>, used, legal)>>)
              /\ UNCHANGED status
         ELSE /\ Fatal
              /\ blocks' = Emitted(<<Computed(used, TRUE)>>)
      /\ UNCHANGED <<flags, type_stack, identifier_stack, context_stack, global,
                     functions, insert>>

Comparisons == {"<", ">", "<=", ">=", "==", "!="}

(* The operand types LLVM has an instruction for.                          *)
Computable(op, a, b) == a = b /\ (IsArithmetic(a) \/ (op \in Comparisons /\ a.depth > 0))

BinarySurvives == Len(value_stack) >= 2 => NullValue \notin {Above, Below}

IntegersOnly == {"%", "<<", ">>", "&", "^", "|"}

(* Without two values nothing happens; && and || are their first operand,  *)
(* and so are operations that floating point numbers do not have.          *)
ExitBinaryExpression(op) ==
  LET fatal == op \in IntegersOnly /\ (IsFloating(Below.type) \/ IsFloating(Above.type))
      done == op \notin {"&&", "||"} /\ ~fatal
      type == IF op \in Comparisons THEN BoolType ELSE Below.type
      term == <<op, Below.term, Above.term>>
      ret  == CASE ~done -> Below
                [] done /\ Below.const /\ Above.const -> Const(type, term)
                [] OTHER -> Value(type, term)
      legal == Computable(op, Below.type, Above.type)
  IN  /\ IF Len(value_stack) < 2 THEN UNCHANGED <<value_stack, blocks, status>>
         ELSE /\ value_stack' = Append(DropLast(value_stack, 2), ret)
              /\ IF fatal THEN Fatal ELSE UNCHANGED status
              /\ blocks' = IF done THEN Emitted(<<Computed({Below.block, Above.block}, legal)>>)
                           ELSE blocks
      /\ UNCHANGED <<flags, type_stack, identifier_stack, context_stack, global,
                     functions, insert>>

(* Mutant: one value too many is taken for an argument. *)
VisitPostfixExpression_OffByOne ==
  /\ variable_state' = "kFunction"
  /\ value_top' = Len(value_stack) - 1
  /\ UNCHANGED <<function_state, is_complete_type, is_pointer, sticky_context,
                 stacks, global, ir, status>>

VisitPostfixExpression ==
  /\ variable_state' = "kFunction"
  /\ value_top' = Len(value_stack)
  /\ UNCHANGED <<function_state, is_complete_type, is_pointer, sticky_context,
                 stacks, global, ir, status>>

Called == Last(identifier_stack).name
Arguments == SubSeq(value_stack, value_top + 1, Len(value_stack))
ArgumentTypes == [i \in DOMAIN Arguments |-> Arguments[i].type]

(* The functions of the contexts, but for sticky ones below the top, then  *)
(* those of global_: 0 or the number of the function.                      *)
Resolved ==
  LET seen == {i \in DOMAIN context_stack : i = Len(context_stack) \/ ~context_stack[i].sticky}
      Answer(table) ==
        LET r == Get(table.function[Called], ArgumentTypes)
        IN  IF r = 0 THEN 0 ELSE table.function[Called][r].value
      answers == {i \in seen : Answer(context_stack[i]) # 0}
  IN  IF answers = {} THEN Answer(global)
      ELSE Answer(context_stack[CHOOSE i \in answers : \A j \in answers : j <= i])

(* A postfix operator other than '(' is taken for a call as well.          *)
PostfixSurvives ==
  /\ identifier_stack # <<>>
  /\ Last(identifier_stack) # NullIdentifier
  /\ Len(value_stack) >= value_top
  /\ \A i \in DOMAIN Arguments : Arguments[i] # NullValue
  /\ Resolved # 0 =>
       LET params == functions[Resolved].args
       IN  /\ Len(params) = Len(Arguments) \/ functions[Resolved].varargs
           /\ \A i \in DOMAIN Arguments :
                i \in DOMAIN params /\ CastTo(ArgumentTypes[i], params[i]) # "null"

ExitPostfixExpression ==
  LET f == functions[Resolved]
      call == <<f.name, [i \in DOMAIN Arguments |-> Arguments[i].term]>>
      legal == \A i \in DOMAIN Arguments : CastTo(ArgumentTypes[i], f.args[i]) # "illegal"
      rest == SubSeq(value_stack, 1, value_top)
  IN  /\ identifier_stack' = Front(identifier_stack)
      /\ IF Resolved = 0
         THEN Fatal /\ value_stack' = rest /\ UNCHANGED blocks
         ELSE /\ value_stack' = Append(rest, Value(f.ret, <<"result", call>>))
              /\ blocks' = Emitted(<<Instruction("call", call,
                             {Arguments[i].block : i \in DOMAIN Arguments}, legal)>>)
              /\ UNCHANGED status
      /\ UNCHANGED <<flags, type_stack, context_stack, global, functions, insert>>
-----------------------------------------------------------------------------
(* Functions                                                               *)
VisitFunctionDefinition ==
  /\ function_state' = "kFunctionDefinition"
  /\ sticky_context' = TRUE
  /\ UNCHANGED <<variable_state, is_complete_type, is_pointer, value_top,
                 stacks, global, ir, status>>

(* The function's block must be on top, and the builder's block in it.     *)
FunctionDefinitionSurvives ==
  context_stack # <<>> /\ Top.hook # 0 /\ blocks[Top.llvm].parent = Top.hook

ExitFunctionDefinition ==
  LET f == Top.hook
  IN  /\ blocks' = IF functions[f].closed THEN blocks
                   ELSE Emitted(<<Instruction("ret", <<"default">>, {}, TRUE)>>)
      /\ IF Verified(blocks', f, functions[f].body) THEN UNCHANGED status
         ELSE Fatal
      /\ PopBlock
      /\ sticky_context' = FALSE
      /\ UNCHANGED <<variable_state, function_state, is_complete_type, is_pointer,
                     value_top, type_stack, value_stack, identifier_stack, global,
                     functions>>

(* The placeholder is for an ELLIPSIS at(1), where the grammar has a ','.   *)
ExitParameterList(op) ==
  /\ identifier_stack' = IF op = "..." THEN Append(identifier_stack, NullIdentifier)
                         ELSE identifier_stack
  /\ UNCHANGED <<flags, type_stack, value_stack, context_stack, global, ir, status>>

VisitParameterDeclarationSurvives(op) == op # "unnamed" => function_state # "kNotFunction"

ParameterDeclarationSurvives(op) ==
  /\ type_stack # <<>>
  /\ op = "abstract" => Last(type_stack) # NullType
  /\ op = "" => identifier_stack # <<>>

(* A named parameter gets the type of the specifiers, without its '*'.     *)
ExitParameterDeclaration(op) ==
  /\ identifier_stack' =
       CASE op = "unnamed"  -> Append(identifier_stack, Identifier("", Last(type_stack), NullValue))
         [] op = "abstract" -> Append(identifier_stack,
                                      Identifier("", Pointer(Last(type_stack)), NullValue))
         [] op = ""         -> [identifier_stack EXCEPT ![Len(identifier_stack)].type = Last(type_stack)]
  /\ type_stack' = Front(type_stack)
  /\ UNCHANGED <<flags, value_stack, context_stack, global, ir, status>>
-----------------------------------------------------------------------------
(* Blocks                                                                  *)
BlockSurvives ==
  IF function_state = "kNotFunction"
  (* Without sticky_context_ the search for the hook, `i ++', runs off.    *)
  THEN context_stack # <<>> /\ sticky_context
  ELSE sticky_context => context_stack # <<>>

(* Mutant: a branch's context gets the hook of the one around it. *)
VisitCompoundStatement_InheritsHook ==
  /\ IF function_state = "kNotFunction"
     THEN /\ blocks' = Append(blocks, Block(0))
          /\ insert' = Len(blocks')
          /\ context_stack' = Append(context_stack, Context(insert', Top.hook, TRUE, <<>>))
          /\ sticky_context' = FALSE
     ELSE UNCHANGED <<blocks, insert, context_stack, sticky_context>>
  /\ function_state' = "kNotFunction"
  /\ UNCHANGED <<variable_state, is_complete_type, is_pointer, value_top,
                 type_stack, value_stack, identifier_stack, global, functions, status>>

VisitCompoundStatement ==
  /\ IF function_state = "kNotFunction"
     THEN /\ blocks' = Append(blocks, Block(0))
          /\ insert' = Len(blocks')
          /\ context_stack' = Append(context_stack, Context(insert', 0, TRUE, <<>>))
          /\ sticky_context' = FALSE
     ELSE /\ context_stack' = IF sticky_context THEN [context_stack EXCEPT ![Len(context_stack)].sticky = TRUE]
                              ELSE context_stack
          /\ UNCHANGED <<blocks, insert, sticky_context>>
  /\ function_state' = "kNotFunction"
  /\ UNCHANGED <<variable_state, is_complete_type, is_pointer, value_top,
                 type_stack, value_stack, identifier_stack, global, functions, status>>

ExitCompoundStatement ==
  /\ IF Top.sticky
     THEN sticky_context' = TRUE /\ UNCHANGED <<context_stack, insert>>
     ELSE PopBlock /\ UNCHANGED sticky_context
  /\ UNCHANGED <<variable_state, function_state, is_complete_type, is_pointer, value_top,
                 type_stack, value_stack, identifier_stack, global, blocks, functions, status>>
-----------------------------------------------------------------------------
(* Declarations                                                            *)
VisitDeclaration(op) ==
  /\ IF op = ";" THEN Fatal ELSE UNCHANGED status
  /\ UNCHANGED <<flags, stacks, global, ir>>

(* Mutant: the type of the declaration stays on its stack. *)
ExitDeclaration_KeepsType == UNCHANGED visitor

ExitDeclaration ==
  /\ type_stack' = IF type_stack = <<>> THEN <<>> ELSE Front(type_stack)
  /\ UNCHANGED <<flags, value_stack, identifier_stack, context_stack, global, ir, status>>

VisitDeclarationSpecifiers(op) ==
  LET pushed == IF is_complete_type THEN Append(type_stack, NullType) ELSE type_stack
  IN  /\ is_complete_type' = FALSE
      /\ type_stack' = IF op = "const" THEN pushed
                       ELSE [pushed EXCEPT ![Len(pushed)] = FromString(op)]
      /\ IF op # "const" /\ FromString(op) = NullType THEN Fatal ELSE UNCHANGED status
      /\ UNCHANGED <<variable_state, function_state, is_pointer, sticky_context, value_top,
                     value_stack, identifier_stack, context_stack, global, ir>>

(* The innermost one has no at(1) and completes the type; behind it those  *)
(* around it leave what is complete.                                       *)
ExitDeclarationSpecifiers ==
  /\ is_complete_type' = TRUE
  /\ UNCHANGED <<variable_state, function_state, is_pointer, sticky_context, value_top,
                 stacks, global, ir, status>>

VisitDeclarator(op) ==
  /\ is_pointer' = (is_pointer \/ op = "*")
  /\ UNCHANGED <<variable_state, function_state, is_complete_type, sticky_context, value_top,
                 stacks, global, ir, status>>

VisitDirectDeclaratorSurvives(op) ==
  op = "(" /\ is_pointer => type_stack # <<>> /\ Last(type_stack) # NullType

VisitDirectDeclarator(op) ==
  /\ variable_state' = "kDefinition"
  /\ IF op = "("
     THEN /\ function_state' = IF function_state = "kNotFunction" THEN "kFunctionDeclaration"
                               ELSE function_state
          /\ type_stack' = IF is_pointer THEN [type_stack EXCEPT ![Len(type_stack)] = Pointer(@)]
                           ELSE type_stack
          /\ is_pointer' = FALSE
     ELSE UNCHANGED <<function_state, type_stack, is_pointer>>
  /\ UNCHANGED <<is_complete_type, sticky_context, value_top, value_stack, identifier_stack,
                 context_stack, global, ir, status>>

(* Behind a name: the variable is created, unless it is a parameter or the *)
(* name of a function.                                                     *)
NameSurvives ==
  type_stack # <<>> /\ identifier_stack # <<>> =>
    Last(type_stack) # NullType

ExitName ==
  LET type == IF is_pointer THEN Pointer(Last(type_stack)) ELSE Last(type_stack)
      id   == Last(identifier_stack)
      address == <<"var", id.name, id.place>>
      v == CASE function_state # "kNotFunction" -> NullValue
             [] function_state = "kNotFunction" /\ context_stack = <<>> -> Const(Pointer(type), address)
             [] OTHER -> Value(Pointer(type), address)
  IN  /\ IF type_stack = <<>> \/ identifier_stack = <<>>
         THEN Fatal /\ UNCHANGED <<is_pointer, identifier_stack, blocks>>
         ELSE /\ is_pointer' = FALSE
              /\ identifier_stack' = [identifier_stack EXCEPT
                   ![Len(identifier_stack)].type = type,
                   ![Len(identifier_stack)].value = v]
              /\ blocks' = IF v # NullValue /\ ~v.const THEN Emitted(<<Computed({}, type # VoidType)>>)
                           ELSE blocks
              /\ UNCHANGED status
      /\ UNCHANGED <<variable_state, function_state, is_complete_type, sticky_context, value_top,
                     type_stack, value_stack, context_stack, global, functions, insert>>

Params == SubSeq(identifier_stack, 2, Len(identifier_stack))
Variadic == identifier_stack # <<>> /\ Last(identifier_stack) = NullIdentifier
Fixed == IF Variadic THEN Front(Params) ELSE Params
VoidInput == Len(Fixed) = 1 /\ Fixed[1].type = VoidType
VoidAmongOthers == Len(Fixed) > 1 /\ \E i \in DOMAIN Fixed : Fixed[i].type = VoidType

FunctionDeclaratorSurvives ==
  /\ Len(type_stack) = 1 /\ Len(identifier_stack) >= 1
  /\ Last(type_stack) # NullType
  /\ \A i \in DOMAIN Fixed : Fixed[i] # NullIdentifier /\ Fixed[i].type # NullType

(* The parameters of a definition, each with an address of its own; of two *)
(* with one name the first counts.                                         *)
Address(p) ==
  [type |-> Pointer(p.type), term |-> <<"var", p.name, p.place>>,
   block |-> Len(blocks) + 1, const |-> FALSE]

Parameters ==
  LET named(n) == {i \in DOMAIN Fixed : Fixed[i].name = n}
      first(n) == Fixed[CHOOSE i \in named(n) : \A j \in named(n) : i <= j]
  IN  IF VoidInput THEN <<>>
      ELSE [n \in {Fixed[i].name : i \in DOMAIN Fixed} |->
              [first(n) EXCEPT !.value = Address(first(n))]]

(* The table of the context that the function is declared in.              *)
WithFunction(table, n, f) == [table EXCEPT !.function[n] = Inserted(@, f)]

(* Behind the parameters: the function is created, and entered if this is  *)
(* its definition.                                                         *)
ExitFunctionDeclarator ==
  LET n    == identifier_stack[1].name
      args == IF VoidInput THEN <<>> ELSE [i \in DOMAIN Fixed |-> Fixed[i].type]
      f    == Len(functions) + 1
      new  == [args |-> args, varargs |-> Variadic, value |-> f]
      defined == function_state = "kFunctionDefinition"
      declared == IF context_stack = <<>> THEN <<>>
                  ELSE [context_stack EXCEPT ![Len(context_stack)] = WithFunction(Top, n, new)]
  IN  /\ functions' = Append(functions,
           [name |-> n, ret |-> type_stack[1], args |-> args, varargs |-> Variadic,
            closed |-> FALSE, body |-> IF defined THEN <<Len(blocks) + 1>> ELSE <<>>])
      /\ global' = IF context_stack = <<>> THEN WithFunction(global, n, new) ELSE global
      /\ IF defined
         THEN /\ context_stack' = Append(declared, Context(Len(blocks) + 1, f, FALSE, Parameters))
              /\ blocks' = Append(blocks, Block(f))
              /\ insert' = Len(blocks')
         ELSE /\ context_stack' = declared
              /\ UNCHANGED <<blocks, insert>>
      /\ IF function_state = "kNotFunction" \/ VoidAmongOthers THEN Fatal ELSE UNCHANGED status
      /\ identifier_stack' = <<>>
      /\ type_stack' = <<>>
      /\ UNCHANGED <<flags, value_stack>>

(* A declarator with an initializer or without one.  Functions have been   *)
(* dealt with.                                                             *)
InitDeclaratorSurvives(op) ==
  function_state = "kNotFunction" =>
    /\ identifier_stack # <<>>
    /\ Last(identifier_stack).type # NullType
    /\ op = "=" => value_stack # <<>> /\ Above # NullValue

ExitInitDeclarator(op) ==
  LET id == Last(identifier_stack)
      cast == IF op = "=" THEN CastExplicitly(Above.type, id.type) ELSE "null"
      set == IF op = "=" THEN cast # "null" ELSE IsArithmetic(id.type)
  IN  IF function_state # "kNotFunction"
      THEN /\ function_state' = IF function_state = "kFunctionDeclaration" THEN "kNotFunction"
                                ELSE function_state
           /\ UNCHANGED <<variable_state, is_complete_type, is_pointer, sticky_context, value_top,
                          stacks, global, ir, status>>
      ELSE /\ identifier_stack' = Front(identifier_stack)
           /\ value_stack' = IF op = "=" THEN Front(value_stack) ELSE value_stack
           /\ IF context_stack = <<>>
              THEN /\ IF op = "=" /\ set /\ ~Above.const THEN Fatal ELSE UNCHANGED status
                   /\ global' = WithIdentifier(global, id)
                   /\ UNCHANGED <<blocks, context_stack>>
              ELSE /\ blocks' =
                        IF op = "=" /\ set
                        THEN Emitted(<<Instruction("store", <<id.value.term, Above.term>>,
                                         {Above.block, id.value.block},
                                         cast # "illegal" /\ id.type # VoidType)>>)
                        ELSE blocks
                   /\ context_stack' = [context_stack EXCEPT ![Len(context_stack)] =
                                          WithIdentifier(Top, id)]
                   /\ UNCHANGED <<global, status>>
           /\ UNCHANGED <<flags, type_stack, functions, insert>>
-----------------------------------------------------------------------------
(* Statements                                                              *)
VisitSelectionStatement ==
  /\ sticky_context' = TRUE
  /\ UNCHANGED <<variable_state, function_state, is_complete_type, is_pointer, value_top,
                 stacks, global, ir, status>>

(* The contexts of the branches are on top of that of the condition.       *)
Branches(op) == IF op = "if_else" THEN 2 ELSE 1
Around(op) == SubSeq(context_stack, 1, Len(context_stack) - Branches(op))
IfBlock(op) == context_stack[Len(Around(op)) + 1].llvm
ElseBlock == Top.llvm
Hooks(contexts) == {i \in DOMAIN contexts : contexts[i].hook # 0}

SelectionSurvives(op) ==
  /\ Len(context_stack) > Branches(op)
  /\ \A i \in Len(Around(op)) + 1 .. Len(context_stack) : context_stack[i].sticky
  /\ value_stack # <<>> /\ Above # NullValue
  /\ Hooks(Around(op)) # {}

(* The block of a branch with an if statement inside is the `resume' of    *)
(* that one, which the function has.  LLVM's assertion against it is off;  *)
(* without it the block's entry in the function's table of names is freed  *)
(* and stays there.                                                        *)
InsertedTwice(op) ==
  \E i \in Len(Around(op)) + 1 .. Len(context_stack) : blocks[context_stack[i].llvm].parent # 0

ExitSelectionStatement(op) ==
  LET head   == Last(Around(op)).llvm
      f      == Around(op)[CHOOSE i \in Hooks(Around(op)) :
                             \A j \in Hooks(Around(op)) : j <= i].hook
      resume == Len(blocks) + 1
      branches == IF op = "if_else" THEN <<IfBlock(op), ElseBlock>> ELSE <<IfBlock(op)>>
      body   == FoldLeft(PushBack, functions[f].body, Append(branches, resume))
      cond   == CondBr(Above.term, {Above.block}, Above.type = BoolType, IfBlock(op),
                       IF op = "if_else" THEN ElseBlock ELSE resume)
      Closed(b) == [parent |-> f,
                    code |-> IF Terminated(blocks[b]) THEN blocks[b].code
                             ELSE Append(blocks[b].code, Br(resume))]
  IN  /\ blocks' = Append([b \in DOMAIN blocks |->
                            CASE b \in ToSet(branches) -> Closed(b)
                              [] b = head /\ b \notin ToSet(branches) ->
                                   [blocks[b] EXCEPT !.code = Append(@, cond)]
                              [] OTHER -> blocks[b]],
                          Block(f))
      /\ functions' = [functions EXCEPT ![f].body = body]
      /\ insert' = resume
      /\ context_stack' = [Around(op) EXCEPT ![Len(Around(op))].llvm = resume]
      /\ value_stack' = Front(value_stack)
      /\ sticky_context' = FALSE
      /\ UNCHANGED <<variable_state, function_state, is_complete_type, is_pointer, value_top,
                     type_stack, identifier_stack, global, status>>

(* at(1) of a return statement is never null: ';' is there.                *)
JumpSurvives == context_stack # <<>> /\ value_stack # <<>>

ExitJumpStatement ==
  LET ret == functions[context_stack[1].hook].ret
      legal == Above # NullValue /\ Above.type # VoidType /\ Above.type = ret
  IN  /\ functions' = IF Top.hook = 0 THEN functions
                      ELSE [functions EXCEPT ![Top.hook].closed = TRUE]
      /\ blocks' = Emitted(<<Instruction("ret", Above.term, {Above.block}, legal)>>)
      /\ value_stack' = Front(value_stack)
      /\ UNCHANGED <<flags, type_stack, identifier_stack, context_stack, global, insert, status>>
-----------------------------------------------------------------------------
VisitMethod(r) ==
  \/ r.class = "AssignmentExpression" /\ VisitAssignmentExpression
  \/ r.class = "PostfixExpression" /\ r.op = "(" /\ VisitPostfixExpression
  \/ r.class = "FunctionDefinition" /\ VisitFunctionDefinition
  \/ r.class = "CompoundStatement" /\ VisitCompoundStatement
  \/ r.class = "Declaration" /\ VisitDeclaration(r.op)
  \/ r.class = "DeclarationSpecifiers" /\ VisitDeclarationSpecifiers(r.op)
  \/ r.class = "Declarator" /\ VisitDeclarator(r.op)
  \/ r.class = "DirectDeclarator" /\ VisitDirectDeclarator(r.op)
  \/ r.class = "SelectionStatement" /\ VisitSelectionStatement
  \/ /\ \/ r.class \in {"NonTerminal", "BinaryExpression", "UnaryExpression", "ParameterList",
                        "ParameterDeclaration", "InitDeclarator", "ExpressionStatement",
                        "IterationStatement", "JumpStatement"}
        \/ r.class = "PostfixExpression" /\ r.op # "("
     /\ UNCHANGED visitor

VisitSurvives(r) ==
  CASE r.class = "CompoundStatement" -> BlockSurvives
    [] r.class = "DirectDeclarator" -> VisitDirectDeclaratorSurvives(r.op)
    [] r.class = "ParameterDeclaration" -> VisitParameterDeclarationSurvives(r.op)
    [] OTHER -> TRUE

ExitMethod(r) ==
  \/ r.class = "AssignmentExpression" /\ ExitAssignmentExpression(r.op)
  \/ r.class = "BinaryExpression" /\ ExitBinaryExpression(r.op)
  \/ r.class = "PostfixExpression" /\ ExitPostfixExpression
  \/ r.class = "FunctionDefinition" /\ ExitFunctionDefinition
  \/ r.class = "ParameterList" /\ ExitParameterList(r.op)
  \/ r.class = "ParameterDeclaration" /\ ExitParameterDeclaration(r.op)
  \/ r.class = "CompoundStatement" /\ ExitCompoundStatement
  \/ r.class = "Declaration" /\ ExitDeclaration
  \/ r.class = "DeclarationSpecifiers" /\ ExitDeclarationSpecifiers
  \/ r.class = "DirectDeclarator" /\ r.op = "" /\ ExitName
  \/ r.class = "DirectDeclarator" /\ r.op = "(" /\ ExitFunctionDeclarator
  \/ r.class = "InitDeclarator" /\ ExitInitDeclarator(r.op)
  \/ r.class = "SelectionStatement" /\ ExitSelectionStatement(r.op)
  \/ r.class = "JumpStatement" /\ ExitJumpStatement
  \/ r.class \in {"UnaryExpression", "Declarator", "ExpressionStatement", "IterationStatement"}
     /\ UNCHANGED visitor

ExitSurvives(r) ==
  CASE r.class = "AssignmentExpression" -> AssignmentSurvives(r.op)
    [] r.class = "BinaryExpression" -> BinarySurvives
    [] r.class = "PostfixExpression" -> PostfixSurvives
    [] r.class = "FunctionDefinition" -> FunctionDefinitionSurvives
    [] r.class = "ParameterDeclaration" -> ParameterDeclarationSurvives(r.op)
    [] r.class = "CompoundStatement" -> context_stack # <<>>
    [] r.class = "DirectDeclarator" /\ r.op = "" -> NameSurvives
    [] r.class = "DirectDeclarator" /\ r.op = "(" -> FunctionDeclaratorSurvives
    [] r.class = "InitDeclarator" -> InitDeclaratorSurvives(r.op)
    [] r.class = "SelectionStatement" -> SelectionSurvives(r.op)
    [] r.class = "JumpStatement" -> JumpSurvives
    [] OTHER -> TRUE

(* Invoke: a symbol that is reached, by one of its rules ...               *)
RulesHere == IF Head(todo).k = "tree" THEN {Head(todo).v} ELSE Schemes[scheme].rules[Head(todo).v]

Cost(r) == Len(r.kids) - Len((CHOOSE s \in RulesHere : \A t \in RulesHere : Len(s.kids) <= Len(t.kids)).kids)

Abort == outcome' = "aborted" /\ todo' = <<>> /\ UNCHANGED <<visitor, source>>

Visit(r) ==
  /\ Cost(r) <= budget
  /\ budget' = budget - Cost(r)
  /\ \/ /\ VisitSurvives(r) /\ VisitMethod(r)
        /\ todo' = r.kids \o (IF r.class = "NonTerminal" THEN <<>> ELSE <<Exit(r)>>) \o Tail(todo)
        /\ source' = Enter(source, r.class)
        /\ UNCHANGED outcome
     \/ ~VisitSurvives(r) /\ Abort
  /\ UNCHANGED <<scheme, place>>

VisitSymbol == todo # <<>> /\ Head(todo).k \in {"symbol", "tree"} /\ \E r \in RulesHere : Visit(r)

Defined(r) == r.class = "SelectionStatement" => ~InsertedTwice(r.op)

(* ... one whose children have been visited: what is undefined goes on as  *)
(* if nothing were wrong, or ends the run ...                              *)
ExitSymbol ==
  /\ todo # <<>> /\ Head(todo).k = "exit"
  /\ LET r == Head(todo).v
     IN  \/ /\ ExitSurvives(r) /\ ExitMethod(r)
            /\ todo' = Tail(todo)
            /\ source' = Leave(source, r.class, r.op)
            /\ UNCHANGED outcome
         \/ ~(ExitSurvives(r) /\ Defined(r)) /\ Abort
  /\ UNCHANGED <<scheme, budget, place>>

(* ... and terminals.                                                      *)
VisitTerminal ==
  /\ todo # <<>> /\ Head(todo).k \in {"constant", "variable", "callee", "declared"}
  /\ place' = place + 1
  /\ \E n \in Head(todo).v :
       /\ IF Head(todo).k = "constant" THEN VisitConstant ELSE VisitIdentifier(n)
       /\ source' = ReadTerminal(source, Head(todo).k, n, place')
  /\ todo' = Tail(todo)
  /\ UNCHANGED <<scheme, budget, outcome>>

VisitMark ==
  /\ todo # <<>> /\ Head(todo).k = "mark"
  /\ source' = CASE Head(todo).v = "then" -> ReadThen(source)
                 [] Head(todo).v = "else" -> ReadElse(source)
                 [] Head(todo).v = "..."  -> ReadEllipsis(source)
  /\ todo' = Tail(todo)
  /\ UNCHANGED <<scheme, budget, place, visitor, outcome>>

Finish ==
  /\ todo = <<>> /\ outcome = "running"
  /\ outcome' = "done"
  /\ UNCHANGED <<walk, visitor, source>>

Next == VisitSymbol \/ ExitSymbol \/ VisitTerminal \/ VisitMark \/ Finish

Spec == Init /\ [][Next]_vars
-----------------------------------------------------------------------------
Between ==
  todo = <<>> \/ (Head(todo).k = "symbol" /\ Head(todo).v = "external_declarations")

(* The types of the visitor's members.                                     *)
VisitorTypeOK ==
  /\ variable_state \in {"kAccess", "kDefinition", "kFunction", "kAddress"}
  /\ function_state \in {"kNotFunction", "kFunctionDeclaration", "kFunctionDefinition"}
  /\ {is_complete_type, is_pointer, sticky_context} \subseteq BOOLEAN
  /\ value_top \in Nat /\ insert \in 0 .. Len(blocks)
  /\ \A i \in DOMAIN context_stack :
       /\ DOMAIN context_stack[i] = {"llvm", "hook", "sticky", "identifier", "function"}
       /\ context_stack[i].llvm \in DOMAIN blocks
       /\ context_stack[i].hook \in 0 .. Len(functions)
       /\ context_stack[i].sticky \in BOOLEAN
  /\ status \in {"OK", "Corruption"} /\ outcome \in {"running", "done", "aborted"}

(* Whatever was entered and left, code goes into the block of the          *)
(* innermost context, and nowhere outside of functions.                    *)
BuilderAtTop ==
  insert = IF context_stack = <<>> THEN NoBlock ELSE Top.llvm

(* A context that is a function's own stays in a block of that function    *)
(* when branches replace its block: what ExitFunctionDefinition asserts    *)
(* with function->value == f.                                              *)
HookOwnsBlock ==
  \A i \in DOMAIN context_stack :
    context_stack[i].hook # 0 =>
      blocks[context_stack[i].llvm].parent = context_stack[i].hook

(* Between two external declarations these are as they were at first: the  *)
(* contexts, types and identifiers, the builder, and the four members that *)
(* have an initial value.  It is not said of value_stack_, where the value *)
(* of a statement f(1); stays for good, nor of sticky_context_ and         *)
(* value_top: nothing initializes them, and a function and a call set them *)
(* before anything reads them.                                             *)
StacksClean ==
  outcome # "aborted" /\ Between =>
    /\ context_stack = <<>> /\ insert = NoBlock
    /\ type_stack = <<>> /\ identifier_stack = <<>>
    /\ is_complete_type /\ ~is_pointer
    /\ function_state = "kNotFunction" /\ variable_state = "kAccess"

(* Functions that have a body, in the order of the source.                 *)
Bodies == SelectSeq(functions, LAMBDA f : f.body # <<>>)

CodeIsSource ==
  \A i \in DOMAIN source.meant :
    Behaviours(blocks, Head(Bodies[i].body)) = source.meant[i]

(* Where the compiler reports no error, the code of each function does     *)
(* what the source says: on each route through its blocks the same stores, *)
(* calls, conditions and result as on one of the ways through the source,  *)
(* and the other way round.  This is claimed where no if statement is      *)
(* inside a branch of another.                                             *)
MeaningPreserved == status = "OK" /\ source.valid /\ ~source.nested => CodeIsSource

(* "= if ( expression ) statement": so it is for if statements inside the  *)
(* branches of others.                                                     *)
NestedIfPreserved == status = "OK" /\ source.valid => CodeIsSource

(* "= parameter_list , `...`": a function declared with "..." takes any    *)
(* further arguments in the module as well, and no other function does.    *)
VariadicRecognised ==
  \A i \in DOMAIN functions : functions[i].varargs = source.variadic[i]
=============================================================================
