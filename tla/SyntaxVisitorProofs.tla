------------------------ MODULE SyntaxVisitorProofs ------------------------
(***************************************************************************)
(* BuilderAtTop, HookOwnsBlock and VisitorTypeOK for every scheme, hence   *)
(* for all trees; StacksClean for all trees of the grammar in SyntaxTree.  *)
(***************************************************************************)
EXTENDS SyntaxVisitor, TLAPS

(* A sequence of records with certain fields.                              *)
Records(s, fields) == \E S : s \in Seq(S) /\ \A e \in S : fields \subseteq DOMAIN e

ContextFields == {"llvm", "hook", "sticky"}
BlockFields == {"parent", "code"}

LEMMA RecordsLength ==
  ASSUME NEW s, NEW F, Records(s, F)
  PROVE  /\ Len(s) \in Nat /\ DOMAIN s = 1 .. Len(s)
         /\ s = <<>> <=> Len(s) = 0
         /\ \A i \in DOMAIN s : F \subseteq DOMAIN s[i]
  BY DEF Records

LEMMA RecordsAppend ==
  ASSUME NEW s, NEW F, Records(s, F), NEW e, F \subseteq DOMAIN e
  PROVE  /\ Records(Append(s, e), F)
         /\ Len(Append(s, e)) = Len(s) + 1
         /\ \A i \in 1 .. Len(s) : Append(s, e)[i] = s[i]
         /\ Append(s, e)[Len(s) + 1] = e
<1>1. PICK S : s \in Seq(S) /\ \A x \in S : F \subseteq DOMAIN x
  BY DEF Records
<1>2. /\ s \in Seq(S \cup {e})
      /\ \A x \in S \cup {e} : F \subseteq DOMAIN x
  BY <1>1
<1>3. Append(s, e) \in Seq(S \cup {e})
  BY <1>2
<1>4. Records(Append(s, e), F)
  BY <1>2, <1>3 DEF Records
<1> QED
  BY <1>1, <1>4

LEMMA RecordsReplace ==
  ASSUME NEW s, NEW F, Records(s, F), NEW k \in DOMAIN s, NEW e, F \subseteq DOMAIN e
  PROVE  /\ Records([s EXCEPT ![k] = e], F)
         /\ Len([s EXCEPT ![k] = e]) = Len(s)
         /\ \A i \in DOMAIN s : [s EXCEPT ![k] = e][i] = IF i = k THEN e ELSE s[i]
<1>1. PICK S : s \in Seq(S) /\ \A x \in S : F \subseteq DOMAIN x
  BY DEF Records
<1>2. /\ s \in Seq(S \cup {e})
      /\ \A x \in S \cup {e} : F \subseteq DOMAIN x
  BY <1>1
<1>3. [s EXCEPT ![k] = e] \in Seq(S \cup {e})
  BY <1>2
<1>4. Records([s EXCEPT ![k] = e], F)
  BY <1>2, <1>3 DEF Records
<1> QED
  BY <1>1, <1>4

LEMMA RecordsPrefix ==
  ASSUME NEW s, NEW F, Records(s, F), NEW n \in 0 .. Len(s)
  PROVE  /\ Records(SubSeq(s, 1, n), F)
         /\ Len(SubSeq(s, 1, n)) = n
         /\ \A i \in 1 .. n : SubSeq(s, 1, n)[i] = s[i]
<1>1. PICK S : s \in Seq(S) /\ \A x \in S : F \subseteq DOMAIN x
  BY DEF Records
<1>2. SubSeq(s, 1, n) \in Seq(S)
  BY <1>1
<1>3. Records(SubSeq(s, 1, n), F)
  BY <1>1, <1>2 DEF Records
<1> QED
  BY <1>1, <1>3

LEMMA RecordsMap ==
  ASSUME NEW s, NEW F, Records(s, F), NEW t,
         t = [i \in DOMAIN s |-> t[i]], \A i \in DOMAIN s : F \subseteq DOMAIN t[i]
  PROVE  Records(t, F) /\ Len(t) = Len(s)
<1>1. Len(s) \in Nat /\ DOMAIN s = 1 .. Len(s)
  BY RecordsLength
<1> DEFINE S == {t[i] : i \in DOMAIN s}
<1>2. t \in Seq(S) /\ Len(t) = Len(s)
  BY <1>1
<1>3. \A x \in S : F \subseteq DOMAIN x
  OBVIOUS
<1> QED
  BY <1>2, <1>3 DEF Records

-----------------------------------------------------------------------------
(* The inductive invariant.                                                *)
InBlocks == \A i \in DOMAIN context_stack : context_stack[i].llvm \in DOMAIN blocks

BlocksDiffer ==
  \A i, j \in DOMAIN context_stack : context_stack[i].llvm = context_stack[j].llvm => i = j

IInv ==
  /\ Records(context_stack, ContextFields) /\ Records(blocks, BlockFields)
  /\ InBlocks /\ BlocksDiffer /\ BuilderAtTop /\ HookOwnsBlock

(* What most methods do to the blocks: they add code.                      *)
ParentsKept ==
  /\ Records(blocks', BlockFields) /\ Len(blocks') >= Len(blocks)
  /\ \A b \in DOMAIN blocks : blocks'[b].parent = blocks[b].parent

(* Contexts in the same blocks and with the same hooks.                    *)
Alike(contexts) ==
  /\ Records(contexts, ContextFields) /\ Len(contexts) = Len(context_stack)
  /\ \A i \in DOMAIN context_stack :
       /\ contexts[i].llvm = context_stack[i].llvm
       /\ contexts[i].hook = context_stack[i].hook

Quiet == Alike(context_stack') /\ insert' = insert /\ ParentsKept

LEMMA InitInvariant == Init => IInv
<1> SUFFICES ASSUME Init PROVE IInv
  OBVIOUS
<1>1. context_stack = <<>> /\ blocks = <<>> /\ insert = NoBlock
  BY DEF Init
<1>2. \A F : Records(<<>>, F)
  <2> TAKE F
  <2> DEFINE S == {}
  <2>1. <<>> \in Seq(S) /\ \A e \in S : F \subseteq DOMAIN e
    OBVIOUS
  <2> HIDE DEF S
  <2> QED
    BY <2>1 DEF Records
<1>3. DOMAIN <<>> = {}
  OBVIOUS
<1> QED
  BY <1>1, <1>2, <1>3 DEF IInv, InBlocks, BlocksDiffer, BuilderAtTop, HookOwnsBlock

LEMMA InsertInBlocks == IInv /\ insert # NoBlock => insert \in DOMAIN blocks
<1> SUFFICES ASSUME IInv, insert # NoBlock PROVE insert \in DOMAIN blocks
  OBVIOUS
<1>1. context_stack # <<>> /\ insert = context_stack[Len(context_stack)].llvm
  BY DEF IInv, BuilderAtTop, Top, Last
<1>2. Len(context_stack) \in DOMAIN context_stack
  BY <1>1, RecordsLength DEF IInv
<1> QED
  BY <1>1, <1>2 DEF IInv, InBlocks

LEMMA UnchangedKeeps == IInv /\ UNCHANGED blocks => ParentsKept
<1> SUFFICES ASSUME IInv, UNCHANGED blocks PROVE ParentsKept
  OBVIOUS
<1>1. Len(blocks) \in Nat
  BY RecordsLength DEF IInv
<1> QED
  BY <1>1 DEF ParentsKept, IInv

LEMMA EmittedKeeps == \A code : IInv /\ blocks' = Emitted(code) => ParentsKept
<1> SUFFICES ASSUME NEW code, IInv, blocks' = Emitted(code) PROVE ParentsKept
  OBVIOUS
<1>1. CASE insert = NoBlock
  BY <1>1, UnchangedKeeps DEF Emitted
<1>2. CASE insert # NoBlock
  <2> DEFINE e == [blocks[insert] EXCEPT !.code = @ \o code]
  <2>1. insert \in DOMAIN blocks
    BY <1>2, InsertInBlocks
  <2>2. BlockFields \subseteq DOMAIN blocks[insert]
    BY <2>1, RecordsLength DEF IInv
  <2>3. BlockFields \subseteq DOMAIN e /\ e.parent = blocks[insert].parent
    BY <2>2 DEF BlockFields
  <2>4. blocks' = [blocks EXCEPT ![insert] = e]
    BY <1>2 DEF Emitted
  <2> HIDE DEF e
  <2>7. Records(blocks, BlockFields) /\ BlockFields \subseteq DOMAIN e
    BY <2>3 DEF IInv
  <2>8. /\ Records([blocks EXCEPT ![insert] = e], BlockFields)
        /\ Len([blocks EXCEPT ![insert] = e]) = Len(blocks)
        /\ \A i \in DOMAIN blocks :
             [blocks EXCEPT ![insert] = e][i] = IF i = insert THEN e ELSE blocks[i]
    BY ONLY <2>1, <2>7, RecordsReplace, Zenon
  <2>5. /\ Records(blocks', BlockFields) /\ Len(blocks') = Len(blocks)
        /\ \A i \in DOMAIN blocks : blocks'[i] = IF i = insert THEN e ELSE blocks[i]
    BY <2>4, <2>8
  <2>6. Len(blocks) \in Nat
    BY RecordsLength DEF IInv
  <2> QED
    BY <2>3, <2>5, <2>6 DEF ParentsKept
<1> QED
  BY <1>1, <1>2

LEMMA SameAlike == IInv => Alike(context_stack)
BY DEF Alike, IInv

LEMMA TopAlike ==
  ASSUME IInv, context_stack # <<>>, NEW c, ContextFields \subseteq DOMAIN c,
         c.llvm = Top.llvm, c.hook = Top.hook
  PROVE  Alike([context_stack EXCEPT ![Len(context_stack)] = c])
<1> DEFINE n == Len(context_stack)
<1>1. /\ n \in Nat /\ DOMAIN context_stack = 1 .. n /\ n # 0
      /\ Records(context_stack, ContextFields)
  BY RecordsLength DEF IInv
<1>2. n \in DOMAIN context_stack /\ Top = context_stack[n]
  BY <1>1 DEF Top, Last
<1> HIDE DEF n
<1>3. /\ Records([context_stack EXCEPT ![n] = c], ContextFields)
      /\ Len([context_stack EXCEPT ![n] = c]) = Len(context_stack)
      /\ \A i \in DOMAIN context_stack :
           [context_stack EXCEPT ![n] = c][i] = IF i = n THEN c ELSE context_stack[i]
  <2>1. /\ Records(context_stack, ContextFields) /\ ContextFields \subseteq DOMAIN c
        /\ n \in DOMAIN context_stack
    BY <1>1, <1>2
  <2> QED
    BY ONLY <2>1, RecordsReplace, Zenon
<1>4. Alike([context_stack EXCEPT ![n] = c])
  BY <1>2, <1>3 DEF Alike
<1> QED
  BY <1>4 DEF n

LEMMA QuietPreserves == IInv /\ Quiet => IInv'
<1> SUFFICES ASSUME IInv, Quiet PROVE IInv'
  OBVIOUS
<1>0. /\ Records(context_stack, ContextFields) /\ Records(blocks, BlockFields)
      /\ Records(context_stack', ContextFields) /\ Records(blocks', BlockFields)
  BY DEF IInv, Quiet, Alike, ParentsKept
<1>1. DOMAIN blocks \subseteq DOMAIN blocks'
  <2>1. Len(blocks) \in Nat /\ DOMAIN blocks = 1 .. Len(blocks)
    BY <1>0, RecordsLength
  <2>2. Len(blocks') \in Nat /\ DOMAIN blocks' = 1 .. Len(blocks')
    BY <1>0, RecordsLength
  <2> QED
    BY <2>1, <2>2 DEF Quiet, ParentsKept
<1>2. /\ DOMAIN context_stack = 1 .. Len(context_stack) /\ Len(context_stack) \in Nat
      /\ DOMAIN context_stack' = DOMAIN context_stack
      /\ Len(context_stack') = Len(context_stack)
      /\ context_stack = <<>> <=> Len(context_stack) = 0
      /\ context_stack' = <<>> <=> Len(context_stack) = 0
  BY <1>0, RecordsLength DEF Quiet, Alike
<1>4. InBlocks'
  BY <1>1, <1>2 DEF InBlocks, IInv, Quiet, Alike
<1>5. BuilderAtTop'
  BY <1>2 DEF BuilderAtTop, Top, Last, IInv, Quiet, Alike
<1>6. HookOwnsBlock'
  BY <1>2 DEF HookOwnsBlock, InBlocks, IInv, Quiet, Alike, ParentsKept
<1>7. BlocksDiffer'
  BY <1>2 DEF BlocksDiffer, IInv, Quiet, Alike
<1> QED
  BY <1>0, <1>4, <1>5, <1>6, <1>7 DEF IInv

LEMMA PopPreserves == IInv /\ context_stack # <<>> /\ PopBlock /\ ParentsKept => IInv'
<1> SUFFICES ASSUME IInv, context_stack # <<>>, PopBlock, ParentsKept PROVE IInv'
  OBVIOUS
<1> DEFINE n == Len(context_stack) - 1
<1>0. Records(context_stack, ContextFields) /\ Records(blocks, BlockFields)
  BY DEF IInv
<1>1. n \in 0 .. Len(context_stack) /\ DOMAIN context_stack = 1 .. n + 1
  BY <1>0, RecordsLength
<1>2. context_stack' = SubSeq(context_stack, 1, n)
  BY DEF PopBlock, Front
<1> HIDE DEF n
<1>3. /\ Records(context_stack', ContextFields) /\ Len(context_stack') = n
      /\ \A i \in 1 .. n : context_stack'[i] = context_stack[i]
  BY <1>0, <1>1, <1>2, RecordsPrefix
<1>4. DOMAIN context_stack' = 1 .. n /\ (context_stack' = <<>> <=> n = 0)
  BY <1>3, RecordsLength
<1>5. DOMAIN blocks \subseteq DOMAIN blocks'
  <2>1. Len(blocks) \in Nat /\ DOMAIN blocks = 1 .. Len(blocks)
    BY <1>0, RecordsLength
  <2>2. Len(blocks') \in Nat /\ DOMAIN blocks' = 1 .. Len(blocks')
    BY RecordsLength DEF ParentsKept
  <2> QED
    BY <2>1, <2>2 DEF ParentsKept
<1>6. InBlocks'
  BY <1>1, <1>3, <1>4, <1>5 DEF InBlocks, IInv
<1>7. BuilderAtTop'
  <2>1. insert' = IF n > 0 THEN Last(context_stack').llvm ELSE NoBlock
    BY <1>1 DEF PopBlock, n
  <2> QED
    BY <2>1, <1>1, <1>4 DEF BuilderAtTop, Top
<1>8. HookOwnsBlock'
  BY <1>1, <1>3, <1>4 DEF HookOwnsBlock, InBlocks, IInv, ParentsKept
<1>9. BlocksDiffer'
  BY <1>1, <1>3, <1>4 DEF BlocksDiffer, IInv
<1> QED
  BY <1>3, <1>6, <1>7, <1>8, <1>9 DEF IInv, ParentsKept

LEMMA PushPreserves ==
  ASSUME IInv, NEW contexts, Alike(contexts),
         NEW c, ContextFields \subseteq DOMAIN c, c.llvm = Len(blocks) + 1,
         NEW b, BlockFields \subseteq DOMAIN b, c.hook # 0 => b.parent = c.hook,
         blocks' = Append(blocks, b), insert' = Len(blocks'),
         context_stack' = Append(contexts, c)
  PROVE  IInv'
<1> DEFINE n == Len(context_stack)
<1>0. /\ Records(contexts, ContextFields) /\ Records(blocks, BlockFields)
      /\ Records(context_stack, ContextFields) /\ Len(contexts) = n
  BY DEF IInv, Alike
<1>1. n \in Nat /\ DOMAIN context_stack = 1 .. n
  BY <1>0, RecordsLength
<1>2. Len(blocks) \in Nat /\ DOMAIN blocks = 1 .. Len(blocks)
  BY <1>0, RecordsLength
<1>3. /\ Records(context_stack', ContextFields) /\ Len(context_stack') = n + 1
      /\ \A i \in 1 .. n : context_stack'[i] = contexts[i]
      /\ context_stack'[n + 1] = c
  BY <1>0, RecordsAppend
<1>4. /\ Records(blocks', BlockFields) /\ Len(blocks') = Len(blocks) + 1
      /\ \A i \in 1 .. Len(blocks) : blocks'[i] = blocks[i]
      /\ blocks'[Len(blocks) + 1] = b
  BY <1>0, RecordsAppend
<1> HIDE DEF n
<1>5. /\ DOMAIN context_stack' = 1 .. n + 1 /\ context_stack' # <<>>
      /\ DOMAIN blocks' = 1 .. Len(blocks) + 1
  BY <1>1, <1>3, <1>4, RecordsLength
<1>6. \A i \in 1 .. n : /\ context_stack'[i].llvm = context_stack[i].llvm
                       /\ context_stack'[i].hook = context_stack[i].hook
  BY <1>1, <1>3 DEF Alike
<1>7. InBlocks'
  BY <1>1, <1>2, <1>3, <1>5, <1>6, SMTT(30) DEF InBlocks, IInv
<1>8. BuilderAtTop'
  BY <1>1, <1>3, <1>4, <1>5 DEF BuilderAtTop, Top, Last
<1>9. HookOwnsBlock'
  <2> SUFFICES ASSUME NEW i \in 1 .. n + 1, context_stack'[i].hook # 0
               PROVE  blocks'[context_stack'[i].llvm].parent = context_stack'[i].hook
    BY <1>5 DEF HookOwnsBlock
  <2>1. CASE i = n + 1
    BY <2>1, <1>3, <1>4
  <2>2. CASE i # n + 1
    <3>1. i \in 1 .. n
      BY <2>2, <1>1
    <3>2. context_stack[i].llvm \in 1 .. Len(blocks)
      BY <3>1, <1>1, <1>2 DEF IInv, InBlocks
    <3>3. blocks[context_stack[i].llvm].parent = context_stack[i].hook
      BY <3>1, <1>1, <1>6 DEF IInv, HookOwnsBlock
    <3> QED
      BY <3>1, <3>2, <3>3, <1>4, <1>6
  <2> QED
    BY <2>1, <2>2
<1>10. BlocksDiffer'
  <2> SUFFICES ASSUME NEW i \in 1 .. n + 1, NEW j \in 1 .. n + 1,
                      context_stack'[i].llvm = context_stack'[j].llvm
               PROVE  i = j
    BY <1>5 DEF BlocksDiffer
  <2>1. \A k \in 1 .. n : context_stack'[k].llvm \in 1 .. Len(blocks)
    BY <1>1, <1>2, <1>6 DEF IInv, InBlocks
  <2>2. context_stack'[n + 1].llvm = Len(blocks) + 1
    BY <1>3
  <2>3. CASE i \in 1 .. n /\ j \in 1 .. n
    BY <2>3, <1>1, <1>6 DEF IInv, BlocksDiffer
  <2>4. CASE i = n + 1 \/ j = n + 1
    BY <2>1, <2>2, <2>4, <1>1, <1>2
  <2> QED
    BY <2>3, <2>4, <1>1
<1> QED
  BY <1>3, <1>4, <1>7, <1>8, <1>9, <1>10 DEF IInv

-----------------------------------------------------------------------------
(* The methods that leave the contexts where they are.                     *)
LEMMA StutterQuiet == IInv /\ UNCHANGED <<context_stack, insert, blocks>> => Quiet
BY SameAlike, UnchangedKeeps DEF Quiet

LEMMA CodeQuiet ==
  ASSUME IInv, UNCHANGED <<context_stack, insert>>, NEW code, blocks' = Emitted(code)
  PROVE  Quiet
BY SameAlike, EmittedKeeps DEF Quiet

LEMMA TerminalsQuiet ==
  ASSUME IInv, NEW n, VisitConstant \/ VisitIdentifier(n)
  PROVE  Quiet
<1>1. CASE VisitConstant
  BY <1>1, StutterQuiet DEF VisitConstant, ir
<1>2. CASE VisitIdentifier(n)
  <2>1. UNCHANGED <<context_stack, insert>>
    BY <1>2 DEF VisitIdentifier
  <2>2. CASE UNCHANGED blocks
    BY <2>1, <2>2, StutterQuiet
  <2>3. CASE ~UNCHANGED blocks
    <3>1. \E code : blocks' = Emitted(code)
      BY <1>2, <2>3 DEF VisitIdentifier
    <3> QED
      BY <2>1, <3>1, CodeQuiet
  <2> QED
    BY <2>2, <2>3
<1> QED
  BY <1>1, <1>2

LEMMA ExpressionsQuiet ==
  ASSUME IInv, NEW op,
         \/ VisitAssignmentExpression \/ ExitAssignmentExpression(op)
         \/ ExitBinaryExpression(op)
         \/ VisitPostfixExpression \/ ExitPostfixExpression
         \/ ExitJumpStatement
  PROVE  Quiet
<1>1. CASE VisitAssignmentExpression \/ VisitPostfixExpression
  BY <1>1, StutterQuiet DEF VisitAssignmentExpression, VisitPostfixExpression, stacks, ir
<1>2. CASE ExitAssignmentExpression(op)
  <2>1. UNCHANGED <<context_stack, insert>> /\ \E code : blocks' = Emitted(code)
    BY <1>2 DEF ExitAssignmentExpression
  <2> QED
    BY <2>1, CodeQuiet
<1>3. CASE ExitBinaryExpression(op)
  <2>1. /\ UNCHANGED <<context_stack, insert>>
        /\ UNCHANGED blocks \/ \E code : blocks' = Emitted(code)
    BY <1>3 DEF ExitBinaryExpression
  <2> QED
    BY <2>1, StutterQuiet, CodeQuiet
<1>4. CASE ExitPostfixExpression
  <2>1. /\ UNCHANGED <<context_stack, insert>>
        /\ UNCHANGED blocks \/ \E code : blocks' = Emitted(code)
    BY <1>4 DEF ExitPostfixExpression
  <2> QED
    BY <2>1, StutterQuiet, CodeQuiet
<1>5. CASE ExitJumpStatement
  <2>1. UNCHANGED <<context_stack, insert>> /\ \E code : blocks' = Emitted(code)
    BY <1>5 DEF ExitJumpStatement
  <2> QED
    BY <2>1, CodeQuiet
<1> QED
  BY <1>1, <1>2, <1>3, <1>4, <1>5

LEMMA DeclarationsQuiet ==
  ASSUME IInv, NEW op,
         \/ VisitFunctionDefinition
         \/ ExitParameterList(op) \/ ExitParameterDeclaration(op)
         \/ VisitDeclaration(op) \/ ExitDeclaration
         \/ VisitDeclarationSpecifiers(op) \/ ExitDeclarationSpecifiers
         \/ VisitDeclarator(op) \/ VisitDirectDeclarator(op)
         \/ VisitSelectionStatement
         \/ UNCHANGED visitor
  PROVE  Quiet
<1>1. UNCHANGED <<context_stack, insert, blocks>>
  BY DEF VisitFunctionDefinition, ExitParameterList, ExitParameterDeclaration, VisitDeclaration,
         ExitDeclaration, VisitDeclarationSpecifiers, ExitDeclarationSpecifiers, VisitDeclarator,
         VisitDirectDeclarator, VisitSelectionStatement, visitor, stacks, ir
<1> QED
  BY <1>1, StutterQuiet

LEMMA NameQuiet == IInv /\ ExitName => Quiet
<1> SUFFICES ASSUME IInv, ExitName PROVE Quiet
  OBVIOUS
<1>1. /\ UNCHANGED <<context_stack, insert>>
      /\ UNCHANGED blocks \/ \E code : blocks' = Emitted(code)
  BY DEF ExitName
<1> QED
  BY <1>1, StutterQuiet, CodeQuiet

(* The variable or function that is declared changes the table of the      *)
(* innermost context, not its block.                                       *)
LEMMA TopHasFields ==
  ASSUME IInv, context_stack # <<>>
  PROVE  ContextFields \subseteq DOMAIN Top
<1>1. Len(context_stack) \in DOMAIN context_stack
  BY RecordsLength DEF IInv
<1> QED
  BY <1>1, RecordsLength DEF IInv, Top, Last

LEMMA InitDeclaratorQuiet ==
  ASSUME IInv, NEW op, ExitInitDeclarator(op)
  PROVE  Quiet
<1>1. CASE UNCHANGED <<context_stack, insert, blocks>>
  BY <1>1, StutterQuiet
<1>2. CASE ~UNCHANGED <<context_stack, insert, blocks>>
  <2> DEFINE c == WithIdentifier(Top, Last(identifier_stack))
  <2>1. /\ context_stack # <<>> /\ insert' = insert
        /\ context_stack' = [context_stack EXCEPT ![Len(context_stack)] = c]
        /\ UNCHANGED blocks \/ \E code : blocks' = Emitted(code)
    BY <1>2 DEF ExitInitDeclarator, stacks, ir
  <2>2. ContextFields \subseteq DOMAIN c /\ c.llvm = Top.llvm /\ c.hook = Top.hook
    BY <2>1, TopHasFields DEF WithIdentifier, ContextFields
  <2> HIDE DEF c
  <2>3. Alike(context_stack')
    BY <2>1, <2>2, TopAlike
  <2>4. ParentsKept
    BY <2>1, UnchangedKeeps, EmittedKeeps
  <2> QED
    BY <2>1, <2>3, <2>4 DEF Quiet
<1> QED
  BY <1>1, <1>2

-----------------------------------------------------------------------------
(* The methods that enter and leave contexts.                              *)
LEMMA NewBlock ==
  ASSUME NEW f
  PROVE  BlockFields \subseteq DOMAIN Block(f) /\ Block(f).parent = f
BY DEF Block, BlockFields

LEMMA BlocksAppended ==
  ASSUME IInv, NEW b, BlockFields \subseteq DOMAIN b, blocks' = Append(blocks, b)
  PROVE  Len(blocks') = Len(blocks) + 1
BY RecordsAppend DEF IInv

LEMMA FunctionDeclaratorPreserves == IInv /\ ExitFunctionDeclarator => IInv'
<1> SUFFICES ASSUME IInv, ExitFunctionDeclarator PROVE IInv'
  OBVIOUS
<1> DEFINE n == identifier_stack[1].name
           f == Len(functions) + 1
           args == IF VoidInput THEN <<>> ELSE [i \in DOMAIN Fixed |-> Fixed[i].type]
           new == [args |-> args, varargs |-> Variadic, value |-> f]
           declared == IF context_stack = <<>> THEN <<>>
                       ELSE [context_stack EXCEPT ![Len(context_stack)] = WithFunction(Top, n, new)]
<1>1. Alike(declared)
  <2>1. CASE context_stack = <<>>
    BY <2>1, SameAlike
  <2>2. CASE context_stack # <<>>
    <3> HIDE DEF n, new
    <3> DEFINE c == WithFunction(Top, n, new)
    <3>1. ContextFields \subseteq DOMAIN c /\ c.llvm = Top.llvm /\ c.hook = Top.hook
      BY <2>2, TopHasFields DEF WithFunction, ContextFields
    <3>2. declared = [context_stack EXCEPT ![Len(context_stack)] = c]
      BY <2>2
    <3> HIDE DEF c, declared
    <3> QED
      BY <2>2, <3>1, <3>2, TopAlike
  <2> QED
    BY <2>1, <2>2
<1>2. CASE function_state = "kFunctionDefinition"
  <2> DEFINE c == Context(Len(blocks) + 1, f, FALSE, Parameters)
  <2>1. /\ context_stack' = Append(declared, c)
        /\ blocks' = Append(blocks, Block(f))
        /\ insert' = Len(blocks')
    BY <1>2 DEF ExitFunctionDeclarator
  <2>2. ContextFields \subseteq DOMAIN c /\ c.llvm = Len(blocks) + 1 /\ c.hook = f
    BY DEF Context, ContextFields
  <2> HIDE DEF c, declared, f
  <2>3. BlockFields \subseteq DOMAIN Block(f) /\ Block(f).parent = f
    BY NewBlock
  <2> QED
    BY <1>1, <2>1, <2>2, <2>3, PushPreserves
<1>3. CASE function_state # "kFunctionDefinition"
  <2>1. context_stack' = declared /\ UNCHANGED <<blocks, insert>>
    BY <1>3 DEF ExitFunctionDeclarator
  <2> HIDE DEF declared
  <2> QED
    BY <1>1, <2>1, UnchangedKeeps, QuietPreserves DEF Quiet
<1> QED
  BY <1>2, <1>3

LEMMA CompoundStatementPreserves ==
  \/ IInv /\ BlockSurvives /\ VisitCompoundStatement
  \/ IInv /\ context_stack # <<>> /\ ExitCompoundStatement
  => IInv'
<1>1. ASSUME IInv, BlockSurvives, VisitCompoundStatement, function_state = "kNotFunction"
      PROVE  IInv'
  <2> DEFINE c == Context(Len(blocks'), 0, TRUE, <<>>)
  <2>1. /\ blocks' = Append(blocks, Block(0)) /\ insert' = Len(blocks')
        /\ context_stack' = Append(context_stack, c)
    BY <1>1 DEF VisitCompoundStatement
  <2>2. BlockFields \subseteq DOMAIN Block(0) /\ Block(0).parent = 0
    BY NewBlock
  <2>3. Len(blocks') = Len(blocks) + 1
    BY <1>1, <2>1, <2>2, BlocksAppended
  <2>4. ContextFields \subseteq DOMAIN c /\ c.llvm = Len(blocks) + 1 /\ c.hook = 0
    BY <2>3 DEF Context, ContextFields
  <2> HIDE DEF c
  <2>5. Alike(context_stack)
    BY <1>1, SameAlike
  <2> QED
    BY <1>1, <2>1, <2>2, <2>4, <2>5, PushPreserves
<1>2. ASSUME IInv, BlockSurvives, VisitCompoundStatement, function_state # "kNotFunction"
      PROVE  IInv'
  <2>1. UNCHANGED <<blocks, insert>>
    BY <1>2 DEF VisitCompoundStatement
  <2>2. CASE sticky_context
    <3> DEFINE c == [Top EXCEPT !.sticky = TRUE]
    <3>1. context_stack # <<>>
      BY <1>2, <2>2 DEF BlockSurvives
    <3>2. context_stack' = [context_stack EXCEPT ![Len(context_stack)] = c]
      BY <1>2, <2>2 DEF VisitCompoundStatement, Top, Last
    <3>3. ContextFields \subseteq DOMAIN c /\ c.llvm = Top.llvm /\ c.hook = Top.hook
      BY <1>2, <3>1, TopHasFields DEF ContextFields
    <3> HIDE DEF c
    <3>4. Alike(context_stack')
      BY <1>2, <3>1, <3>2, <3>3, TopAlike
    <3> QED
      BY <1>2, <2>1, <3>4, UnchangedKeeps, QuietPreserves DEF Quiet
  <2>3. CASE ~sticky_context
    <3>1. UNCHANGED context_stack
      BY <1>2, <2>3 DEF VisitCompoundStatement
    <3> QED
      BY <1>2, <2>1, <3>1, StutterQuiet, QuietPreserves
  <2> QED
    BY <2>2, <2>3
<1>3. ASSUME IInv, context_stack # <<>>, ExitCompoundStatement
      PROVE  IInv'
  <2>1. UNCHANGED blocks /\ (PopBlock \/ UNCHANGED <<context_stack, insert>>)
    BY <1>3 DEF ExitCompoundStatement
  <2> QED
    BY <1>3, <2>1, UnchangedKeeps, PopPreserves, StutterQuiet, QuietPreserves
<1> QED
  BY <1>1, <1>2, <1>3

LEMMA FunctionDefinitionPreserves ==
  IInv /\ FunctionDefinitionSurvives /\ ExitFunctionDefinition => IInv'
<1> SUFFICES ASSUME IInv, FunctionDefinitionSurvives, ExitFunctionDefinition PROVE IInv'
  OBVIOUS
<1>1. context_stack # <<>> /\ PopBlock
  BY DEF FunctionDefinitionSurvives, ExitFunctionDefinition
<1>2. UNCHANGED blocks \/ \E code : blocks' = Emitted(code)
  BY DEF ExitFunctionDefinition
<1>3. ParentsKept
  BY <1>2, UnchangedKeeps, EmittedKeeps
<1> QED
  BY <1>1, <1>3, PopPreserves

(* The branches leave their blocks to the function of the innermost        *)
(* context that has one, and the context around them resumes there too.    *)
LEMMA SelectionPreserves ==
  ASSUME IInv, NEW op, SelectionSurvives(op), ExitSelectionStatement(op)
  PROVE  IInv'
<1> DEFINE n == Len(Around(op))
           resume == Len(blocks) + 1
           hooks == Hooks(Around(op))
           f == Around(op)[CHOOSE i \in hooks : \A j \in hooks : j <= i].hook
           branches == IF op = "if_else" THEN <<IfBlock(op), ElseBlock>> ELSE <<IfBlock(op)>>
           bodies == ToSet(branches)
           head == Last(Around(op)).llvm
           cond == CondBr(Above.term, {Above.block}, Above.type = BoolType, IfBlock(op),
                          IF op = "if_else" THEN ElseBlock ELSE resume)
           Closed(b) == [parent |-> f,
                         code |-> IF Terminated(blocks[b]) THEN blocks[b].code
                                  ELSE Append(blocks[b].code, Br(resume))]
           mapped == [b \in DOMAIN blocks |->
                       CASE b \in bodies -> Closed(b)
                         [] b = head /\ b \notin bodies ->
                              [blocks[b] EXCEPT !.code = Append(@, cond)]
                         [] OTHER -> blocks[b]]
<1>0. Records(context_stack, ContextFields) /\ Records(blocks, BlockFields)
  BY DEF IInv
<1>1. /\ Len(context_stack) \in Nat /\ DOMAIN context_stack = 1 .. Len(context_stack)
      /\ Len(blocks) \in Nat /\ DOMAIN blocks = 1 .. Len(blocks)
  BY <1>0, RecordsLength
<1>2. /\ Records(Around(op), ContextFields) /\ n \in 1 .. Len(context_stack) - 1
      /\ DOMAIN Around(op) = 1 .. n
      /\ \A i \in 1 .. n : Around(op)[i] = context_stack[i]
  <2> DEFINE k == Len(context_stack) - Branches(op)
  <2>1. k \in 1 .. Len(context_stack) - 1
    BY <1>1 DEF SelectionSurvives, Branches
  <2>2. Around(op) = SubSeq(context_stack, 1, k)
    BY DEF Around
  <2> HIDE DEF k
  <2>3. /\ Records(Around(op), ContextFields) /\ n = k
        /\ \A i \in 1 .. k : Around(op)[i] = context_stack[i]
    BY <1>0, <1>1, <2>1, <2>2, RecordsPrefix
  <2> QED
    BY <2>1, <2>3, RecordsLength
<1>3. /\ blocks' = Append(mapped, Block(f)) /\ insert' = resume
      /\ context_stack' = [Around(op) EXCEPT ![n].llvm = resume]
  BY DEF ExitSelectionStatement
<1>10. \A b \in bodies : \E i \in n + 1 .. Len(context_stack) : b = context_stack[i].llvm
  <2>1. /\ n + 1 \in n + 1 .. Len(context_stack) /\ IfBlock(op) = context_stack[n + 1].llvm
        /\ Len(context_stack) \in n + 1 .. Len(context_stack)
        /\ ElseBlock = context_stack[Len(context_stack)].llvm
    BY <1>1, <1>2 DEF IfBlock, ElseBlock, Top, Last
  <2>2. bodies \subseteq {IfBlock(op), ElseBlock}
    BY DEF ToSet
  <2> HIDE DEF bodies, n
  <2> QED
    BY <2>1, <2>2
<1>4. /\ Records(mapped, BlockFields) /\ Len(mapped) = Len(blocks)
      /\ \A b \in DOMAIN blocks : b \notin bodies => mapped[b].parent = blocks[b].parent
  <2> HIDE DEF cond, head, bodies, branches, resume, f, n, hooks
  <2>1. \A b \in DOMAIN blocks : BlockFields \subseteq DOMAIN blocks[b]
    BY <1>0, RecordsLength
  <2>2. ASSUME NEW b \in DOMAIN blocks
        PROVE  /\ BlockFields \subseteq DOMAIN mapped[b]
               /\ b \notin bodies => mapped[b].parent = blocks[b].parent
    <3>1. CASE b \in bodies
      <4>1. mapped[b] = Closed(b)
        BY <3>1
      <4> QED
        BY <3>1, <4>1 DEF BlockFields
    <3>2. CASE b \notin bodies /\ b = head
      <4>1. mapped[b] = [blocks[b] EXCEPT !.code = Append(@, cond)]
        BY <3>2
      <4> QED
        BY <2>1, <4>1 DEF BlockFields
    <3>3. CASE b \notin bodies /\ b # head
      <4>1. mapped[b] = blocks[b]
        BY <3>3
      <4> QED
        BY <2>1, <4>1
    <3> QED
      BY <3>1, <3>2, <3>3
  <2>3. mapped = [b \in DOMAIN blocks |-> mapped[b]]
    OBVIOUS
  <2> HIDE DEF mapped
  <2>4. Records(mapped, BlockFields) /\ Len(mapped) = Len(blocks)
    BY <1>0, <2>2, <2>3, RecordsMap
  <2> QED
    BY <2>2, <2>4
<1> HIDE DEF mapped
<1>5. /\ Records(blocks', BlockFields) /\ Len(blocks') = resume
      /\ DOMAIN blocks' = 1 .. resume
      /\ \A b \in DOMAIN blocks : blocks'[b] = mapped[b]
      /\ blocks'[resume].parent = f
  <2> HIDE DEF f
  <2>1. BlockFields \subseteq DOMAIN Block(f) /\ Block(f).parent = f
    BY NewBlock
  <2>2. /\ Records(blocks', BlockFields) /\ Len(blocks') = Len(mapped) + 1
        /\ \A b \in 1 .. Len(mapped) : blocks'[b] = mapped[b]
        /\ blocks'[Len(mapped) + 1] = Block(f)
    BY <1>3, <1>4, <2>1, RecordsAppend
  <2>3. DOMAIN blocks' = 1 .. Len(blocks')
    BY <2>2, RecordsLength
  <2> QED
    BY <1>1, <1>4, <2>1, <2>2, <2>3
<1>6. /\ Records(context_stack', ContextFields) /\ Len(context_stack') = n
      /\ DOMAIN context_stack' = 1 .. n
      /\ \A i \in 1 .. n : context_stack'[i].hook = context_stack[i].hook
      /\ \A i \in 1 .. n - 1 : context_stack'[i].llvm = context_stack[i].llvm
      /\ context_stack'[n].llvm = resume
  <2> DEFINE c == [Around(op)[n] EXCEPT !.llvm = resume]
  <2> HIDE DEF resume
  <2>1. n \in DOMAIN Around(op) /\ context_stack' = [Around(op) EXCEPT ![n] = c]
    BY <1>2, <1>3
  <2>2. ContextFields \subseteq DOMAIN Around(op)[n]
    BY <1>2, <2>1, RecordsLength
  <2>3. /\ ContextFields \subseteq DOMAIN c
        /\ c.llvm = resume /\ c.hook = Around(op)[n].hook
    BY <2>2 DEF ContextFields
  <2> HIDE DEF c, n
  <2>4. /\ Records([Around(op) EXCEPT ![n] = c], ContextFields)
        /\ Len([Around(op) EXCEPT ![n] = c]) = Len(Around(op))
        /\ \A i \in DOMAIN Around(op) :
             [Around(op) EXCEPT ![n] = c][i] = IF i = n THEN c ELSE Around(op)[i]
    <3>1. /\ Records(Around(op), ContextFields) /\ ContextFields \subseteq DOMAIN c
          /\ n \in DOMAIN Around(op)
      BY <1>2, <2>1, <2>3
    <3> QED
      BY ONLY <3>1, RecordsReplace, Zenon
  <2>5. /\ Records(context_stack', ContextFields) /\ Len(context_stack') = n
        /\ \A i \in 1 .. n : context_stack'[i] = IF i = n THEN c ELSE context_stack[i]
    BY <1>2, <2>1, <2>4 DEF n
  <2>6. DOMAIN context_stack' = 1 .. n
    BY <2>5, RecordsLength
  <2> QED
    BY <1>1, <1>2, <2>3, <2>5, <2>6
<1>7. InBlocks'
  <2> SUFFICES ASSUME NEW i \in 1 .. n PROVE context_stack'[i].llvm \in 1 .. resume
    BY <1>5, <1>6 DEF InBlocks
  <2>1. context_stack[i].llvm \in 1 .. Len(blocks)
    BY <1>1, <1>2 DEF IInv, InBlocks
  <2> HIDE DEF n
  <2> QED
    BY <1>1, <1>2, <1>6, <2>1
<1>8. BuilderAtTop'
  <2>1. context_stack' # <<>>
    BY <1>2, <1>6, RecordsLength
  <2> QED
    BY <1>3, <1>6, <2>1 DEF BuilderAtTop, Top, Last
<1>9. HookOwnsBlock'
  <2> SUFFICES ASSUME NEW i \in 1 .. n, context_stack'[i].hook # 0
               PROVE  blocks'[context_stack'[i].llvm].parent = context_stack'[i].hook
    BY <1>6 DEF HookOwnsBlock
  <2>1. CASE i = n
    <3>1. n \in hooks /\ hooks \subseteq 1 .. n
      BY <1>2, <1>6, <2>1 DEF Hooks
    <3>2. (CHOOSE k \in hooks : \A j \in hooks : j <= k) = n
      <4> HIDE DEF hooks, n
      <4>1. n \in hooks /\ \A j \in hooks : j <= n
        BY <1>1, <1>2, <3>1
      <4>2. \A k \in hooks : (\A j \in hooks : j <= k) => k = n
        BY <1>1, <1>2, <3>1
      <4> QED
        BY <4>1, <4>2
    <3>3. f = context_stack'[i].hook
      BY <1>2, <1>6, <2>1, <3>2
    <3> QED
      BY <1>5, <1>6, <2>1, <3>3
  <2>2. CASE i # n
    <3> HIDE DEF n
    <3>1. i \in 1 .. n - 1
      BY <1>1, <1>2, <2>2
    <3>2. /\ context_stack'[i].llvm = context_stack[i].llvm
          /\ context_stack'[i].hook = context_stack[i].hook
      BY <1>6, <3>1
    <3>3. /\ context_stack[i].llvm \in DOMAIN blocks
          /\ blocks[context_stack[i].llvm].parent = context_stack[i].hook
      BY <1>1, <1>2, <2>2, <3>2 DEF IInv, InBlocks, HookOwnsBlock
    <3>4. context_stack[i].llvm \notin bodies
      <4> HIDE DEF bodies
      <4> SUFFICES ASSUME NEW j \in n + 1 .. Len(context_stack),
                          context_stack[i].llvm = context_stack[j].llvm
                   PROVE  FALSE
        BY <1>10
      <4>1. i \in DOMAIN context_stack /\ j \in DOMAIN context_stack /\ i # j
        BY <1>1, <1>2, <3>1
      <4> QED
        BY <4>1 DEF IInv, BlocksDiffer
    <3> HIDE DEF bodies
    <3> QED
      BY <1>4, <1>5, <3>2, <3>3, <3>4
  <2> QED
    BY <2>1, <2>2
<1>11. BlocksDiffer'
  <2> HIDE DEF n
  <2> SUFFICES ASSUME NEW i \in 1 .. n, NEW j \in 1 .. n,
                      context_stack'[i].llvm = context_stack'[j].llvm
               PROVE  i = j
    BY <1>6 DEF BlocksDiffer
  <2>1. \A k \in 1 .. n : context_stack[k].llvm \in 1 .. Len(blocks)
    BY <1>1, <1>2 DEF IInv, InBlocks
  <2>2. CASE i # n /\ j # n
    <3>1. i \in 1 .. n - 1 /\ j \in 1 .. n - 1
      BY <2>2, <1>2
    <3>2. context_stack[i].llvm = context_stack[j].llvm
      BY <1>6, <3>1
    <3>3. i \in DOMAIN context_stack /\ j \in DOMAIN context_stack
      BY <1>1, <1>2, <3>1
    <3> QED
      BY <3>2, <3>3 DEF IInv, BlocksDiffer
  <2>3. \A k \in 1 .. n - 1 : context_stack'[k].llvm # context_stack'[n].llvm
    <3> SUFFICES ASSUME NEW k \in 1 .. n - 1
                 PROVE  context_stack'[k].llvm # context_stack'[n].llvm
      OBVIOUS
    <3>1. k \in 1 .. n
      BY <1>2
    <3>2. context_stack'[k].llvm \in 1 .. Len(blocks)
      BY <1>6, <2>1, <3>1
    <3>3. context_stack'[n].llvm = Len(blocks) + 1
      BY <1>6
    <3> QED
      BY <1>1, <3>2, <3>3
  <2>4. CASE i = n \/ j = n
    <3>1. i # n => i \in 1 .. n - 1
      BY <1>2
    <3>2. j # n => j \in 1 .. n - 1
      BY <1>2
    <3> QED
      BY <2>3, <2>4, <3>1, <3>2
  <2> QED
    BY <2>2, <2>4
<1> QED
  BY <1>5, <1>6, <1>7, <1>8, <1>9, <1>11 DEF IInv

-----------------------------------------------------------------------------
LEMMA VisitPreserves ==
  ASSUME IInv, NEW r, VisitSurvives(r), VisitMethod(r)
  PROVE  IInv'
<1>1. CASE r.class = "CompoundStatement" /\ VisitCompoundStatement
  BY <1>1, CompoundStatementPreserves DEF VisitSurvives
<1>2. CASE VisitAssignmentExpression \/ VisitPostfixExpression
  BY <1>2, ExpressionsQuiet, QuietPreserves
<1>3. CASE \/ VisitFunctionDefinition \/ VisitDeclaration(r.op)
           \/ VisitDeclarationSpecifiers(r.op) \/ VisitDeclarator(r.op)
           \/ VisitDirectDeclarator(r.op) \/ VisitSelectionStatement
           \/ UNCHANGED visitor
  BY <1>3, DeclarationsQuiet, QuietPreserves
<1> QED
  BY <1>1, <1>2, <1>3 DEF VisitMethod

LEMMA ExitPreserves ==
  ASSUME IInv, NEW r, ExitSurvives(r), ExitMethod(r)
  PROVE  IInv'
<1>1. CASE r.class = "CompoundStatement" /\ ExitCompoundStatement
  BY <1>1, CompoundStatementPreserves DEF ExitSurvives
<1>2. CASE r.class = "FunctionDefinition" /\ ExitFunctionDefinition
  BY <1>2, FunctionDefinitionPreserves DEF ExitSurvives
<1>3. CASE r.class = "SelectionStatement" /\ ExitSelectionStatement(r.op)
  <2>1. SelectionSurvives(r.op)
    BY <1>3 DEF ExitSurvives
  <2> QED
    BY <1>3, <2>1, SelectionPreserves
<1>4. CASE \/ ExitAssignmentExpression(r.op) \/ ExitBinaryExpression(r.op)
           \/ ExitPostfixExpression \/ ExitJumpStatement
  BY <1>4, ExpressionsQuiet, QuietPreserves
<1>5. CASE \/ ExitParameterList(r.op) \/ ExitParameterDeclaration(r.op) \/ ExitDeclaration
           \/ ExitDeclarationSpecifiers \/ UNCHANGED visitor
  BY <1>5, DeclarationsQuiet, QuietPreserves
<1>6. CASE ExitName
  BY <1>6, NameQuiet, QuietPreserves
<1>7. CASE ExitFunctionDeclarator
  BY <1>7, FunctionDeclaratorPreserves
<1>8. CASE ExitInitDeclarator(r.op)
  BY <1>8, InitDeclaratorQuiet, QuietPreserves
<1> QED
  BY <1>1, <1>2, <1>3, <1>4, <1>5, <1>6, <1>7, <1>8 DEF ExitMethod

LEMMA NextPreserves == IInv /\ [Next]_vars => IInv'
<1> SUFFICES ASSUME IInv, [Next]_vars PROVE IInv'
  OBVIOUS
<1>1. ASSUME UNCHANGED visitor PROVE IInv'
  BY <1>1, DeclarationsQuiet, QuietPreserves
<1>2. CASE VisitSymbol
  <2>1. PICK r \in RulesHere : Visit(r)
    BY <1>2 DEF VisitSymbol
  <2>2. CASE VisitSurvives(r) /\ VisitMethod(r)
    BY <2>2, VisitPreserves
  <2>3. CASE Abort
    BY <2>3, <1>1 DEF Abort
  <2> QED
    BY <2>1, <2>2, <2>3 DEF Visit
<1>3. CASE ExitSymbol
  <2> DEFINE r == Head(todo).v
  <2>1. CASE ExitSurvives(r) /\ ExitMethod(r)
    BY <2>1, ExitPreserves
  <2>2. CASE Abort
    BY <2>2, <1>1 DEF Abort
  <2> QED
    BY <1>3, <2>1, <2>2 DEF ExitSymbol
<1>4. CASE VisitTerminal
  <2>1. PICK n : VisitConstant \/ VisitIdentifier(n)
    BY <1>4 DEF VisitTerminal
  <2> QED
    BY <2>1, TerminalsQuiet, QuietPreserves
<1>5. CASE VisitMark \/ Finish
  BY <1>1, <1>5 DEF VisitMark, Finish
<1>6. CASE UNCHANGED vars
  BY <1>1, <1>6 DEF vars
<1> QED
  BY <1>2, <1>3, <1>4, <1>5, <1>6 DEF Next

(* The inductive invariant holds for every scheme.                         *)
THEOREM InvariantHolds == Spec => []IInv
<1>1. Init => IInv
  BY InitInvariant
<1>2. IInv /\ [Next]_vars => IInv'
  BY NextPreserves
<1> QED
  BY <1>1, <1>2, PTL DEF Spec

(* For every tree: the builder writes into the block of the innermost      *)
(* context (VisitCompoundStatement, PopBlock, ExitSelectionStatement and   *)
(* ExitDirectDeclarator move them together).                               *)
THEOREM BuilderStaysAtTop == Spec => []BuilderAtTop
<1>1. IInv => BuilderAtTop
  BY DEF IInv
<1> QED
  BY <1>1, InvariantHolds, PTL

(* For every tree: a function's context is in a block of that function,    *)
(* which is what ExitFunctionDefinition asserts of function->value.        *)
THEOREM HooksOwnBlocks == Spec => []HookOwnsBlock
<1>1. IInv => HookOwnsBlock
  BY DEF IInv
<1> QED
  BY <1>1, InvariantHolds, PTL

-----------------------------------------------------------------------------
(* VisitorTypeOK, which needs more: that the stack of values and the list  *)
(* of functions are sequences, and contexts whole records.                 *)
FlagsOK ==
  /\ variable_state \in {"kAccess", "kDefinition", "kFunction", "kAddress"}
  /\ function_state \in {"kNotFunction", "kFunctionDeclaration", "kFunctionDefinition"}
  /\ {is_complete_type, is_pointer, sticky_context} \subseteq BOOLEAN
  /\ status \in {"OK", "Corruption"}

SequencesOK == Records(value_stack, {}) /\ Records(functions, {}) /\ value_top \in Nat

(* A context in a module of n functions.                                   *)
IsContext(c, n) ==
  /\ DOMAIN c = {"llvm", "hook", "sticky", "identifier", "function"}
  /\ c.hook \in 0 .. n /\ c.sticky \in BOOLEAN

ContextsOK == \A i \in DOMAIN context_stack : IsContext(context_stack[i], Len(functions))

OutcomeOK == outcome \in {"running", "done", "aborted"}

TypeInv == IInv /\ FlagsOK /\ SequencesOK /\ ContextsOK /\ OutcomeOK

LEMMA TypeInvTypes == TypeInv => VisitorTypeOK
<1> SUFFICES ASSUME TypeInv PROVE VisitorTypeOK
  OBVIOUS
<1>1. Len(blocks) \in Nat /\ DOMAIN blocks = 1 .. Len(blocks)
  BY RecordsLength DEF TypeInv, IInv
<1>2. insert \in 0 .. Len(blocks)
  BY <1>1, InsertInBlocks DEF TypeInv, NoBlock
<1> QED
  BY <1>2 DEF TypeInv, FlagsOK, SequencesOK, ContextsOK, IsContext, OutcomeOK, VisitorTypeOK,
              IInv, InBlocks

LEMMA TypesAtFirst == Init => TypeInv
<1> SUFFICES ASSUME Init PROVE TypeInv
  OBVIOUS
<1>1. IInv
  BY InitInvariant
<1>2. FlagsOK /\ OutcomeOK
  BY DEF Init, FlagsOK, OutcomeOK
<1>3. SequencesOK
  <2>1. <<>> \in Seq({})
    OBVIOUS
  <2>2. Records(<<>>, {})
    BY <2>1 DEF Records
  <2> QED
    BY <2>2 DEF Init, SequencesOK
<1>4. ContextsOK
  BY DEF Init, ContextsOK
<1> QED
  BY <1>1, <1>2, <1>3, <1>4 DEF TypeInv

(* The flags and the status.                                               *)
LEMMA FlagsAtVisits ==
  ASSUME FlagsOK, NEW r, VisitMethod(r)
  PROVE  FlagsOK'
<1>1. CASE VisitAssignmentExpression
  BY <1>1 DEF VisitAssignmentExpression, FlagsOK
<1>2. CASE VisitPostfixExpression
  BY <1>2 DEF VisitPostfixExpression, FlagsOK
<1>3. CASE VisitFunctionDefinition
  BY <1>3 DEF VisitFunctionDefinition, FlagsOK
<1>4. CASE VisitCompoundStatement
  BY <1>4 DEF VisitCompoundStatement, FlagsOK
<1>5. CASE VisitDeclaration(r.op)
  BY <1>5 DEF VisitDeclaration, Fatal, FlagsOK, flags
<1>6. CASE VisitDeclarationSpecifiers(r.op)
  BY <1>6 DEF VisitDeclarationSpecifiers, Fatal, FlagsOK
<1>7. CASE VisitDeclarator(r.op)
  BY <1>7 DEF VisitDeclarator, FlagsOK
<1>8. CASE VisitDirectDeclarator(r.op)
  BY <1>8 DEF VisitDirectDeclarator, FlagsOK
<1>9. CASE VisitSelectionStatement
  BY <1>9 DEF VisitSelectionStatement, FlagsOK
<1>10. CASE UNCHANGED visitor
  BY <1>10 DEF visitor, flags, FlagsOK
<1> QED
  BY <1>1, <1>2, <1>3, <1>4, <1>5, <1>6, <1>7, <1>8, <1>9, <1>10 DEF VisitMethod

LEMMA FlagsAtExits ==
  ASSUME FlagsOK, NEW r, ExitMethod(r)
  PROVE  FlagsOK'
<1>1. CASE ExitAssignmentExpression(r.op)
  BY <1>1 DEF ExitAssignmentExpression, Fatal, flags, FlagsOK
<1>2. CASE ExitBinaryExpression(r.op)
  BY <1>2 DEF ExitBinaryExpression, Fatal, flags, FlagsOK
<1>3. CASE ExitPostfixExpression
  BY <1>3 DEF ExitPostfixExpression, Fatal, flags, FlagsOK
<1>4. CASE ExitFunctionDefinition
  BY <1>4 DEF ExitFunctionDefinition, Fatal, FlagsOK
<1>5. CASE ExitParameterList(r.op)
  BY <1>5 DEF ExitParameterList, flags, FlagsOK
<1>6. CASE ExitParameterDeclaration(r.op)
  BY <1>6 DEF ExitParameterDeclaration, flags, Fatal, FlagsOK
<1>7. CASE ExitCompoundStatement
  BY <1>7 DEF ExitCompoundStatement, FlagsOK
<1>8. CASE ExitDeclaration
  BY <1>8 DEF ExitDeclaration, flags, FlagsOK
<1>9. CASE ExitDeclarationSpecifiers
  BY <1>9 DEF ExitDeclarationSpecifiers, FlagsOK
<1>10. CASE ExitName
  BY <1>10 DEF ExitName, Fatal, FlagsOK
<1>11. CASE ExitFunctionDeclarator
  BY <1>11 DEF ExitFunctionDeclarator, Fatal, flags, FlagsOK
<1>12. CASE ExitInitDeclarator(r.op)
  BY <1>12 DEF ExitInitDeclarator, Fatal, flags, FlagsOK
<1>13. CASE ExitSelectionStatement(r.op)
  BY <1>13 DEF ExitSelectionStatement, FlagsOK
<1>14. CASE ExitJumpStatement
  BY <1>14 DEF ExitJumpStatement, flags, FlagsOK
<1>15. CASE UNCHANGED visitor
  BY <1>15 DEF visitor, flags, FlagsOK
<1> QED
  BY <1>1, <1>2, <1>3, <1>4, <1>5, <1>6, <1>7, <1>8, <1>9, <1>10, <1>11, <1>12, <1>13, <1>14,
     <1>15 DEF ExitMethod


(* The stack of values and the list of functions.                          *)
LEMMA Pushed ==
  ASSUME NEW q, Records(q, {}), NEW e
  PROVE  Records(Append(q, e), {})
BY RecordsAppend

LEMMA Popped ==
  ASSUME NEW q, Records(q, {}), NEW k \in Nat, k <= Len(q)
  PROVE  Records(DropLast(q, k), {})
<1>1. Len(q) \in Nat
  BY RecordsLength
<1> DEFINE n == Len(q) - k
<1>2. n \in 0 .. Len(q) /\ DropLast(q, k) = SubSeq(q, 1, n)
  BY <1>1 DEF DropLast
<1> HIDE DEF n
<1> QED
  BY <1>2, RecordsPrefix

LEMMA PoppedOne ==
  ASSUME NEW q, Records(q, {}), q # <<>>
  PROVE  Records(Front(q), {})
<1>1. Len(q) \in Nat /\ Len(q) # 0
  BY RecordsLength
<1>2. Front(q) = DropLast(q, 1)
  BY DEF Front, DropLast
<1> QED
  BY <1>1, <1>2, Popped

LEMMA SequencesAtVisits ==
  ASSUME SequencesOK, NEW r, VisitMethod(r)
  PROVE  SequencesOK' /\ UNCHANGED functions
<1>1. CASE VisitPostfixExpression
  <2>1. value_top' = Len(value_stack) /\ UNCHANGED <<value_stack, functions>>
    BY <1>1 DEF VisitPostfixExpression, stacks, ir
  <2> QED
    BY <2>1, RecordsLength DEF SequencesOK
<1>2. CASE UNCHANGED <<value_stack, functions, value_top>>
  BY <1>2 DEF SequencesOK
<1>3. \/ VisitAssignmentExpression \/ VisitFunctionDefinition \/ VisitCompoundStatement
      \/ VisitDeclaration(r.op) \/ VisitDeclarationSpecifiers(r.op) \/ VisitDeclarator(r.op)
      \/ VisitDirectDeclarator(r.op) \/ VisitSelectionStatement \/ UNCHANGED visitor
      => UNCHANGED <<value_stack, functions, value_top>>
  BY DEF VisitAssignmentExpression, VisitFunctionDefinition, VisitCompoundStatement,
         VisitDeclaration, VisitDeclarationSpecifiers, VisitDeclarator, VisitDirectDeclarator,
         VisitSelectionStatement, visitor, flags, stacks, ir
<1> QED
  BY <1>1, <1>2, <1>3 DEF VisitMethod

(* Changing one function leaves their number as it is.                     *)
LEMMA FunctionReplaced ==
  ASSUME Records(functions, {}), NEW k, NEW e
  PROVE  /\ Records([functions EXCEPT ![k] = e], {})
         /\ Len([functions EXCEPT ![k] = e]) = Len(functions)
<1>1. CASE k \in DOMAIN functions
  <2>1. Records(functions, {}) /\ {} \subseteq DOMAIN e /\ k \in DOMAIN functions
    BY <1>1
  <2>2. /\ Records([functions EXCEPT ![k] = e], {})
        /\ Len([functions EXCEPT ![k] = e]) = Len(functions)
        /\ \A i \in DOMAIN functions :
             [functions EXCEPT ![k] = e][i] = IF i = k THEN e ELSE functions[i]
    BY ONLY <2>1, RecordsReplace, Zenon
  <2> QED
    BY <2>2
<1>2. CASE k \notin DOMAIN functions
  <2>1. PICK S : functions \in Seq(S)
    BY DEF Records
  <2>2. [functions EXCEPT ![k] = e] = functions
    BY <1>2, <2>1
  <2> QED
    BY <2>2
<1> QED
  BY <1>1, <1>2

LEMMA SelectionFunctions ==
  ASSUME SequencesOK, NEW op, ExitSelectionStatement(op)
  PROVE  Records(functions', {}) /\ Len(functions') = Len(functions)
<1>1. PICK k, body : functions' = [functions EXCEPT ![k].body = body]
  BY DEF ExitSelectionStatement
<1> DEFINE e == [functions[k] EXCEPT !.body = body]
<1>2. functions' = [functions EXCEPT ![k] = e]
  BY <1>1
<1> HIDE DEF e
<1>3. Records(functions, {})
  BY DEF SequencesOK
<1> QED
  BY <1>2, <1>3, FunctionReplaced

(* A method leaves at least as many functions.                             *)
FunctionsKept == Len(functions') \in Nat /\ Len(functions') >= Len(functions)

LEMMA SequencesAtExits ==
  ASSUME SequencesOK, ContextsOK, Records(context_stack, ContextFields),
         NEW r, ExitSurvives(r), ExitMethod(r)
  PROVE  SequencesOK' /\ FunctionsKept
<1>0. Len(functions) \in Nat /\ Len(value_stack) \in Nat
  BY RecordsLength DEF SequencesOK
<1>1. CASE r.class = "AssignmentExpression" /\ ExitAssignmentExpression(r.op)
  <2>1. Len(value_stack) >= 2
    BY <1>1 DEF ExitSurvives, AssignmentSurvives
  <2>2. value_stack' = DropLast(value_stack, 2) /\ UNCHANGED <<functions, value_top>>
    BY <1>1 DEF ExitAssignmentExpression, flags
  <2> QED
    BY <1>0, <2>1, <2>2, Popped DEF SequencesOK, FunctionsKept
<1>2. CASE r.class = "BinaryExpression" /\ ExitBinaryExpression(r.op)
  <2>1. UNCHANGED <<functions, value_top>>
    BY <1>2 DEF ExitBinaryExpression, flags
  <2>2. \/ UNCHANGED value_stack
        \/ Len(value_stack) >= 2 /\ \E e : value_stack' = Append(DropLast(value_stack, 2), e)
    BY <1>0, <1>2 DEF ExitBinaryExpression
  <2>3. CASE UNCHANGED value_stack
    BY <1>0, <2>1, <2>3 DEF SequencesOK, FunctionsKept
  <2>4. CASE ~UNCHANGED value_stack
    <3> DEFINE rest == DropLast(value_stack, 2)
    <3>1. Records(rest, {})
      BY <1>0, <2>2, <2>4, Popped DEF SequencesOK
    <3> HIDE DEF rest
    <3>2. PICK e : value_stack' = Append(rest, e)
      BY <2>2, <2>4 DEF rest
    <3>3. Records(value_stack', {})
      BY <3>1, <3>2, Pushed
    <3> QED
      BY <1>0, <2>1, <3>3 DEF SequencesOK, FunctionsKept
  <2> QED
    BY <2>3, <2>4
<1>3. CASE r.class = "PostfixExpression" /\ ExitPostfixExpression
  <2> DEFINE rest == SubSeq(value_stack, 1, value_top)
  <2>1. UNCHANGED <<functions, value_top>>
    BY <1>3 DEF ExitPostfixExpression, flags
  <2>2. value_stack' = rest \/ \E e : value_stack' = Append(rest, e)
    BY <1>3 DEF ExitPostfixExpression
  <2>3. Len(value_stack) >= value_top
    BY <1>3 DEF ExitSurvives, PostfixSurvives
  <2>4. value_top \in 0 .. Len(value_stack)
    BY <1>0, <2>3 DEF SequencesOK
  <2>5. Records(rest, {})
    BY <2>4, RecordsPrefix DEF SequencesOK
  <2> HIDE DEF rest
  <2>6. Records(value_stack', {})
    BY <2>2, <2>5, Pushed
  <2> QED
    BY <1>0, <2>1, <2>6 DEF SequencesOK, FunctionsKept
<1>4. CASE r.class = "InitDeclarator" /\ ExitInitDeclarator(r.op)
  <2>1. UNCHANGED <<functions, value_top>>
    BY <1>4 DEF ExitInitDeclarator, flags, ir
  <2>2. CASE function_state # "kNotFunction" \/ r.op # "="
    BY <1>0, <1>4, <2>1, <2>2 DEF ExitInitDeclarator, stacks, SequencesOK, FunctionsKept
  <2>3. CASE function_state = "kNotFunction" /\ r.op = "="
    <3>1. value_stack # <<>>
      BY <1>4, <2>3 DEF ExitSurvives, InitDeclaratorSurvives
    <3>2. value_stack' = Front(value_stack)
      BY <1>4, <2>3 DEF ExitInitDeclarator
    <3> QED
      BY <1>0, <2>1, <3>1, <3>2, PoppedOne DEF SequencesOK, FunctionsKept
  <2> QED
    BY <2>2, <2>3
<1>5. CASE r.class = "SelectionStatement" /\ ExitSelectionStatement(r.op)
  <2>1. SelectionSurvives(r.op)
    BY <1>5 DEF ExitSurvives
  <2>2. value_stack # <<>>
    BY <2>1, SMTT(30) DEF SelectionSurvives
  <2>3. value_stack' = Front(value_stack) /\ UNCHANGED value_top
    BY <1>5 DEF ExitSelectionStatement
  <2>4. Records(functions', {}) /\ Len(functions') = Len(functions)
    BY <1>5, SelectionFunctions
  <2> QED
    BY <1>0, <2>2, <2>3, <2>4, PoppedOne DEF SequencesOK, FunctionsKept
<1>6. CASE r.class = "JumpStatement" /\ ExitJumpStatement
  <2>1. context_stack # <<>> /\ value_stack # <<>>
    BY <1>6 DEF ExitSurvives, JumpSurvives
  <2>2. value_stack' = Front(value_stack) /\ UNCHANGED value_top
    BY <1>6 DEF ExitJumpStatement, flags
  <2>3. Records(functions', {}) /\ Len(functions') = Len(functions)
    <3>1. CASE Top.hook = 0
      BY <1>6, <3>1 DEF ExitJumpStatement, SequencesOK
    <3>2. CASE Top.hook # 0
      <4> DEFINE e == [functions[Top.hook] EXCEPT !.closed = TRUE]
      <4>1. functions' = [functions EXCEPT ![Top.hook] = e]
        BY <1>6, <3>2 DEF ExitJumpStatement
      <4> HIDE DEF e
      <4> QED
        BY <4>1, FunctionReplaced DEF SequencesOK
    <3> QED
      BY <3>1, <3>2
  <2> QED
    BY <1>0, <2>1, <2>2, <2>3, PoppedOne DEF SequencesOK, FunctionsKept
<1>7. CASE ExitFunctionDeclarator
  <2>1. UNCHANGED <<value_stack, value_top>> /\ \E e : functions' = Append(functions, e)
    BY <1>7 DEF ExitFunctionDeclarator, flags
  <2>2. PICK e : functions' = Append(functions, e)
    BY <2>1
  <2>3. Records(functions', {}) /\ Len(functions') = Len(functions) + 1
    BY <2>2, RecordsAppend DEF SequencesOK
  <2> QED
    BY <1>0, <2>1, <2>3 DEF SequencesOK, FunctionsKept
<1>8. CASE UNCHANGED <<value_stack, functions, value_top>>
  BY <1>0, <1>8 DEF SequencesOK, FunctionsKept
<1>9. \/ ExitFunctionDefinition \/ ExitParameterList(r.op) \/ ExitParameterDeclaration(r.op)
      \/ ExitCompoundStatement \/ ExitDeclaration \/ ExitDeclarationSpecifiers
      \/ ExitName \/ UNCHANGED visitor
      => UNCHANGED <<value_stack, functions, value_top>>
  BY DEF ExitFunctionDefinition, ExitParameterList, ExitParameterDeclaration,
         ExitCompoundStatement, ExitDeclaration, ExitDeclarationSpecifiers, ExitName,
         visitor, flags, stacks, ir
<1> QED
  BY <1>1, <1>2, <1>3, <1>4, <1>5, <1>6, <1>7, <1>8, <1>9 DEF ExitMethod

(* The contexts: those that stay, and those that are new or changed.       *)
LEMMA ContextsStay ==
  ASSUME ContextsOK, FunctionsKept, Len(functions) \in Nat,
         \A i \in DOMAIN context_stack' :
           \/ \E j \in DOMAIN context_stack : context_stack'[i] = context_stack[j]
           \/ IsContext(context_stack'[i], Len(functions'))
  PROVE  ContextsOK'
<1>1. ASSUME NEW c, IsContext(c, Len(functions)) PROVE IsContext(c, Len(functions'))
  BY <1>1 DEF IsContext, FunctionsKept
<1> QED
  BY <1>1 DEF ContextsOK

LEMMA TopChanged ==
  ASSUME Records(context_stack, ContextFields), context_stack # <<>>, ContextsOK,
         FunctionsKept, Len(functions) \in Nat,
         NEW c, IsContext(c, Len(functions')),
         context_stack' = [context_stack EXCEPT ![Len(context_stack)] = c]
  PROVE  ContextsOK'
<1>1. DOMAIN context_stack' = DOMAIN context_stack
  OBVIOUS
<1>2. \A i \in DOMAIN context_stack' : context_stack'[i] = c \/ context_stack'[i] = context_stack[i]
  OBVIOUS
<1> QED
  BY <1>1, <1>2, ContextsStay

LEMMA TopIsContext ==
  ASSUME Records(context_stack, ContextFields), context_stack # <<>>, ContextsOK
  PROVE  IsContext(Top, Len(functions))
<1>1. Len(context_stack) \in DOMAIN context_stack
  BY RecordsLength
<1> QED
  BY <1>1 DEF ContextsOK, Top, Last

LEMMA PopContexts ==
  ASSUME Records(context_stack, ContextFields), context_stack # <<>>, ContextsOK,
         FunctionsKept, Len(functions) \in Nat, PopBlock
  PROVE  ContextsOK'
<1> DEFINE n == Len(context_stack) - 1
<1>1. n \in 0 .. Len(context_stack) /\ DOMAIN context_stack = 1 .. n + 1
  BY RecordsLength
<1>2. context_stack' = SubSeq(context_stack, 1, n)
  BY DEF PopBlock, Front
<1> HIDE DEF n
<1>3. /\ Records(context_stack', ContextFields) /\ Len(context_stack') = n
      /\ \A i \in 1 .. n : context_stack'[i] = context_stack[i]
  BY <1>1, <1>2, RecordsPrefix
<1>4. DOMAIN context_stack' = 1 .. n
  BY <1>3, RecordsLength
<1>5. \A i \in DOMAIN context_stack' : i \in DOMAIN context_stack
  BY <1>1, <1>4
<1> QED
  BY <1>3, <1>4, <1>5, ContextsStay


LEMMA ContextsAtVisits ==
  ASSUME IInv, FlagsOK, SequencesOK, ContextsOK, NEW r, VisitSurvives(r), VisitMethod(r)
  PROVE  ContextsOK'
<1>0. /\ Len(functions) \in Nat /\ FunctionsKept /\ UNCHANGED functions
      /\ Records(context_stack, ContextFields)
  BY SequencesAtVisits, RecordsLength DEF SequencesOK, FunctionsKept, IInv
<1>1. CASE UNCHANGED context_stack
  BY <1>0, <1>1, ContextsStay
<1>2. CASE r.class = "CompoundStatement" /\ VisitCompoundStatement
  <2>1. CASE function_state = "kNotFunction"
    <3> DEFINE c == Context(Len(blocks'), 0, TRUE, <<>>)
    <3>1. context_stack' = Append(context_stack, c)
      BY <1>2, <2>1 DEF VisitCompoundStatement
    <3>2. IsContext(c, Len(functions')) /\ ContextFields \subseteq DOMAIN c
      BY <1>0 DEF IsContext, Context, ContextFields
    <3> HIDE DEF c
    <3>3. /\ Records(context_stack', ContextFields) /\ Len(context_stack') = Len(context_stack) + 1
          /\ \A i \in 1 .. Len(context_stack) : context_stack'[i] = context_stack[i]
          /\ context_stack'[Len(context_stack) + 1] = c
      BY <1>0, <3>1, <3>2, RecordsAppend
    <3>4. /\ DOMAIN context_stack' = 1 .. Len(context_stack) + 1
          /\ DOMAIN context_stack = 1 .. Len(context_stack) /\ Len(context_stack) \in Nat
      BY <1>0, <3>3, RecordsLength
    <3> QED
      BY <1>0, <3>2, <3>3, <3>4, ContextsStay
  <2>2. CASE function_state # "kNotFunction" /\ sticky_context
    <3> DEFINE c == [Top EXCEPT !.sticky = TRUE]
    <3>1. context_stack # <<>>
      BY <1>2, <2>2 DEF VisitSurvives, BlockSurvives
    <3>2. context_stack' = [context_stack EXCEPT ![Len(context_stack)] = c]
      BY <1>2, <2>2 DEF VisitCompoundStatement, Top, Last
    <3>3. IsContext(Top, Len(functions'))
      BY <1>0, <3>1, TopIsContext
    <3>4. IsContext(c, Len(functions'))
      BY <3>3 DEF IsContext
    <3> HIDE DEF c
    <3> QED
      BY <1>0, <3>1, <3>2, <3>4, TopChanged
  <2>3. CASE function_state # "kNotFunction" /\ ~sticky_context
    BY <1>1, <1>2, <2>3 DEF VisitCompoundStatement
  <2> QED
    BY <2>1, <2>2, <2>3
<1>3. \/ VisitAssignmentExpression \/ VisitPostfixExpression \/ VisitFunctionDefinition
      \/ VisitDeclaration(r.op) \/ VisitDeclarationSpecifiers(r.op) \/ VisitDeclarator(r.op)
      \/ VisitDirectDeclarator(r.op) \/ VisitSelectionStatement \/ UNCHANGED visitor
      => UNCHANGED context_stack
  BY DEF VisitAssignmentExpression, VisitPostfixExpression, VisitFunctionDefinition,
         VisitDeclaration, VisitDeclarationSpecifiers, VisitDeclarator, VisitDirectDeclarator,
         VisitSelectionStatement, visitor, stacks
<1> QED
  BY <1>1, <1>2, <1>3 DEF VisitMethod

LEMMA ContextsAtFunction ==
  ASSUME IInv, SequencesOK, ContextsOK, FunctionsKept, ExitFunctionDeclarator
  PROVE  ContextsOK'
<1>0. Len(functions) \in Nat /\ Records(context_stack, ContextFields)
  BY RecordsLength DEF SequencesOK, IInv
<1> DEFINE n == identifier_stack[1].name
           f == Len(functions) + 1
           args == IF VoidInput THEN <<>> ELSE [i \in DOMAIN Fixed |-> Fixed[i].type]
           new == [args |-> args, varargs |-> Variadic, value |-> f]
           declared == IF context_stack = <<>> THEN <<>>
                       ELSE [context_stack EXCEPT ![Len(context_stack)] = WithFunction(Top, n, new)]
           top == Context(Len(blocks) + 1, f, FALSE, Parameters)
<1>1. Len(functions') = f
  <2>1. PICK e : functions' = Append(functions, e)
    BY DEF ExitFunctionDeclarator
  <2> QED
    BY <2>1, RecordsAppend DEF SequencesOK
<1>2. context_stack' = IF function_state = "kFunctionDefinition" THEN Append(declared, top)
                       ELSE declared
  BY DEF ExitFunctionDeclarator
<1>3. /\ Records(declared, ContextFields)
      /\ \A i \in DOMAIN declared : IsContext(declared[i], f)
  <2>1. CASE context_stack = <<>>
    BY <1>0, <2>1
  <2>2. CASE context_stack # <<>>
    <3> DEFINE c == WithFunction(Top, n, new)
    <3> DEFINE k == Len(context_stack)
    <3>1. IsContext(Top, Len(functions))
      BY <1>0, <2>2, TopIsContext
    <3>2. IsContext(c, Len(functions)) /\ ContextFields \subseteq DOMAIN c
      <4> HIDE DEF n, new
      <4> QED BY <3>1 DEF IsContext, WithFunction, ContextFields
    <3>3. declared = [context_stack EXCEPT ![k] = c]
      BY <2>2
    <3>4. k \in DOMAIN context_stack
      BY <1>0, <2>2, RecordsLength
    <3> HIDE DEF c, declared, k
    <3>5. /\ Records([context_stack EXCEPT ![k] = c], ContextFields)
          /\ Len([context_stack EXCEPT ![k] = c]) = Len(context_stack)
          /\ \A i \in DOMAIN context_stack :
               [context_stack EXCEPT ![k] = c][i] = IF i = k THEN c ELSE context_stack[i]
      BY ONLY <1>0, <3>2, <3>4, RecordsReplace, Zenon
    <3>6. \A i \in DOMAIN declared : i \in DOMAIN context_stack /\ (declared[i] = c \/ declared[i] = context_stack[i])
      BY <3>3, <3>5
    <3>7. \A i \in DOMAIN declared : IsContext(declared[i], Len(functions))
      BY <3>2, <3>6 DEF ContextsOK
    <3>8. \A x : IsContext(x, Len(functions)) => IsContext(x, f)
      BY <1>0 DEF IsContext
    <3> QED
      BY <3>3, <3>5, <3>7, <3>8
  <2> QED
    BY <2>1, <2>2
<1>4. CASE function_state # "kFunctionDefinition"
  <2> HIDE DEF declared, f
  <2> QED
    BY <1>1, <1>2, <1>3, <1>4 DEF ContextsOK
<1>5. CASE function_state = "kFunctionDefinition"
  <2>1. IsContext(top, f) /\ ContextFields \subseteq DOMAIN top
    BY <1>0 DEF IsContext, Context, ContextFields
  <2>2. context_stack' = Append(declared, top)
    BY <1>2, <1>5
  <2> HIDE DEF declared, f, top
  <2>3. /\ Records(context_stack', ContextFields) /\ Len(context_stack') = Len(declared) + 1
        /\ \A i \in 1 .. Len(declared) : context_stack'[i] = declared[i]
        /\ context_stack'[Len(declared) + 1] = top
    BY <1>3, <2>1, <2>2, RecordsAppend
  <2>4. /\ DOMAIN context_stack' = 1 .. Len(declared) + 1
        /\ DOMAIN declared = 1 .. Len(declared) /\ Len(declared) \in Nat
    BY <1>3, <2>3, RecordsLength
  <2>5. \A i \in DOMAIN context_stack' : IsContext(context_stack'[i], f)
    BY <1>3, <2>1, <2>3, <2>4
  <2> QED
    BY <1>1, <2>5 DEF ContextsOK
<1> QED
  BY <1>4, <1>5

LEMMA ContextsAtSelection ==
  ASSUME IInv, SequencesOK, ContextsOK, FunctionsKept,
         NEW op, SelectionSurvives(op), ExitSelectionStatement(op)
  PROVE  ContextsOK'
<1>0. Len(functions) \in Nat /\ Records(context_stack, ContextFields)
  BY RecordsLength DEF SequencesOK, IInv
<1> DEFINE n == Len(context_stack) - Branches(op)
           resume == Len(blocks) + 1
           around == SubSeq(context_stack, 1, n)
           c == [around[n] EXCEPT !.llvm = resume]
<1>1. n \in 1 .. Len(context_stack) /\ n \in 0 .. Len(context_stack)
  BY <1>0, RecordsLength DEF SelectionSurvives, Branches
<1>2. /\ Records(around, ContextFields) /\ Len(around) = n
      /\ \A i \in 1 .. n : around[i] = context_stack[i]
  <2> HIDE DEF n
  <2> QED
    BY <1>0, <1>1, RecordsPrefix, SMTT(30)
<1>3. context_stack' = [around EXCEPT ![n] = c] /\ Len(functions') = Len(functions)
  BY <1>2, SelectionFunctions DEF ExitSelectionStatement, Around
<1>4. DOMAIN around = 1 .. n /\ DOMAIN context_stack = 1 .. Len(context_stack)
      /\ Len(context_stack) \in Nat
  BY <1>0, <1>2, RecordsLength
<1>5. \A i \in 1 .. n : IsContext(around[i], Len(functions'))
  <2> HIDE DEF n, around
  <2>1. \A i \in 1 .. n : i \in DOMAIN context_stack
    BY <1>1, <1>4
  <2> QED
    BY <1>2, <1>3, <2>1 DEF ContextsOK
<1>6. IsContext(c, Len(functions'))
  <2> HIDE DEF n, around, resume
  <2>1. IsContext(around[n], Len(functions'))
    BY <1>1, <1>5
  <2> QED
    BY <2>1 DEF IsContext
<1> HIDE DEF n, around, c
<1>7. DOMAIN context_stack' = 1 .. n
  BY <1>3, <1>4
<1>8. \A i \in 1 .. n : context_stack'[i] = c \/ context_stack'[i] = around[i]
  BY <1>3, <1>4
<1> QED
  BY <1>5, <1>6, <1>7, <1>8 DEF ContextsOK

LEMMA ContextsAtExits ==
  ASSUME IInv, SequencesOK, ContextsOK, FunctionsKept, NEW r, ExitSurvives(r), ExitMethod(r)
  PROVE  ContextsOK'
<1>0. Len(functions) \in Nat /\ Records(context_stack, ContextFields)
  BY RecordsLength DEF SequencesOK, IInv
<1>1. CASE UNCHANGED context_stack
  BY <1>0, <1>1, ContextsStay
<1>2. CASE r.class = "FunctionDefinition" /\ ExitFunctionDefinition
  <2>1. context_stack # <<>> /\ PopBlock
    BY <1>2 DEF ExitSurvives, FunctionDefinitionSurvives, ExitFunctionDefinition
  <2> QED
    BY <1>0, <2>1, PopContexts
<1>3. CASE r.class = "CompoundStatement" /\ ExitCompoundStatement
  <2>1. context_stack # <<>> /\ (PopBlock \/ UNCHANGED context_stack)
    BY <1>3 DEF ExitSurvives, ExitCompoundStatement
  <2> QED
    BY <1>0, <1>1, <2>1, PopContexts
<1>4. CASE ExitFunctionDeclarator
  BY <1>4, ContextsAtFunction
<1>5. CASE ExitInitDeclarator(r.op)
  <2> SUFFICES ASSUME ~UNCHANGED context_stack PROVE ContextsOK'
    BY <1>1
  <2> DEFINE c == WithIdentifier(Top, Last(identifier_stack))
  <2>1. /\ context_stack # <<>> /\ UNCHANGED functions
        /\ context_stack' = [context_stack EXCEPT ![Len(context_stack)] = c]
    BY <1>5 DEF ExitInitDeclarator, stacks, ir
  <2>2. IsContext(Top, Len(functions'))
    BY <1>0, <2>1, TopIsContext
  <2>3. IsContext(c, Len(functions'))
    BY <2>2 DEF IsContext, WithIdentifier
  <2> HIDE DEF c
  <2> QED
    BY <1>0, <2>1, <2>3, TopChanged
<1>6. CASE r.class = "SelectionStatement" /\ ExitSelectionStatement(r.op)
  <2>1. SelectionSurvives(r.op)
    BY <1>6 DEF ExitSurvives
  <2> QED
    BY <1>6, <2>1, ContextsAtSelection
<1>7. \/ ExitAssignmentExpression(r.op) \/ ExitBinaryExpression(r.op) \/ ExitPostfixExpression
      \/ ExitParameterList(r.op) \/ ExitParameterDeclaration(r.op) \/ ExitDeclaration
      \/ ExitDeclarationSpecifiers \/ ExitName \/ ExitJumpStatement \/ UNCHANGED visitor
      => UNCHANGED context_stack
  BY DEF ExitAssignmentExpression, ExitBinaryExpression, ExitPostfixExpression,
         ExitParameterList, ExitParameterDeclaration, ExitDeclaration,
         ExitDeclarationSpecifiers, ExitName, ExitJumpStatement, visitor, stacks
<1> QED
  BY <1>1, <1>2, <1>3, <1>4, <1>5, <1>6, <1>7 DEF ExitMethod

LEMMA TypesStay == TypeInv /\ [Next]_vars => TypeInv'
<1> SUFFICES ASSUME TypeInv, [Next]_vars PROVE TypeInv'
  OBVIOUS
<1>0. IInv' /\ Len(functions) \in Nat /\ Records(context_stack, ContextFields)
  BY NextPreserves, RecordsLength DEF TypeInv, SequencesOK, IInv
<1>1. ASSUME UNCHANGED visitor PROVE FlagsOK' /\ SequencesOK' /\ ContextsOK'
  BY <1>1 DEF visitor, flags, stacks, ir, TypeInv, FlagsOK, SequencesOK, ContextsOK
<1>2. CASE VisitSymbol
  <2>1. PICK r \in RulesHere : Visit(r)
    BY <1>2 DEF VisitSymbol
  <2>2. CASE VisitSurvives(r) /\ VisitMethod(r) /\ UNCHANGED outcome
    BY <1>0, <2>2, FlagsAtVisits, SequencesAtVisits, ContextsAtVisits DEF TypeInv, OutcomeOK
  <2>3. CASE Abort
    BY <1>0, <1>1, <2>3 DEF Abort, TypeInv, OutcomeOK
  <2> QED
    BY <2>1, <2>2, <2>3 DEF Visit
<1>3. CASE ExitSymbol
  <2> DEFINE r == Head(todo).v
  <2>1. CASE ExitSurvives(r) /\ ExitMethod(r) /\ UNCHANGED outcome
    <3> HIDE DEF r
    <3> QED
      BY <1>0, <2>1, FlagsAtExits, SequencesAtExits, ContextsAtExits DEF TypeInv, OutcomeOK
  <2>2. CASE Abort
    BY <1>0, <1>1, <2>2 DEF Abort, TypeInv, OutcomeOK
  <2> QED
    BY <1>3, <2>1, <2>2 DEF ExitSymbol
<1>4. CASE VisitTerminal
  <2>1. PICK n : VisitConstant \/ VisitIdentifier(n)
    BY <1>4 DEF VisitTerminal
  <2>2. /\ UNCHANGED <<value_top, functions, context_stack, outcome>>
        /\ FlagsOK'
    <3>1. CASE VisitConstant
      BY <1>4, <3>1 DEF VisitConstant, VisitTerminal, TypeInv, FlagsOK, flags, ir
    <3>2. CASE VisitIdentifier(n)
      BY <1>4, <3>2 DEF VisitIdentifier, VisitTerminal, TypeInv, FlagsOK, Fatal
    <3> QED
      BY <2>1, <3>1, <3>2
  <2>3. UNCHANGED value_stack \/ \E e : value_stack' = Append(value_stack, e)
    BY <2>1 DEF VisitConstant, VisitIdentifier
  <2>4. Records(value_stack', {})
    BY <2>3, Pushed DEF TypeInv, SequencesOK
  <2> QED
    BY <1>0, <2>2, <2>4 DEF TypeInv, SequencesOK, ContextsOK, OutcomeOK
<1>5. CASE VisitMark \/ Finish
  BY <1>0, <1>1, <1>5 DEF VisitMark, Finish, TypeInv, OutcomeOK
<1>6. CASE UNCHANGED vars
  BY <1>0, <1>1, <1>6 DEF vars, TypeInv, OutcomeOK
<1> QED
  BY <1>2, <1>3, <1>4, <1>5, <1>6 DEF Next

(* For every tree the members of the visitor have values of their types,   *)
(* and contexts and the builder refer to blocks and functions there are.   *)
THEOREM VisitorTypesCorrect == Spec => []VisitorTypeOK
<1>1. Spec => []TypeInv
  BY TypesAtFirst, TypesStay, PTL DEF Spec
<1> QED
  BY <1>1, TypeInvTypes, PTL

-----------------------------------------------------------------------------
(* StacksClean.  What a method leaves on the stacks and in the flags is    *)
(* for others to take back, so the invariant is about what is left of the  *)
(* walk: there is a list of expectations, one before each item of todo and *)
(* one behind them all, such that the visitor is now as the first expects, *)
(* each item turns one into the next, and the last is that of a clean      *)
(* visitor.  An item is a part of a kind of the grammar, or an exit.       *)
Many == -1
Bounds == Nat \cup {Many}
Within(n, bound) == bound = Many \/ n <= bound
More(bound) == IF bound = Many THEN Many ELSE bound + 1

(* At most so many types and identifiers; the flags; whether there may be  *)
(* contexts.  A pointer's flag is not set, set by a declarator ("any"),    *)
(* still to be taken by the name just read ("declared"), or was taken by   *)
(* it unless there was no type to put it in ("named").                     *)
Expectations ==
  [types : Bounds, ids : Bounds, inside : BOOLEAN, complete : BOOLEAN,
   fs  : {"kNotFunction", "kFunctionDeclaration", "kFunctionDefinition"},
   var : {"kAccess", "kDefinition", "kFunction", "kAddress"},
   ptr : {"no", "any", "declared", "named"}]

Untyped == {i \in DOMAIN identifier_stack : identifier_stack[i].type = NullType}

PointerIs(ptr, fs) ==
  CASE ptr = "no"       -> ~is_pointer
    [] ptr = "any"      -> TRUE
    [] ptr = "declared" -> Len(identifier_stack) \in Untyped
    [] ptr = "named"    -> is_pointer => /\ type_stack = <<>>
                                         /\ fs = "kNotFunction" => Untyped = DOMAIN identifier_stack

Meets(e) ==
  /\ Within(Len(type_stack), e.types) /\ Within(Len(identifier_stack), e.ids)
  /\ ~e.inside => context_stack = <<>>
  /\ is_complete_type = e.complete /\ function_state = e.fs /\ variable_state = e.var
  /\ PointerIs(e.ptr, e.fs)

Outside ==
  [types |-> 0, ids |-> 0, inside |-> FALSE, complete |-> TRUE, fs |-> "kNotFunction",
   var |-> "kAccess", ptr |-> "no"]
Inside  == [Outside EXCEPT !.inside = TRUE]
Entered == [Inside EXCEPT !.fs = "kFunctionDefinition"]

(* Behind the specifiers of a declaration; behind its declarator.          *)
Specified(b)  == [b EXCEPT !.types = 1]
WithName(e)   == [e EXCEPT !.ids = More(@), !.ptr = "named"]
Prototyped(b) == [b EXCEPT !.types = 1, !.fs = "kFunctionDeclaration"]
Opened        == [Outside EXCEPT !.types = 1, !.fs = "kFunctionDefinition"]

(* Among the parameters of a function.                                     *)
Listing(fs, b) == [b EXCEPT !.types = Many, !.ids = Many, !.fs = fs]

(* What the declarator of a function does; a part of each kind; an Exit    *)
(* method; an item of todo.                                                *)
DeclaresFunction(e, f) ==
  \/ \E b \in {Outside, Inside} : e = Specified(b) /\ f = Prototyped(b)
  \/ e = Opened /\ f = Entered

PartStep(kind, e, f) ==
  \/ kind = "external" /\ e = Outside /\ f = Outside
  \/ kind = "compound" /\ e \in {Inside, Entered} /\ f = Inside
  \/ kind = "statement" /\ e = Inside /\ f = Inside
  \/ /\ kind = "expression" /\ f = e
     /\ e.var = "kAccess" /\ e.fs = "kNotFunction" /\ e.ids # Many /\ e.ptr \in {"no", "named"}
  \/ kind = "declarators" /\ f = e /\ \E b \in {Outside, Inside} : e = Specified(b)
  \/ /\ kind = "variable" /\ f = WithName(e)
     /\ e.ptr = "no" /\ e.var = "kAccess" /\ (e.fs = "kNotFunction" => e.ids = 0)
  \/ kind = "function" /\ DeclaresFunction(e, f)
  \/ kind = "signature" /\ e.ptr = "any" /\ DeclaresFunction([e EXCEPT !.ptr = "no"], f)
  \/ /\ kind = "name"
     /\ \/ e.ptr = "no" /\ f = [e EXCEPT !.ids = More(@), !.var = "kAccess"]
        \/ /\ e.ptr = "any" /\ (e.fs = "kNotFunction" => e.ids = 0)
           /\ f = [WithName(e) EXCEPT !.var = "kAccess"]
  \/ /\ kind = "parameters" /\ f = e
     /\ \E b \in {Outside, Inside}, fs \in {"kFunctionDeclaration", "kFunctionDefinition"} :
          e = Listing(fs, b)
  \/ /\ kind = "specifiers" /\ e.ptr = "no"
     /\ f = [e EXCEPT !.types = IF e.complete THEN More(@) ELSE @, !.complete = TRUE]

ExitStep(class, op, e, f) ==
  \/ /\ class \in {"AssignmentExpression", "BinaryExpression", "ExpressionStatement",
                   "JumpStatement", "Declarator"}
     /\ f = e
  \/ class \in {"SelectionStatement", "CompoundStatement"} /\ e = Inside /\ f = Inside
  \/ class = "PostfixExpression" /\ e = (IF op = "(" THEN [f EXCEPT !.ids = More(@)] ELSE f)
     /\ f.ids # Many /\ f.ptr \in {"no", "named"}
  \/ class = "FunctionDefinition" /\ e = Inside /\ f = Outside
  \/ class = "ParameterList" /\ f = e /\ e.ids = Many /\ e.ptr = "no"
  \/ /\ class = "ParameterDeclaration"
     /\ e.types = Many /\ e.ids = Many /\ e.fs # "kNotFunction" /\ f = [e EXCEPT !.ptr = "no"]
     /\ e.ptr \in {"no", "named"} /\ op \in {"unnamed", "abstract", ""}
  \/ class = "Declaration" /\ \E b \in {Outside, Inside} : e = Specified(b) /\ f = b
  \/ class = "DeclarationSpecifiers" /\ f = [e EXCEPT !.complete = TRUE]
  \/ /\ class = "DirectDeclarator" /\ op = ""
     /\ \/ e.ptr = "no" /\ f = e
        \/ /\ e.ptr = "declared" /\ f = [e EXCEPT !.ptr = "named"]
           /\ e.fs = "kNotFunction" => e.ids = 1
  \/ /\ class = "DirectDeclarator" /\ op = "("
     /\ \/ \E b \in {Outside, Inside} :
             e = Listing("kFunctionDeclaration", b) /\ f = Prototyped(b)
        \/ e = Listing("kFunctionDefinition", Outside) /\ f = Entered
  \/ /\ class = "InitDeclarator"
     /\ \E b \in {Outside, Inside} : f = Specified(b) /\ e \in {WithName(f), Prototyped(b)}

ItemStep(parts, item, e, f) ==
  \/ item.k \in {"symbol", "tree"} /\ \E kind \in Kinds : item \in parts[kind] /\ PartStep(kind, e, f)
  \/ item.k = "exit" /\ ExitStep(item.v.class, item.v.op, e, f)
  \/ item.k \in {"constant", "mark"} /\ f = e
  \/ item.k = "variable" /\ e.var \in {"kAccess", "kAddress"} /\ f = [e EXCEPT !.var = "kAccess"]
  \/ /\ item.k = "callee" /\ e.var = "kFunction" /\ e.ptr \in {"no", "named"}
     /\ f = [e EXCEPT !.ids = More(@), !.var = "kAccess"]
  \/ /\ item.k = "declared" /\ e.var = "kDefinition" /\ e.ptr \in {"no", "any"}
     /\ f = [e EXCEPT !.ids = More(@), !.var = "kAccess",
                      !.ptr = IF @ = "any" THEN "declared" ELSE @]

(* The same of a whole list: an expectation for each place between items.  *)
Path(parts, items, e, f) ==
  \E p \in [1 .. Len(items) + 1 -> Expectations] :
    /\ p[1] = e /\ p[Len(items) + 1] = f
    /\ \A i \in 1 .. Len(items) : ItemStep(parts, items[i], p[i], p[i + 1])

(* What is expected behind the Visit method of a symbol.                   *)
Visited(r, e) ==
  CASE r.class = "AssignmentExpression" -> [e EXCEPT !.var = "kAddress"]
    [] r.class = "PostfixExpression" /\ r.op = "(" -> [e EXCEPT !.var = "kFunction"]
    [] r.class = "FunctionDefinition" -> [e EXCEPT !.fs = "kFunctionDefinition"]
    [] r.class = "CompoundStatement" -> Inside
    [] r.class = "DeclarationSpecifiers" ->
         [e EXCEPT !.types = IF e.complete THEN More(@) ELSE @, !.complete = FALSE]
    [] r.class = "Declarator" -> [e EXCEPT !.ptr = "any"]
    [] r.class = "DirectDeclarator" /\ r.op # "(" -> [e EXCEPT !.var = "kDefinition"]
    [] r.class = "DirectDeclarator" /\ r.op = "(" ->
         [e EXCEPT !.types = Many, !.ids = Many, !.var = "kDefinition", !.ptr = "no",
                   !.fs = IF @ = "kNotFunction" THEN "kFunctionDeclaration" ELSE @]
    [] OTHER -> e

-----------------------------------------------------------------------------
(* Lists of expectations.                                                  *)
LEMMA AnySequence ==
  ASSUME NEW S, NEW s \in Seq(S)
  PROVE  Records(s, {})
BY DEF Records

LEMMA PathEmpty ==
  ASSUME NEW P, NEW e \in Expectations
  PROVE  /\ Path(P, <<>>, e, e) /\ Records(<<>>, {})
         /\ \A f : Path(P, <<>>, e, f) => e = f
<1>1. Path(P, <<>>, e, e)
  <2> DEFINE p == [i \in 1 .. 1 |-> e]
  <2>1. p \in [1 .. Len(<<>>) + 1 -> Expectations] /\ p[1] = e
    OBVIOUS
  <2> HIDE DEF p
  <2> QED
    BY <2>1 DEF Path
<1>2. Records(<<>>, {})
  <2>1. <<>> \in Seq({})
    OBVIOUS
  <2> QED
    BY <2>1, AnySequence
<1> QED
  BY <1>1, <1>2 DEF Path

LEMMA PathOne ==
  ASSUME NEW P, NEW x, NEW e \in Expectations, NEW f \in Expectations, ItemStep(P, x, e, f)
  PROVE  Path(P, <<x>>, e, f) /\ Records(<<x>>, {})
<1> DEFINE p == [i \in 1 .. 2 |-> IF i = 1 THEN e ELSE f]
<1>1. p \in [1 .. Len(<<x>>) + 1 -> Expectations] /\ p[1] = e /\ p[2] = f
  OBVIOUS
<1> HIDE DEF p
<1>2. \A i \in 1 .. Len(<<x>>) : i = 1 /\ <<x>>[i] = x
  OBVIOUS
<1>3. \A i \in 1 .. Len(<<x>>) : ItemStep(P, <<x>>[i], p[i], p[i + 1])
  BY <1>1, <1>2
<1>4. <<x>> \in Seq({x})
  OBVIOUS
<1>5. Path(P, <<x>>, e, f)
  BY <1>1, <1>3 DEF Path
<1> QED
  BY <1>4, <1>5, AnySequence

LEMMA PathTwo ==
  ASSUME NEW P, NEW x, NEW y, NEW e \in Expectations, NEW f \in Expectations,
         NEW g \in Expectations, ItemStep(P, x, e, f), ItemStep(P, y, f, g)
  PROVE  Path(P, <<x, y>>, e, g) /\ Records(<<x, y>>, {})
<1> DEFINE p == [i \in 1 .. 3 |-> IF i = 1 THEN e ELSE IF i = 2 THEN f ELSE g]
<1>1. p \in [1 .. 3 -> Expectations] /\ p[1] = e /\ p[2] = f /\ p[3] = g
  OBVIOUS
<1> HIDE DEF p
<1>2. Len(<<x, y>>) = 2 /\ <<x, y>>[1] = x /\ <<x, y>>[2] = y
  OBVIOUS
<1>3. \A i \in 1 .. 2 : ItemStep(P, <<x, y>>[i], p[i], p[i + 1])
  <2>1. ItemStep(P, <<x, y>>[1], p[1], p[1 + 1]) /\ ItemStep(P, <<x, y>>[2], p[2], p[2 + 1])
    BY <1>1, <1>2
  <2> QED
    BY <2>1
<1>4. <<x, y>> \in Seq({x, y})
  OBVIOUS
<1>5. Path(P, <<x, y>>, e, g)
  BY <1>1, <1>2, <1>3 DEF Path
<1> QED
  BY <1>4, <1>5, AnySequence

LEMMA PathThree ==
  ASSUME NEW P, NEW x, NEW y, NEW z, NEW e \in Expectations, NEW f \in Expectations,
         NEW g \in Expectations, NEW h \in Expectations,
         ItemStep(P, x, e, f), ItemStep(P, y, f, g), ItemStep(P, z, g, h)
  PROVE  Path(P, <<x, y, z>>, e, h) /\ Records(<<x, y, z>>, {})
<1> DEFINE p == [i \in 1 .. 4 |-> IF i = 1 THEN e ELSE IF i = 2 THEN f ELSE IF i = 3 THEN g ELSE h]
<1>1. p \in [1 .. 4 -> Expectations] /\ p[1] = e /\ p[2] = f /\ p[3] = g /\ p[4] = h
  OBVIOUS
<1> HIDE DEF p
<1>2. /\ Len(<<x, y, z>>) = 3
      /\ <<x, y, z>>[1] = x /\ <<x, y, z>>[2] = y /\ <<x, y, z>>[3] = z
  OBVIOUS
<1>3. \A i \in 1 .. 3 : ItemStep(P, <<x, y, z>>[i], p[i], p[i + 1])
  <2>1. /\ ItemStep(P, <<x, y, z>>[1], p[1], p[1 + 1]) /\ ItemStep(P, <<x, y, z>>[2], p[2], p[2 + 1])
        /\ ItemStep(P, <<x, y, z>>[3], p[3], p[3 + 1])
    BY <1>1, <1>2
  <2> QED
    BY <2>1
<1>4. <<x, y, z>> \in Seq({x, y, z})
  OBVIOUS
<1>5. Path(P, <<x, y, z>>, e, h)
  BY <1>1, <1>2, <1>3 DEF Path
<1> QED
  BY <1>4, <1>5, AnySequence

LEMMA PathSame ==
  ASSUME NEW P, NEW S, NEW s \in Seq(S), NEW e \in Expectations,
         \A x \in S : ItemStep(P, x, e, e)
  PROVE  Path(P, s, e, e)
<1> DEFINE p == [i \in 1 .. Len(s) + 1 |-> e]
<1>1. p \in [1 .. Len(s) + 1 -> Expectations] /\ p[1] = e /\ p[Len(s) + 1] = e
  OBVIOUS
<1>2. \A i \in 1 .. Len(s) : s[i] \in S /\ p[i] = e /\ p[i + 1] = e
  OBVIOUS
<1> HIDE DEF p
<1> QED
  BY <1>1, <1>2 DEF Path

LEMMA PathConcat ==
  ASSUME NEW P, NEW s, NEW t, Records(s, {}), Records(t, {}),
         NEW e, NEW f, NEW g, Path(P, s, e, f), Path(P, t, f, g)
  PROVE  Path(P, s \o t, e, g) /\ Records(s \o t, {})
<1>1. PICK S : s \in Seq(S)
  BY DEF Records
<1>2. PICK T : t \in Seq(T)
  BY DEF Records
<1>3. s \in Seq(S \cup T) /\ t \in Seq(S \cup T)
  BY <1>1, <1>2
<1> DEFINE m == Len(s)
           n == Len(t)
<1>4. /\ m \in Nat /\ n \in Nat /\ Len(s \o t) = m + n /\ s \o t \in Seq(S \cup T)
      /\ \A i \in 1 .. m : (s \o t)[i] = s[i]
      /\ \A i \in m + 1 .. m + n : (s \o t)[i] = t[i - m]
  BY <1>3
<1>5. PICK p \in [1 .. m + 1 -> Expectations] :
        /\ p[1] = e /\ p[m + 1] = f
        /\ \A i \in 1 .. m : ItemStep(P, s[i], p[i], p[i + 1])
  BY DEF Path
<1>6. PICK q \in [1 .. n + 1 -> Expectations] :
        /\ q[1] = f /\ q[n + 1] = g
        /\ \A i \in 1 .. n : ItemStep(P, t[i], q[i], q[i + 1])
  BY DEF Path
<1> DEFINE u == s \o t
           w == [i \in 1 .. m + n + 1 |-> IF i <= m THEN p[i] ELSE q[i - m]]
<1> HIDE DEF m, n, u
<1>7. w \in [1 .. m + n + 1 -> Expectations]
  BY <1>4, <1>5, <1>6
<1>8. \A i \in 1 .. m + n + 1 : w[i] = IF i <= m THEN p[i] ELSE q[i - m]
  OBVIOUS
<1> HIDE DEF w
<1>9. /\ w[1] = e /\ w[m + n + 1] = g /\ \A i \in 1 .. m + 1 : w[i] = p[i]
      /\ \A i \in m + 1 .. m + n : w[i] = q[i - m] /\ w[i + 1] = q[i - m + 1]
  <2>1. w[m + 1] = p[m + 1]
    <3>1. m + 1 \in 1 .. m + n + 1 /\ ~(m + 1 <= m) /\ (m + 1) - m = 1
      BY <1>4
    <3> QED
      BY <1>5, <1>6, <1>8, <3>1
  <2>2. ASSUME NEW i \in 1 .. m + 1 PROVE w[i] = p[i]
    <3>1. CASE i = m + 1
      BY <2>1, <3>1
    <3>2. CASE i <= m
      <4>1. i \in 1 .. m + n + 1
        BY <1>4, <3>2
      <4> QED
        BY <1>8, <3>2, <4>1
    <3> QED
      BY <1>4, <3>1, <3>2
  <2>3. w[m + n + 1] = g
    BY <1>4, <1>6, <1>8
  <2>4. ASSUME NEW i \in m + 1 .. m + n PROVE w[i] = q[i - m] /\ w[i + 1] = q[i - m + 1]
    <3>1. i \in 1 .. m + n + 1 /\ i + 1 \in 1 .. m + n + 1 /\ ~(i <= m) /\ ~(i + 1 <= m)
          /\ (i + 1) - m = i - m + 1
      BY <1>4
    <3> QED
      BY <1>8, <3>1
  <2> QED
    BY <1>4, <1>5, <2>2, <2>3, <2>4
<1>10. ASSUME NEW i \in 1 .. m + n PROVE ItemStep(P, u[i], w[i], w[i + 1])
  <2>1. CASE i \in 1 .. m
    <3>1. u[i] = s[i] /\ w[i] = p[i] /\ w[i + 1] = p[i + 1]
      BY <1>4, <1>9, <2>1 DEF u
    <3> QED
      BY <1>5, <2>1, <3>1
  <2>2. CASE i \in m + 1 .. m + n
    <3>1. u[i] = t[i - m] /\ w[i] = q[i - m] /\ w[i + 1] = q[i - m + 1]
      BY <1>4, <1>9, <2>2 DEF u
    <3>2. i - m \in 1 .. n
      BY <1>4, <2>2
    <3> QED
      BY <1>6, <3>1, <3>2
  <2> QED
    BY <1>4, <2>1, <2>2
<1>11. Len(u) = m + n
  BY <1>4 DEF u
<1>12. Path(P, u, e, g)
  BY <1>7, <1>9, <1>10, <1>11 DEF Path
<1>13. Records(u, {})
  BY <1>4 DEF Records, u
<1> QED
  BY <1>12, <1>13 DEF u

LEMMA PathHead ==
  ASSUME NEW P, NEW s, Records(s, {}), s # <<>>, NEW e, NEW g, Path(P, s, e, g)
  PROVE  /\ Records(Tail(s), {}) /\ e \in Expectations
         /\ \E f \in Expectations : ItemStep(P, Head(s), e, f) /\ Path(P, Tail(s), f, g)
<1>1. PICK S : s \in Seq(S)
  BY DEF Records
<1> DEFINE n == Len(s)
           t == Tail(s)
<1>2. /\ n \in Nat /\ n >= 1 /\ t \in Seq(S) /\ Len(t) = n - 1 /\ Head(s) = s[1]
      /\ \A i \in 1 .. n - 1 : t[i] = s[i + 1]
  BY <1>1
<1>3. PICK p \in [1 .. n + 1 -> Expectations] :
        /\ p[1] = e /\ p[n + 1] = g
        /\ \A i \in 1 .. n : ItemStep(P, s[i], p[i], p[i + 1])
  BY DEF Path
<1> DEFINE q == [i \in 1 .. n |-> p[i + 1]]
<1> HIDE DEF n, t
<1>4. q \in [1 .. Len(t) + 1 -> Expectations] /\ q[1] = p[2] /\ q[Len(t) + 1] = g
  BY <1>2, <1>3
<1>5. \A i \in 1 .. Len(t) : t[i] = s[i + 1] /\ q[i] = p[i + 1] /\ q[i + 1] = p[i + 2] /\ i + 1 \in 1 .. n
  BY <1>2
<1> HIDE DEF q
<1>6. \A i \in 1 .. Len(t) : ItemStep(P, t[i], q[i], q[i + 1])
  <2> SUFFICES ASSUME NEW i \in 1 .. Len(t) PROVE ItemStep(P, t[i], q[i], q[i + 1])
    OBVIOUS
  <2>1. ItemStep(P, s[i + 1], p[i + 1], p[(i + 1) + 1]) /\ (i + 1) + 1 = i + 2
    BY <1>2, <1>3, <1>5
  <2> QED
    BY <1>5, <2>1
<1>7. Path(P, t, p[2], g)
  BY <1>4, <1>6 DEF Path
<1>8. p[2] \in Expectations /\ e \in Expectations /\ ItemStep(P, Head(s), e, p[2])
  <2>1. 1 \in 1 .. n /\ 2 \in 1 .. n + 1 /\ 1 \in 1 .. n + 1
    BY <1>2
  <2>2. ItemStep(P, s[1], p[1], p[1 + 1])
    BY <1>3, <2>1
  <2> QED
    BY <1>2, <1>3, <2>1, <2>2
<1>9. Records(t, {})
  BY <1>2 DEF Records
<1> QED
  BY <1>7, <1>8, <1>9 DEF t

-----------------------------------------------------------------------------
(* A symbol's children, and its Exit method, do what is expected of it.    *)
Grammatical(P) ==
  \A kind \in Kinds : \A x \in P[kind] :
    x.k \in {"symbol", "tree"} \/ (kind = "expression" /\ x.k \in {"constant", "variable"})

RuleSteps(P, r, e, f) ==
  \E d \in Expectations :
    /\ Path(P, r.kids, Visited(r, e), d)
    /\ IF r.class = "NonTerminal" THEN d = f ELSE ExitStep(r.class, r.op, d, f)

LEMMA ConstantBounds == 0 \in Bounds /\ 1 \in Bounds /\ More(0) = 1
BY DEF Bounds, More, Many

LEMMA ConstantExpectations ==
  /\ Outside \in Expectations /\ Inside \in Expectations /\ Entered \in Expectations
  /\ Opened \in Expectations
  /\ \A b \in {Outside, Inside} : Specified(b) \in Expectations /\ Prototyped(b) \in Expectations
<1>1. 0 \in Bounds /\ 1 \in Bounds
  BY DEF Bounds
<1>2. Outside \in Expectations
  BY <1>1 DEF Outside, Expectations
<1>3. Inside \in Expectations
  BY <1>2 DEF Inside, Expectations
<1>4. Entered \in Expectations
  BY <1>3 DEF Entered, Expectations
<1>5. Opened \in Expectations
  BY <1>1, <1>2 DEF Opened, Expectations
<1>6. ASSUME NEW b \in Expectations PROVE Specified(b) \in Expectations /\ Prototyped(b) \in Expectations
  BY <1>1 DEF Specified, Prototyped, Expectations
<1> QED
  BY <1>2, <1>3, <1>4, <1>5, <1>6

LEMMA SameExpectation ==
  ASSUME NEW e \in Expectations, NEW f \in Expectations,
         e.types = f.types, e.ids = f.ids, e.inside = f.inside, e.complete = f.complete,
         e.fs = f.fs, e.var = f.var, e.ptr = f.ptr
  PROVE  e = f
BY DEF Expectations

LEMMA PartItem ==
  ASSUME NEW P, Grammatical(P), NEW kind \in Kinds, NEW x \in P[kind],
         NEW e \in Expectations, NEW f, PartStep(kind, e, f)
  PROVE  ItemStep(P, x, e, f)
<1>1. CASE x.k \in {"symbol", "tree"}
  BY <1>1 DEF ItemStep
<1>2. CASE kind = "expression" /\ x.k = "constant"
  BY <1>2 DEF ItemStep, PartStep
<1>3. CASE kind = "expression" /\ x.k = "variable"
  <2>1. e.var = "kAccess" /\ f = e
    BY <1>3 DEF PartStep
  <2>2. e \in Expectations => [e EXCEPT !.var = "kAccess"] = e
    BY <2>1 DEF Expectations
  <2> QED
    BY <1>3, <2>1, <2>2 DEF ItemStep
<1> QED
  BY <1>1, <1>2, <1>3 DEF Grammatical

LEMMA PlaceFields ==
  ASSUME NEW b \in {Outside, Inside}
  PROVE  /\ b.types = 0 /\ b.ids = 0 /\ b.complete = TRUE /\ b.fs = "kNotFunction"
         /\ b.var = "kAccess" /\ b.ptr = "no" /\ b.inside = (b # Outside)
<1>1. Outside.inside = FALSE /\ Inside.inside = TRUE
  BY DEF Outside, Inside
<1>2. CASE b = Outside
  BY <1>1, <1>2 DEF Outside
<1>3. CASE b = Inside
  BY <1>1, <1>3 DEF Outside, Inside
<1> QED
  BY <1>2, <1>3

LEMMA SpecifiedFields ==
  ASSUME NEW b \in {Outside, Inside}
  PROVE  /\ Specified(b).types = 1 /\ Specified(b).ids = 0 /\ Specified(b).complete = TRUE
         /\ Specified(b).fs = "kNotFunction" /\ Specified(b).var = "kAccess"
         /\ Specified(b).ptr = "no" /\ Specified(b).inside = b.inside
<1>1. b \in Expectations
  BY ConstantExpectations
<1> QED
  BY <1>1, PlaceFields DEF Specified, Expectations

LEMMA MoreIsBound ==
  ASSUME NEW n \in Bounds
  PROVE  More(n) \in Bounds
BY DEF Bounds, More, Many

LEMMA SpecifiersStep ==
  ASSUME NEW e \in Expectations, NEW f \in Expectations, e.ptr = "no",
         f.types = IF e.complete THEN More(e.types) ELSE e.types,
         f.complete = TRUE, f.ids = e.ids, f.inside = e.inside, f.fs = e.fs, f.var = e.var,
         f.ptr = e.ptr
  PROVE  PartStep("specifiers", e, f)
<1> DEFINE n == IF e.complete THEN More(e.types) ELSE e.types
           g == [e EXCEPT !.types = n, !.complete = TRUE]
<1>1. n \in Bounds
  BY MoreIsBound DEF Expectations
<1> HIDE DEF n
<1>2. /\ g \in Expectations
      /\ g.types = n /\ g.complete = TRUE /\ g.ids = e.ids /\ g.inside = e.inside
      /\ g.fs = e.fs /\ g.var = e.var /\ g.ptr = e.ptr
  BY <1>1 DEF Expectations
<1> HIDE DEF g
<1>3. f = g
  BY <1>2, SameExpectation, ZenonT(40) DEF n
<1> QED
  BY <1>3 DEF PartStep, n, g

LEMMA DeclarationSteps ==
  ASSUME NEW P, Grammatical(P), NEW r, IsDeclaration(r, P), NEW b \in {Outside, Inside}
  PROVE  RuleSteps(P, r, b, b) /\ Records(r.kids, {})
<1>0. b \in Expectations /\ Specified(b) \in Expectations
  BY ConstantExpectations
<1>1. PartStep("specifiers", b, Specified(b)) /\ PartStep("declarators", Specified(b), Specified(b))
  <2>1. PartStep("specifiers", b, Specified(b))
    BY <1>0, PlaceFields, SpecifiedFields, ConstantBounds, SpecifiersStep, ZenonT(40)
  <2> QED
    BY <2>1 DEF PartStep
<1>2. Visited(r, b) = b /\ ExitStep(r.class, r.op, Specified(b), b)
  BY DEF IsDeclaration, Visited, ExitStep
<1>3. PICK s \in P.specifiers : r.kids = <<s>> \/ \E d \in P.declarators : r.kids = <<s, d>>
  BY DEF IsDeclaration
<1>4. ItemStep(P, s, b, Specified(b))
  BY <1>0, <1>1, PartItem DEF Kinds
<1>5. CASE r.kids = <<s>>
  BY <1>0, <1>2, <1>4, <1>5, PathOne DEF RuleSteps, IsDeclaration
<1>6. CASE \E d \in P.declarators : r.kids = <<s, d>>
  <2>1. PICK d \in P.declarators : r.kids = <<s, d>>
    BY <1>6
  <2>2. ItemStep(P, d, Specified(b), Specified(b))
    BY <1>0, <1>1, PartItem DEF Kinds
  <2> QED
    BY <1>0, <1>2, <1>4, <2>1, <2>2, PathTwo DEF RuleSteps, IsDeclaration
<1> QED
  BY <1>3, <1>5, <1>6

LEMMA ExternalSteps ==
  ASSUME NEW P, Grammatical(P), NEW r, IsRule("external", r, P), NEW e, NEW f,
         PartStep("external", e, f)
  PROVE  RuleSteps(P, r, e, f) /\ Records(r.kids, {})
<1>0. e = Outside /\ f = Outside
  BY DEF PartStep
<1>1. CASE r.class = "NonTerminal" /\ r.kids \in Seq(P.external)
  <2>1. \A x \in P.external : ItemStep(P, x, Outside, Outside)
    BY ConstantExpectations, PartItem DEF Kinds, PartStep
  <2>2. Path(P, r.kids, Outside, Outside)
    BY <1>1, <2>1, ConstantExpectations, PathSame
  <2> QED
    BY <1>0, <1>1, <2>2, ConstantExpectations DEF RuleSteps, Visited, Records
<1>2. CASE IsDeclaration(r, P)
  BY <1>0, <1>2, DeclarationSteps
<1>3. CASE /\ r.class = "FunctionDefinition"
           /\ \E s \in P.specifiers, d \in P.function, c \in P.compound : r.kids = <<s, d, c>>
  <2>1. PICK s \in P.specifiers, d \in P.function, c \in P.compound : r.kids = <<s, d, c>>
    BY <1>3
  <2> DEFINE first == [Outside EXCEPT !.fs = "kFunctionDefinition"]
  <2>2. Visited(r, e) = first /\ ExitStep(r.class, r.op, Inside, f)
    BY <1>0, <1>3 DEF Visited, ExitStep
  <2>3. first \in Expectations
    BY ConstantExpectations DEF Expectations
  <2>4. /\ PartStep("specifiers", first, Opened)
        /\ PartStep("function", Opened, Entered) /\ PartStep("compound", Entered, Inside)
    <3>1. PartStep("specifiers", first, Opened)
      BY <2>3, ConstantExpectations, ConstantBounds, SpecifiersStep DEF Opened, Outside
    <3> QED
      BY <3>1 DEF PartStep, DeclaresFunction
  <2> HIDE DEF first
  <2>5. ItemStep(P, s, first, Opened) /\ ItemStep(P, d, Opened, Entered) /\ ItemStep(P, c, Entered, Inside)
    BY <2>3, <2>4, ConstantExpectations, PartItem DEF Kinds
  <2>6. Path(P, r.kids, first, Inside) /\ Records(r.kids, {})
    BY <2>1, <2>3, <2>5, ConstantExpectations, PathThree
  <2> QED
    BY <1>3, <2>2, <2>6, ConstantExpectations DEF RuleSteps
<1> QED
  BY <1>1, <1>2, <1>3 DEF IsRule

LEMMA BlockSteps ==
  ASSUME NEW P, Grammatical(P), NEW r,
         \/ IsRule("compound", r, P) /\ PartStep("compound", Inside, Inside)
         \/ IsRule("statement", r, P)
  PROVE  RuleSteps(P, r, Inside, Inside) /\ Records(r.kids, {})
<1>0. Inside \in Expectations
  BY ConstantExpectations
<1>1. PartStep("statement", Inside, Inside) /\ PartStep("expression", Inside, Inside)
  BY PlaceFields DEF PartStep, Many
<1>2. ASSUME NEW S, r.kids \in Seq(S), \A x \in S : ItemStep(P, x, Inside, Inside),
             Visited(r, Inside) = Inside, r.class # "NonTerminal" => ExitStep(r.class, r.op, Inside, Inside)
      PROVE  RuleSteps(P, r, Inside, Inside) /\ Records(r.kids, {})
  BY <1>0, <1>2, PathSame, AnySequence DEF RuleSteps
<1>3. \A x \in P.statement : ItemStep(P, x, Inside, Inside)
  BY <1>0, <1>1, PartItem DEF Kinds
<1>4. \A x \in P.expression : ItemStep(P, x, Inside, Inside)
  BY <1>0, <1>1, PartItem DEF Kinds
<1>5. CASE r.class \in {"NonTerminal", "CompoundStatement"} /\ r.kids \in Seq(P.statement)
  <2>1. Visited(r, Inside) = Inside /\ (r.class # "NonTerminal" => ExitStep(r.class, r.op, Inside, Inside))
    BY <1>5 DEF Visited, ExitStep
  <2> QED
    BY <1>2, <1>3, <1>5, <2>1
<1>6. CASE r.class \in {"ExpressionStatement", "JumpStatement"} /\ r.kids \in Seq(P.expression)
  <2>1. Visited(r, Inside) = Inside /\ (r.class # "NonTerminal" => ExitStep(r.class, r.op, Inside, Inside))
    BY <1>6 DEF Visited, ExitStep
  <2> QED
    BY <1>2, <1>4, <1>6, <2>1
<1>7. CASE /\ r.class = "SelectionStatement"
           /\ r.kids \in Seq(P.expression \cup P.statement \cup {Mark("then"), Mark("else")})
  <2>1. Visited(r, Inside) = Inside /\ (r.class # "NonTerminal" => ExitStep(r.class, r.op, Inside, Inside))
    BY <1>7 DEF Visited, ExitStep
  <2>2. \A x \in {Mark("then"), Mark("else")} : ItemStep(P, x, Inside, Inside)
    BY DEF ItemStep, Mark
  <2>3. \A x \in P.expression \cup P.statement \cup {Mark("then"), Mark("else")} :
          ItemStep(P, x, Inside, Inside)
    BY <1>3, <1>4, <2>2
  <2> QED
    BY <1>2, <1>7, <2>1, <2>3
<1>8. CASE IsDeclaration(r, P)
  BY <1>8, DeclarationSteps
<1> QED
  BY <1>5, <1>6, <1>7, <1>8 DEF IsRule, IsStatement

LEMMA CompoundSteps ==
  ASSUME NEW P, Grammatical(P), NEW r, IsRule("compound", r, P), NEW e, NEW f,
         PartStep("compound", e, f)
  PROVE  RuleSteps(P, r, e, f) /\ Records(r.kids, {})
<1>1. f = Inside /\ Visited(r, e) = Visited(r, Inside)
  BY DEF PartStep, IsRule, Visited
<1>2. RuleSteps(P, r, Inside, Inside) /\ Records(r.kids, {})
  BY BlockSteps DEF PartStep
<1> QED
  BY <1>1, <1>2 DEF RuleSteps

LEMMA ExpressionSteps ==
  ASSUME NEW P, Grammatical(P), NEW r, IsRule("expression", r, P),
         NEW e \in Expectations, NEW f, PartStep("expression", e, f)
  PROVE  RuleSteps(P, r, e, f) /\ Records(r.kids, {})
<1>0. e = f /\ e.var = "kAccess" /\ e.fs = "kNotFunction" /\ e.ids # Many /\ e.ptr \in {"no", "named"}
  BY DEF PartStep
<1>1. CASE /\ r.class \in {"NonTerminal", "BinaryExpression"} \/ (r.class = "PostfixExpression" /\ r.op # "(")
           /\ r.kids \in Seq(P.expression)
  <2>1. \A x \in P.expression : ItemStep(P, x, e, e)
    BY <1>0, PartItem DEF Kinds
  <2>2. Visited(r, e) = e /\ (r.class # "NonTerminal" => ExitStep(r.class, r.op, e, e))
    BY <1>0, <1>1 DEF Visited, ExitStep
  <2>3. Path(P, r.kids, e, e) /\ Records(r.kids, {})
    BY <1>1, <2>1, PathSame, AnySequence
  <2> QED
    BY <1>0, <2>2, <2>3 DEF RuleSteps
<1>2. ASSUME NEW x \in P.expression, r.class = "AssignmentExpression", r.kids = <<Variable, x>>
      PROVE  RuleSteps(P, r, e, f) /\ Records(r.kids, {})
  <2> DEFINE d == [e EXCEPT !.var = "kAddress"]
  <2>1. Visited(r, e) = d /\ ExitStep(r.class, r.op, e, e)
    BY <1>2 DEF Visited, ExitStep
  <2>2. d \in Expectations /\ d.var = "kAddress" /\ [d EXCEPT !.var = "kAccess"] = e
    BY <1>0 DEF Expectations
  <2> HIDE DEF d
  <2>3. ItemStep(P, Variable, d, e)
    BY <2>2 DEF ItemStep, Variable, Id
  <2>4. ItemStep(P, x, e, e)
    BY <1>0, PartItem DEF Kinds
  <2>5. Path(P, r.kids, d, e) /\ Records(r.kids, {})
    BY <1>2, <2>2, <2>3, <2>4, PathTwo
  <2> QED
    BY <1>0, <1>2, <2>1, <2>5 DEF RuleSteps
<1>3. ASSUME NEW x \in P.expression, r.class = "PostfixExpression", r.op = "(", r.kids = <<Callee, x>>
      PROVE  RuleSteps(P, r, e, f) /\ Records(r.kids, {})
  <2> DEFINE d == [e EXCEPT !.var = "kFunction"]
             g == [e EXCEPT !.ids = More(@)]
  <2>1. Visited(r, e) = d /\ ExitStep(r.class, r.op, g, e)
    BY <1>0, <1>3 DEF Visited, ExitStep
  <2>2. d \in Expectations /\ d.var = "kFunction" /\ d.ptr = e.ptr
    BY <1>0 DEF Expectations
  <2>3. More(e.ids) \in Bounds /\ More(e.ids) # Many
    BY <1>0 DEF Expectations, Bounds, More, Many
  <2>4. /\ g \in Expectations /\ g.ids # Many /\ g.var = e.var /\ g.fs = e.fs /\ g.ptr = e.ptr
    BY <2>3 DEF Expectations
  <2>5. g = [d EXCEPT !.ids = More(@), !.var = "kAccess"]
    BY <1>0, <2>2, <2>4 DEF Expectations
  <2> HIDE DEF d, g
  <2>6. ItemStep(P, Callee, d, g)
    BY <1>0, <2>2, <2>5 DEF ItemStep, Callee, Id
  <2>7. ItemStep(P, x, g, g)
    BY <1>0, <2>4, PartItem DEF Kinds, PartStep
  <2>8. Path(P, r.kids, d, g) /\ Records(r.kids, {})
    BY <1>3, <2>2, <2>4, <2>6, <2>7, PathTwo
  <2> QED
    BY <1>0, <1>3, <2>1, <2>4, <2>8 DEF RuleSteps
<1>4. IsExpression(r, P)
  BY DEF IsRule
<1>5. CASE \E x \in P.expression :
             \/ r.class = "AssignmentExpression" /\ r.kids = <<Variable, x>>
             \/ r.class = "PostfixExpression" /\ r.op = "(" /\ r.kids = <<Callee, x>>
  BY <1>2, <1>3, <1>5, Zenon
<1> QED
  BY <1>1, <1>4, <1>5 DEF IsExpression

LEMMA WithNameFields ==
  ASSUME NEW e \in Expectations
  PROVE  /\ WithName(e) \in Expectations
         /\ WithName(e).types = e.types /\ WithName(e).ids = More(e.ids)
         /\ WithName(e).inside = e.inside /\ WithName(e).complete = e.complete
         /\ WithName(e).fs = e.fs /\ WithName(e).var = e.var /\ WithName(e).ptr = "named"
<1>1. More(e.ids) \in Bounds
  BY MoreIsBound DEF Expectations
<1> QED
  BY <1>1 DEF WithName, Expectations

LEMMA DeclaratorsSteps ==
  ASSUME NEW P, Grammatical(P), NEW r, IsRule("declarators", r, P), NEW e, NEW f,
         PartStep("declarators", e, f)
  PROVE  RuleSteps(P, r, e, f) /\ Records(r.kids, {})
<1>1. PICK b \in {Outside, Inside} : e = Specified(b) /\ f = e
  BY DEF PartStep
<1>2. e \in Expectations /\ Prototyped(b) \in Expectations
  BY <1>1, ConstantExpectations
<1>3. CASE r.class = "NonTerminal" /\ r.kids \in Seq(P.declarators)
  <2>1. \A x \in P.declarators : ItemStep(P, x, e, e)
    BY <1>1, <1>2, PartItem DEF Kinds, PartStep
  <2>2. Path(P, r.kids, e, e) /\ Records(r.kids, {})
    BY <1>2, <1>3, <2>1, PathSame, AnySequence
  <2> QED
    BY <1>1, <1>2, <1>3, <2>2 DEF RuleSteps, Visited
<1>4. CASE /\ r.class = "InitDeclarator"
           /\ \/ \E x \in P.function : r.kids = <<x>>
              \/ \E v \in P.variable : r.kids = <<v>> \/ \E x \in P.expression : r.kids = <<v, x>>
  <2> DEFINE w == WithName(e)
  <2>1. Visited(r, e) = e /\ ExitStep(r.class, r.op, w, f) /\ ExitStep(r.class, r.op, Prototyped(b), f)
    BY <1>1, <1>4 DEF Visited, ExitStep
  <2>2. PartStep("function", e, Prototyped(b))
    BY <1>1 DEF PartStep, DeclaresFunction
  <2>3. /\ e.ptr = "no" /\ e.ids = 0 /\ e.var = "kAccess" /\ e.fs = "kNotFunction"
        /\ More(0) = 1 /\ 1 # Many
    BY <1>1, SpecifiedFields, ConstantBounds DEF Many
  <2>4. PartStep("variable", e, w)
    BY <2>3 DEF PartStep
  <2>5. w \in Expectations /\ w.ids # Many /\ w.var = "kAccess" /\ w.fs = "kNotFunction" /\ w.ptr = "named"
    BY <1>2, <2>3, WithNameFields
  <2>6. PartStep("expression", w, w)
    BY <2>5 DEF PartStep
  <2> HIDE DEF w
  <2>7. ASSUME NEW x \in P.function, r.kids = <<x>> PROVE RuleSteps(P, r, e, f) /\ Records(r.kids, {})
    <3>1. ItemStep(P, x, e, Prototyped(b))
      BY <1>2, <2>2, PartItem DEF Kinds
    <3> QED
      BY <1>2, <1>4, <2>1, <2>7, <3>1, PathOne DEF RuleSteps
  <2>8. ASSUME NEW v \in P.variable, r.kids = <<v>> \/ \E x \in P.expression : r.kids = <<v, x>>
        PROVE  RuleSteps(P, r, e, f) /\ Records(r.kids, {})
    <3>1. ItemStep(P, v, e, w)
      BY <1>2, <2>4, PartItem DEF Kinds
    <3>2. CASE r.kids = <<v>>
      BY <1>2, <1>4, <2>1, <2>5, <3>1, <3>2, PathOne DEF RuleSteps
    <3>3. ASSUME NEW x \in P.expression, r.kids = <<v, x>> PROVE RuleSteps(P, r, e, f) /\ Records(r.kids, {})
      <4>1. ItemStep(P, x, w, w)
        BY <2>5, <2>6, PartItem DEF Kinds
      <4> QED
        BY <1>2, <1>4, <2>1, <2>5, <3>1, <3>3, <4>1, PathTwo DEF RuleSteps
    <3> QED
      BY <2>8, <3>2, <3>3
  <2> QED
    BY <1>4, <2>7, <2>8
<1> QED
  BY <1>3, <1>4 DEF IsRule, IsDeclarator

LEMMA VariableSteps ==
  ASSUME NEW P, Grammatical(P), NEW r, IsRule("variable", r, P),
         NEW e \in Expectations, NEW f, PartStep("variable", e, f)
  PROVE  RuleSteps(P, r, e, f) /\ Records(r.kids, {})
<1> DEFINE d == [e EXCEPT !.ptr = "any"]
<1>1. f = WithName(e) /\ e.var = "kAccess" /\ (e.fs = "kNotFunction" => e.ids = 0)
  BY DEF PartStep
<1>2. PICK n \in P.name : r.kids = <<n>> /\ r.class = "Declarator"
  BY DEF IsRule
<1>3. Visited(r, e) = d /\ ExitStep(r.class, r.op, f, f)
  BY <1>2 DEF Visited, ExitStep
<1>4. /\ d \in Expectations /\ d.ptr = "any" /\ d.fs = e.fs /\ d.ids = e.ids /\ d.types = e.types
      /\ d.var = e.var /\ d.complete = e.complete /\ d.inside = e.inside
  BY DEF Expectations
<1> HIDE DEF d
<1> DEFINE g == [WithName(d) EXCEPT !.var = "kAccess"]
<1>5. /\ g \in Expectations /\ g.ptr = "named" /\ g.fs = e.fs /\ g.ids = More(e.ids) /\ g.types = e.types
      /\ g.var = e.var /\ g.complete = e.complete /\ g.inside = e.inside
  BY <1>1, <1>4, WithNameFields DEF Expectations
<1>6. f \in Expectations /\ f = g
  <2> HIDE DEF g
  <2> QED
    BY <1>1, <1>5, WithNameFields, SameExpectation
<1>7. PartStep("name", d, f)
  BY <1>1, <1>4, <1>6 DEF PartStep
<1>8. ItemStep(P, n, d, f)
  BY <1>4, <1>7, PartItem DEF Kinds
<1> QED
  BY <1>2, <1>3, <1>4, <1>6, <1>8, PathOne DEF RuleSteps

LEMMA FunctionSteps ==
  ASSUME NEW P, Grammatical(P), NEW r, IsRule("function", r, P), NEW e, NEW f,
         PartStep("function", e, f)
  PROVE  RuleSteps(P, r, e, f) /\ Records(r.kids, {})
<1> DEFINE d == [e EXCEPT !.ptr = "any"]
<1>0. DeclaresFunction(e, f)
  BY DEF PartStep
<1>1. e \in Expectations /\ f \in Expectations /\ e.ptr = "no"
  BY <1>0, ConstantExpectations, SpecifiedFields DEF DeclaresFunction, Opened, Outside
<1>2. PICK n \in P.signature : r.kids = <<n>> /\ r.class = "Declarator"
  BY DEF IsRule
<1>3. Visited(r, e) = d /\ ExitStep(r.class, r.op, f, f)
  BY <1>2 DEF Visited, ExitStep
<1>4. d \in Expectations /\ d.ptr = "any" /\ [d EXCEPT !.ptr = "no"] = e
  BY <1>1 DEF Expectations
<1> HIDE DEF d
<1>5. PartStep("signature", d, f)
  BY <1>0, <1>4 DEF PartStep
<1>6. ItemStep(P, n, d, f)
  BY <1>4, <1>5, PartItem DEF Kinds
<1> QED
  BY <1>1, <1>2, <1>3, <1>4, <1>6, PathOne DEF RuleSteps

LEMMA NameSteps ==
  ASSUME NEW P, Grammatical(P), NEW r, IsRule("name", r, P),
         NEW e \in Expectations, NEW f, PartStep("name", e, f)
  PROVE  RuleSteps(P, r, e, f) /\ Records(r.kids, {})
<1> DEFINE d == [e EXCEPT !.var = "kDefinition"]
           ptr == IF e.ptr = "any" THEN "declared" ELSE e.ptr
           g == [d EXCEPT !.ids = More(e.ids), !.var = "kAccess", !.ptr = ptr]
           x == Declares(r.kids[1].v)
<1>0. e.ptr \in {"no", "any"}
  BY DEF PartStep
<1>1. r.class = "DirectDeclarator" /\ r.op = "" /\ r.kids = <<x>>
  BY DEF IsRule
<1>2. Visited(r, e) = d
  BY <1>1 DEF Visited
<1>3. d \in Expectations /\ d.ids = e.ids /\ d.var = "kDefinition" /\ d.ptr = e.ptr
  BY DEF Expectations
<1>4. /\ g \in Expectations /\ g.ptr = ptr /\ g.ids = More(e.ids) /\ g.fs = e.fs
      /\ g.types = e.types /\ g.inside = e.inside /\ g.complete = e.complete /\ g.var = "kAccess"
  BY <1>0, MoreIsBound DEF Expectations
<1>5. ItemStep(P, x, d, g)
  <2>1. x.k = "declared"
    BY DEF Declares, Id
  <2>2. g = [d EXCEPT !.ids = More(@), !.var = "kAccess", !.ptr = IF @ = "any" THEN "declared" ELSE @]
    BY <1>3
  <2> HIDE DEF d, g, x
  <2> QED
    BY <1>0, <1>3, <2>1, <2>2 DEF ItemStep
<1> HIDE DEF d, x
<1>6. f \in Expectations /\ ExitStep(r.class, r.op, g, f)
  <2>1. CASE e.ptr = "no"
    <3> DEFINE h == [e EXCEPT !.ids = More(@), !.var = "kAccess"]
    <3>1. f = h
      BY <2>1 DEF PartStep
    <3>2. /\ h \in Expectations /\ h.ptr = e.ptr /\ h.ids = More(e.ids) /\ h.fs = e.fs
          /\ h.types = e.types /\ h.inside = e.inside /\ h.complete = e.complete /\ h.var = "kAccess"
      BY MoreIsBound DEF Expectations
    <3> HIDE DEF g, h
    <3>3. h = g
      BY <1>4, <2>1, <3>2, SameExpectation
    <3> QED
      BY <1>1, <1>4, <2>1, <3>1, <3>3 DEF ExitStep
  <2>2. CASE e.ptr = "any"
    <3> DEFINE h == [WithName(e) EXCEPT !.var = "kAccess"]
               j == [g EXCEPT !.ptr = "named"]
    <3>1. f = h /\ (e.fs = "kNotFunction" => e.ids = 0)
      BY <2>2 DEF PartStep
    <3>2. /\ h \in Expectations /\ h.ptr = "named" /\ h.ids = More(e.ids) /\ h.fs = e.fs
          /\ h.types = e.types /\ h.inside = e.inside /\ h.complete = e.complete /\ h.var = "kAccess"
      BY WithNameFields DEF Expectations
    <3> HIDE DEF g, h
    <3>3. /\ j \in Expectations /\ j.ptr = "named" /\ j.ids = g.ids /\ j.fs = g.fs
          /\ j.types = g.types /\ j.inside = g.inside /\ j.complete = g.complete /\ j.var = g.var
      BY <1>4 DEF Expectations
    <3> HIDE DEF j
    <3>4. h = j
      BY <1>4, <3>2, <3>3, SameExpectation
    <3>5. g.ptr = "declared" /\ (g.fs = "kNotFunction" => g.ids = 1)
      BY <1>4, <2>2, <3>1, ConstantBounds
    <3> QED
      BY <1>1, <3>1, <3>2, <3>4, <3>5 DEF ExitStep, j
  <2> QED
    BY <1>0, <2>1, <2>2
<1> HIDE DEF g
<1>7. Path(P, r.kids, d, g) /\ Records(r.kids, {})
  BY <1>1, <1>3, <1>4, <1>5, PathOne
<1> QED
  BY <1>1, <1>2, <1>4, <1>6, <1>7 DEF RuleSteps

LEMMA SpecifiersSteps ==
  ASSUME NEW P, Grammatical(P), NEW r, IsRule("specifiers", r, P),
         NEW e \in Expectations, NEW f, PartStep("specifiers", e, f)
  PROVE  RuleSteps(P, r, e, f) /\ Records(r.kids, {})
<1> DEFINE n == IF e.complete THEN More(e.types) ELSE e.types
           d == [e EXCEPT !.types = n, !.complete = FALSE]
           h == [e EXCEPT !.types = n, !.complete = TRUE]
<1>0. f = h /\ e.ptr = "no"
  BY DEF PartStep
<1>1. n \in Bounds
  BY MoreIsBound DEF Expectations
<1>2. r.class = "DeclarationSpecifiers" /\ Visited(r, e) = d
  BY DEF IsRule, Visited
<1> HIDE DEF n
<1>3. /\ d \in Expectations /\ d.types = n /\ d.complete = FALSE /\ d.ids = e.ids /\ d.inside = e.inside
      /\ d.fs = e.fs /\ d.var = e.var /\ d.ptr = "no"
  BY <1>0, <1>1 DEF Expectations
<1>4. /\ h \in Expectations /\ h.types = n /\ h.complete = TRUE /\ h.ids = e.ids /\ h.inside = e.inside
      /\ h.fs = e.fs /\ h.var = e.var /\ h.ptr = "no"
  BY <1>0, <1>1 DEF Expectations
<1>5. f = [d EXCEPT !.complete = TRUE] /\ f = [f EXCEPT !.complete = TRUE]
  <2>1. ASSUME NEW g \in Expectations, g.types = n, g.ids = e.ids, g.inside = e.inside,
               g.fs = e.fs, g.var = e.var, g.ptr = "no"
        PROVE  f = [g EXCEPT !.complete = TRUE]
    <3> DEFINE j == [g EXCEPT !.complete = TRUE]
    <3>1. /\ j \in Expectations /\ j.types = n /\ j.complete = TRUE /\ j.ids = e.ids /\ j.inside = e.inside
          /\ j.fs = e.fs /\ j.var = e.var /\ j.ptr = "no"
      BY <2>1 DEF Expectations
    <3> HIDE DEF h, j
    <3>2. h = j
      BY <1>4, <3>1, SameExpectation
    <3> QED
      BY <1>0, <3>2 DEF j
  <2> HIDE DEF d, h
  <2> QED
    BY <1>0, <1>3, <1>4, <2>1
<1> HIDE DEF d, h
<1>6. CASE r.kids = <<>>
  <2>1. ExitStep(r.class, r.op, d, f)
    BY <1>2, <1>5 DEF ExitStep
  <2>2. Path(P, r.kids, d, d) /\ Records(r.kids, {})
    BY <1>3, <1>6, PathEmpty
  <2> QED
    BY <1>2, <1>3, <2>1, <2>2 DEF RuleSteps
<1>7. ASSUME NEW x \in P.specifiers, r.kids = <<x>>
      PROVE  RuleSteps(P, r, e, f) /\ Records(r.kids, {})
  <2>1. ExitStep(r.class, r.op, f, f)
    BY <1>0, <1>2, <1>4, <1>5 DEF ExitStep
  <2>2. PartStep("specifiers", d, f)
    BY <1>0, <1>3, <1>4, SpecifiersStep
  <2>3. ItemStep(P, x, d, f)
    BY <1>3, <2>2, PartItem DEF Kinds
  <2> QED
    BY <1>0, <1>2, <1>3, <1>4, <1>7, <2>1, <2>3, PathOne DEF RuleSteps
<1> QED
  BY <1>6, <1>7 DEF IsRule

LEMMA ListingFields ==
  ASSUME NEW b \in {Outside, Inside}, NEW fs \in {"kFunctionDeclaration", "kFunctionDefinition"}
  PROVE  /\ Listing(fs, b) \in Expectations
         /\ Listing(fs, b).types = Many /\ Listing(fs, b).ids = Many
         /\ Listing(fs, b).inside = b.inside /\ Listing(fs, b).complete = TRUE
         /\ Listing(fs, b).fs = fs /\ Listing(fs, b).var = "kAccess" /\ Listing(fs, b).ptr = "no"
<1>1. b \in Expectations /\ Many \in Bounds
  BY ConstantExpectations DEF Bounds
<1> QED
  BY <1>1, PlaceFields DEF Listing, Expectations

LEMMA ParametersSteps ==
  ASSUME NEW P, Grammatical(P), NEW r, IsRule("parameters", r, P), NEW e, NEW f,
         PartStep("parameters", e, f)
  PROVE  RuleSteps(P, r, e, f) /\ Records(r.kids, {})
<1>0. f = e /\ \E b \in {Outside, Inside}, fs \in {"kFunctionDeclaration", "kFunctionDefinition"} :
                e = Listing(fs, b)
  BY DEF PartStep
<1>1. /\ e \in Expectations /\ e.types = Many /\ e.ids = Many /\ e.complete = TRUE
      /\ e.fs # "kNotFunction" /\ e.var = "kAccess" /\ e.ptr = "no"
  <2>1. PICK b \in {Outside, Inside}, fs \in {"kFunctionDeclaration", "kFunctionDefinition"} :
          e = Listing(fs, b)
    BY <1>0
  <2>2. fs # "kNotFunction"
    OBVIOUS
  <2> QED
    BY <2>1, <2>2, ListingFields
<1>2. \A x \in P.parameters : ItemStep(P, x, e, e)
  BY <1>0, <1>1, PartItem DEF Kinds, PartStep
<1>3. CASE r.class = "NonTerminal" /\ r.kids \in Seq(P.parameters)
  <2>1. Path(P, r.kids, e, e) /\ Records(r.kids, {})
    BY <1>1, <1>2, <1>3, PathSame, AnySequence
  <2> QED
    BY <1>0, <1>1, <1>3, <2>1 DEF RuleSteps, Visited
<1>4. CASE r.class = "ParameterList" /\ r.kids \in Seq(P.parameters \cup {Mark("...")})
  <2>1. \A x \in P.parameters \cup {Mark("...")} : ItemStep(P, x, e, e)
    BY <1>2 DEF ItemStep, Mark
  <2>2. Path(P, r.kids, e, e) /\ Records(r.kids, {})
    BY <1>1, <1>4, <2>1, PathSame, AnySequence
  <2>3. Visited(r, e) = e /\ ExitStep(r.class, r.op, e, f)
    BY <1>0, <1>1, <1>4 DEF Visited, ExitStep
  <2> QED
    BY <1>1, <1>4, <2>2, <2>3 DEF RuleSteps
<1>5. ASSUME r.class = "ParameterDeclaration", NEW s \in P.specifiers,
             \/ r.op \in {"unnamed", "abstract"} /\ r.kids = <<s>>
             \/ r.op = "" /\ \E v \in P.variable : r.kids = <<s, v>>
      PROVE  RuleSteps(P, r, e, f) /\ Records(r.kids, {})
  <2> DEFINE w == WithName(e)
             j == [w EXCEPT !.ptr = "no"]
  <2>0. More(Many) = Many
    BY DEF More
  <2>1. PartStep("specifiers", e, e)
    BY <1>1, <2>0, SpecifiersStep
  <2>2. ItemStep(P, s, e, e)
    BY <1>1, <2>1, PartItem DEF Kinds
  <2>3. PartStep("variable", e, w)
    BY <1>1 DEF PartStep
  <2>4. /\ w \in Expectations /\ w.types = Many /\ w.ids = Many /\ w.fs = e.fs /\ w.ptr = "named"
        /\ w.inside = e.inside /\ w.complete = e.complete /\ w.var = e.var
    BY <1>1, <2>0, WithNameFields
  <2> HIDE DEF w
  <2>5. /\ j \in Expectations /\ j.types = Many /\ j.ids = Many /\ j.fs = e.fs /\ j.ptr = "no"
        /\ j.inside = e.inside /\ j.complete = e.complete /\ j.var = e.var
    BY <2>4 DEF Expectations
  <2> HIDE DEF j
  <2>6. j = e
    BY <1>1, <2>5, SameExpectation
  <2>7. ExitStep(r.class, r.op, w, f)
    BY <1>0, <1>1, <1>5, <2>4, <2>6 DEF ExitStep, j
  <2>8. e = [e EXCEPT !.ptr = "no"]
    BY <1>1 DEF Expectations
  <2>9. ExitStep(r.class, r.op, e, f)
    BY <1>0, <1>1, <1>5, <2>8 DEF ExitStep
  <2>10. Visited(r, e) = e
    BY <1>5 DEF Visited
  <2>11. CASE r.kids = <<s>>
    BY <1>1, <1>5, <2>2, <2>9, <2>10, <2>11, PathOne DEF RuleSteps
  <2>12. ASSUME NEW v \in P.variable, r.kids = <<s, v>> PROVE RuleSteps(P, r, e, f) /\ Records(r.kids, {})
    <3>1. ItemStep(P, v, e, w)
      BY <1>1, <2>3, PartItem DEF Kinds
    <3> QED
      BY <1>1, <1>5, <2>2, <2>4, <2>7, <2>10, <2>12, <3>1, PathTwo DEF RuleSteps
  <2> QED
    BY <1>5, <2>11, <2>12
<1> QED
  BY <1>3, <1>4, <1>5 DEF IsRule, IsParameter

LEMMA SignatureSteps ==
  ASSUME NEW P, Grammatical(P), NEW r, IsRule("signature", r, P),
         NEW e \in Expectations, NEW f, PartStep("signature", e, f)
  PROVE  RuleSteps(P, r, e, f) /\ Records(r.kids, {})
<1> DEFINE g == [e EXCEPT !.ptr = "no"]
           fs == IF e.fs = "kNotFunction" THEN "kFunctionDeclaration" ELSE e.fs
           b == IF e.inside THEN Inside ELSE Outside
           l == Listing(fs, b)
           d == [e EXCEPT !.types = Many, !.ids = Many, !.var = "kDefinition", !.ptr = "no", !.fs = fs]
<1>1. DeclaresFunction(g, f)
  BY DEF PartStep
<1>2. /\ g.inside = e.inside /\ g.complete = e.complete /\ g.fs = e.fs /\ g.var = e.var
  BY DEF Expectations
<1> HIDE DEF g
<1>3. /\ e.complete = TRUE /\ fs \in {"kFunctionDeclaration", "kFunctionDefinition"}
      /\ \/ fs = "kFunctionDeclaration" /\ f = Prototyped(b)
         \/ fs = "kFunctionDefinition" /\ b = Outside /\ f = Entered
  <2>1. ASSUME NEW c \in {Outside, Inside}, g = Specified(c), f = Prototyped(c)
        PROVE  e.complete = TRUE /\ e.fs = "kNotFunction" /\ b = c
    BY <1>2, <2>1, SpecifiedFields, PlaceFields
  <2>2. ASSUME g = Opened
        PROVE  e.complete = TRUE /\ e.fs = "kFunctionDefinition" /\ b = Outside
    <3>1. Opened.complete = TRUE /\ Opened.fs = "kFunctionDefinition" /\ Opened.inside = FALSE
      BY DEF Opened, Outside
    <3> QED
      BY <1>2, <2>2, <3>1
  <2> HIDE DEF b
  <2> QED
    BY <1>1, <2>1, <2>2 DEF DeclaresFunction
<1>4. /\ l \in Expectations /\ l.types = Many /\ l.ids = Many /\ l.inside = e.inside /\ l.complete = TRUE
      /\ l.fs = fs /\ l.var = "kAccess" /\ l.ptr = "no"
  <2>1. b \in {Outside, Inside} /\ b.inside = e.inside
    <3>1. e.inside \in BOOLEAN
      BY DEF Expectations
    <3> QED
      BY <3>1 DEF Outside, Inside
  <2> HIDE DEF b, fs
  <2> QED
    BY <1>3, <2>1, ListingFields
<1>5. PICK n \in P.name, x \in P.parameters : r.kids = <<n, x>> /\ r.class = "DirectDeclarator" /\ r.op = "("
  BY DEF IsRule
<1>6. Visited(r, e) = d
  BY <1>5 DEF Visited
<1>7. ExitStep(r.class, r.op, l, f)
  BY <1>3, <1>5 DEF ExitStep
<1>8. /\ d \in Expectations /\ d.types = Many /\ d.ids = Many /\ d.inside = e.inside /\ d.complete = TRUE
      /\ d.fs = fs /\ d.ptr = "no"
  <2>1. Many \in Bounds
    BY DEF Bounds
  <2> HIDE DEF fs
  <2> QED
    BY <1>3, <2>1 DEF Expectations
<1> HIDE DEF d
<1> DEFINE h == [d EXCEPT !.ids = More(@), !.var = "kAccess"]
<1>9. /\ h \in Expectations /\ h.types = Many /\ h.ids = Many /\ h.inside = e.inside /\ h.complete = TRUE
      /\ h.fs = fs /\ h.var = "kAccess" /\ h.ptr = "no"
  <2>1. Many \in Bounds /\ More(Many) = Many
    BY DEF Bounds, More
  <2> HIDE DEF fs
  <2> QED
    BY <1>8, <2>1 DEF Expectations
<1>10. PartStep("name", d, h)
  BY <1>8 DEF PartStep
<1>11. h = l
  <2> HIDE DEF h, l, fs
  <2> QED
    BY <1>4, <1>9, SameExpectation
<1>12. PartStep("parameters", l, l)
  BY <1>3 DEF PartStep
<1> HIDE DEF h, l
<1>13. ItemStep(P, n, d, l) /\ ItemStep(P, x, l, l)
  BY <1>4, <1>8, <1>10, <1>11, <1>12, PartItem DEF Kinds
<1>14. Path(P, r.kids, d, l) /\ Records(r.kids, {})
  BY <1>4, <1>5, <1>8, <1>13, PathTwo
<1> QED
  BY <1>4, <1>5, <1>6, <1>7, <1>14 DEF RuleSteps

(* All kinds of parts.                                                     *)
LEMMA SymbolSteps ==
  ASSUME NEW P, Grammatical(P), NEW kind \in Kinds, NEW r, IsRule(kind, r, P),
         NEW e \in Expectations, NEW f, PartStep(kind, e, f)
  PROVE  RuleSteps(P, r, e, f) /\ Records(r.kids, {})
<1>1. kind = "statement" => e = Inside /\ f = Inside
  BY DEF PartStep
<1> QED
  BY <1>1, ExternalSteps, CompoundSteps, BlockSteps, ExpressionSteps, DeclaratorsSteps, VariableSteps,
     FunctionSteps, NameSteps, SpecifiersSteps, ParametersSteps, SignatureSteps DEF Kinds

-----------------------------------------------------------------------------
(* The methods meet what is expected of them.                              *)
StacksOK == Records(type_stack, {}) /\ Records(identifier_stack, {})

LEMMA LengthsOK ==
  ASSUME StacksOK
  PROVE  /\ Len(type_stack) \in Nat /\ Len(identifier_stack) \in Nat
         /\ type_stack = <<>> <=> Len(type_stack) = 0
         /\ identifier_stack = <<>> <=> Len(identifier_stack) = 0
         /\ DOMAIN identifier_stack = 1 .. Len(identifier_stack)
BY RecordsLength DEF StacksOK

LEMMA MoreWithin ==
  ASSUME NEW n \in Nat, NEW b \in Bounds, Within(n, b)
  PROVE  Within(n + 1, More(b))
BY DEF Within, More, Bounds, Many

(* The last element of a stack replaced, where there is one.               *)
LEMMA LastReplaced ==
  ASSUME NEW q, Records(q, {}), NEW x
  PROVE  /\ Records([q EXCEPT ![Len(q)] = x], {})
         /\ Len([q EXCEPT ![Len(q)] = x]) = Len(q)
<1>1. CASE q = <<>>
  <2>1. [q EXCEPT ![Len(q)] = x] = q
    BY <1>1
  <2> QED
    BY <2>1
<1>2. CASE q # <<>>
  <2>1. Len(q) \in DOMAIN q
    BY <1>2, RecordsLength
  <2> QED
    BY <2>1, RecordsReplace
<1> QED
  BY <1>1, <1>2

(* Nothing that expectations are about changes.                            *)
LEMMA MeetsStill ==
  ASSUME NEW e, Meets(e), StacksOK,
         UNCHANGED <<type_stack, identifier_stack, is_complete_type, function_state,
                     variable_state, is_pointer>>,
         context_stack = <<>> => context_stack' = <<>>
  PROVE  Meets(e)' /\ StacksOK'
<1>1. StacksOK'
  BY DEF StacksOK
<1>2. PointerIs(e.ptr, e.fs)'
  BY DEF Meets, PointerIs, Untyped
<1> QED
  BY <1>1, <1>2 DEF Meets

LEMMA VisitMeets ==
  ASSUME StacksOK, FlagsOK, NEW kind \in Kinds, NEW r, NEW P, IsRule(kind, r, P),
         NEW e \in Expectations, NEW f, PartStep(kind, e, f), Meets(e), VisitMethod(r)
  PROVE  Meets(Visited(r, e))' /\ StacksOK'
<1>1. CASE r.class = "AssignmentExpression" \/ (r.class = "PostfixExpression" /\ r.op = "(")
  <2> DEFINE v == IF r.class = "AssignmentExpression" THEN "kAddress" ELSE "kFunction"
             d == [e EXCEPT !.var = v]
  <2>1. /\ UNCHANGED <<type_stack, identifier_stack, is_complete_type, function_state,
                       context_stack, is_pointer>>
        /\ variable_state' = v
    BY <1>1 DEF VisitMethod, VisitAssignmentExpression, VisitPostfixExpression, stacks
  <2>2. Visited(r, e) = d
    BY <1>1 DEF Visited
  <2>3. /\ d.types = e.types /\ d.ids = e.ids /\ d.inside = e.inside /\ d.complete = e.complete
        /\ d.fs = e.fs /\ d.ptr = e.ptr /\ d.var = v
    BY DEF Expectations
  <2> HIDE DEF d, v
  <2>4. Meets(d)'
    BY <2>1, <2>3 DEF Meets, PointerIs, Untyped
  <2> QED
    BY <2>1, <2>2, <2>4 DEF StacksOK
<1>2. CASE r.class = "FunctionDefinition"
  <2> DEFINE d == [e EXCEPT !.fs = "kFunctionDefinition"]
  <2>1. /\ UNCHANGED <<type_stack, identifier_stack, is_complete_type, variable_state,
                       context_stack, is_pointer>>
        /\ function_state' = "kFunctionDefinition"
    BY <1>2 DEF VisitMethod, VisitFunctionDefinition, stacks
  <2>2. Visited(r, e) = d
    BY <1>2 DEF Visited
  <2>3. /\ d.types = e.types /\ d.ids = e.ids /\ d.inside = e.inside /\ d.complete = e.complete
        /\ d.fs = "kFunctionDefinition" /\ d.ptr = e.ptr /\ d.var = e.var
    BY DEF Expectations
  <2> HIDE DEF d
  <2>4. PointerIs(d.ptr, d.fs)'
    <3>1. PointerIs(e.ptr, e.fs) /\ e.ptr \in {"no", "any", "declared", "named"}
      BY DEF Meets, Expectations
    <3>2. PointerIs(e.ptr, "kFunctionDefinition")
      BY <3>1 DEF PointerIs
    <3> QED
      BY <2>1, <2>3, <3>2 DEF PointerIs, Untyped
  <2>5. Meets(d)'
    BY <2>1, <2>3, <2>4 DEF Meets
  <2> QED
    BY <2>1, <2>2, <2>5 DEF StacksOK
<1>3. CASE r.class = "CompoundStatement"
  <2>1. /\ UNCHANGED <<type_stack, identifier_stack, is_complete_type, variable_state, is_pointer>>
        /\ function_state' = "kNotFunction"
    BY <1>3 DEF VisitMethod, VisitCompoundStatement
  <2>2. e \in {Inside, Entered}
    BY <1>3 DEF IsRule, PartStep, IsDeclaration, IsExpression, IsDeclarator, IsParameter, Kinds
  <2>3. /\ e.types = 0 /\ e.ids = 0 /\ e.complete = TRUE /\ e.var = "kAccess" /\ e.ptr = "no"
        /\ Inside.fs = "kNotFunction" /\ Inside.inside = TRUE
        /\ Inside.types = 0 /\ Inside.ids = 0 /\ Inside.complete = TRUE /\ Inside.var = "kAccess"
        /\ Inside.ptr = "no"
    BY <2>2 DEF Inside, Entered, Outside
  <2>4. Visited(r, e) = Inside
    BY <1>3 DEF Visited
  <2>5. Meets(Inside)'
    BY <2>1, <2>3 DEF Meets, PointerIs
  <2> QED
    BY <2>1, <2>4, <2>5 DEF StacksOK
<1>4. CASE r.class = "DeclarationSpecifiers"
  <2> DEFINE n == IF e.complete THEN More(e.types) ELSE e.types
             d == [e EXCEPT !.types = n, !.complete = FALSE]
             pushed == IF is_complete_type THEN Append(type_stack, NullType) ELSE type_stack
  <2>0. VisitDeclarationSpecifiers(r.op)
    BY <1>4 DEF VisitMethod
  <2>1. /\ UNCHANGED <<identifier_stack, function_state, variable_state, context_stack, is_pointer>>
        /\ is_complete_type' = FALSE
        /\ type_stack' = pushed \/ \E x : type_stack' = [pushed EXCEPT ![Len(pushed)] = x]
    BY <2>0 DEF VisitDeclarationSpecifiers
  <2>2. Visited(r, e) = d
    BY <1>4 DEF Visited
  <2>3. e.ptr = "no"
    BY <1>4 DEF IsRule, PartStep, IsDeclaration, IsStatement, IsExpression, IsDeclarator, IsParameter, Kinds
  <2>4. n \in Bounds
    BY MoreIsBound DEF Expectations
  <2>5. Records(pushed, {}) /\ Within(Len(pushed), n)
    <3>1. CASE is_complete_type
      BY <3>1, LengthsOK, RecordsAppend, MoreWithin DEF StacksOK, Meets, Expectations
    <3>2. CASE ~is_complete_type
      BY <3>2 DEF StacksOK, Meets
    <3> QED
      BY <3>1, <3>2
  <2> HIDE DEF pushed, n
  <2>6. Records(type_stack', {}) /\ Len(type_stack') = Len(pushed)
    BY <2>1, <2>5, LastReplaced
  <2>7. /\ d.types = n /\ d.ids = e.ids /\ d.inside = e.inside /\ d.complete = FALSE
        /\ d.fs = e.fs /\ d.ptr = "no" /\ d.var = e.var
    BY <2>3, <2>4 DEF Expectations
  <2> HIDE DEF d
  <2>8. Meets(d)'
    <3>1. ~is_pointer'
      BY <2>1, <2>3 DEF Meets, PointerIs
    <3>2. Within(Len(type_stack'), d.types)
      BY <2>5, <2>6, <2>7
    <3>3. PointerIs(d.ptr, d.fs)'
      BY <2>7, <3>1 DEF PointerIs
    <3> QED
      BY <2>1, <2>7, <3>2, <3>3 DEF Meets
  <2> QED
    BY <2>1, <2>2, <2>6, <2>8 DEF StacksOK
<1>5. CASE r.class = "Declarator"
  <2> DEFINE d == [e EXCEPT !.ptr = "any"]
  <2>1. UNCHANGED <<type_stack, identifier_stack, is_complete_type, function_state, variable_state,
                    context_stack>>
    BY <1>5 DEF VisitMethod, VisitDeclarator, stacks
  <2>2. Visited(r, e) = d
    BY <1>5 DEF Visited
  <2>3. /\ d.types = e.types /\ d.ids = e.ids /\ d.inside = e.inside /\ d.complete = e.complete
        /\ d.fs = e.fs /\ d.ptr = "any" /\ d.var = e.var
    BY DEF Expectations
  <2> HIDE DEF d
  <2>4. Meets(d)'
    BY <2>1, <2>3 DEF Meets, PointerIs
  <2> QED
    BY <2>1, <2>2, <2>4 DEF StacksOK
<1>6. CASE r.class = "DirectDeclarator" /\ r.op # "("
  <2> DEFINE d == [e EXCEPT !.var = "kDefinition"]
  <2>1. /\ UNCHANGED <<type_stack, identifier_stack, is_complete_type, function_state,
                       context_stack, is_pointer>>
        /\ variable_state' = "kDefinition"
    BY <1>6 DEF VisitMethod, VisitDirectDeclarator
  <2>2. Visited(r, e) = d
    BY <1>6 DEF Visited
  <2>3. /\ d.types = e.types /\ d.ids = e.ids /\ d.inside = e.inside /\ d.complete = e.complete
        /\ d.fs = e.fs /\ d.ptr = e.ptr /\ d.var = "kDefinition"
    BY DEF Expectations
  <2> HIDE DEF d
  <2>4. Meets(d)'
    BY <2>1, <2>3 DEF Meets, PointerIs, Untyped
  <2> QED
    BY <2>1, <2>2, <2>4 DEF StacksOK
<1>7. CASE r.class = "DirectDeclarator" /\ r.op = "("
  <2> DEFINE fs == IF e.fs = "kNotFunction" THEN "kFunctionDeclaration" ELSE e.fs
             d == [e EXCEPT !.types = Many, !.ids = Many, !.var = "kDefinition", !.ptr = "no", !.fs = fs]
  <2>1. /\ UNCHANGED <<identifier_stack, is_complete_type, context_stack>>
        /\ variable_state' = "kDefinition" /\ is_pointer' = FALSE
        /\ function_state' = IF function_state = "kNotFunction" THEN "kFunctionDeclaration"
                             ELSE function_state
        /\ UNCHANGED type_stack \/ \E x : type_stack' = [type_stack EXCEPT ![Len(type_stack)] = x]
    BY <1>7 DEF VisitMethod, VisitDirectDeclarator
  <2>2. Visited(r, e) = d
    BY <1>7 DEF Visited
  <2>3. function_state' = fs
    BY <2>1 DEF Meets
  <2> HIDE DEF fs
  <2>4. /\ d.types = Many /\ d.ids = Many /\ d.inside = e.inside /\ d.complete = e.complete
        /\ d.fs = fs /\ d.ptr = "no" /\ d.var = "kDefinition"
    BY DEF Expectations
  <2> HIDE DEF d
  <2>5. Meets(d)'
    BY <2>1, <2>3, <2>4 DEF Meets, PointerIs, Within
  <2>6. Records(type_stack', {})
    BY <2>1, LastReplaced DEF StacksOK
  <2> QED
    BY <2>1, <2>2, <2>5, <2>6 DEF StacksOK
<1>8. CASE /\ r.class \notin {"AssignmentExpression", "FunctionDefinition", "CompoundStatement",
                               "DeclarationSpecifiers", "Declarator", "DirectDeclarator"}
           /\ ~(r.class = "PostfixExpression" /\ r.op = "(")
  <2>1. UNCHANGED <<type_stack, identifier_stack, is_complete_type, function_state,
                    variable_state, is_pointer, context_stack>>
    BY <1>8 DEF VisitMethod, VisitDeclaration, VisitSelectionStatement, visitor, flags, stacks
  <2>2. Visited(r, e) = e
    BY <1>8 DEF Visited
  <2> QED
    BY <2>1, <2>2, MeetsStill
<1> QED
  BY <1>1, <1>2, <1>3, <1>4, <1>5, <1>6, <1>7, <1>8

LEMMA FrontOf ==
  ASSUME NEW q, Records(q, {}), q # <<>>
  PROVE  /\ Records(Front(q), {}) /\ Len(Front(q)) = Len(q) - 1
         /\ \A i \in DOMAIN Front(q) : i \in DOMAIN q /\ Front(q)[i] = q[i]
<1> DEFINE n == Len(q) - 1
<1>1. n \in 0 .. Len(q) /\ DOMAIN q = 1 .. Len(q) /\ Len(q) \in Nat
  BY RecordsLength
<1>2. Front(q) = SubSeq(q, 1, n)
  BY DEF Front
<1> HIDE DEF n
<1>3. /\ Records(Front(q), {}) /\ Len(Front(q)) = n
      /\ \A i \in 1 .. n : Front(q)[i] = q[i]
  BY <1>1, <1>2, RecordsPrefix
<1>4. DOMAIN Front(q) = 1 .. n
  BY <1>3, RecordsLength
<1> QED
  BY <1>1, <1>3, <1>4 DEF n

HooksAtBottom == \A i \in DOMAIN context_stack : i > 1 => context_stack[i].hook = 0

LEMMA ExpressionExitMeets ==
  ASSUME StacksOK, NEW r, NEW e \in Expectations, NEW f \in Expectations, ExitStep(r.class, r.op, e, f),
         Meets(e), ExitSurvives(r), ExitMethod(r),
         r.class \in {"AssignmentExpression", "BinaryExpression", "ExpressionStatement",
                     "JumpStatement", "Declarator", "PostfixExpression"}
  PROVE  Meets(f)' /\ StacksOK'
<1>1. CASE r.class # "PostfixExpression"
  <2>1. UNCHANGED <<type_stack, identifier_stack, is_complete_type, function_state,
                    variable_state, is_pointer, context_stack>>
    BY <1>1 DEF ExitMethod, ExitAssignmentExpression, ExitBinaryExpression, ExitJumpStatement,
                visitor, flags, stacks
  <2>2. f = e
    BY <1>1 DEF ExitStep
  <2> QED
    BY <2>1, <2>2, MeetsStill
<1>2. CASE r.class = "PostfixExpression"
  <2>1. /\ UNCHANGED <<type_stack, is_complete_type, function_state, variable_state, is_pointer,
                       context_stack>>
        /\ identifier_stack' = Front(identifier_stack)
    BY <1>2 DEF ExitMethod, ExitPostfixExpression, flags
  <2>2. identifier_stack # <<>>
    BY <1>2 DEF ExitSurvives, PostfixSurvives
  <2>3. /\ Records(identifier_stack', {}) /\ Len(identifier_stack') = Len(identifier_stack) - 1
        /\ \A i \in DOMAIN identifier_stack' :
             i \in DOMAIN identifier_stack /\ identifier_stack'[i] = identifier_stack[i]
    BY <2>1, <2>2, FrontOf DEF StacksOK
  <2>4. /\ f.ids # Many /\ e.ids \in {f.ids, More(f.ids)}
        /\ f.types = e.types /\ f.inside = e.inside /\ f.complete = e.complete
        /\ f.fs = e.fs /\ f.ptr = e.ptr /\ f.var = e.var
    BY <1>2 DEF ExitStep, Expectations
  <2>5. Within(Len(identifier_stack'), f.ids)
    BY <2>2, <2>3, <2>4, LengthsOK DEF Meets, Within, More, Expectations, Bounds, Many
  <2>6. PointerIs(f.ptr, f.fs)'
    <3>1. f.ptr \in {"no", "any", "named"}
      BY <1>2 DEF ExitStep
    <3> QED
      BY <2>1, <2>3, <2>4, <3>1 DEF Meets, PointerIs, Untyped
  <2> QED
    BY <2>1, <2>3, <2>4, <2>5, <2>6 DEF Meets, StacksOK
<1> QED
  BY <1>1, <1>2

LEMMA BlockExitMeets ==
  ASSUME StacksOK, IInv, HooksAtBottom, NEW r, NEW e \in Expectations, NEW f \in Expectations,
         ExitStep(r.class, r.op, e, f), Meets(e), ExitSurvives(r), ExitMethod(r),
         r.class \in {"SelectionStatement", "CompoundStatement", "FunctionDefinition"}
  PROVE  Meets(f)' /\ StacksOK'
<1>1. UNCHANGED <<type_stack, identifier_stack, is_complete_type, function_state,
                  variable_state, is_pointer>>
  BY DEF ExitMethod, ExitSelectionStatement, ExitCompoundStatement, ExitFunctionDefinition
<1>2. CASE r.class \in {"SelectionStatement", "CompoundStatement"}
  <2>1. e = Inside /\ f = Inside
    BY <1>2 DEF ExitStep
  <2>2. Inside.inside = TRUE /\ Inside.ptr = "no"
    BY DEF Inside, Outside
  <2> QED
    BY <1>1, <2>1, <2>2 DEF Meets, PointerIs, StacksOK
<1>3. CASE r.class = "FunctionDefinition"
  <2>1. e = Inside /\ f = Outside
    BY <1>3 DEF ExitStep
  <2>2. /\ Inside.types = Outside.types /\ Inside.ids = Outside.ids
        /\ Inside.complete = Outside.complete /\ Inside.fs = Outside.fs
        /\ Inside.var = Outside.var /\ Inside.ptr = "no" /\ Outside.ptr = "no"
    BY DEF Inside, Outside
  <2>3. context_stack # <<>> /\ Top.hook # 0 /\ context_stack' = Front(context_stack)
    BY <1>3 DEF ExitSurvives, FunctionDefinitionSurvives, ExitMethod, ExitFunctionDefinition, PopBlock
  <2>4. Len(context_stack) \in Nat /\ Len(context_stack) # 0 /\ Len(context_stack) \in DOMAIN context_stack
    BY <2>3, RecordsLength DEF IInv
  <2>5. Len(context_stack) = 1
    <3>1. context_stack[Len(context_stack)].hook # 0
      BY <2>3 DEF Top, Last
    <3>2. ~(Len(context_stack) > 1)
      BY <2>4, <3>1 DEF HooksAtBottom
    <3>3. \A n \in Nat : n # 0 /\ ~(n > 1) => n = 1
      OBVIOUS
    <3> QED
      BY <2>4, <3>2, <3>3, Zenon
  <2>6. context_stack' = <<>>
    BY <2>3, <2>5 DEF Front
  <2> QED
    BY <1>1, <2>1, <2>2, <2>6 DEF Meets, PointerIs, StacksOK
<1> QED
  BY <1>2, <1>3

LEMMA ParameterExitMeets ==
  ASSUME StacksOK, NEW r, NEW e \in Expectations, NEW f \in Expectations,
         ExitStep(r.class, r.op, e, f), Meets(e), ExitSurvives(r), ExitMethod(r),
         r.class \in {"ParameterList", "ParameterDeclaration"}
  PROVE  Meets(f)' /\ StacksOK'
<1>1. CASE r.class = "ParameterList"
  <2>1. /\ UNCHANGED <<type_stack, is_complete_type, function_state, variable_state, is_pointer,
                       context_stack>>
        /\ UNCHANGED identifier_stack \/ identifier_stack' = Append(identifier_stack, NullIdentifier)
    BY <1>1 DEF ExitMethod, ExitParameterList, flags
  <2>2. f = e /\ e.ids = Many /\ e.ptr = "no"
    BY <1>1 DEF ExitStep
  <2>3. Records(identifier_stack', {})
    BY <2>1, Pushed DEF StacksOK
  <2> QED
    BY <2>1, <2>2, <2>3 DEF Meets, PointerIs, StacksOK, Within
<1>2. CASE r.class = "ParameterDeclaration"
  <2>1. /\ UNCHANGED <<is_complete_type, function_state, variable_state, is_pointer, context_stack>>
        /\ type_stack' = Front(type_stack)
        /\ \/ \E x : identifier_stack' = Append(identifier_stack, x)
           \/ \E x : identifier_stack' = [identifier_stack EXCEPT ![Len(identifier_stack)] = x]
           \/ r.op \notin {"unnamed", "abstract", ""}
    BY <1>2 DEF ExitMethod, ExitParameterDeclaration, flags
  <2>2. type_stack # <<>>
    BY <1>2 DEF ExitSurvives, ParameterDeclarationSurvives
  <2>3. /\ e.types = Many /\ e.ids = Many /\ e.ptr \in {"no", "named"} /\ f.ptr = "no"
        /\ f.types = e.types /\ f.ids = e.ids /\ f.inside = e.inside /\ f.complete = e.complete
        /\ f.fs = e.fs /\ f.var = e.var /\ r.op \in {"unnamed", "abstract", ""}
    BY <1>2 DEF ExitStep, Expectations
  <2>4. Records(identifier_stack', {})
    <3>1. ASSUME NEW x, identifier_stack' = Append(identifier_stack, x)
          PROVE  Records(identifier_stack', {})
      BY <3>1, Pushed DEF StacksOK
    <3>2. ASSUME NEW x, identifier_stack' = [identifier_stack EXCEPT ![Len(identifier_stack)] = x]
          PROVE  Records(identifier_stack', {})
      BY <3>2, LastReplaced DEF StacksOK
    <3> QED
      BY <2>1, <2>3, <3>1, <3>2
  <2>5. Records(type_stack', {})
    BY <2>1, <2>2, FrontOf DEF StacksOK
  <2>6. ~is_pointer
    BY <2>2, <2>3 DEF Meets, PointerIs
  <2> QED
    BY <2>1, <2>3, <2>4, <2>5, <2>6 DEF Meets, PointerIs, StacksOK, Within
<1> QED
  BY <1>1, <1>2

LEMMA DeclarationExitMeets ==
  ASSUME StacksOK, NEW r, NEW e \in Expectations, NEW f \in Expectations,
         ExitStep(r.class, r.op, e, f), Meets(e), ExitSurvives(r), ExitMethod(r),
         r.class \in {"Declaration", "DeclarationSpecifiers"}
  PROVE  Meets(f)' /\ StacksOK'
<1>1. CASE r.class = "Declaration"
  <2>1. /\ UNCHANGED <<identifier_stack, is_complete_type, function_state, variable_state,
                       is_pointer, context_stack>>
        /\ type_stack' = IF type_stack = <<>> THEN <<>> ELSE Front(type_stack)
    BY <1>1 DEF ExitMethod, ExitDeclaration, flags
  <2>2. /\ e.types = 1 /\ f.types = 0 /\ f.ids = e.ids /\ f.inside = e.inside
        /\ f.complete = e.complete /\ f.fs = e.fs /\ f.var = e.var /\ e.ptr = "no" /\ f.ptr = "no"
    <3>1. PICK b \in {Outside, Inside} : e = Specified(b) /\ f = b
      BY <1>1 DEF ExitStep
    <3> QED
      BY <3>1, PlaceFields, SpecifiedFields
  <2>3. Records(type_stack', {}) /\ Len(type_stack') <= 0
    <3>1. CASE type_stack = <<>>
      BY <2>1, <3>1 DEF StacksOK
    <3>2. CASE type_stack # <<>>
      <4>1. Len(type_stack) <= 1
        BY <2>2 DEF Meets, Within, Many
      <4> QED
        BY <2>1, <3>2, <4>1, FrontOf, LengthsOK DEF StacksOK
    <3> QED
      BY <3>1, <3>2
  <2> QED
    BY <2>1, <2>2, <2>3 DEF Meets, PointerIs, StacksOK, Within
<1>2. CASE r.class = "DeclarationSpecifiers"
  <2>1. /\ UNCHANGED <<type_stack, identifier_stack, function_state, variable_state, is_pointer,
                       context_stack>>
        /\ is_complete_type' = TRUE
    BY <1>2 DEF ExitMethod, ExitDeclarationSpecifiers, stacks
  <2>2. /\ f.types = e.types /\ f.ids = e.ids /\ f.inside = e.inside /\ f.complete = TRUE
        /\ f.fs = e.fs /\ f.var = e.var /\ f.ptr = e.ptr
    BY <1>2 DEF ExitStep, Expectations
  <2>3. is_complete_type' = TRUE
    BY <2>1
  <2>4. PointerIs(f.ptr, f.fs)'
    BY <2>1, <2>2 DEF Meets, PointerIs, Untyped
  <2> QED
    BY <2>1, <2>2, <2>3, <2>4 DEF Meets, StacksOK
<1> QED
  BY <1>1, <1>2

LEMMA WithinOne ==
  ASSUME NEW n \in Nat, Within(n, 1)
  PROVE  n <= 1
BY DEF Within, Many

LEMMA LastOfOne ==
  ASSUME NEW q, Records(q, {}), Len(q) \in DOMAIN q
  PROVE  q # <<>> /\ (Len(q) <= 1 => DOMAIN q = {Len(q)})
<1>1. Len(q) \in Nat /\ DOMAIN q = 1 .. Len(q)
  BY RecordsLength
<1>2. Len(q) >= 1
  BY <1>1
<1>3. ASSUME Len(q) <= 1 PROVE DOMAIN q = {Len(q)}
  <2>1. Len(q) = 1
    BY <1>1, <1>2, <1>3
  <2> QED
    BY <1>1, <2>1
<1> QED
  BY <1>2, <1>3

LEMMA NameExitMeets ==
  ASSUME StacksOK, NEW r, NEW e \in Expectations, NEW f \in Expectations,
         ExitStep(r.class, r.op, e, f), Meets(e), ExitMethod(r), r.class = "DirectDeclarator", r.op = ""
  PROVE  Meets(f)' /\ StacksOK'
<1>1. ExitName
  BY DEF ExitMethod
<1>2. /\ UNCHANGED <<type_stack, is_complete_type, function_state, variable_state, context_stack>>
      /\ \/ /\ type_stack = <<>> \/ identifier_stack = <<>>
            /\ UNCHANGED <<is_pointer, identifier_stack>>
         \/ is_pointer' = FALSE /\ Len(identifier_stack') = Len(identifier_stack) /\ Records(identifier_stack', {})
  <2>1. \/ /\ type_stack = <<>> \/ identifier_stack = <<>>
           /\ UNCHANGED <<is_pointer, identifier_stack>>
        \/ /\ is_pointer' = FALSE
           /\ \E x : identifier_stack' = [identifier_stack EXCEPT ![Len(identifier_stack)] = x]
    BY <1>1 DEF ExitName
  <2>2. ASSUME NEW x, identifier_stack' = [identifier_stack EXCEPT ![Len(identifier_stack)] = x]
        PROVE  Len(identifier_stack') = Len(identifier_stack) /\ Records(identifier_stack', {})
    BY <2>2, LastReplaced DEF StacksOK
  <2>3. UNCHANGED <<type_stack, is_complete_type, function_state, variable_state, context_stack>>
    BY <1>1 DEF ExitName
  <2> QED
    BY <2>1, <2>2, <2>3
<1>3. /\ f.types = e.types /\ f.ids = e.ids /\ f.inside = e.inside /\ f.complete = e.complete
      /\ f.fs = e.fs /\ f.var = e.var
      /\ \/ e.ptr = "no" /\ f.ptr = "no"
         \/ e.ptr = "declared" /\ f.ptr = "named" /\ (e.fs = "kNotFunction" => e.ids = 1)
  BY DEF ExitStep, Expectations
<1>4. StacksOK'
  BY <1>2 DEF StacksOK
<1>5. PointerIs(f.ptr, f.fs)'
  <2>1. CASE is_pointer' = FALSE
    BY <1>3, <2>1 DEF PointerIs
  <2>2. CASE e.ptr = "no" /\ UNCHANGED is_pointer
    BY <1>3, <2>2 DEF PointerIs, Meets
  <2>3. CASE e.ptr = "declared" /\ UNCHANGED <<is_pointer, identifier_stack>> /\ (type_stack = <<>> \/ identifier_stack = <<>>)
    <3>1. Len(identifier_stack) \in Untyped
      BY <2>3 DEF Meets, PointerIs
    <3>2. identifier_stack # <<>> /\ (Len(identifier_stack) <= 1 => DOMAIN identifier_stack = {Len(identifier_stack)})
      <4>1. Len(identifier_stack) \in DOMAIN identifier_stack
        BY <3>1 DEF Untyped
      <4> QED
        BY <4>1, LastOfOne, ZenonT(40) DEF StacksOK
    <3>3. e.fs = "kNotFunction" => Untyped = DOMAIN identifier_stack
      <4> SUFFICES ASSUME e.fs = "kNotFunction" PROVE Untyped = DOMAIN identifier_stack
        OBVIOUS
      <4>1. e.ids = 1
        BY <1>3, <2>3
      <4>2. Within(Len(identifier_stack), 1)
        BY <4>1 DEF Meets
      <4>3. Len(identifier_stack) <= 1
        BY <4>2, WithinOne, LengthsOK
      <4> QED
        BY <3>1, <3>2, <4>3 DEF Untyped
    <3> QED
      BY <1>2, <1>3, <2>3, <3>2, <3>3 DEF PointerIs, Untyped
  <2> QED
    BY <1>2, <1>3, <2>1, <2>2, <2>3
<1>6. Len(identifier_stack') = Len(identifier_stack)
  BY <1>2
<1> QED
  BY <1>2, <1>3, <1>4, <1>5, <1>6 DEF Meets

LEMMA PrototypedFields ==
  ASSUME NEW b \in {Outside, Inside}
  PROVE  /\ Prototyped(b).types = 1 /\ Prototyped(b).ids = 0 /\ Prototyped(b).complete = TRUE
         /\ Prototyped(b).fs = "kFunctionDeclaration" /\ Prototyped(b).var = "kAccess"
         /\ Prototyped(b).ptr = "no" /\ Prototyped(b).inside = b.inside
<1>1. b \in Expectations
  BY ConstantExpectations
<1> QED
  BY <1>1, PlaceFields DEF Prototyped, Expectations

LEMMA FunctionExitMeets ==
  ASSUME StacksOK, NEW r, NEW e \in Expectations, NEW f \in Expectations,
         ExitStep(r.class, r.op, e, f), Meets(e), ExitMethod(r), r.class = "DirectDeclarator", r.op = "("
  PROVE  Meets(f)' /\ StacksOK'
<1>1. /\ UNCHANGED <<is_complete_type, function_state, variable_state, is_pointer>>
      /\ type_stack' = <<>> /\ identifier_stack' = <<>>
      /\ context_stack = <<>> /\ function_state # "kFunctionDefinition" => context_stack' = <<>>
  BY DEF ExitMethod, ExitFunctionDeclarator, flags
<1>2. /\ e.ptr = "no" /\ e.complete = TRUE /\ e.var = "kAccess"
      /\ f.types \in {0, 1} /\ f.ids = 0 /\ f.complete = TRUE /\ f.var = "kAccess" /\ f.ptr = "no"
      /\ f.fs = e.fs
      /\ ~f.inside => ~e.inside /\ e.fs # "kFunctionDefinition"
  <2>1. CASE \E b \in {Outside, Inside} : e = Listing("kFunctionDeclaration", b) /\ f = Prototyped(b)
    <3>1. PICK b \in {Outside, Inside} : e = Listing("kFunctionDeclaration", b) /\ f = Prototyped(b)
      BY <2>1
    <3> QED
      BY <3>1, ListingFields, PrototypedFields, ZenonT(40)
  <2>2. CASE e = Listing("kFunctionDefinition", Outside) /\ f = Entered
    <3>1. /\ Entered.types = 0 /\ Entered.ids = 0 /\ Entered.complete = TRUE /\ Entered.ptr = "no"
          /\ Entered.var = "kAccess" /\ Entered.fs = "kFunctionDefinition" /\ Entered.inside = TRUE
      BY DEF Entered, Inside, Outside
    <3> QED
      BY <2>2, <3>1, ListingFields
  <2> QED
    BY <2>1, <2>2 DEF ExitStep
<1>3. Records(<<>>, {}) /\ Len(<<>>) = 0
  BY PathEmpty, ConstantExpectations
<1>4. StacksOK'
  BY <1>1, <1>3 DEF StacksOK
<1>5. ~f.inside => context_stack' = <<>>
  BY <1>1, <1>2 DEF Meets
<1>6. /\ is_complete_type' = f.complete /\ function_state' = f.fs /\ variable_state' = f.var
      /\ ~is_pointer'
  BY <1>1, <1>2 DEF Meets, PointerIs
<1>7. PointerIs(f.ptr, f.fs)'
  BY <1>2, <1>6 DEF PointerIs
<1>8. Within(Len(type_stack'), f.types) /\ Within(Len(identifier_stack'), f.ids)
  BY <1>1, <1>2, <1>3 DEF Within
<1> QED
  BY <1>4, <1>5, <1>6, <1>7, <1>8 DEF Meets

LEMMA InitDeclaratorExitMeets ==
  ASSUME StacksOK, NEW r, NEW e \in Expectations, NEW f \in Expectations,
         ExitStep(r.class, r.op, e, f), Meets(e), ExitSurvives(r), ExitMethod(r), r.class = "InitDeclarator"
  PROVE  Meets(f)' /\ StacksOK'
<1>0. ExitInitDeclarator(r.op) /\ InitDeclaratorSurvives(r.op)
  BY DEF ExitMethod, ExitSurvives
<1>1. PICK b \in {Outside, Inside} : f = Specified(b) /\ e \in {WithName(f), Prototyped(b)}
  BY DEF ExitStep
<1>2. CASE e = Prototyped(b)
  <2>1. function_state = "kFunctionDeclaration"
    BY <1>2, PrototypedFields DEF Meets
  <2>2. /\ UNCHANGED <<type_stack, identifier_stack, context_stack, variable_state, is_complete_type,
                       is_pointer>>
        /\ function_state' = "kNotFunction"
    BY <1>0, <2>1 DEF ExitInitDeclarator, stacks
  <2>3. /\ e.types = f.types /\ e.ids = f.ids /\ e.inside = f.inside /\ e.complete = f.complete
        /\ e.var = f.var /\ e.ptr = "no" /\ f.ptr = "no" /\ f.fs = "kNotFunction"
    BY <1>1, <1>2, PrototypedFields, SpecifiedFields
  <2> QED
    BY <2>2, <2>3 DEF Meets, PointerIs, StacksOK
<1>3. CASE e = WithName(f)
  <2>1. /\ e.types = f.types /\ e.ids = 1 /\ f.ids = 0 /\ e.inside = f.inside /\ e.complete = f.complete
        /\ e.var = f.var /\ e.ptr = "named" /\ f.ptr = "no" /\ e.fs = "kNotFunction" /\ f.fs = "kNotFunction"
    BY <1>1, <1>3, SpecifiedFields, WithNameFields, ConstantBounds
  <2>2. function_state = "kNotFunction"
    BY <2>1 DEF Meets
  <2>3. identifier_stack # <<>> /\ Last(identifier_stack).type # NullType
    BY <1>0, <2>2 DEF InitDeclaratorSurvives
  <2>4. /\ UNCHANGED <<type_stack, variable_state, function_state, is_complete_type, is_pointer>>
        /\ identifier_stack' = Front(identifier_stack)
        /\ context_stack = <<>> => context_stack' = <<>>
    BY <1>0, <2>2 DEF ExitInitDeclarator, flags
  <2>5. ~is_pointer
    <3>1. Len(identifier_stack) \in DOMAIN identifier_stack
      BY <2>3, RecordsLength DEF StacksOK
    <3>2. Untyped # DOMAIN identifier_stack
      BY <2>3, <3>1 DEF Untyped, Last
    <3> QED
      BY <2>1, <3>2 DEF Meets, PointerIs
  <2>6. Records(identifier_stack', {}) /\ Len(identifier_stack') <= 0
    <3>1. Len(identifier_stack) <= 1 /\ Len(identifier_stack) \in Nat
      BY <2>1, WithinOne, LengthsOK DEF Meets
    <3> QED
      BY <2>3, <2>4, <3>1, FrontOf DEF StacksOK
  <2>7. StacksOK'
    BY <2>4, <2>6 DEF StacksOK
  <2> QED
    BY <2>1, <2>4, <2>5, <2>6, <2>7 DEF Meets, PointerIs, Within
<1> QED
  BY <1>1, <1>2, <1>3

LEMMA ExitMeets ==
  ASSUME StacksOK, IInv, HooksAtBottom, NEW r, NEW e \in Expectations, NEW f \in Expectations,
         ExitStep(r.class, r.op, e, f), Meets(e), ExitSurvives(r), ExitMethod(r)
  PROVE  Meets(f)' /\ StacksOK'
<1>1. \/ r.class \in {"AssignmentExpression", "BinaryExpression", "ExpressionStatement",
                      "JumpStatement", "Declarator", "PostfixExpression", "SelectionStatement",
                      "CompoundStatement", "FunctionDefinition", "ParameterList",
                      "ParameterDeclaration", "Declaration", "DeclarationSpecifiers",
                      "InitDeclarator"}
      \/ r.class = "DirectDeclarator" /\ r.op \in {"", "("}
  BY DEF ExitStep
<1> QED
  BY <1>1, ExpressionExitMeets, BlockExitMeets, ParameterExitMeets, DeclarationExitMeets, NameExitMeets,
     FunctionExitMeets, InitDeclaratorExitMeets

-----------------------------------------------------------------------------
(* A function's own context is the outermost one.                          *)
LEMMA AlikeHooks ==
  ASSUME IInv, HooksAtBottom, NEW c, Alike(c)
  PROVE  \A i \in DOMAIN c : i > 1 => c[i].hook = 0
<1>1. DOMAIN c = DOMAIN context_stack
  BY RecordsLength DEF Alike, IInv
<1> QED
  BY <1>1 DEF Alike, HooksAtBottom

LEMMA PopHooks ==
  ASSUME IInv, HooksAtBottom, context_stack # <<>>, PopBlock
  PROVE  HooksAtBottom'
<1> DEFINE n == Len(context_stack) - 1
<1>1. n \in 0 .. Len(context_stack) /\ DOMAIN context_stack = 1 .. n + 1
  BY RecordsLength DEF IInv
<1>2. context_stack' = SubSeq(context_stack, 1, n)
  BY DEF PopBlock, Front
<1> HIDE DEF n
<1>3. /\ Records(context_stack', ContextFields) /\ Len(context_stack') = n
      /\ \A i \in 1 .. n : context_stack'[i] = context_stack[i]
  BY <1>1, <1>2, RecordsPrefix DEF IInv
<1>4. DOMAIN context_stack' = 1 .. n
  BY <1>3, RecordsLength
<1> QED
  BY <1>1, <1>3, <1>4 DEF HooksAtBottom

LEMMA PushHooks ==
  ASSUME IInv, HooksAtBottom, NEW q, Alike(q), NEW c, ContextFields \subseteq DOMAIN c,
         c.hook = 0 \/ context_stack = <<>>, context_stack' = Append(q, c)
  PROVE  HooksAtBottom'
<1>1. /\ Records(q, ContextFields) /\ Len(q) = Len(context_stack)
      /\ \A i \in DOMAIN q : i > 1 => q[i].hook = 0
  BY AlikeHooks DEF Alike
<1>2. /\ Records(context_stack', ContextFields) /\ Len(context_stack') = Len(q) + 1
      /\ \A i \in 1 .. Len(q) : context_stack'[i] = q[i]
      /\ context_stack'[Len(q) + 1] = c
  BY <1>1, RecordsAppend
<1>3. /\ DOMAIN context_stack' = 1 .. Len(q) + 1 /\ DOMAIN q = 1 .. Len(q) /\ Len(q) \in Nat
  BY <1>1, <1>2, RecordsLength
<1>4. context_stack = <<>> => Len(q) = 0
  BY <1>1
<1>5. ASSUME NEW i \in DOMAIN context_stack', i > 1 PROVE context_stack'[i].hook = 0
  <2>1. CASE i \in 1 .. Len(q)
    BY <1>1, <1>2, <1>3, <1>5, <2>1
  <2>2. CASE i = Len(q) + 1
    BY <1>2, <1>3, <1>4, <1>5, <2>2
  <2> QED
    BY <1>3, <2>1, <2>2
<1> QED
  BY <1>5 DEF HooksAtBottom

LEMMA VisitHooks ==
  ASSUME IInv, HooksAtBottom, NEW r, VisitSurvives(r), VisitMethod(r)
  PROVE  HooksAtBottom'
<1>1. CASE r.class = "CompoundStatement" /\ VisitCompoundStatement
  <2>1. CASE function_state = "kNotFunction"
    <3> DEFINE c == Context(Len(blocks'), 0, TRUE, <<>>)
    <3>1. context_stack' = Append(context_stack, c)
      BY <1>1, <2>1 DEF VisitCompoundStatement
    <3>2. ContextFields \subseteq DOMAIN c /\ c.hook = 0
      BY DEF Context, ContextFields
    <3> HIDE DEF c
    <3> QED
      BY <3>1, <3>2, SameAlike, PushHooks
  <2>2. CASE function_state # "kNotFunction" /\ sticky_context
    <3> DEFINE c == [Top EXCEPT !.sticky = TRUE]
    <3>1. context_stack # <<>>
      BY <1>1, <2>2 DEF VisitSurvives, BlockSurvives
    <3>2. context_stack' = [context_stack EXCEPT ![Len(context_stack)] = c]
      BY <1>1, <2>2 DEF VisitCompoundStatement, Top, Last
    <3>3. ContextFields \subseteq DOMAIN c /\ c.llvm = Top.llvm /\ c.hook = Top.hook
      BY <3>1, TopHasFields DEF ContextFields
    <3> HIDE DEF c
    <3>4. Alike(context_stack')
      BY <3>1, <3>2, <3>3, TopAlike
    <3> QED
      BY <3>4, AlikeHooks DEF HooksAtBottom
  <2>3. CASE function_state # "kNotFunction" /\ ~sticky_context
    BY <1>1, <2>3 DEF VisitCompoundStatement, HooksAtBottom
  <2> QED
    BY <2>1, <2>2, <2>3
<1>2. CASE UNCHANGED context_stack
  BY <1>2 DEF HooksAtBottom
<1>3. \/ VisitAssignmentExpression \/ VisitPostfixExpression \/ VisitFunctionDefinition
      \/ VisitDeclaration(r.op) \/ VisitDeclarationSpecifiers(r.op) \/ VisitDeclarator(r.op)
      \/ VisitDirectDeclarator(r.op) \/ VisitSelectionStatement \/ UNCHANGED visitor
      => UNCHANGED context_stack
  BY DEF VisitAssignmentExpression, VisitPostfixExpression, VisitFunctionDefinition,
         VisitDeclaration, VisitDeclarationSpecifiers, VisitDeclarator, VisitDirectDeclarator,
         VisitSelectionStatement, visitor, stacks
<1> QED
  BY <1>1, <1>2, <1>3 DEF VisitMethod

LEMMA FunctionHooks ==
  ASSUME IInv, HooksAtBottom, ExitFunctionDeclarator,
         function_state = "kFunctionDefinition" => context_stack = <<>>
  PROVE  HooksAtBottom'
<1> DEFINE f == Len(functions) + 1
           c == Context(Len(blocks) + 1, f, FALSE, Parameters)
<1>1. ContextFields \subseteq DOMAIN c
  BY DEF Context, ContextFields
<1>2. CASE function_state = "kFunctionDefinition"
  <2>1. context_stack = <<>> /\ context_stack' = Append(context_stack, c)
    BY <1>2 DEF ExitFunctionDeclarator
  <2> HIDE DEF c
  <2> QED
    BY <1>1, <2>1, SameAlike, PushHooks
<1>3. CASE function_state # "kFunctionDefinition" /\ context_stack = <<>>
  <2>1. UNCHANGED context_stack
    BY <1>3 DEF ExitFunctionDeclarator
  <2> QED
    BY <2>1 DEF HooksAtBottom
<1>4. CASE function_state # "kFunctionDefinition" /\ context_stack # <<>>
  <2>1. PICK n, new : context_stack' = [context_stack EXCEPT ![Len(context_stack)] = WithFunction(Top, n, new)]
    BY <1>4 DEF ExitFunctionDeclarator
  <2> DEFINE d == WithFunction(Top, n, new)
  <2>2. ContextFields \subseteq DOMAIN d /\ d.llvm = Top.llvm /\ d.hook = Top.hook
    BY <1>4, TopHasFields DEF WithFunction, ContextFields
  <2> HIDE DEF d
  <2>3. Alike(context_stack')
    BY <1>4, <2>1, <2>2, TopAlike DEF d
  <2> QED
    BY <2>3, AlikeHooks DEF HooksAtBottom
<1> QED
  BY <1>2, <1>3, <1>4

LEMMA SelectionHooks ==
  ASSUME IInv, HooksAtBottom, NEW op, SelectionSurvives(op), ExitSelectionStatement(op)
  PROVE  HooksAtBottom'
<1> DEFINE n == Len(context_stack) - Branches(op)
           resume == Len(blocks) + 1
           around == SubSeq(context_stack, 1, n)
           c == [around[n] EXCEPT !.llvm = resume]
<1>0. Records(context_stack, ContextFields)
  BY DEF IInv
<1>1. n \in 1 .. Len(context_stack) /\ n \in 0 .. Len(context_stack)
  BY <1>0, RecordsLength DEF SelectionSurvives, Branches
<1>2. /\ Records(around, ContextFields) /\ Len(around) = n
      /\ \A i \in 1 .. n : around[i] = context_stack[i]
  <2> HIDE DEF n
  <2> QED
    BY <1>0, <1>1, RecordsPrefix, SMTT(30)
<1>3. context_stack' = [around EXCEPT ![n] = c]
  BY <1>2 DEF ExitSelectionStatement, Around
<1>4. DOMAIN around = 1 .. n /\ DOMAIN context_stack = 1 .. Len(context_stack)
      /\ Len(context_stack) \in Nat /\ ContextFields \subseteq DOMAIN around[n]
  <2> HIDE DEF n, around
  <2>1. DOMAIN around = 1 .. n /\ \A i \in DOMAIN around : ContextFields \subseteq DOMAIN around[i]
    BY <1>2, RecordsLength
  <2> QED
    BY <1>0, <1>1, <2>1, RecordsLength
<1> HIDE DEF n, around, resume
<1>5. c.hook = around[n].hook
  BY <1>4 DEF ContextFields
<1> HIDE DEF c
<1>6. DOMAIN context_stack' = 1 .. n
  BY <1>3, <1>4
<1>7. \A i \in 1 .. n : context_stack'[i].hook = context_stack[i].hook /\ i \in DOMAIN context_stack
  BY <1>1, <1>2, <1>3, <1>4, <1>5
<1> QED
  BY <1>6, <1>7 DEF HooksAtBottom

LEMMA ExitHooks ==
  ASSUME IInv, HooksAtBottom, NEW r, ExitSurvives(r), ExitMethod(r),
         r.class = "DirectDeclarator" /\ r.op = "(" =>
           (function_state = "kFunctionDefinition" => context_stack = <<>>)
  PROVE  HooksAtBottom'
<1>1. CASE UNCHANGED context_stack
  BY <1>1 DEF HooksAtBottom
<1>2. CASE r.class = "FunctionDefinition" /\ ExitFunctionDefinition
  <2>1. context_stack # <<>> /\ PopBlock
    BY <1>2 DEF ExitSurvives, FunctionDefinitionSurvives, ExitFunctionDefinition
  <2> QED
    BY <2>1, PopHooks
<1>3. CASE r.class = "CompoundStatement" /\ ExitCompoundStatement
  <2>1. context_stack # <<>> /\ (PopBlock \/ UNCHANGED context_stack)
    BY <1>3 DEF ExitSurvives, ExitCompoundStatement
  <2> QED
    BY <1>1, <2>1, PopHooks
<1>4. CASE r.class = "DirectDeclarator" /\ r.op = "(" /\ ExitFunctionDeclarator
  BY <1>4, FunctionHooks
<1>5. CASE ExitInitDeclarator(r.op)
  BY <1>5, InitDeclaratorQuiet, AlikeHooks DEF Quiet, HooksAtBottom
<1>6. CASE r.class = "SelectionStatement" /\ ExitSelectionStatement(r.op)
  <2>1. SelectionSurvives(r.op)
    BY <1>6 DEF ExitSurvives
  <2> QED
    BY <1>6, <2>1, SelectionHooks
<1>7. \/ ExitAssignmentExpression(r.op) \/ ExitBinaryExpression(r.op) \/ ExitPostfixExpression
      \/ ExitParameterList(r.op) \/ ExitParameterDeclaration(r.op) \/ ExitDeclaration
      \/ ExitDeclarationSpecifiers \/ ExitName \/ ExitJumpStatement \/ UNCHANGED visitor
      => UNCHANGED context_stack
  BY DEF ExitAssignmentExpression, ExitBinaryExpression, ExitPostfixExpression,
         ExitParameterList, ExitParameterDeclaration, ExitDeclaration,
         ExitDeclarationSpecifiers, ExitName, ExitJumpStatement, visitor, stacks
<1> QED
  BY <1>1, <1>2, <1>3, <1>4, <1>5, <1>6, <1>7 DEF ExitMethod

LEMMA TerminalMeets ==
  ASSUME StacksOK, NEW P, NEW x, x.k \in {"constant", "variable", "callee", "declared"},
         NEW n, IF x.k = "constant" THEN VisitConstant ELSE VisitIdentifier(n),
         NEW e \in Expectations, NEW f \in Expectations, ItemStep(P, x, e, f), Meets(e)
  PROVE  Meets(f)' /\ StacksOK' /\ UNCHANGED context_stack
<1>1. CASE x.k = "constant"
  <2>1. UNCHANGED <<type_stack, identifier_stack, is_complete_type, function_state,
                    variable_state, is_pointer, context_stack>>
    BY <1>1 DEF VisitConstant, flags
  <2>2. f = e
    BY <1>1 DEF ItemStep
  <2> QED
    BY <2>1, <2>2, MeetsStill
<1>2. CASE x.k = "variable"
  <2>1. /\ e.var \in {"kAccess", "kAddress"}
        /\ f.types = e.types /\ f.ids = e.ids /\ f.inside = e.inside /\ f.complete = e.complete
        /\ f.fs = e.fs /\ f.ptr = e.ptr /\ f.var = "kAccess"
    BY <1>2 DEF ItemStep, Expectations
  <2>2. variable_state \in {"kAccess", "kAddress"}
    BY <2>1 DEF Meets
  <2>3. /\ UNCHANGED <<type_stack, identifier_stack, is_complete_type, function_state, is_pointer,
                       context_stack>>
        /\ variable_state' = "kAccess"
    BY <1>2, <2>2 DEF VisitIdentifier
  <2>4. PointerIs(f.ptr, f.fs)'
    BY <2>1, <2>3 DEF Meets, PointerIs, Untyped
  <2> QED
    BY <2>1, <2>3, <2>4 DEF Meets, StacksOK
<1>3. CASE x.k \in {"callee", "declared"}
  <2>1. /\ e.var \in {"kFunction", "kDefinition"}
        /\ f.types = e.types /\ f.ids = More(e.ids) /\ f.inside = e.inside /\ f.complete = e.complete
        /\ f.fs = e.fs /\ f.var = "kAccess"
        /\ \/ e.ptr \in {"no", "named"} /\ f.ptr = e.ptr
           \/ e.ptr = "any" /\ f.ptr = "declared"
    <3>1. More(e.ids) \in Bounds
      BY MoreIsBound DEF Expectations
    <3>2. CASE x.k = "callee"
      BY <3>1, <3>2 DEF ItemStep, Expectations
    <3>3. CASE x.k = "declared"
      BY <3>1, <3>3 DEF ItemStep, Expectations
    <3> QED
      BY <1>3, <3>2, <3>3
  <2>2. variable_state \notin {"kAccess", "kAddress"}
    BY <2>1 DEF Meets
  <2> DEFINE id == [Identifier(n, NullType, NullValue) EXCEPT !.place = place']
  <2>3. /\ UNCHANGED <<type_stack, is_complete_type, function_state, is_pointer, context_stack>>
        /\ variable_state' = "kAccess" /\ identifier_stack' = Append(identifier_stack, id)
    BY <1>3, <2>2 DEF VisitIdentifier
  <2>4. id.type = NullType
    BY DEF Identifier
  <2> HIDE DEF id
  <2>5. /\ Records(identifier_stack', {}) /\ Len(identifier_stack') = Len(identifier_stack) + 1
        /\ \A i \in 1 .. Len(identifier_stack) : identifier_stack'[i] = identifier_stack[i]
        /\ identifier_stack'[Len(identifier_stack) + 1] = id
    BY <2>3, RecordsAppend DEF StacksOK
  <2>6. /\ DOMAIN identifier_stack = 1 .. Len(identifier_stack) /\ Len(identifier_stack) \in Nat
        /\ DOMAIN identifier_stack' = 1 .. Len(identifier_stack) + 1
    BY <2>5, LengthsOK, RecordsLength
  <2>7. Within(Len(identifier_stack'), f.ids)
    BY <2>1, <2>5, <2>6, MoreWithin DEF Meets, Expectations
  <2>8. PointerIs(f.ptr, f.fs)'
    <3>1. CASE e.ptr = "no" /\ f.ptr = "no"
      BY <2>3, <3>1 DEF Meets, PointerIs
    <3>2. CASE e.ptr = "any" /\ f.ptr = "declared"
      BY <2>4, <2>5, <2>6, <3>2 DEF PointerIs, Untyped
    <3>3. CASE e.ptr = "named" /\ f.ptr = "named"
      <4>1. Untyped = DOMAIN identifier_stack => Untyped' = DOMAIN identifier_stack'
        <5> SUFFICES ASSUME \A i \in DOMAIN identifier_stack : identifier_stack[i].type = NullType
                     PROVE  \A i \in DOMAIN identifier_stack' : identifier_stack'[i].type = NullType
          BY DEF Untyped
        <5> TAKE i \in DOMAIN identifier_stack'
        <5>1. i \in 1 .. Len(identifier_stack) \/ i = Len(identifier_stack) + 1
          BY <2>6
        <5> QED
          BY <2>4, <2>5, <2>6, <5>1
      <4>2. is_pointer => type_stack = <<>> /\ (e.fs = "kNotFunction" => Untyped = DOMAIN identifier_stack)
        BY <3>3 DEF Meets, PointerIs
      <4> QED
        BY <2>1, <2>3, <3>3, <4>1, <4>2 DEF PointerIs
    <3> QED
      BY <2>1, <3>1, <3>2, <3>3
  <2> QED
    BY <2>1, <2>3, <2>5, <2>7, <2>8 DEF Meets, StacksOK
<1> QED
  BY <1>1, <1>2, <1>3

-----------------------------------------------------------------------------
(* The invariant.                                                          *)
Parts == Schemes[scheme].parts

WalkOK ==
  /\ scheme \in DOMAIN Schemes /\ Records(todo, {})
  /\ outcome = "aborted" => todo = <<>>

Expected == \E e \in Expectations : Meets(e) /\ Path(Parts, todo, e, Outside)

CleanInv ==
  /\ TypeInv /\ StacksOK /\ HooksAtBottom /\ WalkOK
  /\ outcome # "aborted" => Expected

LEMMA PartsGrammatical ==
  ASSUME scheme \in DOMAIN Schemes
  PROVE  /\ Grammatical(Parts)
         /\ \A kind \in Kinds : \A p \in Parts[kind] : IsPart(Schemes[scheme], kind, p)
<1>1. \A kind \in Kinds : \A p \in Parts[kind] : IsPart(Schemes[scheme], kind, p)
  BY SchemesAssumption DEF Parts
<1>2. ASSUME NEW kind \in Kinds, NEW p \in Parts[kind]
      PROVE  p.k \in {"symbol", "tree"} \/ (kind = "expression" /\ p.k \in {"constant", "variable"})
  <2>1. p = Sym(p.v) \/ p = Tree(p.v) \/ (kind = "expression" /\ p.k \in {"constant", "variable"})
    BY <1>1 DEF IsPart
  <2> QED
    BY <2>1 DEF Sym, Tree
<1> QED
  BY <1>1, <1>2 DEF Grammatical

LEMMA PathStart ==
  ASSUME NEW P, NEW s, Records(s, {}), NEW e, NEW f, Path(P, s, e, f)
  PROVE  e \in Expectations
<1>1. Len(s) \in Nat
  BY RecordsLength
<1> QED
  BY <1>1 DEF Path

LEMMA CleanAtFirst == Init => CleanInv
<1> SUFFICES ASSUME Init PROVE CleanInv
  OBVIOUS
<1>1. TypeInv
  BY TypesAtFirst
<1>2. Records(<<>>, {}) /\ Len(<<>>) = 0
  BY PathEmpty, ConstantExpectations
<1>3. StacksOK /\ HooksAtBottom
  BY <1>2 DEF Init, StacksOK, HooksAtBottom
<1>4. scheme \in DOMAIN Schemes /\ todo \in Seq(Parts.external)
  BY SchemesAssumption DEF Init, Parts
<1>5. WalkOK
  BY <1>4, AnySequence DEF Init, WalkOK
<1>6. Path(Parts, todo, Outside, Outside)
  <2>1. \A x \in Parts.external : ItemStep(Parts, x, Outside, Outside)
    BY <1>4, PartsGrammatical, ConstantExpectations, PartItem DEF Kinds, PartStep
  <2> QED
    BY <1>4, <2>1, ConstantExpectations, PathSame
<1>7. Meets(Outside)
  <2>1. /\ Outside.types = 0 /\ Outside.ids = 0 /\ Outside.complete = TRUE
        /\ Outside.fs = "kNotFunction" /\ Outside.var = "kAccess" /\ Outside.ptr = "no"
    BY DEF Outside
  <2>2. /\ context_stack = <<>> /\ type_stack = <<>> /\ identifier_stack = <<>>
        /\ is_complete_type = TRUE /\ is_pointer = FALSE
        /\ function_state = "kNotFunction" /\ variable_state = "kAccess"
    BY DEF Init
  <2>3. PointerIs(Outside.ptr, Outside.fs)
    BY <2>1, <2>2 DEF PointerIs
  <2>4. Within(Len(type_stack), Outside.types) /\ Within(Len(identifier_stack), Outside.ids)
    BY <1>2, <2>1, <2>2 DEF Within
  <2> QED
    BY <2>1, <2>2, <2>3, <2>4 DEF Meets
<1> QED
  BY <1>1, <1>3, <1>5, <1>6, <1>7, ConstantExpectations DEF CleanInv, Expected

(* A symbol is replaced by its children and its Exit method.               *)
LEMMA SymbolPath ==
  ASSUME NEW P, NEW r, r = Rule(r.class, r.op, r.kids), Records(r.kids, {}),
         NEW e, NEW f \in Expectations, RuleSteps(P, r, e, f),
         NEW rest, Records(rest, {}), NEW g, Path(P, rest, f, g),
         NEW all, all = r.kids \o (IF r.class = "NonTerminal" THEN <<>> ELSE <<Exit(r)>>) \o rest
  PROVE  Path(P, all, Visited(r, e), g) /\ Records(all, {})
<1> DEFINE exits == IF r.class = "NonTerminal" THEN <<>> ELSE <<Exit(r)>>
<1>1. PICK d \in Expectations :
        /\ Path(P, r.kids, Visited(r, e), d)
        /\ IF r.class = "NonTerminal" THEN d = f ELSE ExitStep(r.class, r.op, d, f)
  BY DEF RuleSteps
<1>2. Path(P, exits, d, f) /\ Records(exits, {})
  <2>1. CASE r.class = "NonTerminal"
    BY <1>1, <2>1, PathEmpty
  <2>2. CASE r.class # "NonTerminal"
    <3>1. Exit(r).k = "exit" /\ Exit(r).v.class = r.class /\ Exit(r).v.op = r.op
      BY DEF Exit, Rule
    <3>2. ExitStep(Exit(r).v.class, Exit(r).v.op, d, f)
      BY <1>1, <2>2, <3>1
    <3>3. ItemStep(P, Exit(r), d, f)
      BY <3>1, <3>2 DEF ItemStep
    <3> QED
      BY <2>2, <3>3, PathOne
  <2> QED
    BY <2>1, <2>2
<1> HIDE DEF exits
<1> DEFINE first == r.kids \o exits
<1>3. Path(P, first, Visited(r, e), f) /\ Records(first, {})
  BY <1>1, <1>2, PathConcat
<1>4. all = first \o rest
  BY DEF exits
<1> HIDE DEF first
<1> QED
  BY <1>3, <1>4, PathConcat

LEMMA CleanAtVisits ==
  ASSUME CleanInv, VisitSymbol, TypeInv'
  PROVE  CleanInv'
<1>0. /\ StacksOK /\ HooksAtBottom /\ WalkOK /\ IInv /\ FlagsOK
      /\ todo # <<>> /\ Records(todo, {}) /\ outcome # "aborted" /\ Expected
  BY DEF CleanInv, WalkOK, VisitSymbol, TypeInv
<1>1. PICK r \in RulesHere : Visit(r)
  BY DEF VisitSymbol
<1>2. CASE Abort
  <2>1. outcome' = "aborted" /\ todo' = <<>> /\ UNCHANGED <<scheme, stacks>>
    BY <1>1, <1>2 DEF Abort, Visit, visitor
  <2>2. Records(<<>>, {})
    BY PathEmpty, ConstantExpectations
  <2> QED
    BY <1>0, <2>1, <2>2 DEF CleanInv, WalkOK, StacksOK, HooksAtBottom, stacks
<1>3. CASE ~Abort
  <2>1. /\ VisitSurvives(r) /\ VisitMethod(r) /\ UNCHANGED <<scheme, outcome>>
        /\ todo' = r.kids \o (IF r.class = "NonTerminal" THEN <<>> ELSE <<Exit(r)>>) \o Tail(todo)
    BY <1>1, <1>3 DEF Visit
  <2>2. PICK P, x, rest : P = Parts /\ x = Head(todo) /\ rest = Tail(todo)
    OBVIOUS
  <2>3. PICK e \in Expectations : Meets(e) /\ Path(P, todo, e, Outside)
    BY <1>0, <2>2 DEF Expected
  <2>4. /\ Records(rest, {})
        /\ \E f \in Expectations : ItemStep(P, x, e, f) /\ Path(P, rest, f, Outside)
    BY <1>0, <2>2, <2>3, PathHead
  <2>5. PICK f \in Expectations : ItemStep(P, x, e, f) /\ Path(P, rest, f, Outside)
    BY <2>4
  <2>6. x.k \in {"symbol", "tree"}
    BY <2>2 DEF VisitSymbol
  <2>7. PICK kind \in Kinds : x \in P[kind] /\ PartStep(kind, e, f)
    BY <2>5, <2>6 DEF ItemStep
  <2>8. Grammatical(P) /\ IsPart(Schemes[scheme], kind, x)
    BY <1>0, <2>2, <2>7, PartsGrammatical DEF WalkOK
  <2>9. IsRule(kind, r, P)
    <3>1. CASE x.k = "symbol"
      <4>1. /\ r \in Schemes[scheme].rules[x.v]
        BY <1>1, <2>2, <3>1 DEF RulesHere
      <4>2. x # Tree(x.v)
        BY <3>1 DEF Tree
      <4> QED
        BY <2>2, <2>8, <3>1, <4>1, <4>2 DEF IsPart, Parts
    <3>2. CASE x.k = "tree"
      <4>1. r = x.v
        BY <1>1, <2>2, <3>2 DEF RulesHere
      <4>2. x # Sym(x.v)
        BY <3>2 DEF Sym
      <4> QED
        BY <2>2, <2>8, <3>2, <4>1, <4>2 DEF IsPart, Parts
    <3> QED
      BY <2>6, <3>1, <3>2
  <2>10. Meets(Visited(r, e))' /\ StacksOK'
    BY <1>0, <2>1, <2>3, <2>7, <2>9, VisitMeets
  <2>11. HooksAtBottom'
    BY <1>0, <2>1, VisitHooks
  <2>12. RuleSteps(P, r, e, f) /\ Records(r.kids, {})
    BY <2>7, <2>8, <2>9, SymbolSteps
  <2>13. r = Rule(r.class, r.op, r.kids)
    BY <2>9 DEF IsRule
  <2>14. Path(P, todo', Visited(r, e), Outside) /\ Records(todo', {})
    BY <2>1, <2>2, <2>4, <2>5, <2>12, <2>13, SymbolPath
  <2>15. Visited(r, e) \in Expectations
    BY <2>14, PathStart
  <2>16. Expected'
    BY <2>1, <2>2, <2>10, <2>14, <2>15 DEF Expected, Parts
  <2> QED
    BY <1>0, <2>1, <2>10, <2>11, <2>14, <2>16 DEF CleanInv, WalkOK
<1> QED
  BY <1>2, <1>3

LEMMA CleanAtExits ==
  ASSUME CleanInv, ExitSymbol, TypeInv'
  PROVE  CleanInv'
<1>0. /\ StacksOK /\ HooksAtBottom /\ WalkOK /\ IInv
      /\ todo # <<>> /\ Records(todo, {}) /\ outcome # "aborted" /\ Expected
  BY DEF CleanInv, WalkOK, ExitSymbol, TypeInv
<1>1. CASE Abort
  <2>1. outcome' = "aborted" /\ todo' = <<>> /\ UNCHANGED <<scheme, stacks>>
    BY <1>1 DEF Abort, ExitSymbol, visitor
  <2>2. Records(<<>>, {})
    BY PathEmpty, ConstantExpectations
  <2> QED
    BY <1>0, <2>1, <2>2 DEF CleanInv, WalkOK, StacksOK, HooksAtBottom, stacks
<1>2. CASE ~Abort
  <2>1. PICK P, x, r, rest : P = Parts /\ x = Head(todo) /\ r = x.v /\ rest = Tail(todo)
    OBVIOUS
  <2>2. /\ ExitSurvives(r) /\ ExitMethod(r) /\ UNCHANGED <<scheme, outcome>>
        /\ todo' = rest /\ x.k = "exit"
    BY <1>2, <2>1 DEF ExitSymbol
  <2>3. PICK e \in Expectations : Meets(e) /\ Path(P, todo, e, Outside)
    BY <1>0, <2>1 DEF Expected
  <2>4. /\ Records(rest, {})
        /\ \E f \in Expectations : ItemStep(P, x, e, f) /\ Path(P, rest, f, Outside)
    BY <1>0, <2>1, <2>3, PathHead
  <2>5. PICK f \in Expectations : ItemStep(P, x, e, f) /\ Path(P, rest, f, Outside)
    BY <2>4
  <2>6. ExitStep(r.class, r.op, e, f)
    BY <2>1, <2>2, <2>5 DEF ItemStep
  <2>7. Meets(f)' /\ StacksOK'
    BY <1>0, <2>2, <2>3, <2>6, ExitMeets
  <2>8. ASSUME r.class = "DirectDeclarator", r.op = "(", function_state = "kFunctionDefinition"
        PROVE  context_stack = <<>>
    <3>1. e = Listing("kFunctionDefinition", Outside) \/ e.fs = "kFunctionDeclaration"
      BY <2>6, <2>8, ListingFields DEF ExitStep
    <3>2. ~e.inside
      BY <2>3, <2>8, <3>1, ListingFields, PlaceFields DEF Meets
    <3> QED
      BY <2>3, <3>2 DEF Meets
  <2>9. HooksAtBottom'
    BY <1>0, <2>2, <2>8, ExitHooks
  <2>10. Expected'
    BY <2>1, <2>2, <2>5, <2>7 DEF Expected, Parts
  <2> QED
    BY <1>0, <2>2, <2>4, <2>7, <2>9, <2>10 DEF CleanInv, WalkOK
<1> QED
  BY <1>1, <1>2

LEMMA CleanAtTerminals ==
  ASSUME CleanInv, VisitTerminal \/ VisitMark, TypeInv'
  PROVE  CleanInv'
<1>0. /\ StacksOK /\ HooksAtBottom /\ WalkOK
      /\ todo # <<>> /\ Records(todo, {}) /\ outcome # "aborted" /\ Expected
  BY DEF CleanInv, WalkOK, VisitTerminal, VisitMark
<1>1. PICK P, x, rest : P = Parts /\ x = Head(todo) /\ rest = Tail(todo)
  OBVIOUS
<1>2. UNCHANGED <<scheme, outcome>> /\ todo' = rest
  BY <1>1 DEF VisitTerminal, VisitMark
<1>3. PICK e \in Expectations : Meets(e) /\ Path(P, todo, e, Outside)
  BY <1>0, <1>1 DEF Expected
<1>4. /\ Records(rest, {})
      /\ \E f \in Expectations : ItemStep(P, x, e, f) /\ Path(P, rest, f, Outside)
  BY <1>0, <1>1, <1>3, PathHead
<1>5. PICK f \in Expectations : ItemStep(P, x, e, f) /\ Path(P, rest, f, Outside)
  BY <1>4
<1>6. Meets(f)' /\ StacksOK' /\ UNCHANGED context_stack
  <2>1. CASE VisitTerminal
    <3>1. PICK n : IF x.k = "constant" THEN VisitConstant ELSE VisitIdentifier(n)
      BY <1>1, <2>1 DEF VisitTerminal
    <3>2. x.k \in {"constant", "variable", "callee", "declared"}
      BY <1>1, <2>1 DEF VisitTerminal
    <3> QED
      BY <1>0, <1>3, <1>5, <3>1, <3>2, TerminalMeets
  <2>2. CASE VisitMark
    <3>1. /\ UNCHANGED <<type_stack, identifier_stack, is_complete_type, function_state,
                         variable_state, is_pointer, context_stack>>
          /\ x.k = "mark"
      BY <1>1, <2>2 DEF VisitMark, visitor, flags, stacks
    <3>2. f = e
      BY <1>5, <3>1 DEF ItemStep
    <3> QED
      BY <1>0, <1>3, <3>1, <3>2, MeetsStill
  <2> QED
    BY <2>1, <2>2
<1>7. HooksAtBottom'
  BY <1>0, <1>6 DEF HooksAtBottom
<1>8. Expected'
  BY <1>1, <1>2, <1>5, <1>6 DEF Expected, Parts
<1> QED
  BY <1>0, <1>2, <1>4, <1>6, <1>7, <1>8 DEF CleanInv, WalkOK

LEMMA CleanStays == CleanInv /\ [Next]_vars => CleanInv'
<1> SUFFICES ASSUME CleanInv, [Next]_vars PROVE CleanInv'
  OBVIOUS
<1>1. TypeInv'
  BY TypesStay DEF CleanInv
<1>2. ASSUME UNCHANGED <<scheme, todo, visitor>>, outcome' = "aborted" <=> outcome = "aborted"
      PROVE  CleanInv'
  <2>1. UNCHANGED <<is_complete_type, function_state, variable_state, is_pointer,
                    type_stack, identifier_stack, context_stack>>
    BY <1>2 DEF visitor, flags, stacks
  <2>2. StacksOK' /\ HooksAtBottom'
    BY <2>1 DEF CleanInv, StacksOK, HooksAtBottom
  <2>3. WalkOK'
    BY <1>2 DEF CleanInv, WalkOK
  <2>4. ASSUME outcome' # "aborted", outcome # "aborted" PROVE Expected'
    <3>1. PICK e \in Expectations : Meets(e) /\ Path(Parts, todo, e, Outside)
      BY <2>4 DEF CleanInv, Expected
    <3>2. Meets(e)'
      BY <2>1, <3>1, MeetsStill DEF CleanInv
    <3> QED
      BY <1>2, <3>1, <3>2 DEF Expected, Parts
  <2> QED
    BY <1>1, <1>2, <2>2, <2>3, <2>4 DEF CleanInv
<1>3. CASE VisitSymbol
  BY <1>1, <1>3, CleanAtVisits
<1>4. CASE ExitSymbol
  BY <1>1, <1>4, CleanAtExits
<1>5. CASE VisitTerminal \/ VisitMark
  BY <1>1, <1>5, CleanAtTerminals
<1>6. CASE Finish
  BY <1>2, <1>6 DEF Finish, walk
<1>7. CASE UNCHANGED vars
  BY <1>2, <1>7 DEF vars, walk
<1> QED
  BY <1>3, <1>4, <1>5, <1>6, <1>7 DEF Next

(* Where an external declaration begins, and behind the last one, a clean  *)
(* visitor is expected.                                                    *)
LEMMA CleanInvClean == CleanInv => StacksClean
<1> SUFFICES ASSUME CleanInv, outcome # "aborted", Between
             PROVE  /\ context_stack = <<>> /\ insert = NoBlock
                    /\ type_stack = <<>> /\ identifier_stack = <<>>
                    /\ is_complete_type /\ ~is_pointer
                    /\ function_state = "kNotFunction" /\ variable_state = "kAccess"
  BY DEF StacksClean
<1>1. PICK e \in Expectations : Meets(e) /\ Path(Parts, todo, e, Outside)
  BY DEF CleanInv, Expected
<1>2. e = Outside
  <2>1. CASE todo = <<>>
    BY <1>1, <2>1, PathEmpty
  <2>2. CASE todo # <<>> /\ Head(todo).k = "symbol" /\ Head(todo).v = "external_declarations"
    <3>1. PICK f \in Expectations : ItemStep(Parts, Head(todo), e, f)
      BY <1>1, <2>2, PathHead DEF CleanInv, WalkOK
    <3>2. PICK kind \in Kinds : Head(todo) \in Parts[kind] /\ PartStep(kind, e, f)
      BY <2>2, <3>1 DEF ItemStep
    <3>3. IsPart(Schemes[scheme], kind, Head(todo))
      BY <3>2, PartsGrammatical DEF CleanInv, WalkOK
    <3>4. Head(todo) # Tree(Head(todo).v)
      BY <2>2 DEF Tree
    <3>5. kind = "external"
      BY <2>2, <3>3, <3>4 DEF IsPart
    <3> QED
      BY <3>2, <3>5 DEF PartStep
  <2> QED
    BY <2>1, <2>2 DEF Between
<1>3. /\ Outside.types = 0 /\ Outside.ids = 0 /\ Outside.complete = TRUE /\ Outside.inside = FALSE
      /\ Outside.fs = "kNotFunction" /\ Outside.ptr = "no" /\ Outside.var = "kAccess"
  BY DEF Outside
<1>4. type_stack = <<>> /\ identifier_stack = <<>>
  <2>1. Within(Len(type_stack), 0) /\ Within(Len(identifier_stack), 0)
    BY <1>1, <1>2, <1>3 DEF Meets
  <2>2. Len(type_stack) <= 0 /\ Len(identifier_stack) <= 0
    BY <2>1 DEF Within, Many
  <2> QED
    BY <2>2, LengthsOK DEF CleanInv
<1>5. /\ context_stack = <<>> /\ is_complete_type
      /\ function_state = "kNotFunction" /\ variable_state = "kAccess"
  BY <1>1, <1>2, <1>3 DEF Meets
<1>6. ~is_pointer
  BY <1>1, <1>2, <1>3 DEF Meets, PointerIs
<1>7. insert = NoBlock
  BY <1>5 DEF CleanInv, TypeInv, IInv, BuilderAtTop
<1> QED
  BY <1>4, <1>5, <1>6, <1>7

(* For every scheme whose trees are those of c.y's grammar: between two    *)
(* external declarations the contexts, types, identifiers and the flags    *)
(* that SyntaxVisitor initializes are as at first, whatever the            *)
(* declarations are.                                                       *)
THEOREM StacksStayClean == Spec => []StacksClean
<1>1. Init => CleanInv
  BY CleanAtFirst
<1>2. CleanInv /\ [Next]_vars => CleanInv'
  BY CleanStays
<1>3. CleanInv => StacksClean
  BY CleanInvClean
<1> QED
  BY <1>1, <1>2, <1>3, PTL DEF Spec
=============================================================================
