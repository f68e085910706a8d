--------------------------------- MODULE IR ---------------------------------
(***************************************************************************)
(* What the visitor builds with LLVM: basic blocks, each a sequence of     *)
(* instructions and the function it is in (0 while it is in none), and     *)
(* what verifyFunction() finds wrong with a function.  Values are terms;   *)
(* loads, casts and arithmetic are kept for the blocks they are in.        *)
(***************************************************************************)
EXTENDS Integers, Sequences, SequencesExt

NoBlock == 0

Block(parent) == [parent |-> parent, code |-> <<>>]

(* An instruction: its term, the blocks whose values it uses, whether its  *)
(* operands have types LLVM allows, and the blocks a branch goes to.       *)
Instruction(op, term, uses, legal) ==
  [op |-> op, term |-> term, uses |-> uses \ {NoBlock}, legal |-> legal, to |-> <<>>]

Br(b) == [Instruction("br", <<>>, {}, TRUE) EXCEPT !.to = <<b>>]

CondBr(term, uses, isBool, then, else) ==
  [Instruction("br", term, uses, isBool) EXCEPT !.to = <<then, else>>]

IsTerminator(i) == i.op \in {"br", "ret"}

(* BasicBlock::getTerminator(), but for the null pointer.                  *)
Terminated(block) == block.code # <<>> /\ IsTerminator(Last(block.code))

Successors(block) ==
  IF Terminated(block) THEN Last(block.code).to ELSE <<>>

(* The sequences of blocks that control can take from a block to an end.   *)
Routes(blocks, entry) ==
  LET Longer(r) ==
        LET next == Successors(blocks[Last(r)])
        IN  IF next = <<>> THEN {r} ELSE {Append(r, b) : b \in ToSet(next)}
      After[n \in Nat] ==
        IF n = 0 THEN {<<entry>>} ELSE UNION {Longer(r) : r \in After[n - 1]}
  IN  After[Len(blocks)]

(* What a run along a route does that matters: stores, calls, the outcome  *)
(* of conditions and the value returned.                                   *)
Effects(code, next) ==
  LET effects == SelectSeq(code, LAMBDA i : i.op \in {"store", "call", "ret"} \/ Len(i.to) = 2)
  IN  [k \in DOMAIN effects |->
         IF effects[k].op = "br"
         THEN <<"cond", effects[k].term, next = effects[k].to[1]>>
         ELSE <<effects[k].op, effects[k].term>>]

EffectsAlong(blocks, r) ==
  FlattenSeq([k \in DOMAIN r |->
    Effects(blocks[r[k]].code, IF k = Len(r) THEN NoBlock ELSE r[k + 1])])

Behaviours(blocks, entry) ==
  {EffectsAlong(blocks, r) : r \in Routes(blocks, entry)}

(* BasicBlock::insertInto(): push_back() on the function's linked list.  A *)
(* block that is in the list already becomes its end where it stands: what *)
(* was behind it is in the list no more, and still has its parent.         *)
PushBack(body, b) ==
  IF b \in ToSet(body) THEN SubSeq(body, 1, CHOOSE i \in DOMAIN body : body[i] = b)
  ELSE Append(body, b)

(* verifyFunction() is satisfied with function f, whose list of blocks is  *)
(* body, the entry first: every block of the list ends with its one        *)
(* terminator, branches go to blocks of the function, types are right, and *)
(* values are used only where every route has computed them.               *)
Verified(blocks, f, body) ==
  LET routes == Routes(blocks, Head(body))
      Dominates(a, b) ==
        \A r \in routes : \A k \in DOMAIN r : r[k] = b => \E j \in 1 .. k : r[j] = a
  IN  \A b \in ToSet(body) :
        LET code == blocks[b].code
        IN  /\ Terminated(blocks[b])
            /\ \A k \in 1 .. Len(code) - 1 : ~IsTerminator(code[k])
            /\ \A k \in DOMAIN code :
                 /\ code[k].legal
                 /\ \A a \in ToSet(code[k].to) : blocks[a].parent = f
                 /\ \A a \in code[k].uses : Dominates(a, b)
=============================================================================
