---------------------------- MODULE PeepholeStack -----------------------------
(***************************************************************************)
(* The "stage 2" rules of the peephole optimizer that take a value off the *)
(* stack: instead of being pushed and read back, it stays in a register,   *)
(* is loaded where it is used, or is an immediate operand.                 *)
(*                                                                         *)
(* A rule is an operator on the code and the index of an element.  It      *)
(* returns the code that it leaves and whether it reports a change.        *)
(***************************************************************************)
EXTENDS Pseudo6809

Kept(c)    == [fired |-> FALSE, code |-> c]
Changed(c) == [fired |-> TRUE, code |-> c]

(* The code new where the rule applies. *)
Edit(c, applies, new) == IF applies THEN Changed(new) ELSE Kept(c)

PushesD(e) == e = Ins("PSHS", "", "B,A", 0)
PushesB(e) == e = Ins("PSHS", "", "B", 0)
Loads(e, r) == IsIns(e) /\ e.op = "LD" /\ e.r = r
InsOn(e, op, r) == IsIns(e) /\ e.op = op /\ e.r = r
IsOp(e, op) == IsIns(e) /\ e.op = op
PopsByte(e) == IsIns(e) /\ e.m = ",S+"
PopsWord(e) == IsIns(e) /\ e.m = ",S++"
DropsByte(e) == e = Ins("LEA", "S", ",S", 1)

Reads(e, regs) == InsEffects(e).read \intersect regs # {}
Writes(e, regs) == InsEffects(e).written \intersect regs # {}
AB == {"A", "B"}

At(c, k) == IF k <= Len(c) THEN c[k] ELSE Comment

(* Elements where a search within a block gives up. *)
NotInBlock(e) == e.t \notin {"INSTR", "COMMENT"}
Leaves(e) == IsIns(e) /\ EndsBlock(e)

(* PSHS, PULS, LEAS or another access to the stack. *)
MovesStack(e) == IsIns(e) /\ (e.op \in {"PSHS", "PULS"} \/ (e.op = "LEA" /\ e.r = "S") \/ MentionsS(e))

-----------------------------------------------------------------------------
stripExtraClrA_B(c, i) ==
  LET r == c[i].r
      stops(e) == \/ NotInBlock(e)
                  \/ /\ IsIns(e) /\ e # Inherent("CLR", r) /\ e # Ins("AND", r, ",S+", 0)
                     /\ EndsBlock(e) \/ Writes(e, {r})
      reached == {k \in i + 1 .. Len(c) : \A j \in i + 1 .. k : ~ stops(c[j])}
      again   == {k \in reached : c[k] = Inherent("CLR", r)}
      masks   == {k \in reached : c[k] = Ins("AND", r, ",S+", 0)}
      dropped == [k \in DOMAIN c |-> IF k \in masks THEN Ins("LEA", "S", ",S", 1) ELSE c[k]]
  IN  Edit(c, /\ c[i] \in {Inherent("CLR", "A"), Inherent("CLR", "B")}
              /\ again \union masks # {},
           CommentOut(dropped, again))

stripExtraPulsX(c, i) ==
  LET pullsX(e) == e = Ins("PULS", "", "X", 0)
      bad(e) == \/ NotInBlock(e)
                \/ /\ IsIns(e)
                   /\ \/ EndsBlock(e) \/ Writes(e, {"X"})
                      \/ Reads(e, {"X"}) /\ PushesD(c[i])
                      \/ e.op \in {"BSR", "LBSR"} \/ MovesStack(e)
      last == FirstBefore(c, i + 1, pullsX, bad)
  IN  Edit(c, /\ PushesD(c[i]) \/ c[i] = Ins("PSHS", "", "X", 0)
              /\ last # 0,
           IF PushesD(c[i]) THEN CommentOut([c EXCEPT ![i] = Ins("TFR", "", "D,X", 0)], {last})
           ELSE CommentOut(c, {i, last}))

stripExtraPushPullB(c, i) ==
  LET bad(e) == NotInBlock(e) \/ (IsIns(e) /\ (EndsBlock(e) \/ Writes(e, {"B"}) \/ MovesStack(e)))
      last == FirstBefore(c, i + 1, LAMBDA e : e = Ins("LD", "B", ",S+", 0), bad)
  IN  Edit(c, PushesB(c[i]) /\ last # 0, CommentOut(c, {i, last}))

stripPushLeas1(c, i) ==
  LET bad(e) == NotInBlock(e) \/ (IsIns(e) /\ (EndsBlock(e) \/ e.op \in {"BSR", "LBSR"} \/ MovesStack(e)))
      last == FirstBefore(c, i + 1, DropsByte, bad)
  IN  Edit(c, PushesD(c[i]) /\ last # 0,
           CommentOut([c EXCEPT ![i] = Ins("PSHS", "", "B", 0)], {last}))

(* The loop of orAndA_B(): known is the set of the registers that hold 0,  *)
(* pushed the bytes on the stack, the top last, each with whether it is 0. *)
(* The push of two bytes is edited in a copy; the code is then changed but *)
(* the change is not reported.                                             *)
orAndA_B(c, i) ==
  LET byte(r, known, k) == [zero |-> r \in known, at |-> k]
      masks(e, r, known, pushed) ==
        /\ e.op \in {"AND", "OR"} /\ e.r = r /\ e.m = ",S+"
        /\ r \in known /\ pushed # <<>> /\ Last(pushed).zero
      unmasked(k, push) ==
        IF PushesD(c[push]) THEN Kept([c EXCEPT ![k] = Ins("LEA", "S", ",S", 1)])
        ELSE Changed(CommentOut(c, {push, k}))
      after(e, known) ==
        (known \ InsEffects(e).written) \union (IF e \in {Inherent("CLR", "A"), Inherent("CLR", "B")} THEN {e.r} ELSE {})
      RECURSIVE from(_, _, _)
      from(k, known, pushed) ==
        LET e == c[k]
        IN  CASE k > Len(c) -> Kept(c)
              [] e.t = "COMMENT" -> from(k + 1, known, pushed)
              [] ~ IsIns(e) -> Kept(c)
              [] DropsByte(e) -> IF pushed = <<>> THEN Kept(c) ELSE from(k + 1, known, Front(pushed))
              [] masks(e, "A", known, pushed) \/ masks(e, "B", known, pushed) ->
                   unmasked(k, Last(pushed).at)
              [] e.op = "PSHS" /\ e.m \in {"B,A", "B", "A"} ->
                   from(k + 1, known,
                        pushed \o (IF e.m = "A" THEN <<>> ELSE <<byte("B", known, k)>>)
                               \o (IF e.m = "B" THEN <<>> ELSE <<byte("A", known, k)>>))
              [] EndsBlock(e) \/ MovesStack(e) -> Kept(c)
              [] OTHER -> from(k + 1, after(e, known), pushed)
  IN  IF c[i] \in {Inherent("CLR", "A"), Inherent("CLR", "B")} THEN from(i + 1, {c[i].r}, <<>>) ELSE Kept(c)

-----------------------------------------------------------------------------
(* optimizeStackOperations1(): a constant reaches the stack and is popped  *)
(* by one or two operations.                                               *)

PushesOf(c, sim, k) == SelectSeq(sim.refs[k], LAMBDA j : c[j].op = "PSHS")
PopsOf(c, sim, k)   == SelectSeq(sim.refs[k], LAMBDA j : PopsByte(c[j]) \/ PopsWord(c[j]))

IsPushedOnce(c, sim, k) ==
  /\ Len(sim.refs[k]) >= 2 /\ sim.consts[k] = 1
  /\ Len(PushesOf(c, sim, k)) = 1
  /\ NumBytes(c[PushesOf(c, sim, k)[1]]) \in {1, 2}

(* What the instruction at k loads is popped by the operations at pops,    *)
(* its last uses, after one push: the bytes are the same and are known.    *)
PopsConstant(c, sim, k) ==
  LET pops   == PopsOf(c, sim, k)
      push   == PushesOf(c, sim, k)[1]
      pushed == NumBytes(c[push])
      popped == FoldLeft(LAMBDA n, j : n + IF PopsByte(c[j]) THEN 1 ELSE 2, 0, pops)
      before == sim.stacks[push + 1]
      same(n, there, m) == /\ Len(before) >= n /\ Len(there) >= m
                           /\ before[n] = there[m] /\ Known(before[n])
  IN  /\ IsPushedOnce(c, sim, k)
      /\ Len(pops) \in {1, 2}
      /\ IsSuffix(pops, sim.refs[k])
      /\ popped <= pushed
      /\ PushesD(c[push]) \/ pushed = popped
      /\ popped < pushed => (c[pops[1] - 1].m = ",S+") # (c[pops[1] + 1].m = ",S+")
      /\ same(1, sim.stacks[pops[1]], 1)
      /\ popped = 2 /\ Len(pops) = 1 => same(2, sim.stacks[pops[1]], 2)
      /\ Len(pops) = 2 => same(2, sim.stacks[pops[2]], 1)

(* The operations get their operands as immediate ones, the push is left   *)
(* out or pushes the other byte alone, and the load is left out if it has  *)
(* no other use.                                                           *)
WithoutConstantPush(c, sim, k) ==
  LET pops   == PopsOf(c, sim, k)
      push   == PushesOf(c, sim, k)[1]
      before == sim.stacks[push + 1]
      words  == {j \in DOMAIN pops : PopsWord(c[pops[j]])}
      popped == Len(pops) + Cardinality(words)
      value(j) == IF j \in words THEN before[1].v * BYTE + before[2].v ELSE before[j].v
      operands == [q \in DOMAIN c |->
                     IF \E j \in DOMAIN pops : pops[j] = q
                       THEN [c[q] EXCEPT !.m = "#", !.v = value(CHOOSE j \in DOMAIN pops : pops[j] = q)]
                       ELSE c[q]]
      other    == IF c[pops[1] - 1].m = ",S+" THEN "A" ELSE "B"
      unused   == Len(sim.refs[k]) = 1 + Len(pops) /\ (c[k].r = "D" \/ popped # 2)
      kept     == IF popped = NumBytes(c[push]) THEN CommentOut(operands, {push})
                  ELSE [operands EXCEPT ![push].m = other]
  IN  IF unused THEN CommentOut(kept, {k}) ELSE kept

PopsConstants(c, i, run) ==
  LET sim == run.sim
      peeked(k) == /\ IsPushedOnce(c, sim, k)
                   /\ \E j \in DOMAIN sim.refs[k] : c[sim.refs[k][j]].m = ",S"
      found == {k \in i .. run.at - 1 : PopsConstant(c, sim, k)}
  IN  Edit(c, /\ IsIns(c[i]) /\ ~ EndsBlock(c[i])
              /\ run.ok /\ found # {}
              /\ \A k \in i .. Min(found) : ~ peeked(k),
           WithoutConstantPush(c, sim, Min(found)))

optimizeStackOperations1(c, i) ==
  PopsConstants(c, i,
    Simulation(c, i, LAMBDA p, e, k : e.t = "LABEL" \/ Leaves(e), LAMBDA p, e, k : FALSE,
               LAMBDA p : p.pushed \/ AnyKnown(p), FALSE))

-----------------------------------------------------------------------------
(* PSHS B or D, a constant load, and after comments an operation that pops:*)
(* the operation takes the constant.                                       *)
ConstantOperand(c, i, Pushes(_), r, ops, Pops(_)) ==
  LET op == FirstBefore(c, i + 2, LAMBDA e : ~ IsCommentLike(e), LAMBDA e : FALSE)
  IN  Edit(c, /\ i + 3 <= Len(c)
              /\ Pushes(c[i])
              /\ Loads(c[i + 1], r) /\ Immediate(c[i + 1])
              /\ op # 0
              /\ c[op].op \in ops /\ c[op].r = r /\ Pops(c[op]),
           CommentOut([c EXCEPT ![op] = WithArgument(@, c[i + 1])], {i, i + 1}))

optimizeStackOperations2(c, i) == ConstantOperand(c, i, PushesB, "B", {"ADD", "OR", "AND"}, PopsByte)
optimizeStackOperations3(c, i) == ConstantOperand(c, i, PushesD, "D", {"ADD"}, PopsWord)

(* The place of the ,S++ that pops the word pushed before i, where D is    *)
(* written before it is read and nothing else uses the stack; 0 if none.   *)
WordPop(c, i, preserved) ==
  LET refuses(e) ==
        /\ ~ IsCommentLike(e)
        /\ \/ ~ IsIns(e) \/ EndsBlock(e) \/ IsCall(e) \/ e.op \in {"PSHS", "PULS"}
           \/ e.m \in {",S+", "[,S]"} \/ (e.m = ",S" /\ e.v = 0)
           \/ Writes(e, preserved)
      pop == FirstOf(c, i, PopsWord, refuses)
      writtenBefore(k) == UNION {InsEffects(c[j]).written : j \in i .. k - 1}
  IN  IF pop # 0 /\ \A k \in i .. pop : InsEffects(c[k]).read \intersect (AB \ writtenBefore(k)) = {}
        THEN pop ELSE 0

optimizeStackOperations4(c, i) ==
  LET pop == WordPop(c, i + 2, InsEffects(c[i]).read)
  IN  Edit(c, /\ i + 1 <= Len(c) /\ Loads(c[i], "D")
              /\ ~ Increments(c[i]) /\ c[i].m # "D,X" /\ ~ (MentionsS(c[i]) /\ c[i].v = 0)
              /\ PushesD(c[i + 1])
              /\ pop # 0,
           CommentOut([c EXCEPT ![pop] = WithArgument(@, c[i])], {i, i + 1}))

(* D is given a known value by CLR, LDA or LDB in one or two elements.     *)
optimizeStackOperations5(c, i) ==
  LET loads(e) == e.op \in {"CLR", "LD"} /\ e.r \in AB
      sim == Simulated(c, i, i + 1)
      pop == WordPop(c, i + 3, {})
  IN  Edit(c, /\ i + 3 <= Len(c)
              /\ \A k \in {i, i + 1} : IsCommentLike(c[k]) \/ (IsIns(c[k]) /\ loads(c[k]))
              /\ sim.ok /\ KnownD(sim)
              /\ PushesD(c[i + 2])
              /\ pop # 0,
           CommentOut([c EXCEPT ![pop].m = "#$", ![pop].v = ValueOf(sim, "D").v], i .. i + 2))
=============================================================================
