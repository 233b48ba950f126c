---------------------------- MODULE PeepholeWords -----------------------------
(***************************************************************************)
(* The "stage 2" rules of the peephole optimizer that bring the operand of *)
(* a push to its pop, or several pushes together.                          *)
(***************************************************************************)
EXTENDS PeepholeStack

PushesX(e) == e = Ins("PSHS", "", "X", 0)
Store(e) == IsOp(e, "ST")
IsLoadVar(e) == IsOp(e, "LD") /\ e.m = ",U"

(* A register of regs is read from k on, before all of them are written or *)
(* the block ends.                                                         *)
ReadLater(c, k, regs) ==
  FirstBefore(c, k,
    LAMBDA e : IsIns(e) /\ ~ EndsBlock(e) /\ Reads(e, regs),
    LAMBDA e : /\ ~ IsCommentLike(e)
               /\ ~ IsIns(e) \/ EndsBlock(e) \/ regs \subseteq InsEffects(e).written) # 0

-----------------------------------------------------------------------------
(* The simulation of optimize16BitStackOps1() and optimize8BitStackOps():  *)
(* a variable is loaded at i, pushed and popped, and not used otherwise.   *)
LoadedToPop(c, i) ==
  Simulation(c, i,
    LAMBDA p, e, k : ~ IsCommentLike(e) /\ (~ IsIns(e) \/ EndsBlock(e)),
    LAMBDA p, e, k : \/ e.t = "LABEL"
                     \/ Store(e) /\ Len(p.refs[i]) < 2
                     \/ IsIns(e) /\ e.op \in {"BSR", "LBSR"},
    LAMBDA p : Len(p.refs[i]) < 3, FALSE)

PopsWordOf(c, i, run) ==
  LET refs == run.sim.refs[i]
      push == refs[1]
      pop  == refs[2]
  IN  Edit(c, /\ IsLoadVar(c[i]) /\ run.ok /\ Len(refs) = 2
              /\ c[push].op = "PSHS" /\ <<c[push].m, c[i].r>> \in {<<"X", "X">>, <<"B,A", "D">>}
              /\ c[pop].m = ",S++"
              /\ c[i].r = "D" => \A k \in i + 1 .. push - 1 : ~ Writes(c[k], AB),
           CommentOut([c EXCEPT ![pop] = WithArgument(@, c[i])], {i, push}))

optimize16BitStackOps1(c, i) == PopsWordOf(c, i, LoadedToPop(c, i))

PopsByteOf(c, i, run) ==
  LET refs == run.sim.refs[i]
      push == refs[1]
      pop  == refs[2]
      both == c[push].m = "B,A"
      low  == c[i].r = "D" /\ c[push].m # "A"            \* the low byte of the variable
      operand == [m |-> ",U", v |-> IF low THEN c[i].v + 1 ELSE c[i].v]
  IN  Edit(c, /\ IsLoadVar(c[i]) /\ run.ok /\ Len(refs) = 2
              /\ c[push].op = "PSHS" /\ c[push].m \in {"A", "B", "B,A"}
              /\ c[pop].m = ",S+"
              /\ both => DropsByte(c[pop - 1])
              /\ low => c[i].v < 0,
           CommentOut([c EXCEPT ![pop] = WithArgument(@, operand)],
                      {i, push} \union (IF both THEN {pop - 1} ELSE {})))

optimize8BitStackOps(c, i) == PopsByteOf(c, i, LoadedToPop(c, i))

(* The second load of D is the first one after the push; a comment or a    *)
(* label may come before it, and a branch.                                 *)
optimize16BitStackOps2(c, i) ==
  LET refuses(e) == /\ ~ IsCommentLike(e) /\ e.t # "LABEL"
                    /\ ~ IsIns(e) \/ Writes(e, AB) \/ Reads(e, AB) \/ Store(e) \/ MentionsS(e)
      load == FirstBefore(c, i + 2, LAMBDA e : Loads(e, "D"), refuses)
      op   == load + 1
  IN  Edit(c, /\ i + 4 <= Len(c)
              /\ Loads(c[i], "D") /\ ~ MentionsS(c[i]) /\ ~ MentionsX(c[i]) /\ c[i].m \notin {",PCR", "[,PCR]"}
              /\ PushesD(c[i + 1])
              /\ load # 0 /\ op <= Len(c)
              /\ c[load].m # "D,X" /\ ~ MentionsS(c[load])
              /\ PopsWord(c[op]) /\ c[op].op \in {"ADD", "SUB", "CMP"} /\ c[op].r = "D",
           CommentOut([c EXCEPT ![op] = WithArgument(@, c[i])], {i, i + 1}))

(* Labels are passed over as comments are. *)
remove16BitStackOperation(c, i) ==
  LET pops(e) == e = Ins("LD", "D", ",S++", 0)
      bad(e)  == /\ ~ IsCommentLike(e) /\ e.t # "LABEL"
                 /\ ~ IsIns(e) \/ EndsBlock(e) \/ Writes(e, AB)
      push == FirstOf(c, i + 1, PushesD, bad)
      pop  == FirstBefore(c, push + 1, pops, bad)
  IN  Edit(c, Loads(c[i], "D") /\ push # 0 /\ pop # 0, CommentOut(c, {push, pop}))

(* Whatever the operation on B and the popped byte is, it goes. *)
removePushB(c, i) ==
  LET bad(e) == ~ IsIns(e) \/ EndsBlock(e) \/ e.op = "PSHS" \/ MentionsS(e)
      op == FirstBefore(c, i + 1, LAMBDA e : IsIns(e) /\ ~ EndsBlock(e) /\ Writes(e, {"B"}), bad)
  IN  Edit(c, PushesB(c[i]) /\ op # 0 /\ c[op].m = ",S+", CommentOut(c, {i, op}))

removeConsecutivePshsPul(c, i) ==
  LET next == FirstOf(c, i + 1, LAMBDA e : e.t # "COMMENT", LAMBDA e : FALSE)
  IN  Edit(c, PushesD(c[i]) /\ next # 0 /\ c[next] = Ins("LD", "D", ",S++", 0),
           CommentOut(c, {i, next}))

(* The element just after the push is left out of the search for a use.    *)
optimizeTfrPush(c, i) ==
  Edit(c, /\ i + 1 <= Len(c)
          /\ c[i] = Ins("TFR", "", "X,D", 0)
          /\ PushesD(c[i + 1])
          /\ ~ ReadLater(c, i + 3, AB),
       CommentOut([c EXCEPT ![i] = Ins("PSHS", "", "X", 0)], {i + 1}))

transformPshsDPshsD(c, i) ==
  LET refuses(e) == NotInBlock(e) \/ (IsIns(e) /\ Reads(e, {"X"}))
      rewritten  == FirstOf(c, i + 4, LAMBDA e : Writes(e, {"X"}), refuses)
  IN  Edit(c, /\ i + 4 <= Len(c)
              /\ Loads(c[i], "D") /\ PushesD(c[i + 1])
              /\ Loads(c[i + 2], "D") /\ ~ ByAccumulator(c[i + 2])
              /\ PushesD(c[i + 3])
              /\ rewritten # 0 \/ \A k \in i + 4 .. Len(c) : ~ refuses(c[k]),
           [c EXCEPT ![i].r = "X", ![i + 1].m = "X"])

-----------------------------------------------------------------------------
(* Pushes that come together.  Y, X and D are each loaded and pushed, in   *)
(* this order, or not at all; the last push is for all of them.            *)

IsLoadOf(e, r) == IsIns(e) /\ e.op \in {"LD", "LEA"} /\ e.r = r
IsLoadOfD(e) ==
  /\ IsIns(e) /\ ~ MentionsS(e)
  /\ (e.op = "CLR" /\ e.r \in AB) \/ (e.op = "LD" /\ e.r \in {"A", "B", "D"})

(* The place after a load of register r at k and its push, if they are     *)
(* there, and the place of the push, 0 if it is not.                       *)
AfterPush(c, k, IsLoad(_), m) ==
  CASE ~ IsLoad(At(c, k)) -> [next |-> k, push |-> 0]
    [] At(c, k + 1) = Ins("PSHS", "", m, 0) -> [next |-> k + 2, push |-> k + 1]
    [] OTHER -> [next |-> k + 1, push |-> 0]

optimizePshsOps(c, i) ==
  LET y == AfterPush(c, i, LAMBDA e : IsLoadOf(e, "Y"), "Y")
      x == AfterPush(c, y.next, LAMBDA e : IsLoadOf(e, "X") /\ ~ MentionsS(e), "X")
      second == IsLoadOfD(At(c, x.next)) /\ IsLoadOfD(At(c, x.next + 1))
      d == AfterPush(c, IF second THEN x.next + 1 ELSE x.next, IsLoadOfD, "B,A")
      pushes == {y.push, x.push, d.push} \ {0}
      last == Max(pushes)
      all  == CASE y.push = 0 -> "X,B,A" [] d.push = 0 -> "Y,X" [] OTHER -> "Y,X,B,A"
  IN  Edit(c, /\ IsIns(c[i])
              /\ y.push # 0 => x.push # 0
              /\ Cardinality(pushes) >= 2
              /\ d.push = 0 /\ IsLoadOfD(At(c, x.next)) =>
                   At(c, x.next + 1).op = "PSHS" \/ ~ IsIns(At(c, x.next + 1)) \/ second,
           CommentOut([c EXCEPT ![last].m = all], pushes \ {last}))

(* A third PSHS X further on prevents it, at one place.  The code then has *)
(* Y in the place of X for optimizePshsOps(), which follows in the chain.  *)
transformPshsXPshsX(c, i) ==
  Edit(c, /\ i + 6 <= Len(c)
          /\ IsLoadOf(c[i], "X") /\ PushesX(c[i + 1])
          /\ IsLoadOf(c[i + 2], "X") /\ ~ MentionsX(c[i + 2])
          /\ PushesX(c[i + 3])
          /\ ~ PushesX(c[i + 5]),
       [c EXCEPT ![i].r = "Y", ![i + 1].m = "Y"])

(* n < m becomes m > n. *)
optimize16BitCompares(c, i) ==
  Edit(c, /\ i + 4 <= Len(c)
          /\ PushesD(c[i])
          /\ Loads(c[i + 1], "D") /\ c[i + 1].m = ",U"
          /\ c[i + 2] = Ins("CMP", "D", ",S++", 0)
          /\ IsIns(c[i + 3]) /\ c[i + 3].op \in DOMAIN Inverted,
       CommentOut([c EXCEPT ![i + 2] = WithArgument(@, c[i + 1]), ![i + 3].op = Inverted[@]], {i, i + 1}))
=============================================================================
