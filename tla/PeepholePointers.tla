--------------------------- MODULE PeepholePointers ---------------------------
(***************************************************************************)
(* The "stage 2" rules of the peephole optimizer about X, which holds the  *)
(* pointers: transfers between D and X, LEAX and its offsets, loads        *)
(* through a pointer that become indirect.                                 *)
(***************************************************************************)
EXTENDS PeepholeLoads

LeasX(e) == InsOn(e, "LEA", "X")
IsAtX(e) == IsIns(e) /\ e.m = ",X" /\ e.v = 0
OffsetFromX(e) == e.m \in {",X", "0,X"}                  \* with a constant offset
HasConstant(e) == IsIns(e) /\ e.op \in {"ADD", "SUB"} /\ e.r = "D" /\ IsLiteral(e)
Constant(e) == IF e.op = "ADD" THEN Literal(e) ELSE - Literal(e)

(* Within the block, X is not read from k on before it is written; a call  *)
(* of the program's functions writes it.  Gives up at an element of Other. *)
DeadX(c, k, Other(_)) ==
  LET refuses(e) == ~ IsCommentLike(e) /\ ~ Leaves(e) /\ (Other(e) \/ (IsIns(e) /\ Reads(e, {"X"})))
      ends(e)    == Leaves(e) \/ (IsIns(e) /\ Writes(e, {"X"}))
      last == FirstOf(c, k, ends, refuses)
  IN  last # 0 \/ \A j \in k .. Len(c) : ~ refuses(c[j])

CallsHelper(e) == IsIns(e) /\ ((e.op \in {"BSR", "LBSR"} /\ e.m # "_") \/ e.op = "JSR")

-----------------------------------------------------------------------------
fasterPointerIndexing(c, i) ==
  Edit(c, /\ i + 3 <= Len(c)
          /\ Loads(c[i], "D") /\ c[i + 1] = Tfr("D,X")
          /\ Loads(c[i + 2], "D") /\ LeasX(c[i + 3]) /\ c[i + 3].m = "D,X",
       CommentOut([c EXCEPT ![i].r = "X"], {i + 1}))

fasterPointerPushing(c, i) ==
  Edit(c, /\ i + 3 <= Len(c)
          /\ LeasX(c[i]) /\ c[i].m = ",U" /\ c[i + 1] = Tfr("X,D")
          /\ InsOn(c[i + 2], "ADD", "D") /\ IsLiteral(c[i + 2]) /\ PushesD(c[i + 3]),
       CommentOut([c EXCEPT ![i].v = Signed(@ + Literal(c[i + 2])), ![i + 1] = Ins("PSHS", "", "X", 0)],
                  {i + 2, i + 3}))

optimizeLoadDX(c, i) ==
  Edit(c, /\ i + 1 <= Len(c)
          /\ LeasX(c[i]) /\ c[i].m = "D,X"
          /\ IsOp(c[i + 1], "LD") /\ c[i + 1].r \in {"A", "B", "D"} /\ IsAtX(c[i + 1])
          /\ LET uses == FirstOf(c, i + 2, LAMBDA e : EndsRun(e) \/ Reads(e, {"X"}) \/ Writes(e, {"X"}),
                                 LAMBDA e : FALSE)
             IN  uses = 0 \/ EndsRun(c[uses]) \/ ~ Reads(c[uses], {"X"}),
       CommentOut([c EXCEPT ![i + 1].m = "D,X"], {i}))

optimizeTfrOp(c, i) ==
  Edit(c, /\ i + 2 <= Len(c)
          /\ c[i] = Tfr("X,D")
          /\ IsIns(c[i + 1]) /\ c[i + 1].op \in {"CMP", "ST"} /\ c[i + 1].r = "D",
       CommentOut([c EXCEPT ![i + 1].r = "X"], {i}))

(* Whether D is used later is not looked for: the loop that should do it   *)
(* asks for the effects of the LDD.                                        *)
removeTfrDX(c, i) ==
  LET next == FirstOf(c, i + 2, LAMBDA e : ~ IsCommentLike(e), LAMBDA e : FALSE)
  IN  Edit(c, /\ i + 2 <= Len(c)
              /\ Loads(c[i], "D") /\ ~ ByAccumulator(c[i]) /\ c[i + 1] = Tfr("D,X")
              /\ next # 0 /\ StartsRun(c, next) /\ c[next].op \notin {"BSR", "LBSR"},
           CommentOut([c EXCEPT ![i].r = "X"], {i + 1}))

removeUselessTfr1(c, i) ==
  Edit(c, c[i] = Tfr("D,X") /\ DeadX(c, i + 1, LAMBDA e : ~ IsIns(e) \/ IsCall(e)), CommentOut(c, {i}))

(* The element after the transfer is left out, and the end of the block is *)
(* looked for in the LDX: the search goes on to the end of the code.       *)
removeUselessTfr2(c, i) ==
  LET bad(e)  == ~ IsCommentLike(e) /\ (~ IsIns(e) \/ IsCall(e) \/ Reads(e, {"X"}))
      written == FirstOf(c, i + 3, LAMBDA e : IsIns(e) /\ Writes(e, {"X"}), bad)
  IN  Edit(c, /\ Loads(c[i], "X") /\ At(c, i + 1) = Tfr("X,D")
              /\ written # 0 \/ \A k \in i + 3 .. Len(c) : ~ bad(c[k]),
           CommentOut([c EXCEPT ![i].r = "D"], {i + 1}))

(* TFR X,D and ADDD #n again: D holds X plus another constant.  One        *)
(* element after each ADDD is left out of the search.  The change is not   *)
(* reported.                                                               *)
optimizeDXAliases(c, i) ==
  LET stops(e) == /\ ~ IsCommentLike(e)
                  /\ EndsRun(e) \/ IsCall(e) \/ Writes(e, {"X", "A", "B"}) \/ Reads(e, AB)
      RECURSIVE from(_, _, _)
      from(code, k, offset) ==
        LET tfr == FirstBefore(code, k, LAMBDA e : e = Tfr("X,D"), stops)
            add == At(code, tfr + 1)
        IN  IF tfr = 0 \/ ~ HasConstant(add) THEN code
            ELSE from(CommentOut([code EXCEPT ![tfr + 1] = Ins("ADD", "D", "#$", (Constant(add) - offset) % WORD)],
                                 {tfr}),
                      tfr + 3, Constant(add))
      new == from(c, i + 3, Constant(c[i + 1]))
  IN  Kept(IF i + 3 <= Len(c) /\ c[i] = Tfr("X,D") /\ HasConstant(c[i + 1]) THEN new ELSE c)

-----------------------------------------------------------------------------
(* p += n, stored, and the old p used: LDX p; OP ,X++; STX p.              *)
optimizePostIncrement(c, i) ==
  LET skips(e) == IsCommentLike(e) \/ e.t = "LABEL"
      bad(e) == /\ ~ skips(e)
                /\ EndsRun(e) \/ (e.op = "LD" /\ ~ Immediate(e)) \/ e.op = "ST" \/ Writes(e, {"X"})
      use    == FirstBefore(c, i + 4, IsAtX, bad)
      loaded == InsEffects(c[use]).read \ {"X"}
      loads  == {k \in i + 4 .. use - 1 : IsIns(c[k]) /\ Writes(c[k], loaded)}
      moved  == [c EXCEPT ![i + 1] = IF loads = {} THEN CommentedOut(@) ELSE c[Min(loads)],
                          ![i + 2] = CommentedOut(@),
                          ![i + 3] = Ins(c[use].op, c[use].r, IF c[i + 1].v = 1 THEN ",X+" ELSE ",X++", 0),
                          ![use]   = c[i + 2]]
  IN  Edit(c, /\ i + 5 <= Len(c)
              /\ Loads(c[i], "X") /\ c[i].m = ",U"
              /\ LeasX(c[i + 1]) /\ c[i + 1].m = ",X" /\ c[i + 1].v \in {1, 2}
              /\ InsOn(c[i + 2], "ST", "X") /\ SameArgument(c[i + 2], c[i])
              /\ LeasX(c[i + 3]) /\ c[i + 3].m = ",X" /\ c[i + 3].v = - c[i + 1].v
              /\ use # 0 /\ Cardinality(loads) <= 1,
           CommentOut(moved, loads))

(* removeUselessLeax(), removeUselessLdx(): X already has the value.       *)
RemoveRepeated(c, i, again(_), changes(_)) ==
  LET stops(e) == \/ EndsRun(e)
                  \/ IsIns(e) /\ (changes(e) \/ Reads(e, {"X"}) \/ (~ again(e) /\ Writes(e, {"X"})))
      found == {k \in i + 1 .. Len(c) : again(c[k]) /\ \A j \in i + 1 .. k : ~ stops(c[j])}
  IN  Edit(c, found # {}, CommentOut(c, found))

removeUselessLeax(c, i) ==
  IF LeasX(c[i]) /\ MentionsU(c[i])
    THEN RemoveRepeated(c, i, LAMBDA e : e = c[i], LAMBDA e : FALSE)
    ELSE Kept(c)

(* parseRelativeOffset(): a text that is no number counts as 0. *)
HasRelativeOffset(e) == (e.m \in {",U", ",S", ",X"} /\ e.v # 0) \/ e.m \in {"0,X", ",PCR"} \/ ByAccumulator(e)
RelativeOffset(e) == IF e.m = ",PCR" THEN 0 ELSE e.v

(* A store does not matter if its offset is two bytes or more away. *)
removeUselessLdx(c, i) ==
  LET near(e) ==
        /\ e.op = "ST"
        /\ \/ Indirect(c[i]) \/ ~ HasRelativeOffset(c[i]) \/ ~ HasRelativeOffset(e)
           \/ RelativeOffset(c[i]) - RelativeOffset(e) \in -1 .. 1
  IN  IF IsIns(c[i]) /\ c[i].op \in {"LD", "ST"} /\ c[i].r = "X" /\ MentionsU(c[i])
        THEN RemoveRepeated(c, i, LAMBDA e : Loads(e, "X") /\ SameArgument(e, c[i]), near)
        ELSE Kept(c)

-----------------------------------------------------------------------------
(* LDX or LEAX at i and a load at i + 1 through X, which is not used again *)
(* before it is written: the simulator finds one use of the pointer.       *)
IsUsedOnce(c, i, Refuses(_, _)) ==
  LET once(run) == run.ok /\ Len(run.sim.refs[i]) = 1
  IN  once(Simulation(c, i,
             LAMBDA p, e, k : \/ e.t # "LABEL" /\ EndsRun(e)
                              \/ IsIns(e) /\ k >= i + 2 /\ Writes(e, {"X"}),
             LAMBDA p, e, k : Refuses(e, k),
             LAMBDA p : Len(p.refs[i]) < 2, FALSE))

optimizeIndexedX(c, i) ==
  LET refuses(e, k) ==
        \/ IsIns(e) /\ e.op \in {"BSR", "LBSR"}
        \/ k >= i + 2 /\ IsIns(e) /\ ~ EndsBlock(e) /\ Reads(e, {"X"})
  IN  Edit(c, /\ i + 2 <= Len(c)
              /\ Loads(c[i], "X") /\ c[i].m = ",U"
              /\ IsOp(c[i + 1], "LD") /\ IsAtX(c[i + 1])
              /\ IsUsedOnce(c, i, refuses),
           CommentOut([c EXCEPT ![i + 1] = WithArgument(@, [m |-> "[,U]", v |-> c[i].v])], {i}))

optimizeIndexedX2(c, i) ==
  LET refuses(e, k) ==
        \/ ~ IsIns(e) /\ ~ IsCommentLike(e) /\ e.t # "LABEL"
        \/ IsIns(e) /\ (k < i + 2 \/ ~ Writes(e, {"X"})) /\ e.op \in {"BSR", "LBSR"}
        \/ k >= i + 2 /\ IsIns(e) /\ ~ EndsBlock(e) /\ Reads(e, {"X"}) /\ ~ Writes(e, {"X"})
  IN  Edit(c, /\ i + 2 <= Len(c)
              /\ LeasX(c[i]) /\ MentionsU(c[i])
              /\ IsOp(c[i + 1], "LD") /\ IsAtX(c[i + 1])
              /\ IsUsedOnce(c, i, refuses),
           CommentOut([c EXCEPT ![i + 1] = WithArgument(@, c[i])], {i}))

(* optimizeLdx(), optimizeLeax(): the argument goes to the first element   *)
(* that reads X, and X is not read any more.                               *)
FirstUse(c, i) ==
  FirstBefore(c, i + 1, LAMBDA e : IsIns(e) /\ ~ EndsBlock(e) /\ ~ CallsHelper(e) /\ Reads(e, {"X"}),
              LAMBDA e : EndsRun(e) \/ CallsHelper(e) \/ (IsIns(e) /\ Writes(e, {"X", "U"})))

IsOnlyUse(c, use) ==
  \/ Writes(c[use], {"X"})
  \/ DeadX(c, use + 1, LAMBDA e : e.t # "LABEL" /\ (~ IsIns(e) \/ CallsHelper(e)))

Bracketed(e) ==
  [m |-> CASE e.m = ",PCR" -> "[,PCR]" [] MentionsU(e) -> "[,U]" [] MentionsS(e) -> "[,S]" [] OTHER -> "[,X]",
   v |-> e.v]

optimizeLdx(c, i) ==
  LET use == FirstUse(c, i)
  IN  Edit(c, /\ i + 2 <= Len(c)
              /\ Loads(c[i], "X") /\ c[i].m \in {",U", ",S", ",X", "0,X", ",PCR"}
              /\ use # 0 /\ IsAtX(c[use]) /\ c[use].op # "LEA"
              /\ IsOnlyUse(c, use),
           CommentOut([c EXCEPT ![use] = WithArgument(@, Bracketed(c[i]))], {i}))

optimizeLeax(c, i) ==
  LET use == FirstUse(c, i)
  IN  Edit(c, /\ i + 2 <= Len(c)
              /\ LeasX(c[i]) /\ ~ Indirect(c[i]) /\ ~ ByAccumulator(c[i])
              /\ use # 0 /\ IsAtX(c[use])
              /\ IsOnlyUse(c, use),
           CommentOut([c EXCEPT ![use] = WithArgument(@, c[i])], {i}))

-----------------------------------------------------------------------------
(* Offsets that come one after the other.                                  *)
LeasFromX(e) == LeasX(e) /\ OffsetFromX(e)

coalesceConsecutiveLeax(c, i) ==
  LET sum == c[i].v + c[i + 1].v
  IN  Edit(c, /\ i + 1 <= Len(c)
              /\ LeasX(c[i]) /\ ~ ByAccumulator(c[i]) /\ LeasFromX(c[i + 1]),
           CommentOut(IF OffsetFromX(c[i]) THEN [c EXCEPT ![i] = WithArgument(@, FromX(sum))]
                      ELSE [c EXCEPT ![i].v = IF c[i].m \in {",U", ",S"} THEN sum % WORD ELSE sum],
                      {i + 1}))

(* A negative offset of the load prevents it; B,X does not. *)
IsLoadFrom(e, r, modes) == Loads(e, r) /\ e.m \in modes /\ e.v >= 0
JoinedOffset(c, i) ==
  CommentOut([c EXCEPT ![i + 1] = WithArgument(@, FromX(c[i].v + @.v))], {i})

optimizeLeaxLdx(c, i) ==
  Edit(c, /\ i + 1 <= Len(c)
          /\ LeasFromX(c[i]) /\ IsLoadFrom(c[i + 1], "X", {",X", "0,X", "B,X"}),
       JoinedOffset(c, i))

optimizeLeaxLdd(c, i) ==
  Edit(c, /\ i + 1 <= Len(c)
          /\ LeasFromX(c[i]) /\ IsLoadFrom(c[i + 1], "D", {",X", "0,X", "B,X"})
          /\ DeadX(c, i + 2, LAMBDA e : ~ IsIns(e) \/ CallsHelper(e)),
       JoinedOffset(c, i))
=============================================================================
