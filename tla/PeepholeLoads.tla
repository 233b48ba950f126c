---------------------------- MODULE PeepholeLoads -----------------------------
(***************************************************************************)
(* The "stage 2" rules of the peephole optimizer that leave out a load, a  *)
(* clear or an operation because of what the registers hold, or because    *)
(* nobody uses the result.                                                 *)
(***************************************************************************)
EXTENDS PeepholeStack

Clears(e, r) == e = Inherent("CLR", r)

(* An element where the simulation of a block ends. *)
EndsRun(e) == ~ IsCommentLike(e) /\ (~ IsIns(e) \/ EndsBlock(e))

StartsRun(c, i) == IsIns(c[i]) /\ ~ EndsBlock(c[i])

-----------------------------------------------------------------------------
andA_B0(c, i) ==
  Edit(c, IsOp(c[i], "AND") /\ c[i].r \in AB /\ c[i].m = "#$" /\ c[i].v = 0,
       [c EXCEPT ![i] = Inherent("CLR", @.r)])

(* The constants of one byte that are loaded while A holds 0. *)
changeLoadDToLoadB(c, i) ==
  LET short(e) == Loads(e, "D") /\ e.m = "#$" /\ e.v < BYTE
      stops(e) == ~ IsIns(e) \/ (~ short(e) /\ (EndsBlock(e) \/ Writes(e, {"A"})))
      loads == {k \in i + 1 .. Len(c) : short(c[k]) /\ \A j \in i + 1 .. k : ~ stops(c[j])}
  IN  Edit(c, Clears(c[i], "A") /\ loads # {},
           [k \in DOMAIN c |-> IF k \in loads THEN [c[k] EXCEPT !.r = "B"] ELSE c[k]])

changeAddDToAddB(c, i) ==
  Edit(c, /\ i + 1 <= Len(c)
          /\ InsOn(c[i], "ADD", "D") /\ c[i].m = "#$"
          /\ Clears(c[i + 1], "A"),
       [c EXCEPT ![i] = Ins("ADD", "B", "#$", @.v % BYTE)])

loadDToClrALoadB(c, i) ==
  Edit(c, Loads(c[i], "D") /\ c[i].m = "#$" /\ c[i].v < BYTE,
       Insert([c EXCEPT ![i].r = "B"], i, Inherent("CLR", "A")))

(* The simulator fails on the instruction that it has just left out, hence *)
(* one at a time.                                                          *)
Redundant(p, e) == \E r \in AB : Clears(e, r) /\ IsZero(p, r)

ClearsAgain(c, i, run) ==
  Edit(c, StartsRun(c, i) /\ ~ run.ok /\ run.sim.ok /\ Redundant(run.sim, c[run.at]),
       CommentOut(c, {run.at}))

removeClr(c, i) ==
  ClearsAgain(c, i,
    Simulation(c, i, LAMBDA p, e, k : EndsRun(e), LAMBDA p, e, k : Redundant(p, e), AnyKnown, FALSE))

-----------------------------------------------------------------------------
(* removeAndOrMulAddSub(): e becomes Simplified(p, e, next) where the      *)
(* simulator p knows the registers; next is the element after e.           *)

SimplifiedMask(p, e) ==
  LET nothing == IF e.op = "AND" THEN 0 ELSE BYTE - 1         \* what leaves the operation no choice
      neutral == BYTE - 1 - nothing
      is(w) == IsLiteral(e) /\ Literal(e) = w
  IN  CASE ~ Increments(e) /\ p.reg[e.r].v = nothing -> CommentedOut(e)
        [] is(nothing) -> IF e.op = "AND" THEN Inherent("CLR", e.r) ELSE Ins("LD", e.r, "#$", nothing)
        [] is(neutral) -> CommentedOut(e)
        [] OTHER -> e

SimplifiedAdd(p, e, next) ==
  CASE ~ (IsLiteral(e) /\ Literal(e) = 0 /\ IsIns(next)) -> e
    [] ~ EndsBlock(next) -> IF "CC" \in InsEffects(next).read THEN e ELSE CommentedOut(e)
    [] e.r = "B" \/ (e.r = "D" /\ IsZero(p, "A")) -> Inherent("TST", "B")
    [] e.r = "A" \/ (e.r = "D" /\ IsZero(p, "B")) -> Inherent("TST", "A")
    [] OTHER -> e

SimplifiedLea(p, e) ==
  CASE e.m = "D,X" /\ KnownD(p) /\ ValueOf(p, "D").v = 0 -> CommentedOut(e)
    [] e.m = "D,X" /\ IsZero(p, "A") -> Inherent("ABX", "")
    [] e.m \in {",X", "0,X"} /\ Known(p.reg["X"]) ->
         WithArgument([e EXCEPT !.op = "LD"], HexLiteral((p.reg["X"].v + e.v) % WORD))
    [] OTHER -> e

(* A load from the last 256 bytes, the ports, stays as it is. *)
SimplifiedAccess(p, e) ==
  LET x == p.reg["X"]
  IN  IF e.m = ",X" /\ e.v = 0 /\ Known(x) /\ (e.op = "ST" \/ x.v < WORD - BYTE)
        THEN [e EXCEPT !.m = "abs", !.v = x.v] ELSE e

Simplified(p, e, next) ==
  CASE e.op \in {"AND", "OR"} /\ e.r \in AB -> SimplifiedMask(p, e)
    [] e.op = "MUL" /\ (IsZero(p, "A") \/ IsZero(p, "B")) -> CommentedOut(e)
    [] e.op = "ADD" /\ e.r \in {"A", "B", "D"} -> SimplifiedAdd(p, e, next)
    [] e.op = "LEA" /\ e.r = "X" -> SimplifiedLea(p, e)
    [] e.op = "LD" /\ e.r = "D" /\ IsLiteral(e) ->
         IF Literal(e) < BYTE /\ IsZero(p, "A") THEN [e EXCEPT !.r = "B"] ELSE e
    [] e.op = "SEX" /\ Known(p.reg["A"]) /\ IsZero(p, "B") -> CommentedOut(e)
    [] e.op \in {"ST", "LD"} /\ e.r \in {"B", "D"} -> SimplifiedAccess(p, e)
    [] OTHER -> e

removeAndOrMulAddSub(c, i) ==
  LET RECURSIVE from(_, _, _), onward(_, _, _)
      from(code, p, k) ==
        CASE EndsRun(code[k]) -> code
          [] IsIns(code[k]) ->
               LET new == Simplified(p, code[k], At(code, k + 1))
               IN  onward([code EXCEPT ![k] = new], Process(p, new, k, FALSE), k)
          [] OTHER -> onward(code, p, k)
      onward(code, q, k) ==
        IF ~ q.ok \/ k = Len(code) \/ ~ AnyKnown(q) THEN code ELSE from(code, q, k + 1)
      edited(new) == Edit(c, new # c, new)
  IN  IF StartsRun(c, i) THEN edited(from(c, Started(c), i)) ELSE Kept(c)

-----------------------------------------------------------------------------
IsCompareWithZero(e) == IsOp(e, "CMP") /\ e.r \in AB /\ e.m \in {"#", "#$"} /\ e.v = 0

(* The chain of rules ends at such a comparison, replaced or not. *)
compareWithZero(c, i) ==
  Edit(c, IsCompareWithZero(c[i]) /\ At(c, i + 1).op \in {"BEQ", "BNE"},
       [c EXCEPT ![i] = Inherent("TST", @.r)])

(* What the instruction at i computes is not used by the run that follows. *)
NotUsed(run, i, n) == run.ok /\ run.sim.refs[i] = <<>> /\ run.n > n

UntilUsed(c, i) ==
  Simulation(c, i,
    LAMBDA p, e, k : /\ e.t # "LABEL" /\ ~ IsCommentLike(e)
                     /\ ~ IsIns(e) \/ EndsBlock(e) \/ "CC" \in InsEffects(e).read,
    LAMBDA p, e, k : e.m \in {",PCR", "[,PCR]", "U,PC"} \/ (e.op = "LEA" /\ e.r = "S"),
    LAMBDA p : p.refs[i] = <<>>, FALSE)

ComputesOnly(e) ==
  IsIns(e) /\ ~ Increments(e) /\ e.op \in {"ADD", "SUB", "LD"} /\ e.r \in {"A", "B", "D"}

removeUselessOps(c, i) ==
  Edit(c, ComputesOnly(c[i]) /\ NotUsed(UntilUsed(c, i), i, 2), CommentOut(c, {i}))

removeUnusedLoad(c, i) ==
  LET few == IF c[i].op = "LEA" THEN 0 ELSE IF c[i].r = "X" THEN 1 ELSE 2
  IN  Edit(c, /\ i + 2 <= Len(c)
              /\ InsOn(c[i], "LEA", "X") \/ (IsOp(c[i], "LD") /\ Immediate(c[i]))
              /\ NotUsed(Simulation(c, i,
                           LAMBDA p, e, k : e.t # "LABEL" /\ EndsRun(e),
                           LAMBDA p, e, k : \/ IsIns(e) /\ e.op \in {"BSR", "LBSR"}
                                            \/ IsIns(e) /\ EndsBlock(e) /\ k <= i + 2,
                           LAMBDA p : p.refs[i] = <<>>, TRUE), i, few),
           CommentOut(c, {i}))

optimizeAndbTstb(c, i) ==
  Edit(c, InsOn(c[i], "AND", "B") /\ At(c, i + 1) = Inherent("TST", "B"), CommentOut(c, {i + 1}))

-----------------------------------------------------------------------------
(* removeUselessLdb(), removeUselessLdd(): what a register already holds,  *)
(* after a load or a store of a variable, is loaded again.                 *)
RemoveReloads(c, i, r) ==
  LET again(k) == Loads(c[k], r) /\ SameArgument(c[k], c[i]) /\ ~ IsConditional(At(c, k + 1))
      stops(k) == EndsRun(c[k]) \/ IsOp(c[k], "ST") \/ (~ again(k) /\ Writes(c[k], Halves(r)))
      reloads  == {k \in i + 1 .. Len(c) : again(k) /\ \A j \in i + 1 .. k : ~ stops(j)}
  IN  Edit(c, /\ IsIns(c[i]) /\ c[i].op \in {"LD", "ST"} /\ c[i].r = r /\ MentionsU(c[i])
              /\ reloads # {},
           CommentOut(c, reloads))

removeUselessLdb(c, i) == RemoveReloads(c, i, "B")
removeUselessLdd(c, i) == RemoveReloads(c, i, "D")

removeUselessClrb(c, i) ==
  LET bad(e) == ~ IsCommentLike(e) /\ (~ IsIns(e) \/ EndsBlock(e) \/ IsCall(e) \/ Reads(e, {"B"}))
      again == FirstOf(c, i + 1, LAMBDA e : Writes(e, {"B"}), bad)
  IN  Edit(c, Clears(c[i], "B") /\ (again # 0 \/ \A k \in i + 1 .. Len(c) : ~ bad(c[k])),
           CommentOut(c, {i}))

(* Two constants added or subtracted are one, when the flags are not used. *)
combineConsecutiveOps(c, i) ==
  LET adds(e) == IsIns(e) /\ e.op \in {"ADD", "SUB"} /\ e.r = "D" /\ IsLiteral(e)
      number(e) == IF e.op = "ADD" THEN Literal(e) ELSE - Literal(e)
      next == FirstOf(c, i + 2, LAMBDA e : e.t # "COMMENT", LAMBDA e : FALSE)
  IN  Edit(c, /\ i + 1 <= Len(c)
              /\ adds(c[i]) /\ adds(c[i + 1])
              /\ next # 0 => IsIns(c[next]) /\ ~ EndsBlock(c[next]),
           CommentOut([c EXCEPT ![i + 1] = Ins("ADD", "D", "#$", (number(c[i]) + number(@)) % WORD)], {i}))

optimizeLdbTfrClrb(c, i) ==
  LET skips(e) == IsCommentLike(e) \/ e.t = "LABEL"
      tfr == FirstOf(c, i + 1, LAMBDA e : ~ skips(e), LAMBDA e : FALSE)
      clr == FirstOf(c, tfr + 1, LAMBDA e : ~ skips(e), LAMBDA e : FALSE)
  IN  Edit(c, /\ Loads(c[i], "B")
              /\ tfr # 0 /\ c[tfr] = Ins("TFR", "", "B,A", 0)
              /\ clr # 0 /\ Clears(c[clr], "B"),
           CommentOut([c EXCEPT ![i].r = "A"], {tfr}))

(* LDB CMPB Bcc LDB CMPB: the second load is of the same byte. *)
removeLoadInComparisonWithTwoValues(c, i) ==
  LET next(k) == IF k = 0 THEN 0 ELSE NextInstrBeforeLabel(c, k + 1)
      load    == NextInstrBeforeLabel(c, i)
      compare == next(load)
      branch  == next(compare)
      again   == next(branch)
      second  == next(again)
  IN  Edit(c, /\ second # 0
              /\ Loads(c[load], "B") /\ InsOn(c[compare], "CMP", "B")
              /\ IsConditional(c[branch])
              /\ Loads(c[again], "B") /\ SameArgument(c[load], c[again])
              /\ InsOn(c[second], "CMP", "B"),
           CommentOut(c, {again}))
=============================================================================
