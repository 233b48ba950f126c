------------------------------ MODULE PeepholeO2 ------------------------------
(***************************************************************************)
(* ASMText::peepholeOptimize() as cmoc -O2, the default, runs it: where no *)
(* rule of stage 1 applies to an element, the rules of stage 2 are tried   *)
(* in their order.                                                         *)
(***************************************************************************)
EXTENDS PeepholeMeaning, PeepholeWords, PeepholePointers

Rewritten(rule, c, i) ==
  CASE rule = "fasterPointerIndexing" -> fasterPointerIndexing(c, i)
    [] rule = "fasterPointerPushing" -> fasterPointerPushing(c, i)
    [] rule = "stripExtraClrA_B" -> stripExtraClrA_B(c, i)
    [] rule = "stripExtraPulsX" -> stripExtraPulsX(c, i)
    [] rule = "stripExtraPushPullB" -> stripExtraPushPullB(c, i)
    [] rule = "andA_B0" -> andA_B0(c, i)
    [] rule = "transformPshsDPshsD" -> transformPshsDPshsD(c, i)
    [] rule = "changeLoadDToLoadB" -> changeLoadDToLoadB(c, i)
    [] rule = "changeAddDToAddB" -> changeAddDToAddB(c, i)
    [] rule = "stripPushLeas1" -> stripPushLeas1(c, i)
    [] rule = "orAndA_B" -> orAndA_B(c, i)
    [] rule = "loadDToClrALoadB" -> loadDToClrALoadB(c, i)
    [] rule = "optimizeStackOperations1" -> optimizeStackOperations1(c, i)
    [] rule = "optimizeStackOperations2" -> optimizeStackOperations2(c, i)
    [] rule = "optimizeStackOperations3" -> optimizeStackOperations3(c, i)
    [] rule = "optimizeStackOperations4" -> optimizeStackOperations4(c, i)
    [] rule = "optimizeStackOperations5" -> optimizeStackOperations5(c, i)
    [] rule = "removeClr" -> removeClr(c, i)
    [] rule = "removeAndOrMulAddSub" -> removeAndOrMulAddSub(c, i)
    [] rule = "compareWithZero" -> compareWithZero(c, i)
    [] rule = "optimizeLoadDX" -> optimizeLoadDX(c, i)
    [] rule = "optimizeTfrPush" -> optimizeTfrPush(c, i)
    [] rule = "optimizeTfrOp" -> optimizeTfrOp(c, i)
    [] rule = "removePushB" -> removePushB(c, i)
    [] rule = "optimizeLdbTfrClrb" -> optimizeLdbTfrClrb(c, i)
    [] rule = "remove16BitStackOperation" -> remove16BitStackOperation(c, i)
    [] rule = "optimizePostIncrement" -> optimizePostIncrement(c, i)
    [] rule = "removeUselessOps" -> removeUselessOps(c, i)
    [] rule = "optimize16BitStackOps1" -> optimize16BitStackOps1(c, i)
    [] rule = "optimize16BitStackOps2" -> optimize16BitStackOps2(c, i)
    [] rule = "optimize8BitStackOps" -> optimize8BitStackOps(c, i)
    [] rule = "removeTfrDX" -> removeTfrDX(c, i)
    [] rule = "removeUselessLeax" -> removeUselessLeax(c, i)
    [] rule = "removeUselessLdx" -> removeUselessLdx(c, i)
    [] rule = "removeUnusedLoad" -> removeUnusedLoad(c, i)
    [] rule = "optimizeAndbTstb" -> optimizeAndbTstb(c, i)
    [] rule = "optimizeIndexedX" -> optimizeIndexedX(c, i)
    [] rule = "optimizeIndexedX2" -> optimizeIndexedX2(c, i)
    [] rule = "removeUselessLdb" -> removeUselessLdb(c, i)
    [] rule = "removeUselessLdd" -> removeUselessLdd(c, i)
    [] rule = "transformPshsXPshsX" ->
         LET next(r) == IF r.fired THEN Changed(optimizePshsOps(r.code, i).code) ELSE r
         IN  next(transformPshsXPshsX(c, i))
    [] rule = "optimizePshsOps" -> optimizePshsOps(c, i)
    [] rule = "optimize16BitCompares" -> optimize16BitCompares(c, i)
    [] rule = "combineConsecutiveOps" -> combineConsecutiveOps(c, i)
    [] rule = "removeConsecutivePshsPul" -> removeConsecutivePshsPul(c, i)
    [] rule = "coalesceConsecutiveLeax" -> coalesceConsecutiveLeax(c, i)
    [] rule = "optimizeLeaxLdx" -> optimizeLeaxLdx(c, i)
    [] rule = "optimizeLeaxLdd" -> optimizeLeaxLdd(c, i)
    [] rule = "optimizeLdx" -> optimizeLdx(c, i)
    [] rule = "optimizeLeax" -> optimizeLeax(c, i)
    [] rule = "removeUselessTfr1" -> removeUselessTfr1(c, i)
    [] rule = "removeUselessTfr2" -> removeUselessTfr2(c, i)
    [] rule = "removeUselessClrb" -> removeUselessClrb(c, i)
    [] rule = "optimizeDXAliases" -> optimizeDXAliases(c, i)
    [] rule = "removeLoadInComparisonWithTwoValues" -> removeLoadInComparisonWithTwoValues(c, i)

Order2 ==
  <<"fasterPointerIndexing", "fasterPointerPushing", "stripExtraClrA_B", "stripExtraPulsX",
    "stripExtraPushPullB", "andA_B0", "transformPshsDPshsD", "changeLoadDToLoadB",
    "changeAddDToAddB", "stripPushLeas1", "orAndA_B", "loadDToClrALoadB",
    "optimizeStackOperations1", "optimizeStackOperations2", "optimizeStackOperations3",
    "optimizeStackOperations4", "optimizeStackOperations5", "removeClr", "removeAndOrMulAddSub",
    "compareWithZero", "optimizeLoadDX", "optimizeTfrPush", "optimizeTfrOp", "removePushB",
    "optimizeLdbTfrClrb", "remove16BitStackOperation", "optimizePostIncrement", "removeUselessOps",
    "optimize16BitStackOps1", "optimize16BitStackOps2", "optimize8BitStackOps", "removeTfrDX",
    "removeUselessLeax", "removeUselessLdx", "removeUnusedLoad", "optimizeAndbTstb",
    "optimizeIndexedX", "optimizeIndexedX2", "removeUselessLdb", "removeUselessLdd",
    "transformPshsXPshsX", "optimizePshsOps", "optimize16BitCompares", "combineConsecutiveOps",
    "removeConsecutivePshsPul", "coalesceConsecutiveLeax", "optimizeLeaxLdx", "optimizeLeaxLdd",
    "optimizeLdx", "optimizeLeax", "removeUselessTfr1", "removeUselessTfr2", "removeUselessClrb",
    "optimizeDXAliases", "removeLoadInComparisonWithTwoValues">>

(* A rule that changes the code and does not report it leaves the rest of  *)
(* the chain to be tried.  A comparison with zero ends the chain.          *)
RECURSIVE Stage2From(_, _, _)

Stage2From(c, i, k) ==
  LET rule == Order2[k]
      Stops(new) == new.fired \/ (rule = "compareWithZero" /\ IsCompareWithZero(c[i]))
      onward(new) == IF Stops(new) \/ k = Len(Order2) THEN new ELSE Stage2From(new.code, i, k + 1)
  IN  onward(Rewritten(rule, c, i))

Stage2(c, i) == Stage2From(c, i, 1)

VARIABLE useStage2Optims

varsO2 == <<vars, useStage2Optims>>

InitO2 == Init /\ useStage2Optims \in BOOLEAN

NoRuleApplies == \A k \in DOMAIN Order : ~ Applies(Order[k], code, pos)

ApplyStage2 ==
  /\ useStage2Optims
  /\ phase = "scan"
  /\ pos <= Len(code)
  /\ NoRuleApplies
  /\ \E new \in {Stage2(code, pos)} :
       /\ code' = new.code
       /\ modified' = (modified \/ new.fired)
  /\ pos' = pos + 1
  /\ UNCHANGED <<phase, given, passes, useStage2Optims>>

(* The steps that both levels have. *)
Stage1 ==
  /\ RemoveUselessLabels \/ Rule \/ (Advance /\ ~ useStage2Optims) \/ EndPass
  /\ UNCHANGED useStage2Optims

NextO2 == Stage1 \/ ApplyStage2

SpecO2 == InitO2 /\ [][NextO2]_varsO2

=============================================================================
