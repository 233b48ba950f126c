------------------------------ MODULE Peephole -------------------------------
(***************************************************************************)
(* ASMText::peepholeOptimize() as cmoc -O1 runs it, and as -O2 begins: the *)
(* eighteen "stage 1" rewriting rules, tried in a fixed order on each      *)
(* element, pass after pass until a pass changes nothing.                  *)
(*                                                                         *)
(* A rule looks at the elements from pos on.  Its operator says when it    *)
(* applies to code at i; its action rewrites the code and moves pos.  An   *)
(* indexed operand of one element or comparison with the next refers to    *)
(* the element just after it, be it a comment: only some of the rules skip *)
(* comments.                                                               *)
(***************************************************************************)
EXTENDS AsmText, SequencesExt

CONSTANTS
  Programs,      \* the codes that may be optimized, sequences of elements
  ShortRange     \* instructions from a short branch to its label, both included

ASSUME ShortRangeAssumption == ShortRange \in Nat /\ ShortRange > 0

(* The code that the compiler generates assembles: its branches have labels. *)
ASSUME ProgramsAssumption ==
  \A c \in Programs :
    /\ IsText(c)
    /\ \A k \in DOMAIN c : IsBranch(c[k]) => \E j \in DOMAIN c : c[j].t = "LABEL" /\ c[j].v = c[k].v

VARIABLES
  code,          \* elements
  phase,         \* "labels": at the top of for (;;); "scan": in a pass; "done"
  pos,           \* i, counted from 1
  modified,
  given,         \* history: the code as the compiler generated it
  passes         \* history: the number of passes begun

vars == <<code, phase, pos, modified, given, passes>>

Init ==
  /\ code \in Programs
  /\ phase = "labels"
  /\ pos = 1
  /\ modified = FALSE
  /\ given = code
  /\ passes = 0

-----------------------------------------------------------------------------
(* When a rule applies to code c at element i.                             *)

branchToNextLocation(c, i) ==
  /\ i + 1 <= Len(c)
  /\ IsUncond(c[i])
  /\ IsLabel(c[i + 1], c[i].v)

instrFollowingUncondBranch(c, i) ==
  /\ i + 1 <= Len(c)
  /\ IsUncond(c[i])
  /\ NextInstrBeforeLabel(c, i + 1) # 0

lddToLDB(c, i) ==
  LET next == NextInstr(c, i + 1)
  IN  /\ Is(c, i, "LD", "D") /\ c[i].m = "#$"
      /\ next # 0
      /\ c[next] \in {Inherent("SEX", ""), Inherent("CLR", "A")}

pushLoadDiscardAdd(c, i) ==
  /\ i + 3 <= Len(c)
  /\ c[i] = Ins("PSHS", "", "B,A", 0)
  /\ Is(c, i + 1, "LD", "D") /\ Immediate(c[i + 1])
  /\ c[i + 2] = Ins("LEA", "S", ",S", 1)
  /\ c[i + 3] = Ins("ADD", "B", ",S+", 0)

pushBLoadAdd(c, i) ==
  /\ i + 2 <= Len(c)
  /\ c[i] = Ins("PSHS", "", "B", 0)
  /\ Is(c, i + 1, "LD", "B") /\ HasVarArg(c[i + 1])
  /\ c[i + 2] = Ins("ADD", "B", ",S+", 0)

pushDLoadAdd(c, i) ==
  /\ i + 2 <= Len(c)
  /\ c[i] = Ins("PSHS", "", "B,A", 0)
  /\ Is(c, i + 1, "LD", "D")
  /\ c[i + 2] = Ins("ADD", "D", ",S++", 0)

pushLoadDLoadX(c, i) ==
  /\ i + 2 <= Len(c)
  /\ c[i] = Ins("PSHS", "", "B,A", 0)
  /\ Is(c, i + 1, "LD", "D") /\ (HasVarArg(c[i + 1]) \/ Immediate(c[i + 1]))
  /\ c[i + 2] = Ins("LD", "X", ",S++", 0)

clearD(c, i) == c[i] = Ins("LD", "D", "#$", 0)

pushDLoadXLoadD(c, i) ==
  /\ i + 2 <= Len(c)
  /\ c[i] = Ins("PSHS", "", "B,A", 0)
  /\ Is(c, i + 1, "LD", "X") /\ (HasVarArg(c[i + 1]) \/ Immediate(c[i + 1]))
  /\ c[i + 2] = Ins("LD", "D", ",S++", 0)

stripConsecutiveLoadsToSameReg(c, i) ==
  LET next == NextInstrBeforeLabel(c, i + 1)
  IN  /\ IsIns(c[i]) /\ c[i].op = "LD" /\ c[i].r \in {"A", "B", "D"}
      /\ next # 0
      /\ Is(c, next, "LD", c[i].r)
      /\ ~ (c[i].r = "B" /\ c[next].m \in {"D,X", "B,X"})

(* Mutant: a port is taken for memory. *)
storeLoad_port(c, i) ==
  LET next == NextInstrBeforeLabel(c, i + 1)
  IN  /\ IsIns(c[i]) /\ c[i].op = "ST" /\ c[i].r \in {"A", "B", "D"}
      /\ next # 0
      /\ Is(c, next, "LD", c[i].r)
      /\ SameArgument(c[i], c[next])

storeLoad(c, i) ==
  LET next == NextInstrBeforeLabel(c, i + 1)
  IN  /\ IsIns(c[i]) /\ c[i].op = "ST" /\ c[i].r \in {"A", "B", "D"}
      /\ next # 0
      /\ Is(c, next, "LD", c[i].r)
      /\ SameArgument(c[i], c[next])
      /\ ~ IsAbsoluteAddress(c[i])

condBranchOverUncondBranch(c, i) ==
  /\ i + 2 <= Len(c)
  /\ c[i + 2].t = "LABEL"
  /\ IsUncond(c[i + 1])
  /\ IsIns(c[i]) /\ c[i].op \in DOMAIN Opposite
  /\ c[i].v = c[i + 2].v

(* Mutant: applies to short branches too. *)
shortenBranch_again(c, i) ==
  LET l == LabelIndex(c, c[i].v)
      between == IF l < i THEN l .. i ELSE i .. l
  IN  /\ IsBranch(c[i])
      /\ l # 0
      /\ \A k \in between : c[k].t \notin {"INLINE_ASM", "INCLUDE", "SEPARATOR"}
      /\ Cardinality({k \in between : IsIns(c[k])}) <= ShortRange

(* Mutant: only what follows the branch is counted. *)
shortenBranch_forward(c, i) ==
  LET l == LabelIndex(c, c[i].v)
  IN  /\ IsBranch(c[i]) /\ c[i].r = "L"
      /\ l # 0
      /\ \A k \in i .. l : c[k].t \notin {"INLINE_ASM", "INCLUDE", "SEPARATOR"}
      /\ Cardinality({k \in i .. l : IsIns(c[k])}) <= ShortRange

shortenBranch(c, i) ==
  LET l == LabelIndex(c, c[i].v)
      between == IF l < i THEN l .. i ELSE i .. l
  IN  /\ IsBranch(c[i]) /\ c[i].r = "L"
      /\ l # 0
      /\ \A k \in between : c[k].t \notin {"INLINE_ASM", "INCLUDE", "SEPARATOR"}
      /\ Cardinality({k \in between : IsIns(c[k])}) <= ShortRange

loadCmpZeroBeqOrBne(c, i) ==
  /\ i + 2 <= Len(c)
  /\ IsIns(c[i]) /\ c[i].op = "LD" /\ c[i].r \in {"B", "D"}
  /\ IsIns(c[i + 1]) /\ c[i + 1].r = c[i].r
  /\ <<c[i + 1].op, c[i].r>> \in {<<"CMP", "B">>, <<"CMP", "D">>, <<"ADD", "D">>, <<"TST", "B">>}
  /\ c[i + 1].op = "TST" \/ (c[i + 1].m = "#" /\ c[i + 1].v = 0)
  /\ IsIns(c[i + 2]) /\ c[i + 2].op \in {"BEQ", "BNE"}

pushWordForByteComparison(c, i) ==
  /\ i + 4 <= Len(c)
  /\ c[i] = Ins("PSHS", "", "B,A", 0)
  /\ Is(c, i + 1, "LD", "B")
  /\ c[i + 2] = Inherent("CLR", "A")
  /\ c[i + 3] = Ins("LEA", "S", ",S", 1)
  /\ c[i + 4] = Ins("CMP", "B", ",S+", 0)

stripConsecOppositeTFRs(c, i) ==
  LET next == NextInstrBeforeLabel(c, i + 1)
  IN  /\ IsIns(c[i]) /\ c[i].op = "TFR"
      /\ next # 0
      /\ c[next].op = "TFR"
      /\ Pair(c[i]) = Reverse(Pair(c[next]))

(* Mutant: the second instruction may need the register. *)
stripOpToDeadReg_read(c, i) ==
  LET next == NextInstrBeforeLabel(c, i + 1)
      this == InsEffects(c[i])
      then == InsEffects(c[next])
  IN  /\ IsIns(c[i]) /\ c[i].op \notin {"PSHS", "PULS"}
      /\ next # 0
      /\ "CC" \notin then.read
      /\ this.written \intersect then.written # {}
      /\ this.written \subseteq then.written

stripOpToDeadReg(c, i) ==
  LET next == NextInstrBeforeLabel(c, i + 1)
      this == InsEffects(c[i])
      then == InsEffects(c[next])
  IN  /\ IsIns(c[i]) /\ c[i].op \notin {"PSHS", "PULS"}
      /\ next # 0
      /\ "CC" \notin then.read
      /\ this.written \intersect then.read = {}
      /\ this.written \intersect then.written # {}
      /\ this.written \subseteq then.written

stripUselessPushPull(c, i) ==
  LET next == NextInstrBeforeLabel(c, i + 1)
      following == NextInstrBeforeLabel(c, next + 1)
  IN  /\ c[i] = Ins("PSHS", "", "B,A", 0)
      /\ next # 0
      /\ c[next].op \notin {"PSHS", "PULS"} /\ ~ MentionsS(c[next])
      /\ following # 0
      /\ c[following] = Ins("PULS", "", "A,B", 0)
      /\ InsEffects(c[next]).read \intersect {"A", "B"} = {}

(* The chain of else-ifs: the rule that runs at i is the first to apply.   *)
Applies(rule, c, i) ==
  CASE rule = "branchToNextLocation" -> branchToNextLocation(c, i)
    [] rule = "instrFollowingUncondBranch" -> instrFollowingUncondBranch(c, i)
    [] rule = "lddToLDB" -> lddToLDB(c, i)
    [] rule = "pushLoadDiscardAdd" -> pushLoadDiscardAdd(c, i)
    [] rule = "pushBLoadAdd" -> pushBLoadAdd(c, i)
    [] rule = "pushDLoadAdd" -> pushDLoadAdd(c, i)
    [] rule = "pushLoadDLoadX" -> pushLoadDLoadX(c, i)
    [] rule = "clearD" -> clearD(c, i)
    [] rule = "pushDLoadXLoadD" -> pushDLoadXLoadD(c, i)
    [] rule = "stripConsecutiveLoadsToSameReg" -> stripConsecutiveLoadsToSameReg(c, i)
    [] rule = "storeLoad" -> storeLoad(c, i)
    [] rule = "condBranchOverUncondBranch" -> condBranchOverUncondBranch(c, i)
    [] rule = "shortenBranch" -> shortenBranch(c, i)
    [] rule = "loadCmpZeroBeqOrBne" -> loadCmpZeroBeqOrBne(c, i)
    [] rule = "pushWordForByteComparison" -> pushWordForByteComparison(c, i)
    [] rule = "stripConsecOppositeTFRs" -> stripConsecOppositeTFRs(c, i)
    [] rule = "stripOpToDeadReg" -> stripOpToDeadReg(c, i)
    [] rule = "stripUselessPushPull" -> stripUselessPushPull(c, i)

Order ==
  <<"branchToNextLocation", "instrFollowingUncondBranch", "lddToLDB", "pushLoadDiscardAdd",
    "pushBLoadAdd", "pushDLoadAdd", "pushLoadDLoadX", "clearD", "pushDLoadXLoadD",
    "stripConsecutiveLoadsToSameReg", "storeLoad", "condBranchOverUncondBranch", "shortenBranch",
    "loadCmpZeroBeqOrBne", "pushWordForByteComparison", "stripConsecOppositeTFRs",
    "stripOpToDeadReg", "stripUselessPushPull">>

-----------------------------------------------------------------------------
(* The optimizer.                                                          *)

(* Mutant: only the long branches count as uses. *)
RemoveUselessLabels_long ==
  LET used == {code[k].v : k \in {j \in DOMAIN code : IsBranch(code[j]) /\ code[j].r = "L"}}
  IN  /\ phase = "labels"
      /\ code' = CommentOut(code, {k \in DOMAIN code : code[k].t = "LABEL" /\ code[k].v \notin used})
      /\ phase' = "scan"
      /\ pos' = 1
      /\ modified' = FALSE
      /\ passes' = passes + 1
      /\ UNCHANGED given

(* The generated labels that the argument of an instruction names. *)
UsedLabels == {code[k].v : k \in {j \in DOMAIN code : IsBranch(code[j])}}

(* removeUselessLabels(), at the start of a pass.                          *)
RemoveUselessLabels ==
  /\ phase = "labels"
  /\ code' = CommentOut(code, {k \in DOMAIN code : code[k].t = "LABEL" /\ code[k].v \notin UsedLabels})
  /\ phase' = "scan"
  /\ pos' = 1
  /\ modified' = FALSE
  /\ passes' = passes + 1
  /\ UNCHANGED given

Turn(rule) ==
  /\ phase = "scan"
  /\ pos <= Len(code)
  /\ Applies(rule, code, pos)
  /\ \E k \in DOMAIN Order :
       Order[k] = rule /\ \A j \in 1 .. k - 1 : ~ Applies(Order[j], code, pos)

(* The rewriting of the code, and the last element looked at: the loop's   *)
(* ++i follows.                                                            *)
Rewrite(newCode, last) ==
  /\ code' = newCode
  /\ pos' = last + 1
  /\ modified' = TRUE
  /\ UNCHANGED <<phase, given, passes>>

Next1 == NextInstrBeforeLabel(code, pos + 1)

(* Elements pos to pos + n become the instruction e and comments.          *)
Merged(e, n) == CommentOut([code EXCEPT ![pos] = e], pos + 1 .. pos + n)

BranchToNextLocation ==
  Turn("branchToNextLocation") /\ Rewrite(CommentOut(code, {pos}), pos)

(* Mutant: the rewriting is not reported. *)
InstrFollowingUncondBranch_silent ==
  /\ Turn("instrFollowingUncondBranch")
  /\ code' = CommentOut(code, {Next1})
  /\ pos' = pos + 1
  /\ UNCHANGED <<modified, phase, given, passes>>

InstrFollowingUncondBranch ==
  Turn("instrFollowingUncondBranch") /\ Rewrite(CommentOut(code, {Next1}), pos)

LddToLDB ==
  /\ Turn("lddToLDB")
  /\ Rewrite([code EXCEPT ![pos] = Ins("LD", "B", "#$", @.v % BYTE)], pos)

PushLoadDiscardAdd ==
  /\ Turn("pushLoadDiscardAdd")
  /\ Rewrite(Merged(Ins("ADD", "B", "#$", ImmedArg(code[pos + 1]) % BYTE), 3), pos + 3)

PushBLoadAdd ==
  /\ Turn("pushBLoadAdd")
  /\ Rewrite(Merged([code[pos + 1] EXCEPT !.op = "ADD"], 2), pos + 2)

PushDLoadAdd ==
  /\ Turn("pushDLoadAdd")
  /\ Rewrite(Merged([code[pos + 1] EXCEPT !.op = "ADD"], 2), pos + 2)

PushLoadDLoadX ==
  /\ Turn("pushLoadDLoadX")
  /\ Rewrite([code EXCEPT ![pos] = Ins("TFR", "", "D,X", 0), ![pos + 2] = CommentedOut(@)], pos)

ClearD ==
  /\ Turn("clearD")
  /\ Rewrite(Insert([code EXCEPT ![pos] = Inherent("CLR", "A")], pos, Inherent("CLR", "B")), pos + 1)

PushDLoadXLoadD ==
  Turn("pushDLoadXLoadD") /\ Rewrite(CommentOut(code, {pos, pos + 2}), pos + 2)

StripConsecutiveLoadsToSameReg ==
  Turn("stripConsecutiveLoadsToSameReg") /\ Rewrite(CommentOut(code, {pos}), Next1)

StoreLoad ==
  Turn("storeLoad") /\ Rewrite(CommentOut(code, {Next1}), Next1)

CondBranchOverUncondBranch ==
  /\ Turn("condBranchOverUncondBranch")
  /\ Rewrite([code EXCEPT ![pos].op = Opposite[@], ![pos].v = code[pos + 1].v,
                          ![pos + 1] = CommentedOut(@)], pos)

ShortenBranch ==
  Turn("shortenBranch") /\ Rewrite([code EXCEPT ![pos].r = ""], pos)

LoadCmpZeroBeqOrBne ==
  Turn("loadCmpZeroBeqOrBne") /\ Rewrite(CommentOut(code, {pos + 1}), pos)

PushWordForByteComparison ==
  /\ Turn("pushWordForByteComparison")
  /\ Rewrite(CommentOut([code EXCEPT ![pos].m = "B"], {pos + 2, pos + 3}), pos)

StripConsecOppositeTFRs ==
  Turn("stripConsecOppositeTFRs") /\ Rewrite(CommentOut(code, {Next1}), pos)

StripOpToDeadReg ==
  Turn("stripOpToDeadReg") /\ Rewrite(CommentOut(code, {pos}), pos)

StripUselessPushPull ==
  /\ Turn("stripUselessPushPull")
  /\ Rewrite(CommentOut(code, {pos, NextInstrBeforeLabel(code, Next1 + 1)}), pos)

(* No rule applies here. *)
Advance ==
  /\ phase = "scan"
  /\ pos <= Len(code)
  /\ \A k \in DOMAIN Order : ~ Applies(Order[k], code, pos)
  /\ pos' = pos + 1
  /\ UNCHANGED <<code, phase, modified, given, passes>>

EndPass ==
  /\ phase = "scan"
  /\ pos > Len(code)
  /\ phase' = IF modified THEN "labels" ELSE "done"
  /\ UNCHANGED <<code, pos, modified, given, passes>>

Rule ==
  \/ BranchToNextLocation \/ InstrFollowingUncondBranch \/ LddToLDB
  \/ PushLoadDiscardAdd \/ PushBLoadAdd \/ PushDLoadAdd \/ PushLoadDLoadX
  \/ ClearD \/ PushDLoadXLoadD \/ StripConsecutiveLoadsToSameReg \/ StoreLoad
  \/ CondBranchOverUncondBranch \/ ShortenBranch \/ LoadCmpZeroBeqOrBne
  \/ PushWordForByteComparison \/ StripConsecOppositeTFRs \/ StripOpToDeadReg
  \/ StripUselessPushPull

Next == RemoveUselessLabels \/ Rule \/ Advance \/ EndPass

Spec == Init /\ [][Next]_vars

-----------------------------------------------------------------------------
(* Properties.                                                             *)

(* Every branch still has its label, or the program would not assemble:    *)
(* labels are removed at the start of a pass from the branches of that     *)
(* moment, and branches are redirected later.                              *)
BranchTargetsKept ==
  \A k \in DOMAIN code : IsBranch(code[k]) => LabelIndex(code, code[k].v) # 0

(* The bytes between a branch and its label. *)
Reach(k) ==
  LET l == LabelIndex(code, code[k].v)
  IN  IF l < k THEN BytesBetween(code, l, k) ELSE BytesBetween(code, k + 1, l)

(* A short branch reaches its label when all rewritings are done, not only *)
(* when shortenBranch() counted the instructions: it may be redirected,    *)
(* and what is between may be replaced.                                    *)
ShortBranchesReach ==
  \A k \in DOMAIN code :
    IsBranch(code[k]) /\ code[k].r = "" => Reach(k) <= 4 * ShortRange

(* When the loop ends, no rule applies to any element: a rewriting that    *)
(* forgot to report itself would leave the rules it enables untried.       *)
Settled ==
  phase = "done" =>
    \A i \in DOMAIN code : \A k \in DOMAIN Order : ~ Applies(Order[k], code, i)

(* The rewritings that an instruction leaves room for: it may be taken out, *)
(* after a long branch was shortened, a word that is loaded cut to a byte,  *)
(* or the load of a zero replaced by the clearing of two bytes.             *)
Rank(e) ==
  CASE ~ IsIns(e) -> 0
    [] IsIns(e) /\ IsBranch(e) -> IF e.r = "L" THEN 2 ELSE 1
    [] IsIns(e) /\ ~ IsBranch(e) ->
         IF e.op = "LD" /\ e.r = "D" /\ e.m = "#$" THEN (IF e.v = 0 THEN 3 ELSE 2) ELSE 1

RewritingsLeft(c) == {q \in (DOMAIN c) \X (1 .. 3) : q[2] <= Rank(c[q[1]])}

(* The passes come to an end, each but the last one having done one of the *)
(* rewritings that the code left room for: no two rules undo each other.   *)
Terminates == passes <= Cardinality(RewritingsLeft(given)) + 1
=============================================================================
