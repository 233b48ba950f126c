------------------------------ MODULE AsmText -------------------------------
(***************************************************************************)
(* The assembly text of the compiler as a sequence of elements, and what   *)
(* the peephole optimizer (ASMText.cpp) asks of it.                        *)
(*                                                                         *)
(* An element has a type t ("INSTR", "LABEL", "COMMENT" or another one of  *)
(* ASMText::Type) and, whatever its type, the fields op, r, m and v of an  *)
(* instruction of Cpu6809.  A label has its number in v.  An instruction   *)
(* that is commented out stays in its place as a comment with its argument.*)
(***************************************************************************)
EXTENDS Cpu6809, FiniteSetsExt

Element(t, op, r, m, v) == [t |-> t, op |-> op, r |-> r, m |-> m, v |-> v]

(* Any record with these fields, and std::vector<Element>. *)
IsElement(e) == DOMAIN e = {"t", "op", "r", "m", "v"}
IsText(c) == c \in Seq(Range(c)) /\ \A k \in DOMAIN c : IsElement(c[k])

Ins(op, r, m, v) == Element("INSTR", op, r, m, v)
Inherent(op, r)  == Ins(op, r, "", 0)
Tfr(pair)        == Ins("TFR", "", pair, 0)
Long(op, l)      == Ins(op, "L", "L", l)
Label(l)         == Element("LABEL", "", "", "L", l)
Comment          == Element("COMMENT", "", "", "", 0)

IsIns(e) == e.t = "INSTR"

(* Element::isCommentLike() *)
IsCommentLike(e) == e.t \notin {"INSTR", "LABEL", "INLINE_ASM", "INCLUDE"}

Is(code, i, op, r) == IsIns(code[i]) /\ code[i].op = op /\ code[i].r = r

(* isInstr(): the argument is compared too. *)
IsInstr(code, i, op, r, m, v) == code[i] = Ins(op, r, m, v)

(* isInstrWithVarArg() *)
HasVarArg(e) == e.m \in {",U", ",PCR"}

IsLabel(e, l) == e.t = "LABEL" /\ e.v = l

(* isAbsoluteAddress(): the argument is a number and nothing else. *)
IsAbsoluteAddress(e) == e.m = "abs"

(* extractImmedArg() *)
ImmedArg(e) == e.v

SameArgument(e, f) == e.m = f.m /\ e.v = f.v

(* Branches that name a label of the function. *)
IsBranch(e) == IsIns(e) /\ e.op \in Branches
IsUncond(e) == IsIns(e) /\ e.op = "BRA"

branchInstrTable ==
  {<<"BCC", "BCS">>, <<"BEQ", "BNE">>, <<"BGE", "BLT">>, <<"BGT", "BLE">>,
   <<"BHI", "BLS">>, <<"BHS", "BLO">>, <<"BMI", "BPL">>, <<"BVC", "BVS">>}

relativeSizeBranchInstrTable ==
  {<<"BEQ", "BEQ">>, <<"BNE", "BNE">>, <<"BGE", "BLE">>, <<"BGT", "BLT">>,
   <<"BHI", "BLO">>, <<"BHS", "BLS">>}

(* The branch on the opposite condition: the table is read both ways. *)
Opposite ==
  [op \in Branches \ {"BRA", "BRN"} |->
     CHOOSE o \in Branches : <<op, o>> \in branchInstrTable \/ <<o, op>> \in branchInstrTable]

(* The branch to use when the operands of the comparison have changed      *)
(* places.                                                                 *)
Inverted ==
  LET table == relativeSizeBranchInstrTable
  IN  [op \in UNION {{p[1], p[2]} : p \in table} |->
         CHOOSE o \in Branches : <<op, o>> \in table \/ <<o, op>> \in table]

IsConditional(e) == IsIns(e) /\ e.op \in DOMAIN Opposite

(* isBasicBlockEndingInstruction() *)
EndsBlock(e) ==
  \/ e.op \in (Branches \ {"BRN"}) \union {"JMP", "RTS", "RTI"}
  \/ e.op = "PULS" /\ e.m = "U,PC"

IsCall(e) == e.op \in {"BSR", "LBSR", "JSR"}

(* What the text of an argument contains: the offset and the register of   *)
(* an index, an increment, the brackets of an indirection.                 *)
AtX == {",X", "0,X", "D,X", "B,X"}
MentionsX(e) == e.m \in AtX \union {",X+", ",X++", "[,X]"}
MentionsS(e) == e.m \in {",S", ",S+", ",S++", "[,S]"}
MentionsU(e) == e.m \in {",U", "[,U]"}
Increments(e) == e.m \in {",X+", ",X++", ",S+", ",S++"}
Indirect(e) == e.m \in {"[,U]", "[,X]", "[,S]", "[,PCR]"}
ByAccumulator(e) == e.m \in {"D,X", "B,X"}

(* extractConstantLiteral(): the number of an immediate operand; after     *)
(* "#-$" it reads a minus sign and no digit.                               *)
IsLiteral(e) == Immediate(e)
Literal(e) == IF e.m = "#-$" THEN 0 ELSE e.v

(* "#" followed by intToString(w, true) for a word w.                      *)
HexLiteral(w) == [m |-> IF w > WORD \div 2 THEN "#-$" ELSE "#$", v |-> w]

(* wordToString(offset, false) + ",X" *)
FromX(offset) == [m |-> IF offset % WORD = 0 THEN "0,X" ELSE ",X", v |-> offset % WORD]

WithArgument(e, a) == [e EXCEPT !.m = a.m, !.v = a.v]

-----------------------------------------------------------------------------
(* Searches.  0 stands for "not found".                                    *)

(* The first index from i on whose element is in the set found, provided   *)
(* that no element before it is in the set stop.                           *)
FirstOf(code, i, Found(_), Stop(_)) ==
  LET hits  == {k \in i .. Len(code) : Found(code[k])}
      first == Min(hits)
  IN  IF hits = {} \/ \E k \in i .. first : Stop(code[k]) THEN 0 ELSE first

(* The same, when only an element before the one that is found can stop.   *)
FirstBefore(code, i, Found(_), Stop(_)) ==
  LET hits  == {k \in i .. Len(code) : Found(code[k])}
      first == Min(hits)
  IN  IF hits = {} \/ \E k \in i .. first - 1 : Stop(code[k]) THEN 0 ELSE first

IsData(e) == IsIns(e) /\ e.op \in {"FDB", "FCC", "RMB"}

NextInstrBeforeLabel(code, i) ==
  FirstOf(code, i, IsIns, LAMBDA e : e.t \notin {"INSTR", "COMMENT"} \/ IsData(e))

NextInstr(code, i) ==
  FirstOf(code, i, IsIns, LAMBDA e : e.t \in {"INLINE_ASM", "INCLUDE", "SEPARATOR"})

LabelIndex(code, l) ==
  FirstOf(code, 1, LAMBDA e : e.t = "LABEL" /\ e.v = l, LAMBDA e : FALSE)

-----------------------------------------------------------------------------
(* Edits.                                                                  *)

(* commentOut() leaves the text of the argument. *)
CommentedOut(e) == [e EXCEPT !.t = "COMMENT", !.op = "", !.r = ""]

CommentOut(code, places) ==
  [k \in DOMAIN code |-> IF k \in places THEN CommentedOut(code[k]) ELSE code[k]]

Insert(code, i, e) == SubSeq(code, 1, i - 1) \o <<e>> \o SubSeq(code, i, Len(code))

-----------------------------------------------------------------------------
(* Registers that an instruction reads and writes, as InsEffects() knows   *)
(* them: CC only where it is read by a long branch or a transfer, S never, *)
(* and an index register is not written by its increment.                  *)

Halves(r) == IF r = "D" THEN {"A", "B"} ELSE {r}

IndexRegs(m) ==
  (IF m \in AtX \union {",X+", ",X++", "[,X]"} THEN {"X"} ELSE {})
    \union (IF m \in {",U", "[,U]"} THEN {"U"} ELSE {})
    \union (IF m = "D,X" THEN {"A", "B"} ELSE IF m = "B,X" THEN {"B"} ELSE {})

OfList(i) == UNION {Halves(StackList(i)[k]) : k \in DOMAIN StackList(i)}

InsEffects(e) ==
  LET effects(read, written) == [read |-> read, written |-> written]
      own == IF e.r = "" THEN {} ELSE Halves(e.r)
      opcode ==
        CASE e.op \in {"ST", "CMP", "BIT", "TST"} -> effects(own, {})
          [] e.op \in {"LD", "CLR", "LEA"} -> effects({}, own \ {"S"})
          [] e.op = "SEX" -> effects({"B"}, {"A"})
          [] e.op = "MUL" -> effects({"A", "B"}, {"A", "B"})
          [] e.op = "ABX" -> effects({"B", "X"}, {"X"})
          [] e.op \in {"ADD", "SUB", "AND", "OR", "EOR"} -> effects(own, own)
          [] e.op \in OneByteOps \ {"TST", "CLR"} -> effects(own, own)
          [] e.op \in {"TFR", "EXG"} -> effects(Halves(Pair(e)[1]), Halves(Pair(e)[2]))
          [] e.op = "PSHS" -> effects(OfList(e), {})
          [] e.op = "PULS" -> effects({}, OfList(e))
          [] e.op \in DOMAIN Opposite /\ e.r = "L" -> effects({"CC"}, {})
          [] IsCall(e) -> effects({"A", "B", "X", "Y", "U"}, {"A", "B", "X", "Y", "U"})
          [] OTHER -> effects({}, {})
  IN  [opcode EXCEPT !.read = @ \union IF e.op \in {"PSHS", "PULS"} THEN {} ELSE IndexRegs(e.m)]

-----------------------------------------------------------------------------
(* The size of an instruction in bytes, at most: an indexed argument has   *)
(* up to two bytes of offset after its postbyte.                           *)
BytesOf(e) ==
  IF ~ IsIns(e) THEN 0
  ELSE CASE e.op \in Branches -> IF e.r # "L" THEN 2 ELSE IF e.op = "BRA" THEN 3 ELSE 4
         [] e.op \in {"PSHS", "PULS", "TFR", "EXG"} -> 2
         [] e.op = "LBSR" -> 3
         [] e.m = "" -> 1
         [] (e.op \in {"LD", "ST"} /\ e.r = "Y") \/ (e.op = "CMP" /\ e.r \in {"D", "U"}) ->
              IF Immediate(e) THEN 4 ELSE 5
         [] Immediate(e) -> IF Wide(e.r) THEN 3 ELSE 2
         [] e.m \in {",S+", ",S++", ",X+", ",X++", "D,X", "B,X"} -> 2
         [] OTHER -> 4

BytesBetween(code, i, j) ==
  MapThenSumSet(LAMBDA k : BytesOf(code[k]), i .. j)
=============================================================================
