---------------------------- MODULE ArithmeticCode ----------------------------
(***************************************************************************)
(* The code that BinaryOpExpr::emitCode() emits for the operators that     *)
(* only compute a value: arithmetic, bitwise, shifts, comparisons, && and  *)
(* ||.  A byte is left in B, anything else in D.                           *)
(*                                                                         *)
(* An operator here is given the expression e and the code of its two      *)
(* sub-expressions, k and q, as r-values; ExpressionCode puts them         *)
(* together.  n numbers the expression: its labels are 3n to 3n + 2.       *)
(***************************************************************************)
EXTENDS CTypes

Acc(t) == IF IsByte(t) THEN "B" ELSE "D"

Hex(op, r, w) == Ins(op, r, "#$", w)
Dec(op, r, w) == Ins(op, r, "#", w)
AtVar(op, r, e) == Ins(op, r, ",U", e.v)
OnX(op, r) == Ins(op, r, ",X", 0)
PopBy(op, r) == Ins(op, r, IF Wide(r) THEN ",S++" ELSE ",S+", 0)
PSHS(list) == Ins("PSHS", "", list, 0)
PULS(list) == Ins("PULS", "", list, 0)
LEAS(n) == Ins("LEA", "S", ",S", n)
ClrA == Inherent("CLR", "A")
ClrB == Inherent("CLR", "B")
Utility(name) == Ins("LBSR", "", IF name = "MUL16" THEN "" ELSE name, 0)

Repeat(code, n) == FlattenSeq([k \in 1 .. n |-> code])

(* getConvToWordIns() *)
ToWord(t) == IF t.signed THEN Inherent("SEX", "") ELSE ClrA
Widened(t) == IF IsByte(t) THEN <<ToWord(t)>> ELSE <<>>

(* emitCMPDImmediate() *)
CompareD(w) == IF w = 0 THEN Dec("ADD", "D", 0) ELSE Hex("CMP", "D", w)

(* Zero tested in B or in D. *)
TestOf(t) == IF IsByte(t) THEN Inherent("TST", "B") ELSE CompareD(0)

ConstantCode(e) == <<Hex("LD", Acc(e.type), IF IsByte(e.type) THEN e.value % BYTE ELSE e.value)>>

(* emitSubExpressions(): first is pushed, second is left in D. *)
BothWords(first, fcode, second, scode) ==
  fcode \o Widened(first.type) \o <<PSHS("B,A")>> \o scode \o Widened(second.type)

Reversed(e, k, q) == BothWords(Right(e), q, Left(e), k)

-----------------------------------------------------------------------------
(* emitBitwiseOperation() *)
EmitBitwise(e, op, k, q) ==
  LET l == Left(e)
      r == Right(e)
      low == Hex(op, "B", r.value % BYTE)
      lowByteOf(v) == Ins("LD", "B", ",U", v.v + IF IsByte(v.type) THEN 0 ELSE 1)
  IN  CASE IsVar(l) /\ IsConst(r) ->
             IF IsByte(l.type) THEN <<AtVar("LD", "B", l), low>>
             ELSE <<AtVar("LD", "D", l), Hex(op, "A", r.value \div BYTE), low>>
        [] l.op = "cast" /\ IsByte(l.type) /\ IsVar(l.kids[1]) /\ IsConst(r) ->
             <<lowByteOf(l.kids[1]), low>>
        [] OTHER -> Reversed(e, k, q) \o <<PopBy(op, "A"), PopBy(op, "B")>>

-----------------------------------------------------------------------------
(* emitBinOpIfConstants(): reached with two constants only when the value  *)
(* of the operation is not defined, a division by zero.                    *)
DividesConstants(e) ==
  /\ IsConst(Left(e)) /\ IsConst(Right(e))
  /\ ~ Left(e).type.signed /\ ~ Right(e).type.signed

(* emitAddImmediateToVariable() *)
EmitAddImmediateToVariable(v, w) ==
  LET imm == (w * IF IsPtrOrArray(v.type) THEN PointedSize(v.type) ELSE 1) % WORD
      value == IF IsByte(v.type) THEN <<AtVar("LD", "B", v), ToWord(v.type)>>
               ELSE <<AtVar("LD", "D", v)>>
  IN  IF v.type.kind = "array"
        THEN <<Ins("LEA", "X", ",U", v.v + imm), Tfr("X,D")>>
        ELSE value \o (IF imm = 0 THEN <<>> ELSE <<Hex("ADD", "D", imm)>>)

(* emitAddIntegerToPointer(): the integer is on the stack, the pointer in  *)
(* D; t is the type of the operand taken for the pointer.                  *)
EmitAddIntegerToPointer(t, op) ==
  LET size == PointedSize(t)
      product == <<PopBy("LD", "X"), PSHS("B,A"), Dec("LD", "D", size), Utility("MUL16")>>
  IN  CASE IsIntegral(t) \/ size <= 1 -> <<PopBy(op, "D")>>
        [] size = 2 -> <<Ins(op, "D", ",S", 0), PopBy(op, "D")>>
        [] op = "ADD" -> product \o <<PopBy("ADD", "D")>>
        [] OTHER -> product \o <<Tfr("D,X"), PULS("A,B"), PSHS("X"), PopBy("SUB", "D")>>

HalfD == <<Inherent("LSR", "A"), Inherent("ROR", "B")>>
TwiceD == <<Inherent("LSL", "B"), Inherent("ROL", "A")>>

(* The number of bytes in D as a number of elements. *)
EmitPointerDifference(size) ==
  CASE size = 1 -> <<>>
    [] size = 2 -> HalfD
    [] size = 4 -> HalfD \o HalfD
    [] size = 8 -> <<Utility("divDBy8")>>
    [] size = 16 -> <<Utility("divDBy16")>>
    [] OTHER -> <<Tfr("D,X"), Dec("LD", "D", size), Utility("DIV16"), Tfr("X,D")>>

ToWords(t) == IsPtrOrArray(t) /\ IsWord(Pointed(t))

(* emitAdd() *)
EmitAdd(e, k, q) ==
  LET l == Left(e)
      r == Right(e)
      sub == e.op = "-"
      combined ==
        CASE IsByte(e.type) -> <<LEAS(1), PopBy(IF sub THEN "SUB" ELSE "ADD", "B")>>
          [] ~ sub /\ ToWords(l.type) /\ IsIntegral(r.type) -> <<Ins("ADD", "D", ",S", 0), PopBy("ADD", "D")>>
          [] ~ sub /\ ToWords(r.type) /\ IsIntegral(l.type) -> TwiceD \o <<PopBy("ADD", "D")>>
          [] ~ sub -> EmitAddIntegerToPointer(IF IsPtrOrArray(r.type) THEN r.type ELSE l.type, "ADD")
          [] IsPtrOrArray(l.type) /\ IsPtrOrArray(r.type) ->
               <<PopBy("SUB", "D")>> \o EmitPointerDifference(PointedSize(l.type))
          [] OTHER -> EmitAddIntegerToPointer(l.type, "SUB")
  IN  IF IsVar(l) /\ IsConst(r)
        THEN EmitAddImmediateToVariable(l, (IF sub THEN - r.value ELSE r.value) % WORD)
        ELSE Reversed(e, k, q) \o combined

-----------------------------------------------------------------------------
(* Multiplication, division and modulo.                                    *)

IsPowerOf2(w) == w \in {2 ^ j : j \in 0 .. 2 * Bits - 1}
Log2(w) == CHOOSE j \in 0 .. 2 * Bits - 1 : 2 ^ j = w

Simple(e) == IsVar(e) \/ IsConst(e)

(* An operand as the argument of an instruction. *)
With(op, r, e) == IF IsConst(e) THEN Hex(op, r, e.value) ELSE AtVar(op, r, e)

(* A shift is chosen for 2, 4, 8, 16 and 32. *)
CheapFactor(w) == w = 0 \/ (IsPowerOf2(w) /\ w <= BYTE \div 8)

MultiplyBytes(l, r) ==
  LET masked(e) == IF IsConst(e) THEN [e EXCEPT !.value = @ % BYTE] ELSE e
      swap == IsConst(l) /\ CheapFactor(l.value % BYTE)
      a == masked(IF swap THEN r ELSE l)
      b == masked(IF swap THEN l ELSE r)
  IN  CASE IsConst(b) /\ b.value = 0 -> <<ClrB>>
        [] IsConst(b) /\ CheapFactor(b.value) ->
             <<With("LD", "B", a)>> \o Repeat(<<Inherent("LSL", "B")>>, Log2(b.value))
        [] OTHER -> <<With("LD", "A", a), With("LD", "B", b), Inherent("MUL", "")>>

IsSingleByteConstant(e) == IsConst(e) /\ e.value < BYTE

(* isEffectiveUnsignedByte() *)
IsEffectiveUnsignedByte(e) == ~ e.type.signed /\ (IsByte(e.type) \/ IsSingleByteConstant(e))

(* emitMulOfTypeUnsignedBytesGivingUnsignedWord() *)
MultiplyUnsignedBytes(e, k, q) ==
  LET r == Right(e)
      other == IF Simple(Left(e)) /\ Simple(r) THEN <<With("LD", "A", r)>>
               ELSE <<PSHS("B")>> \o q \o <<PULS("A")>>
  IN  k \o other \o <<Inherent("MUL", "")>>

(* The divisor is a known power of two. *)
DivideByPower(e, value) ==
  LET d == Right(e).value
      shift == IF e.type.signed THEN "ASR" ELSE "LSR"
  IN  value \o
      CASE IsByte(e.type) -> Repeat(<<Inherent(shift, "B")>>, Log2(d))
        [] d = BYTE -> <<Tfr("A,B"), ClrA>>
        [] OTHER -> Repeat(<<Inherent(shift, "A"), Inherent("ROR", "B")>>, Log2(d))

ModuloPower(e, value) ==
  LET d == Right(e).value
      byte == IsByte(e.type)
      highByte(ins) == IF byte THEN <<>> ELSE <<ins>>
  IN  IF d = 1 THEN highByte(ClrA) \o <<ClrB>>
      ELSE value \o highByte(Hex("AND", "A", (d - 1) \div BYTE)) \o <<Hex("AND", "B", (d - 1) % BYTE)>>

(* An unsigned division whose divisor is a constant or a variable; the     *)
(* conditions of its cases are those of the code, in its order.            *)
SimpleDivisor(e) ==
  /\ e.op # "*"
  /\ IsByte(e.type) \/ (~ IsByte(Left(e).type) /\ ~ IsByte(Right(e).type))
  /\ Simple(Right(e))
  /\ IsUnsignedOrPositiveConst(Left(e)) /\ IsUnsignedOrPositiveConst(Right(e))

ByZero(e)    == IsConst(Right(e)) /\ Right(e).value = 0
ByShifts(e)  == /\ e.op = "/" /\ IsConst(Right(e)) /\ IsPowerOf2(Right(e).value)
                /\ IsByte(e.type) \/ Right(e).value <= BYTE
ByMask(e)    == e.op = "%" /\ IsConst(Right(e)) /\ IsPowerOf2(Right(e).value)
BySeven(e)   == IsConst(Right(e)) /\ Right(e).value = 7 /\ IsByte(e.type)
OfZero(e)    == IsConst(Left(e)) /\ Left(e).value = 0

DividesSimply(e) ==
  SimpleDivisor(e) /\ (ByZero(e) \/ ByShifts(e) \/ ByMask(e) \/ BySeven(e) \/ OfZero(e) \/ IsByte(e.type))

(* The quotient is in B, the remainder in A. *)
ByteResult(e) == IF e.op = "%" THEN <<Tfr("A,B")>> ELSE <<>>
DivideBytes(e) == <<Utility(IF e.type.signed THEN "SDIV8" ELSE "DIV8")>> \o ByteResult(e)

EmitSimpleDivision(e, k) ==
  LET l == Left(e)
      loaded(r) == IF Simple(l) THEN <<With("LD", r, l)>> ELSE k
      inA == IF Simple(l) THEN <<With("LD", "A", l)>> ELSE k \o <<Tfr("B,A")>>
  IN  CASE ByZero(e)   -> <<Dec("LD", Acc(e.type), WORD - 1)>>
        [] ByShifts(e) -> DivideByPower(e, loaded(Acc(e.type)))
        [] ByMask(e)   -> ModuloPower(e, loaded(Acc(e.type)))
        [] BySeven(e)  -> inA \o <<Utility("DIV8BY7")>> \o ByteResult(e)
        [] OfZero(e)   -> (IF IsByte(e.type) THEN <<>> ELSE <<ClrA>>) \o <<ClrB>>
        [] OTHER       -> inA \o <<With("LD", "B", Right(e))>> \o DivideBytes(e)

Routine(e) == IF e.op = "*" THEN "MUL16" ELSE IF e.type.signed THEN "SDIV16" ELSE "DIV16"

(* The routine, X and D its operands: the quotient is left in X. *)
Call16(e) == <<Utility(Routine(e))>> \o (IF e.op = "/" THEN <<Tfr("X,D")>> ELSE <<>>)

TimesTen(e) == e.op = "*" /\ IsWord(e.type) /\ 10 \in {Left(e).value, Right(e).value}

(* Mutant: the stack is released before the second operand is read. *)
SecondByteInA_released == <<LEAS(2), Ins("LD", "A", ",S", -1)>>

(* The low byte of the operand that was pushed. *)
SecondByteInA == <<Ins("LD", "A", ",S", 1), LEAS(2)>>

(* emitMulDivMod() *)
EmitMulDivMod(e, k, q) ==
  LET l == Left(e)
      r == Right(e)
      simple == Simple(l) /\ Simple(r)
  IN  CASE DividesConstants(e) -> <<Dec("LD", Acc(e.type), IF IsByte(e.type) THEN BYTE - 1 ELSE WORD - 1)>>
        [] e.op = "*" /\ IsByte(e.type) /\ simple -> MultiplyBytes(l, r)
        [] e.op = "/" /\ r.value = 10 /\ ~ l.type.signed ->
             IF IsConst(l) THEN <<Hex("LD", "D", l.value \div 10)>>
             ELSE k \o Widened(l.type) \o <<Utility("DIV16BY10")>>
        [] DividesSimply(e) -> EmitSimpleDivision(e, k)
        [] TimesTen(e) -> (IF l.value = 10 THEN q ELSE k) \o <<Utility("MUL16BY10")>>
        [] ~ IsByte(l.type) /\ ~ IsByte(r.type) /\ simple ->
             <<With("LD", "X", l), With("LD", "D", r)>> \o Call16(e)
        [] e.op = "*" /\ IsEffectiveUnsignedByte(l) /\ IsEffectiveUnsignedByte(r) ->
             MultiplyUnsignedBytes(e, k, q)
        [] IsByte(e.type) ->
             BothWords(l, k, r, q) \o SecondByteInA
               \o (IF e.op = "*" THEN <<Inherent("MUL", "")>> ELSE DivideBytes(e))
        [] OTHER -> BothWords(l, k, r, q) \o <<PULS("X")>> \o Call16(e)

-----------------------------------------------------------------------------
(* Shifts.  With "at" an assignment: k leaves the address of the left side *)
(* in X, the shifted value is stored there and X is kept.                  *)

SignOfB == <<Inherent("SEX", ""), Tfr("A,B"), ClrA>>

ShiftByte(t, left, n) ==
  IF ~ left /\ t.signed /\ n = Bits - 1 THEN SignOfB
  ELSE Repeat(<<Inherent(IF left THEN "LSL" ELSE IF t.signed THEN "ASR" ELSE "LSR", "B")>>, n)

ShiftWord(t, left, n) ==
  Repeat(IF left THEN TwiceD ELSE <<Inherent(IF t.signed THEN "ASR" ELSE "LSR", "A"), Inherent("ROR", "B")>>, n)

(* A word by Bits + m places: the bytes move, then m shifts of one of them. *)
ShiftWordFar(t, left, m) ==
  IF left
    THEN <<Tfr("B,A"), ClrB>>
           \o IF m >= Bits THEN <<ClrA>> ELSE Repeat(<<Inherent("LSL", "A")>>, m)
    ELSE <<Tfr("A,B"), ToWord(t)>>
           \o CASE m >= Bits - 1 /\ t.signed -> <<Tfr("A,B")>>
                [] m >= Bits /\ ~ t.signed -> <<ClrB>>
                [] OTHER -> Repeat(<<Inherent(IF t.signed THEN "ASR" ELSE "LSR", "B")>>, m)

ShiftUtility(byte, left, signed) ==
  CASE left -> IF byte THEN "shiftByteLeft" ELSE "shiftLeft"
    [] signed -> IF byte THEN "shiftByteRightSigned" ELSE "shiftRightSigned"
    [] OTHER -> IF byte THEN "shiftByteRightUnsigned" ELSE "shiftRightUnsigned"

(* The number of places is in D, the value under the return address. *)
EmitVariableShift(e, left, at, value, q) ==
  LET byte == IsByte(e.type)
      saved(code) == IF at THEN <<PSHS("X")>> \o code \o <<PULS("X")>> ELSE code
  IN  value \o saved(<<PSHS(IF byte THEN "B" ELSE "B,A")>> \o q
                       \o (IF IsByte(Right(e).type) THEN <<ClrA>> ELSE <<>>)
                       \o <<Utility(ShiftUtility(byte, left, Left(e).type.signed))>>)

(* emitShift() *)
EmitShift(e, left, at, k, q) ==
  LET t == Left(e).type
      n == Right(e).value
      byte == IsByte(e.type)
      r == Acc(e.type)
      value == k \o IF at THEN <<OnX("LD", r)>> ELSE <<>>
      store == IF at THEN <<OnX("ST", r)>> ELSE <<>>
  IN  CASE IsConst(Right(e)) /\ n < Bits ->
             value \o (IF byte THEN ShiftByte(t, left, n) ELSE ShiftWord(t, left, n)) \o store
        [] IsConst(Right(e)) /\ byte ->
             (IF ~ left /\ t.signed THEN value \o SignOfB ELSE <<ClrB>>) \o store
        [] IsConst(Right(e)) -> value \o ShiftWordFar(t, left, n - Bits) \o store
        [] OTHER -> EmitVariableShift(e, left, at, value, q) \o store

-----------------------------------------------------------------------------
(* Comparisons.                                                            *)

(* Mutant: one signed operand is enough. *)
IsSignedComparison_either(e) == Left(e).type.signed \/ Right(e).type.signed

(* isSignedComparison(), on the types of two numbers. *)
IsSignedComparison(e) == Left(e).type.signed /\ Right(e).type.signed

BranchOf(e) ==
  LET signed == IsSignedComparison(e)
  IN  CASE e.op = "==" -> "BEQ"
        [] e.op = "!=" -> "BNE"
        [] e.op = "<"  -> IF signed THEN "BLT" ELSE "BLO"
        [] e.op = "<=" -> IF signed THEN "BLE" ELSE "BLS"
        [] e.op = ">"  -> IF signed THEN "BGT" ELSE "BHI"
        [] e.op = ">=" -> IF signed THEN "BGE" ELSE "BHS"

(* emitIntegralComparisonIfNoFuncAddrExprInvolved() *)
ComparesVarWithConst(e) == IsVar(Left(e)) /\ IsIntegral(Left(e).type) /\ IsConst(Right(e))

CompareVarWithConst(v, w) ==
  CASE ~ IsByte(v.type) -> <<AtVar("LD", "D", v), CompareD(w)>>
    [] w < BYTE -> <<AtVar("LD", "B", v), Hex("CMP", "B", w)>>
    [] OTHER -> <<AtVar("LD", "B", v), ToWord(v.type), CompareD(w)>>

ComparesVars(e) ==
  /\ IsVar(Left(e)) /\ IsVar(Right(e))
  /\ IsIntegral(Left(e).type) /\ IsIntegral(Right(e).type)
  /\ Left(e).type.bytes = Right(e).type.bytes

(* emitUnsignedComparisonOfByteExprWithByteConstant(): the constant is a   *)
(* number written in the source.                                           *)
IsUnsignedNumber(e) == e.op = "number" /\ ~ e.type.signed /\ Fits8Bits(e)
IsUnsignedByte(e) == IsByte(e.type) /\ ~ e.type.signed
ComparesWithNumber(e, a, b) == e.op \in {"==", "!="} /\ IsUnsignedNumber(b) /\ IsUnsignedByte(a)

(* The flags of a comparison: emitComparison(). *)
EmitCompare(e, k, q) ==
  LET l == Left(e)
      r == Right(e)
      small == Fits8Bits(l) /\ Fits8Bits(r) /\ ~ l.type.signed /\ ~ r.type.signed
  IN  CASE ComparesVarWithConst(e) -> CompareVarWithConst(l, r.value)
        [] ComparesVars(e) -> <<AtVar("LD", Acc(l.type), l), AtVar("CMP", Acc(r.type), r)>>
        [] ComparesWithNumber(e, l, r) -> k \o <<Dec("CMP", "B", r.value % BYTE)>>
        [] ComparesWithNumber(e, r, l) -> q \o <<Dec("CMP", "B", l.value % BYTE)>>
        [] OTHER -> Reversed(e, k, q) \o IF small THEN <<LEAS(1), PopBy("CMP", "B")>> ELSE <<PopBy("CMP", "D")>>

(* The result of a comparison as a byte. *)
EmitComparison(e, k, q, n) ==
  EmitCompare(e, k, q)
    \o <<Long(BranchOf(e), 3 * n), ClrB, Ins("BRA", "", "L", 3 * n + 1), Label(3 * n),
         Dec("LD", "B", 1), Label(3 * n + 1)>>

(* emitLogicalAnd() *)
EmitLogicalAnd(e, k, q, n) ==
  LET end == Long("BEQ", 3 * n)
  IN  k \o <<TestOf(Left(e).type), end>> \o q \o <<TestOf(Right(e).type), end, Dec("LD", "B", 1), Label(3 * n)>>

(* emitLogicalOr() *)
EmitLogicalOr(e, k, q, n) ==
  LET test(t) == IF IsByte(t) THEN Inherent("TST", "B") ELSE Dec("CMP", "D", 0)
      bytes == IsByte(Left(e).type) /\ IsByte(Right(e).type)
  IN  k \o <<test(Left(e).type), Long("BNE", 3 * n)>> \o q \o <<test(Right(e).type), Long("BEQ", 3 * n + 1)>>
        \o <<Label(3 * n)>> \o (IF bytes THEN <<>> ELSE <<Dec("LD", "B", 1)>>) \o <<Label(3 * n + 1)>>
===============================================================================
