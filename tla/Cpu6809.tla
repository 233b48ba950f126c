------------------------------ MODULE Cpu6809 -------------------------------
(***************************************************************************)
(* The 6809 of the simulator usim (mc6809.cc, mc6809in.cc), restricted to  *)
(* the registers and addressing modes that the compiler's code uses, for   *)
(* any width of a byte: a word is two bytes, the memory has one byte for   *)
(* every word.                                                             *)
(*                                                                         *)
(* A machine is a record of the registers a, b, x, y, u, s, the flags n,   *)
(* z, v, c (each 0 or 1) and the memory mem.  An instruction is a record:  *)
(* op is the operation and r the register in its name (<<"LD", "B">> is    *)
(* LDB; r is "L" in a long branch), m the form of its argument and v the   *)
(* number in it: "#" immediate in decimal, "#$" in hexadecimal, "#-$" in   *)
(* hexadecimal after a minus sign, ",U" and so on indexed at offset v,     *)
(* "0,X" at a zero that is written, "[,U]" indirect through the word there,*)
(* "abs" the address v, "L" the label v, "_" the function v.               *)
(***************************************************************************)
EXTENDS Integers, SequencesExt

CONSTANT Bits        \* in a byte

ASSUME BitsAssumption == Bits \in Nat /\ Bits >= 3

BYTE == 2 ^ Bits
WORD == BYTE * BYTE
Bytes == 0 .. BYTE - 1
Words == 0 .. WORD - 1

Flag(p) == IF p THEN 1 ELSE 0

-----------------------------------------------------------------------------
(* Registers and memory.  Words are stored high byte first.                *)

Wide(r) == r \in {"D", "X", "Y", "U", "S"}
Size(r) == IF Wide(r) THEN WORD ELSE BYTE

Reg(m, r) ==
  CASE r = "A" -> m.a
    [] r = "B" -> m.b
    [] r = "D" -> m.a * BYTE + m.b
    [] r = "X" -> m.x
    [] r = "Y" -> m.y
    [] r = "U" -> m.u
    [] r = "S" -> m.s
    [] r = "CC" -> (m.c + 2 * m.v + 4 * m.z + 8 * m.n) % BYTE

SetReg(m, r, w) ==
  CASE r = "A" -> [m EXCEPT !.a = w]
    [] r = "B" -> [m EXCEPT !.b = w]
    [] r = "D" -> [m EXCEPT !.a = w \div BYTE, !.b = w % BYTE]
    [] r = "X" -> [m EXCEPT !.x = w]
    [] r = "Y" -> [m EXCEPT !.y = w]
    [] r = "U" -> [m EXCEPT !.u = w]
    [] r = "S" -> [m EXCEPT !.s = w]

Read(m, p, size) ==
  IF size = BYTE THEN m.mem[p] ELSE m.mem[p] * BYTE + m.mem[(p + 1) % WORD]

Write(m, p, w, size) ==
  IF size = BYTE
    THEN [m EXCEPT !.mem[p] = w]
    ELSE [m EXCEPT !.mem = [@ EXCEPT ![p] = w \div BYTE, ![(p + 1) % WORD] = w % BYTE]]

(* extend8() *)
Extended(b) == IF b < BYTE \div 2 THEN b ELSE b - BYTE

Address(m, i) ==
  CASE i.m = ",U" -> (m.u + i.v) % WORD
    [] i.m = ",S" -> (m.s + i.v) % WORD
    [] i.m = "[,S]" -> Read(m, (m.s + i.v) % WORD, WORD)
    [] i.m \in {",X", "0,X"} -> (m.x + i.v) % WORD
    [] i.m = "[,U]" -> Read(m, (m.u + i.v) % WORD, WORD)
    [] i.m = "[,X]" -> Read(m, (m.x + i.v) % WORD, WORD)
    [] i.m = "[,PCR]" -> Read(m, i.v, WORD)
    [] i.m \in {",S+", ",S++"} -> m.s
    [] i.m \in {",X+", ",X++"} -> m.x
    [] i.m = "D,X" -> (m.x + Reg(m, "D")) % WORD
    [] i.m = "B,X" -> (m.x + Extended(m.b)) % WORD
    [] i.m \in {"abs", ",PCR"} -> i.v

(* do_postincrement() *)
PostIncremented(m, i) ==
  CASE i.m = ",S+"  -> [m EXCEPT !.s = (@ + 1) % WORD]
    [] i.m = ",S++" -> [m EXCEPT !.s = (@ + 2) % WORD]
    [] i.m = ",X+"  -> [m EXCEPT !.x = (@ + 1) % WORD]
    [] i.m = ",X++" -> [m EXCEPT !.x = (@ + 2) % WORD]
    [] OTHER -> m

Immediate(i) == i.m \in {"#", "#$", "#-$"}

Operand(m, i) ==
  IF Immediate(i) THEN i.v % Size(i.r) ELSE Read(m, Address(m, i), Size(i.r))

-----------------------------------------------------------------------------
(* Flags.                                                                  *)

Signs(m, w, size) == [m EXCEPT !.n = Flag(w >= size \div 2), !.z = Flag(w = 0)]

Logical(m, w, size) == [Signs(m, w, size) EXCEPT !.v = 0]

(* V as the carry into the sign bit, C the carry out of it.                *)
CarriesIntoSign(w, y, size) == (w % (size \div 2)) + (y % (size \div 2)) >= size \div 2

Sum(m, w, y, size) ==
  LET out == w + y >= size
  IN  [Signs(m, (w + y) % size, size)
         EXCEPT !.c = Flag(out), !.v = Flag(CarriesIntoSign(w, y, size) # out)]

(* w - y computed as w + (~y + 1), whose carries give V.                   *)
Difference(m, w, y, size) ==
  LET neg == (size - y) % size
  IN  [Signs(m, (w + neg) % size, size)
         EXCEPT !.c = Flag(w < y),
                !.v = Flag(CarriesIntoSign(w, neg, size) # (w + neg >= size))]

(* help_cmp(Byte) has its own V: the sign of the exact difference.         *)
ByteComparison(m, w, y) ==
  [Difference(m, w, y, BYTE) EXCEPT !.v = Flag(Extended(w) - Extended(y) # Extended((w - y) % BYTE))]

-----------------------------------------------------------------------------
(* Instructions.                                                           *)

Bit(w, k) == (w \div 2 ^ k) % 2

BitwiseOf(op(_, _), w, y) ==
  LET low[k \in 0 .. Bits] ==
        IF k = 0 THEN 0 ELSE low[k - 1] + 2 ^ (k - 1) * op(Bit(w, k - 1), Bit(y, k - 1))
  IN  low[Bits]

help_and(w, y) == BitwiseOf(LAMBDA p, q : p * q, w, y)
help_or(w, y)  == BitwiseOf(LAMBDA p, q : Flag(p + q > 0), w, y)
help_eor(w, y) == BitwiseOf(LAMBDA p, q : (p + q) % 2, w, y)

Bitwise(op, w, y) ==
  CASE op = "AND" -> help_and(w, y) [] op = "OR" -> help_or(w, y) [] op = "EOR" -> help_eor(w, y)

(* The operations on one byte: the byte that each of them gives, V and C.  *)
SignBit == BYTE \div 2
TopBit(w) == Bit(w, Bits - 1)
Spills(w) == Flag(TopBit(w) # Bit(w, Bits - 2))
Giving(y, v, c) == [y |-> y, v |-> v, c |-> c]

help_clr       == Giving(0, 0, 0)
help_com(w)    == Giving(BYTE - 1 - w, 0, 1)
help_neg(w)    == Giving((BYTE - w) % BYTE, Flag(w = SignBit), Flag(w = 0))
help_inc(m, w) == Giving((w + 1) % BYTE, Flag(w = SignBit - 1), m.c)
help_dec(m, w) == Giving((w + BYTE - 1) % BYTE, Flag(w = SignBit), m.c)
help_tst(m, w) == Giving(w, 0, m.c)
help_lsl(w)    == Giving((2 * w) % BYTE, Spills(w), TopBit(w))
help_rol(m, w) == Giving(((2 * w) % BYTE) + m.c, Spills(w), TopBit(w))
help_lsr(m, w) == Giving(w \div 2, m.v, w % 2)
help_asr(m, w) == Giving(w \div 2 + SignBit * TopBit(w), m.v, w % 2)
help_ror(m, w) == Giving(w \div 2 + SignBit * m.c, m.v, w % 2)

OnByte(m, op, w) ==
  CASE op = "CLR" -> help_clr
    [] op = "COM" -> help_com(w)
    [] op = "NEG" -> help_neg(w)
    [] op = "INC" -> help_inc(m, w)
    [] op = "DEC" -> help_dec(m, w)
    [] op = "TST" -> help_tst(m, w)
    [] op = "LSL" -> help_lsl(w)
    [] op = "ROL" -> help_rol(m, w)
    [] op = "LSR" -> help_lsr(m, w)
    [] op = "ASR" -> help_asr(m, w)
    [] op = "ROR" -> help_ror(m, w)

OneByteOps == {"CLR", "COM", "NEG", "INC", "DEC", "TST", "LSL", "ROL", "LSR", "ASR", "ROR"}

OneByte(m, i) ==
  LET p == IF i.r = "" THEN Address(m, i) ELSE 0
      o == OnByte(m, i.op, IF i.r = "" THEN m.mem[p] ELSE Reg(m, i.r))
      n == [Signs(m, o.y, BYTE) EXCEPT !.v = o.v, !.c = o.c]
  IN  IF i.r = "" THEN PostIncremented(Write(n, p, o.y, BYTE), i) ELSE SetReg(n, i.r, o.y)

(* The registers named by the argument of PSHS and PULS, in the order in   *)
(* which the stack receives them.                                          *)
StackList(i) ==
  CASE i.m \in {"B,A", "A,B"} -> <<"D">>
    [] i.m \in {"A", "B", "X", "Y", "U"} -> <<i.m>>
    [] i.m \in {"X,B,A", "A,B,X"} -> <<"X", "D">>
    [] i.m = "U,PC" -> <<"U">>                            \* the return is not a register's
    [] i.m = "Y,X" -> <<"Y", "X">>
    [] i.m = "Y,X,B,A" -> <<"Y", "X", "D">>

Push(m, r) ==
  LET n == IF Wide(r) THEN 2 ELSE 1
      p == (m.s - n) % WORD
  IN  [Write(m, p, Reg(m, r), Size(r)) EXCEPT !.s = p]

Pull(m, r) ==
  LET n == IF Wide(r) THEN 2 ELSE 1
  IN  SetReg([m EXCEPT !.s = (@ + n) % WORD], r, Read(m, m.s, Size(r)))

Pair(i) ==
  CASE i.m = "D,X" -> <<"D", "X">>
    [] i.m = "X,D" -> <<"X", "D">>
    [] i.m = "B,A" -> <<"B", "A">>
    [] i.m = "A,B" -> <<"A", "B">>
    [] i.m = "CC,B" -> <<"CC", "B">>

Exchanged(m, p) == SetReg(SetReg(m, p[2], Reg(m, p[1])), p[1], Reg(m, p[2]))

(* Words as signed numbers; division toward zero.                          *)
Signed(w) == IF w >= WORD \div 2 THEN w - WORD ELSE w
SignExtend(w) == IF w % BYTE >= BYTE \div 2 THEN (w % BYTE) + WORD - BYTE ELSE w % BYTE

Magnitude(n) == IF n < 0 THEN - n ELSE n
Truncated(n, d) == (IF (n < 0) = (d < 0) THEN 1 ELSE -1) * (Magnitude(n) \div Magnitude(d))
Remaining(n, d) == n - d * Truncated(n, d)

(* w, a number of the given size, shifted by n places. *)
ShiftedLeft(w, n, size) == IF n >= 2 * Bits THEN 0 ELSE (w * 2 ^ n) % size
ShiftedRight(w, n, size) == IF n >= 2 * Bits THEN 0 ELSE w \div 2 ^ n
ShiftedSigned(w, n, size) ==
  LET v == IF w >= size \div 2 THEN w - size ELSE w
  IN  IF n >= 2 * Bits THEN (IF v < 0 THEN size - 1 ELSE 0) ELSE (v \div 2 ^ n) % size

(* The routines of the library (stdlib/*.asm) that the code of an          *)
(* expression calls, by what they compute.  A shift pops the number to     *)
(* shift, of the given size.  A register that a routine says it trashes    *)
(* takes a value that depends on what was there; the flags, which no code  *)
(* tests after such a call, stay.                                          *)
ShiftResult(m, size, w) ==
  SetReg([m EXCEPT !.s = (@ + IF size = BYTE THEN 1 ELSE 2) % WORD, !.x = WORD - 1 - @, !.a = BYTE - 1 - @],
         IF size = BYTE THEN "B" ELSE "D", w)

shiftLeft(m, size) == ShiftResult(m, size, ShiftedLeft(Read(m, m.s, size), Reg(m, "D"), size))
shiftRightSigned(m, size) == ShiftResult(m, size, ShiftedSigned(Read(m, m.s, size), Reg(m, "D"), size))
shiftRightUnsigned(m, size) == ShiftResult(m, size, ShiftedRight(Read(m, m.s, size), Reg(m, "D"), size))

Divided(m, q, r) == [SetReg(m, "D", r % WORD) EXCEPT !.x = q % WORD]
DividedByte(m, q, r) == [m EXCEPT !.b = q % BYTE, !.a = r % BYTE, !.x = WORD - 1 - @]

(* Every bit of the quotient is set when the divisor is 0; then the signed *)
(* routines negate it for a negative dividend.                             *)
DIV16(m) ==
  LET d == Reg(m, "D")
  IN  IF d = 0 THEN Divided(m, WORD - 1, m.x) ELSE Divided(m, m.x \div d, m.x % d)

SDIV16(m) ==
  LET d == Signed(Reg(m, "D"))
      n == Signed(m.x)
  IN  IF d = 0 THEN Divided(m, IF n < 0 THEN 1 ELSE -1, n) ELSE Divided(m, Truncated(n, d), Remaining(n, d))

DIV8(m) == IF m.b = 0 THEN DividedByte(m, BYTE - 1, m.a) ELSE DividedByte(m, m.a \div m.b, m.a % m.b)

SDIV8(m) ==
  LET d == Extended(m.b)
      n == Extended(m.a)
  IN  IF d = 0 THEN DividedByte(m, IF n < 0 THEN 1 ELSE -1, n)
      ELSE DividedByte(m, Truncated(n, d), Remaining(n, d))

DIV8BY7(m) == DividedByte(m, m.a \div 7, m.a % 7)
DIV16BY10(m) == [SetReg(m, "D", Reg(m, "D") \div 10) EXCEPT !.x = WORD - 1 - @]
divDBy(m, n) == SetReg(m, "D", Reg(m, "D") \div n)
MUL16(m) == SetReg(m, "D", (Reg(m, "D") * m.x) % WORD)
MUL16BY10(m) == SetReg(m, "D", (10 * Reg(m, "D")) % WORD)

(* callUtility().  MUL16 has no name here. *)
Library(m, name) ==
  CASE name = "" -> MUL16(m)
    [] name = "MUL16BY10" -> MUL16BY10(m)
    [] name = "DIV16" -> DIV16(m)
    [] name = "SDIV16" -> SDIV16(m)
    [] name = "DIV8" -> DIV8(m)
    [] name = "SDIV8" -> SDIV8(m)
    [] name = "DIV8BY7" -> DIV8BY7(m)
    [] name = "DIV16BY10" -> DIV16BY10(m)
    [] name = "divDBy8" -> divDBy(m, 8)
    [] name = "divDBy16" -> divDBy(m, 16)
    [] name = "shiftLeft" -> shiftLeft(m, WORD)
    [] name = "shiftByteLeft" -> shiftLeft(m, BYTE)
    [] name = "shiftRightSigned" -> shiftRightSigned(m, WORD)
    [] name = "shiftByteRightSigned" -> shiftRightSigned(m, BYTE)
    [] name = "shiftRightUnsigned" -> shiftRightUnsigned(m, WORD)
    [] name = "shiftByteRightUnsigned" -> shiftRightUnsigned(m, BYTE)

(* A function of the program: it takes a word from the stack, returns the  *)
(* next one in D and leaves the caller's U and S.                          *)
Called(m) ==
  [SetReg(m, "D", (Read(m, m.s, WORD) + 1) % WORD) EXCEPT !.x = WORD - 1 - @, !.y = 0]

help_bit(m, w, y, size) == Logical(m, help_and(w, y), size)

(* ABX adds an unsigned byte and leaves the flags; LEA sets Z for X and Y. *)
abx(m) == [m EXCEPT !.x = (m.x + m.b) % WORD]

lea(m, i) ==
  LET p == Address(m, i)
      n == SetReg(PostIncremented(m, i), i.r, p)
  IN  IF i.r \in {"X", "Y"} THEN [n EXCEPT !.z = Flag(p = 0)] ELSE n

help_st(m, i) ==
  LET w == Reg(m, i.r)
  IN  Logical(Write(PostIncremented(m, i), Address(m, i), w, Size(i.r)), w, Size(i.r))

help_sub(m, i, w, y) ==
  SetReg(Difference(PostIncremented(m, i), w, y, Size(i.r)), i.r, (w - y) % Size(i.r))

(* The machine after an instruction that is not a branch.                  *)
Execute(m, i) ==
  LET size == Size(i.r)
      n == PostIncremented(m, i)
      w == Reg(m, i.r)
      y == Operand(m, i)
      l == StackList(i)
  IN  CASE i.op = "LD"  -> Logical(SetReg(n, i.r, y), y, size)
        [] i.op = "ST"  -> help_st(m, i)
        [] i.op = "ADD" -> SetReg(Sum(n, w, y, size), i.r, (w + y) % size)
        [] i.op = "SUB" -> help_sub(m, i, w, y)
        [] i.op = "CMP" -> IF Wide(i.r) THEN Difference(n, w, y, size) ELSE ByteComparison(n, w, y)
        [] i.op \in {"AND", "OR", "EOR"} ->
             LET q == Bitwise(i.op, w, y) IN Logical(SetReg(n, i.r, q), q, size)
        [] i.op = "BIT" -> help_bit(n, w, y, size)
        [] i.op \in OneByteOps -> OneByte(m, i)
        [] i.op = "SEX" -> SetReg(Signs(m, m.b, BYTE), "A", IF m.b < BYTE \div 2 THEN 0 ELSE BYTE - 1)
        [] i.op = "MUL" -> LET q == m.a * m.b
                           IN  [SetReg(m, "D", q) EXCEPT !.z = Flag(q = 0), !.c = Bit(q, Bits - 1)]
        [] i.op = "ABX" -> abx(m)
        [] i.op = "LEA" -> lea(m, i)
        [] i.op = "TFR" -> SetReg(m, Pair(i)[2], Reg(m, Pair(i)[1]))
        [] i.op = "LBSR" -> IF i.m = "_" THEN Called(m) ELSE Library(m, i.m)
        [] i.op = "EXG" -> Exchanged(m, Pair(i))
        [] i.op = "PSHS" -> FoldLeft(Push, m, l)
        [] i.op = "PULS" -> FoldRight(LAMBDA r, q : Pull(q, r), l, m)

Branches ==
  {"BRA", "BRN", "BEQ", "BNE", "BCC", "BCS", "BHS", "BLO", "BHI", "BLS",
   "BGE", "BLT", "BGT", "BLE", "BMI", "BPL", "BVC", "BVS"}

Taken(m, op) ==
  CASE op = "BRA" -> TRUE
    [] op = "BRN" -> FALSE
    [] op = "BEQ" -> m.z = 1
    [] op = "BNE" -> m.z = 0
    [] op \in {"BCS", "BLO"} -> m.c = 1
    [] op \in {"BCC", "BHS"} -> m.c = 0
    [] op = "BLS" -> m.c = 1 \/ m.z = 1
    [] op = "BHI" -> m.c = 0 /\ m.z = 0
    [] op = "BLT" -> m.n # m.v
    [] op = "BGE" -> m.n = m.v
    [] op = "BLE" -> m.n # m.v \/ m.z = 1
    [] op = "BGT" -> m.n = m.v /\ m.z = 0
    [] op = "BMI" -> m.n = 1
    [] op = "BPL" -> m.n = 0
    [] op = "BVS" -> m.v = 1
    [] op = "BVC" -> m.v = 0
=============================================================================
