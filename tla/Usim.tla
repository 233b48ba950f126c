-------------------------------- MODULE Usim ---------------------------------
(***************************************************************************)
(* The simulator usim: the 6809 of mc6809.cc and mc6809in.cc as it fetches,*)
(* decodes and executes the bytes of its memory, its interrupts, and the   *)
(* disk controller DSKCON that main.cc puts at $FF04 to $FF0A.             *)
(*                                                                         *)
(* The instructions that compiled code is made of are those of Cpu6809.    *)
(* Here are their encoding and the others: carries between bytes, decimal  *)
(* adjustment, U as a stack, subroutines, software and hardware interrupts.*)
(* To the machine of Cpu6809 are added dp, pc, the flags e, f, h and i,    *)
(* irq (an interrupt is pending), halted, and stored: the addresses, least *)
(* first, that the instruction just executed has stored to.  The memory    *)
(* may be defined on some addresses only.                                  *)
(***************************************************************************)
EXTENDS Cpu6809

CONSTANTS
  Boots,         \* what may be started: records of a cpu, an image, whether it
                 \* could be opened, the number of interrupts of the run, and
                 \* what the program does: task
  SectorSize     \* bytes transferred by the controller

ASSUME UsimAssumption == Bits = 8 /\ SectorSize \in Nat \ {0}

VARIABLES
  cpu,
  image,         \* usim.dsk: a sequence of bytes
  moved,         \* history: how many bytes of a sector each request could move
                 \* between memory and the file; fewer than SectorSize is a failure
  interrupts,    \* history: how often the interrupt timer has fired
  boot           \* history: what was started

vars == <<cpu, image, moved, interrupts, boot>>

-----------------------------------------------------------------------------
(* Registers by name, with those that Cpu6809 does without.                *)

Flags(m) == m.c + 2 * m.v + 4 * m.z + 8 * m.n + 16 * m.i + 32 * m.h + 64 * m.f + 128 * m.e

WithFlags(m, w) ==
  [m EXCEPT !.c = Bit(w, 0), !.v = Bit(w, 1), !.z = Bit(w, 2), !.n = Bit(w, 3),
            !.i = Bit(w, 4), !.h = Bit(w, 5), !.f = Bit(w, 6), !.e = Bit(w, 7)]

Wide16(r) == Wide(r) \/ r = "PC"

Get(m, r) ==
  CASE r = "PC" -> m.pc
    [] r = "DP" -> m.dp
    [] r = "CC" -> Flags(m)
    [] OTHER -> Reg(m, r)

Put(m, r, w) ==
  CASE r = "PC" -> [m EXCEPT !.pc = w]
    [] r = "DP" -> [m EXCEPT !.dp = w]
    [] r = "CC" -> WithFlags(m, w)
    [] OTHER -> SetReg(m, r, w)

Moved(m, r, n) == Put(m, r, (Get(m, r) + n) % WORD)

Skip(m, n) == Moved(m, "PC", n)
Fetch(m, n) == Read(m, m.pc, IF n = 2 THEN WORD ELSE BYTE)
Halted(m) == [m EXCEPT !.halted = TRUE]

(* A register onto the stack of s, and off it. *)
PushOn(m, s, r) ==
  LET n == Moved(m, s, IF Wide16(r) THEN -2 ELSE -1)
  IN  Write(n, Get(n, s), Get(m, r), IF Wide16(r) THEN WORD ELSE BYTE)

PullFrom(m, s, r) ==
  LET size == IF Wide16(r) THEN WORD ELSE BYTE
  IN  Put(Moved(m, s, IF Wide16(r) THEN 2 ELSE 1), r, Read(m, Get(m, s), size))

(* help_psh(), help_pul(): bit k of the list w names register k.           *)
Stacked(s) == <<"CC", "A", "B", "DP", "X", "Y", IF s = "S" THEN "U" ELSE "S", "PC">>

Listed(s, w) == SelectSeq(Stacked(s), LAMBDA r : \E k \in 1 .. 8 : Stacked(s)[k] = r /\ Bit(w, k - 1) = 1)

RECURSIVE Pushed(_, _, _)

Pushed(m, s, l) == IF l = <<>> THEN m ELSE Pushed(PushOn(m, s, Last(l)), s, Front(l))

PushList(m, s, w) == Pushed(m, s, Listed(s, w))

RECURSIVE Pulled(_, _, _)

Pulled(m, s, l) == IF l = <<>> THEN m ELSE Pulled(PullFrom(m, s, Head(l)), s, Tail(l))

PullList(m, s, w) == Pulled(m, s, Listed(s, w))

-----------------------------------------------------------------------------
(* Addressing modes.                                                       *)

Mode(opcode) ==
  LET hi == opcode \div 16
      lo == opcode % 16
  IN  CASE hi \in {0, 9, 13} -> "direct"
        [] hi = 3 -> IF lo < 4 THEN "indexed" ELSE IF lo < 8 THEN "immediate" ELSE "inherent"
        [] hi \in {4, 5} -> "inherent"
        [] hi \in {6, 10, 14} -> "indexed"
        [] hi \in {7, 11, 15} -> "extended"
        [] OTHER -> "immediate"                         \* relative is the same

IndexRegisterOf(post) == <<"X", "Y", "U", "S">>[((post \div 32) % 4) + 1]

(* do_predecrement(), do_postincrement() *)
StepOf(post) == IF post < 128 THEN 0 ELSE CASE post % 16 = 0 -> 1 [] post % 16 = 1 -> 2
                                            [] post % 16 = 2 -> -1 [] post % 16 = 3 -> -2 [] OTHER -> 0

OffsetBytes(post) ==
  IF post < 128 THEN 0 ELSE IF post % 16 \in {8, 12} THEN 1 ELSE IF post % 16 \in {9, 13, 15} THEN 2 ELSE 0

IndirectPost(post) == post >= 128 /\ Bit(post, 4) = 1

ValidPost(post) ==
  post >= 128 => post % 16 \notin (IF IndirectPost(post) THEN {0, 2, 7, 10, 14} ELSE {7, 10, 14, 15})

(* The operand for a register and an offset n that was fetched. *)
IndexedOperand(m, post, base, n) ==
  LET form == post % 16
  IN  CASE post < 128 -> base + IF post % 32 < 16 THEN post % 32 ELSE (post % 32) - 32
        [] form \in 0 .. 4 -> base
        [] form = 5  -> base + Extended(m.b)
        [] form = 6  -> base + Extended(m.a)
        [] form = 8  -> base + Extended(n)
        [] form = 9  -> base + n
        [] form = 11 -> base + m.a * BYTE + m.b
        [] form = 12 -> m.pc + Extended(n)
        [] form = 13 -> m.pc + n
        [] OTHER -> n

Indexed(m, post, p) ==
  CASE ~ ValidPost(post) -> [m |-> Halted(m), p |-> 0]
    [] IndirectPost(post) -> [m |-> m, p |-> Read(m, p, WORD)]
    [] OTHER -> [m |-> m, p |-> p]

WithOffset(m, post, r, n) ==
  Indexed(Moved(m, r, IF StepOf(post) > 0 THEN StepOf(post) ELSE 0), post,
          IndexedOperand(m, post, Get(m, r), n) % WORD)

WithPost(m, post, r, n) ==
  WithOffset(Moved(Skip(m, OffsetBytes(post)), r, IF StepOf(post) < 0 THEN StepOf(post) ELSE 0), post, r, n)

(* The machine once an indexed operand is fetched, and its address. *)
IndexedAddress(m) ==
  WithPost(Skip(m, 1), Fetch(m, 1), IndexRegisterOf(Fetch(m, 1)), Fetch(Skip(m, 1), OffsetBytes(Fetch(m, 1))))

(* fetch_effective_address() *)
EffectiveAddress(m, mode) ==
  CASE mode = "extended" -> [m |-> Skip(m, 2), p |-> Fetch(m, 2)]
    [] mode = "direct"   -> [m |-> Skip(m, 1), p |-> m.dp * BYTE + Fetch(m, 1)]
    [] mode = "indexed"  -> IndexedAddress(m)
    [] OTHER -> [m |-> Halted(m), p |-> 0]

-----------------------------------------------------------------------------
(* Decoding.  An instruction has an operation and the register it names;   *)
(* the operation "" is invalid.                                            *)

Op(op, r) == [op |-> op, r |-> r]
Invalid == Op("", "")

OnAccumulator == <<"SUB", "CMP", "SBC", "", "AND", "BIT", "LD", "ST", "EOR", "ADC", "OR", "ADD">>
OnMemory == <<"NEG", "", "", "COM", "LSR", "", "ROR", "ASR", "LSL", "ROL", "DEC", "", "INC", "TST", "JMP", "CLR">>
BranchOps == <<"BRA", "BRN", "BHI", "BLS", "BCC", "BCS", "BNE", "BEQ",
               "BVC", "BVS", "BPL", "BMI", "BGE", "BLT", "BGT", "BLE">>
Row1 == <<"", "", "NOP", "", "", "", "LBRA", "LBSR", "", "DAA", "ORCC", "", "ANDCC", "SEX", "EXG", "TFR">>
Row3 == <<Op("LEA", "X"), Op("LEA", "Y"), Op("LEA", "S"), Op("LEA", "U"), Op("PSH", "S"), Op("PUL", "S"),
          Op("PSH", "U"), Op("PUL", "U"), Invalid, Op("RTS", ""), Op("ABX", ""), Op("RTI", ""),
          Invalid, Op("MUL", ""), Invalid, Op("SWI", "1")>>

(* $80 to $FF.  There is no immediate operand to store to. *)
DecodedUpper(hi, lo) ==
  LET left == hi < 12
      stored(r) == IF hi \in {8, 12} THEN Invalid ELSE Op("ST", r)
  IN  CASE lo = 3  -> Op(IF left THEN "SUB" ELSE "ADD", "D")
        [] lo = 7  -> stored(IF left THEN "A" ELSE "B")
        [] lo = 12 -> IF left THEN Op("CMP", "X") ELSE Op("LD", "D")
        [] lo = 13 -> IF hi = 8 THEN Op("BSR", "") ELSE IF left THEN Op("JSR", "") ELSE stored("D")
        [] lo = 14 -> Op("LD", IF left THEN "X" ELSE "U")
        [] lo = 15 -> stored(IF left THEN "X" ELSE "U")
        [] OTHER -> Op(OnAccumulator[lo + 1], IF left THEN "A" ELSE "B")

Decoded(opcode) ==
  LET hi == opcode \div 16
      lo == opcode % 16
  IN  CASE hi \in {0, 6, 7} -> Op(OnMemory[lo + 1], "")
        [] hi = 1 -> Op(Row1[lo + 1], "")
        [] hi = 2 -> Op(BranchOps[lo + 1], "")
        [] hi = 3 -> Row3[lo + 1]
        [] hi \in {4, 5} -> IF lo = 14 THEN Invalid ELSE Op(OnMemory[lo + 1], IF hi = 4 THEN "A" ELSE "B")
        [] OTHER -> DecodedUpper(hi, lo)

(* After the prefix $10 or $11. *)
DecodedSecond(prefix, opcode) ==
  LET hi == opcode \div 16
      lo == opcode % 16
      left == hi \in 8 .. 11
      stored(r) == IF hi \in {8, 12} THEN Invalid ELSE Op("ST", r)
  IN  CASE opcode = 63 -> Op("SWI", IF prefix = 16 THEN "2" ELSE "3")
        [] prefix = 16 /\ hi = 2 /\ lo # 0 -> Op(BranchOps[lo + 1], "L")
        [] left /\ lo = 3  -> Op("CMP", IF prefix = 16 THEN "D" ELSE "U")
        [] left /\ lo = 12 -> Op("CMP", IF prefix = 16 THEN "Y" ELSE "S")
        [] prefix = 16 /\ hi >= 8 /\ lo = 14 -> Op("LD", IF left THEN "Y" ELSE "S")
        [] prefix = 16 /\ hi >= 8 /\ lo = 15 -> stored(IF left THEN "Y" ELSE "S")
        [] OTHER -> Invalid

-----------------------------------------------------------------------------
(* Instructions.                                                           *)

HalfCarry(w, y, c) == Flag((w % 16) + (y % 16) + c >= 16)

(* help_add(), help_adc() *)
Added(m, r, y, c) ==
  LET w   == Reg(m, r)
      sum == w + y + c
      out == sum >= BYTE
      in  == (w % 128) + (y % 128) + c >= 128
  IN  SetReg([Signs(m, sum % BYTE, BYTE) EXCEPT
                !.h = HalfCarry(w, y, c), !.c = Flag(out), !.v = Flag(in # out)], r, sum % BYTE)

(* Mutant: the borrow is added. *)
SubtractedWithBorrow_added(m, r, y) ==
  LET w == Reg(m, r)
      d == w - y + m.c
  IN  SetReg([Signs(m, d % BYTE, BYTE) EXCEPT
                !.c = Flag(d < 0), !.v = Flag(Extended(w) - Extended(y) + m.c # Extended(d % BYTE))], r, d % BYTE)

(* help_sbc(): V when the exact difference of the signed bytes is no byte. *)
SubtractedWithBorrow(m, r, y) ==
  LET w == Reg(m, r)
      d == w - y - m.c
  IN  SetReg([Signs(m, d % BYTE, BYTE) EXCEPT
                !.c = Flag(d < 0), !.v = Flag(Extended(w) - Extended(y) - m.c # Extended(d % BYTE))], r, d % BYTE)

(* daa() *)
DecimalAdjusted(m) ==
  LET low   == m.a % 16
      high  == m.a \div 16
      units == IF m.h = 1 \/ low > 9 THEN 6 ELSE 0
      tens  == IF m.c = 1 \/ high > 9 \/ (high > 8 /\ low > 9) THEN 96 ELSE 0
      sum   == m.a + units + tens
  IN  [Signs(m, sum % BYTE, BYTE) EXCEPT !.c = Flag(sum >= BYTE), !.a = sum % BYTE]

PairRegister == <<"D", "X", "Y", "U", "S", "PC", "", "", "A", "B", "CC", "DP", "DP", "DP", "DP", "DP">>

(* tfr(), exg(): the codes of two registers. *)
Exchanging(m, op, first, second) ==
  IF op = "TFR" THEN Put(m, second, Get(m, first))
  ELSE Put(Put(m, second, Get(m, first)), first, Get(m, second))

MovedBetween(m, op, codes) ==
  LET r1 == codes \div 16
      r2 == codes % 16
  IN  IF (r1 <= 5 /\ r2 <= 5) \/ (r1 >= 8 /\ r2 \in 8 .. 11)
        THEN Exchanging(m, op, PairRegister[r1 + 1], PairRegister[r2 + 1])
        ELSE Halted(m)

Jumped(m, p) == [m EXCEPT !.pc = p % WORD]

(* do_br(), do_lbr(), bsr(), lbsr(), lbra(), at the instruction that       *)
(* follows.                                                                *)
LongBranch(i) == i.r = "L" \/ i.op \in {"LBRA", "LBSR"}

BranchedBy(m, i, distance) ==
  CASE i.op \in {"BSR", "LBSR"} -> Jumped(PushOn(m, "S", "PC"), m.pc + distance)
    [] i.op = "LBRA" \/ (i.op \in Branches /\ Taken(m, i.op)) -> Jumped(m, m.pc + distance)
    [] OTHER -> m

Branched(m, i) ==
  IF LongBranch(i) THEN BranchedBy(Skip(m, 2), i, Fetch(m, 2))
  ELSE BranchedBy(Skip(m, 1), i, Extended(Fetch(m, 1)))

(* All registers on the stack, with E, and the routine at a vector.        *)
JumpedThrough(m, vector) == Jumped(m, Read(m, vector, WORD))

Vectored(m, vector) == JumpedThrough(PushList([m EXCEPT !.e = 1], "S", 255), vector)

SoftwareInterrupt(m, r) ==
  [Vectored(m, WORD - CASE r = "1" -> 6 [] r = "2" -> 12 [] r = "3" -> 14)
     EXCEPT !.f = IF r = "1" THEN 1 ELSE @, !.i = IF r = "1" THEN 1 ELSE @]

RestoredIf(m) == IF m.e = 1 THEN PullList(m, "S", 254) ELSE m

ReturnedFromInterrupt(m) == RestoredIf(PullFrom(m, "S", "CC"))

(* What is stored or compared is the register before the address changes   *)
(* it.                                                                     *)
Early(i) == i.op \in {"CMP", "ST"}

StoredTo(i, p) ==
  CASE i.op = "ST" -> IF Wide(i.r) THEN <<p, (p + 1) % WORD>> ELSE <<p>>
    [] i.r = "" /\ i.op # "TST" -> <<p>>
    [] OTHER -> <<>>

Finished(i, ea, m) ==
  IF Early(i)
    THEN [m EXCEPT !.x = ea.m.x, !.y = ea.m.y, !.u = ea.m.u, !.s = ea.m.s, !.halted = ea.m.halted,
                   !.stored = StoredTo(i, ea.p)]
    ELSE [m EXCEPT !.stored = StoredTo(i, ea.p)]

(* An operation on the operand y, as an instruction of Cpu6809. *)
OperatedOn(m, i, y, plain) ==
  CASE i.op = "ADC" -> Added(m, i.r, y, m.c)
    [] i.op = "ADD" /\ i.r # "D" -> Added(m, i.r, y, 0)
    [] i.op = "SBC" -> SubtractedWithBorrow(m, i.r, y)
    [] OTHER -> Execute(m, plain)

Operated(m, i, form, ea, y) ==
  Finished(i, ea, OperatedOn(IF Early(i) THEN [m EXCEPT !.pc = ea.m.pc] ELSE ea.m, i, y,
                             [op |-> i.op, r |-> i.r, m |-> form, v |-> IF form = "#" THEN y ELSE ea.p]))

OnOperandAt(m, i, ea) == Operated(m, i, "abs", ea, Read(ea.m, ea.p, Size(i.r)))

ToAddress(i, ea) ==
  CASE i.op = "JMP" -> Jumped(ea.m, ea.p)
    [] i.op = "JSR" -> Jumped(PushOn(ea.m, "S", "PC"), ea.p)
    [] i.op = "LEA" -> Execute(ea.m, [op |-> "LEA", r |-> i.r, m |-> "abs", v |-> ea.p])

WithoutOperand == {"SEX", "MUL", "ABX"}

WithByte(m, i, byte) ==
  CASE i.op = "PSH" -> PushList(m, i.r, byte)
    [] i.op = "PUL" -> PullList(m, i.r, byte)
    [] i.op = "ANDCC" -> WithFlags(m, Bitwise("AND", Flags(m), byte))
    [] i.op = "ORCC" -> WithFlags(m, Bitwise("OR", Flags(m), byte))
    [] OTHER -> MovedBetween(m, i.op, byte)

Instruction(m, i, mode) ==
  CASE i.op = "" -> Halted(m)
    [] i.op = "NOP" -> m
    [] i.op \in Branches \union {"BSR", "LBSR", "LBRA"} -> Branched(m, i)
    [] i.op = "RTS" -> PullFrom(m, "S", "PC")
    [] i.op = "RTI" -> ReturnedFromInterrupt(m)
    [] i.op = "SWI" -> SoftwareInterrupt(m, i.r)
    [] i.op = "DAA" -> DecimalAdjusted(m)
    [] i.op \in {"PSH", "PUL", "ANDCC", "ORCC", "TFR", "EXG"} -> WithByte(Skip(m, 1), i, Fetch(m, 1))
    [] i.op \in {"JMP", "JSR", "LEA"} -> ToAddress(i, EffectiveAddress(m, mode))
    [] i.op \in WithoutOperand \/ mode = "inherent" ->
         Execute(m, [op |-> i.op, r |-> i.r, m |-> "", v |-> 0])
    [] mode = "immediate" ->
         Operated(m, i, "#", [m |-> Skip(m, IF Wide(i.r) THEN 2 ELSE 1), p |-> 0],
                  Fetch(m, IF Wide(i.r) THEN 2 ELSE 1))
    [] OTHER -> OnOperandAt(m, i, EffectiveAddress(m, mode))

(* execute() *)
Interrupted(m) == [Vectored(m, WORD - 8) EXCEPT !.irq = FALSE]

Prefixed(m) == Fetch(m, 1) \in {16, 17}

DecodedAt(m) ==
  IF Prefixed(m) THEN DecodedSecond(Fetch(m, 1), Fetch(Skip(m, 1), 1)) ELSE Decoded(Fetch(m, 1))

FetchedAndExecuted(m) ==
  Instruction(Skip(m, IF Prefixed(m) THEN 2 ELSE 1), DecodedAt(m),
              Mode(IF Prefixed(m) THEN Fetch(Skip(m, 1), 1) ELSE Fetch(m, 1)))

(* Mutant: a mask does not hold an interrupt back. *)
Executed_unmasked(m) ==
  FetchedAndExecuted([IF m.irq THEN Interrupted(m) ELSE m EXCEPT !.stored = <<>>])

Executed(m) ==
  FetchedAndExecuted([IF m.irq /\ m.i = 0 THEN Interrupted(m) ELSE m EXCEPT !.stored = <<>>])

-----------------------------------------------------------------------------
(* The disk controller.  Its variables are seen as memory; a store to      *)
(* DCOPC makes it run.                                                     *)

DCOPC == 65284
DCDRV == DCOPC + 1
DCTRK == DCOPC + 2
DCSEC == DCOPC + 3
DCBPT == DCOPC + 4
DCSTA == DCOPC + 6

SectorsPerTrack == 18

areVariablesValid(m) ==
  /\ boot.opened                                          \* dskFile # NULL
  /\ m.mem[DCOPC] \in {2, 3}
  /\ m.mem[DCDRV] = 0
  /\ m.mem[DCTRK] < 35
  /\ m.mem[DCSEC] \in 1 .. SectorsPerTrack
  /\ Read(m, DCBPT, WORD) <= 64768

(* Mutant: the first sector of a track is taken for number 0. *)
byteOffset_fromZero(m) == (m.mem[DCTRK] * SectorsPerTrack + m.mem[DCSEC]) * SectorSize

(* The place in the image. *)
byteOffset(m) == (m.mem[DCTRK] * SectorsPerTrack + m.mem[DCSEC] - 1) * SectorSize

(* The status is set to Not Ready first, and nothing clears it.            *)
NotReady(m) == [m EXCEPT !.mem[DCSTA] = 128]

(* The bytes of the sector in memory, when all of them were read.          *)
WithSector(m, disk) ==
  LET p == Read(m, DCBPT, WORD)
  IN  [m EXCEPT !.mem = [q \in DOMAIN @ |->
         IF q \in p .. p + SectorSize - 1 THEN disk[byteOffset(m) + q - p + 1] ELSE @[q]]]

(* The first n bytes of the buffer in the image, which a sector past its   *)
(* end makes longer.                                                       *)
WithBuffer(m, disk, n) ==
  LET at == byteOffset(m)
  IN  [k \in 1 .. (IF n > 0 /\ at + n > Len(disk) THEN at + n ELSE Len(disk)) |->
         CASE k \in at + 1 .. at + n -> m.mem[Read(m, DCBPT, WORD) + k - at - 1]
           [] k <= Len(disk) -> disk[k]
           [] OTHER -> 0]

Reading(m, disk) == areVariablesValid(m) /\ m.mem[DCOPC] = 2 /\ byteOffset(m) + SectorSize <= Len(disk)
Writing(m) == areVariablesValid(m) /\ m.mem[DCOPC] = 3

(* DSKCON::execute(), when the instruction that was executed stored to     *)
(* DCOPC.  Where it stored a word there, DCDRV had not changed yet.  Of    *)
(* the sector, n bytes are moved: fewer when fseek(), fread() or fwrite()  *)
(* fail, and then what was read is thrown away.                            *)
Transferred(m, disk, n, drive) ==
  [cpu |-> [IF Reading(m, disk) /\ n = SectorSize THEN WithSector(m, disk) ELSE m EXCEPT !.mem[DCDRV] = drive],
   image |-> IF Writing(m) THEN WithBuffer(m, disk, n) ELSE disk]

AsksDisk(m) == Contains(m.stored, DCOPC)

Attended(before, m, disk, n) ==
  IF AsksDisk(m)
    THEN Transferred(NotReady(IF m.stored = <<DCOPC, DCDRV>>
                                THEN [m EXCEPT !.mem[DCDRV] = before.mem[DCDRV]] ELSE m), disk, n, m.mem[DCDRV])
    ELSE [cpu |-> m, image |-> disk]

-----------------------------------------------------------------------------
Init ==
  /\ boot \in Boots
  /\ cpu = boot.cpu
  /\ image = boot.image
  /\ moved = <<>>
  /\ interrupts = 0

(* A turn of the loop of USim::run(), at whose end the timer may have      *)
(* fired.                                                                  *)
Turn(fired) ==
  /\ ~ cpu.halted
  /\ fired => interrupts < boot.interrupts
  /\ \E m \in {Executed(cpu)} : \E n \in IF AsksDisk(m) THEN 0 .. SectorSize ELSE {0} :
       LET after == Attended(cpu, m, image, n)
       IN  /\ cpu' = [after.cpu EXCEPT !.irq = @ \/ fired]
           /\ image' = after.image
           /\ moved' = IF AsksDisk(m) THEN Append(moved, n) ELSE moved
  /\ interrupts' = interrupts + Flag(fired)
  /\ UNCHANGED boot

Next == \E fired \in BOOLEAN : Turn(fired)

Spec == Init /\ [][Next]_vars

-----------------------------------------------------------------------------
(* Properties.  The task of a program is a record whose field kind tells   *)
(* which of them it is for.                                                *)

Ended(kind) == cpu.halted /\ boot.task.kind = kind

(* The machine at the end of a run without interrupts. *)
RECURSIVE Undisturbed(_, _)

Undisturbed(m, disk) ==
  IF m.halted THEN m
  ELSE LET after == Attended(m, Executed(m), disk, SectorSize) IN Undisturbed(after.cpu, after.image)

(* An interrupt, wherever it falls, is not seen by the program: registers, *)
(* flags, the stack and all other data are those of a run without it,      *)
(* though its handler changes every register.  What the handler counts is  *)
(* not lost, even where the program changes the same counter under a mask. *)
(* Only E stays set in the flags; and an interrupt that comes while one is *)
(* pending is not another one.                                             *)
InterruptsUnseen ==
  Ended("interrupts") =>
    LET end     == Undisturbed(boot.cpu, boot.image)
        counter == boot.task.counter
        counted == cpu.mem[counter] - end.mem[counter]
    IN  /\ [cpu EXCEPT !.mem = <<>>, !.irq = FALSE, !.e = 0, !.stored = <<>>]
             = [end EXCEPT !.mem = <<>>, !.irq = FALSE, !.e = 0, !.stored = <<>>]
        /\ \A q \in DOMAIN end.mem : q \in counter + 1 .. boot.task.data \/ q \in end.s .. WORD =>
             cpu.mem[q] = end.mem[q]
        /\ counted <= interrupts
        /\ interrupts > 0 /\ ~ cpu.irq => counted > 0

-----------------------------------------------------------------------------
(* What the instructions compute together, on numbers x and y of the task. *)

SignedBy(w, size) == IF w >= size \div 2 THEN w - size ELSE w
FitsIn(n, size) == - (size \div 2) <= n /\ n < size \div 2

(* A sum or difference of words made of two bytes: the number, its carry   *)
(* or borrow, and whether the signed result fits.                          *)
WordMade(m, exact, signed) ==
  /\ Get(m, "D") = exact % WORD
  /\ m.c = Flag(exact \notin 0 .. WORD - 1)
  /\ m.v = Flag(~ FitsIn(signed, WORD))

Decimal(w) == 10 * (w \div 16) + (w % 16)

(* After a comparison of x with y, each branch is taken just when its      *)
(* relation holds.                                                         *)
BranchesRight(m, x, y, size) ==
  LET sx == SignedBy(x, size)
      sy == SignedBy(y, size)
  IN  /\ Taken(m, "BEQ") = (x = y) /\ Taken(m, "BNE") = (x # y)
      /\ Taken(m, "BLO") = (x < y) /\ Taken(m, "BHS") = (x >= y)
      /\ Taken(m, "BLS") = (x <= y) /\ Taken(m, "BHI") = (x > y)
      /\ Taken(m, "BLT") = (sx < sy) /\ Taken(m, "BGE") = (sx >= sy)
      /\ Taken(m, "BLE") = (sx <= sy) /\ Taken(m, "BGT") = (sx > sy)

(* Programs of several instructions compute what they are written for:     *)
(* words added, subtracted and shifted byte by byte through the carry,     *)
(* sums of decimal digits, products, comparisons followed by branches.     *)
(* Two cases are excepted: a subtrahend of 128 (of a byte) or 32768 (of a  *)
(* word) where V comes from the carries of its negation, and the carry of  *)
(* a decimal sum where the addition had set it, which DAA does not keep.   *)
ArithmeticAgrees ==
  Ended("arithmetic") =>
    LET x == boot.task.x
        y == boot.task.y
        s(w) == SignedBy(w, WORD)
        low(w) == w % BYTE
    IN  CASE boot.task.op = "add" -> WordMade(cpu, x + y, s(x) + s(y))
          [] boot.task.op = "subtract" -> WordMade(cpu, x - y, s(x) - s(y))
          [] boot.task.op = "decimal" ->
               /\ Decimal(cpu.a) = (Decimal(low(x)) + Decimal(low(y))) % 100
               /\ low(x) + low(y) < BYTE => cpu.c = Flag(Decimal(low(x)) + Decimal(low(y)) >= 100)
          [] boot.task.op = "halve" -> Get(cpu, "D") = (s(x) \div 2) % WORD /\ cpu.c = x % 2
          [] boot.task.op = "double" -> Get(cpu, "D") = (2 * x) % WORD /\ cpu.c = Flag(2 * x >= WORD)
          [] boot.task.op = "multiply" ->
               Get(cpu, "D") = low(x) * low(y) /\ cpu.z = Flag(low(x) * low(y) = 0)
          [] boot.task.op = "compare bytes" -> BranchesRight(cpu, low(x), low(y), BYTE)
          [] boot.task.op = "compare words" -> y # WORD \div 2 => BranchesRight(cpu, x, y, WORD)
          [] boot.task.op = "subtract bytes" -> low(y) # BYTE \div 2 => BranchesRight(cpu, low(x), low(y), BYTE)

-----------------------------------------------------------------------------
(* The disk.                                                               *)

(* A request: its operation, drive, track and sector, and its buffer.      *)
Valid(r) ==
  r.op \in {2, 3} /\ r.drive = 0 /\ r.track \in 0 .. 34 /\ r.sector \in 1 .. 18 /\ r.buffer <= 64768

(* A disk as its tracks and sectors.  Those past the end of the file are   *)
(* not there until they are written.                                       *)
Formatted(disk) ==
  LET place(t, s) == (18 * t + s - 1) * SectorSize
  IN  [k \in {<<t, s>> \in (0 .. 34) \X (1 .. 18) : place(t, s) + SectorSize <= Len(disk)} |->
         SubSeq(disk, place(k[1], k[2]) + 1, place(k[1], k[2]) + SectorSize)]

(* What dskcon() promises: the buffer and the sector are the same after a  *)
(* request, and nothing else changes.  One that fails after n bytes leaves *)
(* the memory alone, and the rest of the sector.  w has fields disk, mem.  *)
Requested(w, r, n) ==
  LET place == <<r.track, r.sector>>
      room  == r.buffer .. r.buffer + SectorSize - 1
      there == place \in DOMAIN w.disk
      bytes == [k \in 1 .. SectorSize |-> IF k <= n THEN w.mem[r.buffer + k - 1] ELSE w.disk[place][k]]
  IN  CASE ~ Valid(r) -> w
        [] r.op = 2 /\ there /\ n = SectorSize ->
             [w EXCEPT !.mem = [q \in DOMAIN @ |-> IF q \in room THEN w.disk[place][q - r.buffer + 1] ELSE @[q]]]
        [] r.op = 3 /\ (there \/ n = SectorSize) -> [w EXCEPT !.disk = (place :> bytes) @@ @]
        [] OTHER -> w

RECURSIVE AfterRequests(_, _, _)

AfterRequests(w, requests, bytes) ==
  IF requests = <<>> THEN w
  ELSE AfterRequests(Requested(w, Head(requests), Head(bytes)), Tail(requests), Tail(bytes))

(* The sectors and the buffers after the program's requests are those that *)
(* dskcon() promises, whatever was asked before, whichever transfer failed *)
(* half way and whether or not there is a diskette.                        *)
SectorsMoved ==
  Ended("disk") =>
    LET start == [disk |-> Formatted(boot.image), mem |-> boot.cpu.mem]
        end == IF boot.opened THEN AfterRequests(start, boot.task.requests, moved) ELSE start
    IN  /\ \A k \in DOMAIN end.disk : Formatted(image)[k] = end.disk[k]
        /\ \A q \in boot.task.buffers : cpu.mem[q] = end.mem[q]

(* dskcon() returns TRUE when the transfer was done: B is what it found in *)
(* DCSTA after the last request, and zero is success.                      *)
StatusReported ==
  Ended("disk") =>
    LET r == Last(boot.task.requests)
        done == boot.opened /\ Valid(r) /\ Last(moved) = SectorSize
    IN  done /\ <<r.track, r.sector>> \in DOMAIN Formatted(image) => cpu.b = 0
=============================================================================
