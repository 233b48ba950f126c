----------------------------- MODULE Pseudo6809 ------------------------------
(***************************************************************************)
(* Pseudo6809, the constant propagation that the rules of -O2 run over the *)
(* elements of a block.  A simulator holds, for the registers it follows   *)
(* and for each byte pushed since it was started, the place of the         *)
(* instruction that gave the value and the value if it is known.  It also  *)
(* notes, for each place, which later instructions used its value, how     *)
(* many constants it loaded, and the stack as the instruction found it.    *)
(*                                                                         *)
(* U and S are never known.  The value of a register after an operation on *)
(* it is not known either: the left operand is only fetched for LEA.       *)
(***************************************************************************)
EXTENDS AsmText

Unknown == -1
Value(at, v) == [at |-> at, v |-> v]
Known(w) == w.v # Unknown

(* operator+ and operator- of a value and a number, modulo size; of two    *)
(* values, with the number that comes out of known ones; operator& and     *)
(* operator|, where the number that absorbs every other one decides.       *)
Shifted(w, n, size) == Value(w.at, IF Known(w) THEN (w.v + n) % size ELSE Unknown)
Combined(w, y, n) ==
  Value(IF w.at = y.at THEN w.at ELSE 0, IF Known(w) /\ Known(y) THEN n % WORD ELSE Unknown)
Absorbed(w, v) == Value(0, IF w.v = v THEN v ELSE Unknown)

Followed == {"A", "B", "X", "Y"}

(* A simulator for the elements of c, just started. *)
Started(c) ==
  [reg    |-> [r \in Followed |-> Value(0, Unknown)],
   stack  |-> <<>>,                                  \* the top first
   refs   |-> [k \in 0 .. Len(c) |-> <<>>],
   consts |-> [k \in 0 .. Len(c) |-> 0],
   stacks |-> [k \in 1 .. Len(c) + 1 |-> <<>>],
   pushed |-> FALSE,                                 \* pushedConstant
   ok     |-> TRUE]

Failed(p) == [p EXCEPT !.ok = FALSE]

(* regs.getVal().  There is no case for U, and S is never loaded with a    *)
(* known value.                                                            *)
ValueOf(p, r) ==
  CASE r \in Followed -> p.reg[r]
    [] r = "D" -> LET a == p.reg["A"]
                      b == p.reg["B"]
                  IN  Value(a.at, IF Known(a) /\ Known(b) THEN a.v * BYTE + b.v ELSE Unknown)
    [] OTHER -> Value(0, Unknown)

KnownD(p) == Known(ValueOf(p, "D"))
IsZero(p, r) == p.reg[r].v = 0
AnyKnown(p) == \E r \in Followed : Known(p.reg[r])

(* refVal(): the instruction at k uses the value w. *)
Referred(p, w, k) ==
  [p EXCEPT !.refs[w.at] = IF Contains(@, k) THEN @ ELSE Append(@, k)]

(* getVal() *)
Fetched(p, r, k) ==
  IF r = "D" THEN Referred(Referred(p, p.reg["A"], k), p.reg["B"], k)
  ELSE IF r \in Followed THEN Referred(p, p.reg[r], k) ELSE p

(* Registers::setVal() *)
Assigned(p, r, w) ==
  LET part(v, n) == Value(w.at, IF Known(w) THEN v % n ELSE Unknown)
  IN  CASE r = "D" -> [p EXCEPT !.reg["A"] = part(w.v \div BYTE, BYTE), !.reg["B"] = part(w.v, BYTE)]
        [] r \in Followed -> [p EXCEPT !.reg[r] = part(w.v, Size(r))]
        [] OTHER -> p

(* loadVal(): the value is now this instruction's, the constant is counted *)
(* for the place where it was made.                                        *)
Loaded(p, r, w, k) ==
  LET q == Assigned(p, r, Value(k, w.v))
  IN  IF Known(w) THEN [q EXCEPT !.consts[w.at] = @ + 1] ELSE q

(* addVal(): the second register is added to the first. *)
Added(p, r1, r2, k) ==
  LET w == ValueOf(p, r1)
      y == ValueOf(p, r2)
  IN  Loaded(Fetched(Fetched(p, r1, k), r2, k), r1, Combined(w, y, w.v + y.v), k)

(* exg(): only the first register is loaded, with a difference. *)
Exchange(p, r1, r2, k) ==
  LET w == ValueOf(p, r1)
      y == ValueOf(p, r2)
  IN  Loaded(Fetched(Fetched(p, r1, k), r2, k), r1, Combined(w, y, w.v - y.v), k)

(* tfr() *)
TransferTo(p, r1, r2, k) == Loaded(Fetched(p, r1, k), r2, ValueOf(p, r1), k)

(* push8(), push16() *)
Pushed(p, r) ==
  LET w == ValueOf(p, r)
      byte(v) == Value(w.at, IF Known(w) THEN v ELSE Unknown)
      bytes == IF Wide(r) THEN <<byte(w.v \div BYTE), byte(w.v % BYTE)>> ELSE <<w>>
  IN  [p EXCEPT !.stack = bytes \o @, !.pushed = @ \/ Known(w)]

(* pull8(), pull16(): the value at the top of the stack; the instruction   *)
(* at k uses it.                                                           *)
TopOf(p, n) ==
  LET a == p.stack[1]
      b == p.stack[2]
  IN  IF n = 1 THEN a
      ELSE Value(IF a.at = b.at THEN a.at ELSE 0,
                 IF Known(a) /\ Known(b) THEN a.v * BYTE + b.v ELSE Unknown)

Used(p, n, k) ==
  LET q == Referred(p, p.stack[1], k) IN IF n = 1 THEN q ELSE Referred(q, p.stack[2], k)

Popped(p, n, k) == [Used(p, n, k) EXCEPT !.stack = SubSeq(@, n + 1, Len(@))]

(* peek16() puts back two bytes of one value. *)
Peeked(p, n, k) ==
  LET top == TopOf(p, n)
      byte(v) == Value(top.at, IF Known(top) THEN v ELSE Unknown)
  IN  IF n = 1 THEN Used(p, 1, k)
      ELSE [Used(p, 2, k) EXCEPT !.stack = <<byte(top.v \div BYTE), byte(top.v % BYTE)>> \o SubSeq(@, 3, Len(@))]

BytesOfRegister(r) == IF Wide(r) THEN 2 ELSE 1

(* StackList() with D as its two bytes. *)
ByteList(e) ==
  FlattenSeq([j \in DOMAIN StackList(e) |-> IF StackList(e)[j] = "D" THEN <<"B", "A">> ELSE <<StackList(e)[j]>>])

NumBytes(e) == FoldLeft(LAMBDA n, r : n + BytesOfRegister(r), 0, ByteList(e))

(* processPush(), processPull() *)
ProcessPush(p, e, k) ==
  FoldLeft(LAMBDA q, r : Pushed(Fetched(q, r, k), r), p, ByteList(e))

ProcessPull(p, e, k) ==
  FoldRight(LAMBDA r, q :
              LET n == BytesOfRegister(r)
              IN  IF ~ q.ok \/ Len(q.stack) < n THEN Failed(q)
                  ELSE Assigned(Popped(q, n, k), r, TopOf(q, n)),
            ByteList(e), p)

-----------------------------------------------------------------------------
(* The right operand of an instruction: the simulator once it is read, and *)
(* its value, an address for LEA.                                          *)

IndexRegister(e) ==
  CASE MentionsX(e) -> "X"
    [] MentionsU(e) -> "U"
    [] MentionsS(e) -> "S"
    [] OTHER -> ""

HasConstantOffset(e) ==
  \/ e.m \in {",U", ",S", ",X", "[,U]", "[,S]", "[,X]"} /\ e.v # 0
  \/ e.m = "0,X"

(* A minus sign in an indexed operand is taken for a predecrement: one is  *)
(* subtracted from the register, and the offset is added all the same.     *)
HasMinus(e) == HasConstantOffset(e) /\ e.v < 0

Step(e) == CASE e.m \in {",X++", ",S++"} -> 2 [] Increments(e) -> 1 [] HasMinus(e) -> -1 [] OTHER -> 0

(* The bytes of the stack read at ,S ,S+ or ,S++. *)
StackOperand(p, e, k, lenient) ==
  LET n == IF Step(e) > 0 THEN Step(e) ELSE BytesOfRegister(e.r)
      nothing == Value(k, Unknown)
  IN  CASE Len(p.stack) < n ->
             [sim |-> IF lenient THEN p ELSE Failed(p), rhs |-> nothing]
        [] Step(e) > 0 -> [sim |-> Popped(p, n, k), rhs |-> TopOf(p, n)]
        [] OTHER -> [sim |-> Peeked(p, n, k), rhs |-> TopOf(p, n)]

RightOperand(p, e, k, lenient) ==
  LET r      == IndexRegister(e)
      q      == Fetched(p, r, k)
      base   == ValueOf(p, r)
      moved  == IF Step(e) # 0 THEN Loaded(q, r, Shifted(base, Step(e), WORD), k) ELSE q
      memory == Value(k, Unknown)
      offset == IF e.m = "D,X" THEN "D" ELSE "B"
      sum    == Combined(base, ValueOf(p, offset), base.v + ValueOf(p, offset).v)
      result(s, w) == [sim |-> s, rhs |-> w]
  IN  CASE Immediate(e) -> result(p, Value(k, Literal(e) % WORD))
        [] r = "" -> result(p, memory)
        [] r = "S" /\ HasMinus(e) -> result(Failed(p), memory)
        [] r = "S" /\ ~ HasConstantOffset(e) ->
             LET read == StackOperand(moved, e, k, lenient)
             IN  IF e.op = "LEA" THEN result(read.sim, base) ELSE read
        [] ByAccumulator(e) ->
             result(Fetched(moved, offset, k), IF e.op = "LEA" THEN sum ELSE memory)
        [] e.op = "LEA" ->
             LET w == Shifted(base, IF Increments(e) THEN Step(e) ELSE e.v + Step(e), WORD)
             IN  result(moved, IF Indirect(e) THEN Value(w.at, Unknown) ELSE w)
        [] OTHER -> result(moved, memory)

(* LEAS moves the stack by an offset from S, nothing else. *)
MovedStack(p, e, k) ==
  CASE ~ MentionsS(e) -> Failed(p)
    [] e.v > Len(p.stack) -> Failed(p)
    [] OTHER -> [p EXCEPT !.stack = SubSeq(@, e.v + 1, Len(@))]

-----------------------------------------------------------------------------
(* process(): the instruction e at place k.                                *)

Untracked == {"ADD", "COM", "NEG", "INC", "DEC", "EOR", "SUB", "LSL", "LSR", "ASR", "ROL", "ROR"}

(* The instructions with one target register, or none: a memory operation; *)
(* read is the simulator once the right operand is read, and the operand.  *)
Operate(read, e, k) ==
  LET q    == read.sim
      rhs  == read.rhs
      used == Fetched(q, e.r, k)
  IN  CASE ~ q.ok -> q
        [] e.op = "LEA" /\ e.r = "S" -> MovedStack(q, e, k)
        [] e.op = "LEA" -> Loaded(q, e.r, rhs, k)
        [] e.op = "LD"  -> Loaded(q, e.r, IF Immediate(e) THEN rhs ELSE Value(k, Unknown), k)
        [] e.op = "CLR" -> Loaded(q, e.r, Value(k, 0), k)
        [] e.op = "AND" -> Loaded(used, e.r, Absorbed(rhs, 0), k)
        [] e.op = "OR"  -> Loaded(used, e.r, Absorbed(rhs, BYTE - 1), k)
        [] e.op \in Untracked -> Loaded(used, e.r, Value(0, Unknown), k)
        [] e.op \in {"ST", "CMP", "TST"} -> used
        [] OTHER -> Failed(q)

ProcessOperation(p, e, k, lenient) ==
  Operate(RightOperand(IF e.op = "LEA" THEN Fetched(p, e.r, k) ELSE p, e, k, lenient), e, k)

Multiplied(p, k) ==
  LET q == Fetched(p, "D", k)
      a == p.reg["A"]
      b == p.reg["B"]
  IN  CASE a.v = 0 \/ b.v = 0 -> Loaded(q, "D", Value(k, 0), k)
        [] KnownD(p) -> Loaded(q, "D", Value(k, a.v * b.v), k)
        [] OTHER -> Loaded(q, "D", Value(k, Unknown), k)

(* SEX takes the sign to be set above 128, and process() fails after it.   *)
SignExtended(p, k) ==
  LET b == p.reg["B"]
      a == IF ~ Known(b) THEN Unknown ELSE IF b.v > BYTE \div 2 THEN BYTE - 1 ELSE 0
  IN  Failed(Loaded(Fetched(p, "B", k), "A", Value(k, a), k))

ProcessPair(p, e, k) ==
  LET first  == Pair(e)[1]
      second == Pair(e)[2]
  IN  IF e.op = "TFR" THEN TransferTo(p, first, second, k) ELSE Exchange(p, first, second, k)

Process(p0, e, k, lenient) ==
  LET p == [p0 EXCEPT !.stacks[k] = p0.stack]
  IN  CASE ~ IsIns(e) -> Failed(p)
        [] e.op = "PSHS" -> ProcessPush(p, e, k)
        [] e.op = "PULS" -> ProcessPull(p, e, k)
        [] e.op = "TST" /\ e.r # "" -> Fetched(p, e.r, k)
        [] e.op = "ABX" -> Added(p, "X", "B", k)
        [] e.op = "BRN" -> p
        [] e.op \in {"TFR", "EXG"} -> ProcessPair(p, e, k)
        [] e.op = "MUL" -> Multiplied(p, k)
        [] e.op = "SEX" -> SignExtended(p, k)
        [] IsCall(e) \/ e.op \in Branches \union {"JMP", "RTS", "RTI"} -> Failed(p)
        [] OTHER -> ProcessOperation(p, e, k, lenient)

-----------------------------------------------------------------------------
(* The loop of the rules that run the simulator over c from element i on.  *)
(* It ends before an element in Ends, gives up at one in Refuses, goes     *)
(* past the elements that are not instructions, and after each of them     *)
(* goes on while More holds of the simulator.  n counts the instructions;  *)
(* at is the place where the loop ended.                                   *)
Simulation(c, i, Ends(_, _, _), Refuses(_, _, _), More(_), lenient) ==
  LET RECURSIVE from(_, _, _), onward(_, _, _)
      result(s, at, n, ok) == [sim |-> s, at |-> at, n |-> n, ok |-> ok]
      from(p, k, n) ==
        CASE Refuses(p, c[k], k) -> result(p, k, n, FALSE)
          [] Ends(p, c[k], k) -> result(p, k, n, TRUE)
          [] IsIns(c[k]) -> onward(Process(p, c[k], k, lenient), k, n + 1)
          [] OTHER -> onward(p, k, n)
      onward(q, k, n) ==
        CASE ~ q.ok -> result(q, k, n, FALSE)
          [] k = Len(c) \/ ~ More(q) -> result(q, k + 1, n, TRUE)
          [] OTHER -> from(q, k + 1, n)
  IN  from(Started(c), i, 0)

(* The simulator after the instructions of c from i to k. *)
Simulated(c, i, k) ==
  FoldLeft(LAMBDA p, j : IF p.ok /\ IsIns(c[j]) THEN Process(p, c[j], j, FALSE) ELSE p,
           Started(c), [j \in 1 .. k - i + 1 |-> i + j - 1])
=============================================================================
