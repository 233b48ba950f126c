---------------------------- MODULE AssignmentCode ----------------------------
(***************************************************************************)
(* The code of the operators that reach memory: assignments, array         *)
(* elements, indirection, increments, and of casts and conditional         *)
(* expressions (BinaryOpExpr, UnaryOpExpr, CastExpr, ConditionalExpr).     *)
(*                                                                         *)
(* Asked for an l-value the code leaves an address in X, otherwise a value *)
(* in B or D.  In the arguments of an operator, k and q are the codes of   *)
(* the sub-expressions as r-values and at that of the left one as l-value. *)
(***************************************************************************)
EXTENDS ArithmeticCode

Accumulate(op) == IF op = "+=" THEN "ADD" ELSE "SUB"
BitwiseOp == [s \in {"|", "^", "&", "|=", "^=", "&="} |->
                CASE s \in {"|", "|="} -> "OR" [] s \in {"^", "^="} -> "EOR" [] OTHER -> "AND"]

(* The constant on the right of an assignment, cut to a byte when either   *)
(* side is one.                                                            *)
RightConstant(e) ==
  IF IsByte(e.type) \/ IsByte(Right(e).type) THEN Right(e).value % BYTE ELSE Right(e).value

-----------------------------------------------------------------------------
(* optimizeVariableCase(): "* (T * ) v = constant", where v is a pointer   *)
(* variable or an array, or such a variable plus a constant.               *)
StoresThroughCast(e) ==
  LET d == Left(e)
      p == d.kids[1].kids[1]
  IN  /\ e.op = "=" /\ IsConst(Right(e))
      /\ IsIntegral(e.type) /\ e.type.bytes = Right(e).type.bytes
      /\ d.op = "deref" /\ d.kids[1].op = "cast" /\ d.kids[1].type.kind = "pointer"
      /\ \/ IsVar(p) /\ IsPtrOrArray(p.type)
         \/ /\ p.op = "+" /\ IsVar(Left(p)) /\ IsPtrOrArray(Left(p).type) /\ IsConst(Right(p))

EmitStoreThroughCast(e) ==
  LET p == Left(e).kids[1].kids[1]
      v == IF IsVar(p) THEN p ELSE Left(p)
      offset == IF IsVar(p) THEN 0 ELSE (Right(p).value * IF IsByte(Pointed(v.type)) THEN 1 ELSE 2) % WORD
      r == Acc(e.type)
      base == IF v.type.kind = "array" THEN AtVar("LEA", "X", v) ELSE AtVar("LD", "X", v)
      store == IF IsVar(p) /\ v.type.kind = "pointer" THEN <<Ins("ST", r, "[,U]", v.v)>>
               ELSE <<base, Ins("ST", r, IF IsVar(p) THEN ",X" ELSE FromX(offset).m, offset)>>
  IN  <<Hex("LD", r, RightConstant(e))>> \o store

(* var += constant, var -= constant: the load stays when nothing is added. *)
EmitAddConstant(e) ==
  LET v == Left(e)
      size == IF IsPtrOrArray(v.type) THEN PointedSize(v.type) ELSE 1
      w == (RightConstant(e) * size) % WORD
      r == Acc(e.type)
  IN  <<AtVar("LD", r, v)>>
        \o IF w = 0 THEN <<>> ELSE <<Hex(Accumulate(e.op), r, w), AtVar("ST", r, v)>>

EmitAddVariable(e) ==
  LET r == Acc(e.type)
  IN  <<AtVar("LD", r, Left(e)), AtVar(Accumulate(e.op), r, Right(e)), AtVar("ST", r, Left(e))>>

AddsConstant(e) == e.op \in {"+=", "-="} /\ IsVar(Left(e)) /\ IsConst(Right(e))
AddsVariable(e) ==
  /\ e.op \in {"+=", "-="} /\ IsVar(Left(e)) /\ IsVar(Right(e))
  /\ IsIntegral(Left(e).type) /\ IsIntegral(Right(e).type)
  /\ Left(e).type.bytes = Right(e).type.bytes

-----------------------------------------------------------------------------
(* /= and %=: the dividend is loaded in X through its address, which is on *)
(* the stack, while the divisor waits in D.                                *)
DividendInX(e) ==
  IF IsByte(e.type)
    THEN <<PSHS("B"), Ins("LD", "B", "[,S]", 1), ToWord(Left(e).type), Tfr("D,X"), PULS("B")>>
    ELSE <<Ins("LD", "X", "[,S]", 0)>>

(* Mutant: the address stays on the stack when it is not wanted. *)
StoredInPlace_kept(e, lvalue) ==
  <<Ins("ST", Acc(e.type), "[,S]", 0)>> \o IF lvalue THEN <<PULS("X")>> ELSE <<>>

(* The result is stored, and the address of the left side popped. *)
StoredInPlace(e, lvalue) ==
  <<Ins("ST", Acc(e.type), "[,S]", 0)>> \o <<IF lvalue THEN PULS("X") ELSE LEAS(2)>>

EmitDivideAssign(e, lvalue, at, q) ==
  LET signed == Left(e).type.signed /\ Right(e).type.signed
  IN  at \o <<PSHS("X")>> \o q \o Widened(Right(e).type) \o DividendInX(e)
        \o <<Utility(IF signed THEN "SDIV16" ELSE "DIV16")>>
        \o (IF e.op = "/=" THEN <<Tfr("X,D")>> ELSE <<>>)
        \o StoredInPlace(e, lvalue)

(* The other assignments: the value is computed, kept on the stack unless  *)
(* it goes to a variable as it is, then the address of the left side.      *)
DirectStore(e) == e.op = "=" /\ IsVar(Left(e))

EmitRightSide(e, q) ==
  q \o CASE DirectStore(e) -> IF IsByte(e.type) THEN <<>> ELSE Widened(Right(e).type)
         [] IsByte(e.type) -> <<PSHS("B")>>
         [] OTHER -> Widened(Right(e).type) \o <<PSHS("B,A")>>

(* When the value of the assignment is wanted, not its l-value, a constant *)
(* or a variable on the right is loaded once more before it is stored as a *)
(* word: its operand was prepared before the code of the right side.       *)
LoadedAgain(e, lvalue) ==
  LET r == Right(e)
  IN  CASE lvalue \/ ~ (IsConst(r) \/ IsVar(r)) -> <<>>
        [] IsConst(r) -> IF IsByte(r.type) THEN <<Hex("LD", "B", RightConstant(e)), ToWord(r.type)>> ELSE <<>>
        [] r.type.kind = "array" -> <<AtVar("LEA", "X", r), Tfr("X,D")>>
        [] OTHER -> <<AtVar("LD", Acc(r.type), r)>> \o Widened(r.type)

(* The instructions on the left side, dest: a variable or ",X". *)
EmitUpdate(e, lvalue) ==
  LET byte == IsByte(e.type)
      v == IsVar(Left(e))
      dest(op, r) == IF v THEN AtVar(op, r, Left(e)) ELSE OnX(op, r)
      opX(op) == <<Ins(op, "A", ",X", 0), Ins(op, "B", ",X", 1)>>
      viaX(code) == IF v THEN code ELSE <<PSHS("X")>> \o code \o <<PULS("X")>>
      op == BitwiseOp[e.op]
  IN  CASE e.op = "=" /\ byte -> (IF v THEN <<>> ELSE <<PopBy("LD", "B")>>) \o <<dest("ST", "B")>>
        [] e.op = "=" -> (IF v THEN LoadedAgain(e, lvalue) ELSE <<PULS("A,B")>>) \o <<dest("ST", "D")>>
        [] e.op \in {"+=", "-="} /\ byte ->
             <<dest("LD", "B"), PopBy(Accumulate(e.op), "B"), dest("ST", "B"), ClrA>>
        [] e.op = "+=" /\ e.type.kind = "pointer" /\ IsWord(Pointed(e.type)) ->
             <<PopBy("LD", "D")>> \o TwiceD \o <<dest("ADD", "D"), dest("ST", "D")>>
        [] e.op = "-=" /\ e.type.kind = "pointer" /\ IsWord(Pointed(e.type)) ->
             <<PopBy("LD", "D")>> \o TwiceD
               \o <<PSHS("B,A"), dest("LD", "D"), PopBy("SUB", "D"), dest("ST", "D")>>
        [] e.op \in {"+=", "-="} ->
             <<dest("LD", "D"), PopBy(Accumulate(e.op), "D"), dest("ST", "D")>>
        [] e.op = "*=" /\ byte ->
             <<PopBy("LD", "B"), dest("LD", "A"), Inherent("MUL", ""), dest("ST", "B"), ClrA>>
        [] e.op = "*=" ->
             <<PopBy("LD", "D")>> \o viaX(<<dest("LD", "X"), Utility("MUL16")>>) \o <<dest("ST", "D")>>
        [] byte -> <<dest("LD", "B"), PopBy(op, "B"), dest("ST", "B")>>
        [] OTHER -> (IF v THEN <<dest("LEA", "X")>> ELSE <<>>)
                      \o <<PopBy("LD", "D")>> \o opX(op) \o <<OnX("ST", "D")>>

(* A variable is reached as it is. *)
LeftSideAddress(e, at) == IF IsVar(Left(e)) THEN <<>> ELSE at

(* emitAssignment() *)
EmitAssignment(e, lvalue, at, q) ==
  CASE e.op \in {"/=", "%="} -> EmitDivideAssign(e, lvalue, at, q)
    [] e.op \in {"<<=", ">>="} -> EmitShift(e, e.op = "<<=", TRUE, at, q)
    [] ~ lvalue /\ StoresThroughCast(e) -> EmitStoreThroughCast(e)
    [] ~ lvalue /\ AddsConstant(e) -> EmitAddConstant(e)
    [] ~ lvalue /\ AddsVariable(e) -> EmitAddVariable(e)
    [] OTHER -> EmitRightSide(e, q) \o LeftSideAddress(e, at) \o EmitUpdate(e, lvalue)
                  \o IF lvalue /\ IsVar(Left(e)) THEN <<AtVar("LEA", "X", Left(e))>> ELSE <<>>

-----------------------------------------------------------------------------
(* emitArrayRef() *)

(* The rows of an array of several dimensions are its elements. *)
NumBytesPerElement(e) == PointedSize(Left(e).type)

FetchOnX(e, lvalue) == IF lvalue THEN <<>> ELSE <<OnX("LD", Acc(e.type))>>

EmitElementAtConstant(e, lvalue) ==
  LET v == Left(e)
      offset == (Right(e).value * NumBytesPerElement(e)) % WORD
  IN  IF v.type.kind = "pointer"
        THEN <<AtVar("LD", "X", v)>>
               \o (IF offset = 0 THEN <<>> ELSE <<Ins("LEA", "X", ",X", offset)>>)
               \o FetchOnX(e, lvalue)
        ELSE <<Ins(IF lvalue THEN "LEA" ELSE "LD", IF lvalue THEN "X" ELSE Acc(e.type), ",U", v.v + offset)>>

(* The address of the array in X. *)
BaseInX(l, k) ==
  IF IsVar(l) THEN <<AtVar(IF l.type.kind = "array" THEN "LEA" ELSE "LD", "X", l)>>
  ELSE k \o <<Tfr("D,X")>>

ShiftedSizes == {1, 2, 4, 8, 16}

(* The index, in B or D, times the size of an element, in D.               *)
ScaleIndex(t, size, xSaved) ==
  LET both == size < BYTE /\ IsByte(t) /\ ~ t.signed
      widened == IF size \in ShiftedSizes \/ ~ both THEN Widened(t) ELSE <<>>
      saved(code) == IF xSaved THEN code ELSE <<PSHS("X")>> \o code \o <<PULS("X")>>
  IN  widened \o
      CASE size \in ShiftedSizes -> Repeat(TwiceD, CHOOSE j \in 0 .. 4 : 2 ^ j = size)
        [] both -> <<Dec("LD", "A", size), Inherent("MUL", "")>>
        [] OTHER -> saved(<<Dec("LD", "X", size), Utility("MUL16")>>)

EmitIndex(e, q) ==
  LET r == Right(e)
      size == NumBytesPerElement(e)
  IN  IF IsVar(r)
        THEN <<AtVar("LD", Acc(r.type), r)>> \o ScaleIndex(r.type, size, FALSE) \o <<Ins("LEA", "X", "D,X", 0)>>
        ELSE <<PSHS("X")>> \o q \o ScaleIndex(r.type, size, TRUE) \o <<PULS("X"), Ins("LEA", "X", "D,X", 0)>>

(* An element that is an array has an address for its value. *)
EmitArrayRef(e, lvalue, k, q) ==
  LET r == Right(e)
      isRow == e.type.kind = "array"
      address == lvalue \/ isRow
      offset == (r.value * NumBytesPerElement(e)) % WORD
      index == CASE ~ IsConst(r) -> EmitIndex(e, q)
                 [] r.value # 0 -> <<Ins("LEA", "X", ",X", offset)>>
                 [] OTHER -> <<>>
      element == IF IsVar(Left(e)) /\ IsConst(r) THEN EmitElementAtConstant(e, address)
                 ELSE BaseInX(Left(e), k) \o index \o FetchOnX(e, address)
  IN  element \o IF isRow /\ ~ lvalue THEN <<Tfr("X,D")>> ELSE <<>>

-----------------------------------------------------------------------------
(* UnaryOpExpr::emitCode() *)

EmitStep(e, at) ==
  LET inc == e.op \in Increments1
      pre == e.op \in {"++", "--"}
      one == Ins(IF inc THEN "INC" ELSE "DEC", "", ",X", 0)
      size == IF e.type.kind = "pointer" THEN PointedSize(e.type) ELSE 1
      add(up) == Dec(IF up THEN "ADD" ELSE "SUB", "D", size)
      value == OnX("LD", "B")
  IN  at \o IF IsByte(e.type)
              THEN IF pre THEN <<one, value>> ELSE <<value, one>>
              ELSE <<OnX("LD", "D"), add(inc), OnX("ST", "D")>> \o IF pre THEN <<>> ELSE <<add(~ inc)>>

(* isPostIncOfPtrToSmallType() *)
IsPostIncOfPtrToSmallType(p) ==
  /\ p.op = "x++" /\ IsVar(p.kids[1]) /\ p.type.kind = "pointer"
  /\ PointedSize(p.type) <= 2

EmitPostIncIndirection(e, lvalue) ==
  LET v == e.kids[1].kids[1]
      step == IF IsByte(e.type) THEN 1 ELSE 2
  IN  <<AtVar("LD", "X", v)>>
        \o IF lvalue
             THEN <<Ins("LEA", "X", ",X", step), AtVar("ST", "X", v), Ins("LEA", "X", ",X", - step)>>
             ELSE <<Ins("LD", Acc(e.type), IF step = 1 THEN ",X+" ELSE ",X++", 0), AtVar("ST", "X", v)>>

(* The address that is a number, cast or not. *)
HasNumberAddress(p) == p.op = "number" \/ (p.op = "cast" /\ p.kids[1].op = "number")
NumberAddress(p) == IF p.op = "number" THEN p.value ELSE p.kids[1].value

EmitIndirection(e, lvalue, k) ==
  LET p == e.kids[1]
      pointer == CASE IsVar(p) -> <<AtVar(IF p.type.kind = "array" THEN "LEA" ELSE "LD", "X", p)>>
                   [] IsByte(p.type) -> k \o <<ClrA, Tfr("D,X")>>
                   [] OTHER -> k \o <<Tfr("D,X")>>
  IN  CASE HasNumberAddress(p) ->
             IF lvalue THEN <<Hex("LD", "X", NumberAddress(p))>>
             ELSE <<Ins("LD", Acc(e.type), "abs", NumberAddress(p))>>
        [] IsPostIncOfPtrToSmallType(p) -> EmitPostIncIndirection(e, lvalue)
        [] OTHER -> pointer \o FetchOnX(e, lvalue)

EmitNot(e, k) ==
  k \o <<TestOf(e.kids[1].type), Tfr("CC,B"), Dec("AND", "B", 4), Inherent("LSR", "B"), Inherent("LSR", "B")>>

EmitUnary(e, lvalue, k, at) ==
  LET byte == IsByte(e.type)
  IN  CASE e.op = "id" -> k
        [] e.op = "neg" /\ byte -> k \o <<Inherent("NEG", "B")>>
        [] e.op = "neg" -> k \o <<Inherent("COM", "A"), Inherent("COM", "B"), Dec("ADD", "D", 1)>>
        [] e.op = "~" -> k \o (IF byte THEN <<>> ELSE <<Inherent("COM", "A")>>) \o <<Inherent("COM", "B")>>
        [] e.op \in Steps -> EmitStep(e, at)
        [] e.op = "addr" -> IF e.kids[1].type.kind = "array" THEN k ELSE at \o <<Tfr("X,D")>>
        [] e.op = "deref" -> EmitIndirection(e, lvalue, k)
        [] e.op = "!" -> EmitNot(e, k)

(* CastExpr::emitCode() *)
EmitCast(e, k) == k \o IF IsByte(e.type) THEN <<>> ELSE Widened(e.kids[1].type)

(* ConditionalExpr::emitCode(); promoteIfNeeded() *)
PromoteIfNeeded(e, other) ==
  IF ~ IsPtrOrArray(e.type) /\ e.type.bytes < other.type.bytes THEN <<ToWord(e.type)>> ELSE <<>>

EmitConditional(e, c, t, f, n) ==
  LET yes == e.kids[2]
      no  == e.kids[3]
  IN  c \o <<TestOf(e.kids[1].type), Long("BEQ", 3 * n)>> \o t \o PromoteIfNeeded(yes, no)
        \o <<Long("BRA", 3 * n + 1), Label(3 * n)>> \o f \o PromoteIfNeeded(no, yes) \o <<Label(3 * n + 1)>>

(* VariableExpr::emitCode() *)
EmitVariable(e, lvalue) ==
  CASE e.type.kind = "array" -> <<AtVar("LEA", "X", e), Tfr("X,D")>>
    [] lvalue -> <<AtVar("LEA", "X", e)>>
    [] OTHER -> <<AtVar("LD", Acc(e.type), e)>>

(* WordConstantExpr::emitCode() *)
EmitNumber(e) == IF e.value = 0 THEN <<ClrA, ClrB>> ELSE <<Hex("LD", "D", e.value)>>
===============================================================================
