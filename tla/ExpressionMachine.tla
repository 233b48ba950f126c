--------------------------- MODULE ExpressionMachine ---------------------------
(***************************************************************************)
(* An expression compiled, and its code run on the 6809 one instruction at *)
(* a time: the code of BinaryOpExpr, UnaryOpExpr and the others against    *)
(* what the expression means.                                              *)
(***************************************************************************)
EXTENDS ExpressionCode, CMeaning

CONSTANTS
  Expressions,     \* the expressions compiled
  Starts,          \* the machines on which the code starts
  StackRoom        \* bytes below S that the code may use

VARIABLES
  expr, lvalue,    \* the expression; whether its address is wanted
  start,           \* the machine before
  code, pc, m      \* the code, the place of the next element, the machine

vars == <<expr, lvalue, start, code, pc, m>>

(* The expressions whose address can be taken. *)
IsLvalue(e) ==
  e.type.kind # "array" /\ (e.op \in {"var", "deref", "[]"} \union (Assignments \ {"<<=", ">>="}))

Init ==
  /\ expr \in Expressions
  /\ start \in Starts
  /\ lvalue \in {FALSE, IsLvalue(expr)}
  /\ m = start
  /\ code = <<>>
  /\ pc = 0

Compile ==
  /\ pc = 0
  /\ code' = Emit(expr, lvalue, 1)
  /\ pc' = 1
  /\ UNCHANGED <<expr, lvalue, start, m>>

Running == pc \in DOMAIN code

Instruction ==
  /\ Running
  /\ IsIns(code[pc]) /\ ~ IsBranch(code[pc])
  /\ m' = Execute(m, code[pc])
  /\ pc' = pc + 1
  /\ UNCHANGED <<expr, lvalue, start, code>>

Jump ==
  /\ Running
  /\ IsBranch(code[pc])
  /\ pc' = IF Taken(m, code[pc].op) THEN LabelIndex(code, code[pc].v) ELSE pc + 1
  /\ UNCHANGED <<expr, lvalue, start, code, m>>

Skip ==
  /\ Running
  /\ ~ IsIns(code[pc])
  /\ pc' = pc + 1
  /\ UNCHANGED <<expr, lvalue, start, code, m>>

Next == Compile \/ Instruction \/ Jump \/ Skip

Spec == Init /\ [][Next]_vars

Finished == pc > Len(code) /\ pc # 0

-----------------------------------------------------------------------------
(* Expressions whose code does something else than what they mean.         *)

InPlace(e) == e.op \in Assignments \ {"="}

(* BinaryOpExpr.cpp:509: only the low byte of the constant is used, and A  *)
(* is not loaded, although the type is that of a word.                     *)
MasksByteWithWord(e) ==
  /\ e.op \in {"|", "^", "&"} /\ ~ IsByte(e.type) /\ IsByte(Left(e).type) /\ IsConst(Right(e))
  /\ IsVar(Left(e)) \/ (Left(e).op = "cast" /\ IsVar(Left(e).kids[1]))

(* BinaryOpExpr.cpp:2455: the dividend goes through A, which held the high *)
(* byte of the divisor.                                                    *)
LosesDivisor(e) ==
  /\ e.op \in {"/=", "%="} /\ IsByte(e.type)
  /\ e.type.signed \/ ~ (IsEffectiveUnsignedByte(Right(e)) \/ Right(e).value \in 0 .. BYTE \div 2 - 1)

(* BinaryOpExpr.cpp:1694: the result of || on bytes is their last value.   *)
IsTruth(e) == e.op \in Comparisons \union {"&&", "!"}
KeepsByte(e) ==
  /\ e.op = "||" /\ IsByte(Left(e).type) /\ IsByte(Right(e).type)
  /\ ~ (IsTruth(Left(e)) /\ IsTruth(Right(e)))

(* BinaryOpExpr.cpp:1396, 1415: a byte variable is compared as a byte with *)
(* a byte of the other sign, or a constant that is one.                    *)
MixesSigns(e) ==
  /\ e.op \in Comparisons /\ IsVar(Left(e)) /\ IsByte(Left(e).type)
  /\ \/ IsVar(Right(e)) /\ IsByte(Right(e).type) /\ Right(e).type.signed # Left(e).type.signed
     \/ Left(e).type.signed /\ Right(e).value \in BYTE \div 2 .. BYTE - 1 /\ Right(e).type # Char

(* BinaryOpExpr.cpp:2231 and others: a constant cast to char is an operand *)
(* of a word as it was written, not sign-extended; in place, its low byte. *)
TakesByteUnextended(e) ==
  /\ e.op \in {"+=", "-=", "+", "-", "|", "^", "&"} \union Comparisons
  /\ IsVar(Left(e)) /\ Left(e).type # Char
  /\ Right(e).type = Char /\ IsConst(Right(e))
  /\ Right(e).value \in BYTE \div 2 .. IF InPlace(e) THEN WORD - 1 ELSE BYTE - 1

(* BinaryOpExpr.cpp:2600: only a pointer to words is scaled;  :925: the    *)
(* pointer is multiplied instead of the integer on its left.               *)
Unscaled(e, address) ==
  /\ e.op \in {"+=", "-="} /\ e.type.kind = "pointer"
  /\ Pointed(e.type).bytes > 1 /\ ~ IsWord(Pointed(e.type))
  /\ address \/ ~ AddsConstant(e)
MultipliesPointer(e) ==
  /\ e.op = "+" /\ IsIntegral(Left(e).type) /\ IsPtrOrArray(Right(e).type)
  /\ Pointed(e.type).bytes > 1 /\ ~ IsWord(Pointed(e.type))

(* BinaryOpExpr.cpp:2797: the offset counts bytes or words.                *)
StoresElsewhere(e) ==
  /\ e.op = "=" /\ StoresThroughCast(e) /\ ~ IsVar(Left(e).kids[1].kids[1])
  /\ Pointed(Left(Left(e).kids[1].kids[1]).type).bytes > 2

(* BinaryOpExpr.cpp:1830: X is stored through but was not loaded.          *)
StoresAnywhere(e) ==
  /\ e.op \in {"<<=", ">>="} /\ IsByte(e.type) /\ IsConst(Right(e)) /\ Right(e).value >= Bits
  /\ e.op = "<<=" \/ ~ e.type.signed

(* BinaryOpExpr.cpp:1177: the other factor is not widened.                 *)
TimesTenByte(e) ==
  e.op = "*" /\ TimesTen(e) /\ \E j \in 1 .. 2 : IsByte(e.kids[j].type)

(* ExpressionTypeSetter.cpp: a constant of eight bits takes the signed     *)
(* type of a byte.                                                         *)
ShortensConstant(e) ==
  /\ e.op = "?" /\ e.type = Char
  /\ \E j \in 2 .. 3 : e.kids[j].type # Char /\ e.kids[j].value \in BYTE \div 2 .. BYTE - 1

RECURSIVE Miscompiled(_, _)
Miscompiled(e, address) ==
  \/ MasksByteWithWord(e) \/ LosesDivisor(e) \/ KeepsByte(e) \/ MixesSigns(e) \/ TakesByteUnextended(e)
  \/ Unscaled(e, address) \/ MultipliesPointer(e) \/ StoresElsewhere(e) \/ StoresAnywhere(e)
  \/ TimesTenByte(e) \/ ShortensConstant(e)
  \/ \E j \in DOMAIN e.kids : Miscompiled(e.kids[j], FALSE)

-----------------------------------------------------------------------------
Meant == Meaning(<<>>, expr, start.mem, start.u, lvalue)

Result == IF lvalue THEN m.x ELSE Reg(m, Acc(expr.type))

(* The code that emitCode() chooses for an expression, by its shape, its   *)
(* types and its constants, leaves the value of the expression in B or D,  *)
(* or its address in X, whichever shortcut was taken; it changes the       *)
(* variables, and what pointers point to, as the expression does, and      *)
(* nothing else above the stack or far below it.                           *)
ComputesMeaning ==
  Finished /\ ~ Miscompiled(expr, lvalue) =>
    LET meant == Meant
        mem == meant.mem
    IN  /\ Result = meant.w
        /\ \A q \in Words \ (start.s - StackRoom .. start.s - 1) : m.mem[q] = mem[q]

(* It pops all that it pushes and never what its caller pushed, whatever   *)
(* branches it takes, even where it computes a wrong value.                *)
StackBalanced ==
  /\ m.s \in start.s - StackRoom .. start.s
  /\ m.u = start.u
  /\ Finished => m.s = start.s

(* It does not use the memory below S, which an interrupt may overwrite    *)
(* between any two instructions.                                           *)
NoAddress == {"LEA", "TFR", "EXG", "PSHS", "PULS", "LBSR"}
NothingBelowStack ==
  Running /\ IsIns(code[pc]) /\ code[pc].op \notin NoAddress \union Branches
    /\ code[pc].m # "" /\ ~ Immediate(code[pc])
    => Address(m, code[pc]) \notin start.s - StackRoom .. m.s - 1

(* BinaryOpExpr.cpp:2441: "Get the value of the dividend in X, without     *)
(* touching D, which contains the divisor."                                *)
DivisorInD ==
  Running /\ code[pc].m \in {"DIV16", "SDIV16"} /\ expr.op \in {"/=", "%="} =>
    LET r == Right(expr)
    IN  Reg(m, "D") = AsWord(r.type, Meaning(<<>>, r, start.mem, start.u, FALSE).w)
===============================================================================
