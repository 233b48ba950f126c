---------------------------- MODULE ExpressionCode ----------------------------
(***************************************************************************)
(* The code of an expression and of a statement: emitCode() of the classes *)
(* of trees.                                                               *)
(***************************************************************************)
EXTENDS CallCode

(* BinaryOpExpr::emitCode() of an operator that is not constant. *)
EmitBinary(e, lvalue, k, at, q, n) ==
  CASE e.op \in {"+", "-"} -> EmitAdd(e, k, q)
    [] e.op \in {"*", "/", "%"} -> EmitMulDivMod(e, k, q)
    [] e.op \in {"|", "^", "&"} -> EmitBitwise(e, BitwiseOp[e.op], k, q)
    [] e.op \in Comparisons -> EmitComparison(e, k, q, n)
    [] e.op = "&&" -> EmitLogicalAnd(e, k, q, n)
    [] e.op = "||" -> EmitLogicalOr(e, k, q, n)
    [] e.op \in {"<<", ">>"} -> EmitShift(e, e.op = "<<", FALSE, k, q)
    [] e.op \in Assignments -> EmitAssignment(e, lvalue, at, q)
    [] e.op = "[]" -> EmitArrayRef(e, lvalue, k, q)

UnaryOps == {"addr", "deref", "sizeof", "!", "neg", "id", "~"} \union Steps

(* The labels of the expression numbered n are 3n, 3n + 1 and 3n + 2; its  *)
(* sub-expressions are 4n + 1, 4n + 2 and 4n + 3.                          *)
(* The elements of a list of any length are the first sub-expression and   *)
(* the rest.                                                               *)
KidNumber(n, j) ==
  LET rest[i \in 0 .. j] == IF i = 0 THEN n ELSE 4 * rest[i - 1] + 2
  IN  4 * rest[j - 1] + 1

RECURSIVE Emit(_, _, _)
RECURSIVE EmitList(_, _, _, _)
RECURSIVE BoolJumps(_, _, _, _)

(* emitBoolJumps(): jumps to the label yes or to the label no.             *)
BoolJumps(c, yes, no, n) ==
  LET l == Left(c)
      k(j) == Emit(c.kids[j], FALSE, 4 * n + j)
      zeroTest(t) == IF IsByte(t) THEN Dec("CMP", "B", 0) ELSE CompareD(0)
      flags == IF c.op \in {"==", "!="} /\ Right(c).value = 0 THEN k(1) \o <<zeroTest(l.type)>>
               ELSE EmitCompare(c, k(1), k(2))
      first(t, f) == BoolJumps(l, t, f, 4 * n + 1) \o <<Label(3 * n)>>
      second == BoolJumps(Right(c), yes, no, 4 * n + 2)
  IN  CASE c.op = "!"  -> BoolJumps(l, no, yes, 4 * n + 1)
        [] c.op = "||" -> first(yes, 3 * n) \o second
        [] c.op = "&&" -> first(3 * n, no) \o second
        [] c.op \in Comparisons -> flags \o <<Long(BranchOf(c), yes), Long("BRA", no)>>
        [] OTHER -> Emit(c, FALSE, n) \o <<TestOf(c.type), Long("BNE", yes), Long("BRA", no)>>

(* IfStmt::emitCode() *)
EmitIf(e, n) ==
  LET c == Left(e)
      branch(j) == Emit(e.kids[j], FALSE, 4 * n + j)
  IN  IF IsConst(c) THEN branch(IF c.value # 0 THEN 2 ELSE 3)
      ELSE BoolJumps(c, 3 * n, 3 * n + 1, 4 * n + 1)
             \o <<Label(3 * n)>> \o branch(2) \o <<Long("BRA", 3 * n + 2), Label(3 * n + 1)>>
             \o branch(3) \o <<Label(3 * n + 2)>>

(* Declaration::emitSequenceInitCode() *)
EmitList(e, t, d, n) ==
  IF e.op # "list" THEN EmitElement(e, t, d, Emit(e, IsClass(e.type), n))
  ELSE FlattenSeq([j \in DOMAIN e.kids |->
         EmitList(e.kids[j], ElementType(t, j), d + Offset(e, t, j), KidNumber(n, j))])

EmitDeclaration(e, n) ==
  LET x == Left(e)
  IN  CASE Len(e.kids) = 1 -> <<>>
        [] Right(e).op = "list" -> EmitList(Right(e), x.type, x.v, n)
        [] OTHER -> EmitInit(Right(e), x.type, x.v, Emit(Right(e), IsClass(Right(e).type), 4 * n + 2))

(* An argument, by its value or by its address. *)
EmitActual(a, n) == IF a.op = "addr" THEN Emit(Left(a), TRUE, n) ELSE Emit(a, IsClass(a.type), n)

Sequences == {"block", "declare"}
Statements == Sequences \union {"init", "return"}

EmitStatement(e, n) ==
  CASE e.op \in Sequences -> FlattenSeq([j \in DOMAIN e.kids |-> Emit(e.kids[j], FALSE, KidNumber(n, j))])
    [] e.op = "init" -> EmitDeclaration(e, n)
    [] e.op = "return" ->
         EmitReturn(e, IF e.kids = <<>> THEN <<>> ELSE Emit(Left(e), IsClass(Left(e).type), 4 * n + 1))

Emit(e, lvalue, n) ==
  LET k(j) == Emit(e.kids[j], FALSE, 4 * n + j)
      at   == Emit(e.kids[1], TRUE, 4 * n + 1)
  IN  CASE e.op = "number" -> EmitNumber(e)
        [] e.op = "var" -> EmitVariable(e, lvalue)
        [] e.op = "cast" -> EmitCast(e, k(1))
        [] e.op = "?" -> EmitConditional(e, k(1), k(2), k(3), n)
        [] e.op = "if" -> EmitIf(e, n)
        [] e.op \in Statements -> EmitStatement(e, n)
        [] e.op = "call" -> EmitCall(e, lvalue, [j \in DOMAIN e.kids |-> EmitActual(e.kids[j], 4 * n + j)])
        [] e.op = "function" -> EmitFunctionAddress(e)
        [] e.op = "member" -> EmitMember(e, lvalue, at)
        [] e.op = "=" /\ IsClass(e.type) ->
             EmitClassAssignment(e, at, Emit(Right(e), IsClass(Right(e).type), 4 * n + 2))
        [] IsConst(e) -> ConstantCode(e)
        [] e.op \in UnaryOps -> EmitUnary(e, lvalue, k(1), at)
        [] OTHER -> EmitBinary(e, lvalue, k(1), at, k(2), n)
===============================================================================
