------------------------------- MODULE CallCode -------------------------------
(***************************************************************************)
(* The code of a function, of a call of it, of the return from it and of   *)
(* the initialization of its variables: FunctionDef.cpp,                   *)
(* FunctionCallExpr.cpp, JumpStmt.cpp, Declaration.cpp.                    *)
(*                                                                         *)
(* Nodes besides those of CTypes: "call" (v names the function and says    *)
(* how), "function" (the address of function v), "member" (of a structure, *)
(* at offset v), "list" (an initializer in braces), "init" (a variable and *)
(* its initializer), "declare" (some of them), "return" (v is the          *)
(* function) and "block".                                                  *)
(***************************************************************************)
EXTENDS AssignmentCode

FunctionLabel(f) == - 2 * f
EndLabel(f) == - 2 * f - 1

HasHiddenParam(f) == IsClass(Program[f].result)

Standard(e) == e.v.via \in {"name", "deref name"}

(* isFunctionReceivingFirstParamInReg(): the type of a variable that points *)
(* to a function does not say so.                                           *)
ReceivesFirstParamInReg(e) == Program[e.v.f].fpir /\ e.v.via # "variable"

InRegister(e, j) == j = 1 /\ ReceivesFirstParamInReg(e) /\ ~ PassesHiddenParam(e)

(* The parameter that argument j goes to, if there is one and the call      *)
(* names the function.                                                      *)
ParamOf(e, j) ==
  IF e.v.via = "name" /\ j \in DOMAIN Program[e.v.f].params
    THEN <<Program[e.v.f].params[j]>> ELSE <<>>

-----------------------------------------------------------------------------
LeaXU(d) == Ins("LEA", "X", ",U", d)

(* emitPushSingleArg() *)
PushSingle(inRegister, inX) ==
  CASE ~ inRegister -> <<PSHS(IF inX THEN "X" ELSE "B,A")>>
    [] inX -> <<Tfr("X,D")>>
    [] OTHER -> <<>>

Slot(n) == <<LEAS(- n), Ins("LEA", "X", ",S", 0)>>
Extension(t) == IF t.signed THEN Inherent("SEX", "") ELSE ClrA
WordInit(e) == Utility(IF e.type.signed THEN "initDWordFromSignedWord" ELSE "initDWordFromUnsignedWord")

(* A structure: its address in X, then a copy on the stack. *)
PushStruct(n) ==
  CASE n = 0 -> <<>>
    [] n = 4 -> <<LEAS(-4), Utility("push4ByteStruct")>>
    [] n = 5 -> <<LEAS(-5), Utility("push5ByteStruct")>>
    [] n = 1 -> <<Dec("LD", "D", 1), LEAS(-1), Utility("pushStruct"), LEAS(-1)>>
    [] OTHER -> <<Dec("LD", "D", n), LEAS(- n), Utility("pushStruct")>>

(* A long for a byte or a word: the routine converts into the slot. *)
PushLongAsWord(param) ==
  <<Tfr("X,D"), LEAS(-2), Ins("LEA", "X", ",S", IF param.bytes = 1 THEN 1 ELSE 0)>>
    \o IF param.bytes = 1
         THEN <<Utility("initByteFromDWord"), Ins("LD", "B", ",S", 1), Extension(param), Ins("ST", "A", ",S", 0)>>
         ELSE <<Utility("initWordFromDWord")>>

(* Mutant: only the low word of a long is pushed. *)
EmitArgument_short(e, j, code) ==
  LET a == e.kids[j]
  IN  code \o (IF IsByte(a.type) THEN <<ToWord(a.type)>> ELSE <<>>) \o PushSingle(InRegister(e, j), FALSE)

(* What emitArgumentPushCode() does for one argument; code gives its value, *)
(* or its address in X.                                                     *)
EmitArgument(e, j, code) ==
  LET a == e.kids[j]
      param == ParamOf(e, j)
      single(inX) == PushSingle(InRegister(e, j), inX)
  IN  CASE a.op = "addr" -> code \o single(TRUE)
        [] a.op = "var" /\ a.type.kind = "array" -> <<LeaXU(a.v)>> \o single(TRUE)
        [] a.type.kind = "long" /\ param # <<>> /\ IsIntegral(param[1]) -> code \o PushLongAsWord(param[1])
        [] IsClass(a.type) -> code \o PushStruct(a.type.bytes)
        [] OTHER ->
             code \o (IF IsByte(a.type) THEN <<ToWord(a.type)>> ELSE <<>>)
               \o IF param # <<>> /\ param[1].kind = "long"
                    THEN Slot(4) \o <<WordInit(a)>>
                    ELSE single(FALSE)

(* Mutant: a byte is taken for one byte of the stack. *)
BytesPushed_size(e, j) == IF InRegister(e, j) THEN 0 ELSE e.kids[j].type.bytes

BytesPushed(e, j) ==
  LET a == e.kids[j]
      param == ParamOf(e, j)
  IN  CASE InRegister(e, j) -> 0
        [] a.type.kind = "long" /\ param # <<>> /\ IsIntegral(param[1]) -> 2
        [] IsClass(a.type) -> IF a.type.bytes = 1 THEN 2 ELSE a.type.bytes
        [] param # <<>> /\ param[1].kind = "long" -> 4
        [] OTHER -> 2

(* The arguments are pushed from the last one to the first. *)
EmitArguments(e, codes) ==
  FlattenSeq([j \in DOMAIN codes |-> EmitArgument(e, Len(codes) + 1 - j, codes[Len(codes) + 1 - j])])

HiddenArgument(e) ==
  IF ~ PassesHiddenParam(e) THEN <<>>
  ELSE <<LeaXU(e.v.hidden), IF ReceivesFirstParamInReg(e) THEN Tfr("X,D") ELSE PSHS("X")>>

NumBytesPushed(e) ==
  MapThenSumSet(LAMBDA j : BytesPushed(e, j), DOMAIN e.kids)
    + IF PassesHiddenParam(e) /\ ~ ReceivesFirstParamInReg(e) THEN 2 ELSE 0

EmitJump(e) ==
  CASE Standard(e) -> <<Ins("LBSR", "", "F", FunctionLabel(e.v.f))>>
    [] e.v.via = "variable" -> <<Ins("LD", "D", ",U", e.v.pointer), Tfr("D,X"), Ins("JSR", "", ",X", 0)>>
    [] e.v.via = "deref" -> <<Ins("JSR", "", "[,U]", e.v.pointer)>>

PopArguments(e) == IF NumBytesPushed(e) = 0 THEN <<>> ELSE <<LEAS(NumBytesPushed(e))>>

(* FunctionCallExpr::emitCode() *)
EmitCall(e, lvalue, codes) ==
  EmitArguments(e, codes) \o HiddenArgument(e) \o EmitJump(e) \o PopArguments(e)
    \o IF lvalue THEN <<LeaXU(e.v.hidden)>> ELSE <<>>

-----------------------------------------------------------------------------
(* VariableExpr::emitCode() of the name of a function. *)
EmitFunctionAddress(e) == <<Ins("LEA", "X", "F", FunctionLabel(e.v)), Tfr("X,D")>>

(* ObjectMemberExpr::emitCode() of x.member *)
EmitMember(e, lvalue, at) ==
  LET op == IF lvalue \/ e.type.kind = "array" THEN Ins("LEA", "X", "", 0) ELSE Ins("LD", Acc(e.type), "", 0)
      x == Left(e)
      through == [op EXCEPT !.m = ",X", !.v = e.v]
  IN  (IF IsVar(x) THEN <<[op EXCEPT !.m = ",U", !.v = x.v + e.v]>>
       ELSE at \o IF lvalue /\ e.v = 0 THEN <<>> ELSE <<through>>)
      \o IF ~ lvalue /\ e.type.kind = "array" THEN <<Tfr("X,D")>> ELSE <<>>

(* emitLeftSideAddressInX(): only a variable is reached without D. *)
LeftSideAddressInX(e, at) ==
  IF IsVar(Left(e)) THEN at
  ELSE IF IsByte(Right(e).type) THEN <<PSHS("B")>> \o at \o <<PULS("B")>>
  ELSE <<PSHS("B,A")>> \o at \o <<PULS("A,B")>>

(* A structure assigned: emitAssignment() with the address of the right     *)
(* side in X.                                                               *)
EmitClassAssignment(e, at, q) ==
  LET n == e.type.bytes
      variable == IsVar(Left(e)) \/ (Left(e).op = "deref" /\ IsVar(Left(e).kids[1]))
  IN  CASE IsIntegral(Right(e).type) ->
             q \o LeftSideAddressInX(e, at) \o Widened(Right(e).type) \o <<WordInit(Right(e))>>
        [] n = 4 /\ variable -> q \o <<Tfr("X,D")>> \o at \o <<Utility("copyDWord")>>
        [] n = 4 -> q \o <<PSHS("X")>> \o at \o <<PULS("A,B"), Utility("copyDWord")>>
        [] OTHER -> q \o <<Dec("LD", "D", n), PSHS("B,A"), PSHS("X")>> \o at
                      \o <<PSHS("X"), Utility("memcpy"), LEAS(6)>>

-----------------------------------------------------------------------------
(* Declaration::emitCode() *)

(* emitSequenceInitCode() leaves the elements that are not given as they    *)
(* are, and does not pass over them.                                        *)
ElementType(t, j) == IF t.kind = "array" THEN Pointed(t) ELSE t.to[j]

RECURSIVE Written(_, _)
Written(e, t) ==
  IF e.op = "list" THEN MapThenSumSet(LAMBDA j : Written(e.kids[j], ElementType(t, j)), DOMAIN e.kids)
  ELSE CASE IsClass(t) -> t.bytes
         [] IsByte(t) -> 1
         [] OTHER -> 2

(* Where element j of the initializer goes. *)
Offset(e, t, j) == MapThenSumSet(LAMBDA i : Written(e.kids[i], ElementType(t, i)), 1 .. j - 1)

EmitElement(e, t, d, code) ==
  LET q == e.type
  IN  CASE t.kind = "long" /\ q.kind = "long" -> code \o <<Tfr("X,D"), LeaXU(d), Utility("copyDWord")>>
        [] t.kind = "long" -> code \o (IF IsByte(q) THEN <<ToWord(q)>> ELSE <<>>) \o <<LeaXU(d), WordInit(e)>>
        [] q.kind = "long" -> code \o <<Ins("LD", Acc(t), ",X", IF IsByte(t) THEN 3 ELSE 2), LeaXU(d),
                                        Ins("ST", Acc(t), ",X", 0)>>
        [] IsVar(e) /\ q.kind = "array" -> <<LeaXU(e.v), Ins("ST", "X", ",U", d)>>
        [] OTHER -> code \o (IF IsByte(q) /\ ~ IsByte(t) THEN <<ToWord(q)>> ELSE <<>>)
                      \o <<Ins("ST", Acc(t), ",U", d)>>

EmitConstantInit(e, t) ==
  LET w == IF IsByte(t) THEN e.value % BYTE ELSE e.value
  IN  CASE IsByte(t) /\ w = 0 -> <<Inherent("CLR", "B")>>
        [] IsByte(t) -> <<Hex("LD", "B", w)>>
        [] w = 0 -> <<ClrA, Inherent("CLR", "B")>>
        [] OTHER -> <<Hex("LD", "D", w)>>

(* e initializes a variable of type t at displacement d.                    *)
EmitInit(e, t, d, code) ==
  LET q == e.type
      value == IF IsConst(e) THEN EmitConstantInit(e, t)
               ELSE code \o IF ~ IsByte(t) /\ IsByte(q) THEN <<ToWord(q)>> ELSE <<>>
  IN  CASE e.op = "number" /\ e.value = 0 /\ IsByte(t) -> <<Ins("CLR", "", ",U", d)>>
        [] q.kind = "long" /\ t.kind = "long" -> code \o <<Tfr("X,D"), LeaXU(d), Utility("copyDWord")>>
        [] q.kind = "long" -> code \o <<Ins("LD", Acc(t), ",X", IF IsByte(t) THEN 3 ELSE 2), Ins("ST", Acc(t), ",U", d)>>
        [] IsClass(q) -> code \o <<PSHS("X"), Dec("LD", "D", t.bytes), LeaXU(d), Utility("copyMem"), LEAS(2)>>
        [] t.kind = "long" -> value \o (IF IsByte(q) THEN <<ToWord(q)>> ELSE <<>>) \o <<LeaXU(d), WordInit(e)>>
        [] OTHER -> value \o <<Ins("ST", Acc(t), ",U", d)>>

-----------------------------------------------------------------------------
(* JumpStmt::emitCode() of a return. The address of a structure to return   *)
(* is at the displacement that getAddressOfReturnValue() gives, in e.v.at.  *)
EmitReturn(e, code) ==
  LET f == e.v.f
      t == Program[f].result
      a == Left(e)
      to == Ins("LD", "X", ",U", e.v.at)
  IN  (CASE e.kids = <<>> -> <<>>
         [] t.kind = "long" /\ a.type.kind = "long" ->
              code \o <<Ins("LD", "D", ",U", e.v.at), Utility("copyDWordFromXToD")>>
         [] t.kind = "long" -> code \o (IF IsByte(a.type) THEN <<ToWord(a.type)>> ELSE <<>>) \o <<to, WordInit(a)>>
         [] IsClass(t) -> code \o <<PSHS("X"), to, Dec("LD", "D", t.bytes), Utility("copyMem"), LEAS(2)>>
         [] OTHER -> code \o IF IsByte(a.type) /\ ~ IsByte(t) THEN <<ToWord(a.type)>> ELSE <<>>)
      \o <<Long("BRA", EndLabel(f))>>

-----------------------------------------------------------------------------
(* FunctionDef::emitCode(); min is the lowest displacement in the frame,    *)
(* locals the number of variables there, spill the displacement of the      *)
(* parameter that comes in D, if any.                                       *)
NeedsFrame(f, locals) == Program[f].params # <<>> \/ locals > 0 \/ HasHiddenParam(f)

EmitFunction(f, min, locals, spill, code) ==
  LET framed == NeedsFrame(f, locals)
      first == IF HasHiddenParam(f) THEN "D" ELSE Acc(Program[f].params[1])
      isISR == Program[f].isISR
  IN  <<Label(FunctionLabel(f))>>
        \o (IF framed THEN <<PSHS("U"), Ins("LEA", "U", ",S", 0)>> ELSE <<>>)
        \o (IF framed /\ min < 0 THEN <<LEAS(min)>> ELSE <<>>)
        \o (IF Program[f].fpir /\ (HasHiddenParam(f) \/ Program[f].params # <<>>)
              THEN <<Ins("ST", first, ",U", spill)>> ELSE <<>>)
        \o code \o <<Label(EndLabel(f))>>
        \o CASE framed /\ isISR -> <<Ins("LEA", "S", ",U", 0), PULS("U"), Inherent("RTI", "")>>
             [] framed -> <<Ins("LEA", "S", ",U", 0), PULS("U,PC")>>
             [] OTHER -> <<Inherent(IF isISR THEN "RTI" ELSE "RTS", "")>>
===============================================================================
