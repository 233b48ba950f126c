-------------------------------- MODULE CTypes --------------------------------
(***************************************************************************)
(* The types of the compiler (TypeDesc.cpp), and the expressions of the    *)
(* source with what the passes before the code generator note in them: the *)
(* type that ExpressionTypeSetter gives and the value that                 *)
(* Tree::evaluateConstantExpr() finds.                                     *)
(*                                                                         *)
(* Both depend on the sub-expressions only, so the operators that build an *)
(* expression compute them.  Arithmetic on longs and floating point are    *)
(* left out, and so are the expressions that ExpressionTypeSetter rejects. *)
(***************************************************************************)
EXTENDS AsmText, Functions

Type(kind, bytes, signed, to) == [kind |-> kind, bytes |-> bytes, signed |-> signed, to |-> to]

Integral(bytes, signed) == Type("int", bytes, signed, <<>>)
Char  == Integral(1, TRUE)
UChar == Integral(1, FALSE)
SInt  == Integral(2, TRUE)
UInt  == Integral(2, FALSE)
Pointer(t)  == Type("pointer", 2, FALSE, <<t>>)
Array(t, n) == Type("array", n * t.bytes, FALSE, <<t>>)
Struct(n)   == Type("struct", n, FALSE, <<>>)
Record(members) == Type("struct", FoldLeft(LAMBDA n, t : n + t.bytes, 0, members), FALSE, members)
LongInt(signed) == Type("long", 4, signed, <<>>)
Void == Type("void", 0, FALSE, <<>>)

Pointed(t) == t.to[1]

(* getPointedTypeSize(): an array of arrays has rows for its elements, and *)
(* a pointer to void moves by bytes.                                       *)
PointedSize(t) == IF Pointed(t) = Void THEN 1 ELSE Pointed(t).bytes

IsIntegral(t)   == t.kind = "int"
(* CLASS_TYPE: what is handled through its address. *)
IsClass(t) == t.kind \in {"struct", "long"}
IsPtrOrArray(t) == t.kind \in {"pointer", "array"}
IsByte(t) == IsIntegral(t) /\ t.bytes = 1
IsWord(t) == IsIntegral(t) /\ t.bytes = 2

-----------------------------------------------------------------------------
(* An expression: its operator, its sub-expressions, its type, its value   *)
(* if it is constant, and a number: the offset of a variable in the frame. *)
None == -1
Node(op, kids, type, value, v) == [op |-> op, kids |-> kids, type |-> type, value |-> value, v |-> v]

Left(e)  == e.kids[1]
Right(e) == e.kids[2]
IsConst(e) == e.value # None
IsVar(e)   == e.op = "var"

Variable(at, type) == Node("var", <<>>, type, None, at)
(* WordConstantExpr: a number in decimal without a suffix, a character. *)
Number(w)    == Node("number", <<>>, Integral(2, w < WORD \div 2), w, 0)
Character(w) == Node("number", <<>>, Char, w, 0)

IsCastToWord(e) == e.op = "cast" /\ e.type.bytes > 1
Is8BitConstant(e) ==
  /\ ~ IsCastToWord(e)
  /\ IsConst(e)
  /\ e.value < BYTE \/ (e.type.signed /\ Signed(e.value) \in - (BYTE \div 2) .. -1)
Fits8Bits(e) == IsByte(e.type) \/ Is8BitConstant(e)

IsUnsignedOrPositiveConst(e) ==
  \/ ~ e.type.signed
  \/ /\ IsConst(e)
     /\ IF IsByte(e.type) THEN e.value % BYTE < BYTE \div 2 ELSE e.value < WORD \div 2

(* & | ^ on words, byte by byte. *)
WordBitwise(op, w, y) == BYTE * Bitwise(op, w \div BYTE, y \div BYTE) + Bitwise(op, w % BYTE, y % BYTE)

(* evaluateConstantExpr() of a binary operator on two constants. *)
ConstantBinary(op, l, r) ==
  LET widened(e) == IF IsByte(e.type) /\ e.type.signed /\ e.value >= BYTE \div 2 THEN SignExtend(e.value) ELSE e.value
      w == widened(l)
      y == widened(r)
      signed == l.type.signed /\ r.type.signed
  IN  CASE op = "+" -> (w + y) % WORD
        [] op = "-" -> (w - y) % WORD
        [] op = "*" -> (w * y) % WORD
        [] op = "/" /\ y # 0 -> IF signed THEN Truncated(Signed(w), Signed(y)) % WORD ELSE w \div y
        [] op = "%" /\ y # 0 -> IF signed THEN Remaining(Signed(w), Signed(y)) % WORD ELSE w % y
        [] op = "|" -> WordBitwise("OR", w, y)
        [] op = "^" -> WordBitwise("EOR", w, y)
        [] op = "&" -> WordBitwise("AND", w, y)
        [] op = "<<" -> (w * 2 ^ y) % WORD
        [] op = ">>" -> IF l.type.signed THEN (Signed(w) \div 2 ^ y) % WORD ELSE w \div 2 ^ y
        [] OTHER -> None

Comparisons == {"==", "!=", "<", "<=", ">", ">="}
Assignments == {"=", "+=", "-=", "*=", "/=", "%=", "^=", "&=", "|=", "<<=", ">>="}

(* setBinOpTypeDescForDiffSizedOperands() *)
DiffSizedType(l, r) ==
  Integral(IF Fits8Bits(l) /\ Fits8Bits(r) THEN 1 ELSE 2, ~ IsUnsignedOrPositiveConst(l))

(* processBinOp() *)
BinaryType(op, l, r) ==
  CASE op = "[]" -> Pointed(l.type)
    [] op = "-" /\ IsPtrOrArray(l.type) /\ IsPtrOrArray(r.type) -> UInt
    [] op \in Comparisons \union {"&&", "||"} -> UChar
    [] op \in Assignments \union {"<<", ">>"} -> l.type
    [] OTHER -> CASE IsPtrOrArray(l.type) -> l.type
                  [] IsPtrOrArray(r.type) -> r.type
                  [] l.type.bytes # r.type.bytes -> DiffSizedType(l, r)
                  [] OTHER -> l.type

Binary(op, l, r) ==
  Node(op, <<l, r>>, BinaryType(op, l, r),
       IF IsConst(l) /\ IsConst(r) THEN ConstantBinary(op, l, r) ELSE None, 0)

(* processUnaryOp(); "x++" and "x--" are the postfix operators, "addr" is  *)
(* the address-of operator, "id" the unary plus.                           *)
Increments1 == {"++", "x++"}
Steps == Increments1 \union {"--", "x--"}

UnaryType(op, e) ==
  CASE op = "addr" -> IF e.type.kind = "array" THEN Pointer(Pointed(e.type)) ELSE Pointer(e.type)
    [] op = "deref" -> Pointed(e.type)
    [] op = "sizeof" -> UInt
    [] op = "!" -> UChar
    [] op = "neg" -> Integral(e.type.bytes, TRUE)
    [] OTHER -> e.type

ConstantUnary(op, e) ==
  CASE op = "sizeof" -> e.type.bytes
    [] ~ IsConst(e) -> None
    [] op = "id"  -> e.value
    [] op = "neg" -> (- e.value) % WORD
    [] op = "!"   -> Flag(e.value = 0)
    [] op = "~"   -> WORD - 1 - e.value
    [] OTHER -> None

Unary(op, e) == Node(op, <<e>>, UnaryType(op, e), ConstantUnary(op, e), 0)

Cast(type, e) ==
  Node("cast", <<e>>, type,
       CASE ~ IsConst(e) \/ ~ IsIntegral(type) -> None
         [] IsByte(type) /\ ~ type.signed -> e.value % BYTE
         [] OTHER -> e.value, 0)

(* A conditional expression: the larger type, but constants of eight bits  *)
(* are taken as bytes.                                                     *)
ConditionalType(t, f) ==
  CASE Is8BitConstant(t) /\ Is8BitConstant(f) -> Integral(1, t.type.signed)
    [] IsByte(t.type) /\ Is8BitConstant(f) -> Integral(1, t.type.signed)
    [] Is8BitConstant(t) /\ IsByte(f.type) -> Integral(1, f.type.signed)
    [] IsPtrOrArray(t.type) \/ t.type.bytes >= f.type.bytes -> t.type
    [] OTHER -> f.type

Conditional(c, t, f) == Node("?", <<c, t, f>>, ConditionalType(t, f), None, 0)

(* A statement, with an expression or a statement for each of its branches. *)
If(c, t, f) == Node("if", <<c, t, f>>, t.type, None, 0)

-----------------------------------------------------------------------------
(* Programs as they are written: an expression or a statement is           *)
(* <<operator, parts, type, what it names>>.                               *)

CONSTANTS
  Program,     \* the functions, a sequence of records
  Bodies       \* their bodies

FunctionDef(result, names, params, fpir, isISR) ==
  [result |-> result, names |-> names, params |-> params, fpir |-> fpir, isISR |-> isISR]

Lit(w)         == <<"number", <<>>, SInt, w>>
Name(x, type)      == <<"name", <<>>, type, x>>
Unary1(op, e)      == <<op, <<e>>, Void, 0>>
Binary2(op, e, f)  == <<op, <<e, f>>, Void, 0>>
CastTo(type, e)    == <<"cast", <<e>>, type, 0>>
Member(x, at, type) == <<"member", <<x>>, type, at>>
FunctionAddress(f) == <<"function", <<>>, Pointer(Void), f>>

(* FunctionCallExpr::setFunctionPointerVariableDeclaration() and            *)
(* isDereferenceOfFunctionId(): via is "name" in f(), "variable" in pf(),   *)
(* "deref" in ( *pf)() and "deref name" in ( *f)(); f is the function, or   *)
(* one of the type that the pointer points to.                              *)
Call(result, f, via, pointer, args) ==
  <<"call", args, result, [f |-> f, via |-> via, pointer |-> pointer, hidden |-> <<>>]>>

ThroughVariable(e) == e.v.via \in {"variable", "deref"}
PassesHiddenParam(e) == IsClass(e.type)

List(elements)    == <<"list", elements, Void, 0>>
InitOf(x, e)      == <<"init", <<x, e>>, Void, 0>>
Uninit(x)         == <<"init", <<x>>, Void, 0>>
Declare(inits)    == <<"declare", inits, Void, 0>>
Block(statements) == <<"block", statements, Void, 0>>
IfElse(c, t, f)   == <<"if", <<c, t, f>>, Void, 0>>
Return(f, e)      == <<"return", <<e>>, Void, [f |-> f, at |-> 0]>>

(* ExpressionTypeSetter::close(): typed from its parts up.                 *)
TypedNode(w, kids) ==
  CASE w[1] = "number" -> Number(w[4])
    [] w[1] \in Comparisons \union Assignments \union
                 {"+", "-", "*", "/", "%", "&", "|", "^", "<<", ">>", "&&", "||", "[]"} -> Binary(w[1], kids[1], kids[2])
    [] w[1] \in {"addr", "deref", "sizeof", "!", "neg", "id", "~"} \union Steps -> Unary(w[1], kids[1])
    [] w[1] = "cast" -> Cast(w[3], kids[1])
    [] w[1] = "?" -> Conditional(kids[1], kids[2], kids[3])
    [] OTHER -> Node(w[1], kids, w[3], None, w[4])

RECURSIVE TypedAll(_)
TypedAll(written) ==
  IF written = <<>> THEN <<>>
  ELSE <<TypedNode(Head(written), TypedAll(Head(written)[2]))>> \o TypedAll(Tail(written))

TypedProgram == <<>> \o [f \in DOMAIN Bodies |-> TypedAll(Bodies[f])]
===============================================================================
