----------------------------- MODULE MCPeephole ------------------------------
(***************************************************************************)
(* Programs of two statements, as ExpressionCode emits them, on a 6809     *)
(* with bytes of three bits, hence 64 bytes of memory.  The frame pointer  *)
(* is 56, the variables are below it, the stack is below 32; 60 is the     *)
(* address of a port.                                                      *)
(***************************************************************************)
EXTENDS PeepholeO2, ExpressionCode

uw == Variable(-2, UInt)
sw == Variable(-4, SInt)
uw2 == Variable(-6, UInt)
pw == Variable(-8, Pointer(UInt))
pb == Variable(-10, Pointer(UChar))
ub == Variable(-11, UChar)
sb == Variable(-12, Char)
ub2 == Variable(-13, UChar)
bytes == Variable(-16, Array(UChar, 3))
words == Variable(-22, Array(UInt, 3))
rows  == Variable(-24, Pointer(Struct(3)))
Port == Unary("deref", Cast(Pointer(UChar), Number(60)))

Set(l, r) == Binary("=", l, r)
Add(l, r) == Binary("+", l, r)
Sub(l, r) == Binary("-", l, r)
And(l, r) == Binary("&", l, r)
Lt(l, r)  == Binary("<", l, r)
Eq(l, r)  == Binary("==", l, r)
Elem(a, i)  == Binary("[]", a, i)
Deref(p)  == Unary("deref", p)
N(w) == Number(w)
Choose(c, v, w) == If(c, Set(ub2, N(v)), Set(ub2, N(w)))

(* One statement for each shape of code that some rule looks for. *)
OnWords ==
  {Set(uw, N(0)), Set(uw, Cast(SInt, Cast(Char, N(5)))), Set(uw, sb), Set(uw, sw), Set(uw, Add(uw2, Sub(uw, sw))),
   Set(uw, Add(Unary("neg", uw2), N(2))), Set(uw, Binary("/", Unary("id", uw2), uw)),
   Set(uw, Binary("<<", sb, N(4))), Binary("*=", uw, N(3)), Binary("%=", sw, Add(uw, uw2))}

OnBytes ==
  {Set(ub, Add(ub2, Character(3))), Set(ub, Add(Character(3), ub2)), Set(ub, Binary("|", ub2, N(3))),
   Binary("+=", ub, ub2), Set(ub, uw), Set(ub, Unary("!", And(ub, N(5))))}

ThroughPointers ==
  {Set(Elem(pb, N(1)), ub), Set(ub, Elem(bytes, N(0))), Set(uw, Elem(pw, N(1))), Set(pw, Unary("addr", Deref(pw))),
   Set(Elem(words, ub), uw), Binary("+=", Elem(words, ub), uw), Set(Deref(Unary("x++", pb)), ub),
   Set(Port, ub), Set(ub, Port)}

Conditions ==
  {Choose(Eq(ub, N(0)), 1, 2), Choose(Lt(uw, Add(uw2, sw)), 1, 2), Choose(And(ub, N(4)), 3, 5),
   Choose(Binary("||", Eq(ub, N(2)), Eq(ub, N(5))), 1, 2),
   If(uw, Set(uw, Set(sw, Add(uw2, Elem(words, N(1))))), Set(uw, N(1)))}

Code(e, n) == Emit(e, FALSE, n)

(* do body while (ub -= 1, ub); *)
Loop(body, n) ==
  <<Label(3 * n)>> \o body \o Code(Binary("-=", ub, N(1)), 4 * n) \o BoolJumps(ub, 3 * n, 3 * n + 1, 4 * n + 1)
    \o <<Label(3 * n + 1)>>

(* A short loop; return, before and after a statement. *)
Jumps(n) ==
  {Loop(<<>>, n),
   <<Long("BRA", 3 * n), Label(3 * n)>>,
   <<Long("BRA", 3 * n)>> \o Code(Set(ub, N(2)), 4 * n) \o <<Label(3 * n)>>}

Second ==
  {Code(e, 1000) : e \in OnWords \union OnBytes \union ThroughPointers \union Conditions}
    \union Jumps(1000) \union {Loop(Code(Binary("+=", uw, Add(uw2, Elem(words, N(1)))), 5000), 1000)}

(* What comes before: it leaves something in B, in D or in X, stores, or   *)
(* ends with a label.                                                      *)
First ==
  {Code(e, 1) : e \in {Set(ub, Add(ub2, Character(3))), Set(uw, Add(uw2, Sub(uw, sw))), Set(Elem(pb, N(1)), ub),
                       Set(Port, ub), Choose(Eq(ub, N(0)), 1, 2)}}
    \union {Loop(<<>>, 1)}

(* Shapes that rules look for and that the statements above do not have:   *)
(* bytes and words added through the stack, an element of three bytes, a   *)
(* word stored with a pushed address, an address that goes to D and back,  *)
(* a promotion undone, a word cleared, a load that another replaces.       *)
Local(op, r, place) == Ins(op, r, ",U", place.v)
ThroughX(op, r) == Ins(op, r, ",X", 0)
Pulling(op, r) == Ins(op, r, IF Wide(r) THEN ",S++" ELSE ",S+", 0)
PushingD == Ins("PSHS", "", "B,A", 0)
Transfer(pair) == Ins("TFR", "", pair, 0)
DropHigh == Ins("LEA", "S", ",S", 1)

Shapes ==
  {<<Local("LD", "B", ub), Inherent("CLR", "A"), PushingD, Ins("LD", "D", "#$", 11), DropHigh,
     Pulling("ADD", "B"), Local("ST", "B", ub2)>>,
   <<Local("LD", "B", ub2), Ins("PSHS", "", "B", 0), Local("LD", "B", ub), Pulling("ADD", "B"),
     Local("ST", "B", ub), Inherent("CLR", "A")>>,
   <<Local("LD", "D", uw), PushingD, Local("LD", "D", pw), Pulling("LD", "X"), PushingD, Ins("LD", "D", "#", 3),
     Inherent("LBSR", ""), Pulling("ADD", "D"), Local("ST", "D", uw2)>>,
   <<Local("LD", "D", uw), PushingD, Local("LD", "X", pw), Pulling("LD", "D"), Inherent("LSL", "B"),
     Inherent("ROL", "A"), ThroughX("ADD", "D"), ThroughX("ST", "D")>>,
   <<Local("LD", "D", uw), PushingD, Local("LD", "X", pw), Ins("PULS", "", "A,B", 0), ThroughX("ST", "D")>>,
   <<Local("LEA", "X", uw2), Transfer("X,D"), Transfer("D,X"), ThroughX("LD", "B"), Local("ST", "B", ub2)>>,
   <<Local("LD", "B", ub2), Inherent("CLR", "A"), PushingD, Local("LD", "B", ub), Inherent("CLR", "A"),
     DropHigh, Pulling("CMP", "B"), Long("BLO", 7000)>> \o Code(Set(ub, N(6)), 7001) \o <<Label(7000)>>,
   <<Ins("LD", "D", "#$", 0), Local("ST", "D", uw)>>,
   <<Local("LD", "D", uw), Local("LD", "D", uw2), Local("ST", "D", sw)>>}

MCPrograms == {s \o <<Comment>> \o t : s \in First, t \in Second} \union Shapes

(* x and y are the digits of the numbers; pw points to words[0], pb to *)
(* bytes[1], and the index in ub is 0, 1 or 2 where it is one.         *)
Machine(x, y, carry) ==
  [a |-> y, b |-> x, x |-> (7 * y) % WORD, y |-> 9, u |-> 56, s |-> 32,
   n |-> 0, z |-> carry, v |-> 1 - carry, c |-> carry,
   mem |-> [q \in Words |->
     CASE q \in {55, 53, 50, 44} -> x
       [] q \in {54, 52, 51, 43} -> y
       [] q = 45 -> y % 3
       [] q = 48 -> 4
       [] q = 49 -> 2
       [] q = 46 -> 5
       [] q = 47 -> 1
       [] OTHER -> (5 * q + x) % BYTE]]

MCStarts == {Machine(0, 0, 0), Machine(7, 1, 1), Machine(3, 5, 0), Machine(4, 4, 1)}

NoFunctions == <<>>
=============================================================================
