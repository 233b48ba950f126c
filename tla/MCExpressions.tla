---------------------------- MODULE MCExpressions -----------------------------
(***************************************************************************)
(* Expressions of one and two operators, on a 6809 with bytes of four bits *)
(* (numbers up to 15 fit a byte, up to 255 a word).  The operands are the  *)
(* variables of a frame, constants, and one sub-expression of each type.   *)
(***************************************************************************)
EXTENDS ExpressionMachine

sb == Variable(-1, Char)
ub == Variable(-2, UChar)
sw == Variable(-4, SInt)
uw == Variable(-6, UInt)
sb2 == Variable(-7, Char)
ub2 == Variable(-8, UChar)
sw2 == Variable(-10, SInt)
uw2 == Variable(-12, UInt)
pb == Variable(-14, Pointer(UChar))
pw == Variable(-16, Pointer(SInt))
ps == Variable(-18, Pointer(Struct(3)))
bytes == Variable(-21, Array(UChar, 3))
words == Variable(-27, Array(SInt, 3))
rows  == Variable(-33, Array(Array(UChar, 3), 2))
pb2 == Variable(-35, Pointer(UChar))
pw2 == Variable(-37, Pointer(SInt))
ps2 == Variable(-39, Pointer(Struct(3)))

ui == Variable(-40, UChar)
si == Variable(-42, SInt)

Minus(w) == Unary("neg", Number(w))

Lefts == {sb, ub, sw, uw, Unary("~", sb), Binary("+", ub, Character(1)), Unary("neg", uw), Cast(UInt, sb)}
Constants ==
  {Number(w) : w \in {1, 2, 7, 9, 10, 16, 20, 130}}
    \union {Minus(1), Character(3), Cast(UChar, Number(9)), Cast(Char, Minus(2)), Cast(Char, Number(9))}
Rights == Constants \union {sb2, ub2, sw2, uw2, Binary("-", sb2, Character(0)), Unary("id", uw2)}

Operators == {"+", "-", "*", "/", "%", "|", "^", "&", "<<", ">>", "&&", "||"} \union Comparisons

Numbers ==
  {Binary(op, l, r) : op \in Operators, l \in Lefts, r \in Rights}
    \union {Binary(op, l, r) : op \in Operators \ {"<<", ">>"}, l \in Constants, r \in {sb2, ub2, sw2, uw2}}

Pointers ==
  {Binary(op, p, i) : op \in {"+", "-"}, p \in {pb, pw, ps, bytes, words},
                      i \in {Number(0), Number(1), Character(2), ub, sw, Unary("id", uw)}}
    \union {Binary("+", i, p) : i \in {Number(1), ub, sw}, p \in {pb, pw, ps, words}}
    \union {Binary("-", p[1], p[2]) : p \in {<<pb, pb2>>, <<pw, pw2>>, <<ps, ps2>>}}
    \union {Binary("-", Variable(-18, Pointer(Struct(n))), Variable(-39, Pointer(Struct(n)))) : n \in {4, 8, 16}}
    \union {Binary(op, p[1], p[2]) : op \in {"<", "=="}, p \in {<<pb, pb2>>, <<pw, words>>}}

Indexes == {Number(0), Number(2), Character(1), ui, si, Binary("+", ui, Character(1))}
Elements ==
  {Binary("[]", a, i) : a \in {pb, pw, bytes, words, rows, Binary("+", pb, Number(1))}, i \in Indexes}
    \union {Binary("[]", Binary("[]", rows, i), j) : i, j \in {Number(1), ui, si}}

Indirections ==
  {Unary("deref", p) :
     p \in {pb, pw, bytes, words, Unary("x++", pb), Unary("x++", pw), Unary("++", pb),
            Unary("x--", pw), Binary("+", pw, ui), Cast(Pointer(SInt), pb),
            Cast(Pointer(UChar), Number(30))}}

Stepped ==
  {Unary(op, v) : op \in Steps,
                  v \in {sb, ub, sw, uw, pb, pw, ps, Unary("deref", pb), Binary("[]", words, ui)}}

Unaries ==
  {Unary(op, v) : op \in {"neg", "~", "id", "!"}, v \in {sb, ub, sw, uw, Binary("+", sw, uw)}}
    \union {Unary("addr", v) : v \in {sw, bytes, Binary("[]", words, ui), Unary("deref", pw)}}
    \union {Unary("sizeof", words), Unary("!", pb), Binary("*", ub, Cast(SInt, Number(10)))}
    \union {Cast(t, v) : t \in {Char, UChar, SInt, UInt}, v \in {sb, ub, sw, uw}}

Alternatives == {sb, ub, sw, Number(1), Number(9), Number(130), Character(2)}
Conditionals ==
  {Conditional(c, t, f) : c \in {Binary("<", sb, sb2), uw}, t \in Alternatives, f \in Alternatives}

Targets == {sb, ub, sw, uw, Unary("deref", pb), Unary("deref", pw), Binary("[]", words, ui),
            Binary("[]", bytes, Number(1)), Unary("deref", Unary("x++", pb2))}
Sources == {sb2, ub2, sw2, uw2, Number(1), Number(3), Number(20), Number(130), Minus(1), Character(3),
            Cast(Char, Minus(2)), Cast(Char, Number(9)), Binary("+", ub, Character(1)), Binary("+", sw, uw2)}
PointerTargets == {pb, pw, ps, Unary("deref", Cast(Pointer(Pointer(SInt)), pw))}
Stored ==
  {Binary(op, l, r) : op \in Assignments, l \in Targets, r \in Sources}
    \union {Binary(op, p, r) : op \in {"+=", "-="}, p \in PointerTargets,
                               r \in {Number(1), ub, sw, Binary("+", ub, Number(1))}}
    \union {Binary("=", Unary("deref", Cast(Pointer(t), p)), Number(5)) :
               t \in {SInt, UChar},
               p \in {pb, words, Binary("+", pb, Number(2)), Binary("+", words, Number(1)),
                      Binary("+", ps, Number(1))}}

Inner == {"+", "*", "<", ">>", "^", "||"}
Nested ==
  {Binary(op, Binary(f, sw, ub), Binary(g, uw2, sb2)) :
     op \in {"+", "-", "*", "<", "&&", "||", "&"}, f \in Inner, g \in Inner}
   \union {Binary("=", Binary("=", sw, uw2), Binary("-", ub2, sw2)),
           Binary("=", Unary("deref", Unary("++", pw)), Binary("[]", bytes, Unary("x++", ui))),
           Binary("+=", Binary("[]", words, Unary("x++", ui)), Binary("[]", bytes, si))}

Conditions ==
  {Binary(op, l, r) : op \in Comparisons, l \in {sb, ub, sw, Binary("+", sw, uw)},
                      r \in {Number(0), Number(9), sb2, ub2, sw2, uw2}}
Ifs ==
  {If(c, Binary("=", ub, Number(1)), Binary("=", ub, Number(2))) :
     c \in Conditions \union {Number(0), Number(1), sb, uw, pb, Unary("deref", pw)}
             \union {Unary("!", c) : c \in {sw, Binary("<", sb, sb2), Unary("!", ub)}}
             \union {Binary(op, f, g) : op \in {"&&", "||"}, f \in {sb, Binary("<", uw, uw2), Unary("!", sw)},
                                        g \in {Binary("==", sb2, Number(9)), Binary("||", uw, pb), Unary("!", Binary("&&", ub2, sw2))}}}

Compiled ==
  Numbers \union Pointers \union Elements \union Indirections \union Stepped \union Unaries
    \union Conditionals \union Ifs \union Stored \union Nested

InPlaceDivisions == {Binary(op, l, r) : op \in {"/=", "%="}, l \in {sb, ub, sw}, r \in {sw2, ub2, Number(3)}}

(* The frame is below 200, the stack below 150; the bytes of the numbers   *)
(* are x and y.  The pointers point to 20 and 19, one more in the second   *)
(* of each type; the index variables are 2 and 1.                          *)
Machine(x, y) ==
  [a |-> y, b |-> x, x |-> (7 * y) % WORD, y |-> 9, u |-> 200, s |-> 150, n |-> 0, z |-> 0, v |-> 0, c |-> 1,
   mem |-> [q \in Words |->
     CASE q \in {200 - 1, 200 - 3, 200 - 8, 200 - 9, 200 - 5, 200 - 12} -> x
       [] q \in {200 - 2, 200 - 4, 200 - 7, 200 - 10, 200 - 6, 200 - 11} -> y
       [] q \in {200 - 13, 200 - 15, 200 - 17} -> 1
       [] q \in {200 - 14, 200 - 16, 200 - 18} -> 4
       [] q \in {200 - 34, 200 - 36, 200 - 38} -> 1
       [] q \in {200 - 35, 200 - 37, 200 - 39} -> 3
       [] q = 200 - 40 -> 2
       [] q \in {200 - 42, 200 - 41} -> q - (200 - 42)
       [] OTHER -> (5 * q + x) % BYTE]]

NoFunctions == <<>>

MCStarts == {Machine(1, 3), Machine(15, 9), Machine(9, 8)}
===============================================================================
