------------------------------- MODULE MCCalls --------------------------------
(***************************************************************************)
(* Programs of a few functions on a 6809 with bytes of four bits.  Their   *)
(* input is at addresses 4 to 7, the counter of the interrupt routine at   *)
(* 12, what a function without a result leaves at 8.                       *)
(***************************************************************************)
EXTENDS CallMachine

One == Record(<<UChar>>)
Three == Record(<<UChar, SInt>>)
Four == Record(<<SInt, SInt>>)
Five == Record(<<SInt, Array(UChar, 3)>>)
Long4 == LongInt(TRUE)

At(t, p) == Unary1("deref", CastTo(Pointer(t), Lit(p)))
InWord == At(SInt, 4)
InByte == At(UChar, 6)
InChar == At(Char, 7)
Count == At(UChar, 12)
OutWord == At(SInt, 8)

Word(x) == Name(x, SInt)
Byte(x) == Name(x, UChar)
Chr(x) == Name(x, Char)
Add(e, f) == Binary2("+", e, f)
Sub(e, f) == Binary2("-", e, f)
Set(x, e) == Binary2("=", x, e)
Let(x, e) == Declare(<<InitOf(x, e)>>)
Var(x) == Declare(<<Uninit(x)>>)
Nothing == Block(<<>>)

c3(x) == Member(x, 0, UChar)
w3(x) == Member(x, 1, SInt)
w5(x) == Member(x, 0, SInt)
b5(x) == Member(x, 2, Array(UChar, 3))

F(result, names, params) == FunctionDef(result, names, params, FALSE, FALSE)
Fpir(result, names, params) == FunctionDef(result, names, params, TRUE, FALSE)

(* The number of each function. *)
n == [add |-> 1, take |-> 2, sum |-> 3, make |-> 4, makeR |-> 5, get |-> 6, one |-> 7, long |-> 8,
      five |-> 9, put |-> 10, isr |-> 11, byteR |-> 12, even |-> 13, odd |-> 14, low |-> 15, long4 |-> 16,
      blocks |-> 17]

Named(t, f, args) == Call(t, f, "name", "", args)
CallInt(f, args) == Named(SInt, f, args)
Make(c, w) == Named(Three, n.make, <<c, w>>)
MakeR(c, w) == Named(Three, n.makeR, <<c, w>>)

MakeBody(f) ==
  <<Var(Name("s", Three)),
    Set(c3(Name("s", Three)), Byte("c")), Set(w3(Name("s", Three)), Word("w")),
    Return(f, Name("s", Three))>>

Signatures == <<
  F(SInt, <<"a", "b", "c">>, <<UChar, SInt, Char>>),
  Fpir(SInt, <<"a", "b">>, <<SInt, SInt>>),
  F(SInt, <<"k">>, <<SInt>>),
  F(Three, <<"c", "w">>, <<UChar, SInt>>),
  Fpir(Three, <<"c", "w">>, <<UChar, SInt>>),
  F(SInt, <<"s", "k", "o">>, <<Three, Char, One>>),
  F(One, <<"c">>, <<UChar>>),
  F(Long4, <<"a", "b">>, <<Long4, Char>>),
  F(Five, <<"w">>, <<SInt>>),
  F(Void, <<"p", "w">>, <<Pointer(SInt), SInt>>),
  FunctionDef(Void, <<>>, <<>>, FALSE, TRUE),
  Fpir(UChar, <<"a", "b">>, <<UChar, Char>>),
  F(SInt, <<"k">>, <<SInt>>),
  F(SInt, <<"k">>, <<SInt>>),
  F(SInt, <<"a", "b">>, <<SInt, Char>>),
  F(Long4, <<"a">>, <<SInt>>),
  F(SInt, <<"a">>, <<SInt>>)
>>

LibraryBodies == <<
  (* int add(unsigned char a, int b, char c) { return a + b + c; } *)
  <<Return(n.add, Add(Add(Word("b"), Byte("a")), Chr("c")))>>,
  (* _CMOC_fpir_ int take(int a, int b) { int t = a; return t - b; } *)
  <<Let(Word("t"), Word("a")), Return(n.take, Sub(Word("t"), Word("b")))>>,
  (* int sum(int k) { int r = k; if (k == 0) ; else r = sum(k - 1) + k; return r; } *)
  <<Let(Word("r"), Word("k")),
    IfElse(Binary2("==", Word("k"), Lit(0)), Nothing, Set(Word("r"), Add(CallInt(n.sum, <<Sub(Word("k"), Lit(1))>>), Word("k")))),
    Return(n.sum, Word("r"))>>,
  (* struct Three make(unsigned char c, int w), on the stack and in D *)
  MakeBody(n.make),
  MakeBody(n.makeR),
  (* int get(struct Three s, char k, struct One o) { { int k = s.w; o.c = s.c; s.w = k; } return s.w + k + o.c; } *)
  <<Block(<<Let(Word("k"), w3(Name("s", Three))), Set(c3(Name("o", One)), c3(Name("s", Three))),
            Set(w3(Name("s", Three)), Word("k"))>>),
    Return(n.get, Add(Add(w3(Name("s", Three)), Chr("k")), c3(Name("o", One))))>>,
  (* struct One one(unsigned char c) { struct One o = { c }; return o; } *)
  <<Let(Name("o", One), List(<<Byte("c")>>)), Return(n.one, Name("o", One))>>,
  (* long long_(long a, char b) { return a; } *)
  <<Return(n.long, Name("a", Long4))>>,
  (* struct Five five(int w) { struct Five f = { w, { 1, 2, 3 } }; return f; } *)
  <<Let(Name("f", Five), List(<<Word("w"), List(<<Lit(1), Lit(2), Lit(3)>>)>>)), Return(n.five, Name("f", Five))>>,
  (* void put(int *p, int w) { *p = w; } *)
  <<Set(Unary1("deref", Name("p", Pointer(SInt))), Word("w"))>>,
  (* interrupt void isr() { int t = 5; put(&t, t + 1); ++count; } *)
  <<Let(Word("t"), Lit(5)), Named(Void, n.put, <<Unary1("addr", Word("t")), Add(Word("t"), Lit(1))>>),
    Unary1("++", Count)>>,
  (* _CMOC_fpir_ unsigned char byteR(unsigned char a, char b) { return a + b; } *)
  <<Return(n.byteR, Add(Byte("a"), Chr("b")))>>,
  (* int even(int k) { if (k == 0) return 1; return odd(k - 1); } and odd() *)
  <<IfElse(Binary2("==", Word("k"), Lit(0)), Return(n.even, Lit(1)), Nothing),
    Return(n.even, CallInt(n.odd, <<Sub(Word("k"), Lit(1))>>))>>,
  <<IfElse(Binary2("==", Word("k"), Lit(0)), Return(n.odd, Lit(0)), Nothing),
    Return(n.odd, CallInt(n.even, <<Sub(Word("k"), Lit(1))>>))>>,
  (* int low(int a, char b) { return a - b; } *)
  <<Return(n.low, Sub(Word("a"), Chr("b")))>>,
  (* long long4(int a) { return a; } *)
  <<Return(n.long4, Word("a"))>>,
  (* int blocks(int a): siblings with hidden variables, a name of an outer block hidden by an inner one *)
  <<Let(Word("x"), Word("a")),
    Block(<<Let(Word("y"), Add(Word("x"), Lit(1))),
            Block(<<Let(Byte("x"), w3(Make(InByte, Word("y")))), Set(Word("y"), Add(Word("y"), Byte("x")))>>),
            Set(Word("x"), Word("y"))>>),
    Block(<<Let(Name("s", Three), MakeR(InByte, Word("x"))),
            Block(<<Declare(<<Uninit(Name("v", Array(UChar, 2))), InitOf(Word("z"), w3(Name("s", Three)))>>),
                    Set(Binary2("[]", Name("v", Array(UChar, 2)), Lit(1)), Lit(7)),
                    Set(Word("a"), Sub(Word("z"), Word("x")))>>),
            Set(Word("x"), Add(Word("x"), c3(Name("s", Three))))>>),
    Return(n.blocks, Add(Word("x"), Word("a")))>>
>>

(* The number of functions that are called, and of programs. *)
m0 == 17
mains == 16

Through(via, t, f, args) == Call(t, f, via, "pf", args)
Pf(f) == Let(Name("pf", Pointer(Void)), FunctionAddress(f))

Programs == <<
  (* a byte and a word in word slots, from right to left *)
  <<Let(Word("x"), InWord),
    Return(m0 + 1, CallInt(n.add, <<Unary1("x++", InByte), Set(Word("x"), Lit(3)), InChar>>))>>,
  (* the register is kept while the other argument is evaluated first *)
  <<Return(m0 + 2, CallInt(n.take, <<CallInt(n.take, <<InWord, InByte>>), CallInt(n.take, <<InChar, Lit(2)>>)>>))>>,
  <<Return(m0 + 3, Add(CallInt(n.sum, <<Lit(2)>>), Lit(1)))>>,
  (* structures made, passed and copied; two hidden variables in use at once *)
  <<Declare(<<InitOf(Name("s", Three), Make(InByte, InWord)), Uninit(Name("r", Three))>>),
    Set(Name("r", Three), Name("s", Three)),
    Return(m0 + 4, CallInt(n.get, <<Name("r", Three), InChar, Named(One, n.one, <<InByte>>)>>))>>,
  <<Var(Name("s", Three)),
    Set(Name("s", Three), MakeR(InByte, Add(w3(Make(InByte, InWord)), w3(MakeR(InByte, Lit(9)))))),
    Return(m0 + 5, Add(w3(Name("s", Three)), c3(Name("s", Three))))>>,
  (* words made longs, a long made a word; an element found while the word waits *)
  <<Let(Name("l", Long4), Named(Long4, n.long, <<InWord, InChar>>)),
    Let(Word("x"), Named(Long4, n.long, <<InChar, Name("l", Long4)>>)),
    Declare(<<Uninit(Name("v", Array(Long4, 2))), InitOf(Word("j"), Lit(1))>>),
    Set(Binary2("[]", Name("v", Array(Long4, 2)), Word("j")), InChar),
    Return(m0 + 6, Add(Word("x"), CallInt(n.low, <<Binary2("[]", Name("v", Array(Long4, 2)), Lit(1)),
                                                   Named(Long4, n.long4, <<InChar>>)>>)))>>,
  (* structures of five and four bytes, lists *)
  <<Let(Name("f", Five), Named(Five, n.five, <<InWord>>)),
    Declare(<<InitOf(Name("a", Array(SInt, 2)), List(<<InWord, InByte>>)), InitOf(Name("g", Four), List(<<InChar, Lit(9)>>))>>),
    Return(m0 + 7, Add(Add(w5(Name("f", Five)), Binary2("[]", b5(Name("f", Five)), Lit(2))),
                       Add(Binary2("[]", Name("a", Array(SInt, 2)), Lit(1)), Member(Name("g", Four), 2, SInt))))>>,
  (* what a function leaves through a pointer; calls of one another *)
  <<Var(Word("x")), Named(Void, n.put, <<Unary1("addr", Word("x")), InWord>>),
    Named(Void, n.put, <<CastTo(Pointer(SInt), Lit(8)), CallInt(n.even, <<Lit(1)>>)>>),
    Return(m0 + 8, Add(Word("x"), CallInt(n.even, <<Lit(2)>>)))>>,
  <<Return(m0 + 9, CallInt(n.blocks, <<InWord>>))>>,
  (* through pointers *)
  <<Let(Name("pf", Pointer(Void)), <<"?", <<InChar, FunctionAddress(n.odd), FunctionAddress(n.even)>>, Void, 0>>),
    Return(m0 + 10, Sub(Through("variable", SInt, n.odd, <<Lit(2)>>), Through("deref", SInt, n.odd, <<Lit(1)>>)))>>,
  <<Pf(n.take),
    Return(m0 + 11, Add(Through("deref", SInt, n.take, <<InWord, InByte>>),
                        Through("deref name", SInt, n.take, <<InChar, Lit(1)>>)))>>,
  <<Pf(n.byteR), Return(m0 + 12, Add(Named(UChar, n.byteR, <<InByte, InChar>>), Through("deref", UChar, n.byteR, <<InByte, Lit(1)>>)))>>,
  (* those that do not mean what their code does *)
  <<Pf(n.take), Return(m0 + 13, Through("variable", SInt, n.take, <<InWord, InByte>>))>>,
  <<Pf(n.long), Let(Name("l", Long4), Through("deref", Long4, n.long, <<InWord, InChar>>)), Return(m0 + 14, Name("l", Long4))>>,
  <<Let(Name("q", Record(<<Array(UChar, 3), UChar>>)),
        List(<<List(<<Lit(1), Lit(2)>>), InByte>>)),
    Return(m0 + 15, Member(Name("q", Record(<<Array(UChar, 3), UChar>>)), 3, UChar))>>,
  <<Let(Word("b"), Lit(9)),
    Block(<<Declare(<<InitOf(Word("a"), Word("b")), InitOf(Word("b"), Lit(2))>>), Set(OutWord, Word("a"))>>),
    Return(m0 + 16, Word("b"))>>
>>


AllFunctions == Signatures \o [j \in 1 .. mains |-> F(SInt, <<>>, <<>>)]
AllBodies == LibraryBodies \o Programs
AllMains == m0 + 1 .. m0 + mains
Interrupted == {m0 + 2, m0 + 4, m0 + 6}
HandlerOf == [f \in AllMains |-> IF f \in Interrupted THEN {n.isr} ELSE {}]

(* The scopes and their variables, as the assumption of CallMachine wants   *)
(* them.                                                                   *)
ParentOf ==
  [s \in 1 .. 42 |-> CASE s = 4 -> 3 [] s = 8 -> 7 [] s = 16 -> 15 [] s = 18 -> 17 [] s \in {22, 24} -> 21
                        [] s = 23 -> 22 [] s = 25 -> 24 [] s = 42 -> 41 [] OTHER -> 0]
AroundOf ==
  [s \in 1 .. 42 |-> CASE s = 23 -> {21, 22} [] s = 25 -> {21, 24} [] ParentOf[s] = 0 -> {} [] OTHER -> {ParentOf[s]}]

Param(size) == [dims |-> <<>>, element |-> size, param |-> TRUE]
LocalArray(dims, size) == [dims |-> dims, element |-> size, param |-> FALSE]
Local(size) == LocalArray(<<>>, size)
DeclaredIn == <<
  <<Param(1), Param(2), Param(1)>>, <<Local(2), Param(2), Local(2)>>, <<Param(2), Local(2)>>, <<>>,
  <<Param(1), Param(2), Local(3)>>, <<Local(2), Param(1), Param(2), Local(3)>>, <<Param(3), Param(1), Param(1)>>,
  <<Local(2)>>, <<Param(1), Local(1)>>, <<Param(4), Param(1)>>, <<Param(2), Local(5)>>, <<Param(2), Param(2)>>,
  <<Local(2)>>, <<Local(1), Param(1)>>, <<Param(2)>>, <<>>, <<Param(2)>>, <<>>, <<Param(2), Param(1)>>,
  <<Param(2)>>, <<Param(2), Local(2)>>, <<Local(2)>>, <<Local(1), Local(3)>>, <<Local(3), Local(3)>>,
  <<LocalArray(<<2>>, 1), Local(2)>>, <<Local(2)>>, <<>>, <<>>, <<Local(3), Local(3), Local(3), Local(1)>>,
  <<Local(3), Local(3), Local(3), Local(3)>>, <<Local(4), Local(2), LocalArray(<<2>>, 4), Local(2), Local(4), Local(4), Local(4)>>,
  <<Local(5), LocalArray(<<2>>, 2), Local(4), Local(5)>>, <<Local(2)>>, <<>>, <<Local(2)>>, <<Local(2)>>, <<Local(2)>>,
  <<Local(2)>>, <<Local(2), Local(4), Local(4)>>, <<Local(4)>>, <<Local(2)>>, <<Local(2), Local(2)>>
>>

(* Bytes x and y in the input, the stack from 200 down. *)
Machine(x, y) ==
  [a |-> y, b |-> x, x |-> (7 * y) % WORD, y |-> 9, u |-> 220, s |-> 214, n |-> 0, z |-> 0, v |-> 0, c |-> 1,
   mem |-> [q \in Words |-> CASE q \in {4, 7} -> x [] q \in {5, 6} -> y [] OTHER -> (5 * q + x) % BYTE]]

Machines == {Machine(0, 3), Machine(15, 9)}

(* The values of the constants. *)
MCProgram == AllFunctions
MCBodies == AllBodies
MCMains == AllMains
MCHandler == HandlerOf
MCParent == ParentOf
MCAround == AroundOf
MCDeclared == DeclaredIn
MCStarts == Machines
===============================================================================
