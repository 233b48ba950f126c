------------------------------- MODULE CMeaning -------------------------------
(***************************************************************************)
(* What an expression is worth, and what it leaves in memory: C with the   *)
(* types of CTypes, which has no promotion of characters to int.  Memory   *)
(* is that of the machine, with the variables at their place in the frame. *)
(*                                                                         *)
(* An evaluation gives the memory after it and the word computed: the      *)
(* value, or the address of an l-value.                                    *)
(***************************************************************************)
EXTENDS CTypes

Outcome(mem, w) == [mem |-> mem, w |-> w]

SizeOf(t) == IF IsByte(t) THEN BYTE ELSE WORD

(* A number of type t as a word, and a word as a number of type t.         *)
AsWord(t, w) == IF IsByte(t) /\ t.signed THEN SignExtend(w) ELSE w
AsType(t, w) == w % SizeOf(t)
AsNumber(t, w) == IF t.signed THEN Signed(AsWord(t, w)) ELSE w

(* An array, a structure and a long have their address for their value.    *)
Fetch(mem, t, p) == IF t.kind = "array" \/ IsClass(t) THEN p ELSE Read([mem |-> mem], p, SizeOf(t))
Store(mem, t, p, w) == Write([mem |-> mem], p, w, SizeOf(t)).mem

BytesAt(mem, p, n) == [j \in 1 .. n |-> mem[(p + j - 1) % WORD]]
StoreBytes(mem, p, bytes) ==
  [q \in Words |-> IF (q - p) % WORD < Len(bytes) THEN bytes[((q - p) % WORD) + 1] ELSE mem[q]]

(* The bytes of the value w of type q converted to type t.                 *)
Converted(t, q, mem, w) ==
  LET word == AsWord(q, w)
      sign == IF q.signed /\ word >= WORD \div 2 THEN BYTE - 1 ELSE 0
      low  == <<word \div BYTE, word % BYTE>>
  IN  CASE IsClass(t) /\ IsClass(q) -> BytesAt(mem, w, t.bytes)
        [] q.kind = "long" -> BytesAt(mem, w + 4 - t.bytes, t.bytes)
        [] t.kind = "long" -> <<sign, sign>> \o low
        [] IsByte(t) -> <<low[2]>>
        [] OTHER -> low

-----------------------------------------------------------------------------
(* Programs.  An activation of a function has FrameRoom bytes of its own,  *)
(* below those of its caller: what it returns if that is a structure, then *)
(* its parameters and its variables, each at an address of its own.        *)
FrameRoom == 40

(* The identifiers of an expression replaced by the variables that C gives *)
(* them: the name of a variable is known from its declarator on, to the    *)
(* end of the block.                                                       *)
Bindings(node, env, free) == [node |-> node, env |-> env, free |-> free]
Extended1(env, x, at) == [y \in DOMAIN env \union {x} |-> IF y = x THEN at ELSE env[y]]

RECURSIVE Bound(_, _, _)
RECURSIVE BoundAll(_, _, _)
Bound(e, env, free) ==
  LET at == free - Left(e).type.bytes
      here == IF e.op = "init" THEN Extended1(env, Left(e).v, at) ELSE env
      inside == BoundAll(e.kids, here, IF e.op = "init" THEN at ELSE free)
      node == [e EXCEPT !.kids = inside.node]
  IN  CASE e.op = "name" -> Bindings([e EXCEPT !.op = "var", !.v = env[e.v]], env, free)
        [] e.op = "call" /\ ThroughVariable(e) ->
             Bindings([node EXCEPT !.v.pointer = env[@]], env, inside.free)
        [] OTHER -> Bindings(node, IF e.op \in {"init", "declare"} THEN inside.env ELSE env, inside.free)

BoundAll(kids, env, free) ==
  IF kids = <<>> THEN Bindings(<<>>, env, free)
  ELSE LET first == Bound(Head(kids), env, free)
           rest == BoundAll(Tail(kids), first.env, first.free)
       IN  Bindings(<<first.node>> \o rest.node, rest.env, rest.free)

(* The function f with its variables bound; params gives the address of    *)
(* each parameter.                                                         *)
BoundFunction(f) ==
  LET fd == Program[f]
      params == [j \in DOMAIN fd.params |-> - FoldLeft(LAMBDA n, t : n + t.bytes, 0, SubSeq(fd.params, 1, j))]
      env == [x \in Range(fd.names) |-> params[CHOOSE j \in DOMAIN fd.names : fd.names[j] = x]]
      low == IF fd.params = <<>> THEN 0 ELSE params[Len(params)]
  IN  [params |-> params, types |-> fd.params, result |-> fd.result,
       body |-> BoundAll(TypedProgram[f], env, low).node]

BoundProgram == <<>> \o [f \in DOMAIN Program |-> BoundFunction(f)]

ElementOffset(t, j) ==
  IF t.kind = "array" THEN (j - 1) * Pointed(t).bytes
  ELSE FoldLeft(LAMBDA n, u : n + u.bytes, 0, SubSeq(t.to, 1, j - 1))
ElementOf(t, j) == IF t.kind = "array" THEN Pointed(t) ELSE t.to[j]

-----------------------------------------------------------------------------
Quotient(t, w, y) == IF t.signed THEN Truncated(Signed(w), Signed(y)) % WORD ELSE w \div y
Rest(t, w, y) == IF t.signed THEN Remaining(Signed(w), Signed(y)) % WORD ELSE w % y

(* Two words combined; t says how to take them in a division.  A division  *)
(* by zero gives what the library's routines give.                         *)
Combined(op, t, w, y) ==
  CASE op = "+" -> (w + y) % WORD
    [] op = "-" -> (w - y) % WORD
    [] op = "*" -> (w * y) % WORD
    [] op = "/" -> Quotient(t, w, y)
    [] op = "%" -> Rest(t, w, y)
    [] op = "|" -> WordBitwise("OR", w, y)
    [] op = "^" -> WordBitwise("EOR", w, y)
    [] op = "&" -> WordBitwise("AND", w, y)

(* A shift is of the type of what is shifted.                              *)
Shifted(op, t, w, n) ==
  CASE op = "<<" -> ShiftedLeft(w, n, SizeOf(t))
    [] t.signed  -> ShiftedSigned(w, n, SizeOf(t))
    [] OTHER     -> ShiftedRight(w, n, SizeOf(t))

(* Each operand of a comparison is widened by its own sign.                *)
Compared(op, l, r, w, y) ==
  LET signed == l.signed /\ r.signed
      a == IF signed THEN Signed(AsWord(l, w)) ELSE AsWord(l, w)
      b == IF signed THEN Signed(AsWord(r, y)) ELSE AsWord(r, y)
  IN  CASE op = "==" -> a = b
        [] op = "!=" -> a # b
        [] op = "<"  -> a < b
        [] op = "<=" -> a <= b
        [] op = ">"  -> a > b
        [] op = ">=" -> a >= b

Step(t) == IF t.kind \in {"pointer", "array"} THEN Pointed(t).bytes ELSE 1

(* e1 op e2 for the values w and y of types l and r, as a value of type t: *)
(* numbers are converted to t first.                                       *)
Value(op, t, l, r, w, y) ==
  LET converted(from, z) == IF IsByte(t) THEN AsWord(t, AsType(t, z)) ELSE AsWord(from, z)
      a == converted(l, w)
      b == converted(r, y)
  IN  CASE op \in Comparisons -> Flag(Compared(op, l, r, w, y))
        [] op \in {"<<", ">>"} -> Shifted(op, t, w, y)
        [] op = "-" /\ IsPtrOrArray(l) /\ IsPtrOrArray(r) ->
             Quotient(Integral(2, ~ IsPtrOrArray(l)), Combined("-", t, a, b), Pointed(l).bytes)
        [] op \in {"+", "-"} -> AsType(t, Combined(op, t, a * Step(r), b * Step(l)))
        [] OTHER -> AsType(t, Combined(op, t, a, b))

(* x op= y divides words, and signed ones when both sides are signed.      *)
AssignedValue(e, w, y) ==
  LET l == Left(e).type
      r == Right(e).type
      op == CHOOSE o \in {"+", "-", "*", "/", "%", "^", "&", "|", "<<", ">>"} : o \o "=" = e.op
      t == IF op \in {"/", "%"} THEN Integral(2, l.signed /\ r.signed) ELSE l
  IN  AsType(l, IF e.op = "=" THEN AsWord(r, y) ELSE Value(op, t, l, r, w, y))

-----------------------------------------------------------------------------
(* u is the frame pointer, fs the functions that may be called, with their *)
(* variables bound.                                                        *)
RECURSIVE Meaning(_, _, _, _, _)
RECURSIVE Place(_, _, _, _)
RECURSIVE Actuals(_, _, _, _, _)
RECURSIVE Initialized(_, _, _, _, _, _)
RECURSIVE InitializedFrom(_, _, _, _, _, _, _)
RECURSIVE Run(_, _, _, _)
RECURSIVE RunAll(_, _, _, _)

(* The address of an element, p being the array and i the index.           *)
Indexed(e, p, i) == Outcome(i.mem, (p.w + AsWord(Right(e).type, i.w) * e.type.bytes) % WORD)
IndexedIn(fs, e, p, u) == Indexed(e, p, Meaning(fs, Right(e), p.mem, u, FALSE))

(* The address of an l-value. *)
Place(fs, e, mem, u) ==
  CASE e.op = "var" -> Outcome(mem, (u + e.v) % WORD)
    [] e.op = "deref" -> Meaning(fs, Left(e), mem, u, FALSE)
    [] e.op = "[]" -> IndexedIn(fs, e, Meaning(fs, Left(e), mem, u, FALSE), u)
    [] e.op \in Assignments \union {"++", "--"} ->
         Outcome(Meaning(fs, e, mem, u, FALSE).mem, Place(fs, Left(e), mem, u).w)
    [] e.op = "member" ->
         LET p == Place(fs, Left(e), mem, u) IN Outcome(p.mem, (p.w + e.v) % WORD)
    [] e.op = "call" -> Meaning(fs, e, mem, u, FALSE)

(* The arguments 1 to j of a call, evaluated from the last one to the      *)
(* first, as bytes of the types of the parameters.                         *)
WithActual(rest, t, q, o) == [rest EXCEPT !.bytes = Append(@, Converted(t, q, o.mem, o.w))]

ActualsBefore(fs, e, j, o, u) ==
  WithActual(Actuals(fs, e, j - 1, o.mem, u), fs[e.v.f].types[j], e.kids[j].type, o)

Actuals(fs, e, j, mem, u) ==
  IF j = 0 THEN [mem |-> mem, bytes |-> <<>>]
  ELSE ActualsBefore(fs, e, j, Meaning(fs, e.kids[j], mem, u, FALSE), u)

Passed(fd, actuals, below) ==
  FoldLeft(LAMBDA n, j : StoreBytes(n, below + fd.params[j], actuals.bytes[j]),
           actuals.mem, [j \in DOMAIN actuals.bytes |-> j])

Activated(fs, fd, actuals, below) == RunAll(fs, fd.body, Passed(fd, actuals, below), below)

FunctionMeant(e, mem, u) ==
  IF ThroughVariable(e) THEN Fetch(mem, Pointer(Void), (u + e.v.pointer) % WORD) ELSE e.v.f

RunCalled(fs, e, actuals, u) == Activated(fs, fs[FunctionMeant(e, actuals.mem, u)], actuals, u - FrameRoom)

MeaningOfCall(fs, e, mem, u) ==
  LET run == RunCalled(fs, e, Actuals(fs, e, Len(e.kids), mem, u), u)
  IN  Outcome(run.mem, run.w)

Truth(t, w) == AsType(t, w) # 0

(* What becomes of the value o of the operand, or of its address p.        *)
Monadic(e, o) ==
  CASE e.op = "cast" -> Outcome(o.mem, AsType(e.type, AsWord(Left(e).type, o.w)))
    [] e.op = "id" -> o
    [] e.op = "neg" -> Outcome(o.mem, (- o.w) % SizeOf(e.type))
    [] e.op = "~" -> Outcome(o.mem, SizeOf(e.type) - 1 - o.w)
    [] e.op = "!" -> Outcome(o.mem, Flag(o.w = 0))

StepTaken(e, p) ==
  LET t == e.type
      w == Fetch(p.mem, t, p.w)
      new == AsType(t, IF e.op \in Increments1 THEN w + Step(t) ELSE w - Step(t))
  IN  Outcome(Store(p.mem, t, p.w, new), IF e.op \in {"++", "--"} THEN new ELSE w)

Selected(t, q, o) == Outcome(o.mem, AsType(t, AsWord(q, o.w)))

Choice(fs, e, c, u) ==
  LET kid == e.kids[IF Truth(Left(e).type, c.w) THEN 2 ELSE 3]
  IN  Selected(e.type, kid.type, Meaning(fs, kid, c.mem, u, FALSE))

TruthOf(t, o) == Outcome(o.mem, Flag(Truth(t, o.w)))

Shortcut(fs, e, l, u) ==
  IF Truth(Left(e).type, l.w) = (e.op = "||") THEN Outcome(l.mem, Flag(e.op = "||"))
  ELSE TruthOf(Right(e).type, Meaning(fs, Right(e), l.mem, u, FALSE))

(* The right side y is evaluated before the place p of the left one.       *)
Assigned(e, y, p) ==
  LET w == AssignedValue(e, Fetch(p.mem, Left(e).type, p.w), y.w)
  IN  IF IsClass(e.type) THEN Outcome(StoreBytes(p.mem, p.w, Converted(e.type, Right(e).type, y.mem, y.w)), p.w)
      ELSE Outcome(Store(p.mem, e.type, p.w, w), w)

AssignedAt(fs, e, y, u) == Assigned(e, y, Place(fs, Left(e), y.mem, u))

Dyadic(e, l, r) == Outcome(r.mem, Value(e.op, e.type, Left(e).type, Right(e).type, l.w, r.w))

DyadicAfter(fs, e, l, u) == Dyadic(e, l, Meaning(fs, Right(e), l.mem, u, FALSE))

Fetched(t, p) == Outcome(p.mem, Fetch(p.mem, t, p.w))

(* What the value o of the first operand leads to.                         *)
After(fs, e, o, u) ==
  CASE e.op \in {"cast", "id", "neg", "~", "!"} -> Monadic(e, o)
    [] e.op \in {"?", "if"} -> Choice(fs, e, o, u)
    [] e.op \in {"&&", "||"} -> Shortcut(fs, e, o, u)
    [] OTHER -> DyadicAfter(fs, e, o, u)

Meaning(fs, e, mem, u, lvalue) ==
  CASE lvalue -> Place(fs, e, mem, u)
    [] e.op = "number" -> Outcome(mem, AsType(e.type, e.value))
    [] e.op = "function" -> Outcome(mem, e.v)
    [] e.op = "sizeof" -> Outcome(mem, Left(e).type.bytes)
    [] e.op = "call" -> MeaningOfCall(fs, e, mem, u)
    [] e.op \in {"var", "deref", "[]", "member"} -> Fetched(e.type, Place(fs, e, mem, u))
    [] e.op = "addr" -> Place(fs, Left(e), mem, u)
    [] e.op \in Steps -> StepTaken(e, Place(fs, Left(e), mem, u))
    [] e.op \in Assignments -> AssignedAt(fs, e, Meaning(fs, Right(e), mem, u, FALSE), u)
    [] OTHER -> After(fs, e, Meaning(fs, Left(e), mem, u, FALSE), u)

-----------------------------------------------------------------------------
(* Statements: what they leave in memory, and whether they return.         *)

(* What is at p becomes what e says; the elements that a list does not     *)
(* give stay as they are.                                                  *)
InitializedTo(t, q, p, o) == StoreBytes(o.mem, p, Converted(t, q, o.mem, o.w))

Initialized(fs, e, t, p, mem, u) ==
  IF e.op = "list" THEN InitializedFrom(fs, e, t, p, mem, u, 1)
  ELSE InitializedTo(t, e.type, p, Meaning(fs, e, mem, u, FALSE))

InitializedFrom(fs, e, t, p, mem, u, j) ==
  IF j > Len(e.kids) THEN mem
  ELSE InitializedFrom(fs, e, t, p,
         Initialized(fs, e.kids[j], ElementOf(t, j), p + ElementOffset(t, j), mem, u), u, j + 1)

Ran(mem, w, done) == [mem |-> mem, w |-> w, done |-> done]

Returned(t, q, o, u) ==
  LET bytes == Converted(t, q, o.mem, o.w)
  IN  IF IsClass(t) THEN Ran(StoreBytes(o.mem, u, bytes), u, TRUE)
      ELSE Ran(o.mem, FoldLeft(LAMBDA w, b : BYTE * w + b, 0, bytes), TRUE)

RunChosen(fs, e, c, u) == Run(fs, e.kids[IF Truth(Left(e).type, c.w) THEN 2 ELSE 3], c.mem, u)

Run(fs, e, mem, u) ==
  CASE e.op \in {"block", "declare"} -> RunAll(fs, e.kids, mem, u)
    [] e.op = "init" ->
         Ran(IF Len(e.kids) = 1 THEN mem ELSE Initialized(fs, Right(e), Left(e).type, u + Left(e).v, mem, u), 0, FALSE)
    [] e.op = "if" -> RunChosen(fs, e, Meaning(fs, Left(e), mem, u, FALSE), u)
    [] e.op = "return" -> Returned(fs[e.v.f].result, Left(e).type, Meaning(fs, Left(e), mem, u, FALSE), u)
    [] OTHER -> Ran(Meaning(fs, e, mem, u, FALSE).mem, 0, FALSE)

RunThen(fs, first, rest, u) == IF first.done THEN first ELSE RunAll(fs, rest, first.mem, u)

RunAll(fs, statements, mem, u) ==
  IF statements = <<>> THEN Ran(mem, 0, FALSE)
  ELSE RunThen(fs, Run(fs, Head(statements), mem, u), Tail(statements), u)
===============================================================================
