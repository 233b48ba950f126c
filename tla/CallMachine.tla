----------------------------- MODULE CallMachine ------------------------------
(***************************************************************************)
(* A program of several functions compiled, and its code run on the 6809   *)
(* one instruction at a time, with the return addresses on the stack: the  *)
(* frames of FrameLayout, the code of CallCode, and an interrupt that may  *)
(* come between any two instructions.                                      *)
(***************************************************************************)
EXTENDS FrameLayout, ScopeTree, ExpressionCode, CMeaning

CONSTANTS
  Mains,         \* the functions run, which have no parameters
  Handler,       \* the interrupt service routine that each one has, if any
  Data,          \* what is below this address belongs to the programs
  Starts         \* the machines on which they run

ASSUME LayoutAssumption ==
  /\ \A f \in DOMAIN Checked : Checked[f].ok
  /\ Scopes = Len(Table)
  /\ Parent = [s \in Scope |-> Table[s].parent]
  /\ Declared = [s \in Scope |-> [i \in DOMAIN Table[s].vars |-> Laid(Table[s].vars[i])]]
  /\ HiddenOnStack = {Checked[f].scope : f \in {g \in DOMAIN Program : HasHiddenParam(g) /\ ~ Program[g].fpir}}

VARIABLES
  functions,       \* the trees of the functions, until they are compiled
  bound,           \* and what C takes them for
  main, start,     \* the function that runs, the machine before
  meant,           \* what it means, and what it and its handler do
  code, pc, m,     \* the code, the place of the next element, the machine
  calls,           \* what each call in progress has to give back
  interrupted      \* "not yet", "now" or "once"

machineVars == <<functions, bound, main, start, meant, code, pc, m, calls, interrupted>>
vars == <<frameVars, machineVars>>

Init ==
  /\ FrameInit
  /\ functions = Checked
  /\ bound = BoundProgram
  /\ main = 0
  /\ start = <<>>
  /\ meant = <<>>
  /\ m = <<>>
  /\ code = <<>>
  /\ pc = 0
  /\ calls = <<>>
  /\ interrupted = "not yet"

Lay == FrameNext /\ UNCHANGED machineVars

-----------------------------------------------------------------------------
(* TranslationUnit::detectCalledFunctions(): a function is compiled if one *)
(* that is calls it or takes its address.                                  *)
RECURSIVE Mentioned(_)
Mentioned(e) ==
  (CASE e.op = "call" -> {e.v.f} [] e.op = "function" -> {e.v} [] OTHER -> {})
    \union UNION {Mentioned(e.kids[j]) : j \in DOMAIN e.kids}

MentionedIn(f) == UNION {Mentioned(functions[f].node[j]) : j \in DOMAIN functions[f].node}

RECURSIVE Reached(_)
Reached(fs) ==
  IF \A f \in fs : MentionedIn(f) \subseteq fs THEN fs ELSE Reached(fs \union UNION {MentionedIn(f) : f \in fs})

LocalsOf(s) == Cardinality({v \in DOMAIN place : v[1] \in ScopesIn(s) /\ ~ DeclarationOf(v).param})

(* The register parameter is the first variable of its function; a         *)
(* structure is returned to the address in that one or in the hidden       *)
(* parameter.                                                              *)
CompiledFunction(f, s, trees) ==
  EmitFunction(f, MinDisplacement(s), LocalsOf(s), DisplacementOf(<<s, 1>>, place),
    Emit(Node("block", LocatedAll(trees, place, IF Program[f].fpir THEN DisplacementOf(<<s, 1>>, place) ELSE FirstParam),
              Void, None, 0), FALSE, 4 * f))

RECURSIVE CompiledFrom(_, _)
CompiledFrom(f, fs) ==
  IF f > Len(functions) THEN <<>>
  ELSE (IF f \in fs THEN CompiledFunction(f, functions[f].scope, functions[f].node) ELSE <<>>) \o CompiledFrom(f + 1, fs)

(* Programs whose code does something else than what they mean.            *)

(* FunctionCallExpr.cpp:563: the type of a pointer variable does not say   *)
(* that the function takes an argument in a register.                      *)
PassesFirstParamOnStack(e) == e.op = "call" /\ e.v.via = "variable" /\ Program[e.v.f].fpir

(* FunctionCallExpr.cpp:613: in a call that does not name the function an  *)
(* argument is not converted.                                              *)
LeavesArgument(e) ==
  /\ e.op = "call" /\ e.v.via # "name"
  /\ \E j \in DOMAIN e.kids : (e.kids[j].type.kind = "long") # (Program[e.v.f].params[j].kind = "long")

(* Declaration.cpp: what follows an inner list with elements missing is    *)
(* not where it should be.                                                 *)
RECURSIVE SkipsElements(_, _)
SkipsElements(e, t) ==
  /\ e.op = "list"
  /\ \E j \in DOMAIN e.kids :
       \/ SkipsElements(e.kids[j], ElementType(t, j))
       \/ j < Len(e.kids) /\ Written(e.kids[j], ElementType(t, j)) # ElementType(t, j).bytes

(* ScopeCreator.cpp:89: an initializer sees the variables that the same    *)
(* declaration declares after it.                                          *)
RECURSIVE NamesIn(_)
NamesIn(e) == (IF e.op = "name" THEN {e.v} ELSE {}) \union UNION {NamesIn(e.kids[j]) : j \in DOMAIN e.kids}

SeesLaterVariable(e) ==
  /\ e.op = "declare"
  /\ \E i, j \in DOMAIN e.kids : i < j /\ Len(e.kids[i].kids) = 2 /\ Left(e.kids[j]).v \in NamesIn(Right(e.kids[i]))

RECURSIVE Miscompiled(_)
Miscompiled(e) ==
  \/ PassesFirstParamOnStack(e) \/ LeavesArgument(e) \/ SeesLaterVariable(e)
  \/ e.op = "init" /\ Len(e.kids) = 2 /\ SkipsElements(Right(e), Left(e).type)
  \/ \E j \in DOMAIN e.kids : Miscompiled(e.kids[j])

Sound(fs) == \A f \in fs : \A j \in DOMAIN TypedProgram[f] : ~ Miscompiled(TypedProgram[f][j])

(* What the functions of fs leave in the data of the programs, one after   *)
(* the other, and the result of each.                                      *)
RECURSIVE Doing(_, _, _)
Done(run, fs, u) == <<[w |-> run.w, data |-> [q \in 0 .. Data - 1 |-> run.mem[q]]]>> \o Doing(fs, run.mem, u)
Doing(fs, mem, u) == IF fs = <<>> THEN <<>> ELSE Done(RunAll(bound, bound[Head(fs)].body, mem, u), Tail(fs), u)

(* The program is called with the return address 0. *)
Compile ==
  /\ phase = "done"
  /\ code = <<>>
  /\ \E f \in Mains, r \in Starts :
       /\ main' = f
       /\ start' = r
       /\ \E all \in {CompiledFrom(1, Reached({f} \union Handler[f]))} :
            /\ code' = all
            /\ pc' = LabelIndex(all, FunctionLabel(f))
       /\ meant' = IF Sound(Reached({f} \union Handler[f])) THEN Doing(<<f>> \o SetToSeq(Handler[f]), r.mem, r.u) ELSE <<>>
       /\ m' = [Write(r, r.s - 2, 0, WORD) EXCEPT !.s = @ - 2]
       /\ calls' = <<[pc |-> 0, s |-> r.s, u |-> r.u, saved |-> {}]>>
  /\ functions' = <<>>
  /\ bound' = <<>>
  /\ UNCHANGED <<frameVars, interrupted>>

-----------------------------------------------------------------------------
Running == pc \in DOMAIN code
Op == code[pc].op
fixed == <<frameVars, functions, bound, main, start, meant, code>>

PushWord(n, w) == [Write(n, (n.s - 2) % WORD, w, WORD) EXCEPT !.s = (@ - 2) % WORD]
PullWord(n, r) == Pull(n, r)

IsFunctionCall == Op = "JSR" \/ (Op = "LBSR" /\ code[pc].m = "F")
IsReturn == Op = "RTS" \/ (Op = "PULS" /\ code[pc].m = "U,PC")

(* The routines of the library (stdlib/*.asm) that move structures and     *)
(* longs.  The n bytes at p go to q, which do not overlap; A and B change. *)
Moved(r, p, q, n) ==
  [r EXCEPT !.mem = StoreBytes(r.mem, q, BytesAt(r.mem, p, n)), !.a = BYTE - 1 - @, !.b = (@ + 1) % BYTE]

InD == Reg(m, "D")
Argument(n) == Read(m, (m.s + 2 * n) % WORD, WORD)

copyMem == [Moved(m, Argument(0), m.x, InD) EXCEPT !.x = (Argument(0) + InD) % WORD]
memcpy == SetReg(Moved(m, Argument(1), Argument(0), Argument(2)), "D", Argument(0))
pushStruct == [Moved(m, m.x, m.s, InD) EXCEPT !.x = (@ + InD) % WORD]
push4ByteStruct == Moved(m, m.x, m.s, 4)
push5ByteStruct == Moved(m, m.x, m.s, 5)
copyDWord == Moved(m, InD, m.x, 4)
copyDWordFromXToD == Moved(m, m.x, InD, 4)
initWordFromDWord == Moved(m, InD + 2, m.x, 2)
initByteFromDWord == Moved(m, InD + 3, m.x, 1)
initDWordFromWord(signed) ==
  [m EXCEPT !.mem = StoreBytes(m.mem, m.x, Converted(LongInt(TRUE), Integral(2, signed), m.mem, InD))]

Moves ==
  {"copyMem", "memcpy", "pushStruct", "push4ByteStruct", "push5ByteStruct", "copyDWord", "copyDWordFromXToD",
   "initDWordFromSignedWord", "initDWordFromUnsignedWord", "initWordFromDWord", "initByteFromDWord"}

Move(name) ==
  CASE name = "copyMem" -> copyMem
    [] name = "memcpy" -> memcpy
    [] name = "pushStruct" -> pushStruct
    [] name = "push4ByteStruct" -> push4ByteStruct
    [] name = "push5ByteStruct" -> push5ByteStruct
    [] name = "copyDWord" -> copyDWord
    [] name = "copyDWordFromXToD" -> copyDWordFromXToD
    [] name = "initWordFromDWord" -> initWordFromDWord
    [] name = "initByteFromDWord" -> initByteFromDWord
    [] OTHER -> initDWordFromWord(name = "initDWordFromSignedWord")

Next1 == pc' = pc + 1

Instruction ==
  /\ Running
  /\ IsIns(code[pc]) /\ ~ IsBranch(code[pc]) /\ ~ IsFunctionCall /\ ~ IsReturn
  /\ Op # "RTI" /\ code[pc].m \notin Moves \union {"F"}
  /\ m' = Execute(m, code[pc])
  /\ Next1
  /\ UNCHANGED <<fixed, calls, interrupted>>

MoveBytes ==
  /\ Running
  /\ Op = "LBSR" /\ code[pc].m \in Moves
  /\ m' = Move(code[pc].m)
  /\ Next1
  /\ UNCHANGED <<fixed, calls, interrupted>>

LoadFunctionAddress ==
  /\ Running
  /\ Op = "LEA" /\ code[pc].m = "F"
  /\ m' = [m EXCEPT !.x = LabelIndex(code, code[pc].v)]
  /\ Next1
  /\ UNCHANGED <<fixed, calls, interrupted>>

Jump ==
  /\ Running
  /\ IsBranch(code[pc])
  /\ pc' = IF Taken(m, Op) THEN LabelIndex(code, code[pc].v) ELSE pc + 1
  /\ UNCHANGED <<fixed, m, calls, interrupted>>

Skip ==
  /\ Running
  /\ ~ IsIns(code[pc])
  /\ Next1
  /\ UNCHANGED <<fixed, m, calls, interrupted>>

CallFunction ==
  /\ Running
  /\ IsFunctionCall
  /\ pc' = IF Op = "LBSR" THEN LabelIndex(code, code[pc].v) ELSE Address(m, code[pc])
  /\ m' = PushWord(m, pc + 1)
  /\ calls' = Append(calls, [pc |-> pc + 1, s |-> m.s, u |-> m.u, saved |-> {}])
  /\ UNCHANGED <<fixed, interrupted>>

ReturnFromFunction ==
  /\ Running
  /\ IsReturn
  /\ \E n \in {IF Op = "RTS" THEN m ELSE Pull(m, "U")} :
       /\ pc' = Read(n, n.s, WORD)
       /\ m' = [n EXCEPT !.s = (@ + 2) % WORD]
  /\ calls' = Front(calls)
  /\ UNCHANGED <<fixed, interrupted>>

(* The registers and then CC on the stack; RTI takes them back. *)
Saved == <<"U", "Y", "X", "D">>
Registers(r) == {<<q, Reg(r, q)>> : q \in {"A", "B", "X", "Y", "U", "CC"}}

Interrupt ==
  /\ Running
  /\ interrupted = "not yet"
  /\ \E h \in Handler[main] : pc' = LabelIndex(code, FunctionLabel(h))
  /\ \E n \in {FoldLeft(Push, PushWord(m, pc), Saved)} :
       m' = [Write(n, (n.s - 1) % WORD, Reg(m, "CC"), BYTE) EXCEPT !.s = (@ - 1) % WORD]
  /\ calls' = Append(calls, [pc |-> pc, s |-> m.s, u |-> m.u, saved |-> Registers(m)])
  /\ interrupted' = "now"
  /\ UNCHANGED fixed

EndInterrupt ==
  /\ Running
  /\ Op = "RTI"
  /\ \E cc \in {m.mem[m.s]}, n \in {FoldRight(LAMBDA r, q : Pull(q, r), Saved, [m EXCEPT !.s = (@ + 1) % WORD])} :
       /\ m' = [n EXCEPT !.s = (@ + 2) % WORD,
                         !.c = Bit(cc, 0), !.v = Bit(cc, 1), !.z = Bit(cc, 2), !.n = Bit(cc, 3)]
       /\ pc' = Read(n, n.s, WORD)
  /\ calls' = Front(calls)
  /\ interrupted' = "once"
  /\ UNCHANGED fixed

Next ==
  \/ Lay \/ Compile \/ Instruction \/ MoveBytes \/ LoadFunctionAddress \/ Jump \/ Skip
  \/ CallFunction \/ ReturnFromFunction \/ Interrupt \/ EndInterrupt

Spec == Init /\ [][Next]_vars

Finished == code # <<>> /\ pc = 0

-----------------------------------------------------------------------------
Result == Reg(m, Acc(Program[main].result))
(* The routine's data are its own: it does not matter when it came.        *)
Expected == meant[IF interrupted = "not yet" THEN 1 ELSE 2].data

(* Whatever is passed by value, in a register, converted or through a      *)
(* hidden address, to functions that call themselves and one another with  *)
(* an interrupt at any time, the program gives the result that it means    *)
(* and leaves its data so.                                                 *)
ProgramMeans ==
  Finished /\ meant # <<>> =>
    /\ Result = meant[1].w
    /\ \A q \in 0 .. Data - 1 : m.mem[q] = Expected[q]
    /\ m.s = start.s /\ m.u = start.u

(* A function returns to the instruction after the call with the frame     *)
(* pointer and the stack that its caller had; the interrupt routine gives  *)
(* back every register.                                                    *)
ReturnsToCaller ==
  [][Len(calls') < Len(calls) /\ meant # <<>> =>
       LET c == Last(calls)
       IN  /\ pc' = c.pc /\ m'.s = c.s /\ m'.u = c.u
           /\ \A r \in c.saved : Reg(m', r[1]) = r[2]]_vars
===============================================================================
