--------------------------- MODULE PeepholeMeaning ---------------------------
(***************************************************************************)
(* What the code that the peephole optimizer rewrites does on the 6809,    *)
(* before and after.                                                       *)
(***************************************************************************)
EXTENDS Peephole

CONSTANTS
  Starts,        \* the machines on which the codes are compared
  Ports,         \* addresses that are those of devices
  Fuel           \* bound on the elements that a run executes

(* One element executed: pc is its place, m the machine, io the accesses   *)
(* to ports so far, each with the operation.                               *)
NoAccess == {"LEA", "TFR", "EXG", "PSHS", "PULS", "LBSR", "SEX", "MUL", "ABX"}
AccessesPort(m, e) ==
  e.op \notin NoAccess /\ e.m # "" /\ ~ Immediate(e) /\ Address(m, e) \in Ports

After(c, r) ==
  LET e == c[r.pc]
  IN  CASE ~ IsIns(e) -> [r EXCEPT !.pc = @ + 1]
        [] IsBranch(e) ->
             [r EXCEPT !.pc = IF Taken(r.m, e.op) THEN LabelIndex(c, e.v) ELSE @ + 1]
        [] OTHER -> [pc |-> r.pc + 1,
                     m  |-> Execute(r.m, e),
                     io |-> IF AccessesPort(r.m, e) THEN Append(r.io, <<e.op, Address(r.m, e)>>) ELSE r.io]

RECURSIVE RunFor(_, _, _)
RunFor(c, r, fuel) ==
  IF r.pc > Len(c) \/ fuel = 0 THEN r ELSE RunFor(c, After(c, r), fuel - 1)

(* What a run leaves that the rest of the program can see: S, U and the    *)
(* memory from S up.  The registers are dead between two statements.       *)
Visible(r) ==
  [ended |-> r.pc, s |-> r.m.s, u |-> r.m.u, io |-> r.io, mem |-> [q \in r.m.s .. WORD - 1 |-> r.m.mem[q]]]

Outcome(c, m) == Visible(RunFor(c, [pc |-> 1, m |-> m, io |-> <<>>], Fuel))

PassEnded == pos > Len(code)

(* At the end of every pass, after any number of rewritings by any of the  *)
(* rules, the program leaves the same memory, stack pointer and frame      *)
(* pointer as what the compiler had generated, from every machine it may   *)
(* start on.                                                               *)
Alike(now, then) ==
  /\ now.ended > Len(code) /\ then.ended > Len(given)
  /\ now.s = then.s /\ now.u = then.u
  /\ now.mem = then.mem

SameOutcome == PassEnded => \A m \in Starts : Alike(Outcome(code, m), Outcome(given, m))

(* A program accesses the ports in the same order and as many times,       *)
(* whatever was rewritten: storeLoad() and others take a load from the     *)
(* address of the last store for useless, unless the address is absolute.  *)
PortAccessesKept ==
  PassEnded => \A m \in Starts : Outcome(code, m).io = Outcome(given, m).io
=============================================================================
