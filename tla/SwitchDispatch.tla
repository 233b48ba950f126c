--------------------------- MODULE SwitchDispatch ---------------------------
(***************************************************************************)
(* How a switch statement finds its case: SwitchStmt.cpp collects the      *)
(* cases, chooses between a series of comparisons and a table of offsets,  *)
(* and emits one or the other; stdlib/jumpTableSwitch.asm reads the table. *)
(* A value is the bit pattern of a word, as in the compiler's uint16_t; a  *)
(* byte may have any even number of values, and a word is two bytes.  A    *)
(* label is the index of its case in cases[]; the end of the switch is the *)
(* index after the last.                                                   *)
(***************************************************************************)
EXTENDS Integers, Sequences, FiniteSets

CONSTANTS HalfByte,            \* the values of a byte that are not negative: 128 in the compiler
          Excess,              \* 256 in the compiler: see Mode
          CaseExprs,           \* the constants that the source may use as cases
          MaxCases,            \* bound on the length of cases[]
          Warned               \* the program has cases that the compiler warns about

BYTE == 2 * HalfByte
WORD == BYTE * BYTE
HalfWord == HalfByte * BYTE

Word == 0 .. WORD - 1
MaxByte == BYTE - 1

ASSUME WidthAssumption == HalfByte \in Nat \ {0}
ASSUME CaseAssumption == /\ CaseExprs \subseteq Word
                         /\ MaxCases \in Nat
                         /\ Excess \in Nat \ {0}
                         /\ Warned \in BOOLEAN

Signed(v) == IF v < HalfWord THEN v ELSE v - WORD
Pattern(i) == i % WORD
Types == [byte : BOOLEAN, signed : BOOLEAN]

(***************************************************************************)
(* The order in which the comparisons of type t see two patterns.          *)
(***************************************************************************)
Number(t, v) == IF t.signed THEN Signed(v) ELSE v

(***************************************************************************)
(* The values that an expression of type t has once it is in a word.       *)
(***************************************************************************)
ExprValues(t) ==
    CASE ~t.byte -> Word
      [] t.byte /\ ~t.signed -> 0 .. MaxByte
      [] OTHER -> 0 .. HalfByte - 1 \union WORD - HalfByte .. WORD - 1

(***************************************************************************)
(* compileLabeledStatements(): cases for which a warning is printed.  They *)
(* are not compared with the other cases.                                  *)
(***************************************************************************)
OutOfRange(t, v) ==
    /\ t.byte
    /\ IF t.signed THEN v >= HalfByte /\ v < WORD - HalfByte
                   ELSE v > MaxByte

VARIABLES type,     \* of the expression
          forced,   \* --switch: "none", "ifelse" or "jump"
          cases,    \* SwitchStmt::cases
          errors,   \* an error was reported: no code is emitted
          code      \* what emitCode() wrote, or NotEmitted
vars == <<type, forced, cases, errors, code>>

NotEmitted == [form |-> "none"]
Defaults(cs) == {i \in DOMAIN cs : cs[i].isDefault}
Ordinary(cs) == DOMAIN cs \ Defaults(cs)
DefaultLabel(cs) == IF Defaults(cs) = {} THEN Len(cs) + 1 ELSE CHOOSE i \in Defaults(cs) : TRUE

(***************************************************************************)
(* caseValues is sorted by value: the first of a part of it, and the last. *)
(***************************************************************************)
First(t, cs, part) ==
    CHOOSE i \in part : \A j \in part : Number(t, cs[i].caseValue) <= Number(t, cs[j].caseValue)
Last(t, cs, part) ==
    CHOOSE i \in part : \A j \in part : Number(t, cs[j].caseValue) <= Number(t, cs[i].caseValue)

-----------------------------------------------------------------------------
(***************************************************************************)
(* computeJumpModeCost().  The count of table entries is a uint16_t.       *)
(***************************************************************************)
CmpCost(t) == IF t.byte THEN 2 ELSE 4
PromotionCost(t) == IF t.byte THEN 1 ELSE 0
NumTableEntries_short(first, last) == (last - first) % WORD  \* mutant
NumTableEntries(first, last) == (1 + last - first) % WORD
IfElseCost(t, cs) ==
    LET n == Cardinality(Ordinary(cs))
    IN  IF n = 0 THEN 0 ELSE n * (CmpCost(t) + 4) + 3
JumpTableCost(t, cs) ==
    LET all == Ordinary(cs)
    IN  IF all = {} THEN 0
        ELSE PromotionCost(t) + 4 + 3 + 6
             + 2 * (3 + NumTableEntries(cs[First(t, cs, all)].caseValue, cs[Last(t, cs, all)].caseValue))

Mode(t, cs, force) ==
    LET ifElse == IfElseCost(t, cs)
        table == JumpTableCost(t, cs)
    IN  IF table > ifElse /\ table - ifElse >= Excess THEN "ifelse"
        ELSE IF force # "none" THEN force
        ELSE IF ifElse <= table THEN "ifelse" ELSE "jump"

(***************************************************************************)
(* The comparisons, in the order of the source: what is compared for each  *)
(* case.                                                                   *)
(***************************************************************************)
Tests(t, cs) ==
    [i \in {j \in Ordinary(cs) : ~(t.byte /\ Signed(cs[j].caseValue) > MaxByte)} |->
       IF t.byte THEN cs[i].caseValue % BYTE ELSE cs[i].caseValue]

(***************************************************************************)
(* getSignedMinAndMaxCaseValues(), getUnsignedMinAndMaxCaseValues(): over  *)
(* all of cases[], the default with its value of 0 included.               *)
(***************************************************************************)
MinCaseValue(t, cs) == LET all == {cs[i].caseValue : i \in DOMAIN cs}
                       IN  CHOOSE v \in all : \A w \in all : Number(t, v) <= Number(t, w)
MaxCaseValue(t, cs) == LET all == {cs[i].caseValue : i \in DOMAIN cs}
                       IN  CHOOSE v \in all : \A w \in all : Number(t, v) >= Number(t, w)

(***************************************************************************)
(* emitJumpTableEntries(): one entry per value from the least to the       *)
(* greatest.  rest is caseValues from vectorIndex on; the compiler halts   *)
(* on an assertion when it is used up before the last entry.               *)
(***************************************************************************)
Table(rest, entries, halted) == [rest |-> rest, entries |-> entries, halted |-> halted]

Iteration_dense(t, cs, value, s) ==  \* mutant: no entry for a hole
    LET i == First(t, cs, s.rest)
    IN  IF s.halted \/ s.rest = {} THEN Table({}, s.entries, TRUE)
        ELSE IF value < Number(t, cs[i].caseValue) THEN s
        ELSE Table(s.rest \ {i}, Append(s.entries, i), FALSE)
Iteration_eager(t, cs, value, s) ==  \* mutant: vectorIndex also advances over a hole
    LET i == First(t, cs, s.rest)
    IN  IF s.halted \/ s.rest = {} THEN Table({}, s.entries, TRUE)
        ELSE IF value < Number(t, cs[i].caseValue) THEN Table(s.rest \ {i}, Append(s.entries, DefaultLabel(cs)), FALSE)
        ELSE Table(s.rest \ {i}, Append(s.entries, i), FALSE)
Iteration(t, cs, value, s) ==
    LET i == First(t, cs, s.rest)
    IN  IF s.halted \/ s.rest = {} THEN Table({}, s.entries, TRUE)
        ELSE IF value < Number(t, cs[i].caseValue) THEN Table(s.rest, Append(s.entries, DefaultLabel(cs)), FALSE)
        ELSE Table(s.rest \ {i}, Append(s.entries, i), FALSE)

JumpTableEntries(t, cs) ==
    LET min == Number(t, MinCaseValue(t, cs))
        span == Number(t, MaxCaseValue(t, cs)) - min
        after[n \in 0 .. span + 1] ==
            IF n = 0 THEN Table(Ordinary(cs), <<>>, FALSE) ELSE Iteration(t, cs, min + n - 1, after[n - 1])
    IN  after[span + 1]

Emitted(t, cs, mode) ==
    LET table == JumpTableEntries(t, cs)
    IN  IF mode = "ifelse" \/ Ordinary(cs) = {} THEN [form |-> "tests", tests |-> Tests(t, cs)]
        ELSE IF table.halted THEN [form |-> "halted"]
        ELSE [form |-> "table", min |-> MinCaseValue(t, cs),
              max |-> MaxCaseValue(t, cs), entries |-> table.entries]

-----------------------------------------------------------------------------
Init == /\ type \in Types
        /\ forced \in {"none", "ifelse", "jump"}
        /\ cases = <<>>
        /\ errors = FALSE
        /\ code = NotEmitted

AddCase(v) ==
    /\ code = NotEmitted /\ ~errors /\ Len(cases) < MaxCases
    /\ Warned \/ ~OutOfRange(type, v)
    /\ cases' = Append(cases, [isDefault |-> FALSE, caseValue |-> v])
    /\ errors' = (~OutOfRange(type, v) /\ \E i \in Ordinary(cases) : cases[i].caseValue = v)
    /\ UNCHANGED <<type, forced, code>>

AddDefault ==
    /\ code = NotEmitted /\ ~errors /\ Len(cases) < MaxCases
    /\ cases' = Append(cases, [isDefault |-> TRUE, caseValue |-> 0])
    /\ errors' = (Defaults(cases) # {})
    /\ UNCHANGED <<type, forced, code>>

EmitSwitch ==
    /\ code = NotEmitted /\ ~errors
    /\ code' = Emitted(type, cases, Mode(type, cases, forced))
    /\ UNCHANGED <<type, forced, cases, errors>>

Next == (\E v \in CaseExprs : AddCase(v)) \/ AddDefault \/ EmitSwitch
Spec == Init /\ [][Next]_vars

-----------------------------------------------------------------------------
(***************************************************************************)
(* Where the emitted code goes for the value x of the expression.  The     *)
(* index into the table is doubled in a word, which loses its high bit.    *)
(***************************************************************************)
DispatchTests(t, cs, tests, x) ==
    LET equal == {i \in DOMAIN tests : tests[i] = IF t.byte THEN x % BYTE ELSE x}
    IN  IF equal = {} THEN DefaultLabel(cs) ELSE CHOOSE i \in equal : \A j \in equal : i <= j

UseTable(t, c, x) == /\ Number(t, x) <= Number(t, c.max)
                     /\ Number(t, x) >= Number(t, c.min)
DispatchTable(t, cs, c, x) ==
    IF UseTable(t, c, x) THEN c.entries[(Pattern(x - c.min) % HalfWord) + 1]
    ELSE DefaultLabel(cs)

Dispatch(x) == IF code.form = "tests" THEN DispatchTests(type, cases, code.tests, x)
               ELSE DispatchTable(type, cases, code, x)

(***************************************************************************)
(* Where C says it goes: the case equal to the expression, else default,   *)
(* else after the switch.                                                  *)
(***************************************************************************)
Selected(x) ==
    LET equal == {i \in Ordinary(cases) : cases[i].caseValue = x}
    IN  IF equal = {} THEN DefaultLabel(cases) ELSE CHOOSE i \in equal : \A j \in equal : i <= j

Done == code # NotEmitted /\ code.form # "halted"

(***************************************************************************)
(* The address space holds no table of more entries: each takes two bytes. *)
(***************************************************************************)
InMemory == code.form = "table" => Len(code.entries) <= HalfWord

(***************************************************************************)
(* The value 0 that cases[] has for the default is above all other cases,  *)
(* or below them: it is none of the values that they span.                 *)
(***************************************************************************)
CaseNumbersOf(t, cs) == {Number(t, cs[i].caseValue) : i \in Ordinary(cs)}
AllBelowZero(t, cs) == Defaults(cs) # {} /\ \A n \in CaseNumbersOf(t, cs) : n < 0
AllAboveZero(t, cs) == Defaults(cs) # {} /\ \A n \in CaseNumbersOf(t, cs) : n > 0

(***************************************************************************)
(* The entries of a table that computeJumpModeCost() does not count: those *)
(* from the default's 0 to the first case, and all of them when the cases  *)
(* span a whole word.                                                      *)
(***************************************************************************)
Uncounted(t, cs) ==
    LET first == cs[First(t, cs, Ordinary(cs))].caseValue
        last == cs[Last(t, cs, Ordinary(cs))].caseValue
    IN  (IF AllAboveZero(t, cs) THEN Number(t, first) ELSE 0)
        + (IF Number(t, last) - Number(t, first) = WORD - 1 THEN WORD ELSE 0)

(***************************************************************************)
(* The bytes taken by each form, from what is emitted.                     *)
(***************************************************************************)
TestsSize(c) == Cardinality(DOMAIN c.tests) * (CmpCost(type) + 4) + 3
TableSize(c) == PromotionCost(type) + 4 + 3 + 2 * (3 + Len(c.entries))
SizeOf(c) == IF c.form = "tests" THEN TestsSize(c) ELSE TableSize(c)

-----------------------------------------------------------------------------
(***************************************************************************)
(* Both forms of the code send every value of the expression to the case   *)
(* that C selects: the comparison is of the width of the expression, the   *)
(* table covers the cases with no hole and no shift (SwitchStmt::emitCode, *)
(* emitJumpTableEntries, signedJumpTableSwitch, unsignedJumpTableSwitch).  *)
(* That is so also of a table that starts at the default's 0; not of one   *)
(* that takes more than the 6809 can address, which the compiler writes.   *)
(***************************************************************************)
DispatchesByValue == (Done /\ InMemory) => \A x \in ExprValues(type) : Dispatch(x) = Selected(x)

(***************************************************************************)
(* The assertion of emitJumpTableEntries (vectorIndex < caseValues.size()) *)
(* stops the compiler on the tables of the switches that have a default    *)
(* and no other case from 0 up, for the default's 0 is then the greatest   *)
(* value and lies after the last case; and on no other.                    *)
(***************************************************************************)
StopsBelowZero == /\ code.form = "halted" => AllBelowZero(type, cases)
                  /\ code.form = "table" => ~AllBelowZero(type, cases)

(***************************************************************************)
(* Left to itself the compiler takes the form that needs less memory, up   *)
(* to the six bytes that it adds as the share of the routine; a form that  *)
(* was asked for costs less than Excess bytes more than the comparisons    *)
(* (computeJumpModeCost against what emitCode then writes).  It errs by    *)
(* the entries that it does not count and by no others.                    *)
(***************************************************************************)
TakesLessMemory ==
    (Done /\ Ordinary(cases) # {}) =>
        LET other == Emitted(type, cases, IF code.form = "tests" THEN "jump" ELSE "ifelse")
            missed == 2 * Uncounted(type, cases)
        IN  /\ code.form = "table" =>
                 SizeOf(code) - missed + 6 < SizeOf(other) + (IF forced = "none" THEN 0 ELSE Excess)
            /\ code.form = "tests" /\ other.form = "table" /\ forced = "none" =>
                 SizeOf(code) <= SizeOf(other) - missed + 6
=============================================================================
