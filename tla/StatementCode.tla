---------------------------- MODULE StatementCode ----------------------------
(***************************************************************************)
(* The code that cmoc emits for the statements of a function, and what it  *)
(* does beside what C says.  A first phase is emitCode() of each kind of   *)
(* statement, with the stack of break and continue labels that the         *)
(* translation unit keeps; a second phase runs the emitted code in step    *)
(* with the source (SourceWalk).                                           *)
(*                                                                         *)
(* What happens in an expression statement, in a test or in the choice of  *)
(* a case is left out: it is an event, DO, TEST or SELECT, that carries    *)
(* its node of the tree.  (SwitchDispatch models the choice of a case.)    *)
(***************************************************************************)
EXTENDS SourceWalk

VARIABLES todo,        \* what is left to emit, in order
          out,         \* the instructions and labels emitted so far
          breakables,  \* TranslationUnit::breakableStack, innermost first
          labels,      \* TranslationUnit::labelGeneratorIndex
          errors,      \* an error was reported
          pc, flag     \* of the emitted code: place and last test; pc = 0 before it runs
emitVars == <<todo, out, breakables, labels, errors>>
vars == <<source, control, emitVars, pc, flag>>

-----------------------------------------------------------------------------
(***************************************************************************)
(* Labels: 0 is functionEndLabel, positive numbers are generated, negative *)
(* ones were generated for the labels of the source when it was parsed.    *)
(***************************************************************************)
EndLabel == 0
SourceLabel(id) == -id

Ins(op, arg) == [w |-> "ins", op |-> op, arg |-> arg]
Label(l) == Ins("LABEL", l)
Lbra(l) == Ins("LBRA", l)
EndLabelAndPop(l) == [w |-> "end", op |-> "LABEL", arg |-> l]  \* and popBreakableLabels()
Tree(n) == [w |-> "tree", tree |-> n]
Case(n, label) == [w |-> "case", tree |-> n, label |-> label]
BoolJumps(c, yes, no) == [w |-> "jumps", tree |-> c, yes |-> yes, no |-> no]
Trees(nodes) == [i \in DOMAIN nodes |-> Tree(nodes[i])]
Blank == Ins("BLANK", 0)  \* what is left out of a text: an empty line
Optional(n, role) == IF Has(n, role) THEN Tree(Kid(n, role)) ELSE Blank

Emitting(w) == todo # <<>> /\ Head(todo).w = w
EmittingTree(kinds) == Emitting("tree") /\ Kind(Head(todo).tree) \in kinds
Replace(items) == todo' = items \o Tail(todo)
NoPush == UNCHANGED <<out, breakables, errors, source, control, pc, flag>>
NoJump == labels' = labels /\ NoPush

(***************************************************************************)
(* Instructions and labels go to the text as they are.                     *)
(***************************************************************************)
EmitIns ==
    /\ Emitting("ins")
    /\ out' = Append(out, Head(todo))
    /\ todo' = Tail(todo)
    /\ UNCHANGED <<breakables, labels, errors, source, control, pc, flag>>

EmitPrimitive ==
    /\ EmittingTree({"do"})
    /\ Replace(<<Ins("DO", Head(todo).tree)>>)
    /\ NoJump

EmitSequence ==
    /\ EmittingTree({"block"})
    /\ Replace(Trees(Kids(Head(todo).tree)))
    /\ NoJump

(***************************************************************************)
(* IfStmt::emitCode(): a constant condition leaves one branch or none.     *)
(* l + 1, l + 2, l + 3 are thenLabel, elseLabel and endifLabel.            *)
(***************************************************************************)
IfText(n, l) ==
    IF ConstantTest(n) THEN <<IF Holds(n) THEN Tree(Kid(n, "then")) ELSE Optional(n, "else")>>
    ELSE <<BoolJumps(Kid(n, "cond"), l + 1, l + 2),
           Label(l + 1), Tree(Kid(n, "then")), IF Has(n, "else") THEN Lbra(l + 3) ELSE Blank,
           Label(l + 2), Optional(n, "else"), Label(l + 3)>>
EmitIf ==
    /\ EmittingTree({"if"})
    /\ Replace(IfText(Head(todo).tree, labels))
    /\ labels' = IF ConstantTest(Head(todo).tree) THEN labels ELSE labels + 3
    /\ NoPush

(***************************************************************************)
(* Slips of the kind that the properties must notice.                      *)
(***************************************************************************)
WhileTest_stuck(n, l) ==  \* while (1) goes back to its condition
    IF ConstantTest(n) THEN Lbra(l + 2) ELSE BoolJumps(Kid(n, "cond"), l + 1, l + 3)
ForIncrement_optional(n, l) ==  \* the label comes and goes with the increment
    IF Has(n, "incr") THEN Label(l + 3) ELSE Blank
EmitEnd_kept ==  \* an early return before popBreakableLabels()
    /\ Emitting("end")
    /\ out' = Append(out, Head(todo))
    /\ todo' = Tail(todo)
    /\ UNCHANGED <<breakables, labels, errors, source, control, pc, flag>>
BoolText_swapped(c, yes, no, l) ==  \* && falls into its right side when the left one fails
    CASE Kind(c) = "not" -> <<BoolJumps(Kid(c, "left"), no, yes)>>
      [] Kind(c) \in {"or", "and"} ->
             <<BoolJumps(Kid(c, "left"), yes, l + 1), Label(l + 1), BoolJumps(Kid(c, "right"), yes, no)>>
      [] OTHER -> <<Ins("TEST", c), Ins("LBNE", yes), Lbra(no)>>

(***************************************************************************)
(* The end of a loop or of a switch.                                       *)
(***************************************************************************)
EmitEnd ==
    /\ Emitting("end")
    /\ out' = Append(out, Head(todo))
    /\ breakables' = Tail(breakables)
    /\ todo' = Tail(todo)
    /\ UNCHANGED <<labels, errors, source, control, pc, flag>>

Targets(breakLabel, continueLabel) == [break |-> breakLabel, continue |-> continueLabel]
NoContinue == -1000  \* the empty label that a switch pushes
Push(targets) == breakables' = <<targets>> \o breakables
NoEmit == UNCHANGED <<out, errors, source, control, pc, flag>>

(***************************************************************************)
(* WhileStmt::emitCode(): l + 1, l + 2, l + 3 are bodyLabel,               *)
(* conditionLabel and endLabel; the tag of a do-while is 1.                *)
(***************************************************************************)
IsDo(n) == program[n].tag = 1
WhileTest(n, l) ==
    IF ConstantTest(n) THEN Lbra(l + 1) ELSE BoolJumps(Kid(n, "cond"), l + 1, l + 3)
WhileText(n, l) ==
    IF NeverHolds(n)
    THEN <<IF IsDo(n) THEN Label(l + 1) ELSE Blank, IF IsDo(n) THEN Tree(Kid(n, "body")) ELSE Blank,
           EndLabelAndPop(l + 3)>>
    ELSE <<IF IsDo(n) THEN Blank ELSE Lbra(l + 2), Label(l + 1), Tree(Kid(n, "body")),
           Label(l + 2), WhileTest(n, l), EndLabelAndPop(l + 3)>>
EmitWhile ==
    /\ EmittingTree({"while"})
    /\ Replace(WhileText(Head(todo).tree, labels))
    /\ Push(Targets(labels + 3, labels + 2))
    /\ labels' = labels + 3
    /\ NoEmit

(***************************************************************************)
(* ForStmt::emitCode() and emitInScope(): l + 1 to l + 4 are bodyLabel,    *)
(* conditionLabel, incrementLabel and endLabel.                            *)
(***************************************************************************)
ForIncrement(n, l) == Label(l + 3)
ForText(n, l) ==
    <<Optional(n, "init"), IF Has(n, "cond") THEN Lbra(l + 2) ELSE Blank,
      Label(l + 1), Tree(Kid(n, "body")),
      ForIncrement(n, l), Optional(n, "incr"),
      IF Has(n, "cond") THEN Label(l + 2) ELSE Blank,
      IF Has(n, "cond") THEN BoolJumps(Kid(n, "cond"), l + 1, l + 4) ELSE Lbra(l + 1),
      EndLabelAndPop(l + 4)>>
EmitFor ==
    /\ EmittingTree({"for"})
    /\ Replace(ForText(Head(todo).tree, labels))
    /\ Push(Targets(labels + 4, labels + 3))
    /\ labels' = labels + 4
    /\ NoEmit

(***************************************************************************)
(* SwitchStmt::emitCode(): l + 1 is endSwitchLabel, l + 1 + i the label of *)
(* case i.  SELECT stands for the comparisons or for the table; a turn of  *)
(* the loop over the cases emits the label and the statements of one.      *)
(***************************************************************************)
SwitchText(n, l) ==
    <<Ins("SELECT", [node |-> n, first |-> l + 2, end |-> l + 1])>>
    \o [i \in DOMAIN Kids(n) |-> Case(Kids(n)[i], l + 1 + i)]
    \o <<EndLabelAndPop(l + 1)>>
EmitSwitch ==
    /\ EmittingTree({"switch"})
    /\ Replace(SwitchText(Head(todo).tree, labels))
    /\ Push(Targets(labels + 1, NoContinue))
    /\ labels' = labels + 1 + Len(Kids(Head(todo).tree))
    /\ NoEmit

EmitCase ==
    /\ Emitting("case")
    /\ Replace(<<Label(Head(todo).label)>> \o Trees(Kids(Head(todo).tree)))
    /\ NoJump

(***************************************************************************)
(* JumpStmt::emitCode().  A break outside of everything ends the emission, *)
(* a continue in a switch is reported and emission goes on.                *)
(***************************************************************************)
JumpTarget(n) == IF Kind(n) = "break" THEN breakables[1].break ELSE breakables[1].continue
EmitJump ==
    /\ EmittingTree({"break", "continue"})
    /\ breakables # <<>> /\ JumpTarget(Head(todo).tree) # NoContinue
    /\ Replace(<<Lbra(JumpTarget(Head(todo).tree))>>)
    /\ NoJump

ReportJump ==
    /\ EmittingTree({"break", "continue"})
    /\ errors' = TRUE
    /\ \/ breakables = <<>> /\ todo' = <<>>
       \/ breakables # <<>> /\ JumpTarget(Head(todo).tree) = NoContinue /\ todo' = Tail(todo)
    /\ UNCHANGED <<out, breakables, labels, source, control, pc, flag>>

EmitReturn ==
    /\ EmittingTree({"return"})
    /\ Replace(<<Lbra(EndLabel)>>)
    /\ NoJump

EmitGoto ==
    /\ EmittingTree({"goto"})
    /\ Replace(<<Lbra(SourceLabel(program[Head(todo).tree].tag))>>)
    /\ NoJump

EmitLabeled ==
    /\ EmittingTree({"label"})
    /\ Replace(<<Label(SourceLabel(program[Head(todo).tree].tag)), Tree(Kid(Head(todo).tree, "body"))>>)
    /\ NoJump

(***************************************************************************)
(* BinaryOpExpr::emitBoolJumps().                                          *)
(***************************************************************************)
BoolText(c, yes, no, l) ==
    CASE Kind(c) = "not" -> <<BoolJumps(Kid(c, "left"), no, yes)>>
      [] Kind(c) = "or" ->
             <<BoolJumps(Kid(c, "left"), yes, l + 1), Label(l + 1), BoolJumps(Kid(c, "right"), yes, no)>>
      [] Kind(c) = "and" ->
             <<BoolJumps(Kid(c, "left"), l + 1, no), Label(l + 1), BoolJumps(Kid(c, "right"), yes, no)>>
      [] Kind(c) = "const" -> <<Ins("LOAD", program[c].tag), Ins("LBNE", yes), Lbra(no)>>
      [] OTHER -> <<Ins("TEST", c), Ins("LBNE", yes), Lbra(no)>>
EmitBoolJumps ==
    /\ Emitting("jumps")
    /\ Replace(BoolText(Head(todo).tree, Head(todo).yes, Head(todo).no, labels))
    /\ labels' = IF Kind(Head(todo).tree) \in {"and", "or"} THEN labels + 1 ELSE labels
    /\ NoPush

Emit == \/ EmitIns \/ EmitEnd \/ EmitPrimitive \/ EmitSequence \/ EmitIf \/ EmitWhile \/ EmitFor
        \/ EmitSwitch \/ EmitCase \/ EmitJump \/ ReportJump \/ EmitReturn \/ EmitGoto \/ EmitLabeled
        \/ EmitBoolJumps

-----------------------------------------------------------------------------
(***************************************************************************)
(* The emitted code runs.  The assembler refuses a text in which the       *)
(* target of a jump is not defined, or is defined twice.                   *)
(***************************************************************************)
Definitions(l) == {i \in DOMAIN out : out[i].op = "LABEL" /\ out[i].arg = l}
TargetsOf(ins) ==
    CASE ins.op \in {"LBRA", "LBNE"} -> {ins.arg}
      [] ins.op = "SELECT" -> {ins.arg.first + k - 1 : k \in DOMAIN Kids(ins.arg.node)} \cup {ins.arg.end}
      [] OTHER -> {}
Assembles == \A i \in DOMAIN out : \A l \in TargetsOf(out[i]) : Cardinality(Definitions(l)) = 1
Place(l) == CHOOSE i \in Definitions(l) : TRUE

Emitted == todo = <<>>
Running == pc # 0

CallFunction ==
    /\ Emitted /\ ~Running /\ ~errors /\ Assembles
    /\ pc' = 1 /\ control' = Start
    /\ UNCHANGED <<source, emitVars, flag>>

Instr == out[pc]
CodeObservable == Instr.op \in {"DO", "TEST", "SELECT", "RTS"}
CodeEvent == [op |-> Instr.op, node |-> IF Instr.op = "SELECT" THEN Instr.arg.node ELSE Instr.arg]

(***************************************************************************)
(* An instruction that cannot be observed: a label, a jump, the load of a  *)
(* constant condition.                                                     *)
(***************************************************************************)
CodeStep ==
    /\ Running /\ ~CodeObservable
    /\ pc' = CASE Instr.op = "LBRA" -> Place(Instr.arg)
                [] Instr.op = "LBNE" /\ flag # 0 -> Place(Instr.arg)
                [] OTHER -> pc + 1
    /\ flag' = IF Instr.op = "LOAD" THEN Instr.arg ELSE flag
    /\ UNCHANGED <<source, control, emitVars>>

WalkStep ==
    /\ Running /\ ~Observable
    /\ control' = Unobserved
    /\ UNCHANGED <<source, emitVars, pc, flag>>

Together == Running /\ Observable /\ CodeObservable /\ Event = CodeEvent

DoStatement ==
    /\ Together /\ Instr.op = "DO"
    /\ pc' = pc + 1 /\ control' = Leave(control.node)
    /\ UNCHANGED <<source, emitVars, flag>>

Test ==
    /\ Together /\ Instr.op = "TEST"
    /\ \E b \in {0, 1} : flag' = b /\ control' = Result(control.node, b # 0)
    /\ pc' = pc + 1
    /\ UNCHANGED <<source, emitVars>>

(***************************************************************************)
(* The emitted comparisons fall to the label of the default, or to the end *)
(* of the switch.                                                          *)
(***************************************************************************)
CaseLabel(choice) ==
    LET default == DefaultCase(control.node)
    IN  CASE choice # 0 -> Instr.arg.first + choice - 1
          [] choice = 0 /\ default # {} -> Instr.arg.first + (CHOOSE i \in default : TRUE) - 1
          [] OTHER -> Instr.arg.end
Select ==
    /\ Together /\ Instr.op = "SELECT"
    /\ \E choice \in CaseChoices(control.node) :
           /\ pc' = Place(CaseLabel(choice))
           /\ control' = ChosenCase(control.node, choice)
    /\ UNCHANGED <<source, emitVars, flag>>

Return ==
    /\ Together /\ Instr.op = "RTS"
    /\ pc' = 0 /\ flag' = 0 /\ control' = Start
    /\ UNCHANGED <<source, emitVars>>

Init ==
    /\ source \in DOMAIN Programs
    /\ control = Start
    /\ todo = <<Tree(1), Label(EndLabel), Ins("RTS", 0)>>  \* FunctionDef::emitCode()
    /\ out = <<>> /\ breakables = <<>> /\ labels = 0 /\ errors = FALSE
    /\ pc = 0 /\ flag = 0

Next == Emit \/ CallFunction \/ CodeStep \/ WalkStep \/ DoStatement \/ Test \/ Select \/ Return
Fairness == WF_vars(Next)
Spec == Init /\ [][Next]_vars /\ Fairness

-----------------------------------------------------------------------------
Breakables(n) == {m \in Ancestors(n) : Kind(m) \in Loops \cup {"switch"}}
Innermost(n, m) == m \in Breakables(n) /\ \A k \in Breakables(n) : k <= m

(***************************************************************************)
(* Two kinds of jumps go to a label that is not emitted: a goto into what  *)
(* a constant condition removed, and the continue of a do-while (0).       *)
(***************************************************************************)
Stranded(n) == \/ Kind(n) = "goto" /\ Removed(LabelOf(n))
               \/ Kind(n) = "continue" /\ \E m \in DOMAIN program :
                      Innermost(n, m) /\ Kind(m) = "while" /\ IsDo(m) /\ NeverHolds(m)

(***************************************************************************)
(* Whatever was emitted without an error assembles, but for these: every   *)
(* label that a jump or a switch names is emitted, once, whichever parts   *)
(* of the statement a constant condition removes (emitCode of IfStmt,      *)
(* WhileStmt, ForStmt, SwitchStmt, JumpStmt, LabeledStmt).                 *)
(***************************************************************************)
LabelsDefined ==
    (Emitted /\ ~Running /\ ~errors) =>
        (Assembles <=> \A n \in DOMAIN program : Stranded(n) => Removed(n))

(***************************************************************************)
(* The emitted code does the statements, tests and choices of the source,  *)
(* in the order of C: when both are about to do something that can be      *)
(* observed, it is the same.                                               *)
(***************************************************************************)
SameBehaviour == (Running /\ Observable /\ CodeObservable) => Event = CodeEvent

(***************************************************************************)
(* ... and the code gets there: it does not jump in circles while the      *)
(* source has something to do.                                             *)
(***************************************************************************)
KeepsUp == (Running /\ Observable) ~> (Running => CodeObservable)

Misplaced(n) ==
    \/ Kind(n) = "break" /\ Breakables(n) = {}
    \/ Kind(n) = "continue" /\ ~\E m \in DOMAIN program : Innermost(n, m) /\ Kind(m) \in Loops

(***************************************************************************)
(* The stack of labels mirrors the nesting of the source: an error is      *)
(* reported exactly for a break outside of a loop or switch, and for a     *)
(* continue outside of a loop or whose closest breakable is a switch (the  *)
(* manual lists the last one as not supported), unless a constant          *)
(* condition removed it (JumpStmt::emitCode, TranslationUnit's             *)
(* breakableStack).                                                        *)
(***************************************************************************)
ErrorsReported ==
    (Emitted /\ ~Running) => (errors <=> \E n \in DOMAIN program : Misplaced(n) /\ ~Removed(n))
=============================================================================
