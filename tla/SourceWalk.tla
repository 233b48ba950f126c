----------------------------- MODULE SourceWalk -----------------------------
(***************************************************************************)
(* What C says of the order in which the statements of a function happen,  *)
(* by a walk over its syntax tree.  The nodes of a tree are numbered in    *)
(* the order in which they are written; each has its parent, its children  *)
(* in order, the last node below it, its kind, and the role that it plays  *)
(* in its parent.  The walker is about to enter a node, has left one,      *)
(* knows the result of a condition, or looks outward for the loop that a   *)
(* break or a continue is about.                                           *)
(***************************************************************************)
EXTENDS Integers, Sequences, FiniteSets

CONSTANT Programs  \* a sequence of syntax trees

StatementKinds == {"do", "block", "if", "while", "for", "switch", "case", "break", "continue",
                   "return", "goto", "label"}
ConditionKinds == {"atom", "const", "not", "and", "or"}
Loops == {"while", "for"}
ConditionRoles == {"cond", "left", "right"}
Roles == ConditionRoles \cup {"root", "item", "then", "else", "body", "init", "incr"}
Node == [up : Nat, kids : Seq(Nat \ {0}), last : Nat, role : Roles, kind : StatementKinds \cup ConditionKinds,
         tag : Int]

(***************************************************************************)
(* The nodes below a node are those up to its last one, and each of them   *)
(* is below exactly one of its children.                                   *)
(***************************************************************************)
IsTree(t) ==
    /\ t \in Seq(Node) /\ t # <<>>
    /\ t[1].up = 0 /\ t[1].last = Len(t)
    /\ \A n \in DOMAIN t : LET kids == t[n].kids IN
        /\ n <= t[n].last /\ t[n].last <= Len(t)
        /\ n # 1 => t[n].up \in 1 .. (n - 1) /\ \E i \in DOMAIN t[t[n].up].kids : t[t[n].up].kids[i] = n
        /\ \A i \in DOMAIN kids : /\ n < kids[i] /\ kids[i] <= Len(t)
                                   /\ t[kids[i]].up = n
                                   /\ t[kids[i]].last <= t[n].last
        /\ \A i, j \in DOMAIN kids : i < j => t[kids[i]].last < kids[j]
        /\ \A m \in (n + 1) .. t[n].last : /\ t[m].last <= t[n].last
                                           /\ \E i \in DOMAIN kids : kids[i] <= m /\ m <= t[kids[i]].last

(***************************************************************************)
(* What the grammar of C, and the checks of the compiler, say of the tree  *)
(* of a function: the parts of each kind of node, a case only in a switch, *)
(* a label for every goto.                                                 *)
(***************************************************************************)
Parts(kind) == CASE kind = "if" -> {"cond", "then", "else"}
                 [] kind = "while" -> {"cond", "body"}
                 [] kind = "for" -> {"init", "cond", "incr", "body"}
                 [] kind = "label" -> {"body"}
                 [] kind = "not" -> {"left"}
                 [] kind \in {"and", "or"} -> {"left", "right"}
                 [] kind \in {"block", "switch", "case"} -> {"item"}
                 [] OTHER -> {}
Required(kind) == CASE kind = "if" -> {"cond", "then"}
                    [] kind = "for" -> {"body"}
                    [] kind \in {"block", "switch", "case"} -> {}
                    [] OTHER -> Parts(kind)
IsFunction(t) ==
    /\ t[1].role = "root" /\ t[1].kind = "block"
    /\ \A n \in DOMAIN t : LET kids == t[n].kids IN
        /\ \A i \in DOMAIN kids : t[kids[i]].role \in Parts(t[n].kind)
        /\ \A r \in Required(t[n].kind) : \E i \in DOMAIN kids : t[kids[i]].role = r
        /\ \A i, j \in DOMAIN kids : i # j /\ t[kids[i]].role = t[kids[j]].role => t[kids[i]].role = "item"
        /\ t[n].kind \in ConditionKinds <=> t[n].role \in ConditionRoles
        /\ t[n].kind = "const" => t[n].role = "cond"  \* the compiler folds the others
        /\ n # 1 => (t[n].kind = "case" <=> t[t[n].up].kind = "switch")
        /\ t[n].kind = "label" => t[n].tag > 0 /\ \A m \in DOMAIN t : t[m].kind = "label" /\ t[m].tag = t[n].tag => m = n
        /\ t[n].kind = "goto" => \E m \in DOMAIN t : t[m].kind = "label" /\ t[m].tag = t[n].tag
ASSUME ProgramAssumption == \A s \in DOMAIN Programs : IsTree(Programs[s]) /\ IsFunction(Programs[s])

VARIABLES source,  \* the function being compiled: one of Programs
          control  \* where the walker is

program == Programs[source]
Kind(n) == program[n].kind

(***************************************************************************)
(* The parent of node n (0 for the root), its ancestors, its children in   *)
(* order, the place of n among its parent's, and the child with a role.    *)
(***************************************************************************)
Up(n) == program[n].up
Ancestors(n) == {m \in 1 .. (n - 1) : n <= program[m].last}
Kids(n) == program[n].kids
Index(n) == CHOOSE i \in DOMAIN Kids(Up(n)) : Kids(Up(n))[i] = n
With(n, role) == {i \in DOMAIN Kids(n) : program[Kids(n)[i]].role = role}
Has(n, role) == With(n, role) # {}
Kid(n, role) == Kids(n)[CHOOSE i \in With(n, role) : TRUE]

At(place, n) == [at |-> place, node |-> n]
Enter(n) == At("enter", n)
Leave(n) == At("leave", n)
Result(n, b) == At(IF b THEN "yes" ELSE "no", n)
Finished == At("end", 0)
Start == Enter(1)

(***************************************************************************)
(* Control after item i of node n: at the next one, or n is left.          *)
(***************************************************************************)
Following(n, i) == IF i = Len(Kids(n)) THEN Leave(n) ELSE Enter(Kids(n)[i + 1])

LabelOf(n) == CHOOSE l \in DOMAIN program : Kind(l) = "label" /\ program[l].tag = program[n].tag
ForTest(n) == Enter(IF Has(n, "cond") THEN Kid(n, "cond") ELSE Kid(n, "body"))
Again(n) == CASE Kind(n) = "while" -> Enter(Kid(n, "cond"))
              [] Has(n, "incr") -> Enter(Kid(n, "incr"))
              [] OTHER -> ForTest(n)

AfterEnter(n) ==
    CASE Kind(n) \in {"block", "case"} -> Following(n, 0)
      [] Kind(n) = "if" -> Enter(Kid(n, "cond"))
      [] Kind(n) = "while" -> Enter(Kid(n, IF program[n].tag = 1 THEN "body" ELSE "cond"))
      [] Kind(n) = "for" -> IF Has(n, "init") THEN Enter(Kid(n, "init")) ELSE ForTest(n)
      [] Kind(n) = "return" -> Finished
      [] Kind(n) \in {"break", "continue"} -> At(Kind(n), n)
      [] Kind(n) = "goto" -> Enter(LabelOf(n))
      [] Kind(n) = "label" -> Enter(Kid(n, "body"))
      [] Kind(n) \in {"not", "and", "or"} -> Enter(Kid(n, "left"))
      [] Kind(n) = "const" -> Result(n, program[n].tag # 0)

AfterLeave(n) ==
    LET p == Up(n)
    IN  CASE p = 0 -> Finished
          [] p # 0 /\ Kind(p) \in {"block", "case", "switch"} -> Following(p, Index(n))
          [] p # 0 /\ Kind(p) \in {"if", "label"} -> Leave(p)
          [] p # 0 /\ Kind(p) \in Loops ->
                 IF program[n].role = "body" THEN Again(p) ELSE ForTest(p)

AfterResult(n, b) ==
    LET p == Up(n)
        left == program[n].role = "left"
    IN  CASE Kind(p) = "not" -> Result(p, ~b)
          [] Kind(p) = "and" -> IF left /\ b THEN Enter(Kid(p, "right")) ELSE Result(p, b)
          [] Kind(p) = "or" -> IF left /\ ~b THEN Enter(Kid(p, "right")) ELSE Result(p, b)
          [] Kind(p) = "if" -> CASE b -> Enter(Kid(p, "then"))
                                 [] ~b /\ Has(p, "else") -> Enter(Kid(p, "else"))
                                 [] OTHER -> Leave(p)
          [] OTHER -> IF b THEN Enter(Kid(p, "body")) ELSE Leave(p)

(***************************************************************************)
(* A break leaves the closest loop or switch, a continue goes on with the  *)
(* closest loop.                                                           *)
(***************************************************************************)
AfterBreak(n) == IF Kind(Up(n)) \in Loops \cup {"switch"} THEN Leave(Up(n)) ELSE At("break", Up(n))
AfterContinue(n) == IF Kind(Up(n)) \in Loops THEN Again(Up(n)) ELSE At("continue", Up(n))

(***************************************************************************)
(* What can be observed: expression statements, tests of a condition,      *)
(* choices of a case, and the return.                                      *)
(***************************************************************************)
Events == [do |-> "DO", atom |-> "TEST", switch |-> "SELECT"]
Observable == \/ control.at = "end"
              \/ control.at = "enter" /\ Kind(control.node) \in DOMAIN Events
Event == [op |-> IF control.at = "end" THEN "RTS" ELSE Events[Kind(control.node)], node |-> control.node]

Unobserved ==
    CASE control.at = "enter" -> AfterEnter(control.node)
      [] control.at = "leave" -> AfterLeave(control.node)
      [] control.at \in {"yes", "no"} -> AfterResult(control.node, control.at = "yes")
      [] control.at = "break" -> AfterBreak(control.node)
      [] control.at = "continue" -> AfterContinue(control.node)

(***************************************************************************)
(* The case chosen by switch n: choice 0 is a value that no case has.      *)
(***************************************************************************)
CaseChoices(n) == {i \in DOMAIN Kids(n) : program[Kids(n)[i]].tag = 0} \cup {0}
DefaultCase(n) == {i \in DOMAIN Kids(n) : program[Kids(n)[i]].tag = 1}
ChosenCase(n, choice) ==
    CASE choice # 0 -> Enter(Kids(n)[choice])
      [] choice = 0 /\ DefaultCase(n) # {} ->
             Enter(Kids(n)[CHOOSE i \in DefaultCase(n) : TRUE])
      [] OTHER -> Leave(n)

-----------------------------------------------------------------------------
(***************************************************************************)
(* A constant condition says that nothing enters a node from above.        *)
(***************************************************************************)
ConstantTest(n) == Has(n, "cond") /\ Kind(Kid(n, "cond")) = "const"
Holds(n) == program[Kid(n, "cond")].tag # 0
NeverHolds(n) == ConstantTest(n) /\ ~Holds(n)
NeverEntered(n) ==
    /\ n # 1 /\ ConstantTest(Up(n))
    /\ \/ Kind(Up(n)) = "if" /\ program[n].role = (IF Holds(Up(n)) THEN "else" ELSE "then")
       \/ Kind(Up(n)) = "while" /\ program[Up(n)].tag # 1 /\ ~Holds(Up(n)) /\ program[n].role = "body"
Removed(n) == \E m \in Ancestors(n) \cup {n} : NeverEntered(m)
=============================================================================
