--------------------------- MODULE StatementLayout ---------------------------
(***************************************************************************)
(* How the text that is emitted for a function is laid out, and why every  *)
(* step of the emission keeps it so.  An account says, for every node of   *)
(* the tree, from which item it was emitted, with which labels and which   *)
(* stack, and where each item of its text is.  Expand is the result: when  *)
(* an item becomes its text, there is an account of the new text.          *)
(***************************************************************************)
EXTENDS StatementCode, TLAPS

-----------------------------------------------------------------------------
(***************************************************************************)
(* The nodes of the function, and those that break and continue look for.  *)
(***************************************************************************)
Nodes == DOMAIN program
Breakable(n) == Kind(n) \in Loops \cup {"switch"}

(***************************************************************************)
(* The work that is left, and the stack of break and continue labels.      *)
(***************************************************************************)
Ops == {"LABEL", "LBRA", "LBNE", "LOAD", "TEST", "DO", "SELECT", "RTS", "BLANK"}
Code == [w : {"ins", "end"}, op : Ops, arg : Int \cup [node : Nat, first : Nat, end : Nat]]
Work == Code \cup [w : {"tree"}, tree : Nat] \cup [w : {"case"}, tree : Nat, label : Nat]
        \cup [w : {"jumps"}, tree : Nat, yes : Int, no : Int]
Stacks == Seq([break : Int, continue : Int])

(***************************************************************************)
(* Instructions and labels are final; the other items become texts.        *)
(***************************************************************************)
IsIns(x) == x.w \in {"ins", "end"}

(***************************************************************************)
(* The text that a node becomes (the actions of StatementCode, in one      *)
(* operator).                                                              *)
(***************************************************************************)
TreeText(n, l, stack) ==
    IF Kind(n) = "do" THEN <<Ins("DO", n)>>
    ELSE IF Kind(n) = "block" THEN Trees(Kids(n))
    ELSE IF Kind(n) = "if" THEN IfText(n, l)
    ELSE IF Kind(n) = "while" THEN WhileText(n, l)
    ELSE IF Kind(n) = "for" THEN ForText(n, l)
    ELSE IF Kind(n) = "switch" THEN SwitchText(n, l)
    ELSE IF Kind(n) = "return" THEN <<Lbra(EndLabel)>>
    ELSE IF Kind(n) = "goto" THEN <<Lbra(SourceLabel(program[n].tag))>>
    ELSE IF Kind(n) = "label" THEN <<Label(SourceLabel(program[n].tag)), Tree(Kid(n, "body"))>>
    ELSE <<Lbra(IF Kind(n) = "break" THEN stack[1].break ELSE stack[1].continue)>>

(***************************************************************************)
(* The text that an item becomes.                                          *)
(***************************************************************************)
ItemText(x, l, stack) ==
    IF x.w = "case" THEN <<Label(x.label)>> \o Trees(Kids(x.tree))
    ELSE IF x.w = "jumps" THEN BoolText(x.tree, x.yes, x.no, l)
    ELSE TreeText(x.tree, l, stack)

(***************************************************************************)
(* The number of labels that a node takes from the generator.              *)
(***************************************************************************)
Fresh(n) ==
    IF Kind(n) = "if" THEN (IF ConstantTest(n) THEN 0 ELSE 3)
    ELSE IF Kind(n) = "while" THEN 3
    ELSE IF Kind(n) = "for" THEN 4
    ELSE IF Kind(n) = "switch" THEN 1 + Len(Kids(n))
    ELSE IF Kind(n) \in {"and", "or"} THEN 1 ELSE 0

(***************************************************************************)
(* The labels that a loop or switch pushes, and the stack inside of it.    *)
(***************************************************************************)
Pair(n, l) == IF Kind(n) = "while" THEN Targets(l + 3, l + 2)
              ELSE IF Kind(n) = "for" THEN Targets(l + 4, l + 3)
              ELSE Targets(l + 1, NoContinue)
Within(n, l, stack) == IF Breakable(n) THEN <<Pair(n, l)>> \o stack ELSE stack

(***************************************************************************)
(* Item x stands for node n.                                               *)
(***************************************************************************)
ItemOf(x, n) == /\ x.w \in {"tree", "case", "jumps"} /\ x.tree = n
                /\ x.w = "jumps" <=> Kind(n) \in ConditionKinds
                /\ x.w = "case" <=> Kind(n) = "case"

(***************************************************************************)
(* The account g of a text: the nodes that have become texts (done) and    *)
(* those whose item waits, the item of each (from), the labels before it   *)
(* (base), the stack with which it is emitted (stk), the places of the     *)
(* items of its text (pos), and the stack of labels at each place of the   *)
(* text (st).                                                              *)
(***************************************************************************)
TextOf(g, n) == ItemText(g.from[n], g.base[n], g.stk[n])
Inside(g, n) == Within(n, g.base[n], g.stk[n])
Placed(g) == g.done \cup g.wait
AtOf(g, n) == g.pos[n][1]
ToOf(g, n) == IF n \in g.done THEN g.pos[n][Len(TextOf(g, n)) + 1] ELSE g.pos[n][1] + 1

(***************************************************************************)
(* Labels in a text.                                                       *)
(***************************************************************************)
IsLabel(x, l) == IsIns(x) /\ x.op = "LABEL" /\ x.arg = l
LabelIn(u, l) == \E i \in DOMAIN u : IsLabel(u[i], l)

(***************************************************************************)
(* Types.                                                                  *)
(***************************************************************************)
AccountType(g) ==
    /\ g.done \subseteq Nodes /\ g.wait \subseteq Nodes /\ g.done \cap g.wait = {}
    /\ \A n \in Nodes : g.from[n] \in Work /\ g.base[n] \in Nat /\ g.stk[n] \in Stacks
    /\ \A n \in Nodes : \A i \in Nat : g.pos[n][i] \in Nat
    /\ \A p \in Nat : g.st[p] \in Stacks

(***************************************************************************)
(* Up to h, the text X is final.                                           *)
(***************************************************************************)
TextType(X, h) == /\ X \in Seq(Work) /\ h \in Nat /\ h >= 1 /\ h <= Len(X) + 1
                  /\ \A p \in 1 .. (h - 1) : IsIns(X[p])

(***************************************************************************)
(* The root is laid out in front of the end label and the return.          *)
(***************************************************************************)
Root(g, X) == /\ 1 \in Placed(g) /\ g.from[1] = Tree(1) /\ g.stk[1] = <<>>
              /\ AtOf(g, 1) = 1 /\ ToOf(g, 1) = Len(X) - 1 /\ Len(X) >= 2
              /\ X[Len(X) - 1] = Label(EndLabel) /\ X[Len(X)] = Ins("RTS", 0)

(***************************************************************************)
(* Item i of the text of node n is at its place, and a child is laid out   *)
(* there in turn.                                                          *)
(***************************************************************************)
LaidItem(g, X, n, i) ==
    LET x == TextOf(g, n)[i]
        p == g.pos[n][i]
    IN  /\ p >= 1
        /\ IF IsIns(x) THEN p <= Len(X) - 2 /\ X[p] = x /\ g.pos[n][i + 1] = p + 1
           ELSE /\ x.tree \in Placed(g) /\ g.from[x.tree] = x /\ g.stk[x.tree] = Inside(g, n)
                /\ AtOf(g, x.tree) = p /\ ToOf(g, x.tree) = g.pos[n][i + 1]
Laid(g, X) == \A n \in g.done : \A i \in DOMAIN TextOf(g, n) : LaidItem(g, X, n, i)

(***************************************************************************)
(* Every instruction belongs to the text of a node.                        *)
(***************************************************************************)
Owned(g, X) ==
    \A p \in 1 .. (Len(X) - 2) :
       \/ \E n \in g.done : \E i \in DOMAIN TextOf(g, n) : IsIns(TextOf(g, n)[i]) /\ g.pos[n][i] = p
       \/ \E n \in g.wait : AtOf(g, n) = p

(***************************************************************************)
(* The nodes that wait have their items from h on.                         *)
(***************************************************************************)
Waiting(g, X, h) ==
    \A n \in g.wait : AtOf(g, n) >= h /\ AtOf(g, n) <= Len(X) - 2 /\ X[AtOf(g, n)] = g.from[n]

(***************************************************************************)
(* Every item stands for its node, and its parent's text named it.         *)
(***************************************************************************)
Items(g) == \A n \in Placed(g) : ItemOf(g.from[n], n)
Inherits(g) == \A n \in Placed(g) \ {1} : Up(n) \in g.done /\ \E i \in DOMAIN TextOf(g, Up(n)) : TextOf(g, Up(n))[i] = g.from[n]

(***************************************************************************)
(* Placed are the nodes that are not removed; what is not placed yet is    *)
(* below a node that waits (constant conditions are left out of the text). *)
(***************************************************************************)
Covers(g) == /\ \A n \in Placed(g) : ~Removed(n)
             /\ \A n \in Nodes : ~Removed(n) /\ Kind(n) # "const" =>
                    n \in Placed(g) \/ \E m \in g.wait : m \in Ancestors(n)

(***************************************************************************)
(* The labels taken by two nodes differ.                                   *)
(***************************************************************************)
Intervals(g, l) == /\ l \in Nat
                   /\ \A n \in g.done : g.base[n] + Fresh(n) <= l
                   /\ \A n, m \in g.done : n # m => g.base[n] + Fresh(n) <= g.base[m] \/ g.base[m] + Fresh(m) <= g.base[n]

(***************************************************************************)
(* The stack at h is the translation unit's; each place after it has the   *)
(* stack that will be there when it is reached.                            *)
(***************************************************************************)
Stacked(g, X, h, b) ==
    /\ b = g.st[h]
    /\ \A n \in g.wait : g.st[AtOf(g, n)] = g.stk[n] /\ g.st[AtOf(g, n) + 1] = g.stk[n]
    /\ \A p \in h .. Len(X) : IsIns(X[p]) =>
           g.st[p + 1] = IF X[p].w = "end" THEN Tail(g.st[p]) ELSE g.st[p]

(***************************************************************************)
(* The top of the stack is the closest loop or switch around.              *)
(***************************************************************************)
Mirrors(g) == \A n \in Placed(g) :
                 IF g.stk[n] = <<>> THEN Breakables(n) = {}
                 ELSE \E m \in g.done : Innermost(n, m) /\ Head(g.stk[n]) = Pair(m, g.base[m])

(***************************************************************************)
(* A jump was emitted because it had a label to go to.                     *)
(***************************************************************************)
JumpsOk(g) == \A n \in g.done : Kind(n) \in {"break", "continue"} =>
                 g.stk[n] # <<>> /\ (Kind(n) = "continue" => Head(g.stk[n]).continue # NoContinue)

(***************************************************************************)
(* The labels of a condition are in the text.                              *)
(***************************************************************************)
TestsTarget(g, X) == \A n \in Placed(g) : g.from[n].w = "jumps" => LabelIn(X, g.from[n].yes) /\ LabelIn(X, g.from[n].no)

(***************************************************************************)
(* The account g describes the text X, emitted up to h, with the stack b   *)
(* and the label counter l.                                                *)
(***************************************************************************)
Describes(g, X, h, b, l) ==
    /\ AccountType(g) /\ TextType(X, h) /\ Root(g, X) /\ Laid(g, X) /\ Owned(g, X) /\ Waiting(g, X, h) /\ Items(g)
    /\ Inherits(g) /\ Covers(g) /\ Intervals(g, l) /\ Stacked(g, X, h, b) /\ Mirrors(g) /\ JumpsOk(g) /\ TestsTarget(g, X)

(***************************************************************************)
(* The account after the item at h became a text.                          *)
(***************************************************************************)
MadeBy(u) == {u[i].tree : i \in {j \in DOMAIN u : ~IsIns(u[j])}}
Where(u, c) == CHOOSE i \in DOMAIN u : ~IsIns(u[i]) /\ u[i].tree = c
Shift(p, h, k) == IF p <= h THEN p ELSE p + k - 1
Expanded(g, n, u, h, b, l) ==
    LET inside == Within(n, l, b)
        made == MadeBy(u)
    IN [done |-> g.done \cup {n}, wait |-> (g.wait \ {n}) \cup made,
        from |-> [m \in Nodes |-> IF m \in made THEN u[Where(u, m)] ELSE g.from[m]],
        base |-> [m \in Nodes |-> IF m = n THEN l ELSE g.base[m]],
        stk |-> [m \in Nodes |-> IF m \in made THEN inside ELSE g.stk[m]],
        pos |-> [m \in Nodes |-> [i \in Nat |-> IF m = n THEN h + i - 1 ELSE IF m \in made THEN h + Where(u, m) - 1
                                            ELSE Shift(g.pos[m][i], h, Len(u))]],
        st |-> [p \in Nat |-> IF p < h + Len(u) THEN inside ELSE g.st[p - Len(u) + 1]]]

-----------------------------------------------------------------------------
(***************************************************************************)
(* The tree.                                                               *)
(***************************************************************************)
(***************************************************************************)
(* The tree of the function that is compiled.                              *)
(***************************************************************************)
LEMMA ProgramIsTree ==
    ASSUME source \in DOMAIN Programs
    PROVE  IsTree(program) /\ IsFunction(program)
  BY ProgramAssumption DEF program

(***************************************************************************)
(* What the nodes of the tree are.                                         *)
(***************************************************************************)
LEMMA NodeFacts ==
    ASSUME source \in DOMAIN Programs
    PROVE  /\ Nodes = 1 .. Len(program) /\ Len(program) \in Nat /\ 1 \in Nodes
           /\ \A n \in Nodes : /\ program[n] \in Node /\ n \in Nat
                               /\ Kids(n) \in Seq(Nat \ {0}) /\ Up(n) \in Nat
                               /\ program[n].last \in Nat
  <1>1. program \in Seq(Node) /\ program # <<>>
    BY ProgramIsTree DEF IsTree
  <1>2. Nodes = 1 .. Len(program) /\ Len(program) \in Nat /\ \A n \in Nodes : program[n] \in Node
    BY <1>1 DEF Nodes
  <1>3. ASSUME NEW n \in Nodes PROVE Kids(n) \in Seq(Nat \ {0}) /\ Up(n) \in Nat /\ program[n].last \in Nat
    BY <1>2 DEF Node, Kids, Up
  <1> QED BY <1>1, <1>2, <1>3

(***************************************************************************)
(* The children of a node come after it, in order, and it is their parent. *)
(***************************************************************************)
LEMMA KidFacts ==
    ASSUME source \in DOMAIN Programs, NEW n \in Nodes
    PROVE  /\ DOMAIN Kids(n) = 1 .. Len(Kids(n)) /\ Len(Kids(n)) \in Nat
           /\ \A i \in DOMAIN Kids(n) : Kids(n)[i] \in Nodes /\ n < Kids(n)[i] /\ Up(Kids(n)[i]) = n
           /\ \A i, j \in DOMAIN Kids(n) : i < j => program[Kids(n)[i]].last < Kids(n)[j]
           /\ \A i, j \in DOMAIN Kids(n) : Kids(n)[i] = Kids(n)[j] => i = j
  <1>1. Kids(n) \in Seq(Nat \ {0})
    BY NodeFacts
  <1>2. \A i \in DOMAIN Kids(n) : /\ Kids(n)[i] \in Nat
                                  /\ Kids(n)[i] \in Nodes /\ n < Kids(n)[i] /\ Up(Kids(n)[i]) = n
    BY <1>1, NodeFacts, ProgramIsTree DEF IsTree, Nodes, Kids, Up
  <1>3. \A i, j \in DOMAIN Kids(n) : i < j => program[Kids(n)[i]].last < Kids(n)[j]
    BY ProgramIsTree DEF IsTree, Nodes, Kids
  <1>4. \A m \in Nodes : m <= program[m].last
    BY ProgramIsTree DEF IsTree, Nodes
  <1>5. ASSUME NEW i \in DOMAIN Kids(n), NEW j \in DOMAIN Kids(n), i < j PROVE Kids(n)[i] # Kids(n)[j]
    <2>1. program[Kids(n)[i]].last < Kids(n)[j] /\ Kids(n)[i] \in Nodes /\ Kids(n)[i] \in Nat /\ Kids(n)[j] \in Nat
      BY <1>2, <1>3, <1>5
    <2>2. Kids(n)[i] <= program[Kids(n)[i]].last /\ program[Kids(n)[i]].last \in Nat
      BY <1>4, <2>1, NodeFacts
    <2> QED BY <2>1, <2>2
  <1>6. DOMAIN Kids(n) = 1 .. Len(Kids(n)) /\ Len(Kids(n)) \in Nat
    BY <1>1
  <1>7. \A i, j \in DOMAIN Kids(n) : Kids(n)[i] = Kids(n)[j] => i = j
    BY <1>5, <1>6
  <1> QED BY <1>2, <1>3, <1>6, <1>7

(***************************************************************************)
(* Every node but the root is a child of its parent.                       *)
(***************************************************************************)
LEMMA UpFacts ==
    ASSUME source \in DOMAIN Programs, NEW n \in Nodes, n # 1
    PROVE  Up(n) \in Nodes /\ Up(n) < n /\ Index(n) \in DOMAIN Kids(Up(n)) /\ Kids(Up(n))[Index(n)] = n
  <1>1. Up(n) \in 1 .. (n - 1) /\ \E i \in DOMAIN Kids(Up(n)) : Kids(Up(n))[i] = n
    BY ProgramIsTree DEF IsTree, Nodes, Kids, Up
  <1>2. Up(n) \in Nodes /\ Up(n) < n
    BY <1>1, NodeFacts
  <1> QED BY <1>1, <1>2 DEF Index

(***************************************************************************)
(* What is below a node is below one of its children.                      *)
(***************************************************************************)
LEMMA Nested ==
    ASSUME source \in DOMAIN Programs, NEW n \in Nodes
    PROVE  /\ program[n].last <= Len(program) /\ n <= program[n].last
           /\ \A m \in Nodes : n < m /\ m <= program[n].last => program[m].last <= program[n].last
           /\ \A m \in Nodes : n < m /\ m <= program[n].last =>
                 \E i \in DOMAIN Kids(n) : Kids(n)[i] <= m /\ m <= program[Kids(n)[i]].last
           /\ \A i \in DOMAIN Kids(n) : program[Kids(n)[i]].last <= program[n].last
  <1>1. program[n].last <= Len(program) /\ n <= program[n].last
    BY ProgramIsTree DEF IsTree, Nodes
  <1>2. \A i \in DOMAIN Kids(n) : program[Kids(n)[i]].last <= program[n].last
    BY ProgramIsTree DEF IsTree, Nodes, Kids
  <1>3. \A m \in (n + 1) .. program[n].last :
           /\ program[m].last <= program[n].last
           /\ \E i \in DOMAIN Kids(n) : Kids(n)[i] <= m /\ m <= program[Kids(n)[i]].last
    BY ProgramIsTree DEF IsTree, Nodes, Kids
  <1>4. \A m \in Nodes : n < m /\ m <= program[n].last => m \in (n + 1) .. program[n].last
    BY NodeFacts
  <1> QED BY <1>1, <1>2, <1>3, <1>4

(***************************************************************************)
(* The ancestors of a node are those whose last node is not before it.     *)
(***************************************************************************)
LEMMA AncestorFacts ==
    ASSUME source \in DOMAIN Programs, NEW n \in Nodes, NEW m
    PROVE  m \in Ancestors(n) <=> m \in Nodes /\ m < n /\ n <= program[m].last
  BY NodeFacts DEF Ancestors

(***************************************************************************)
(* A child has the ancestors of its parent, and its parent.                *)
(***************************************************************************)
LEMMA AncestorsOfKid ==
    ASSUME source \in DOMAIN Programs, NEW n \in Nodes, NEW i \in DOMAIN Kids(n)
    PROVE  Ancestors(Kids(n)[i]) = Ancestors(n) \cup {n}
  <1> DEFINE c == Kids(n)[i]
  <1>1. c \in Nodes /\ n < c /\ n \in Nat /\ c \in Nat /\ program[n].last \in Nat /\ program[c].last \in Nat
    BY KidFacts, NodeFacts
  <1>2. c <= program[n].last
    <2>1. c <= program[c].last /\ program[c].last <= program[n].last
      BY Nested, <1>1
    <2> QED BY <2>1, <1>1
  <1>3. ASSUME NEW m \in Ancestors(n) PROVE m \in Ancestors(c)
    <2>1. m \in Nodes /\ m < n /\ n <= program[m].last /\ m \in Nat /\ program[m].last \in Nat
      BY AncestorFacts, NodeFacts
    <2>2. program[n].last <= program[m].last
      BY <2>1, Nested
    <2>3. m < c /\ c <= program[m].last
      BY <2>1, <2>2, <1>1, <1>2
    <2> QED BY <2>1, <2>3, <1>1, AncestorFacts
  <1>4. n \in Ancestors(c)
    BY <1>1, <1>2, AncestorFacts
  <1>5. ASSUME NEW m \in Ancestors(c), m # n PROVE m \in Ancestors(n)
    <2>1. m \in Nodes /\ m < c /\ c <= program[m].last /\ m \in Nat /\ program[m].last \in Nat
      BY AncestorFacts, NodeFacts, <1>1
    <2>2. ASSUME m < n PROVE m \in Ancestors(n)
      <3>1. n <= program[m].last
        BY <2>1, <1>1
      <3> QED BY <3>1, <2>1, <2>2, AncestorFacts
    <2>3. ASSUME m > n PROVE FALSE
      <3>1. m <= program[n].last
        BY <2>1, <1>1, <1>2
      <3>2. PICK j \in DOMAIN Kids(n) : Kids(n)[j] <= m /\ m <= program[Kids(n)[j]].last
        BY <3>1, <2>3, <2>1, Nested
      <3> DEFINE k == Kids(n)[j]
      <3>3. k \in Nodes /\ k \in Nat /\ program[k].last \in Nat
        BY KidFacts, NodeFacts
      <3>4. k <= program[k].last /\ c <= program[c].last
        BY <3>3, <1>1, Nested
      <3>5. j < i
        <4>1. k < c
          BY <3>2, <3>3, <2>1, <1>1
        <4>2. j # i
          BY <4>1, <3>3
        <4>3. ~(i < j)
          <5>1. i < j => program[c].last < k
            BY KidFacts
          <5> QED BY <5>1, <4>1, <3>3, <3>4, <1>1
        <4>4. i \in Nat /\ j \in Nat
          BY KidFacts
        <4> QED BY <4>2, <4>3, <4>4
      <3>6. program[k].last < c
        BY <3>5, KidFacts
      <3>7. program[m].last <= program[k].last
        <4>1. k = m \/ (k < m /\ m <= program[k].last)
          BY <3>2, <3>3, <2>1
        <4>2. k < m /\ m <= program[k].last => program[m].last <= program[k].last
          BY <3>3, <2>1, Nested
        <4> QED BY <4>1, <4>2, <3>3
      <3> QED BY <3>6, <3>7, <2>1, <3>3, <1>1
    <2> QED BY <2>1, <2>2, <2>3, <1>1, <1>5
  <1> QED BY <1>3, <1>4, <1>5

(***************************************************************************)
(* Between a node and one below it there is a child.                       *)
(***************************************************************************)
LEMMA KidAbove ==
    ASSUME source \in DOMAIN Programs, NEW n \in Nodes, NEW m \in Nodes, n \in Ancestors(m)
    PROVE  \E i \in DOMAIN Kids(n) : m = Kids(n)[i] \/ Kids(n)[i] \in Ancestors(m)
  <1>1. n < m /\ m <= program[n].last /\ n \in Nat /\ m \in Nat
    BY NodeFacts DEF Ancestors
  <1>2. PICK i \in DOMAIN Kids(n) : Kids(n)[i] <= m /\ m <= program[Kids(n)[i]].last
    BY <1>1, Nested
  <1>3. Kids(n)[i] \in Nodes /\ Kids(n)[i] \in Nat /\ Kids(n)[i] >= 1
    BY KidFacts, NodeFacts
  <1>4. Kids(n)[i] < m => Kids(n)[i] \in Ancestors(m)
    BY <1>2, <1>3, AncestorFacts
  <1> QED BY <1>1, <1>2, <1>3, <1>4

(***************************************************************************)
(* An ancestor of an ancestor is an ancestor.                              *)
(***************************************************************************)
LEMMA AncestorsNested ==
    ASSUME source \in DOMAIN Programs, NEW m \in Nodes, NEW n \in Ancestors(m)
    PROVE  n \in Nodes /\ Ancestors(n) \subseteq Ancestors(m)
  <1>1. n \in Nodes /\ n < m /\ m <= program[n].last /\ n \in Nat /\ m \in Nat /\ program[n].last \in Nat
    BY AncestorFacts, NodeFacts
  <1>2. ASSUME NEW k \in Ancestors(n) PROVE k \in Ancestors(m)
    <2>1. k \in Nodes /\ k < n /\ n <= program[k].last /\ k >= 1 /\ k \in Nat /\ program[k].last \in Nat
      BY NodeFacts, <1>1 DEF Ancestors
    <2>2. program[n].last <= program[k].last
      BY <2>1, <1>1, Nested
    <2> QED BY <1>1, <2>1, <2>2 DEF Ancestors
  <1> QED BY <1>1, <1>2

(***************************************************************************)
(* A child is removed with its parent, or because nothing enters it.       *)
(***************************************************************************)
LEMMA RemovedKid ==
    ASSUME source \in DOMAIN Programs, NEW n \in Nodes, NEW i \in DOMAIN Kids(n)
    PROVE  Removed(Kids(n)[i]) <=> Removed(n) \/ NeverEntered(Kids(n)[i])
  BY AncestorsOfKid DEF Removed

(***************************************************************************)
(* What is below a removed node is removed.                                *)
(***************************************************************************)
LEMMA RemovedBelow ==
    ASSUME source \in DOMAIN Programs, NEW m \in Nodes, NEW n \in Ancestors(m), Removed(n)
    PROVE  Removed(m)
  BY AncestorsNested DEF Removed

(***************************************************************************)
(* The loops and switches around a child.                                  *)
(***************************************************************************)
LEMMA BreakablesOfKid ==
    ASSUME source \in DOMAIN Programs, NEW n \in Nodes, NEW i \in DOMAIN Kids(n)
    PROVE  /\ Breakables(Kids(n)[i]) = IF Breakable(n) THEN Breakables(n) \cup {n} ELSE Breakables(n)
           /\ Breakables(n) \subseteq 1 .. (n - 1)
  BY AncestorsOfKid DEF Breakables, Breakable, Ancestors

(***************************************************************************)
(* The children that have a role.                                          *)
(***************************************************************************)
LEMMA KidOfRole ==
    ASSUME source \in DOMAIN Programs, NEW n \in Nodes, NEW r, Has(n, r)
    PROVE  /\ \E i \in DOMAIN Kids(n) : Kid(n, r) = Kids(n)[i]
           /\ program[Kid(n, r)].role = r /\ Kid(n, r) \in Nodes /\ Up(Kid(n, r)) = n /\ n < Kid(n, r)
  <1>1. PICK i \in With(n, r) : Kid(n, r) = Kids(n)[i]
    BY DEF Has, Kid
  <1>2. i \in DOMAIN Kids(n) /\ program[Kids(n)[i]].role = r
    BY <1>1 DEF With
  <1> QED BY <1>1, <1>2, KidFacts

(***************************************************************************)
(* A child is the one that has its role.                                   *)
(***************************************************************************)
LEMMA RoleOfKid ==
    ASSUME source \in DOMAIN Programs, NEW n \in Nodes, NEW i \in DOMAIN Kids(n),
           program[Kids(n)[i]].role # "item"
    PROVE  Has(n, program[Kids(n)[i]].role) /\ Kid(n, program[Kids(n)[i]].role) = Kids(n)[i]
  <1> DEFINE r == program[Kids(n)[i]].role
  <1>1. i \in With(n, r)
    BY DEF With
  <1>2. PICK j \in With(n, r) : Kid(n, r) = Kids(n)[j]
    BY <1>1 DEF Kid
  <1>3. j \in DOMAIN Kids(n) /\ program[Kids(n)[j]].role = r
    BY <1>2 DEF With
  <1>4. \A j1, j2 \in DOMAIN Kids(n) :
           j1 # j2 /\ program[Kids(n)[j1]].role = program[Kids(n)[j2]].role => program[Kids(n)[j1]].role = "item"
    BY ProgramIsTree DEF IsFunction, Nodes, Kids
  <1>5. i = j
    BY <1>3, <1>4
  <1> QED BY <1>1, <1>2, <1>5 DEF Has

(***************************************************************************)
(* The roles that the grammar gives to the children.                       *)
(***************************************************************************)
LEMMA KidRoles ==
    ASSUME source \in DOMAIN Programs, NEW n \in Nodes
    PROVE  /\ \A i \in DOMAIN Kids(n) : program[Kids(n)[i]].role \in Parts(Kind(n))
           /\ \A r \in Required(Kind(n)) : Has(n, r)
           /\ Kind(n) \in ConditionKinds <=> program[n].role \in ConditionRoles
           /\ n # 1 => (Kind(n) = "case" <=> Kind(Up(n)) = "switch")
           /\ Kind(n) \in StatementKinds \cup ConditionKinds
  <1>1. /\ \A i \in DOMAIN Kids(n) : program[Kids(n)[i]].role \in Parts(Kind(n))
        /\ Kind(n) \in ConditionKinds <=> program[n].role \in ConditionRoles
        /\ n # 1 => (Kind(n) = "case" <=> Kind(Up(n)) = "switch")
    BY ProgramIsTree DEF IsFunction, Nodes, Kids, Up, Kind
  <1>2. \A r \in Required(Kind(n)) : \E i \in DOMAIN Kids(n) : program[Kids(n)[i]].role = r
    BY ProgramIsTree DEF IsFunction, Nodes, Kids, Kind
  <1>3. \A r \in Required(Kind(n)) : Has(n, r)
    BY <1>2 DEF Has, With
  <1>4. Kind(n) \in StatementKinds \cup ConditionKinds
    BY NodeFacts DEF Node, Kind
  <1> QED BY <1>1, <1>3, <1>4

(***************************************************************************)
(* All that the proofs need of the child with a role.                      *)
(***************************************************************************)
LEMMA KidFactsOfRole ==
    ASSUME source \in DOMAIN Programs, NEW n \in Nodes, NEW r, Has(n, r), r # "item"
    PROVE  /\ \E i \in DOMAIN Kids(n) : Kid(n, r) = Kids(n)[i]
           /\ program[Kid(n, r)].role = r /\ Kid(n, r) \in Nodes
           /\ Kind(Kid(n, r)) \in ConditionKinds <=> r \in ConditionRoles
           /\ Kind(n) # "switch" => Kind(Kid(n, r)) # "case"
           /\ NeverEntered(Kid(n, r)) <=>
                /\ ConstantTest(n)
                /\ \/ Kind(n) = "if" /\ r = (IF Holds(n) THEN "else" ELSE "then")
                   \/ Kind(n) = "while" /\ program[n].tag # 1 /\ ~Holds(n) /\ r = "body"
  <1> DEFINE c == Kid(n, r)
  <1>1. /\ \E i \in DOMAIN Kids(n) : c = Kids(n)[i]
        /\ program[c].role = r /\ c \in Nodes /\ Up(c) = n /\ n < c
    BY KidOfRole
  <1>2. Kind(c) \in ConditionKinds <=> r \in ConditionRoles
    BY <1>1, KidRoles
  <1>3. c # 1
    BY <1>1, NodeFacts
  <1>4. Kind(n) # "switch" => Kind(c) # "case"
    BY <1>1, <1>3, KidRoles
  <1>5. NeverEntered(c) <=>
                /\ ConstantTest(n)
                /\ \/ Kind(n) = "if" /\ r = (IF Holds(n) THEN "else" ELSE "then")
                   \/ Kind(n) = "while" /\ program[n].tag # 1 /\ ~Holds(n) /\ r = "body"
    BY <1>1, <1>3 DEF NeverEntered
  <1> QED BY <1>1, <1>2, <1>4, <1>5

-----------------------------------------------------------------------------
(***************************************************************************)
(* The texts.                                                              *)
(***************************************************************************)
(***************************************************************************)
(* What the text of a node holds: its children, its labels, its jumps.     *)
(***************************************************************************)
KidsLaid(n, u) ==
    /\ u \in Seq(Work)
    /\ \A i \in DOMAIN u : ~IsIns(u[i]) =>
          /\ \E j \in DOMAIN Kids(n) : u[i].tree = Kids(n)[j]
          /\ ItemOf(u[i], u[i].tree) /\ ~NeverEntered(u[i].tree)
    /\ \A i, j \in DOMAIN u : ~IsIns(u[i]) /\ ~IsIns(u[j]) /\ u[i].tree = u[j].tree => i = j
    /\ \A j \in DOMAIN Kids(n) : \/ NeverEntered(Kids(n)[j]) \/ Kind(Kids(n)[j]) = "const"
                                 \/ \E i \in DOMAIN u : ~IsIns(u[i]) /\ u[i].tree = Kids(n)[j]
    /\ \A i \in DOMAIN u : u[i].w = "end" <=> i = Len(u) /\ Breakable(n)
    /\ Breakable(n) => u # <<>>

(***************************************************************************)
(* ... its labels, once each ...                                           *)
(***************************************************************************)
LabelsLaid(x, n, l, u) ==
    /\ \A i \in DOMAIN u : IsIns(u[i]) /\ u[i].op = "LABEL" =>
          \/ u[i].arg \in (l + 1) .. (l + Fresh(n))
          \/ i = 1 /\ x.w = "case" /\ u[i].arg = x.label
          \/ i = 1 /\ Kind(n) = "label" /\ u[i].arg = SourceLabel(program[n].tag)
    /\ \A i, j \in DOMAIN u : IsIns(u[i]) /\ u[i].op = "LABEL" /\ IsLabel(u[j], u[i].arg) => i = j
    /\ x.w = "case" => LabelIn(u, x.label)
    /\ Kind(n) = "label" => LabelIn(u, SourceLabel(program[n].tag))
    /\ Kind(n) = "switch" => LabelIn(u, l + 1)
    /\ Kind(n) = "for" => LabelIn(u, l + 3) /\ LabelIn(u, l + 4)
    /\ Kind(n) = "while" => LabelIn(u, l + 3) /\ (LabelIn(u, l + 2) <=> ~NeverHolds(n))

(***************************************************************************)
(* ... and jumps to these labels, or to those that it was given.           *)
(***************************************************************************)
JumpsLaid(x, n, l, stack, u) ==
    /\ \A i \in DOMAIN u : u[i].w = "jumps" =>
          /\ LabelIn(u, u[i].yes) \/ (x.w = "jumps" /\ u[i].yes \in {x.yes, x.no})
          /\ LabelIn(u, u[i].no) \/ (x.w = "jumps" /\ u[i].no \in {x.yes, x.no})
    /\ \A i \in DOMAIN u : IsIns(u[i]) => \A v \in TargetsOf(u[i]) :
          \/ LabelIn(u, v)
          \/ x.w = "jumps" /\ v \in {x.yes, x.no}
          \/ Kind(n) = "switch" /\ \E j \in DOMAIN u : u[j].w = "case" /\ u[j].label = v
          \/ Kind(n) = "return" /\ v = EndLabel
          \/ Kind(n) = "goto" /\ v = SourceLabel(program[n].tag)
          \/ Kind(n) = "break" /\ v = stack[1].break
          \/ Kind(n) = "continue" /\ v = stack[1].continue
    /\ Kind(n) = "goto" => \E i \in DOMAIN u : u[i] = Lbra(SourceLabel(program[n].tag))
    /\ Kind(n) = "continue" => \E i \in DOMAIN u : u[i] = Lbra(stack[1].continue)

(***************************************************************************)
(* All of them.                                                            *)
(***************************************************************************)
TextGood(x, n, l, stack, u) == KidsLaid(n, u) /\ LabelsLaid(x, n, l, u) /\ JumpsLaid(x, n, l, stack, u)

(***************************************************************************)
(* Instructions, labels and the other items of a text are work.            *)
(***************************************************************************)
LEMMA ItemTypes ==
    /\ Blank \in Work
    /\ \A l \in Int : Label(l) \in Work /\ Lbra(l) \in Work /\ EndLabelAndPop(l) \in Work
    /\ \A l \in Int : Ins("LOAD", l) \in Work /\ Ins("LBNE", l) \in Work /\ Ins("TEST", l) \in Work /\ Ins("DO", l) \in Work
    /\ \A n \in Nat : Tree(n) \in Work
    /\ \A n, l \in Nat : Case(n, l) \in Work
    /\ \A n, a, b \in Nat : Ins("SELECT", [node |-> n, first |-> a, end |-> b]) \in Work
    /\ \A n \in Nat : \A a, b \in Int : BoolJumps(n, a, b) \in Work
  BY DEF Work, Code, Ops, Blank, Label, Lbra, EndLabelAndPop, Ins, Tree, Case, BoolJumps

(***************************************************************************)
(* The numbers of generated labels are integers.                           *)
(***************************************************************************)
LEMMA NextLabels == \A l \in Nat : l + 1 \in Int /\ l + 2 \in Int /\ l + 3 \in Int /\ l + 4 \in Int
  OBVIOUS

(***************************************************************************)
(* Which instructions name a label.                                        *)
(***************************************************************************)
LEMMA TargetFacts ==
    /\ TargetsOf(Blank) = {}
    /\ \A l : TargetsOf(Label(l)) = {} /\ TargetsOf(EndLabelAndPop(l)) = {} /\ TargetsOf(Lbra(l)) = {l}
    /\ \A l : TargetsOf(Ins("LOAD", l)) = {} /\ TargetsOf(Ins("TEST", l)) = {} /\ TargetsOf(Ins("DO", l)) = {}
              /\ TargetsOf(Ins("LBNE", l)) = {l}
  BY DEF TargetsOf, Blank, Label, EndLabelAndPop, Lbra, Ins

(***************************************************************************)
(* The head of a sequence that is not empty.                               *)
(***************************************************************************)
LEMMA HeadOfSeq == \A S : \A s \in Seq(S) : s # <<>> => Len(s) \in Nat /\ Len(s) >= 1 /\ s[1] \in S /\ Head(s) = s[1]
  <1> SUFFICES ASSUME NEW S, NEW s \in Seq(S), s # <<>> PROVE Len(s) \in Nat /\ Len(s) >= 1 /\ s[1] \in S /\ Head(s) = s[1]
    OBVIOUS
  <1>1. Len(s) \in Nat /\ Len(s) >= 1
    OBVIOUS
  <1> QED BY <1>1

(***************************************************************************)
(* A sequence of some length is not empty.                                 *)
(***************************************************************************)
LEMMA NotEmpty == \A u : Len(u) # 0 => u # <<>>
  OBVIOUS

(***************************************************************************)
(* The text of an if statement holds what it should.                       *)
(***************************************************************************)
LEMMA IfGood ==
    ASSUME source \in DOMAIN Programs, NEW n \in Nodes, NEW l \in Nat, Kind(n) = "if", NEW x, x.w = "tree", NEW stack
    PROVE  TextGood(x, n, l, stack, IfText(n, l))
  <1> DEFINE u == IfText(n, l)
             c == Kid(n, "cond")
             t == Kid(n, "then")
             e == Kid(n, "else")
  <1>1. Has(n, "cond") /\ Has(n, "then") /\ Parts(Kind(n)) = {"cond", "then", "else"} /\ ~Breakable(n)
    BY KidRoles DEF Required, Parts, Breakable, Loops
  <1>2. \A j \in DOMAIN Kids(n) : \/ Kids(n)[j] = c \/ Kids(n)[j] = t
                                  \/ Has(n, "else") /\ Kids(n)[j] = e
    BY <1>1, KidRoles, RoleOfKid
  <1>3. /\ \E j \in DOMAIN Kids(n) : Kids(n)[j] = c
        /\ \E j \in DOMAIN Kids(n) : Kids(n)[j] = t
        /\ Has(n, "else") => \E j \in DOMAIN Kids(n) : Kids(n)[j] = e
    BY <1>1, KidFactsOfRole
  <1>4. /\ c # t /\ (Has(n, "else") => c # e /\ t # e)
    BY <1>1, KidFactsOfRole
  <1>0. c \in Nat /\ t \in Nat /\ (Has(n, "else") => e \in Nat)
    <2>1. c \in Nodes /\ t \in Nodes /\ (Has(n, "else") => e \in Nodes)
      BY <1>1, KidFactsOfRole
    <2> QED BY <2>1, NodeFacts
  <1>5. /\ Kind(c) \in ConditionKinds /\ Kind(c) # "case" /\ ~NeverEntered(c)
        /\ Kind(t) \notin ConditionKinds /\ Kind(t) # "case" /\ (NeverEntered(t) <=> ConstantTest(n) /\ ~Holds(n))
        /\ Has(n, "else") => /\ Kind(e) \notin ConditionKinds /\ Kind(e) # "case"
                             /\ NeverEntered(e) <=> ConstantTest(n) /\ Holds(n)
    BY <1>1, KidFactsOfRole DEF ConditionRoles
  <1>6. CASE ConstantTest(n)
    <2>1. Kind(c) = "const"
      BY <1>6 DEF ConstantTest
    <2> DEFINE v == IF Holds(n) THEN Tree(t) ELSE Optional(n, "else")
    <2>2. u = <<v>> /\ v \in Work
      BY <1>6, <1>0, ItemTypes DEF IfText, Optional
    <2>3. u \in Seq(Work) /\ DOMAIN u = {1} /\ u[1] = v /\ Len(u) = 1
      BY <2>2
    <2>4. KidsLaid(n, u)
      BY <2>1, <2>3, <1>1, <1>2, <1>3, <1>4, <1>5, <1>6 DEF KidsLaid, IsIns, ItemOf, Tree, Optional, Blank, Ins
    <2>5. LabelsLaid(x, n, l, u) /\ JumpsLaid(x, n, l, stack, u)
      BY <2>3, TargetFacts DEF LabelsLaid, JumpsLaid, IsIns, IsLabel, LabelIn, Tree, Optional, Blank, Ins
    <2> QED BY <2>4, <2>5 DEF TextGood
  <1>7. CASE ~ConstantTest(n)
    <2> DEFINE v4 == IF Has(n, "else") THEN Lbra(l + 3) ELSE Blank
               v6 == Optional(n, "else")
    <2>1. /\ u = <<BoolJumps(c, l + 1, l + 2), Label(l + 1), Tree(t), v4, Label(l + 2), v6, Label(l + 3)>>
          /\ v4 \in Work /\ v6 \in Work
      BY <1>7, <1>0, ItemTypes DEF IfText, Optional
    <2>2. u \in Seq(Work) /\ DOMAIN u = 1 .. 7 /\ Len(u) = 7
      <3>1. /\ BoolJumps(c, l + 1, l + 2) \in Work /\ Label(l + 1) \in Work /\ Tree(t) \in Work
            /\ Label(l + 2) \in Work /\ Label(l + 3) \in Work
        BY <1>0, ItemTypes, NextLabels
      <3> QED BY <3>1, <2>1
    <2>3. /\ u[1] = BoolJumps(c, l + 1, l + 2) /\ u[2] = Label(l + 1) /\ u[3] = Tree(t) /\ u[4] = v4
          /\ u[5] = Label(l + 2) /\ u[6] = v6 /\ u[7] = Label(l + 3)
      BY <2>1
    <2> HIDE DEF u, c, t, e
    <2>4. \A i \in DOMAIN u : IsIns(u[i]) <=> i \in {2, 4, 5, 7} \/ (i = 6 /\ ~Has(n, "else"))
      BY <2>2, <2>3 DEF IsIns, Tree, Blank, Ins, Label, Lbra, Optional, BoolJumps
    <2>5. u[1].tree = c /\ u[3].tree = t /\ (Has(n, "else") => u[6].tree = e)
      BY <2>3 DEF Tree, BoolJumps, Optional, e
    <2>6. ASSUME NEW i \in DOMAIN u, ~IsIns(u[i])
          PROVE  /\ \E j \in DOMAIN Kids(n) : u[i].tree = Kids(n)[j]
                 /\ ItemOf(u[i], u[i].tree) /\ ~NeverEntered(u[i].tree)
      <3>1. i = 1 \/ i = 3 \/ (i = 6 /\ Has(n, "else"))
        BY <2>6, <2>4, <2>2
      <3>2. \E j \in DOMAIN Kids(n) : u[i].tree = Kids(n)[j]
        BY <3>1, <2>5, <1>3
      <3>3. ItemOf(u[i], u[i].tree)
        BY <3>1, <2>5, <2>3, <1>5 DEF ItemOf, Tree, BoolJumps, Optional, e
      <3>4. ~NeverEntered(u[i].tree)
        BY <3>1, <2>5, <1>5, <1>7
      <3> QED BY <3>2, <3>3, <3>4
    <2>7. \A i, j \in DOMAIN u : ~IsIns(u[i]) /\ ~IsIns(u[j]) /\ u[i].tree = u[j].tree => i = j
      BY <2>2, <2>4, <2>5, <1>4
    <2>8. \A j \in DOMAIN Kids(n) : \E i \in DOMAIN u : ~IsIns(u[i]) /\ u[i].tree = Kids(n)[j]
      BY <2>2, <2>4, <2>5, <1>2
    <2>9. \A i \in DOMAIN u : u[i].w # "end"
      BY <2>2, <2>3 DEF Tree, Blank, Ins, Label, Lbra, Optional, BoolJumps
    <2>10. KidsLaid(n, u)
      BY <2>2, <2>6, <2>7, <2>8, <2>9, <1>1 DEF KidsLaid
    <2>11. LabelIn(u, l + 1) /\ LabelIn(u, l + 2) /\ LabelIn(u, l + 3)
      BY <2>2, <2>3 DEF LabelIn, IsLabel, IsIns, Label, Ins
    <2>12. \A i \in DOMAIN u : IsIns(u[i]) /\ u[i].op = "LABEL" => \/ i = 2 /\ u[i].arg = l + 1
                                                                   \/ i = 5 /\ u[i].arg = l + 2
                                                                   \/ i = 7 /\ u[i].arg = l + 3
      BY <2>2, <2>3, <2>4 DEF Tree, Blank, Ins, Label, Lbra, Optional, BoolJumps
    <2>13. LabelsLaid(x, n, l, u)
      BY <2>12, <1>7 DEF LabelsLaid, Fresh, IsLabel
    <2>14. \A i \in DOMAIN u : u[i].w = "jumps" => i = 1
      BY <2>2, <2>3 DEF Tree, Blank, Ins, Label, Lbra, Optional, BoolJumps
    <2>15. \A i \in DOMAIN u : IsIns(u[i]) => TargetsOf(u[i]) \subseteq {l + 3}
      BY <2>2, <2>3, <2>4, TargetFacts DEF Optional
    <2>16. JumpsLaid(x, n, l, stack, u)
      BY <2>11, <2>14, <2>15, <2>3 DEF JumpsLaid, BoolJumps
    <2>17. TextGood(x, n, l, stack, u)
      BY <2>10, <2>13, <2>16 DEF TextGood
    <2> QED BY <2>17 DEF u
  <1> QED BY <1>6, <1>7

(***************************************************************************)
(* Some kinds of nodes have no children.                                   *)
(***************************************************************************)
LEMMA NoKids ==
    ASSUME source \in DOMAIN Programs, NEW n \in Nodes, Parts(Kind(n)) = {}
    PROVE  DOMAIN Kids(n) = {}
  BY KidRoles

(***************************************************************************)
(* The text of a statement without parts, or of a test.                    *)
(***************************************************************************)
LEMMA LeafGood ==
    ASSUME source \in DOMAIN Programs, NEW n \in Nodes, Kind(n) \in {"do", "break", "continue", "return", "goto"},
           NEW l \in Nat, NEW x, x.w = "tree", NEW stack \in Stacks,
           Kind(n) \in {"break", "continue"} => stack # <<>>
    PROVE  TextGood(x, n, l, stack, TreeText(n, l, stack))
  <1> DEFINE u == TreeText(n, l, stack)
  <1>1. DOMAIN Kids(n) = {} /\ ~Breakable(n) /\ n \in Nat
    BY NoKids, NodeFacts DEF Parts, Breakable, Loops
  <1>2. PICK v \in Work : /\ u = <<v>> /\ v.w = "ins" /\ v.op # "LABEL"
                          /\ Kind(n) = "do" => v = Ins("DO", n)
                          /\ Kind(n) = "return" => v = Lbra(EndLabel)
                          /\ Kind(n) = "goto" => v = Lbra(SourceLabel(program[n].tag))
                          /\ Kind(n) = "break" => v = Lbra(stack[1].break)
                          /\ Kind(n) = "continue" => v = Lbra(stack[1].continue)
    <2>1. CASE Kind(n) = "do"
      <3>1. n \in Int
        BY <1>1
      <3>2. Ins("DO", n) \in Work
        BY <3>1, ItemTypes
      <3> QED BY <2>1, <3>2 DEF TreeText, Ins
    <2>2. CASE Kind(n) = "return"
      <3>1. Lbra(EndLabel) \in Work
        BY ItemTypes DEF EndLabel
      <3> QED BY <2>2, <3>1 DEF TreeText, Ins, Lbra
    <2>3. CASE Kind(n) = "goto"
      <3>1. SourceLabel(program[n].tag) \in Int
        BY NodeFacts DEF Node, SourceLabel
      <3> QED BY <2>3, <3>1, ItemTypes DEF TreeText, Ins, Lbra
    <2>4. CASE Kind(n) \in {"break", "continue"}
      <3>1. stack[1] \in [break : Int, continue : Int]
        BY <2>4, HeadOfSeq DEF Stacks
      <3>2. stack[1].break \in Int /\ stack[1].continue \in Int
        BY <3>1
      <3> QED BY <2>4, <3>2, ItemTypes DEF TreeText, Ins, Lbra
    <2> QED BY <2>1, <2>2, <2>3, <2>4
  <1>3. u \in Seq(Work) /\ DOMAIN u = {1} /\ Len(u) = 1 /\ u[1] = v
    BY <1>2
  <1> HIDE DEF u
  <1>4. KidsLaid(n, u)
    BY <1>1, <1>2, <1>3 DEF KidsLaid, IsIns
  <1>5. LabelsLaid(x, n, l, u)
    BY <1>2, <1>3 DEF LabelsLaid, IsIns
  <1>6. TargetsOf(v) = IF Kind(n) = "do" THEN {} ELSE {v.arg}
    BY <1>2, TargetFacts DEF Lbra, Ins
  <1>7. JumpsLaid(x, n, l, stack, u)
    BY <1>2, <1>3, <1>6 DEF JumpsLaid, Lbra, Ins
  <1>8. TextGood(x, n, l, stack, u)
    BY <1>4, <1>5, <1>7 DEF TextGood
  <1> QED BY <1>8 DEF u

(***************************************************************************)
(* The text of an elementary condition.                                    *)
(***************************************************************************)
LEMMA TestGood ==
    ASSUME source \in DOMAIN Programs, NEW n \in Nodes, Kind(n) \in {"atom", "const"},
           NEW l \in Nat, NEW yes \in Int, NEW no \in Int, NEW x, x.w = "jumps", x.yes = yes, x.no = no, NEW stack
    PROVE  TextGood(x, n, l, stack, BoolText(n, yes, no, l))
  <1> DEFINE u == BoolText(n, yes, no, l)
  <1>1. DOMAIN Kids(n) = {} /\ ~Breakable(n) /\ n \in Nat /\ program[n].tag \in Int
    BY NoKids, NodeFacts DEF Parts, Breakable, Loops, Node
  <1>2. PICK v \in Work : /\ u = <<v, Ins("LBNE", yes), Lbra(no)>> /\ v.w = "ins" /\ v.op # "LABEL"
                          /\ TargetsOf(v) = {}
    <2>1. CASE Kind(n) = "atom"
      <3>1. n \in Int
        BY <1>1
      <3>2. Ins("TEST", n) \in Work
        BY <3>1, ItemTypes
      <3> QED BY <2>1, <3>2, TargetFacts DEF BoolText, Ins
    <2>2. CASE Kind(n) = "const"
      BY <2>2, <1>1, ItemTypes, TargetFacts DEF BoolText, Ins
    <2> QED BY <2>1, <2>2
  <1>3. Ins("LBNE", yes) \in Work /\ Lbra(no) \in Work
    BY ItemTypes
  <1>4. u \in Seq(Work) /\ DOMAIN u = 1 .. 3 /\ Len(u) = 3 /\ u[1] = v /\ u[2] = Ins("LBNE", yes) /\ u[3] = Lbra(no)
    BY <1>2, <1>3
  <1> HIDE DEF u
  <1>5. \A i \in DOMAIN u : u[i].w = "ins" /\ u[i].op # "LABEL"
    BY <1>4, <1>2 DEF Ins, Lbra
  <1>6. KidsLaid(n, u)
    BY <1>1, <1>4, <1>5 DEF KidsLaid, IsIns
  <1>7. LabelsLaid(x, n, l, u)
    BY <1>5 DEF LabelsLaid, IsIns
  <1>8. \A i \in DOMAIN u : TargetsOf(u[i]) \subseteq {yes, no}
    BY <1>2, <1>4, TargetFacts
  <1>9. JumpsLaid(x, n, l, stack, u)
    BY <1>5, <1>8 DEF JumpsLaid
  <1>10. TextGood(x, n, l, stack, u)
    BY <1>6, <1>7, <1>9 DEF TextGood
  <1> QED BY <1>10 DEF u

(***************************************************************************)
(* The text of a negation.                                                 *)
(***************************************************************************)
LEMMA NotGood ==
    ASSUME source \in DOMAIN Programs, NEW n \in Nodes, Kind(n) = "not",
           NEW l \in Nat, NEW yes \in Int, NEW no \in Int, NEW x, x.w = "jumps", x.yes = yes, x.no = no, NEW stack
    PROVE  TextGood(x, n, l, stack, BoolText(n, yes, no, l))
  <1> DEFINE u == BoolText(n, yes, no, l)
             c == Kid(n, "left")
  <1>1. Has(n, "left") /\ Parts(Kind(n)) = {"left"} /\ ~Breakable(n) /\ ~ConstantTest(n)
    <2>1. Has(n, "left") /\ Parts(Kind(n)) = {"left"} /\ ~Breakable(n)
      BY KidRoles DEF Required, Parts, Breakable, Loops
    <2>2. ~Has(n, "cond")
      BY <2>1, KidOfRole, KidRoles
    <2> QED BY <2>1, <2>2 DEF ConstantTest
  <1>2. \A j \in DOMAIN Kids(n) : Kids(n)[j] = c
    BY <1>1, KidRoles, RoleOfKid
  <1>3. /\ \E j \in DOMAIN Kids(n) : Kids(n)[j] = c
        /\ Kind(c) \in ConditionKinds /\ Kind(c) # "case" /\ ~NeverEntered(c)
    BY <1>1, KidFactsOfRole DEF ConditionRoles
  <1>4. c \in Nat
    BY <1>1, KidFactsOfRole, NodeFacts
  <1>5. BoolJumps(c, no, yes) \in Work
    BY <1>4, ItemTypes
  <1>6. u = <<BoolJumps(c, no, yes)>>
    BY DEF BoolText
  <1>7. u \in Seq(Work) /\ DOMAIN u = {1} /\ Len(u) = 1 /\ u[1] = BoolJumps(c, no, yes)
    BY <1>5, <1>6
  <1> HIDE DEF u, c
  <1>8. KidsLaid(n, u)
    BY <1>1, <1>2, <1>3, <1>7 DEF KidsLaid, IsIns, ItemOf, BoolJumps
  <1>9. LabelsLaid(x, n, l, u) /\ JumpsLaid(x, n, l, stack, u)
    BY <1>7 DEF LabelsLaid, JumpsLaid, IsIns, BoolJumps
  <1>10. TextGood(x, n, l, stack, u)
    BY <1>8, <1>9 DEF TextGood
  <1> QED BY <1>10 DEF u

(***************************************************************************)
(* The text of a conjunction or disjunction.                               *)
(***************************************************************************)
LEMMA AndOrGood ==
    ASSUME source \in DOMAIN Programs, NEW n \in Nodes, Kind(n) \in {"and", "or"},
           NEW l \in Nat, NEW yes \in Int, NEW no \in Int, NEW x, x.w = "jumps", x.yes = yes, x.no = no, NEW stack
    PROVE  TextGood(x, n, l, stack, BoolText(n, yes, no, l))
  <1> DEFINE u == BoolText(n, yes, no, l)
             c == Kid(n, "left")
             d == Kid(n, "right")
  <1>1. Has(n, "left") /\ Has(n, "right") /\ Parts(Kind(n)) = {"left", "right"} /\ ~Breakable(n) /\ ~ConstantTest(n)
    <2>1. Has(n, "left") /\ Has(n, "right") /\ Parts(Kind(n)) = {"left", "right"} /\ ~Breakable(n)
      BY KidRoles DEF Required, Parts, Breakable, Loops
    <2>2. ~Has(n, "cond")
      BY <2>1, KidOfRole, KidRoles
    <2> QED BY <2>1, <2>2 DEF ConstantTest
  <1>2. \A j \in DOMAIN Kids(n) : Kids(n)[j] = c \/ Kids(n)[j] = d
    BY <1>1, KidRoles, RoleOfKid
  <1>3. /\ \E j \in DOMAIN Kids(n) : Kids(n)[j] = c
        /\ \E j \in DOMAIN Kids(n) : Kids(n)[j] = d
        /\ Kind(c) \in ConditionKinds /\ Kind(c) # "case" /\ ~NeverEntered(c)
        /\ Kind(d) \in ConditionKinds /\ Kind(d) # "case" /\ ~NeverEntered(d)
        /\ c # d
    BY <1>1, KidFactsOfRole DEF ConditionRoles
  <1>4. c \in Nat /\ d \in Nat
    <2>1. c \in Nodes /\ d \in Nodes
      BY <1>1, KidFactsOfRole
    <2> QED BY <2>1, NodeFacts
  <1>5. PICK a \in Int, b \in Int : /\ u = <<BoolJumps(c, a, b), Label(l + 1), BoolJumps(d, yes, no)>>
                                    /\ {a, b} \subseteq {yes, no, l + 1}
    <2>1. CASE Kind(n) = "and"
      BY <2>1, NextLabels DEF BoolText
    <2>2. CASE Kind(n) = "or"
      BY <2>2, NextLabels DEF BoolText
    <2> QED BY <2>1, <2>2
  <1>6. BoolJumps(c, a, b) \in Work /\ BoolJumps(d, yes, no) \in Work /\ Label(l + 1) \in Work
    BY <1>4, ItemTypes, NextLabels
  <1>7. u \in Seq(Work) /\ DOMAIN u = 1 .. 3 /\ Len(u) = 3 /\ u[1] = BoolJumps(c, a, b) /\ u[2] = Label(l + 1)
        /\ u[3] = BoolJumps(d, yes, no)
    BY <1>5, <1>6
  <1> HIDE DEF u, c, d
  <1>8. KidsLaid(n, u)
    <2>1. /\ \A i \in DOMAIN u : u[i].w # "end" /\ (IsIns(u[i]) <=> i = 2)
          /\ u[1].tree = c /\ u[3].tree = d /\ u[1].w = "jumps" /\ u[3].w = "jumps"
      BY <1>7 DEF IsIns, BoolJumps, Label, Ins
    <2> QED BY <2>1, <1>1, <1>2, <1>3, <1>7 DEF KidsLaid, ItemOf
  <1>9. LabelIn(u, l + 1)
    BY <1>7 DEF LabelIn, IsLabel, IsIns, Label, Ins
  <1>10. \A i \in DOMAIN u : IsIns(u[i]) => i = 2 /\ u[i].arg = l + 1 /\ TargetsOf(u[i]) = {}
    BY <1>7, TargetFacts DEF IsIns, BoolJumps, Label, Ins
  <1>11. LabelsLaid(x, n, l, u)
    BY <1>10 DEF LabelsLaid, IsLabel, Fresh
  <1>12. \A i \in DOMAIN u : u[i].w = "jumps" => {u[i].yes, u[i].no} \subseteq {yes, no, l + 1}
    BY <1>5, <1>7 DEF BoolJumps, Label, Ins
  <1>13. JumpsLaid(x, n, l, stack, u)
    BY <1>9, <1>10, <1>12 DEF JumpsLaid
  <1>14. TextGood(x, n, l, stack, u)
    BY <1>8, <1>11, <1>13 DEF TextGood
  <1> QED BY <1>14 DEF u

(***************************************************************************)
(* The texts that are made of the children in order.                       *)
(***************************************************************************)
LEMMA ItemKids ==
    ASSUME source \in DOMAIN Programs, NEW n \in Nodes, Kind(n) \in {"block", "case", "switch"}
    PROVE  \A j \in DOMAIN Kids(n) : LET c == Kids(n)[j] IN
              /\ c \in Nat /\ Kind(c) \notin ConditionKinds /\ (Kind(c) = "case" <=> Kind(n) = "switch")
              /\ ~NeverEntered(c)
  <1> SUFFICES ASSUME NEW j \in DOMAIN Kids(n)
               PROVE  LET c == Kids(n)[j] IN
                      /\ c \in Nat /\ Kind(c) \notin ConditionKinds /\ (Kind(c) = "case" <=> Kind(n) = "switch")
                      /\ ~NeverEntered(c)
    OBVIOUS
  <1> DEFINE c == Kids(n)[j]
  <1>1. c \in Nodes /\ n < c /\ Up(c) = n
    BY KidFacts
  <1>2. c \in Nat /\ n \in Nat /\ n >= 1 /\ c # 1
    <2>1. c \in Nat /\ n \in Nat /\ n >= 1
      BY <1>1, NodeFacts
    <2> QED BY <1>1, <2>1
  <1>3. program[c].role = "item"
    <2>1. program[c].role \in Parts(Kind(n))
      BY KidRoles
    <2> QED BY <2>1 DEF Parts
  <1>4. Kind(c) \notin ConditionKinds /\ (Kind(c) = "case" <=> Kind(n) = "switch")
    BY <1>1, <1>2, <1>3, KidRoles DEF ConditionRoles
  <1>5. ~NeverEntered(c)
    BY <1>1, <1>3 DEF NeverEntered
  <1> QED BY <1>2, <1>4, <1>5

(***************************************************************************)
(* The text of a compound statement.                                       *)
(***************************************************************************)
LEMMA BlockGood ==
    ASSUME source \in DOMAIN Programs, NEW n \in Nodes, Kind(n) = "block", NEW l \in Nat, NEW x, x.w = "tree", NEW stack
    PROVE  TextGood(x, n, l, stack, Trees(Kids(n)))
  <1> DEFINE u == Trees(Kids(n))
  <1>1. ~Breakable(n) /\ DOMAIN Kids(n) = 1 .. Len(Kids(n)) /\ Len(Kids(n)) \in Nat
    BY KidFacts DEF Breakable, Loops
  <1>2. \A j \in DOMAIN Kids(n) : LET c == Kids(n)[j] IN
              c \in Nat /\ Kind(c) \notin ConditionKinds /\ Kind(c) # "case" /\ ~NeverEntered(c)
    BY ItemKids
  <1>3. \A j \in DOMAIN Kids(n) : Tree(Kids(n)[j]) \in Work
    BY <1>2, ItemTypes
  <1>4. u \in Seq(Work) /\ DOMAIN u = DOMAIN Kids(n) /\ Len(u) = Len(Kids(n))
        /\ \A i \in DOMAIN u : u[i] = Tree(Kids(n)[i])
    BY <1>1, <1>3 DEF Trees
  <1> HIDE DEF u
  <1>5. \A i \in DOMAIN u : u[i].w = "tree" /\ u[i].tree = Kids(n)[i] /\ ~IsIns(u[i])
    BY <1>4 DEF Tree, IsIns
  <1>6. KidsLaid(n, u)
    <2>1. \A i, j \in DOMAIN Kids(n) : Kids(n)[i] = Kids(n)[j] => i = j
      BY KidFacts
    <2>2. \A i \in DOMAIN u : ItemOf(u[i], u[i].tree)
      BY <1>2, <1>4, <1>5 DEF ItemOf
    <2> QED BY <1>1, <1>2, <1>4, <1>5, <2>1, <2>2 DEF KidsLaid
  <1>7. LabelsLaid(x, n, l, u) /\ JumpsLaid(x, n, l, stack, u)
    BY <1>5 DEF LabelsLaid, JumpsLaid
  <1> QED BY <1>6, <1>7 DEF TextGood, u

(***************************************************************************)
(* The text of a case.                                                     *)
(***************************************************************************)
LEMMA CaseGood ==
    ASSUME source \in DOMAIN Programs, NEW n \in Nodes, Kind(n) = "case", NEW l \in Nat, NEW x, x.w = "case",
           x.label \in Nat, NEW stack
    PROVE  TextGood(x, n, l, stack, <<Label(x.label)>> \o Trees(Kids(n)))
  <1> DEFINE s == Trees(Kids(n))
             u == <<Label(x.label)>> \o s
  <1>1. ~Breakable(n) /\ DOMAIN Kids(n) = 1 .. Len(Kids(n)) /\ Len(Kids(n)) \in Nat /\ Kind(n) # "switch"
    BY KidFacts DEF Breakable, Loops
  <1>2. \A j \in DOMAIN Kids(n) : LET c == Kids(n)[j] IN
              c \in Nat /\ Kind(c) \notin ConditionKinds /\ Kind(c) # "case" /\ ~NeverEntered(c)
    BY ItemKids
  <1>3. \A j \in DOMAIN Kids(n) : Tree(Kids(n)[j]) \in Work
    BY <1>2, ItemTypes
  <1>4. s \in Seq(Work) /\ Len(s) = Len(Kids(n)) /\ \A i \in 1 .. Len(Kids(n)) : s[i] = Tree(Kids(n)[i])
    BY <1>1, <1>3 DEF Trees
  <1>5. Label(x.label) \in Work
    BY ItemTypes
  <1> HIDE DEF s
  <1>6. u \in Seq(Work) /\ Len(u) = 1 + Len(Kids(n)) /\ DOMAIN u = 1 .. (1 + Len(Kids(n))) /\ u[1] = Label(x.label)
        /\ \A i \in 1 .. Len(Kids(n)) : u[i + 1] = Tree(Kids(n)[i])
    BY <1>1, <1>4, <1>5
  <1> HIDE DEF u
  <1>7. \A i \in DOMAIN u : i = 1 \/ \E j \in DOMAIN Kids(n) : i = j + 1
    <2>1. \A i \in 1 .. (1 + Len(Kids(n))) : i = 1 \/ (i - 1 \in 1 .. Len(Kids(n)) /\ i = (i - 1) + 1)
      BY <1>1
    <2> QED BY <2>1, <1>6, <1>1
  <1>8. /\ u[1].w = "ins" /\ IsIns(u[1]) /\ u[1].op = "LABEL" /\ u[1].arg = x.label /\ TargetsOf(u[1]) = {}
        /\ \A j \in DOMAIN Kids(n) : u[j + 1].w = "tree" /\ u[j + 1].tree = Kids(n)[j] /\ ~IsIns(u[j + 1])
    <2>1. u[1].w = "ins" /\ IsIns(u[1]) /\ u[1].op = "LABEL" /\ u[1].arg = x.label
      BY <1>6 DEF IsIns, Label, Ins
    <2>2. TargetsOf(u[1]) = {}
      BY <1>6, TargetFacts
    <2>3. ASSUME NEW j \in DOMAIN Kids(n)
          PROVE u[j + 1].w = "tree" /\ u[j + 1].tree = Kids(n)[j] /\ ~IsIns(u[j + 1])
      <3>1. u[j + 1] = Tree(Kids(n)[j])
        BY <1>6, <1>1
      <3> QED BY <3>1 DEF Tree, IsIns
    <2> QED BY <2>1, <2>2, <2>3
  <1>9. KidsLaid(n, u)
    <2>1. \A i, j \in DOMAIN Kids(n) : Kids(n)[i] = Kids(n)[j] => i = j
      BY KidFacts
    <2>2. \A j \in DOMAIN Kids(n) : ItemOf(u[j + 1], Kids(n)[j])
      BY <1>2, <1>8 DEF ItemOf
    <2>3. \A j \in DOMAIN Kids(n) : j + 1 \in DOMAIN u
      BY <1>1, <1>6
    <2>4. ASSUME NEW i \in DOMAIN u, ~IsIns(u[i])
          PROVE  \E j \in DOMAIN Kids(n) : i = j + 1 /\ u[i].tree = Kids(n)[j] /\ ItemOf(u[i], u[i].tree) /\ ~NeverEntered(u[i].tree)
      BY <2>4, <1>7, <1>8, <2>2, <1>2
    <2>5. \A i, j \in DOMAIN u : ~IsIns(u[i]) /\ ~IsIns(u[j]) /\ u[i].tree = u[j].tree => i = j
      BY <2>4, <2>1
    <2>6. \A i \in DOMAIN u : u[i].w # "end"
      BY <1>7, <1>8
    <2> QED BY <1>1, <1>6, <1>8, <2>3, <2>4, <2>5, <2>6 DEF KidsLaid
  <1>10. \A i \in DOMAIN u : IsIns(u[i]) => i = 1
    BY <1>7, <1>8
  <1>11. LabelIn(u, x.label)
    BY <1>6, <1>8 DEF LabelIn, IsLabel
  <1>12. LabelsLaid(x, n, l, u)
    BY <1>8, <1>10, <1>11 DEF LabelsLaid, IsLabel
  <1>13. JumpsLaid(x, n, l, stack, u)
    <2>1. \A i \in DOMAIN u : u[i].w # "jumps"
      BY <1>7, <1>8
    <2> QED BY <2>1, <1>8, <1>10 DEF JumpsLaid
  <1>14. TextGood(x, n, l, stack, u)
    BY <1>9, <1>12, <1>13 DEF TextGood
  <1> QED BY <1>14 DEF u, s

(***************************************************************************)
(* The items of the text of a switch.                                      *)
(***************************************************************************)
SwitchShape(n, l, k, u) ==
    /\ u \in Seq(Work) /\ Len(u) = k + 2 /\ DOMAIN u = 1 .. (k + 2) /\ DOMAIN Kids(n) = 1 .. k /\ k \in Nat
    /\ u[1] = Ins("SELECT", [node |-> n, first |-> l + 2, end |-> l + 1])
    /\ \A i \in DOMAIN u : i = 1 \/ i = k + 2 \/ \E j \in DOMAIN Kids(n) : i = j + 1
    /\ u[1].w = "ins" /\ IsIns(u[1]) /\ u[1].op = "SELECT" /\ u[k + 2].w = "end" /\ IsIns(u[k + 2])
    /\ u[k + 2].op = "LABEL" /\ u[k + 2].arg = l + 1 /\ TargetsOf(u[k + 2]) = {}
    /\ \A j \in DOMAIN Kids(n) : u[j + 1].w = "case" /\ u[j + 1].tree = Kids(n)[j] /\ ~IsIns(u[j + 1])
                                 /\ u[j + 1].label = l + 1 + j

(***************************************************************************)
(* The items of the text of a switch.                                      *)
(***************************************************************************)
LEMMA SwitchItems ==
    ASSUME source \in DOMAIN Programs, NEW n \in Nodes, Kind(n) = "switch", NEW l \in Nat
    PROVE  SwitchShape(n, l, Len(Kids(n)), SwitchText(n, l))
  <1> DEFINE k == Len(Kids(n))
             v == Ins("SELECT", [node |-> n, first |-> l + 2, end |-> l + 1])
             s == [i \in DOMAIN Kids(n) |-> Case(Kids(n)[i], l + 1 + i)]
             e == EndLabelAndPop(l + 1)
             u == SwitchText(n, l)
  <1>1. Breakable(n) /\ DOMAIN Kids(n) = 1 .. k /\ k \in Nat /\ n \in Nat
    BY KidFacts, NodeFacts DEF Breakable, Loops
  <1>2. \A j \in DOMAIN Kids(n) : LET c == Kids(n)[j] IN
              c \in Nat /\ Kind(c) \notin ConditionKinds /\ Kind(c) = "case" /\ ~NeverEntered(c)
    BY ItemKids
  <1>3. \A j \in 1 .. k : Case(Kids(n)[j], l + 1 + j) \in Work
    <2>1. \A j \in 1 .. k : l + 1 + j \in Nat /\ Kids(n)[j] \in Nat
      BY <1>1, <1>2
    <2> QED BY <2>1, ItemTypes
  <1>4. s \in Seq(Work) /\ Len(s) = k /\ \A i \in 1 .. k : s[i] = Case(Kids(n)[i], l + 1 + i)
    BY <1>1, <1>3
  <1>5. v \in Work /\ e \in Work
    <2>1. l + 1 \in Nat /\ l + 2 \in Nat /\ l + 1 \in Int
      OBVIOUS
    <2> QED BY <2>1, <1>1, ItemTypes
  <1>6. u = <<v>> \o s \o <<e>>
    BY DEF SwitchText
  <1> HIDE DEF s, v, e
  <1>7. u \in Seq(Work) /\ Len(u) = k + 2 /\ DOMAIN u = 1 .. (k + 2) /\ u[1] = v /\ u[k + 2] = e
        /\ \A i \in 1 .. k : u[i + 1] = Case(Kids(n)[i], l + 1 + i)
    <2>1. <<v>> \o s \in Seq(Work) /\ Len(<<v>> \o s) = k + 1 /\ (<<v>> \o s)[1] = v
          /\ \A i \in 1 .. k : (<<v>> \o s)[i + 1] = Case(Kids(n)[i], l + 1 + i)
      BY <1>1, <1>4, <1>5
    <2> DEFINE r == <<v>> \o s
    <2>2. u = r \o <<e>>
      BY <1>6
    <2>3. r \in Seq(Work) /\ Len(r) = k + 1 /\ r[1] = v /\ \A i \in 1 .. k : r[i + 1] = Case(Kids(n)[i], l + 1 + i)
      BY <2>1
    <2> HIDE DEF r, u
    <2> QED BY <1>1, <1>5, <2>2, <2>3
  <1> HIDE DEF u
  <1>8. \A i \in DOMAIN u : i = 1 \/ i = k + 2 \/ \E j \in DOMAIN Kids(n) : i = j + 1
    <2>1. \A i \in 1 .. (k + 2) : i = 1 \/ i = k + 2 \/ (i - 1 \in 1 .. k /\ i = (i - 1) + 1)
      BY <1>1
    <2> QED BY <2>1, <1>7, <1>1
  <1>9. /\ u[1].w = "ins" /\ IsIns(u[1]) /\ u[1].op = "SELECT" /\ u[k + 2].w = "end" /\ IsIns(u[k + 2])
        /\ u[k + 2].op = "LABEL" /\ u[k + 2].arg = l + 1 /\ TargetsOf(u[k + 2]) = {}
        /\ \A j \in DOMAIN Kids(n) : u[j + 1].w = "case" /\ u[j + 1].tree = Kids(n)[j] /\ ~IsIns(u[j + 1])
                                     /\ u[j + 1].label = l + 1 + j
    <2>1. u[1].w = "ins" /\ IsIns(u[1]) /\ u[1].op = "SELECT"
      BY <1>7 DEF IsIns, v, Ins
    <2>2. u[k + 2].w = "end" /\ IsIns(u[k + 2]) /\ u[k + 2].op = "LABEL" /\ u[k + 2].arg = l + 1
      BY <1>7 DEF IsIns, e, EndLabelAndPop
    <2>3. TargetsOf(u[k + 2]) = {}
      BY <1>7, TargetFacts DEF e
    <2>4. ASSUME NEW j \in DOMAIN Kids(n)
          PROVE u[j + 1].w = "case" /\ u[j + 1].tree = Kids(n)[j] /\ ~IsIns(u[j + 1]) /\ u[j + 1].label = l + 1 + j
      <3>1. u[j + 1] = Case(Kids(n)[j], l + 1 + j)
        BY <1>7, <1>1
      <3> QED BY <3>1 DEF Case, IsIns
    <2> QED BY <2>1, <2>2, <2>3, <2>4
  <1>10. SwitchShape(n, l, k, u)
    BY <1>1, <1>7, <1>8, <1>9 DEF SwitchShape, v
  <1> QED BY <1>10 DEF u

(***************************************************************************)
(* The text of a switch.                                                   *)
(***************************************************************************)
LEMMA SwitchGood ==
    ASSUME source \in DOMAIN Programs, NEW n \in Nodes, Kind(n) = "switch", NEW l \in Nat, NEW x, x.w = "tree", NEW stack
    PROVE  TextGood(x, n, l, stack, SwitchText(n, l))
  <1> DEFINE k == Len(Kids(n))
             u == SwitchText(n, l)
  <1>1. Breakable(n) /\ DOMAIN Kids(n) = 1 .. k /\ k \in Nat /\ n \in Nat
    BY KidFacts, NodeFacts DEF Breakable, Loops
  <1>2. \A j \in DOMAIN Kids(n) : LET c == Kids(n)[j] IN
              c \in Nat /\ Kind(c) \notin ConditionKinds /\ Kind(c) = "case" /\ ~NeverEntered(c)
    BY ItemKids
  <1>6. SwitchShape(n, l, k, u)
    BY SwitchItems
  <1>7. u \in Seq(Work) /\ Len(u) = k + 2 /\ DOMAIN u = 1 .. (k + 2)
        /\ u[1] = Ins("SELECT", [node |-> n, first |-> l + 2, end |-> l + 1])
    BY <1>6 DEF SwitchShape
  <1>8. \A i \in DOMAIN u : i = 1 \/ i = k + 2 \/ \E j \in DOMAIN Kids(n) : i = j + 1
    BY <1>6 DEF SwitchShape
  <1>9. /\ u[1].w = "ins" /\ IsIns(u[1]) /\ u[1].op = "SELECT" /\ u[k + 2].w = "end" /\ IsIns(u[k + 2])
        /\ u[k + 2].op = "LABEL" /\ u[k + 2].arg = l + 1 /\ TargetsOf(u[k + 2]) = {}
        /\ \A j \in DOMAIN Kids(n) : u[j + 1].w = "case" /\ u[j + 1].tree = Kids(n)[j] /\ ~IsIns(u[j + 1])
                                     /\ u[j + 1].label = l + 1 + j
    BY <1>6 DEF SwitchShape
  <1> HIDE DEF u
  <1>10. KidsLaid(n, u)
    <2>1. \A i, j \in DOMAIN Kids(n) : Kids(n)[i] = Kids(n)[j] => i = j
      BY KidFacts
    <2>2. \A j \in DOMAIN Kids(n) : ItemOf(u[j + 1], Kids(n)[j])
      BY <1>2, <1>9 DEF ItemOf
    <2>3. \A j \in DOMAIN Kids(n) : j + 1 \in DOMAIN u
      BY <1>1, <1>7
    <2>4. ASSUME NEW i \in DOMAIN u, ~IsIns(u[i])
          PROVE  \E j \in DOMAIN Kids(n) : i = j + 1 /\ u[i].tree = Kids(n)[j] /\ ItemOf(u[i], u[i].tree) /\ ~NeverEntered(u[i].tree)
      BY <2>4, <1>8, <1>9, <2>2, <1>2
    <2>5. \A i, j \in DOMAIN u : ~IsIns(u[i]) /\ ~IsIns(u[j]) /\ u[i].tree = u[j].tree => i = j
      BY <2>4, <2>1
    <2>6. \A i \in DOMAIN u : u[i].w = "end" <=> i = k + 2
      BY <1>8, <1>9
    <2>7. u # <<>>
      BY <1>1, <1>7
    <2> QED BY <1>1, <1>7, <1>9, <2>3, <2>4, <2>5, <2>6, <2>7 DEF KidsLaid
  <1>11. \A i \in DOMAIN u : IsIns(u[i]) => (i = 1 /\ u[i].op # "LABEL") \/ (i = k + 2 /\ u[i].arg = l + 1)
    BY <1>8, <1>9
  <1>12. LabelIn(u, l + 1)
    <2>1. k + 2 \in DOMAIN u
      BY <1>1, <1>7
    <2> QED BY <2>1, <1>9 DEF LabelIn, IsLabel
  <1>13. LabelsLaid(x, n, l, u)
    <2>1. l + 1 \in (l + 1) .. (l + Fresh(n))
      BY <1>1 DEF Fresh
    <2> QED BY <1>11, <1>12, <2>1 DEF LabelsLaid, IsLabel
  <1>14. JumpsLaid(x, n, l, stack, u)
    <2>1. \A i \in DOMAIN u : u[i].w # "jumps"
      BY <1>8, <1>9
    <2>2. TargetsOf(u[1]) = {l + 2 + j - 1 : j \in DOMAIN Kids(n)} \cup {l + 1}
      BY <1>7 DEF TargetsOf, Ins
    <2>3. \A j \in DOMAIN Kids(n) : j + 1 \in DOMAIN u /\ u[j + 1].w = "case" /\ u[j + 1].label = l + 2 + j - 1
      <3> SUFFICES ASSUME NEW j \in DOMAIN Kids(n) PROVE j + 1 \in DOMAIN u /\ u[j + 1].w = "case" /\ u[j + 1].label = l + 2 + j - 1
        OBVIOUS
      <3>1. j \in Nat /\ j \in 1 .. k /\ k \in Nat
        BY <1>1
      <3>2. j + 1 \in DOMAIN u
        BY <3>1, <1>7
      <3>3. l + 1 + j = l + 2 + j - 1
        BY <3>1
      <3> QED BY <3>2, <3>3, <1>9
    <2> QED BY <2>1, <2>2, <2>3, <1>9, <1>11, <1>12, <1>8 DEF JumpsLaid
  <1>15. TextGood(x, n, l, stack, u)
    BY <1>10, <1>13, <1>14 DEF TextGood
  <1> QED BY <1>15 DEF u

(***************************************************************************)
(* The text of a labeled statement.                                        *)
(***************************************************************************)
LEMMA LabeledGood ==
    ASSUME source \in DOMAIN Programs, NEW n \in Nodes, Kind(n) = "label", NEW l \in Nat, NEW x, x.w = "tree", NEW stack
    PROVE  TextGood(x, n, l, stack, <<Label(SourceLabel(program[n].tag)), Tree(Kid(n, "body"))>>)
  <1> DEFINE c == Kid(n, "body")
             v == SourceLabel(program[n].tag)
             u == <<Label(v), Tree(c)>>
  <1>1. Has(n, "body") /\ Parts(Kind(n)) = {"body"} /\ ~Breakable(n) /\ Kind(n) \notin {"if", "while"}
    BY KidRoles DEF Required, Parts, Breakable, Loops
  <1>2. \A j \in DOMAIN Kids(n) : Kids(n)[j] = c
    BY <1>1, KidRoles, RoleOfKid
  <1>3. /\ \E j \in DOMAIN Kids(n) : Kids(n)[j] = c
        /\ Kind(c) \notin ConditionKinds /\ Kind(c) # "case" /\ ~NeverEntered(c)
    BY <1>1, KidFactsOfRole DEF ConditionRoles
  <1>4. c \in Nat
    BY <1>1, KidFactsOfRole, NodeFacts
  <1>5. v \in Int
    BY NodeFacts DEF Node, SourceLabel
  <1>6. Label(v) \in Work /\ Tree(c) \in Work
    BY <1>4, <1>5, ItemTypes
  <1>7. u \in Seq(Work) /\ DOMAIN u = 1 .. 2 /\ Len(u) = 2 /\ u[1] = Label(v) /\ u[2] = Tree(c)
    BY <1>6
  <1> HIDE DEF u, c
  <1>8. /\ u[1].w = "ins" /\ IsIns(u[1]) /\ u[1].op = "LABEL" /\ u[1].arg = v /\ TargetsOf(u[1]) = {}
        /\ u[2].w = "tree" /\ u[2].tree = c /\ ~IsIns(u[2])
    <2>1. TargetsOf(u[1]) = {}
      BY <1>7, TargetFacts
    <2> QED BY <1>7, <2>1 DEF IsIns, Label, Tree, Ins
  <1>9. KidsLaid(n, u)
    BY <1>1, <1>2, <1>3, <1>7, <1>8 DEF KidsLaid, ItemOf
  <1>10. LabelIn(u, v)
    BY <1>7, <1>8 DEF LabelIn, IsLabel
  <1>11. LabelsLaid(x, n, l, u)
    BY <1>7, <1>8, <1>10 DEF LabelsLaid, IsLabel
  <1>12. JumpsLaid(x, n, l, stack, u)
    BY <1>7, <1>8 DEF JumpsLaid
  <1>13. TextGood(x, n, l, stack, u)
    BY <1>9, <1>11, <1>12 DEF TextGood
  <1> QED BY <1>13 DEF u, c

(***************************************************************************)
(* The parts of a loop.                                                    *)
(***************************************************************************)
LEMMA LoopKids ==
    ASSUME source \in DOMAIN Programs, NEW n \in Nodes, Kind(n) \in Loops
    PROVE  /\ Breakable(n) /\ Has(n, "body") /\ (Kind(n) = "while" => Has(n, "cond"))
           /\ \A j \in DOMAIN Kids(n) : \/ Kids(n)[j] = Kid(n, "body")
                                        \/ Has(n, "cond") /\ Kids(n)[j] = Kid(n, "cond")
                                        \/ Kind(n) = "for" /\ Has(n, "init") /\ Kids(n)[j] = Kid(n, "init")
                                        \/ Kind(n) = "for" /\ Has(n, "incr") /\ Kids(n)[j] = Kid(n, "incr")
           /\ \A r \in {"body", "cond", "init", "incr"} : Has(n, r) =>
                 /\ \E j \in DOMAIN Kids(n) : Kids(n)[j] = Kid(n, r)
                 /\ Kid(n, r) \in Nat /\ Kind(Kid(n, r)) # "case"
                 /\ Kind(Kid(n, r)) \in ConditionKinds <=> r = "cond"
                 /\ NeverEntered(Kid(n, r)) <=> Kind(n) = "while" /\ ~IsDo(n) /\ NeverHolds(n) /\ r = "body"
                 /\ \A q \in {"body", "cond", "init", "incr"} : Has(n, q) /\ q # r => Kid(n, r) # Kid(n, q)
  <1>1. Breakable(n) /\ Has(n, "body") /\ (Kind(n) = "while" => Has(n, "cond"))
    BY KidRoles DEF Required, Parts, Breakable, Loops
  <1>2. ASSUME NEW j \in DOMAIN Kids(n)
        PROVE  \/ Kids(n)[j] = Kid(n, "body")
               \/ Has(n, "cond") /\ Kids(n)[j] = Kid(n, "cond")
               \/ Kind(n) = "for" /\ Has(n, "init") /\ Kids(n)[j] = Kid(n, "init")
               \/ Kind(n) = "for" /\ Has(n, "incr") /\ Kids(n)[j] = Kid(n, "incr")
    <2>1. program[Kids(n)[j]].role \in {"body", "cond"} \/ (Kind(n) = "for" /\ program[Kids(n)[j]].role \in {"init", "incr"})
      <3>1. program[Kids(n)[j]].role \in Parts(Kind(n))
        BY KidRoles
      <3> QED BY <3>1 DEF Parts, Loops
    <2> QED BY <2>1, RoleOfKid
  <1>3. ASSUME NEW r \in {"body", "cond", "init", "incr"}, Has(n, r)
        PROVE  /\ \E j \in DOMAIN Kids(n) : Kids(n)[j] = Kid(n, r)
               /\ Kid(n, r) \in Nat /\ Kind(Kid(n, r)) # "case"
               /\ Kind(Kid(n, r)) \in ConditionKinds <=> r = "cond"
               /\ NeverEntered(Kid(n, r)) <=> Kind(n) = "while" /\ ~IsDo(n) /\ NeverHolds(n) /\ r = "body"
               /\ \A q \in {"body", "cond", "init", "incr"} : Has(n, q) /\ q # r => Kid(n, r) # Kid(n, q)
    <2>1. /\ \E i \in DOMAIN Kids(n) : Kid(n, r) = Kids(n)[i]
          /\ program[Kid(n, r)].role = r /\ Kid(n, r) \in Nodes
          /\ Kind(Kid(n, r)) \in ConditionKinds <=> r \in ConditionRoles
          /\ Kind(n) # "switch" => Kind(Kid(n, r)) # "case"
      BY <1>3, KidFactsOfRole
    <2>2. \A q \in {"body", "cond", "init", "incr"} : Has(n, q) => program[Kid(n, q)].role = q
      BY KidFactsOfRole
    <2>3. NeverEntered(Kid(n, r)) <=>
                /\ ConstantTest(n)
                /\ \/ Kind(n) = "if" /\ r = (IF Holds(n) THEN "else" ELSE "then")
                   \/ Kind(n) = "while" /\ program[n].tag # 1 /\ ~Holds(n) /\ r = "body"
      BY <1>3, KidFactsOfRole
    <2>5. Kid(n, r) \in Nat
      BY <2>1, NodeFacts
    <2>6. Kind(n) # "switch" /\ Kind(n) # "if" /\ (r \in ConditionRoles <=> r = "cond")
      BY DEF Loops, ConditionRoles
    <2> QED BY <2>1, <2>2, <2>3, <2>5, <2>6, <1>3 DEF NeverHolds, IsDo
  <1> QED BY <1>1, <1>2, <1>3

(***************************************************************************)
(* The text of while and do-while loops.                                   *)
(***************************************************************************)
LEMMA WhileGood ==
    ASSUME source \in DOMAIN Programs, NEW n \in Nodes, Kind(n) = "while", NEW l \in Nat, NEW x, x.w = "tree", NEW stack
    PROVE  TextGood(x, n, l, stack, WhileText(n, l))
  <1> DEFINE u == WhileText(n, l)
             c == Kid(n, "cond")
             d == Kid(n, "body")
             e == EndLabelAndPop(l + 3)
  <1>1. /\ Breakable(n) /\ Has(n, "body") /\ Has(n, "cond") /\ c # d /\ c \in Nat /\ d \in Nat
        /\ \A j \in DOMAIN Kids(n) : Kids(n)[j] = c \/ Kids(n)[j] = d
        /\ \E j \in DOMAIN Kids(n) : Kids(n)[j] = c
        /\ \E j \in DOMAIN Kids(n) : Kids(n)[j] = d
        /\ Kind(c) # "case" /\ Kind(c) \in ConditionKinds /\ ~NeverEntered(c)
        /\ Kind(d) # "case" /\ Kind(d) \notin ConditionKinds /\ (NeverEntered(d) <=> ~IsDo(n) /\ NeverHolds(n))
    BY LoopKids DEF Loops
  <1>2. ConstantTest(n) => Kind(c) = "const"
    BY DEF ConstantTest
  <1>3. /\ Label(l + 1) \in Work /\ Label(l + 2) \in Work /\ Lbra(l + 2) \in Work /\ Lbra(l + 1) \in Work
        /\ e \in Work /\ Blank \in Work /\ Tree(d) \in Work /\ BoolJumps(c, l + 1, l + 3) \in Work
    BY <1>1, ItemTypes, NextLabels
  <1>4. CASE NeverHolds(n)
    <2> DEFINE v1 == IF IsDo(n) THEN Label(l + 1) ELSE Blank
               v2 == IF IsDo(n) THEN Tree(d) ELSE Blank
    <2>1. u = <<v1, v2, e>>
      BY <1>4 DEF WhileText
    <2>2. u \in Seq(Work) /\ DOMAIN u = 1 .. 3 /\ Len(u) = 3 /\ u[1] = v1 /\ u[2] = v2 /\ u[3] = e
      BY <2>1, <1>3
    <2> HIDE DEF u, c, d
    <2>3. /\ IsIns(u[1]) /\ u[1].w # "end" /\ u[1].w # "jumps" /\ (u[1].op = "LABEL" => u[1].arg = l + 1)
          /\ (IsIns(u[2]) <=> ~IsDo(n)) /\ u[2].w # "end" /\ u[2].w # "jumps"
          /\ (IsIns(u[2]) => u[2].op # "LABEL") /\ (~IsIns(u[2]) => u[2].tree = d /\ u[2].w = "tree")
          /\ IsIns(u[3]) /\ u[3].w = "end" /\ u[3].op = "LABEL" /\ u[3].arg = l + 3
      BY <2>2 DEF IsIns, Label, Blank, Ins, Tree, EndLabelAndPop
    <2>4. KidsLaid(n, u)
      <3>1. \A i \in DOMAIN u : ~IsIns(u[i]) => i = 2 /\ IsDo(n) /\ u[i].tree = d /\ u[i].w = "tree"
        BY <2>2, <2>3
      <3>2. \A i \in DOMAIN u : u[i].w = "end" <=> i = 3
        BY <2>2, <2>3
      <3>3. \A i \in DOMAIN u : ~IsIns(u[i]) => ItemOf(u[i], u[i].tree)
        BY <3>1, <1>1 DEF ItemOf
      <3>4. Kind(c) = "const"
        BY <1>2, <1>4 DEF NeverHolds
      <3>5. ~IsDo(n) => NeverEntered(d)
        BY <1>1, <1>4
      <3>6. IsDo(n) => ~IsIns(u[2]) /\ u[2].tree = d /\ ~NeverEntered(d)
        BY <2>3, <1>1
      <3>7. 2 \in DOMAIN u /\ u \in Seq(Work) /\ Len(u) = 3
        BY <2>2
      <3>8. u # <<>>
        BY <3>7
      <3>9. \A j \in DOMAIN Kids(n) : \/ NeverEntered(Kids(n)[j]) \/ Kind(Kids(n)[j]) = "const"
                                      \/ \E i \in DOMAIN u : ~IsIns(u[i]) /\ u[i].tree = Kids(n)[j]
        BY <3>4, <3>5, <3>6, <3>7, <1>1
      <3>10. \A i \in DOMAIN u : ~IsIns(u[i]) => (\E j \in DOMAIN Kids(n) : u[i].tree = Kids(n)[j]) /\ ~NeverEntered(u[i].tree)
        BY <3>1, <3>6, <1>1
      <3>11. \A i, j \in DOMAIN u : ~IsIns(u[i]) /\ ~IsIns(u[j]) /\ u[i].tree = u[j].tree => i = j
        BY <3>1
      <3> QED BY <3>2, <3>3, <3>7, <3>8, <3>9, <3>10, <3>11, <1>1 DEF KidsLaid
    <2>5. LabelIn(u, l + 3) /\ ~LabelIn(u, l + 2)
      BY <2>2, <2>3 DEF LabelIn, IsLabel
    <2>6. LabelsLaid(x, n, l, u)
      BY <2>2, <2>3, <2>5, <1>4 DEF LabelsLaid, IsLabel, Fresh
    <2>7. \A i \in DOMAIN u : IsIns(u[i]) => TargetsOf(u[i]) = {}
      BY <2>2, <2>3, TargetFacts
    <2>8. JumpsLaid(x, n, l, stack, u)
      BY <2>2, <2>3, <2>7 DEF JumpsLaid
    <2>9. TextGood(x, n, l, stack, u)
      BY <2>4, <2>6, <2>8 DEF TextGood
    <2> QED BY <2>9 DEF u
  <1>5. CASE ~NeverHolds(n)
    <2> DEFINE v1 == IF IsDo(n) THEN Blank ELSE Lbra(l + 2)
               v5 == WhileTest(n, l)
    <2>1. u = <<v1, Label(l + 1), Tree(d), Label(l + 2), v5, e>>
      BY <1>5 DEF WhileText
    <2>2. v5 = IF ConstantTest(n) THEN Lbra(l + 1) ELSE BoolJumps(c, l + 1, l + 3)
      BY DEF WhileTest
    <2>3. /\ u \in Seq(Work) /\ DOMAIN u = 1 .. 6 /\ Len(u) = 6 /\ u[1] = v1 /\ u[2] = Label(l + 1) /\ u[3] = Tree(d)
          /\ u[4] = Label(l + 2) /\ u[5] = v5 /\ u[6] = e
      BY <2>1, <2>2, <1>3
    <2> HIDE DEF u, c, d, v5
    <2>4. /\ u[1].w = "ins" /\ u[1].op # "LABEL"
          /\ u[2].w = "ins" /\ u[2].op = "LABEL" /\ u[2].arg = l + 1
          /\ u[3].w = "tree" /\ u[3].tree = d
          /\ u[4].w = "ins" /\ u[4].op = "LABEL" /\ u[4].arg = l + 2
          /\ u[6].w = "end" /\ u[6].op = "LABEL" /\ u[6].arg = l + 3
      BY <2>3 DEF Label, Lbra, Blank, Ins, Tree, EndLabelAndPop
    <2>5. IF ConstantTest(n) THEN u[5].w = "ins" /\ u[5].op = "LBRA"
          ELSE u[5].w = "jumps" /\ u[5].tree = c /\ u[5].yes = l + 1 /\ u[5].no = l + 3
      BY <2>2, <2>3 DEF Lbra, Ins, BoolJumps
    <2>6. \A i \in DOMAIN u : IsIns(u[i]) <=> i \in {1, 2, 4, 6} \/ (i = 5 /\ ConstantTest(n))
      BY <2>3, <2>4, <2>5 DEF IsIns
    <2>60. \A i \in DOMAIN u : i = 1 \/ i = 2 \/ i = 3 \/ i = 4 \/ i = 5 \/ i = 6
      BY <2>3
    <2>7. KidsLaid(n, u)
      <3>1. \A i \in DOMAIN u : ~IsIns(u[i]) => ItemOf(u[i], u[i].tree)
        BY <2>3, <2>4, <2>5, <2>6, <1>1 DEF ItemOf
      <3>2. \A i \in DOMAIN u : u[i].w = "end" <=> i = 6
        BY <2>3, <2>4, <2>5
      <3>3. \A i \in DOMAIN u : ~IsIns(u[i]) => \/ i = 3 /\ u[i].tree = d
                                                \/ i = 5 /\ u[i].tree = c /\ ~ConstantTest(n)
        <4>1. ~IsIns(u[5]) => u[5].tree = c /\ ~ConstantTest(n)
          BY <2>3, <2>5, <2>6
        <4>2. u[3].tree = d /\ IsIns(u[1]) /\ IsIns(u[2]) /\ IsIns(u[4]) /\ IsIns(u[6])
          BY <2>3, <2>4, <2>6
        <4>3. \A i \in DOMAIN u : ~IsIns(u[i]) => i = 3 \/ i = 5
          BY <4>2, <2>60
        <4> QED BY <4>1, <4>2, <4>3
      <3>4. ~IsIns(u[3]) /\ u[3].tree = d /\ ~NeverEntered(d)
        BY <2>3, <2>4, <2>6, <1>1, <1>5
      <3>5. Kind(c) = "const" \/ (~IsIns(u[5]) /\ u[5].tree = c)
        BY <2>3, <2>5, <2>6, <1>2
      <3>6. 3 \in DOMAIN u /\ 5 \in DOMAIN u /\ u \in Seq(Work) /\ Len(u) = 6
        BY <2>3
      <3>7. u # <<>>
        <4>1. Len(u) # 0
          BY <3>6
        <4> QED BY <4>1, NotEmpty
      <3>8. \A j \in DOMAIN Kids(n) : \/ NeverEntered(Kids(n)[j]) \/ Kind(Kids(n)[j]) = "const"
                                      \/ \E i \in DOMAIN u : ~IsIns(u[i]) /\ u[i].tree = Kids(n)[j]
        BY <3>4, <3>5, <3>6, <1>1
      <3>9. \A i \in DOMAIN u : ~IsIns(u[i]) => (\E j \in DOMAIN Kids(n) : u[i].tree = Kids(n)[j]) /\ ~NeverEntered(u[i].tree)
        BY <3>3, <3>4, <1>1
      <3>10. \A i, j \in DOMAIN u : ~IsIns(u[i]) /\ ~IsIns(u[j]) /\ u[i].tree = u[j].tree => i = j
        BY <3>3, <1>1
      <3> QED BY <3>1, <3>2, <3>6, <3>7, <3>8, <3>9, <3>10, <1>1 DEF KidsLaid
    <2>8. LabelIn(u, l + 1) /\ LabelIn(u, l + 2) /\ LabelIn(u, l + 3)
      BY <2>3, <2>4, <2>6 DEF LabelIn, IsLabel
    <2>9. \A i \in DOMAIN u : IsIns(u[i]) /\ u[i].op = "LABEL" => \/ i = 2 /\ u[i].arg = l + 1
                                                                  \/ i = 4 /\ u[i].arg = l + 2
                                                                  \/ i = 6 /\ u[i].arg = l + 3
      <3>1. IsIns(u[5]) => u[5].op # "LABEL"
        BY <2>3, <2>5, <2>6
      <3>2. u[1].op # "LABEL" /\ ~IsIns(u[3])
        BY <2>3, <2>4, <2>6
      <3>3. \A i \in DOMAIN u : IsIns(u[i]) /\ u[i].op = "LABEL" => i = 2 \/ i = 4 \/ i = 6
        BY <2>60, <3>1, <3>2
      <3> QED BY <2>4, <3>3
    <2>10. LabelsLaid(x, n, l, u)
      BY <2>8, <2>9, <1>5 DEF LabelsLaid, IsLabel, Fresh
    <2>11. \A i \in DOMAIN u : IsIns(u[i]) => TargetsOf(u[i]) \subseteq {l + 1, l + 2}
      BY <2>2, <2>3, <2>6, TargetFacts
    <2>12. \A i \in DOMAIN u : u[i].w = "jumps" => u[i].yes = l + 1 /\ u[i].no = l + 3
      BY <2>3, <2>4, <2>5
    <2>13. JumpsLaid(x, n, l, stack, u)
      BY <2>8, <2>11, <2>12 DEF JumpsLaid
    <2>14. TextGood(x, n, l, stack, u)
      BY <2>7, <2>10, <2>13 DEF TextGood
    <2> QED BY <2>14 DEF u
  <1> QED BY <1>4, <1>5

(***************************************************************************)
(* The text of a for loop.                                                 *)
(***************************************************************************)
LEMMA ForGood ==
    ASSUME source \in DOMAIN Programs, NEW n \in Nodes, Kind(n) = "for", NEW l \in Nat, NEW x, x.w = "tree", NEW stack
    PROVE  TextGood(x, n, l, stack, ForText(n, l))
  <1> DEFINE u == ForText(n, l)
             b == Has(n, "cond")
             c == Kid(n, "cond")
             d == Kid(n, "body")
             i1 == Kid(n, "init")
             i2 == Kid(n, "incr")
             e == EndLabelAndPop(l + 4)
             v1 == Optional(n, "init")
             v2 == IF b THEN Lbra(l + 2) ELSE Blank
             v6 == Optional(n, "incr")
             v7 == IF b THEN Label(l + 2) ELSE Blank
             v8 == IF b THEN BoolJumps(c, l + 1, l + 4) ELSE Lbra(l + 1)
  <1>1. Breakable(n) /\ Has(n, "body") /\ \A j \in DOMAIN Kids(n) :
           Kids(n)[j] = d \/ (b /\ Kids(n)[j] = c) \/ (Has(n, "init") /\ Kids(n)[j] = i1) \/ (Has(n, "incr") /\ Kids(n)[j] = i2)
    BY LoopKids DEF Loops
  <1>2. /\ d \in Nat /\ Kind(d) # "case" /\ Kind(d) \notin ConditionKinds /\ ~NeverEntered(d)
        /\ \E j \in DOMAIN Kids(n) : Kids(n)[j] = d
        /\ b => /\ c \in Nat /\ Kind(c) # "case" /\ Kind(c) \in ConditionKinds /\ ~NeverEntered(c) /\ c # d
                /\ \E j \in DOMAIN Kids(n) : Kids(n)[j] = c
        /\ Has(n, "init") => /\ i1 \in Nat /\ Kind(i1) # "case" /\ Kind(i1) \notin ConditionKinds /\ ~NeverEntered(i1)
                             /\ i1 # d /\ (b => i1 # c) /\ (Has(n, "incr") => i1 # i2)
                             /\ \E j \in DOMAIN Kids(n) : Kids(n)[j] = i1
        /\ Has(n, "incr") => /\ i2 \in Nat /\ Kind(i2) # "case" /\ Kind(i2) \notin ConditionKinds /\ ~NeverEntered(i2)
                             /\ i2 # d /\ (b => i2 # c)
                             /\ \E j \in DOMAIN Kids(n) : Kids(n)[j] = i2
    BY <1>1, LoopKids DEF Loops
  <1>3. /\ Label(l + 1) \in Work /\ Label(l + 2) \in Work /\ Label(l + 3) \in Work /\ Lbra(l + 2) \in Work
        /\ Lbra(l + 1) \in Work /\ e \in Work /\ Blank \in Work /\ Tree(d) \in Work
        /\ (b => BoolJumps(c, l + 1, l + 4) \in Work)
        /\ v1 \in Work /\ v6 \in Work
    BY <1>2, ItemTypes, NextLabels DEF Optional
  <1>4. u = <<v1, v2, Label(l + 1), Tree(d), Label(l + 3), v6, v7, v8, e>>
    BY DEF ForText, ForIncrement
  <1>5. /\ u \in Seq(Work) /\ DOMAIN u = 1 .. 9 /\ Len(u) = 9 /\ u[1] = v1 /\ u[2] = v2 /\ u[3] = Label(l + 1)
        /\ u[4] = Tree(d) /\ u[5] = Label(l + 3) /\ u[6] = v6 /\ u[7] = v7 /\ u[8] = v8 /\ u[9] = e
    <2>1. v2 \in Work /\ v7 \in Work /\ v8 \in Work
      BY <1>3
    <2> HIDE DEF v1, v2, v6, v7, v8, u
    <2> QED BY <2>1, <1>3, <1>4
  <1> HIDE DEF u, c, d, i1, i2
  <1>6. /\ u[2].w = "ins" /\ u[2].op # "LABEL"
        /\ u[3].w = "ins" /\ u[3].op = "LABEL" /\ u[3].arg = l + 1
        /\ u[4].w = "tree" /\ u[4].tree = d
        /\ u[5].w = "ins" /\ u[5].op = "LABEL" /\ u[5].arg = l + 3
        /\ u[9].w = "end" /\ u[9].op = "LABEL" /\ u[9].arg = l + 4
    BY <1>5 DEF Label, Lbra, Blank, Ins, Tree, EndLabelAndPop
  <1>7. /\ Has(n, "init") => u[1].w = "tree" /\ u[1].tree = i1
        /\ ~Has(n, "init") => u[1].w = "ins" /\ u[1].op = "BLANK"
        /\ Has(n, "incr") => u[6].w = "tree" /\ u[6].tree = i2
        /\ ~Has(n, "incr") => u[6].w = "ins" /\ u[6].op = "BLANK"
    BY <1>5 DEF Blank, Ins, Tree, Optional, i1, i2
  <1>70. /\ b => u[7].w = "ins" /\ u[7].op = "LABEL" /\ u[7].arg = l + 2
         /\ ~b => u[7].w = "ins" /\ u[7].op = "BLANK"
         /\ b => u[8].w = "jumps" /\ u[8].tree = c /\ u[8].yes = l + 1 /\ u[8].no = l + 4
         /\ ~b => u[8].w = "ins" /\ u[8].op = "LBRA"
    BY <1>5 DEF Blank, Ins, Lbra, Label, BoolJumps
  <1>71. /\ IsIns(u[2]) /\ IsIns(u[3]) /\ ~IsIns(u[4]) /\ IsIns(u[5]) /\ IsIns(u[7]) /\ IsIns(u[9])
         /\ (IsIns(u[1]) <=> ~Has(n, "init")) /\ (IsIns(u[6]) <=> ~Has(n, "incr")) /\ (IsIns(u[8]) <=> ~b)
    BY <1>6, <1>7, <1>70 DEF IsIns
  <1>72. \A i \in DOMAIN u : i = 1 \/ i = 2 \/ i = 3 \/ i = 4 \/ i = 5 \/ i = 6 \/ i = 7 \/ i = 8 \/ i = 9
    BY <1>5
  <1>73. 1 \in DOMAIN u /\ 2 \in DOMAIN u /\ 3 \in DOMAIN u /\ 4 \in DOMAIN u /\ 5 \in DOMAIN u /\ 6 \in DOMAIN u
         /\ 7 \in DOMAIN u /\ 8 \in DOMAIN u /\ 9 \in DOMAIN u
    BY <1>5
  <1>8. KidsLaid(n, u)
    <2>1. \A i \in DOMAIN u : ~IsIns(u[i]) => \/ i = 4 /\ u[i].tree = d
                                              \/ i = 1 /\ Has(n, "init") /\ u[i].tree = i1
                                              \/ i = 6 /\ Has(n, "incr") /\ u[i].tree = i2
                                              \/ i = 8 /\ b /\ u[i].tree = c
      <3>1. ~IsIns(u[1]) => Has(n, "init") /\ u[1].tree = i1
        BY <1>7, <1>71
      <3>2. ~IsIns(u[6]) => Has(n, "incr") /\ u[6].tree = i2
        BY <1>7, <1>71
      <3>3. ~IsIns(u[8]) => b /\ u[8].tree = c
        BY <1>70, <1>71
      <3>4. \A i \in DOMAIN u : ~IsIns(u[i]) => i = 1 \/ i = 4 \/ i = 6 \/ i = 8
        BY <1>71, <1>72
      <3> QED BY <3>1, <3>2, <3>3, <3>4, <1>6
    <2>2. \A i \in DOMAIN u : ~IsIns(u[i]) => ItemOf(u[i], u[i].tree)
      <3>1. u[4].w = "tree" /\ (Has(n, "init") => u[1].w = "tree") /\ (Has(n, "incr") => u[6].w = "tree")
            /\ (b => u[8].w = "jumps")
        BY <1>6, <1>7, <1>70
      <3> QED BY <3>1, <2>1, <1>2 DEF ItemOf
    <2>3. \A i \in DOMAIN u : ~IsIns(u[i]) => (\E j \in DOMAIN Kids(n) : u[i].tree = Kids(n)[j]) /\ ~NeverEntered(u[i].tree)
      BY <2>1, <1>2
    <2>4. \A i, j \in DOMAIN u : ~IsIns(u[i]) /\ ~IsIns(u[j]) /\ u[i].tree = u[j].tree => i = j
      BY <2>1, <1>2
    <2>5. \A i \in DOMAIN u : u[i].w = "end" <=> i = 9
      BY <1>72, <1>6, <1>7, <1>70
    <2>6. \A j \in DOMAIN Kids(n) : \E i \in DOMAIN u : ~IsIns(u[i]) /\ u[i].tree = Kids(n)[j]
      BY <1>1, <1>6, <1>7, <1>70, <1>71, <1>73
    <2>7. u # <<>>
      <3>1. Len(u) = 9 /\ u \in Seq(Work)
        BY <1>5
      <3>2. Len(u) # 0
        BY <3>1
      <3> HIDE <3>1
      <3>3. u # <<>>
        BY <3>2, NotEmpty
      <3> QED BY <3>3
    <2>8. \A i \in DOMAIN u : u[i].w = "end" <=> i = Len(u) /\ Breakable(n)
      BY <2>5, <1>1, <1>5
    <2> QED BY <1>5, <2>2, <2>3, <2>4, <2>6, <2>7, <2>8 DEF KidsLaid
  <1>9. LabelIn(u, l + 1) /\ LabelIn(u, l + 3) /\ LabelIn(u, l + 4) /\ (b => LabelIn(u, l + 2))
    BY <1>73, <1>6, <1>70, <1>71 DEF LabelIn, IsLabel
  <1>10. \A i \in DOMAIN u : IsIns(u[i]) /\ u[i].op = "LABEL" => \/ i = 3 /\ u[i].arg = l + 1
                                                                 \/ i = 5 /\ u[i].arg = l + 3
                                                                 \/ i = 7 /\ u[i].arg = l + 2
                                                                 \/ i = 9 /\ u[i].arg = l + 4
    <2>1. ~(IsIns(u[1]) /\ u[1].op = "LABEL") /\ ~(IsIns(u[6]) /\ u[6].op = "LABEL") /\ ~(IsIns(u[8]) /\ u[8].op = "LABEL")
      BY <1>7, <1>70, <1>71
    <2>2. u[7].op = "LABEL" => u[7].arg = l + 2
      BY <1>70
    <2> QED BY <1>72, <2>1, <2>2, <1>6, <1>71
  <1>11. LabelsLaid(x, n, l, u)
    BY <1>9, <1>10 DEF LabelsLaid, IsLabel, Fresh
  <1>12. \A i \in DOMAIN u : IsIns(u[i]) => TargetsOf(u[i]) \subseteq (IF b THEN {l + 2} ELSE {l + 1})
    <2>1. /\ TargetsOf(u[3]) = {} /\ TargetsOf(u[5]) = {} /\ TargetsOf(u[9]) = {}
          /\ (b => TargetsOf(u[2]) = {l + 2}) /\ (~b => TargetsOf(u[2]) = {}) /\ TargetsOf(u[7]) = {}
      BY <1>5, TargetFacts
    <2>2. /\ (IsIns(u[1]) => TargetsOf(u[1]) = {}) /\ (IsIns(u[6]) => TargetsOf(u[6]) = {})
          /\ (IsIns(u[8]) => ~b /\ TargetsOf(u[8]) = {l + 1})
      BY <1>5, <1>71, TargetFacts DEF Optional
    <2> QED BY <2>1, <2>2, <1>71, <1>72
  <1>13. \A i \in DOMAIN u : u[i].w = "jumps" => u[i].yes = l + 1 /\ u[i].no = l + 4
    BY <1>72, <1>6, <1>7, <1>70
  <1>14. JumpsLaid(x, n, l, stack, u)
    BY <1>9, <1>12, <1>13 DEF JumpsLaid
  <1>15. TextGood(x, n, l, stack, u)
    BY <1>8, <1>11, <1>14 DEF TextGood
  <1> QED BY <1>15 DEF u

(***************************************************************************)
(* Every item becomes a text that lays out its children, its labels and    *)
(* its jumps as it should.                                                 *)
(***************************************************************************)
LEMMA ItemGood ==
    ASSUME source \in DOMAIN Programs, NEW n \in Nodes, NEW l \in Nat, NEW x \in Work, ItemOf(x, n), NEW stack \in Stacks,
           Kind(n) \in {"break", "continue"} => stack # <<>>
    PROVE  TextGood(x, n, l, stack, ItemText(x, l, stack))
  <1>1. Kind(n) \in StatementKinds \cup ConditionKinds /\ x.tree = n
    BY KidRoles DEF ItemOf
  <1>2. CASE x.w = "case"
    <2>1. Kind(n) = "case" /\ x.label \in Nat
      BY <1>2 DEF ItemOf, Work, Code
    <2> QED BY <1>1, <1>2, <2>1, CaseGood DEF ItemText
  <1>3. CASE x.w = "jumps"
    <2>1. Kind(n) \in ConditionKinds /\ x.yes \in Int /\ x.no \in Int
      BY <1>3 DEF ItemOf, Work, Code
    <2>2. ItemText(x, l, stack) = BoolText(n, x.yes, x.no, l)
      BY <1>1, <1>3 DEF ItemText
    <2> QED BY <1>3, <2>1, <2>2, TestGood, NotGood, AndOrGood DEF ConditionKinds
  <1>4. CASE x.w = "tree"
    <2>1. ItemText(x, l, stack) = TreeText(n, l, stack)
      BY <1>1, <1>4 DEF ItemText
    <2>2. Kind(n) \in {"do", "break", "continue", "return", "goto", "block", "if", "while", "for", "switch", "label"}
      BY <1>1, <1>4 DEF ItemOf, StatementKinds
    <2>3. CASE Kind(n) \in {"do", "break", "continue", "return", "goto"}
      BY <1>4, <2>1, <2>3, LeafGood
    <2>4. CASE Kind(n) = "block"
      BY <1>4, <2>1, <2>4, BlockGood DEF TreeText
    <2>5. CASE Kind(n) = "if"
      BY <1>4, <2>1, <2>5, IfGood DEF TreeText
    <2>6. CASE Kind(n) = "while"
      BY <1>4, <2>1, <2>6, WhileGood DEF TreeText
    <2>7. CASE Kind(n) = "for"
      BY <1>4, <2>1, <2>7, ForGood DEF TreeText
    <2>8. CASE Kind(n) = "switch"
      BY <1>4, <2>1, <2>8, SwitchGood DEF TreeText
    <2>9. CASE Kind(n) = "label"
      BY <1>4, <2>1, <2>9, LabeledGood DEF TreeText
    <2> QED BY <2>2, <2>3, <2>4, <2>5, <2>6, <2>7, <2>8, <2>9
  <1> QED BY <1>2, <1>3, <1>4 DEF ItemOf

-----------------------------------------------------------------------------
(***************************************************************************)
(* A step.                                                                 *)
(***************************************************************************)
(***************************************************************************)
(* The text X2 after the item at h of the text X became the text u.        *)
(***************************************************************************)
Replaced(X, h, u, X2) ==
    /\ X2 \in Seq(Work) /\ Len(X2) = Len(X) + Len(u) - 1
    /\ \A p \in 1 .. (h - 1) : X2[p] = X[p]
    /\ \A i \in 1 .. Len(u) : X2[h + i - 1] = u[i]
    /\ \A p \in (h + 1) .. Len(X) : X2[p + Len(u) - 1] = X[p]

(***************************************************************************)
(* The item at h can become its text.                                      *)
(***************************************************************************)
CanExpand(X, h, b) ==
    /\ h <= Len(X) /\ ~IsIns(X[h])
    /\ Kind(X[h].tree) \in {"break", "continue"} => b # <<>>
    /\ Kind(X[h].tree) = "continue" => b[1].continue # NoContinue

(***************************************************************************)
(* The item at the head of the work is that of a waiting node.             *)
(***************************************************************************)
LEMMA AtHead ==
    ASSUME source \in DOMAIN Programs, NEW g, NEW X, NEW h, NEW b, NEW l, Describes(g, X, h, b, l), h <= Len(X), ~IsIns(X[h])
    PROVE  LET n == X[h].tree IN
           /\ n \in g.wait /\ AtOf(g, n) = h /\ g.from[n] = X[h] /\ g.stk[n] = b /\ h <= Len(X) - 2
           /\ g.st[h] = b /\ g.st[h + 1] = b
           /\ \A m \in g.wait : m # n => AtOf(g, m) > h
  <1> DEFINE n == X[h].tree
  <1>1. X \in Seq(Work) /\ h \in Nat /\ h >= 1 /\ Len(X) \in Nat
    BY DEF Describes, TextType
  <1>2. h <= Len(X) - 2
    <2>1. IsIns(X[Len(X) - 1]) /\ IsIns(X[Len(X)])
      BY DEF Describes, Root, IsIns, Label, Ins
    <2> QED BY <1>1, <2>1
  <1>3. \A m \in g.done : \A i \in DOMAIN TextOf(g, m) : IsIns(TextOf(g, m)[i]) => X[g.pos[m][i]] = TextOf(g, m)[i]
    BY DEF Describes, Laid, LaidItem
  <1>4. PICK m \in g.wait : AtOf(g, m) = h
    <2>1. h \in 1 .. (Len(X) - 2)
      BY <1>1, <1>2
    <2> QED BY <2>1, <1>3 DEF Describes, Owned
  <1>5. \A w \in g.wait : X[AtOf(g, w)] = g.from[w] /\ g.from[w].tree = w /\ AtOf(g, w) >= h
    BY DEF Describes, Waiting, Items, ItemOf, Placed
  <1>6. m = n
    BY <1>4, <1>5
  <1>7. \A w \in g.wait : w # n => AtOf(g, w) # h
    BY <1>5
  <1>8. \A w \in g.wait : AtOf(g, w) \in Nat
    BY DEF Describes, AccountType, AtOf
  <1>9. b = g.st[h] /\ g.st[h] = g.stk[n] /\ g.st[h + 1] = g.stk[n]
    BY <1>4, <1>6 DEF Describes, Stacked
  <1> QED BY <1>1, <1>2, <1>4, <1>5, <1>6, <1>7, <1>8, <1>9

(***************************************************************************)
(* The text of a node that was expanded.                                   *)
(***************************************************************************)
LEMMA DoneGood ==
    ASSUME source \in DOMAIN Programs, NEW g, NEW X, NEW h, NEW b, NEW l, Describes(g, X, h, b, l), NEW m \in g.done
    PROVE  /\ m \in Nodes /\ g.from[m] \in Work /\ g.base[m] \in Nat /\ g.stk[m] \in Stacks /\ ItemOf(g.from[m], m)
           /\ TextGood(g.from[m], m, g.base[m], g.stk[m], TextOf(g, m))
           /\ TextOf(g, m) \in Seq(Work) /\ Len(TextOf(g, m)) \in Nat /\ DOMAIN TextOf(g, m) = 1 .. Len(TextOf(g, m))
  <1>1. m \in Nodes
    BY DEF Describes, AccountType
  <1>2. g.from[m] \in Work /\ g.base[m] \in Nat /\ g.stk[m] \in Stacks
    BY <1>1 DEF Describes, AccountType
  <1>3. ItemOf(g.from[m], m) /\ (Kind(m) \in {"break", "continue"} => g.stk[m] # <<>>)
    BY DEF Describes, Items, Placed, JumpsOk
  <1>4. TextGood(g.from[m], m, g.base[m], g.stk[m], TextOf(g, m))
    BY <1>1, <1>2, <1>3, ItemGood DEF TextOf
  <1>5. TextOf(g, m) \in Seq(Work)
    BY <1>4 DEF TextGood, KidsLaid
  <1> QED BY <1>1, <1>2, <1>3, <1>4, <1>5

(***************************************************************************)
(* A node takes a number of labels.                                        *)
(***************************************************************************)
LEMMA FreshNat == ASSUME source \in DOMAIN Programs, NEW n \in Nodes PROVE Fresh(n) \in Nat
  BY KidFacts DEF Fresh

(***************************************************************************)
(* The nodes that a text brings in.                                        *)
(***************************************************************************)
LEMMA MadeFacts ==
    ASSUME source \in DOMAIN Programs, NEW n \in Nodes, NEW u, KidsLaid(n, u)
    PROVE  /\ \A c \in MadeBy(u) : /\ c \in Nodes /\ Up(c) = n /\ n < c /\ c # 1 /\ c # n
                                   /\ Where(u, c) \in 1 .. Len(u) /\ ~IsIns(u[Where(u, c)]) /\ u[Where(u, c)].tree = c
                                   /\ ItemOf(u[Where(u, c)], c) /\ ~NeverEntered(c)
                                   /\ \E j \in DOMAIN Kids(n) : Kids(n)[j] = c
           /\ \A i \in 1 .. Len(u) : ~IsIns(u[i]) => u[i].tree \in MadeBy(u) /\ Where(u, u[i].tree) = i
           /\ \A j \in DOMAIN Kids(n) : NeverEntered(Kids(n)[j]) \/ Kind(Kids(n)[j]) = "const" \/ Kids(n)[j] \in MadeBy(u)
  <1>1. u \in Seq(Work) /\ DOMAIN u = 1 .. Len(u) /\ Len(u) \in Nat
    BY DEF KidsLaid
  <1>2. ASSUME NEW i \in 1 .. Len(u), ~IsIns(u[i]) PROVE u[i].tree \in MadeBy(u) /\ Where(u, u[i].tree) = i
    <2>1. u[i].tree \in MadeBy(u)
      BY <1>1, <1>2 DEF MadeBy
    <2>2. \A j \in DOMAIN u : ~IsIns(u[j]) /\ u[j].tree = u[i].tree => j = i
      BY <1>1, <1>2 DEF KidsLaid
    <2> QED BY <1>1, <1>2, <2>1, <2>2 DEF Where
  <1>3. ASSUME NEW c \in MadeBy(u)
        PROVE  /\ c \in Nodes /\ Up(c) = n /\ n < c /\ c # 1 /\ c # n
               /\ Where(u, c) \in 1 .. Len(u) /\ ~IsIns(u[Where(u, c)]) /\ u[Where(u, c)].tree = c
               /\ ItemOf(u[Where(u, c)], c) /\ ~NeverEntered(c)
               /\ \E j \in DOMAIN Kids(n) : Kids(n)[j] = c
    <2>1. PICK i \in DOMAIN u : ~IsIns(u[i]) /\ u[i].tree = c
      BY <1>3 DEF MadeBy
    <2>2. Where(u, c) = i
      BY <2>1, <1>1, <1>2
    <2>3. PICK j \in DOMAIN Kids(n) : c = Kids(n)[j]
      BY <2>1 DEF KidsLaid
    <2>4. c \in Nodes /\ Up(c) = n /\ n < c
      BY <2>3, KidFacts
    <2>5. n \in Nat /\ n >= 1 /\ c \in Nat
      BY <2>4, NodeFacts
    <2>6. ItemOf(u[i], c) /\ ~NeverEntered(c)
      BY <2>1 DEF KidsLaid
    <2> QED BY <1>1, <2>1, <2>2, <2>3, <2>4, <2>5, <2>6
  <1>4. \A j \in DOMAIN Kids(n) : NeverEntered(Kids(n)[j]) \/ Kind(Kids(n)[j]) = "const" \/ Kids(n)[j] \in MadeBy(u)
    <2>1. \A j \in DOMAIN Kids(n) : \/ NeverEntered(Kids(n)[j]) \/ Kind(Kids(n)[j]) = "const"
                                    \/ \E i \in DOMAIN u : ~IsIns(u[i]) /\ u[i].tree = Kids(n)[j]
      BY DEF KidsLaid
    <2> QED BY <2>1, <1>1, <1>2
  <1> QED BY <1>2, <1>3, <1>4

(***************************************************************************)
(* A step of the emission: the item at h becomes the text u.               *)
(***************************************************************************)
Step(g, X, h, b, l, u, X2) ==
    Describes(g, X, h, b, l) /\ CanExpand(X, h, b) /\ u = ItemText(X[h], l, b) /\ Replaced(X, h, u, X2)

(***************************************************************************)
(* The account after an item became a text: what is new, and what is only  *)
(* shifted.                                                                *)
(***************************************************************************)
LEMMA ExpandedFacts ==
    ASSUME source \in DOMAIN Programs, NEW g, NEW X, NEW h, NEW b, NEW l, NEW u, NEW X2, Step(g, X, h, b, l, u, X2)
    PROVE  LET n == X[h].tree
               k == Len(u)
               made == MadeBy(u)
               inside == Within(n, l, b)
               g2 == Expanded(g, n, u, h, b, l)
           IN
           /\ n \in Nodes /\ TextGood(X[h], n, l, b, u) /\ b \in Stacks /\ inside \in Stacks /\ l \in Nat
           /\ \A c \in made : c \notin Placed(g) /\ Up(c) = n /\ c # 1 /\ c # n /\ c \in Nodes
           /\ g2.done = g.done \cup {n} /\ g2.wait = (g.wait \ {n}) \cup made /\ Placed(g2) = Placed(g) \cup made
           /\ \A m \in Nodes \ made : g2.from[m] = g.from[m] /\ g2.stk[m] = g.stk[m]
           /\ \A c \in made : g2.from[c] = u[Where(u, c)] /\ g2.stk[c] = inside
           /\ \A m \in Nodes \ {n} : g2.base[m] = g.base[m]
           /\ g2.base[n] = l
           /\ \A i \in Nat : g2.pos[n][i] = h + i - 1
           /\ \A c \in made : \A i \in Nat : g2.pos[c][i] = h + Where(u, c) - 1
           /\ \A m \in Nodes \ made : m # n => \A i \in Nat : g2.pos[m][i] = Shift(g.pos[m][i], h, k)
           /\ \A p \in Nat : g2.st[p] = IF p < h + k THEN inside ELSE g.st[p - k + 1]
           /\ \A m \in g.done : TextOf(g2, m) = TextOf(g, m) /\ Inside(g2, m) = Inside(g, m) /\ m # n /\ m \in Nodes \ made
           /\ TextOf(g2, n) = u /\ Inside(g2, n) = inside
  <1> DEFINE n == X[h].tree
             k == Len(u)
             made == MadeBy(u)
             inside == Within(n, l, b)
             g2 == Expanded(g, n, u, h, b, l)
  <1> USE DEF Step
  <1>1. /\ n \in g.wait /\ n \in Nodes /\ n \notin g.done /\ g.from[n] = X[h] /\ g.stk[n] = b /\ X[h] \in Work
        /\ ItemOf(X[h], n) /\ b \in Stacks /\ l \in Nat /\ h \in Nat
    <2>1. n \in g.wait /\ g.from[n] = X[h] /\ g.stk[n] = b
      BY AtHead DEF CanExpand
    <2>2. n \in Nodes /\ n \notin g.done
      BY <2>1 DEF Describes, AccountType
    <2>3. g.from[n] \in Work /\ g.stk[n] \in Stacks
      BY <2>2 DEF Describes, AccountType
    <2>4. ItemOf(g.from[n], n)
      BY <2>1 DEF Describes, Items, Placed
    <2>5. l \in Nat /\ h \in Nat
      BY DEF Describes, Intervals, TextType
    <2> QED BY <2>1, <2>2, <2>3, <2>4, <2>5
  <1>2. TextGood(X[h], n, l, b, u)
    BY <1>1, ItemGood DEF CanExpand
  <1>3. inside \in Stacks
    <2>1. Pair(n, l) \in [break : Int, continue : Int]
      BY <1>1 DEF Pair, Targets, NoContinue
    <2>2. <<Pair(n, l)>> \o b \in Stacks
      BY <2>1, <1>1 DEF Stacks
    <2> QED BY <2>2, <1>1 DEF Within
  <1>4. \A c \in made : c \in Nodes /\ Up(c) = n /\ c # 1 /\ c # n
    BY <1>1, <1>2, MadeFacts DEF TextGood
  <1>5. \A c \in made : c \notin Placed(g)
    BY <1>1, <1>4 DEF Describes, Inherits
  <1>6. g.done \subseteq Nodes /\ g.wait \subseteq Nodes
    BY DEF Describes, AccountType
  <1> HIDE DEF inside, made
  <1>7. /\ g2.done = g.done \cup {n} /\ g2.wait = (g.wait \ {n}) \cup made
        /\ g2.from = [m \in Nodes |-> IF m \in made THEN u[Where(u, m)] ELSE g.from[m]]
        /\ g2.base = [m \in Nodes |-> IF m = n THEN l ELSE g.base[m]]
        /\ g2.stk = [m \in Nodes |-> IF m \in made THEN inside ELSE g.stk[m]]
        /\ g2.pos = [m \in Nodes |-> [i \in Nat |-> IF m = n THEN h + i - 1 ELSE IF m \in made THEN h + Where(u, m) - 1
                                            ELSE Shift(g.pos[m][i], h, Len(u))]]
        /\ g2.st = [p \in Nat |-> IF p < h + Len(u) THEN inside ELSE g.st[p - Len(u) + 1]]
    BY DEF Expanded, inside, made
  <1> HIDE DEF g2
  <1>8. Placed(g2) = Placed(g) \cup made
    BY <1>1, <1>7 DEF Placed
  <1>9. /\ \A m \in Nodes \ made : g2.from[m] = g.from[m] /\ g2.stk[m] = g.stk[m]
        /\ \A c \in made : g2.from[c] = u[Where(u, c)] /\ g2.stk[c] = inside
    BY <1>7, <1>4
  <1>10. (\A m \in Nodes \ {n} : g2.base[m] = g.base[m]) /\ g2.base[n] = l
    BY <1>1, <1>7
  <1>11. /\ \A i \in Nat : g2.pos[n][i] = h + i - 1
         /\ \A c \in made : \A i \in Nat : g2.pos[c][i] = h + Where(u, c) - 1
         /\ \A m \in Nodes \ made : m # n => \A i \in Nat : g2.pos[m][i] = Shift(g.pos[m][i], h, k)
    BY <1>1, <1>4, <1>7
  <1>12. \A p \in Nat : g2.st[p] = IF p < h + k THEN inside ELSE g.st[p - k + 1]
    BY <1>7
  <1>13. \A m \in g.done : TextOf(g2, m) = TextOf(g, m) /\ Inside(g2, m) = Inside(g, m) /\ m # n /\ m \in Nodes \ made
    <2> SUFFICES ASSUME NEW m \in g.done PROVE TextOf(g2, m) = TextOf(g, m) /\ Inside(g2, m) = Inside(g, m) /\ m # n /\ m \in Nodes \ made
      OBVIOUS
    <2>1. m # n /\ m \in Nodes \ made
      BY <1>1, <1>5, <1>6 DEF Placed
    <2>2. g2.from[m] = g.from[m] /\ g2.stk[m] = g.stk[m] /\ g2.base[m] = g.base[m]
      BY <2>1, <1>9, <1>10
    <2> QED BY <2>1, <2>2 DEF TextOf, Inside
  <1>14. TextOf(g2, n) = u /\ Inside(g2, n) = inside
    <2>1. n \notin made
      BY <1>4
    <2>2. g2.from[n] = X[h] /\ g2.stk[n] = b /\ g2.base[n] = l
      BY <2>1, <1>1, <1>9, <1>10
    <2> QED BY <2>2 DEF TextOf, Inside, inside
  <1>15. /\ n \in Nodes /\ TextGood(X[h], n, l, b, u) /\ b \in Stacks /\ inside \in Stacks /\ l \in Nat
         /\ \A c \in made : c \notin Placed(g) /\ Up(c) = n /\ c # 1 /\ c # n /\ c \in Nodes
         /\ g2.done = g.done \cup {n} /\ g2.wait = (g.wait \ {n}) \cup made /\ Placed(g2) = Placed(g) \cup made
         /\ \A m \in Nodes \ made : g2.from[m] = g.from[m] /\ g2.stk[m] = g.stk[m]
         /\ \A c \in made : g2.from[c] = u[Where(u, c)] /\ g2.stk[c] = inside
         /\ \A m \in Nodes \ {n} : g2.base[m] = g.base[m]
         /\ g2.base[n] = l
         /\ \A i \in Nat : g2.pos[n][i] = h + i - 1
         /\ \A c \in made : \A i \in Nat : g2.pos[c][i] = h + Where(u, c) - 1
         /\ \A m \in Nodes \ made : m # n => \A i \in Nat : g2.pos[m][i] = Shift(g.pos[m][i], h, k)
         /\ \A p \in Nat : g2.st[p] = IF p < h + k THEN inside ELSE g.st[p - k + 1]
         /\ \A m \in g.done : TextOf(g2, m) = TextOf(g, m) /\ Inside(g2, m) = Inside(g, m) /\ m # n /\ m \in Nodes \ made
         /\ TextOf(g2, n) = u /\ Inside(g2, n) = inside
    BY <1>1, <1>2, <1>3, <1>4, <1>5, <1>7, <1>8, <1>9, <1>10, <1>11, <1>12, <1>13, <1>14
  <1> QED BY <1>15 DEF g2, inside, made

(***************************************************************************)
(* What is placed after h moves; the text itself stays.                    *)
(***************************************************************************)
LEMMA ShiftFacts ==
    ASSUME source \in DOMAIN Programs, NEW g, NEW X, NEW h, NEW b, NEW l, NEW u, NEW X2, Step(g, X, h, b, l, u, X2)
    PROVE  /\ X \in Seq(Work) /\ X2 \in Seq(Work) /\ u \in Seq(Work) /\ Len(X) \in Nat /\ Len(u) \in Nat
           /\ Len(X2) = Len(X) + Len(u) - 1 /\ h \in Nat /\ h >= 1 /\ h <= Len(X) - 2
           /\ \A p \in 1 .. Len(X) : p # h => /\ X2[Shift(p, h, Len(u))] = X[p]
                                              /\ Shift(p, h, Len(u)) \in 1 .. Len(X2)
                                              /\ Shift(p + 1, h, Len(u)) = Shift(p, h, Len(u)) + 1
                                              /\ (p <= Len(X) - 2 => Shift(p, h, Len(u)) <= Len(X2) - 2)
           /\ \A p \in Nat : p >= 1 => Shift(p, h, Len(u)) \in Nat /\ Shift(p, h, Len(u)) >= 1
           /\ \A p \in Nat : Shift(p, h, Len(u)) \in Nat
  <1> DEFINE k == Len(u)
  <1>1. /\ X \in Seq(Work) /\ X2 \in Seq(Work) /\ u \in Seq(Work) /\ Len(X) \in Nat /\ k \in Nat
        /\ Len(X2) = Len(X) + k - 1 /\ h \in Nat /\ h >= 1 /\ h <= Len(X) - 2
    <2>1. X \in Seq(Work) /\ h \in Nat /\ h >= 1
      BY DEF Step, Describes, TextType
    <2>2. X2 \in Seq(Work) /\ Len(X2) = Len(X) + k - 1
      BY DEF Step, Replaced
    <2>3. u \in Seq(Work)
      BY ExpandedFacts DEF TextGood, KidsLaid
    <2>4. h <= Len(X) - 2
      BY AtHead DEF Step, CanExpand
    <2> QED BY <2>1, <2>2, <2>3, <2>4
  <1>2. /\ \A p \in 1 .. (h - 1) : X2[p] = X[p]
        /\ \A p \in (h + 1) .. Len(X) : X2[p + k - 1] = X[p]
    BY DEF Step, Replaced
  <1> HIDE DEF k
  <1>3. ASSUME NEW p \in 1 .. Len(X), p # h
        PROVE  /\ X2[Shift(p, h, k)] = X[p]
               /\ Shift(p, h, k) \in 1 .. Len(X2)
               /\ Shift(p + 1, h, k) = Shift(p, h, k) + 1
               /\ (p <= Len(X) - 2 => Shift(p, h, k) <= Len(X2) - 2)
    <2>1. CASE p < h
      <3>1. p \in 1 .. (h - 1) /\ Shift(p, h, k) = p /\ Shift(p + 1, h, k) = p + 1
        BY <2>1, <1>1 DEF Shift
      <3> QED BY <3>1, <1>1, <1>2
    <2>2. CASE p > h
      <3>1. p \in (h + 1) .. Len(X) /\ Shift(p, h, k) = p + k - 1 /\ Shift(p + 1, h, k) = p + k
        BY <2>2, <1>1 DEF Shift
      <3> QED BY <3>1, <1>1, <1>2
    <2> QED BY <2>1, <2>2, <1>3, <1>1
  <1>4. \A p \in Nat : p >= 1 => Shift(p, h, k) \in Nat /\ Shift(p, h, k) >= 1
    BY <1>1 DEF Shift
  <1>5. \A p \in Nat : Shift(p, h, k) \in Nat
    BY <1>1 DEF Shift
  <1> QED BY <1>1, <1>3, <1>4, <1>5 DEF k

(***************************************************************************)
(* Where the nodes begin and end afterwards.                               *)
(***************************************************************************)
LEMMA SpanFacts ==
    ASSUME source \in DOMAIN Programs, NEW g, NEW X, NEW h, NEW b, NEW l, NEW u, NEW X2, Step(g, X, h, b, l, u, X2)
    PROVE  LET n == X[h].tree
               g2 == Expanded(g, n, u, h, b, l)
           IN
           /\ AtOf(g2, n) = h /\ ToOf(g2, n) = h + Len(u)
           /\ \A c \in MadeBy(u) : AtOf(g2, c) = h + Where(u, c) - 1 /\ ToOf(g2, c) = h + Where(u, c)
           /\ \A m \in Placed(g) : /\ AtOf(g2, m) = Shift(AtOf(g, m), h, Len(u))
                                   /\ ToOf(g2, m) = Shift(ToOf(g, m), h, Len(u))
           /\ \A m \in g.done : \A i \in Nat : g2.pos[m][i] = Shift(g.pos[m][i], h, Len(u))
  <1> DEFINE n == X[h].tree
             k == Len(u)
             made == MadeBy(u)
             g2 == Expanded(g, n, u, h, b, l)
  <1>1. k \in Nat /\ h \in Nat /\ h >= 1
    BY ShiftFacts
  <1>2. /\ n \in Nodes /\ g2.done = g.done \cup {n} /\ TextOf(g2, n) = u
        /\ \A i \in Nat : g2.pos[n][i] = h + i - 1
        /\ \A c \in made : \A i \in Nat : g2.pos[c][i] = h + Where(u, c) - 1
        /\ \A m \in Nodes \ made : m # n => \A i \in Nat : g2.pos[m][i] = Shift(g.pos[m][i], h, k)
        /\ \A m \in g.done : TextOf(g2, m) = TextOf(g, m) /\ m # n /\ m \in Nodes \ made
        /\ \A c \in made : c \notin Placed(g) /\ c # n
    BY ExpandedFacts
  <1>3. /\ n \in g.wait /\ AtOf(g, n) = h
        /\ \A m \in g.wait : m # n => AtOf(g, m) > h
    BY AtHead DEF Step, CanExpand
  <1>4. /\ g.done \subseteq Nodes /\ g.wait \subseteq Nodes /\ g.done \cap g.wait = {}
        /\ \A m \in Nodes : \A i \in Nat : g.pos[m][i] \in Nat
    BY DEF Step, Describes, AccountType
  <1>5. \A c \in made : Where(u, c) \in Nat
    BY ExpandedFacts, MadeFacts DEF TextGood
  <1> HIDE DEF g2, made, n, k
  <1>6. AtOf(g2, n) = h /\ ToOf(g2, n) = h + k
    <2>1. AtOf(g2, n) = h
      BY <1>1, <1>2 DEF AtOf
    <2>2. ToOf(g2, n) = g2.pos[n][k + 1]
      BY <1>2 DEF ToOf, k
    <2> QED BY <2>1, <2>2, <1>1, <1>2
  <1>7. ASSUME NEW c \in made PROVE AtOf(g2, c) = h + Where(u, c) - 1 /\ ToOf(g2, c) = h + Where(u, c)
    <2>1. c \notin g2.done
      BY <1>2, <1>7 DEF Placed
    <2> QED BY <2>1, <1>1, <1>2, <1>5 DEF AtOf, ToOf
  <1>8. \A m \in g.done : \A i \in Nat : g2.pos[m][i] = Shift(g.pos[m][i], h, k)
    BY <1>2
  <1>9. ASSUME NEW m \in g.done
        PROVE  AtOf(g2, m) = Shift(AtOf(g, m), h, k) /\ ToOf(g2, m) = Shift(ToOf(g, m), h, k)
    <2>1. Len(TextOf(g, m)) + 1 \in Nat
      <3>1. Len(TextOf(g, m)) \in Nat
        BY DoneGood DEF Step
      <3> QED BY <3>1
    <2>2. ToOf(g2, m) = g2.pos[m][Len(TextOf(g, m)) + 1] /\ ToOf(g, m) = g.pos[m][Len(TextOf(g, m)) + 1]
      BY <1>2 DEF ToOf
    <2> QED BY <2>1, <2>2, <1>8 DEF AtOf
  <1>10. ASSUME NEW m \in g.wait
         PROVE  AtOf(g2, m) = Shift(AtOf(g, m), h, k) /\ ToOf(g2, m) = Shift(ToOf(g, m), h, k)
    <2>1. CASE m = n
      <3>1. ToOf(g, n) = h + 1
        BY <1>3, <1>4 DEF ToOf, AtOf
      <3> QED BY <2>1, <3>1, <1>6, <1>3, <1>1 DEF Shift
    <2>2. CASE m # n
      <3>1. m \in Nodes \ made /\ m \notin g.done /\ m \notin g2.done
        BY <2>2, <1>2, <1>4, <1>10 DEF Placed
      <3>2. AtOf(g2, m) = Shift(AtOf(g, m), h, k)
        BY <2>2, <3>1, <1>2 DEF AtOf
      <3>3. ToOf(g2, m) = AtOf(g2, m) + 1 /\ ToOf(g, m) = AtOf(g, m) + 1
        BY <3>1 DEF ToOf, AtOf
      <3>4. AtOf(g, m) > h /\ AtOf(g, m) \in Nat
        BY <2>2, <1>3, <1>4 DEF AtOf
      <3> QED BY <3>2, <3>3, <3>4, <1>1 DEF Shift
    <2> QED BY <2>1, <2>2
  <1> QED BY <1>6, <1>7, <1>8, <1>9, <1>10 DEF Placed, k, n, g2, made

(***************************************************************************)
(* The whole function stays in front of the end label and the return.      *)
(***************************************************************************)
LEMMA StepRoot ==
    ASSUME source \in DOMAIN Programs, NEW g, NEW X, NEW h, NEW b, NEW l, NEW u, NEW X2, Step(g, X, h, b, l, u, X2)
    PROVE  Root(Expanded(g, X[h].tree, u, h, b, l), X2)
  <1> DEFINE n == X[h].tree
             k == Len(u)
             made == MadeBy(u)
             g2 == Expanded(g, n, u, h, b, l)
             L == Len(X)
  <1>1. /\ 1 \in Placed(g) /\ g.from[1] = Tree(1) /\ g.stk[1] = <<>>
        /\ AtOf(g, 1) = 1 /\ ToOf(g, 1) = L - 1 /\ L >= 2
        /\ X[L - 1] = Label(EndLabel) /\ X[L] = Ins("RTS", 0)
    BY DEF Step, Describes, Root
  <1>2. /\ k \in Nat /\ h \in Nat /\ h >= 1 /\ h <= L - 2 /\ L \in Nat /\ Len(X2) = L + k - 1
        /\ \A p \in 1 .. L : p # h => X2[Shift(p, h, k)] = X[p]
    BY ShiftFacts
  <1>3. /\ Placed(g2) = Placed(g) \cup made /\ 1 \notin made /\ 1 \in Nodes
        /\ \A m \in Nodes \ made : g2.from[m] = g.from[m] /\ g2.stk[m] = g.stk[m]
    <2>1. 1 \in Nodes
      BY NodeFacts
    <2> QED BY <2>1, ExpandedFacts
  <1>4. AtOf(g2, 1) = Shift(1, h, k) /\ ToOf(g2, 1) = Shift(L - 1, h, k)
    BY <1>1, SpanFacts
  <1>5. Shift(1, h, k) = 1 /\ Shift(L - 1, h, k) = Len(X2) - 1 /\ Shift(L, h, k) = Len(X2)
    BY <1>2 DEF Shift
  <1>6. X2[Len(X2) - 1] = X[L - 1] /\ X2[Len(X2)] = X[L]
    <2>1. L - 1 \in 1 .. L /\ L \in 1 .. L /\ L - 1 # h /\ L # h
      BY <1>2
    <2> QED BY <2>1, <1>2, <1>5
  <1> QED BY <1>1, <1>2, <1>3, <1>4, <1>5, <1>6 DEF Root

-----------------------------------------------------------------------------
(***************************************************************************)
(* One step of emission, with names for what it involves: node n at the    *)
(* head, and the account g2 afterwards.                                    *)
(***************************************************************************)
StepTo(g, X, h, b, l, u, X2, n, g2) ==
    Step(g, X, h, b, l, u, X2) /\ n = X[h].tree /\ g2 = Expanded(g, n, u, h, b, l)

(***************************************************************************)
(* The sets of nodes after the step.                                       *)
(***************************************************************************)
LEMMA MovedSets ==
    ASSUME source \in DOMAIN Programs, NEW g, NEW X, NEW h, NEW b, NEW l, NEW u, NEW X2, NEW n, NEW g2,
           StepTo(g, X, h, b, l, u, X2, n, g2)
    PROVE  /\ n \in Nodes /\ n \in g.wait /\ TextGood(X[h], n, l, b, u) /\ b \in Stacks /\ Within(n, l, b) \in Stacks /\ l \in Nat
           /\ g.done \subseteq Nodes /\ g.wait \subseteq Nodes /\ g.done \cap g.wait = {}
           /\ \A c \in MadeBy(u) : c \notin Placed(g) /\ Up(c) = n /\ c # 1 /\ c # n /\ c \in Nodes /\ Where(u, c) \in 1 .. Len(u)
           /\ g2.done = g.done \cup {n} /\ g2.wait = (g.wait \ {n}) \cup MadeBy(u) /\ Placed(g2) = Placed(g) \cup MadeBy(u)
  <1>1. /\ n \in Nodes /\ TextGood(X[h], n, l, b, u) /\ b \in Stacks /\ Within(n, l, b) \in Stacks /\ l \in Nat
        /\ \A c \in MadeBy(u) : c \notin Placed(g) /\ Up(c) = n /\ c # 1 /\ c # n /\ c \in Nodes
        /\ g2.done = g.done \cup {n} /\ g2.wait = (g.wait \ {n}) \cup MadeBy(u) /\ Placed(g2) = Placed(g) \cup MadeBy(u)
    BY ExpandedFacts DEF StepTo
  <1>2. n \in g.wait
    BY AtHead DEF StepTo, Step, CanExpand
  <1>3. g.done \subseteq Nodes /\ g.wait \subseteq Nodes /\ g.done \cap g.wait = {}
    BY DEF StepTo, Step, Describes, AccountType
  <1>4. \A c \in MadeBy(u) : Where(u, c) \in 1 .. Len(u)
    BY <1>1, MadeFacts DEF TextGood
  <1> QED BY <1>1, <1>2, <1>3, <1>4

(***************************************************************************)
(* The items, labels and stacks of the nodes after the step.               *)
(***************************************************************************)
LEMMA MovedMaps ==
    ASSUME source \in DOMAIN Programs, NEW g, NEW X, NEW h, NEW b, NEW l, NEW u, NEW X2, NEW n, NEW g2,
           StepTo(g, X, h, b, l, u, X2, n, g2)
    PROVE  /\ \A m \in Nodes \ MadeBy(u) : g2.from[m] = g.from[m] /\ g2.stk[m] = g.stk[m]
           /\ \A c \in MadeBy(u) : g2.from[c] = u[Where(u, c)] /\ g2.stk[c] = Within(n, l, b)
           /\ \A m \in Nodes \ {n} : g2.base[m] = g.base[m]
           /\ g2.base[n] = l
           /\ \A p \in Nat : g2.st[p] = IF p < h + Len(u) THEN Within(n, l, b) ELSE g.st[p - Len(u) + 1]
           /\ \A m \in g.done : TextOf(g2, m) = TextOf(g, m) /\ Inside(g2, m) = Inside(g, m) /\ m # n /\ m \in Nodes \ MadeBy(u)
           /\ TextOf(g2, n) = u /\ Inside(g2, n) = Within(n, l, b)
  BY ExpandedFacts DEF StepTo

(***************************************************************************)
(* The places of the new text.                                             *)
(***************************************************************************)
LEMMA MovedNew ==
    ASSUME source \in DOMAIN Programs, NEW g, NEW X, NEW h, NEW b, NEW l, NEW u, NEW X2, NEW n, NEW g2,
           StepTo(g, X, h, b, l, u, X2, n, g2)
    PROVE  \A i \in Nat : g2.pos[n][i] = h + i - 1
  <1>1. n \in Nodes
    BY MovedSets
  <1> QED BY <1>1 DEF StepTo, Expanded

(***************************************************************************)
(* The places of the nodes after the step.                                 *)
(***************************************************************************)
LEMMA MovedPlaces ==
    ASSUME source \in DOMAIN Programs, NEW g, NEW X, NEW h, NEW b, NEW l, NEW u, NEW X2, NEW n, NEW g2,
           StepTo(g, X, h, b, l, u, X2, n, g2)
    PROVE  /\ \A i \in Nat : g2.pos[n][i] = h + i - 1
           /\ \A c \in MadeBy(u) : \A i \in Nat : g2.pos[c][i] = h + Where(u, c) - 1
           /\ \A m \in Nodes \ MadeBy(u) : m # n => \A i \in Nat : g2.pos[m][i] = Shift(g.pos[m][i], h, Len(u))
           /\ AtOf(g2, n) = h /\ ToOf(g2, n) = h + Len(u)
           /\ \A c \in MadeBy(u) : AtOf(g2, c) = h + Where(u, c) - 1 /\ ToOf(g2, c) = h + Where(u, c)
           /\ \A m \in Placed(g) : /\ AtOf(g2, m) = Shift(AtOf(g, m), h, Len(u))
                                   /\ ToOf(g2, m) = Shift(ToOf(g, m), h, Len(u))
           /\ \A m \in g.done : \A i \in Nat : g2.pos[m][i] = Shift(g.pos[m][i], h, Len(u))
  <1>1. /\ \A i \in Nat : g2.pos[n][i] = h + i - 1
        /\ \A c \in MadeBy(u) : \A i \in Nat : g2.pos[c][i] = h + Where(u, c) - 1
        /\ \A m \in Nodes \ MadeBy(u) : m # n => \A i \in Nat : g2.pos[m][i] = Shift(g.pos[m][i], h, Len(u))
    BY ExpandedFacts DEF StepTo
  <1>2. /\ AtOf(g2, n) = h /\ ToOf(g2, n) = h + Len(u)
        /\ \A c \in MadeBy(u) : AtOf(g2, c) = h + Where(u, c) - 1 /\ ToOf(g2, c) = h + Where(u, c)
        /\ \A m \in Placed(g) : /\ AtOf(g2, m) = Shift(AtOf(g, m), h, Len(u))
                                /\ ToOf(g2, m) = Shift(ToOf(g, m), h, Len(u))
        /\ \A m \in g.done : \A i \in Nat : g2.pos[m][i] = Shift(g.pos[m][i], h, Len(u))
    BY SpanFacts DEF StepTo
  <1> QED BY <1>1, <1>2

(***************************************************************************)
(* The text after the step.                                                *)
(***************************************************************************)
LEMMA MovedText ==
    ASSUME source \in DOMAIN Programs, NEW g, NEW X, NEW h, NEW b, NEW l, NEW u, NEW X2, NEW n, NEW g2,
           StepTo(g, X, h, b, l, u, X2, n, g2)
    PROVE  /\ X \in Seq(Work) /\ X2 \in Seq(Work) /\ u \in Seq(Work) /\ Len(X) \in Nat /\ Len(u) \in Nat
           /\ Len(X2) = Len(X) + Len(u) - 1 /\ h \in Nat /\ h >= 1 /\ h <= Len(X) - 2
           /\ \A i \in 1 .. Len(u) : X2[h + i - 1] = u[i]
           /\ \A p \in 1 .. (h - 1) : X2[p] = X[p] /\ IsIns(X[p])
  <1>1. /\ X \in Seq(Work) /\ X2 \in Seq(Work) /\ u \in Seq(Work) /\ Len(X) \in Nat /\ Len(u) \in Nat
        /\ Len(X2) = Len(X) + Len(u) - 1 /\ h \in Nat /\ h >= 1 /\ h <= Len(X) - 2
    BY ShiftFacts DEF StepTo
  <1>2. /\ \A i \in 1 .. Len(u) : X2[h + i - 1] = u[i]
        /\ \A p \in 1 .. (h - 1) : X2[p] = X[p]
    BY DEF StepTo, Step, Replaced
  <1>3. \A p \in 1 .. (h - 1) : IsIns(X[p])
    BY DEF StepTo, Step, Describes, TextType
  <1> QED BY <1>1, <1>2, <1>3

(***************************************************************************)
(* Shifted places keep their order and stay in the text.                   *)
(***************************************************************************)
LEMMA MovedShift ==
    ASSUME source \in DOMAIN Programs, NEW g, NEW X, NEW h, NEW b, NEW l, NEW u, NEW X2, NEW n, NEW g2,
           StepTo(g, X, h, b, l, u, X2, n, g2)
    PROVE  /\ \A p \in 1 .. Len(X) : p # h => /\ X2[Shift(p, h, Len(u))] = X[p]
                                              /\ Shift(p, h, Len(u)) \in 1 .. Len(X2)
                                              /\ Shift(p + 1, h, Len(u)) = Shift(p, h, Len(u)) + 1
                                              /\ (p <= Len(X) - 2 => Shift(p, h, Len(u)) <= Len(X2) - 2)
           /\ \A p \in Nat : p >= 1 => Shift(p, h, Len(u)) \in Nat /\ Shift(p, h, Len(u)) >= 1
           /\ \A p \in Nat : Shift(p, h, Len(u)) \in Nat
  BY ShiftFacts DEF StepTo

(***************************************************************************)
(* The account keeps its type, and labels are taken by one node.           *)
(***************************************************************************)
LEMMA StepTypes ==
    ASSUME source \in DOMAIN Programs, NEW g, NEW X, NEW h, NEW b, NEW l, NEW u, NEW X2, NEW n, NEW g2,
           StepTo(g, X, h, b, l, u, X2, n, g2)
    PROVE  AccountType(g2) /\ TextType(X2, h) /\ Intervals(g2, l + Fresh(n))
  <1>1. /\ g.done \subseteq Nodes /\ g.wait \subseteq Nodes /\ g.done \cap g.wait = {}
        /\ \A m \in Nodes : g.from[m] \in Work /\ g.base[m] \in Nat /\ g.stk[m] \in Stacks
        /\ \A m \in Nodes : \A i \in Nat : g.pos[m][i] \in Nat
        /\ \A p \in Nat : g.st[p] \in Stacks
    BY DEF StepTo, Step, Describes, AccountType
  <1>2. AccountType(g2)
    <2>1. g2.done \subseteq Nodes /\ g2.wait \subseteq Nodes /\ g2.done \cap g2.wait = {}
      BY <1>1, MovedSets DEF Placed
    <2>2. ASSUME NEW m \in Nodes PROVE g2.from[m] \in Work /\ g2.base[m] \in Nat /\ g2.stk[m] \in Stacks
      <3>1. ASSUME m \in MadeBy(u) PROVE u[Where(u, m)] \in Work
        <4>1. Where(u, m) \in 1 .. Len(u) /\ u \in Seq(Work)
          BY <3>1, MovedSets, MovedText
        <4> QED BY <4>1
      <3>2. CASE m \in MadeBy(u)
        <4>1. g2.from[m] = u[Where(u, m)] /\ g2.stk[m] = Within(n, l, b) /\ Within(n, l, b) \in Stacks
          BY <3>2, MovedMaps, MovedSets
        <4> QED BY <4>1, <3>1, <3>2, <1>1, MovedMaps, MovedSets
      <3>3. CASE m \notin MadeBy(u)
        <4>1. g2.from[m] = g.from[m] /\ g2.stk[m] = g.stk[m]
          BY <3>3, MovedMaps
        <4> QED BY <4>1, <1>1, MovedMaps, MovedSets
      <3> QED BY <3>2, <3>3
    <2>3. ASSUME NEW m \in Nodes, NEW i \in Nat PROVE g2.pos[m][i] \in Nat
      <3>0. h \in Nat /\ h >= 1
        BY MovedText
      <3>1. CASE m = n
        <4>1. g2.pos[m][i] = h + i - 1
          BY <3>1, MovedPlaces
        <4> QED BY <4>1, <3>0
      <3>2. CASE m \in MadeBy(u)
        <4>1. g2.pos[m][i] = h + Where(u, m) - 1 /\ Where(u, m) \in 1 .. Len(u)
          BY <3>2, MovedPlaces, MovedSets
        <4> QED BY <4>1, <3>0
      <3>3. CASE m # n /\ m \notin MadeBy(u)
        <4>1. g2.pos[m][i] = Shift(g.pos[m][i], h, Len(u))
          BY <3>3, MovedPlaces
        <4>2. g.pos[m][i] \in Nat
          BY <1>1
        <4>3. Shift(g.pos[m][i], h, Len(u)) \in Nat
          BY <4>2, MovedShift
        <4> QED BY <4>1, <4>3
      <3> QED BY <3>1, <3>2, <3>3
    <2>4. ASSUME NEW p \in Nat PROVE g2.st[p] \in Stacks
      <3>1. Len(u) \in Nat /\ h \in Nat /\ Within(n, l, b) \in Stacks
        BY MovedText, MovedSets
      <3>2. p >= h + Len(u) => p - Len(u) + 1 \in Nat
        BY <3>1
      <3>3. g2.st[p] = IF p < h + Len(u) THEN Within(n, l, b) ELSE g.st[p - Len(u) + 1]
        BY MovedMaps
      <3> QED BY <3>1, <3>2, <3>3, <1>1
    <2> QED BY <2>1, <2>2, <2>3, <2>4 DEF AccountType
  <1>8. TextType(X2, h)
    <2>1. \A p \in 1 .. (h - 1) : IsIns(X2[p])
      BY MovedText
    <2>2. X2 \in Seq(Work) /\ h \in Nat /\ h >= 1 /\ h <= Len(X) - 2 /\ Len(X2) = Len(X) + Len(u) - 1 /\ Len(X) \in Nat /\ Len(u) \in Nat
      BY MovedText
    <2> QED BY <2>1, <2>2 DEF TextType
  <1>9. Intervals(g2, l + Fresh(n))
    <2>1. /\ \A m \in g.done : g.base[m] + Fresh(m) <= l
          /\ \A m, j \in g.done : m # j => g.base[m] + Fresh(m) <= g.base[j] \/ g.base[j] + Fresh(j) <= g.base[m]
      BY DEF StepTo, Step, Describes, Intervals
    <2>2. \A m \in Nodes : Fresh(m) \in Nat
      BY FreshNat
    <2>3. \A m \in g.done : m # n /\ m \in Nodes /\ g2.base[m] = g.base[m] /\ g.base[m] \in Nat
      BY <1>1, MovedSets, MovedMaps
    <2>0. g2.done = g.done \cup {n} /\ g2.base[n] = l /\ l \in Nat /\ n \in Nodes
      BY MovedSets, MovedMaps
    <2>4. \A m \in g2.done : g2.base[m] + Fresh(m) <= l + Fresh(n)
      BY <2>1, <2>2, <2>3, <2>0
    <2>5. \A m, j \in g2.done : m # j => g2.base[m] + Fresh(m) <= g2.base[j] \/ g2.base[j] + Fresh(j) <= g2.base[m]
      BY <2>1, <2>2, <2>3, <2>0
    <2> QED BY <2>2, <2>4, <2>5, <2>0 DEF Intervals
  <1> QED BY <1>2, <1>8, <1>9

-----------------------------------------------------------------------------
(***************************************************************************)
(* The parts of the account, one by one.                                   *)
(***************************************************************************)
(***************************************************************************)
(* The places of the texts that were there, and of the new one.            *)
(***************************************************************************)
LEMMA StepLaid ==
    ASSUME source \in DOMAIN Programs, NEW g, NEW X, NEW h, NEW b, NEW l, NEW u, NEW X2, NEW n, NEW g2,
           StepTo(g, X, h, b, l, u, X2, n, g2)
    PROVE  Laid(g2, X2)
  <1>0. \A p \in 1 .. Len(X) : p # h => /\ X2[Shift(p, h, Len(u))] = X[p]
                                        /\ Shift(p, h, Len(u)) \in 1 .. Len(X2)
                                        /\ Shift(p + 1, h, Len(u)) = Shift(p, h, Len(u)) + 1
                                        /\ (p <= Len(X) - 2 => Shift(p, h, Len(u)) <= Len(X2) - 2)
    BY MovedShift
  <1>1. /\ h \in Nat /\ h >= 1 /\ h <= Len(X) - 2 /\ Len(X) \in Nat /\ Len(u) \in Nat /\ Len(X2) = Len(X) + Len(u) - 1
        /\ u \in Seq(Work)
    BY MovedText
  <1>2. ASSUME NEW i \in DOMAIN TextOf(g2, n) PROVE LaidItem(g2, X2, n, i)
    <2>1. TextOf(g2, n) = u /\ i \in 1 .. Len(u) /\ i \in Nat /\ i + 1 \in Nat
      BY MovedMaps, <1>1, <1>2
    <2>2. g2.pos[n][i] = h + i - 1 /\ g2.pos[n][i + 1] = h + (i + 1) - 1
      BY <2>1, MovedPlaces
    <2>3. h + i - 1 >= 1 /\ h + i - 1 <= Len(X2) - 2 /\ h + (i + 1) - 1 = (h + i - 1) + 1
      BY <1>1, <2>1
    <2>4. X2[h + i - 1] = u[i]
      BY <2>1, MovedText
    <2>5. CASE IsIns(u[i])
      BY <2>1, <2>2, <2>3, <2>4, <2>5 DEF LaidItem
    <2>6. CASE ~IsIns(u[i])
      <3>1. u[i].tree \in MadeBy(u) /\ Where(u, u[i].tree) = i
        <4>1. n \in Nodes /\ KidsLaid(n, u)
          BY MovedSets DEF TextGood
        <4> QED BY <4>1, <2>1, <2>6, MadeFacts
      <3>2. u[i].tree \in Placed(g2) /\ g2.from[u[i].tree] = u[i] /\ g2.stk[u[i].tree] = Inside(g2, n)
        BY <3>1, MovedSets, MovedMaps
      <3>3. AtOf(g2, u[i].tree) = h + i - 1 /\ ToOf(g2, u[i].tree) = h + i
        BY <3>1, MovedPlaces
      <3> QED BY <2>1, <2>2, <2>3, <2>6, <3>2, <3>3 DEF LaidItem
    <2> QED BY <2>5, <2>6
  <1>3. ASSUME NEW m \in g.done, NEW i \in DOMAIN TextOf(g2, m) PROVE LaidItem(g2, X2, m, i)
    <2> DEFINE x == TextOf(g, m)[i]
               p == g.pos[m][i]
               q == g.pos[m][i + 1]
    <2>1. TextOf(g2, m) = TextOf(g, m) /\ Inside(g2, m) = Inside(g, m)
      BY MovedMaps
    <2>2. i \in Nat /\ i + 1 \in Nat /\ i \in DOMAIN TextOf(g, m)
      <3>1. DOMAIN TextOf(g, m) = 1 .. Len(TextOf(g, m)) /\ Len(TextOf(g, m)) \in Nat
        BY DoneGood DEF StepTo, Step
      <3> QED BY <3>1, <2>1, <1>3
    <2>3. LaidItem(g, X, m, i)
      BY <2>2 DEF StepTo, Step, Describes, Laid
    <2>4. g2.pos[m][i] = Shift(p, h, Len(u)) /\ g2.pos[m][i + 1] = Shift(q, h, Len(u))
      BY <2>2, MovedPlaces
    <2>5. p \in Nat /\ p >= 1 /\ q \in Nat
      <3>1. m \in Nodes
        BY MovedSets
      <3>2. p \in Nat /\ q \in Nat
        BY <3>1, <2>2 DEF StepTo, Step, Describes, AccountType
      <3> QED BY <2>3, <3>2 DEF LaidItem
    <2>6. Shift(p, h, Len(u)) >= 1
      BY <2>5, MovedShift
    <2>7. CASE IsIns(x)
      <3>1. p <= Len(X) - 2 /\ X[p] = x /\ q = p + 1
        BY <2>3, <2>7 DEF LaidItem
      <3>2. p # h
        BY <3>1, <2>7 DEF StepTo, Step, CanExpand
      <3>3. p \in 1 .. Len(X)
        BY <3>1, <2>5, <1>1
      <3>4. X2[Shift(p, h, Len(u))] = x /\ Shift(q, h, Len(u)) = Shift(p, h, Len(u)) + 1 /\ Shift(p, h, Len(u)) <= Len(X2) - 2
        BY <3>1, <3>2, <3>3, <1>0
      <3> QED BY <2>1, <2>4, <2>6, <2>7, <3>4 DEF LaidItem
    <2>8. CASE ~IsIns(x)
      <3>1. /\ x.tree \in Placed(g) /\ g.from[x.tree] = x /\ g.stk[x.tree] = Inside(g, m)
            /\ AtOf(g, x.tree) = p /\ ToOf(g, x.tree) = q
        BY <2>3, <2>8 DEF LaidItem
      <3>2. x.tree \in Placed(g2) /\ x.tree \in Nodes \ MadeBy(u)
        BY <3>1, MovedSets DEF Placed
      <3>3. g2.from[x.tree] = x /\ g2.stk[x.tree] = Inside(g2, m)
        BY <2>1, <3>1, <3>2, MovedMaps
      <3>4. AtOf(g2, x.tree) = Shift(p, h, Len(u)) /\ ToOf(g2, x.tree) = Shift(q, h, Len(u))
        BY <3>1, MovedPlaces
      <3> QED BY <2>1, <2>4, <2>6, <2>8, <3>2, <3>3, <3>4 DEF LaidItem
    <2> QED BY <2>7, <2>8
  <1>4. g2.done = g.done \cup {n}
    BY MovedSets
  <1> QED BY <1>2, <1>3, <1>4 DEF Laid

(***************************************************************************)
(* The nodes that wait are where the text has their items.                 *)
(***************************************************************************)
LEMMA StepWaiting ==
    ASSUME source \in DOMAIN Programs, NEW g, NEW X, NEW h, NEW b, NEW l, NEW u, NEW X2, NEW n, NEW g2,
           StepTo(g, X, h, b, l, u, X2, n, g2)
    PROVE  /\ Waiting(g2, X2, h)
           /\ \A m \in g.wait \ {n} : /\ AtOf(g, m) > h /\ AtOf(g, m) \in Nat /\ AtOf(g, m) <= Len(X) - 2
                                      /\ AtOf(g2, m) = AtOf(g, m) + Len(u) - 1
  <1>0. \A p \in 1 .. Len(X) : p # h => /\ X2[Shift(p, h, Len(u))] = X[p]
                                        /\ Shift(p, h, Len(u)) \in 1 .. Len(X2)
                                        /\ Shift(p + 1, h, Len(u)) = Shift(p, h, Len(u)) + 1
                                        /\ (p <= Len(X) - 2 => Shift(p, h, Len(u)) <= Len(X2) - 2)
    BY MovedShift
  <1>1. /\ h \in Nat /\ h >= 1 /\ h <= Len(X) - 2 /\ Len(X) \in Nat /\ Len(u) \in Nat /\ Len(X2) = Len(X) + Len(u) - 1
        /\ u \in Seq(Work)
    BY MovedText
  <1>2. ASSUME NEW m \in g.wait \ {n}
        PROVE  /\ AtOf(g, m) > h /\ AtOf(g, m) \in Nat /\ AtOf(g, m) <= Len(X) - 2
               /\ AtOf(g2, m) = AtOf(g, m) + Len(u) - 1
               /\ X2[AtOf(g2, m)] = g2.from[m]
    <2>1. AtOf(g, m) > h
      BY AtHead DEF StepTo, Step, CanExpand
    <2>2. AtOf(g, m) <= Len(X) - 2 /\ X[AtOf(g, m)] = g.from[m]
      BY DEF StepTo, Step, Describes, Waiting
    <2>3. m \in Nodes
      BY MovedSets
    <2>4. AtOf(g, m) \in Nat
      BY <2>3 DEF StepTo, Step, Describes, AccountType, AtOf
    <2>5. AtOf(g2, m) = Shift(AtOf(g, m), h, Len(u))
      BY MovedPlaces DEF Placed
    <2>6. Shift(AtOf(g, m), h, Len(u)) = AtOf(g, m) + Len(u) - 1
      BY <2>1, <2>4, <1>1 DEF Shift
    <2>7. AtOf(g, m) \in 1 .. Len(X) /\ AtOf(g, m) # h
      BY <2>1, <2>2, <2>4, <1>1
    <2>8. X2[AtOf(g2, m)] = g.from[m]
      BY <2>2, <2>5, <2>7, <1>0
    <2>9. m \in Nodes \ MadeBy(u)
      BY <2>3, MovedSets DEF Placed
    <2>10. g2.from[m] = g.from[m]
      BY <2>9, MovedMaps
    <2> QED BY <2>1, <2>2, <2>4, <2>5, <2>6, <2>8, <2>10
  <1>3. ASSUME NEW c \in MadeBy(u)
        PROVE  AtOf(g2, c) >= h /\ AtOf(g2, c) <= Len(X2) - 2 /\ X2[AtOf(g2, c)] = g2.from[c]
    <2>1. Where(u, c) \in 1 .. Len(u)
      BY MovedSets
    <2>2. AtOf(g2, c) = h + Where(u, c) - 1 /\ g2.from[c] = u[Where(u, c)]
      BY MovedPlaces, MovedMaps
    <2>3. X2[h + Where(u, c) - 1] = u[Where(u, c)]
      BY <2>1, MovedText
    <2> QED BY <2>1, <2>2, <2>3, <1>1
  <1>4. g2.wait = (g.wait \ {n}) \cup MadeBy(u)
    BY MovedSets
  <1>5. \A m \in g2.wait : AtOf(g2, m) >= h /\ AtOf(g2, m) <= Len(X2) - 2 /\ X2[AtOf(g2, m)] = g2.from[m]
    BY <1>1, <1>2, <1>3, <1>4
  <1> QED BY <1>2, <1>5 DEF Waiting

(***************************************************************************)
(* Every instruction belongs to a node.                                    *)
(***************************************************************************)
LEMMA StepOwned ==
    ASSUME source \in DOMAIN Programs, NEW g, NEW X, NEW h, NEW b, NEW l, NEW u, NEW X2, NEW n, NEW g2,
           StepTo(g, X, h, b, l, u, X2, n, g2)
    PROVE  Owned(g2, X2)
  <1>0. \A q \in Nat : g2.pos[n][q] = h + q - 1
    BY MovedNew
  <1>1. /\ h \in Nat /\ h >= 1 /\ h <= Len(X) - 2 /\ Len(X) \in Nat /\ Len(u) \in Nat /\ Len(X2) = Len(X) + Len(u) - 1
        /\ u \in Seq(Work) /\ DOMAIN u = 1 .. Len(u)
    BY MovedText
  <1>2. g2.done = g.done \cup {n} /\ g2.wait = (g.wait \ {n}) \cup MadeBy(u)
    BY MovedSets
  <1>3. ASSUME NEW q \in 1 .. (Len(X) - 2), q # h
        PROVE  \/ \E m \in g2.done : \E i \in DOMAIN TextOf(g2, m) : IsIns(TextOf(g2, m)[i]) /\ g2.pos[m][i] = Shift(q, h, Len(u))
               \/ q > h /\ \E m \in g2.wait : AtOf(g2, m) = Shift(q, h, Len(u))
    <2>1. \/ \E m \in g.done : \E i \in DOMAIN TextOf(g, m) : IsIns(TextOf(g, m)[i]) /\ g.pos[m][i] = q
          \/ \E m \in g.wait : AtOf(g, m) = q
      BY DEF StepTo, Step, Describes, Owned
    <2>2. ASSUME NEW m \in g.done, NEW i \in DOMAIN TextOf(g, m), IsIns(TextOf(g, m)[i]), g.pos[m][i] = q
          PROVE  \E j \in DOMAIN TextOf(g2, m) : IsIns(TextOf(g2, m)[j]) /\ g2.pos[m][j] = Shift(q, h, Len(u))
      <3>1. TextOf(g2, m) = TextOf(g, m)
        BY MovedMaps
      <3>2. i \in Nat
        <4>1. DOMAIN TextOf(g, m) = 1 .. Len(TextOf(g, m)) /\ Len(TextOf(g, m)) \in Nat
          BY DoneGood DEF StepTo, Step
        <4> QED BY <4>1, <2>2
      <3>3. g2.pos[m][i] = Shift(q, h, Len(u))
        BY <3>2, <2>2, MovedPlaces
      <3> QED BY <3>1, <3>3, <2>2
    <2>3. ASSUME NEW m \in g.wait, AtOf(g, m) = q PROVE q > h /\ m \in g2.wait /\ AtOf(g2, m) = Shift(q, h, Len(u))
      <3>1. m # n
        <4>1. AtOf(g, n) = h
          BY AtHead DEF StepTo, Step, CanExpand
        <4> QED BY <4>1, <2>3, <1>3
      <3>2. q > h
        BY <3>1, <2>3, StepWaiting
      <3>3. AtOf(g2, m) = Shift(q, h, Len(u))
        BY <2>3, MovedPlaces DEF Placed
      <3> QED BY <3>1, <3>2, <3>3, <1>2
    <2> QED BY <2>1, <2>2, <2>3, <1>2
  <1>4. ASSUME NEW p \in 1 .. (Len(X2) - 2)
        PROVE  \/ \E m \in g2.done : \E i \in DOMAIN TextOf(g2, m) : IsIns(TextOf(g2, m)[i]) /\ g2.pos[m][i] = p
               \/ \E m \in g2.wait : AtOf(g2, m) = p
    <2>1. CASE p < h
      <3>1. p \in 1 .. (Len(X) - 2) /\ p # h /\ Shift(p, h, Len(u)) = p
        BY <2>1, <1>1 DEF Shift
      <3> QED BY <3>1, <1>3
    <2>2. CASE p >= h /\ p < h + Len(u)
      <3>1. PICK i \in 1 .. Len(u) : i = p - h + 1
        <4>1. p - h + 1 \in 1 .. Len(u)
          BY <2>2, <1>1
        <4> QED BY <4>1
      <3>2. h + i - 1 = p /\ i \in Nat
        BY <3>1, <1>1
      <3>3. CASE IsIns(u[i])
        <4>1. TextOf(g2, n) = u /\ g2.pos[n][i] = p
          <5>1. TextOf(g2, n) = u
            BY MovedMaps
          <5> QED BY <3>2, <5>1, <1>0
        <4> QED BY <4>1, <3>3, <1>1, <1>2
      <3>4. CASE ~IsIns(u[i])
        <4>1. n \in Nodes /\ KidsLaid(n, u)
          BY MovedSets DEF TextGood
        <4>2. u[i].tree \in MadeBy(u) /\ Where(u, u[i].tree) = i
          BY <4>1, <3>4, MadeFacts
        <4>3. \A c \in MadeBy(u) : AtOf(g2, c) = h + Where(u, c) - 1
          BY MovedPlaces
        <4>4. AtOf(g2, u[i].tree) = p
          BY <4>2, <4>3, <3>2
        <4> QED BY <4>2, <4>4, <1>2
      <3> QED BY <3>3, <3>4
    <2>3. CASE p >= h + Len(u)
      <3>1. PICK q \in 1 .. (Len(X) - 2) : q = p - Len(u) + 1
        <4>1. p - Len(u) + 1 \in 1 .. (Len(X) - 2)
          BY <2>3, <1>1
        <4> QED BY <4>1
      <3>2. q # h /\ Shift(q, h, Len(u)) = p
        BY <3>1, <2>3, <1>1 DEF Shift
      <3> QED BY <3>2, <1>3
    <2> QED BY <2>1, <2>2, <2>3, <1>1
  <1> QED BY <1>4 DEF Owned

(***************************************************************************)
(* Every node was named by the text of its parent.                         *)
(***************************************************************************)
LEMMA StepItems ==
    ASSUME source \in DOMAIN Programs, NEW g, NEW X, NEW h, NEW b, NEW l, NEW u, NEW X2, NEW n, NEW g2,
           StepTo(g, X, h, b, l, u, X2, n, g2)
    PROVE  Items(g2) /\ Inherits(g2)
  <1>1. Placed(g2) = Placed(g) \cup MadeBy(u) /\ g2.done = g.done \cup {n} /\ n \in Nodes /\ KidsLaid(n, u)
    BY MovedSets DEF TextGood
  <1>2. ASSUME NEW c \in MadeBy(u)
        PROVE  /\ ItemOf(g2.from[c], c) /\ Up(c) = n /\ TextOf(g2, n)[Where(u, c)] = g2.from[c] /\ Where(u, c) \in DOMAIN TextOf(g2, n)
    <2>1. ItemOf(u[Where(u, c)], c) /\ Where(u, c) \in 1 .. Len(u) /\ Up(c) = n
      BY <1>1, MadeFacts
    <2>2. g2.from[c] = u[Where(u, c)] /\ TextOf(g2, n) = u
      BY MovedMaps
    <2>3. DOMAIN u = 1 .. Len(u)
      BY MovedText
    <2> QED BY <2>1, <2>2, <2>3
  <1>3. ASSUME NEW m \in Placed(g) PROVE m \in Nodes \ MadeBy(u) /\ g2.from[m] = g.from[m] /\ ItemOf(g.from[m], m)
    <2>1. m \in Nodes \ MadeBy(u)
      BY MovedSets DEF Placed
    <2>2. ItemOf(g.from[m], m)
      BY DEF StepTo, Step, Describes, Items
    <2>3. g2.from[m] = g.from[m]
      BY <2>1, MovedMaps
    <2> QED BY <2>1, <2>2, <2>3
  <1>4. ASSUME NEW m \in Placed(g), m # 1 PROVE Up(m) \in g.done /\ \E i \in DOMAIN TextOf(g2, Up(m)) : TextOf(g2, Up(m))[i] = g2.from[m]
    <2>1. Up(m) \in g.done /\ \E i \in DOMAIN TextOf(g, Up(m)) : TextOf(g, Up(m))[i] = g.from[m]
      BY <1>4 DEF StepTo, Step, Describes, Inherits
    <2>2. TextOf(g2, Up(m)) = TextOf(g, Up(m))
      BY <2>1, MovedMaps
    <2> QED BY <2>1, <2>2, <1>3
  <1>5. Items(g2)
    BY <1>1, <1>2, <1>3 DEF Items
  <1>6. Inherits(g2)
    BY <1>1, <1>2, <1>4 DEF Inherits
  <1> QED BY <1>5, <1>6

(***************************************************************************)
(* Nothing that can be entered is lost, nothing that was removed is        *)
(* emitted.                                                                *)
(***************************************************************************)
LEMMA StepCovers ==
    ASSUME source \in DOMAIN Programs, NEW g, NEW X, NEW h, NEW b, NEW l, NEW u, NEW X2, NEW n, NEW g2,
           StepTo(g, X, h, b, l, u, X2, n, g2)
    PROVE  Covers(g2)
  <1>1. Placed(g2) = Placed(g) \cup MadeBy(u) /\ g2.wait = (g.wait \ {n}) \cup MadeBy(u) /\ n \in Nodes /\ n \in g.wait /\ KidsLaid(n, u)
    BY MovedSets DEF TextGood
  <1>2. /\ \A m \in Placed(g) : ~Removed(m)
        /\ \A m \in Nodes : ~Removed(m) /\ Kind(m) # "const" => m \in Placed(g) \/ \E w \in g.wait : w \in Ancestors(m)
    BY DEF StepTo, Step, Describes, Covers
  <1>3. ASSUME NEW c \in MadeBy(u) PROVE ~Removed(c)
    <2>1. PICK j \in DOMAIN Kids(n) : Kids(n)[j] = c
      BY <1>1, MadeFacts
    <2>2. ~NeverEntered(c) /\ ~Removed(n)
      BY <1>1, <1>2, MadeFacts DEF Placed
    <2> QED BY <2>1, <2>2, <1>1, RemovedKid
  <1>4. ASSUME NEW m \in Nodes, ~Removed(m), Kind(m) # "const"
        PROVE  m \in Placed(g2) \/ \E w \in g2.wait : w \in Ancestors(m)
    <2>1. CASE n \in Ancestors(m)
      <3>1. PICK i \in DOMAIN Kids(n) : m = Kids(n)[i] \/ Kids(n)[i] \in Ancestors(m)
        BY <2>1, <1>1, KidAbove
      <3> DEFINE c == Kids(n)[i]
      <3>2. c \in Nodes
        BY <1>1, KidFacts
      <3>3. ~NeverEntered(c)
        <4>1. Removed(c) => Removed(m)
          BY <3>1, RemovedBelow
        <4>2. NeverEntered(c) => Removed(c)
          BY DEF Removed
        <4> QED BY <4>1, <4>2, <1>4
      <3>4. Kind(c) # "const"
        <4>1. CASE m = c
          BY <4>1, <1>4
        <4>2. CASE c \in Ancestors(m)
          <5>1. PICK k \in DOMAIN Kids(c) : TRUE
            BY <4>2, <3>2, KidAbove
          <5>2. Parts(Kind(c)) # {}
            BY <5>1, <3>2, KidRoles
          <5> QED BY <5>2 DEF Parts
        <4> QED BY <4>1, <4>2, <3>1
      <3>5. c \in MadeBy(u)
        BY <3>3, <3>4, <1>1, MadeFacts
      <3> QED BY <3>1, <3>5, <1>1
    <2>2. CASE n \notin Ancestors(m)
      BY <2>2, <1>1, <1>2, <1>4
    <2> QED BY <2>1, <2>2
  <1> QED BY <1>1, <1>2, <1>3, <1>4 DEF Covers

(***************************************************************************)
(* The stack of break and continue labels, foreseen for the rest of the    *)
(* text, is what it will be.                                               *)
(***************************************************************************)
LEMMA StepStacked ==
    ASSUME source \in DOMAIN Programs, NEW g, NEW X, NEW h, NEW b, NEW l, NEW u, NEW X2, NEW n, NEW g2,
           StepTo(g, X, h, b, l, u, X2, n, g2)
    PROVE  Stacked(g2, X2, h, Within(n, l, b))
  <1> DEFINE inside == Within(n, l, b)
  <1>1. /\ h \in Nat /\ h >= 1 /\ h <= Len(X) - 2 /\ Len(X) \in Nat /\ Len(u) \in Nat /\ Len(X2) = Len(X) + Len(u) - 1
        /\ u \in Seq(Work) /\ DOMAIN u = 1 .. Len(u)
    BY MovedText
  <1>2. \A p \in Nat : g2.st[p] = IF p < h + Len(u) THEN inside ELSE g.st[p - Len(u) + 1]
    BY MovedMaps
  <1>3. g.st[h] = b /\ g.st[h + 1] = b
    BY AtHead DEF StepTo, Step, CanExpand
  <1>4. g2.st[h + Len(u)] = b
    <2>1. h + Len(u) \in Nat /\ (h + Len(u)) - Len(u) + 1 = h + 1
      BY <1>1
    <2> QED BY <2>1, <1>1, <1>2, <1>3
  <1>5. /\ \A i \in DOMAIN u : u[i].w = "end" <=> i = Len(u) /\ Breakable(n)
        /\ Breakable(n) => u # <<>>
    BY MovedSets DEF TextGood, KidsLaid
  <1>6. ~Breakable(n) => inside = b
    BY DEF Within
  <1>7. Breakable(n) => Tail(inside) = b
    <2>1. b \in Stacks /\ l \in Nat
      BY MovedSets
    <2>2. Pair(n, l) \in [break : Int, continue : Int]
      BY <2>1 DEF Pair, Targets, NoContinue
    <2>3. Tail(<<Pair(n, l)>> \o b) = b
      BY <2>1, <2>2, SMTT(30) DEF Stacks
    <2> QED BY <2>3 DEF Within
  <1> HIDE DEF inside
  <1>8. inside = g2.st[h]
    <2>1. CASE Len(u) = 0
      <3>1. ~Breakable(n)
        BY <2>1, <1>1, <1>5
      <3> QED BY <3>1, <2>1, <1>1, <1>4, <1>6
    <2>2. CASE Len(u) # 0
      BY <2>2, <1>1, <1>2
    <2> QED BY <2>1, <2>2
  <1>9. ASSUME NEW c \in MadeBy(u) PROVE g2.st[AtOf(g2, c)] = g2.stk[c] /\ g2.st[AtOf(g2, c) + 1] = g2.stk[c]
    <2>1. Where(u, c) \in 1 .. Len(u)
      BY MovedSets
    <2>2. AtOf(g2, c) = h + Where(u, c) - 1 /\ g2.stk[c] = inside
      BY MovedPlaces, MovedMaps DEF inside
    <2>3. AtOf(g2, c) \in Nat /\ AtOf(g2, c) + 1 \in Nat /\ AtOf(g2, c) < h + Len(u) /\ AtOf(g2, c) + 1 = h + Where(u, c)
      BY <2>1, <2>2, <1>1
    <2>4. CASE Where(u, c) < Len(u)
      BY <2>1, <2>2, <2>3, <2>4, <1>1, <1>2
    <2>5. CASE Where(u, c) = Len(u)
      <3>1. ~IsIns(u[Where(u, c)])
        BY MovedSets, MadeFacts DEF TextGood
      <3>2. u[Len(u)].w # "end"
        BY <3>1, <2>5 DEF IsIns
      <3>3. inside = b
        BY <3>2, <2>1, <2>5, <1>1, <1>5, <1>6
      <3> QED BY <2>2, <2>3, <2>5, <3>3, <1>2, <1>4
    <2> QED BY <2>1, <2>4, <2>5, <1>1
  <1>10. ASSUME NEW m \in g.wait \ {n} PROVE g2.st[AtOf(g2, m)] = g2.stk[m] /\ g2.st[AtOf(g2, m) + 1] = g2.stk[m]
    <2>1. AtOf(g, m) > h /\ AtOf(g, m) \in Nat /\ AtOf(g2, m) = AtOf(g, m) + Len(u) - 1
      BY StepWaiting
    <2>2. g.st[AtOf(g, m)] = g.stk[m] /\ g.st[AtOf(g, m) + 1] = g.stk[m]
      BY DEF StepTo, Step, Describes, Stacked
    <2>3. m \in Nodes \ MadeBy(u)
      BY MovedSets DEF Placed
    <2>4. g2.stk[m] = g.stk[m]
      BY <2>3, MovedMaps
    <2>5. /\ AtOf(g2, m) \in Nat /\ AtOf(g2, m) + 1 \in Nat /\ AtOf(g2, m) >= h + Len(u) /\ AtOf(g2, m) + 1 >= h + Len(u)
          /\ AtOf(g2, m) - Len(u) + 1 = AtOf(g, m) /\ (AtOf(g2, m) + 1) - Len(u) + 1 = AtOf(g, m) + 1
      BY <2>1, <1>1
    <2>6. g2.st[AtOf(g2, m)] = g.st[AtOf(g, m)]
      <3>1. ~(AtOf(g2, m) < h + Len(u))
        BY <2>5, <1>1
      <3> QED BY <3>1, <2>5, <1>2
    <2>7. g2.st[AtOf(g2, m) + 1] = g.st[AtOf(g, m) + 1]
      <3>1. ~(AtOf(g2, m) + 1 < h + Len(u))
        BY <2>5, <1>1
      <3> QED BY <3>1, <2>5, <1>2
    <2> QED BY <2>2, <2>4, <2>6, <2>7
  <1>11. ASSUME NEW p \in h .. Len(X2), IsIns(X2[p])
         PROVE  g2.st[p + 1] = IF X2[p].w = "end" THEN Tail(g2.st[p]) ELSE g2.st[p]
    <2>1. CASE p < h + Len(u)
      <3>1. PICK i \in 1 .. Len(u) : i = p - h + 1
        <4>1. p - h + 1 \in 1 .. Len(u)
          BY <2>1, <1>1
        <4> QED BY <4>1
      <3>2. X2[p] = u[i] /\ p = h + i - 1
        <4>1. p = h + i - 1
          BY <3>1, <1>1
        <4> QED BY <4>1, MovedText
      <3>3. g2.st[p] = inside
        BY <2>1, <1>1, <1>2
      <3>4. CASE i < Len(u)
        <4>1. u[i].w # "end"
          BY <3>4, <1>1, <1>5
        <4>2. g2.st[p + 1] = inside
          BY <3>2, <3>4, <1>1, <1>2
        <4> QED BY <4>1, <4>2, <3>2, <3>3
      <3>5. CASE i = Len(u)
        <4>1. g2.st[p + 1] = b
          <5>1. p + 1 = h + Len(u)
            BY <3>2, <3>5, <1>1
          <5> QED BY <5>1, <1>4
        <4>2. u[i].w = "end" <=> Breakable(n)
          BY <3>5, <1>1, <1>5
        <4> QED BY <4>1, <4>2, <3>2, <3>3, <1>6, <1>7
      <3> QED BY <3>1, <3>4, <3>5, <1>1
    <2>2. CASE p >= h + Len(u)
      <3>1. PICK q \in (h + 1) .. Len(X) : q = p - Len(u) + 1
        <4>1. p - Len(u) + 1 \in (h + 1) .. Len(X)
          BY <2>2, <1>1
        <4> QED BY <4>1
      <3>2. q \in 1 .. Len(X) /\ q # h /\ Shift(q, h, Len(u)) = p
        BY <3>1, <2>2, <1>1 DEF Shift
      <3>3. X2[p] = X[q]
        <4>1. \A j \in 1 .. Len(X) : j # h => X2[Shift(j, h, Len(u))] = X[j]
          BY MovedShift
        <4> QED BY <4>1, <3>2
      <3>4. g.st[q + 1] = IF X[q].w = "end" THEN Tail(g.st[q]) ELSE g.st[q]
        <4>1. q \in h .. Len(X)
          BY <3>1, <1>1
        <4> QED BY <4>1, <3>3, <1>11 DEF StepTo, Step, Describes, Stacked
      <3>5. g2.st[p] = g.st[q] /\ g2.st[p + 1] = g.st[q + 1]
        <4>1. p \in Nat /\ p + 1 \in Nat /\ ~(p < h + Len(u)) /\ ~(p + 1 < h + Len(u)) /\ (p + 1) - Len(u) + 1 = q + 1
          BY <3>1, <2>2, <1>1
        <4> QED BY <4>1, <3>1, <1>2
      <3> QED BY <3>3, <3>4, <3>5
    <2> QED BY <2>1, <2>2, <1>1
  <1>12. g2.wait = (g.wait \ {n}) \cup MadeBy(u)
    BY MovedSets
  <1> QED BY <1>8, <1>9, <1>10, <1>11, <1>12 DEF Stacked, inside

(***************************************************************************)
(* The top of the stack is the closest loop or switch around.              *)
(***************************************************************************)
LEMMA StepMirrors ==
    ASSUME source \in DOMAIN Programs, NEW g, NEW X, NEW h, NEW b, NEW l, NEW u, NEW X2, NEW n, NEW g2,
           StepTo(g, X, h, b, l, u, X2, n, g2)
    PROVE  Mirrors(g2)
  <1>1. /\ Placed(g2) = Placed(g) \cup MadeBy(u) /\ g2.done = g.done \cup {n} /\ n \in Nodes /\ n \in g.wait /\ KidsLaid(n, u)
        /\ b \in Stacks /\ l \in Nat
    BY MovedSets DEF TextGood
  <1>2. \A m \in g.done : g2.base[m] = g.base[m]
    BY MovedMaps, MovedSets
  <1>3. \A m \in Placed(g) : IF g.stk[m] = <<>> THEN Breakables(m) = {}
                             ELSE \E k \in g.done : Innermost(m, k) /\ Head(g.stk[m]) = Pair(k, g.base[k])
    BY DEF StepTo, Step, Describes, Mirrors
  <1>4. ASSUME NEW m \in Placed(g)
        PROVE  IF g2.stk[m] = <<>> THEN Breakables(m) = {}
               ELSE \E k \in g2.done : Innermost(m, k) /\ Head(g2.stk[m]) = Pair(k, g2.base[k])
    <2>1. m \in Nodes \ MadeBy(u)
      BY MovedSets DEF Placed
    <2>2. g2.stk[m] = g.stk[m]
      BY <2>1, MovedMaps
    <2> QED BY <2>2, <1>1, <1>2, <1>3
  <1>5. ASSUME NEW c \in MadeBy(u)
        PROVE  IF g2.stk[c] = <<>> THEN Breakables(c) = {}
               ELSE \E k \in g2.done : Innermost(c, k) /\ Head(g2.stk[c]) = Pair(k, g2.base[k])
    <2>1. PICK j \in DOMAIN Kids(n) : Kids(n)[j] = c
      BY <1>1, MadeFacts
    <2>2. /\ Breakables(c) = IF Breakable(n) THEN Breakables(n) \cup {n} ELSE Breakables(n)
          /\ Breakables(n) \subseteq 1 .. (n - 1)
      BY <2>1, <1>1, BreakablesOfKid
    <2>3. g2.stk[c] = Within(n, l, b) /\ g2.base[n] = l
      BY MovedMaps
    <2>4. CASE Breakable(n)
      <3>1. g2.stk[c] = <<Pair(n, l)>> \o b
        BY <2>3, <2>4 DEF Within
      <3>2. Len(g2.stk[c]) # 0 /\ Head(g2.stk[c]) = Pair(n, l)
        <4>1. Len(b) \in Nat
          BY <1>1 DEF Stacks
        <4> QED BY <3>1, <4>1
      <3>3. Innermost(c, n)
        <4>1. n \in Nat
          BY <1>1, NodeFacts
        <4> QED BY <4>1, <2>2, <2>4 DEF Innermost
      <3> QED BY <3>2, <3>3, <2>3, <1>1
    <2>5. CASE ~Breakable(n)
      <3>1. g.stk[n] = b
        BY AtHead DEF StepTo, Step, CanExpand
      <3>2. g2.stk[c] = g.stk[n] /\ Breakables(c) = Breakables(n)
        BY <3>1, <2>2, <2>3, <2>5 DEF Within
      <3>3. \A k : Innermost(c, k) <=> Innermost(n, k)
        BY <3>2 DEF Innermost
      <3> QED BY <3>2, <3>3, <1>1, <1>2, <1>3 DEF Placed
    <2> QED BY <2>4, <2>5
  <1> QED BY <1>1, <1>4, <1>5 DEF Mirrors

(***************************************************************************)
(* A jump that was emitted had a label to go to.                           *)
(***************************************************************************)
LEMMA StepJumps ==
    ASSUME source \in DOMAIN Programs, NEW g, NEW X, NEW h, NEW b, NEW l, NEW u, NEW X2, NEW n, NEW g2,
           StepTo(g, X, h, b, l, u, X2, n, g2)
    PROVE  JumpsOk(g2)
  <1>1. g2.done = g.done \cup {n} /\ b \in Stacks
    BY MovedSets
  <1>2. \A m \in g.done : g2.stk[m] = g.stk[m]
    BY MovedMaps
  <1>3. g2.stk[n] = b
    <2>1. g.stk[n] = b
      BY AtHead DEF StepTo, Step, CanExpand
    <2>2. n \in Nodes \ MadeBy(u)
      BY MovedSets
    <2> QED BY <2>1, <2>2, MovedMaps
  <1>4. Kind(n) \in {"break", "continue"} => b # <<>> /\ (Kind(n) = "continue" => Head(b).continue # NoContinue)
    <2>1. Kind(n) \in {"break", "continue"} => b # <<>>
      BY DEF StepTo, Step, CanExpand
    <2>2. Kind(n) = "continue" => b[1].continue # NoContinue
      BY DEF StepTo, Step, CanExpand
    <2>3. b # <<>> => Head(b) = b[1]
      BY <1>1, HeadOfSeq DEF Stacks
    <2> QED BY <2>1, <2>2, <2>3
  <1>5. \A m \in g.done : Kind(m) \in {"break", "continue"} => g.stk[m] # <<>> /\ (Kind(m) = "continue" => Head(g.stk[m]).continue # NoContinue)
    BY DEF StepTo, Step, Describes, JumpsOk
  <1> QED BY <1>1, <1>2, <1>3, <1>4, <1>5 DEF JumpsOk

(***************************************************************************)
(* Both labels of a condition are in the text.                             *)
(***************************************************************************)
LEMMA StepTargets ==
    ASSUME source \in DOMAIN Programs, NEW g, NEW X, NEW h, NEW b, NEW l, NEW u, NEW X2, NEW n, NEW g2,
           StepTo(g, X, h, b, l, u, X2, n, g2)
    PROVE  TestsTarget(g2, X2)
  <1>1. /\ h \in Nat /\ h >= 1 /\ h <= Len(X) - 2 /\ Len(X) \in Nat /\ Len(u) \in Nat /\ Len(X2) = Len(X) + Len(u) - 1
        /\ u \in Seq(Work) /\ DOMAIN u = 1 .. Len(u) /\ DOMAIN X = 1 .. Len(X) /\ DOMAIN X2 = 1 .. Len(X2)
    BY MovedText
  <1>2. ASSUME NEW v, LabelIn(X, v) PROVE LabelIn(X2, v)
    <2>1. PICK p \in DOMAIN X : IsLabel(X[p], v)
      BY <1>2 DEF LabelIn
    <2>2. p # h
      BY <2>1 DEF IsLabel, StepTo, Step, CanExpand
    <2>3. X2[Shift(p, h, Len(u))] = X[p] /\ Shift(p, h, Len(u)) \in 1 .. Len(X2)
      <3>1. \A j \in 1 .. Len(X) : j # h => X2[Shift(j, h, Len(u))] = X[j] /\ Shift(j, h, Len(u)) \in 1 .. Len(X2)
        BY MovedShift
      <3> QED BY <3>1, <2>1, <2>2, <1>1
    <2> QED BY <2>1, <2>3, <1>1 DEF LabelIn
  <1>3. ASSUME NEW v, LabelIn(u, v) PROVE LabelIn(X2, v)
    <2>1. PICK i \in DOMAIN u : IsLabel(u[i], v)
      BY <1>3 DEF LabelIn
    <2>2. X2[h + i - 1] = u[i] /\ h + i - 1 \in DOMAIN X2
      <3>1. \A j \in 1 .. Len(u) : X2[h + j - 1] = u[j]
        BY MovedText
      <3> QED BY <2>1, <1>1, <3>1
    <2> QED BY <2>1, <2>2 DEF LabelIn
  <1>4. Placed(g2) = Placed(g) \cup MadeBy(u) /\ n \in g.wait
    BY MovedSets
  <1>5. \A m \in Placed(g) : g.from[m].w = "jumps" => LabelIn(X, g.from[m].yes) /\ LabelIn(X, g.from[m].no)
    BY DEF StepTo, Step, Describes, TestsTarget
  <1>6. ASSUME NEW m \in Placed(g), g2.from[m].w = "jumps" PROVE LabelIn(X2, g2.from[m].yes) /\ LabelIn(X2, g2.from[m].no)
    <2>1. m \in Nodes \ MadeBy(u)
      BY MovedSets DEF Placed
    <2>2. g2.from[m] = g.from[m]
      BY <2>1, MovedMaps
    <2> QED BY <2>2, <1>2, <1>5, <1>6
  <1>7. ASSUME NEW c \in MadeBy(u), g2.from[c].w = "jumps" PROVE LabelIn(X2, g2.from[c].yes) /\ LabelIn(X2, g2.from[c].no)
    <2>1. Where(u, c) \in DOMAIN u /\ g2.from[c] = u[Where(u, c)]
      BY MovedSets, MovedMaps, <1>1
    <2>2. JumpsLaid(X[h], n, l, b, u)
      BY MovedSets DEF TextGood
    <2>3. /\ LabelIn(u, g2.from[c].yes) \/ (X[h].w = "jumps" /\ g2.from[c].yes \in {X[h].yes, X[h].no})
          /\ LabelIn(u, g2.from[c].no) \/ (X[h].w = "jumps" /\ g2.from[c].no \in {X[h].yes, X[h].no})
      BY <2>1, <2>2, <1>7 DEF JumpsLaid
    <2>4. X[h].w = "jumps" => LabelIn(X, X[h].yes) /\ LabelIn(X, X[h].no)
      <3>1. g.from[n] = X[h]
        BY AtHead DEF StepTo, Step, CanExpand
      <3> QED BY <3>1, <1>4, <1>5 DEF Placed
    <2> QED BY <2>3, <2>4, <1>2, <1>3
  <1> QED BY <1>4, <1>6, <1>7 DEF TestsTarget

(***************************************************************************)
(* An item that becomes its text keeps the account.                        *)
(***************************************************************************)
LEMMA Expand ==
    ASSUME source \in DOMAIN Programs, NEW g, NEW X, NEW h, NEW b, NEW l, NEW u, NEW X2, Step(g, X, h, b, l, u, X2)
    PROVE  \E g2 : Describes(g2, X2, h, Within(X[h].tree, l, b), l + Fresh(X[h].tree))
  <1> DEFINE n == X[h].tree
             g2 == Expanded(g, n, u, h, b, l)
  <1>1. StepTo(g, X, h, b, l, u, X2, n, g2)
    BY DEF StepTo
  <1>2. Root(g2, X2)
    BY StepRoot
  <1> HIDE DEF g2
  <1>3. AccountType(g2) /\ TextType(X2, h) /\ Intervals(g2, l + Fresh(n))
    BY <1>1, StepTypes
  <1>4. Laid(g2, X2) /\ Owned(g2, X2) /\ Waiting(g2, X2, h)
    BY <1>1, StepLaid, StepOwned, StepWaiting
  <1>5. Items(g2) /\ Inherits(g2) /\ Covers(g2)
    BY <1>1, StepItems, StepCovers
  <1>6. Stacked(g2, X2, h, Within(n, l, b)) /\ Mirrors(g2) /\ JumpsOk(g2) /\ TestsTarget(g2, X2)
    BY <1>1, StepStacked, StepMirrors, StepJumps, StepTargets
  <1>7. Describes(g2, X2, h, Within(n, l, b), l + Fresh(n))
    BY <1>2, <1>3, <1>4, <1>5, <1>6 DEF Describes
  <1> QED BY <1>7
=============================================================================
