------------------------- MODULE StatementCodeProofs -------------------------
(***************************************************************************)
(* Proofs about StatementCode, for every function whose tree is one: at    *)
(* any moment of the emission there is an account of the text (EmitInv),   *)
(* from which it follows which functions are reported and which texts      *)
(* assemble.                                                               *)
(***************************************************************************)
EXTENDS StatementLayout, FiniteSetTheorems

-----------------------------------------------------------------------------
(***************************************************************************)
(* The actions.                                                            *)
(***************************************************************************)
(***************************************************************************)
(* The tree does not change.                                               *)
(***************************************************************************)
LEMMA SameTree ==
    ASSUME source' = source
    PROVE  /\ program' = program
           /\ \A n : Kind(n)' = Kind(n) /\ Kids(n)' = Kids(n) /\ Up(n)' = Up(n)
           /\ \A n, r : With(n, r)' = With(n, r) /\ (Has(n, r)' <=> Has(n, r)) /\ Kid(n, r)' = Kid(n, r)
           /\ \A n : (ConstantTest(n)' <=> ConstantTest(n)) /\ (Holds(n)' <=> Holds(n)) /\ (NeverHolds(n)' <=> NeverHolds(n))
  <1>1. program' = program
    BY DEF program
  <1>2. \A n : Kind(n)' = Kind(n) /\ Kids(n)' = Kids(n) /\ Up(n)' = Up(n)
    BY <1>1 DEF Kind, Kids, Up
  <1>3. \A n, r : With(n, r)' = With(n, r)
    BY <1>1, <1>2 DEF With
  <1>4. \A n, r : Has(n, r)' <=> Has(n, r)
    BY <1>3 DEF Has
  <1>5. \A n, r : Kid(n, r)' = Kid(n, r)
    BY <1>2, <1>3 DEF Kid
  <1>6. \A n : (ConstantTest(n)' <=> ConstantTest(n)) /\ (Holds(n)' <=> Holds(n))
    BY <1>1, <1>2, <1>4, <1>5 DEF ConstantTest, Holds
  <1> QED BY <1>1, <1>2, <1>3, <1>4, <1>5, <1>6 DEF NeverHolds

(***************************************************************************)
(* What an item becomes depends on the tree alone.                         *)
(***************************************************************************)
LEMMA SameTexts ==
    ASSUME source' = source
    PROVE  \A x, l, s : ItemText(x, l, s)' = ItemText(x, l, s)
  <1>1. \A n, r : Optional(n, r)' = Optional(n, r)
    BY SameTree DEF Optional, Tree, Blank, Ins
  <1>2. \A n, l : IfText(n, l)' = IfText(n, l)
    <2> SUFFICES ASSUME NEW n, NEW l PROVE IfText(n, l)' = IfText(n, l)
      OBVIOUS
    <2>1. /\ Kid(n, "cond")' = Kid(n, "cond") /\ Kid(n, "then")' = Kid(n, "then") /\ Optional(n, "else")' = Optional(n, "else")
          /\ (Has(n, "else")' <=> Has(n, "else")) /\ (ConstantTest(n)' <=> ConstantTest(n)) /\ (Holds(n)' <=> Holds(n))
      BY SameTree, <1>1
    <2> QED BY <2>1 DEF IfText, BoolJumps, Label, Ins, Lbra, Blank, Tree
  <1>3. \A n, l : WhileText(n, l)' = WhileText(n, l)
    <2> SUFFICES ASSUME NEW n, NEW l PROVE WhileText(n, l)' = WhileText(n, l)
      OBVIOUS
    <2>1. /\ Kid(n, "cond")' = Kid(n, "cond") /\ Kid(n, "body")' = Kid(n, "body") /\ program' = program
          /\ (NeverHolds(n)' <=> NeverHolds(n)) /\ (ConstantTest(n)' <=> ConstantTest(n))
      BY SameTree
    <2>2. (IsDo(n)' <=> IsDo(n)) /\ WhileTest(n, l)' = WhileTest(n, l)
      BY <2>1 DEF IsDo, WhileTest, Lbra, BoolJumps, Ins
    <2> QED BY <2>1, <2>2 DEF WhileText, EndLabelAndPop, Label, Ins, Lbra, Blank, Tree
  <1>4. \A n, l : ForText(n, l)' = ForText(n, l)
    <2> SUFFICES ASSUME NEW n, NEW l PROVE ForText(n, l)' = ForText(n, l)
      OBVIOUS
    <2>1. /\ Kid(n, "cond")' = Kid(n, "cond") /\ Kid(n, "body")' = Kid(n, "body") /\ (Has(n, "cond")' <=> Has(n, "cond"))
          /\ Optional(n, "init")' = Optional(n, "init") /\ Optional(n, "incr")' = Optional(n, "incr")
      BY SameTree, <1>1
    <2> QED BY <2>1 DEF ForText, ForIncrement, BoolJumps, EndLabelAndPop, Label, Ins, Lbra, Blank, Tree
  <1>5. \A n, l : SwitchText(n, l)' = SwitchText(n, l)
    <2> SUFFICES ASSUME NEW n, NEW l PROVE SwitchText(n, l)' = SwitchText(n, l)
      OBVIOUS
    <2>1. Kids(n)' = Kids(n)
      BY SameTree
    <2> QED BY <2>1 DEF SwitchText, Ins, Case, EndLabelAndPop
  <1>6. \A c, yes, no, l : BoolText(c, yes, no, l)' = BoolText(c, yes, no, l)
    <2> SUFFICES ASSUME NEW c, NEW yes, NEW no, NEW l PROVE BoolText(c, yes, no, l)' = BoolText(c, yes, no, l)
      OBVIOUS
    <2>1. Kid(c, "left")' = Kid(c, "left") /\ Kid(c, "right")' = Kid(c, "right") /\ Kind(c)' = Kind(c) /\ program' = program
      BY SameTree
    <2> QED BY <2>1 DEF BoolText, BoolJumps, Label, Ins, Lbra
  <1>7. \A n : Trees(Kids(n))' = Trees(Kids(n))
    BY SameTree DEF Trees, Tree
  <1>8. \A n, l, s : TreeText(n, l, s)' = TreeText(n, l, s)
    <2> SUFFICES ASSUME NEW n, NEW l, NEW s PROVE TreeText(n, l, s)' = TreeText(n, l, s)
      OBVIOUS
    <2>1. Kind(n)' = Kind(n) /\ program' = program /\ Kid(n, "body")' = Kid(n, "body")
      BY SameTree
    <2>2. /\ Trees(Kids(n))' = Trees(Kids(n)) /\ IfText(n, l)' = IfText(n, l) /\ WhileText(n, l)' = WhileText(n, l)
          /\ ForText(n, l)' = ForText(n, l) /\ SwitchText(n, l)' = SwitchText(n, l)
      BY <1>2, <1>3, <1>4, <1>5, <1>7
    <2> QED BY <2>1, <2>2 DEF TreeText, Ins, Lbra, Label, Tree, SourceLabel, EndLabel
  <1>9. \A x, l, s : ItemText(x, l, s)' = ItemText(x, l, s)
    <2> SUFFICES ASSUME NEW x, NEW l, NEW s PROVE ItemText(x, l, s)' = ItemText(x, l, s)
      OBVIOUS
    <2>1. Trees(Kids(x.tree))' = Trees(Kids(x.tree)) /\ BoolText(x.tree, x.yes, x.no, l)' = BoolText(x.tree, x.yes, x.no, l)
          /\ TreeText(x.tree, l, s)' = TreeText(x.tree, l, s)
      BY <1>6, <1>7, <1>8
    <2> QED BY <2>1 DEF ItemText, Label, Ins
  <1> QED BY <1>9

(***************************************************************************)
(* Neither does what the account says of a text.                           *)
(***************************************************************************)
LEMMA SameAccount ==
    ASSUME source' = source, NEW g, NEW X, NEW h, NEW b, NEW l
    PROVE  Describes(g, X, h, b, l)' <=> Describes(g, X, h, b, l)
  <1>1. Nodes' = Nodes
    BY SameTree DEF Nodes
  <1>2. \A m : TextOf(g, m)' = TextOf(g, m)
    BY SameTexts DEF TextOf
  <1>3. \A n, k, s : (Breakable(n)' <=> Breakable(n)) /\ Pair(n, k)' = Pair(n, k) /\ Within(n, k, s)' = Within(n, k, s)
    <2> SUFFICES ASSUME NEW n, NEW k, NEW s
                 PROVE  (Breakable(n)' <=> Breakable(n)) /\ Pair(n, k)' = Pair(n, k) /\ Within(n, k, s)' = Within(n, k, s)
      OBVIOUS
    <2>1. Kind(n)' = Kind(n)
      BY SameTree
    <2>2. (Breakable(n)' <=> Breakable(n)) /\ Pair(n, k)' = Pair(n, k)
      BY <2>1 DEF Breakable, Pair, Loops, Targets, NoContinue
    <2> QED BY <2>2 DEF Within
  <1>4. \A n : Fresh(n)' = Fresh(n)
    <2> SUFFICES ASSUME NEW n PROVE Fresh(n)' = Fresh(n)
      OBVIOUS
    <2>1. Kind(n)' = Kind(n) /\ Kids(n)' = Kids(n) /\ (ConstantTest(n)' <=> ConstantTest(n))
      BY SameTree
    <2> QED BY <2>1 DEF Fresh
  <1>5. \A n : Ancestors(n)' = Ancestors(n)
    BY SameTree DEF Ancestors
  <1>6. \A n : (Removed(n)' <=> Removed(n))
    BY DEF Removed, Ancestors, NeverEntered, ConstantTest, Has, With, Kid, Kids, Kind, Up, Holds, program
  <1>7. \A n : Breakables(n)' = Breakables(n)
    BY SameTree DEF Breakables, Ancestors, Loops
  <1>8. \A n, m : (Innermost(n, m)' <=> Innermost(n, m))
    BY <1>7 DEF Innermost
  <1>9. \A m : AtOf(g, m)' = AtOf(g, m) /\ ToOf(g, m)' = ToOf(g, m) /\ Inside(g, m)' = Inside(g, m)
    BY <1>2, <1>3 DEF AtOf, ToOf, Inside
  <1>10. Placed(g)' = Placed(g)
    BY DEF Placed
  <1>11. AccountType(g)' <=> AccountType(g)
    BY <1>1 DEF AccountType, Work, Code, Ops, Stacks
  <1>12. TextType(X, h)' <=> TextType(X, h)
    BY DEF TextType, Work, Code, Ops, IsIns
  <1>13. Root(g, X)' <=> Root(g, X)
    BY <1>9, <1>10 DEF Root, Tree, Label, Ins, EndLabel
  <1>14. \A m, i : (LaidItem(g, X, m, i)' <=> LaidItem(g, X, m, i))
    BY <1>2, <1>9, <1>10 DEF LaidItem, IsIns
  <1>15. Laid(g, X)' <=> Laid(g, X)
    BY <1>2, <1>14 DEF Laid
  <1>16. Owned(g, X)' <=> Owned(g, X)
    BY <1>2, <1>9 DEF Owned, IsIns
  <1>17. Waiting(g, X, h)' <=> Waiting(g, X, h)
    BY <1>9 DEF Waiting
  <1>18. Items(g)' <=> Items(g)
    BY SameTree, <1>10 DEF Items, ItemOf, ConditionKinds
  <1>19. Inherits(g)' <=> Inherits(g)
    BY SameTree, <1>2, <1>10 DEF Inherits
  <1>20. Covers(g)' <=> Covers(g)
    BY SameTree, <1>1, <1>5, <1>6, <1>10 DEF Covers
  <1>21. Intervals(g, l)' <=> Intervals(g, l)
    BY <1>4 DEF Intervals
  <1>22. Stacked(g, X, h, b)' <=> Stacked(g, X, h, b)
    BY <1>9 DEF Stacked, IsIns
  <1>23. Mirrors(g)' <=> Mirrors(g)
    BY <1>3, <1>7, <1>8, <1>10 DEF Mirrors
  <1>24. JumpsOk(g)' <=> JumpsOk(g)
    BY SameTree DEF JumpsOk, NoContinue
  <1>25. TestsTarget(g, X)' <=> TestsTarget(g, X)
    BY <1>10 DEF TestsTarget, LabelIn, IsLabel, IsIns
  <1> QED BY <1>11, <1>12, <1>13, <1>15, <1>16, <1>17, <1>18, <1>19, <1>20, <1>21, <1>22, <1>23, <1>24, <1>25 DEF Describes

(***************************************************************************)
(* Nor what is misplaced or removed.                                       *)
(***************************************************************************)
LEMMA SameErrors ==
    ASSUME source' = source, NEW n
    PROVE  (Misplaced(n)' <=> Misplaced(n)) /\ (Removed(n)' <=> Removed(n)) /\ Nodes' = Nodes
  <1>1. \A m : Breakables(m)' = Breakables(m)
    BY SameTree DEF Breakables, Ancestors, Loops
  <1>2. \A m, k : (Innermost(m, k)' <=> Innermost(m, k))
    BY <1>1 DEF Innermost
  <1>3. Misplaced(n)' <=> Misplaced(n)
    BY SameTree, <1>1, <1>2 DEF Misplaced, Loops
  <1>4. Removed(n)' <=> Removed(n)
    BY DEF Removed, Ancestors, NeverEntered, ConstantTest, Has, With, Kid, Kids, Kind, Up, Holds, program
  <1>5. Nodes' = Nodes
    BY SameTree DEF Nodes
  <1> QED BY <1>3, <1>4, <1>5

(***************************************************************************)
(* The inductive invariant.                                                *)
(***************************************************************************)
Account == \E g : Describes(g, out \o todo, Len(out) + 1, breakables, labels)

(***************************************************************************)
(* The inductive invariant: an error was reported for a misplaced jump, or *)
(* there is an account of all that was emitted and is left to emit.        *)
(***************************************************************************)
EmitInv ==
    /\ source \in DOMAIN Programs
    /\ errors \in BOOLEAN
    /\ errors => \E n \in Nodes : Misplaced(n) /\ ~Removed(n)
    /\ ~errors => out \in Seq(Work) /\ todo \in Seq(Work) /\ Account

(***************************************************************************)
(* An account of the text after a step.                                    *)
(***************************************************************************)
LEMMA AccountAfter ==
    ASSUME source' = source, NEW g, NEW X, NEW h, NEW b, NEW l, Describes(g, X, h, b, l),
           X = out' \o todo', h = Len(out') + 1, b = breakables', l = labels'
    PROVE  Account'
  <1>1. Describes(g, X, h, b, l)'
    BY SameAccount
  <1> QED BY <1>1 DEF Account

(***************************************************************************)
(* The steps of the running code leave the invariant alone.                *)
(***************************************************************************)
LEMMA SameInv == ASSUME EmitInv, UNCHANGED <<source, emitVars>> PROVE EmitInv'
  <1>1. source' = source /\ out' = out /\ todo' = todo /\ breakables' = breakables /\ labels' = labels /\ errors' = errors
    BY DEF emitVars
  <1>2. CASE errors
    BY <1>1, <1>2, SameErrors DEF EmitInv
  <1>3. CASE ~errors
    <2>1. PICK g : Describes(g, out \o todo, Len(out) + 1, breakables, labels)
      BY <1>3 DEF EmitInv, Account
    <2>2. Account'
      BY <1>1, <2>1, AccountAfter
    <2>3. out' \in Seq(Work)' /\ todo' \in Seq(Work)'
      BY <1>1, <1>3 DEF EmitInv, Work, Code, Ops
    <2> QED BY <1>1, <1>3, <2>2, <2>3 DEF EmitInv
  <1> QED BY <1>2, <1>3 DEF EmitInv

(***************************************************************************)
(* The start.                                                              *)
(***************************************************************************)
StartAccount ==
    [done |-> {}, wait |-> {1}, from |-> [n \in Nodes |-> Tree(1)], base |-> [n \in Nodes |-> 0],
     stk |-> [n \in Nodes |-> <<>>], pos |-> [n \in Nodes |-> [i \in Nat |-> 1]], st |-> [p \in Nat |-> <<>>]]

(***************************************************************************)
(* The invariant holds at the start, with the root waiting.                *)
(***************************************************************************)
LEMMA InitInv == Init => EmitInv
  <1> SUFFICES ASSUME Init PROVE EmitInv
    OBVIOUS
  <1> DEFINE X == <<Tree(1), Label(EndLabel), Ins("RTS", 0)>>
             g == StartAccount
  <1>1. source \in DOMAIN Programs /\ todo = X /\ out = <<>> /\ breakables = <<>> /\ labels = 0 /\ errors = FALSE
    BY DEF Init
  <1>2. /\ 1 \in Nodes /\ Nodes = 1 .. Len(program) /\ Len(program) \in Nat /\ Kind(1) = "block" /\ program[1].last = Len(program)
    BY <1>1, NodeFacts, ProgramIsTree DEF IsTree, IsFunction, Kind
  <1>3. /\ X \in Seq(Work) /\ Len(X) = 3 /\ X[1] = Tree(1) /\ X[2] = Label(EndLabel) /\ X[3] = Ins("RTS", 0)
        /\ ~IsIns(X[1]) /\ IsIns(X[2]) /\ IsIns(X[3]) /\ X[2].w = "ins" /\ X[3].w = "ins"
    <2>1. Tree(1) \in Work /\ Label(EndLabel) \in Work
      BY ItemTypes DEF EndLabel
    <2>2. Ins("RTS", 0) \in Work
      BY DEF Ins, Work, Code, Ops
    <2>3. X \in Seq(Work)
      BY <2>1, <2>2
    <2> QED BY <2>3 DEF IsIns, Tree, Label, Ins
  <1>4. /\ g.done = {} /\ g.wait = {1} /\ Placed(g) = {1}
        /\ \A n \in Nodes : g.from[n] = Tree(1) /\ g.base[n] = 0 /\ g.stk[n] = <<>>
        /\ \A n \in Nodes : \A i \in Nat : g.pos[n][i] = 1
        /\ \A p \in Nat : g.st[p] = <<>>
    BY DEF StartAccount, Placed
  <1>5. AtOf(g, 1) = 1 /\ ToOf(g, 1) = 2
    BY <1>2, <1>4 DEF AtOf, ToOf
  <1> HIDE DEF X, g
  <1>6. AccountType(g)
    <2>1. Tree(1) \in Work /\ <<>> \in Stacks /\ 0 \in Nat /\ 1 \in Nat
      BY ItemTypes DEF Stacks
    <2> QED BY <2>1, <1>2, <1>4 DEF AccountType
  <1>7. TextType(X, 1) /\ Root(g, X) /\ Laid(g, X) /\ Waiting(g, X, 1)
    BY <1>2, <1>3, <1>4, <1>5 DEF TextType, Root, Laid, Waiting
  <1>8. Owned(g, X)
    BY <1>3, <1>4, <1>5 DEF Owned
  <1>9. Items(g) /\ Inherits(g) /\ JumpsOk(g) /\ TestsTarget(g, X)
    BY <1>2, <1>4 DEF Items, Inherits, JumpsOk, TestsTarget, ItemOf, Tree, ConditionKinds
  <1>10. Ancestors(1) = {}
    BY DEF Ancestors
  <1>11. Covers(g)
    <2>1. ~Removed(1)
      BY <1>10 DEF Removed, NeverEntered
    <2>2. \A n \in Nodes : n # 1 => 1 \in Ancestors(n)
      BY <1>1, <1>2, AncestorFacts
    <2> QED BY <2>1, <2>2, <1>4 DEF Covers
  <1>12. Intervals(g, 0)
    BY <1>4 DEF Intervals
  <1>13. Stacked(g, X, 1, <<>>)
    <2>1. \A p \in 1 .. Len(X) : IsIns(X[p]) => X[p].w # "end"
      BY <1>3
    <2> QED BY <2>1, <1>2, <1>3, <1>4, <1>5 DEF Stacked
  <1>14. Mirrors(g)
    BY <1>2, <1>4, <1>10 DEF Mirrors, Breakables
  <1>15. Describes(g, X, 1, <<>>, 0)
    BY <1>6, <1>7, <1>8, <1>9, <1>11, <1>12, <1>13, <1>14 DEF Describes
  <1>16. out \o todo = X /\ Len(out) + 1 = 1
    BY <1>1, <1>3
  <1>17. Account
    BY <1>1, <1>15, <1>16 DEF Account
  <1>18. out \in Seq(Work) /\ todo \in Seq(Work)
    BY <1>1, <1>3
  <1>19. errors = FALSE /\ source \in DOMAIN Programs
    BY <1>1
  <1> QED BY <1>17, <1>18, <1>19 DEF EmitInv

(***************************************************************************)
(* Instructions and labels pass to what was emitted.                       *)
(***************************************************************************)
LEMMA TextFacts ==
    ASSUME NEW o \in Seq(Work), NEW t \in Seq(Work), t # <<>>
    PROVE  /\ (o \o t)[Len(o) + 1] = Head(t) /\ Len(o) + 1 <= Len(o \o t) /\ o \o t \in Seq(Work)
           /\ Append(o, Head(t)) \o Tail(t) = o \o t /\ Len(Append(o, Head(t))) = Len(o) + 1
           /\ Append(o, Head(t)) \in Seq(Work) /\ Tail(t) \in Seq(Work) /\ Head(t) \in Work
  <1>1. Len(o) \in Nat /\ Len(t) \in Nat /\ Len(t) >= 1 /\ Head(t) = t[1] /\ Head(t) \in Work /\ Tail(t) \in Seq(Work)
    BY HeadOfSeq
  <1>2. o \o t \in Seq(Work) /\ Len(o \o t) = Len(o) + Len(t)
    OBVIOUS
  <1>3. (o \o t)[Len(o) + 1] = t[1]
    BY <1>1
  <1>4. Append(o, Head(t)) \in Seq(Work) /\ Len(Append(o, Head(t))) = Len(o) + 1
    BY <1>1
  <1>5. Append(o, Head(t)) \o Tail(t) = o \o t
    BY <1>1
  <1> QED BY <1>1, <1>2, <1>3, <1>4, <1>5

(***************************************************************************)
(* An item of the work that is replaced by a text.                         *)
(***************************************************************************)
LEMMA ReplacedText ==
    ASSUME NEW o \in Seq(Work), NEW t \in Seq(Work), t # <<>>, NEW u \in Seq(Work)
    PROVE  Replaced(o \o t, Len(o) + 1, u, o \o (u \o Tail(t))) /\ u \o Tail(t) \in Seq(Work)
  <1> DEFINE X == o \o t
             v == u \o Tail(t)
             X2 == o \o v
             h == Len(o) + 1
  <1>1. Len(o) \in Nat /\ Len(t) \in Nat /\ Len(t) >= 1 /\ Len(u) \in Nat /\ Tail(t) \in Seq(Work) /\ Len(Tail(t)) = Len(t) - 1
    BY HeadOfSeq
  <1>2. \A i \in 1 .. (Len(t) - 1) : Tail(t)[i] = t[i + 1]
    BY <1>1
  <1>3. /\ v \in Seq(Work) /\ Len(v) = Len(u) + Len(t) - 1
        /\ \A i \in 1 .. Len(u) : v[i] = u[i]
        /\ \A i \in 1 .. (Len(t) - 1) : v[Len(u) + i] = Tail(t)[i]
    <2>1. v \in Seq(Work) /\ Len(v) = Len(u) + Len(t) - 1
      BY <1>1
    <2>2. \A i \in 1 .. Len(u) : v[i] = u[i]
      BY <1>1
    <2>3. ASSUME NEW i \in 1 .. (Len(t) - 1) PROVE v[Len(u) + i] = Tail(t)[i]
      <3>1. Len(u) + i \in 1 .. (Len(u) + Len(Tail(t))) /\ Len(u) + i > Len(u) /\ (Len(u) + i) - Len(u) = i
        BY <1>1
      <3>2. v[Len(u) + i] = Tail(t)[(Len(u) + i) - Len(u)]
        BY <3>1, <1>1
      <3> QED BY <3>1, <3>2
    <2> QED BY <2>1, <2>2, <2>3
  <1>4. /\ Len(X) = Len(o) + Len(t)
        /\ \A p \in 1 .. Len(o) : X[p] = o[p]
        /\ \A i \in 1 .. Len(t) : X[Len(o) + i] = t[i]
    BY <1>1
  <1> HIDE DEF v
  <1>5. /\ X2 \in Seq(Work) /\ Len(X2) = Len(o) + Len(v)
        /\ \A p \in 1 .. Len(o) : X2[p] = o[p]
        /\ \A i \in 1 .. Len(v) : X2[Len(o) + i] = v[i]
    <2>0. v \in Seq(Work) /\ Len(v) \in Nat
      BY <1>1, <1>3
    <2>1. X2 \in Seq(Work) /\ Len(X2) = Len(o) + Len(v)
      BY <2>0
    <2>2. \A p \in 1 .. Len(o) : X2[p] = o[p]
      BY <2>0
    <2>3. ASSUME NEW i \in 1 .. Len(v) PROVE X2[Len(o) + i] = v[i]
      <3>1. Len(o) + i \in 1 .. (Len(o) + Len(v)) /\ Len(o) + i > Len(o) /\ (Len(o) + i) - Len(o) = i
        BY <1>1, <2>0
      <3>2. X2[Len(o) + i] = v[(Len(o) + i) - Len(o)]
        BY <3>1, <2>0, <1>1
      <3> QED BY <3>1, <3>2
    <2> QED BY <2>1, <2>2, <2>3
  <1> HIDE DEF X, X2
  <1>6. Len(X2) = Len(X) + Len(u) - 1
    BY <1>1, <1>3, <1>4, <1>5
  <1>7. \A p \in 1 .. (h - 1) : X2[p] = X[p]
    BY <1>1, <1>4, <1>5
  <1>8. ASSUME NEW i \in 1 .. Len(u) PROVE X2[h + i - 1] = u[i]
    <2>1. h + i - 1 = Len(o) + i /\ i \in 1 .. Len(v)
      BY <1>1, <1>3
    <2> QED BY <2>1, <1>3, <1>5
  <1>9. ASSUME NEW p \in (h + 1) .. Len(X) PROVE X2[p + Len(u) - 1] = X[p]
    <2>1. PICK i \in 1 .. (Len(t) - 1) : p = Len(o) + (i + 1)
      <3>1. p - Len(o) - 1 \in 1 .. (Len(t) - 1) /\ p = Len(o) + ((p - Len(o) - 1) + 1)
        BY <1>1, <1>4
      <3> QED BY <3>1
    <2>2. X[p] = t[i + 1]
      <3>1. i + 1 \in 1 .. Len(t)
        BY <1>1
      <3> QED BY <3>1, <2>1, <1>4
    <2>3. p + Len(u) - 1 = Len(o) + (Len(u) + i) /\ Len(u) + i \in 1 .. Len(v)
      BY <2>1, <1>1, <1>3
    <2>4. X2[p + Len(u) - 1] = v[Len(u) + i]
      BY <2>3, <1>5
    <2> QED BY <2>2, <2>4, <1>2, <1>3
  <1> QED BY <1>3, <1>5, <1>6, <1>7, <1>8, <1>9 DEF Replaced, X, X2, v

(***************************************************************************)
(* An instruction that passes to what was emitted keeps the account.       *)
(***************************************************************************)
LEMMA InsStep ==
    ASSUME source \in DOMAIN Programs, NEW g, NEW X, NEW h, NEW b, NEW l, Describes(g, X, h, b, l), h <= Len(X), IsIns(X[h])
    PROVE  Describes(g, X, h + 1, IF X[h].w = "end" THEN Tail(b) ELSE b, l)
  <1>1. X \in Seq(Work) /\ h \in Nat /\ h >= 1 /\ Len(X) \in Nat /\ \A p \in 1 .. (h - 1) : IsIns(X[p])
    BY DEF Describes, TextType
  <1>2. TextType(X, h + 1)
    <2>1. \A p \in 1 .. h : IsIns(X[p])
      BY <1>1
    <2> QED BY <2>1, <1>1 DEF TextType
  <1>3. ASSUME NEW m \in g.wait PROVE AtOf(g, m) >= h + 1 /\ AtOf(g, m) \in Nat
    <2>1. AtOf(g, m) >= h /\ X[AtOf(g, m)] = g.from[m]
      BY DEF Describes, Waiting
    <2>2. ~IsIns(g.from[m])
      BY DEF Describes, Items, ItemOf, IsIns, Placed
    <2>3. AtOf(g, m) # h
      BY <2>1, <2>2
    <2>4. AtOf(g, m) \in Nat
      BY DEF Describes, AccountType, AtOf
    <2> QED BY <2>1, <2>3, <2>4, <1>1
  <1>4. Waiting(g, X, h + 1)
    BY <1>3 DEF Describes, Waiting
  <1>5. Stacked(g, X, h + 1, IF X[h].w = "end" THEN Tail(b) ELSE b)
    <2>1. Stacked(g, X, h, b)
      BY DEF Describes
    <2>2. h \in h .. Len(X) /\ (h + 1) .. Len(X) \subseteq h .. Len(X)
      BY <1>1
    <2> QED BY <2>1, <2>2 DEF Stacked
  <1> QED BY <1>2, <1>4, <1>5 DEF Describes

(***************************************************************************)
(* The actions.                                                            *)
(***************************************************************************)
LEMMA ErrorInv == ASSUME EmitInv, errors, source' = source, errors' = TRUE PROVE EmitInv'
  BY SameErrors DEF EmitInv

(***************************************************************************)
(* What the invariant says of the head of the work.                        *)
(***************************************************************************)
LEMMA HeadFacts ==
    ASSUME EmitInv, ~errors, todo # <<>>
    PROVE  \E g : /\ Describes(g, out \o todo, Len(out) + 1, breakables, labels)
                  /\ (out \o todo)[Len(out) + 1] = Head(todo) /\ Len(out) + 1 <= Len(out \o todo)
                  /\ out \in Seq(Work) /\ todo \in Seq(Work) /\ labels \in Nat /\ Head(todo) \in Work
                  /\ ~IsIns(Head(todo)) => /\ ItemOf(Head(todo), Head(todo).tree) /\ Head(todo).tree \in Nodes
                                           /\ Head(todo).tree \in g.wait /\ g.stk[Head(todo).tree] = breakables
  <1>1. out \in Seq(Work) /\ todo \in Seq(Work) /\ source \in DOMAIN Programs
    BY DEF EmitInv
  <1>2. PICK g : Describes(g, out \o todo, Len(out) + 1, breakables, labels)
    BY DEF EmitInv, Account
  <1>3. (out \o todo)[Len(out) + 1] = Head(todo) /\ Len(out) + 1 <= Len(out \o todo) /\ Head(todo) \in Work
    BY <1>1, TextFacts
  <1>4. labels \in Nat
    BY <1>2 DEF Describes, Intervals
  <1>5. ASSUME ~IsIns(Head(todo))
        PROVE  /\ ItemOf(Head(todo), Head(todo).tree) /\ Head(todo).tree \in Nodes
               /\ Head(todo).tree \in g.wait /\ g.stk[Head(todo).tree] = breakables
    <2>1. Head(todo).tree \in g.wait /\ g.from[Head(todo).tree] = Head(todo) /\ g.stk[Head(todo).tree] = breakables
      <3>1. PICK X, h : X = out \o todo /\ h = Len(out) + 1
        OBVIOUS
      <3>2. Describes(g, X, h, breakables, labels) /\ h <= Len(X) /\ ~IsIns(X[h]) /\ X[h] = Head(todo)
        BY <3>1, <1>2, <1>3, <1>5
      <3>3. X[h].tree \in g.wait /\ g.from[X[h].tree] = X[h] /\ g.stk[X[h].tree] = breakables
        BY <3>2, <1>1, AtHead
      <3> QED BY <3>2, <3>3
    <2>2. ItemOf(g.from[Head(todo).tree], Head(todo).tree) /\ Head(todo).tree \in Nodes
      BY <2>1, <1>2 DEF Describes, Items, Placed, AccountType
    <2> QED BY <2>1, <2>2
  <1> QED BY <1>1, <1>2, <1>3, <1>4, <1>5

(***************************************************************************)
(* An action that replaces the head of the work by its text keeps the      *)
(* invariant.                                                              *)
(***************************************************************************)
LEMMA ExpandAction ==
    ASSUME EmitInv, ~errors, todo # <<>>, ~IsIns(Head(todo)),
           Kind(Head(todo).tree) \in {"break", "continue"} => breakables # <<>>,
           Kind(Head(todo).tree) = "continue" => breakables[1].continue # NoContinue,
           todo' = ItemText(Head(todo), labels, breakables) \o Tail(todo),
           breakables' = Within(Head(todo).tree, labels, breakables),
           labels' = labels + Fresh(Head(todo).tree),
           out' = out, errors' = errors, source' = source
    PROVE  EmitInv'
  <1>1. PICK g : /\ Describes(g, out \o todo, Len(out) + 1, breakables, labels)
                 /\ (out \o todo)[Len(out) + 1] = Head(todo) /\ Len(out) + 1 <= Len(out \o todo)
                 /\ out \in Seq(Work) /\ todo \in Seq(Work) /\ labels \in Nat /\ Head(todo) \in Work
                 /\ ItemOf(Head(todo), Head(todo).tree) /\ Head(todo).tree \in Nodes
                 /\ Head(todo).tree \in g.wait /\ g.stk[Head(todo).tree] = breakables
    BY HeadFacts
  <1>2. PICK u : u = ItemText(Head(todo), labels, breakables)
    OBVIOUS
  <1>3. source \in DOMAIN Programs
    BY DEF EmitInv
  <1>4. breakables \in Stacks
    BY <1>1 DEF Describes, AccountType
  <1>5. TextGood(Head(todo), Head(todo).tree, labels, breakables, u)
    BY <1>1, <1>2, <1>3, <1>4, ItemGood
  <1>6. u \in Seq(Work)
    BY <1>5 DEF TextGood, KidsLaid
  <1>7. PICK X, h, Y : X = out \o todo /\ h = Len(out) + 1 /\ Y = out \o (u \o Tail(todo))
    OBVIOUS
  <1>8. Replaced(X, h, u, Y) /\ u \o Tail(todo) \in Seq(Work)
    BY <1>1, <1>6, <1>7, ReplacedText
  <1>9. Step(g, X, h, breakables, labels, u, Y)
    <2>1. CanExpand(X, h, breakables)
      BY <1>1, <1>7 DEF CanExpand
    <2> QED BY <2>1, <1>1, <1>2, <1>7, <1>8 DEF Step
  <1>10. PICK g2 : Describes(g2, Y, h, Within(X[h].tree, labels, breakables), labels + Fresh(X[h].tree))
    BY <1>3, <1>9, Expand
  <1>11. X[h] = Head(todo)
    BY <1>1, <1>7
  <1>12. PICK b2, l2 : b2 = Within(Head(todo).tree, labels, breakables) /\ l2 = labels + Fresh(Head(todo).tree)
    OBVIOUS
  <1>13. Describes(g2, Y, h, b2, l2) /\ Y = out' \o todo' /\ h = Len(out') + 1 /\ b2 = breakables' /\ l2 = labels'
    BY <1>2, <1>7, <1>10, <1>11, <1>12
  <1>14. Account'
    BY <1>13, AccountAfter
  <1>15. out' \in Seq(Work)' /\ todo' \in Seq(Work)'
    <2>1. Work' = Work
      BY DEF Work, Code, Ops
    <2> QED BY <2>1, <1>1, <1>2, <1>8
  <1> QED BY <1>3, <1>14, <1>15 DEF EmitInv

(***************************************************************************)
(* Instructions and labels.                                                *)
(***************************************************************************)
LEMMA EmitInsInv == ASSUME EmitInv, ~errors, EmitIns \/ EmitEnd PROVE EmitInv'
  <1>1. todo # <<>> /\ out' = Append(out, Head(todo)) /\ todo' = Tail(todo) /\ labels' = labels /\ errors' = errors /\ source' = source
    BY DEF EmitIns, EmitEnd, Emitting
  <1>2. IsIns(Head(todo)) /\ breakables' = IF Head(todo).w = "end" THEN Tail(breakables) ELSE breakables
    BY DEF EmitIns, EmitEnd, Emitting, IsIns
  <1>3. PICK g : /\ Describes(g, out \o todo, Len(out) + 1, breakables, labels)
                 /\ (out \o todo)[Len(out) + 1] = Head(todo) /\ Len(out) + 1 <= Len(out \o todo)
                 /\ out \in Seq(Work) /\ todo \in Seq(Work)
    BY <1>1, HeadFacts
  <1>4. PICK X, h : X = out \o todo /\ h = Len(out) + 1
    OBVIOUS
  <1>5. source \in DOMAIN Programs
    BY DEF EmitInv
  <1>6. Describes(g, X, h + 1, IF X[h].w = "end" THEN Tail(breakables) ELSE breakables, labels)
    <2>1. Describes(g, X, h, breakables, labels) /\ h <= Len(X) /\ IsIns(X[h])
      BY <1>2, <1>3, <1>4
    <2> QED BY <2>1, <1>5, InsStep
  <1>7. X = out' \o todo' /\ h + 1 = Len(out') + 1 /\ out' \in Seq(Work) /\ todo' \in Seq(Work)
    BY <1>1, <1>3, <1>4, TextFacts
  <1>8. PICK h2, b2, l2 : h2 = h + 1 /\ b2 = breakables' /\ l2 = labels'
    OBVIOUS
  <1>9. Describes(g, X, h2, b2, l2) /\ X = out' \o todo' /\ h2 = Len(out') + 1
    BY <1>1, <1>2, <1>3, <1>4, <1>6, <1>7, <1>8
  <1>10. Account'
    BY <1>1, <1>8, <1>9, AccountAfter
  <1>11. Work' = Work
    BY DEF Work, Code, Ops
  <1> QED BY <1>1, <1>5, <1>7, <1>10, <1>11 DEF EmitInv

(***************************************************************************)
(* The statements.                                                         *)
(***************************************************************************)
LEMMA EmitTreeInv ==
    ASSUME EmitInv, ~errors, EmitPrimitive \/ EmitSequence \/ EmitIf \/ EmitWhile \/ EmitFor \/ EmitSwitch \/ EmitJump
                             \/ EmitReturn \/ EmitGoto \/ EmitLabeled
    PROVE  EmitInv'
  <1> DEFINE n == Head(todo).tree
  <1>1. /\ todo # <<>> /\ Head(todo).w = "tree" /\ out' = out /\ errors' = errors /\ source' = source
    BY DEF EmitPrimitive, EmitSequence, EmitIf, EmitWhile, EmitFor, EmitSwitch, EmitJump, EmitReturn, EmitGoto, EmitLabeled,
           EmittingTree, Emitting, NoJump, NoPush, NoEmit
  <1>2. ~IsIns(Head(todo)) /\ ItemText(Head(todo), labels, breakables) = TreeText(n, labels, breakables)
    BY <1>1 DEF IsIns, ItemText
  <1>3. labels \in Nat /\ labels + 0 = labels
    BY <1>1, HeadFacts
  <1>4. SUFFICES /\ todo' = TreeText(n, labels, breakables) \o Tail(todo)
                 /\ breakables' = Within(n, labels, breakables) /\ labels' = labels + Fresh(n)
                 /\ Kind(n) \in {"break", "continue"} => breakables # <<>>
                 /\ Kind(n) = "continue" => breakables[1].continue # NoContinue
    BY <1>1, <1>2, ExpandAction
  <1> USE DEF EmittingTree, Replace, TreeText, Within, Fresh, Breakable, Loops
  <1>5. CASE EmitPrimitive
    BY <1>5, <1>3 DEF EmitPrimitive, NoJump, NoPush
  <1>6. CASE EmitSequence
    BY <1>6, <1>3 DEF EmitSequence, NoJump, NoPush
  <1>7. CASE EmitIf
    BY <1>7, <1>3 DEF EmitIf, NoPush
  <1>8. CASE EmitWhile
    BY <1>8, <1>3 DEF EmitWhile, Push, Pair
  <1>9. CASE EmitFor
    BY <1>9, <1>3 DEF EmitFor, Push, Pair
  <1>10. CASE EmitSwitch
    <2>1. Kind(n) = "switch" /\ labels' = labels + 1 + Len(Kids(n)) /\ breakables' = <<Targets(labels + 1, NoContinue)>> \o breakables
      BY <1>10 DEF EmitSwitch, Push
    <2>2. labels' = labels + (1 + Len(Kids(n)))
      <3>1. Len(Kids(n)) \in Nat
        <4>1. n \in Nodes /\ source \in DOMAIN Programs
          BY <1>1, <1>2, HeadFacts DEF EmitInv
        <4> QED BY <4>1, KidFacts
      <3> QED BY <3>1, <2>1, <1>3
    <2> QED BY <1>10, <2>1, <2>2 DEF EmitSwitch, Pair
  <1>11. CASE EmitJump
    BY <1>11, <1>3 DEF EmitJump, JumpTarget, NoJump, NoPush
  <1>12. CASE EmitReturn
    BY <1>12, <1>3 DEF EmitReturn, NoJump, NoPush
  <1>13. CASE EmitGoto
    BY <1>13, <1>3 DEF EmitGoto, NoJump, NoPush
  <1>14. CASE EmitLabeled
    BY <1>14, <1>3 DEF EmitLabeled, NoJump, NoPush
  <1> QED BY <1>5, <1>6, <1>7, <1>8, <1>9, <1>10, <1>11, <1>12, <1>13, <1>14

(***************************************************************************)
(* Cases and conditions.                                                   *)
(***************************************************************************)
LEMMA EmitRestInv == ASSUME EmitInv, ~errors, EmitCase \/ EmitBoolJumps PROVE EmitInv'
  <1> DEFINE n == Head(todo).tree
  <1>1. todo # <<>> /\ out' = out /\ errors' = errors /\ source' = source /\ Head(todo).w \in {"case", "jumps"} /\ breakables' = breakables
    BY DEF EmitCase, EmitBoolJumps, Emitting, NoJump, NoPush
  <1>2. ~IsIns(Head(todo))
    BY <1>1 DEF IsIns
  <1>3. labels \in Nat /\ labels + 0 = labels /\ ItemOf(Head(todo), n)
    BY <1>1, <1>2, HeadFacts
  <1>4. /\ Head(todo).w = "case" => Kind(n) = "case"
        /\ Head(todo).w = "jumps" => Kind(n) \in ConditionKinds
    BY <1>3 DEF ItemOf
  <1>5. breakables' = Within(n, labels, breakables) /\ Kind(n) \notin {"break", "continue"}
    BY <1>1, <1>4 DEF Within, Breakable, Loops, ConditionKinds
  <1>6. labels' = labels + Fresh(n)
    <2>1. CASE EmitCase
      BY <2>1, <1>3, <1>4 DEF EmitCase, Emitting, NoJump, Fresh
    <2>2. CASE EmitBoolJumps
      BY <2>2, <1>3, <1>4 DEF EmitBoolJumps, Emitting, Fresh, ConditionKinds
    <2> QED BY <2>1, <2>2
  <1>7. todo' = ItemText(Head(todo), labels, breakables) \o Tail(todo)
    BY DEF EmitCase, EmitBoolJumps, Emitting, Replace, ItemText
  <1> QED BY <1>1, <1>2, <1>5, <1>6, <1>7, ExpandAction

(***************************************************************************)
(* An error is only reported for a misplaced jump that is not removed.     *)
(***************************************************************************)
LEMMA ReportInv == ASSUME EmitInv, ~errors, ReportJump PROVE EmitInv'
  <1> DEFINE n == Head(todo).tree
  <1>1. /\ todo # <<>> /\ Head(todo).w = "tree" /\ errors' = TRUE /\ source' = source /\ Kind(n) \in {"break", "continue"}
        /\ breakables = <<>> \/ JumpTarget(n) = NoContinue
    BY DEF ReportJump, EmittingTree, Emitting
  <1>2. ~IsIns(Head(todo))
    BY <1>1 DEF IsIns
  <1>3. PICK g : /\ Describes(g, out \o todo, Len(out) + 1, breakables, labels)
                 /\ n \in Nodes /\ n \in g.wait /\ g.stk[n] = breakables
    BY <1>1, <1>2, HeadFacts
  <1>4. ~Removed(n)
    BY <1>3 DEF Describes, Covers, Placed
  <1>5. IF breakables = <<>> THEN Breakables(n) = {}
        ELSE \E m \in g.done : Innermost(n, m) /\ Head(breakables) = Pair(m, g.base[m])
    BY <1>3 DEF Describes, Mirrors, Placed
  <1>6. Misplaced(n)
    <2>1. CASE breakables = <<>>
      <3>1. Breakables(n) = {}
        BY <2>1, <1>5
      <3> QED BY <3>1, <1>1 DEF Misplaced, Innermost
    <2>2. CASE breakables # <<>>
      <3>1. PICK m \in g.done : Innermost(n, m) /\ Head(breakables) = Pair(m, g.base[m])
        BY <2>2, <1>5
      <3>2. breakables \in Stacks /\ m \in Nodes /\ g.base[m] \in Nat
        BY <1>3 DEF Describes, AccountType
      <3>3. breakables[1] = Pair(m, g.base[m])
        BY <3>1, <3>2, <2>2, HeadOfSeq DEF Stacks
      <3>4. Kind(n) = "continue" /\ Kind(m) \notin Loops
        BY <3>2, <3>3, <2>2, <1>1 DEF JumpTarget, Pair, Targets, NoContinue, Loops
      <3>5. \A k : Innermost(n, k) => k = m
        BY <3>1, <1>3, NodeFacts DEF Innermost, Breakables, Ancestors
      <3> QED BY <3>4, <3>5 DEF Misplaced
    <2> QED BY <2>1, <2>2
  <1>7. source \in DOMAIN Programs
    BY DEF EmitInv
  <1> QED BY <1>1, <1>3, <1>4, <1>6, <1>7, SameErrors DEF EmitInv

(***************************************************************************)
(* Every step keeps the invariant.                                         *)
(***************************************************************************)
LEMMA NextInv == ASSUME EmitInv, [Next]_vars PROVE EmitInv'
  <1>1. CASE Emit
    <2>1. CASE errors
      <3>1. source' = source /\ errors' = TRUE
        BY <1>1, <2>1
           DEF Emit, EmitIns, EmitEnd, EmitPrimitive, EmitSequence, EmitIf, EmitWhile, EmitFor, EmitSwitch, EmitCase, EmitJump,
               ReportJump, EmitReturn, EmitGoto, EmitLabeled, EmitBoolJumps, NoJump, NoPush, NoEmit, EmitInv
      <3> QED BY <3>1, <2>1, ErrorInv
    <2>2. CASE ~errors
      BY <1>1, <2>2, EmitInsInv, EmitTreeInv, EmitRestInv, ReportInv DEF Emit
    <2> QED BY <2>1, <2>2
  <1>2. CASE CallFunction \/ CodeStep \/ WalkStep \/ DoStatement \/ Test \/ Select \/ Return \/ UNCHANGED vars
    <2>1. UNCHANGED <<source, emitVars>>
      BY <1>2 DEF CallFunction, CodeStep, WalkStep, DoStatement, Test, Select, Return, vars
    <2> QED BY <2>1, SameInv
  <1> QED BY <1>1, <1>2 DEF Next

-----------------------------------------------------------------------------
(***************************************************************************)
(* What was emitted.                                                       *)
(***************************************************************************)
(***************************************************************************)
(* When everything is emitted.                                             *)
(***************************************************************************)
LEMMA EmittedFacts ==
    ASSUME EmitInv, ~errors, Emitted
    PROVE  /\ source \in DOMAIN Programs /\ out \in Seq(Work) /\ Len(out) \in Nat /\ DOMAIN out = 1 .. Len(out)
           /\ \A p \in DOMAIN out : IsIns(out[p])
           /\ \E g : Describes(g, out, Len(out) + 1, breakables, labels) /\ g.wait = {} /\ Placed(g) = g.done
  <1>1. todo = <<>> /\ out \in Seq(Work) /\ source \in DOMAIN Programs /\ Len(out) \in Nat /\ DOMAIN out = 1 .. Len(out)
    BY DEF EmitInv, Emitted
  <1>2. out \o todo = out
    BY <1>1
  <1>3. PICK g : Describes(g, out, Len(out) + 1, breakables, labels)
    BY <1>2 DEF EmitInv, Account
  <1>4. g.wait = {}
    <2> SUFFICES ASSUME NEW m \in g.wait PROVE FALSE
      OBVIOUS
    <2>1. AtOf(g, m) >= Len(out) + 1 /\ AtOf(g, m) <= Len(out) - 2
      BY <1>3 DEF Describes, Waiting
    <2>2. AtOf(g, m) \in Nat
      BY <1>3 DEF Describes, AccountType, AtOf
    <2> QED BY <2>1, <2>2, <1>1
  <1>5. \A p \in DOMAIN out : IsIns(out[p])
    <2>1. \A p \in 1 .. ((Len(out) + 1) - 1) : IsIns(out[p])
      BY <1>3 DEF Describes, TextType
    <2> QED BY <2>1, <1>1
  <1> QED BY <1>1, <1>3, <1>4, <1>5 DEF Placed

(***************************************************************************)
(* There is one closest loop or switch.                                    *)
(***************************************************************************)
LEMMA InnermostOnce ==
    ASSUME source \in DOMAIN Programs, NEW n \in Nodes, NEW m, NEW k, Innermost(n, m), Innermost(n, k)
    PROVE  m = k
  BY NodeFacts DEF Innermost, Breakables, Ancestors

(***************************************************************************)
(* When all was emitted without an error, no jump was misplaced.           *)
(***************************************************************************)
LEMMA ReportedInv == EmitInv => ErrorsReported
  <1> SUFFICES ASSUME EmitInv, Emitted, ~errors, NEW n \in Nodes, Misplaced(n), ~Removed(n) PROVE FALSE
    BY DEF ErrorsReported, EmitInv, Nodes
  <1>1. PICK g : Describes(g, out, Len(out) + 1, breakables, labels) /\ g.wait = {} /\ Placed(g) = g.done
    BY EmittedFacts
  <1>2. Kind(n) \in {"break", "continue"}
    BY DEF Misplaced
  <1>3. n \in g.done
    BY <1>1, <1>2 DEF Describes, Covers
  <1>4. g.stk[n] # <<>> /\ (Kind(n) = "continue" => Head(g.stk[n]).continue # NoContinue)
    BY <1>1, <1>2, <1>3 DEF Describes, JumpsOk
  <1>5. PICK m \in g.done : Innermost(n, m) /\ Head(g.stk[n]) = Pair(m, g.base[m])
    BY <1>1, <1>3, <1>4 DEF Describes, Mirrors
  <1>6. CASE Kind(n) = "break"
    BY <1>5, <1>6 DEF Misplaced, Innermost
  <1>7. CASE Kind(n) = "continue"
    <2>1. Kind(m) \in Loops
      BY <1>4, <1>5, <1>7 DEF Pair, Targets, Loops
    <2>2. m \in DOMAIN program
      BY <1>1 DEF Describes, AccountType, Nodes
    <2> QED BY <1>5, <1>7, <2>1, <2>2 DEF Misplaced
  <1> QED BY <1>2, <1>6, <1>7

(***************************************************************************)
(* To which text a label belongs.                                          *)
(***************************************************************************)
LEMMA CaseItem ==
    ASSUME source \in DOMAIN Programs, NEW g, NEW X, NEW h, NEW b, NEW l, Describes(g, X, h, b, l), NEW m \in g.done, g.from[m].w = "case"
    PROVE  /\ Kind(m) = "case" /\ Up(m) \in g.done /\ Kind(Up(m)) = "switch"
           /\ \E j \in DOMAIN Kids(Up(m)) : Kids(Up(m))[j] = m /\ g.from[m].label = g.base[Up(m)] + 1 + j
  <1>1. Kind(m) = "case" /\ m \in Nodes /\ g.from[m].tree = m
    BY DoneGood DEF ItemOf
  <1>2. m # 1
    BY DEF Describes, Root, Tree
  <1>3. Up(m) \in g.done /\ \E i \in DOMAIN TextOf(g, Up(m)) : TextOf(g, Up(m))[i] = g.from[m]
    BY <1>2 DEF Describes, Inherits, Placed
  <1>4. Kind(Up(m)) = "switch"
    BY <1>1, <1>2, KidRoles
  <1>5. TextOf(g, Up(m)) = SwitchText(Up(m), g.base[Up(m)]) /\ Up(m) \in Nodes /\ g.base[Up(m)] \in Nat
    <2>1. ItemOf(g.from[Up(m)], Up(m)) /\ Up(m) \in Nodes /\ g.base[Up(m)] \in Nat
      BY <1>3, DoneGood
    <2>2. g.from[Up(m)].w = "tree" /\ g.from[Up(m)].tree = Up(m)
      BY <2>1, <1>4 DEF ItemOf, ConditionKinds
    <2> QED BY <2>1, <2>2, <1>4 DEF TextOf, ItemText, TreeText
  <1>6. PICK s, w : s = Up(m) /\ w = g.base[s]
    OBVIOUS
  <1>7. s \in Nodes /\ w \in Nat /\ Kind(s) = "switch" /\ TextOf(g, s) = SwitchText(s, w)
    BY <1>4, <1>5, <1>6
  <1>8. /\ \A i \in DOMAIN SwitchText(s, w) : i = 1 \/ i = Len(Kids(s)) + 2 \/ \E j \in DOMAIN Kids(s) : i = j + 1
        /\ SwitchText(s, w)[1].w = "ins" /\ SwitchText(s, w)[Len(Kids(s)) + 2].w = "end"
        /\ \A j \in DOMAIN Kids(s) : SwitchText(s, w)[j + 1].tree = Kids(s)[j] /\ SwitchText(s, w)[j + 1].label = w + 1 + j
    <2>1. PICK u, k : u = SwitchText(s, w) /\ k = Len(Kids(s))
      OBVIOUS
    <2>0. SwitchShape(s, w, k, u)
      BY <1>7, <2>1, SwitchItems
    <2>5. DOMAIN u = 1 .. (k + 2) /\ DOMAIN Kids(s) = 1 .. k /\ k \in Nat
      BY <2>0 DEF SwitchShape
    <2>2. ASSUME NEW i \in DOMAIN u, i # 1, i # k + 2 PROVE \E j \in DOMAIN Kids(s) : i = j + 1
      <3>1. i - 1 \in DOMAIN Kids(s) /\ i = (i - 1) + 1
        BY <2>2, <2>5
      <3> QED BY <3>1
    <2>3. u[1].w = "ins" /\ u[k + 2].w = "end"
      BY <2>0 DEF SwitchShape
    <2>4. \A j \in DOMAIN Kids(s) : u[j + 1].tree = Kids(s)[j] /\ u[j + 1].label = w + 1 + j
      BY <2>0 DEF SwitchShape
    <2> QED BY <2>1, <2>2, <2>3, <2>4
  <1>9. PICK i \in DOMAIN SwitchText(s, w) : SwitchText(s, w)[i] = g.from[m]
    BY <1>3, <1>6, <1>7
  <1>10. PICK j \in DOMAIN Kids(s) : i = j + 1
    BY <1>8, <1>9
  <1>11. Kids(s)[j] = m /\ g.from[m].label = w + 1 + j
    BY <1>1, <1>8, <1>9, <1>10
  <1> QED BY <1>1, <1>3, <1>4, <1>6, <1>11

(***************************************************************************)
(* To which text a label belongs.                                          *)
(***************************************************************************)
OwnLabel(g, m, v) == v \in (g.base[m] + 1) .. (g.base[m] + Fresh(m)) /\ (Kind(m) = "switch" => v = g.base[m] + 1)
CaseLabelOf(g, m, v) ==
    /\ Kind(m) = "case" /\ Up(m) \in g.done /\ Kind(Up(m)) = "switch"
    /\ \E j \in DOMAIN Kids(Up(m)) : Kids(Up(m))[j] = m /\ v = g.base[Up(m)] + 1 + j
LabeledBy(m, v) == Kind(m) = "label" /\ v = SourceLabel(program[m].tag)

(***************************************************************************)
(* A label in the text of a node is its own, that of its case, or that of  *)
(* the source.                                                             *)
(***************************************************************************)
LEMMA LabelOwner ==
    ASSUME source \in DOMAIN Programs, NEW g, NEW X, NEW h, NEW b, NEW l, Describes(g, X, h, b, l),
           NEW m \in g.done, NEW i \in DOMAIN TextOf(g, m), NEW v, IsLabel(TextOf(g, m)[i], v)
    PROVE  OwnLabel(g, m, v) \/ (i = 1 /\ CaseLabelOf(g, m, v)) \/ (i = 1 /\ LabeledBy(m, v))
  <1>1. LabelsLaid(g.from[m], m, g.base[m], TextOf(g, m))
    BY DoneGood DEF TextGood
  <1>2. \/ v \in (g.base[m] + 1) .. (g.base[m] + Fresh(m))
        \/ i = 1 /\ g.from[m].w = "case" /\ v = g.from[m].label
        \/ i = 1 /\ Kind(m) = "label" /\ v = SourceLabel(program[m].tag)
    BY <1>1 DEF LabelsLaid, IsLabel
  <1>3. Kind(m) = "switch" => v = g.base[m] + 1
    <2> SUFFICES ASSUME Kind(m) = "switch" PROVE v = g.base[m] + 1
      OBVIOUS
    <2>1. ItemOf(g.from[m], m) /\ m \in Nodes /\ g.base[m] \in Nat
      BY DoneGood
    <2>2. g.from[m].w = "tree" /\ g.from[m].tree = m
      BY <2>1 DEF ItemOf, ConditionKinds
    <2>3. TextOf(g, m) = SwitchText(m, g.base[m])
      BY <2>2 DEF TextOf, ItemText, TreeText
    <2>4. PICK w : w = g.base[m]
      OBVIOUS
    <2>5. w \in Nat /\ m \in Nodes /\ TextOf(g, m) = SwitchText(m, w)
      BY <2>1, <2>3, <2>4
    <2>6. /\ \A j \in DOMAIN SwitchText(m, w) : j = 1 \/ j = Len(Kids(m)) + 2 \/ \E k \in DOMAIN Kids(m) : j = k + 1
          /\ SwitchText(m, w)[1].op = "SELECT" /\ SwitchText(m, w)[Len(Kids(m)) + 2].arg = w + 1
          /\ \A j \in DOMAIN Kids(m) : ~IsIns(SwitchText(m, w)[j + 1])
      <3>1. SwitchShape(m, w, Len(Kids(m)), SwitchText(m, w))
        BY <2>5, SwitchItems
      <3> QED BY <3>1 DEF SwitchShape
    <2> QED BY <2>4, <2>5, <2>6 DEF IsLabel
  <1> QED BY <1>2, <1>3, CaseItem DEF OwnLabel, CaseLabelOf, LabeledBy

(***************************************************************************)
(* A label has the number of one text, and is there once.                  *)
(***************************************************************************)
LEMMA OwnersAgree ==
    ASSUME source \in DOMAIN Programs, NEW g, NEW X, NEW h, NEW b, NEW l, Describes(g, X, h, b, l), NEW v,
           NEW m \in g.done, NEW k \in g.done
    PROVE  /\ OwnLabel(g, m, v) /\ OwnLabel(g, k, v) => m = k
           /\ ~(OwnLabel(g, m, v) /\ CaseLabelOf(g, k, v))
           /\ CaseLabelOf(g, m, v) /\ CaseLabelOf(g, k, v) => m = k
           /\ LabeledBy(m, v) /\ LabeledBy(k, v) => m = k
           /\ ~(LabeledBy(m, v) /\ (OwnLabel(g, k, v) \/ CaseLabelOf(g, k, v)))
           /\ OwnLabel(g, m, v) \/ CaseLabelOf(g, m, v) => v \in Nat /\ v > 0
           /\ LabeledBy(m, v) => v \in Int /\ v < 0
           /\ (CaseLabelOf(g, k, v) => Up(k) \in g.done /\ Kind(Up(k)) = "switch" /\ v \in (g.base[Up(k)] + 2) .. (g.base[Up(k)] + Fresh(Up(k))))
  <1>1. \A n \in g.done : n \in Nodes /\ g.base[n] \in Nat /\ Fresh(n) \in Nat
    BY FreshNat DEF Describes, AccountType
  <1>2. \A n, w \in g.done : n # w => g.base[n] + Fresh(n) <= g.base[w] \/ g.base[w] + Fresh(w) <= g.base[n]
    BY DEF Describes, Intervals
  <1>3. ASSUME NEW n \in g.done, CaseLabelOf(g, n, v)
        PROVE  Up(n) \in g.done /\ Kind(Up(n)) = "switch" /\ v \in (g.base[Up(n)] + 2) .. (g.base[Up(n)] + Fresh(Up(n)))
    <2>1. PICK j \in DOMAIN Kids(Up(n)) : v = g.base[Up(n)] + 1 + j
      BY <1>3 DEF CaseLabelOf
    <2>2. DOMAIN Kids(Up(n)) = 1 .. Len(Kids(Up(n))) /\ Len(Kids(Up(n))) \in Nat
      BY <1>1, <1>3, KidFacts DEF CaseLabelOf
    <2>3. Fresh(Up(n)) = 1 + Len(Kids(Up(n))) /\ g.base[Up(n)] \in Nat
      BY <1>1, <1>3 DEF CaseLabelOf, Fresh
    <2> QED BY <1>3, <2>1, <2>2, <2>3, SMTT(30) DEF CaseLabelOf
  <1>4. OwnLabel(g, m, v) /\ OwnLabel(g, k, v) => m = k
    BY <1>1, <1>2 DEF OwnLabel
  <1>5. ~(OwnLabel(g, m, v) /\ CaseLabelOf(g, k, v))
    <2> SUFFICES ASSUME OwnLabel(g, m, v), CaseLabelOf(g, k, v) PROVE FALSE
      OBVIOUS
    <2>1. Up(k) \in g.done /\ Kind(Up(k)) = "switch" /\ v \in (g.base[Up(k)] + 2) .. (g.base[Up(k)] + Fresh(Up(k)))
      BY <1>3
    <2>2. m = Up(k)
      BY <2>1, <1>1, <1>2 DEF OwnLabel
    <2> QED BY <2>1, <2>2, <1>1 DEF OwnLabel
  <1>6. CaseLabelOf(g, m, v) /\ CaseLabelOf(g, k, v) => m = k
    <2> SUFFICES ASSUME CaseLabelOf(g, m, v), CaseLabelOf(g, k, v) PROVE m = k
      OBVIOUS
    <2>1. /\ Up(m) \in g.done /\ v \in (g.base[Up(m)] + 2) .. (g.base[Up(m)] + Fresh(Up(m)))
          /\ Up(k) \in g.done /\ v \in (g.base[Up(k)] + 2) .. (g.base[Up(k)] + Fresh(Up(k)))
      BY <1>3
    <2>2. Up(m) = Up(k)
      BY <2>1, <1>1, <1>2
    <2>3. PICK j \in DOMAIN Kids(Up(m)) : Kids(Up(m))[j] = m /\ v = g.base[Up(m)] + 1 + j
      BY DEF CaseLabelOf
    <2>4. PICK i \in DOMAIN Kids(Up(k)) : Kids(Up(k))[i] = k /\ v = g.base[Up(k)] + 1 + i
      BY DEF CaseLabelOf
    <2>5. i = j
      <3>1. DOMAIN Kids(Up(m)) = 1 .. Len(Kids(Up(m))) /\ Len(Kids(Up(m))) \in Nat
        BY <1>1, <2>1, KidFacts
      <3>2. i \in Nat /\ j \in Nat /\ g.base[Up(m)] \in Nat
        BY <3>1, <2>1, <2>2, <2>3, <2>4, <1>1
      <3>3. g.base[Up(m)] + 1 + j = g.base[Up(m)] + 1 + i
        BY <2>2, <2>3, <2>4
      <3> QED BY <3>2, <3>3
    <2> QED BY <2>2, <2>3, <2>4, <2>5
  <1>7. ASSUME NEW n \in g.done, LabeledBy(n, v) PROVE v \in Int /\ v < 0
    <2>1. program[n].tag \in Int
      BY <1>1, NodeFacts DEF Node
    <2>2. program[n].tag > 0
      BY <1>1, <1>7, ProgramIsTree DEF IsFunction, LabeledBy, Nodes, Kind
    <2> QED BY <2>1, <2>2, <1>7 DEF LabeledBy, SourceLabel
  <1>8. LabeledBy(m, v) /\ LabeledBy(k, v) => m = k
    <2> SUFFICES ASSUME LabeledBy(m, v), LabeledBy(k, v) PROVE m = k
      OBVIOUS
    <2>1. program[m].tag \in Int /\ program[k].tag \in Int
      BY <1>1, NodeFacts DEF Node
    <2>2. program[m].tag = program[k].tag
      BY <2>1 DEF LabeledBy, SourceLabel
    <2> QED BY <2>2, <1>1, ProgramIsTree DEF IsFunction, LabeledBy, Nodes, Kind
  <1>9. ASSUME NEW n \in g.done, OwnLabel(g, n, v) \/ CaseLabelOf(g, n, v) PROVE v \in Nat /\ v > 0
    <2>1. CASE OwnLabel(g, n, v)
      BY <2>1, <1>1 DEF OwnLabel
    <2>2. CASE CaseLabelOf(g, n, v)
      <3>1. Up(n) \in g.done /\ v \in (g.base[Up(n)] + 2) .. (g.base[Up(n)] + Fresh(Up(n)))
        BY <2>2, <1>3
      <3> QED BY <3>1, <1>1
    <2> QED BY <1>9, <2>1, <2>2
  <1>10. ~(LabeledBy(m, v) /\ (OwnLabel(g, k, v) \/ CaseLabelOf(g, k, v)))
    <2> SUFFICES ASSUME LabeledBy(m, v), OwnLabel(g, k, v) \/ CaseLabelOf(g, k, v) PROVE FALSE
      OBVIOUS
    <2>1. v \in Int /\ v < 0
      BY <1>7
    <2>2. v \in Nat /\ v > 0
      BY <1>9
    <2> QED BY <2>1, <2>2
  <1>11. OwnLabel(g, m, v) \/ CaseLabelOf(g, m, v) => v \in Nat /\ v > 0
    BY <1>9
  <1>12. LabeledBy(m, v) => v \in Int /\ v < 0
    BY <1>7
  <1>13. CaseLabelOf(g, k, v) => Up(k) \in g.done /\ Kind(Up(k)) = "switch" /\ v \in (g.base[Up(k)] + 2) .. (g.base[Up(k)] + Fresh(Up(k)))
    BY <1>3
  <1> QED BY <1>4, <1>5, <1>6, <1>8, <1>10, <1>11, <1>12, <1>13

(***************************************************************************)
(* A label of the emitted code is the end label or in the text of a node.  *)
(***************************************************************************)
LEMMA LabelPlace ==
    ASSUME source \in DOMAIN Programs, NEW g, NEW X, NEW h, NEW b, NEW l, Describes(g, X, h, b, l), g.wait = {},
           NEW p \in DOMAIN X, NEW v, IsLabel(X[p], v)
    PROVE  \/ p = Len(X) - 1 /\ v = EndLabel
           \/ \E m \in g.done : \E i \in DOMAIN TextOf(g, m) : g.pos[m][i] = p /\ IsLabel(TextOf(g, m)[i], v)
  <1>1. DOMAIN X = 1 .. Len(X) /\ Len(X) \in Nat /\ Len(X) >= 2
    BY DEF Describes, TextType, Root
  <1>2. CASE p = Len(X) - 1
    <2>1. X[p] = Label(EndLabel)
      BY <1>2 DEF Describes, Root
    <2> QED BY <1>2, <2>1 DEF IsLabel, Label, Ins
  <1>3. CASE p = Len(X)
    <2>1. X[p] = Ins("RTS", 0)
      BY <1>3 DEF Describes, Root
    <2> QED BY <2>1 DEF IsLabel, Ins
  <1>4. CASE p \in 1 .. (Len(X) - 2)
    <2>1. PICK m \in g.done : \E i \in DOMAIN TextOf(g, m) : IsIns(TextOf(g, m)[i]) /\ g.pos[m][i] = p
      BY <1>4 DEF Describes, Owned
    <2>2. PICK i \in DOMAIN TextOf(g, m) : IsIns(TextOf(g, m)[i]) /\ g.pos[m][i] = p
      BY <2>1
    <2>3. X[p] = TextOf(g, m)[i]
      BY <2>2 DEF Describes, Laid, LaidItem
    <2> QED BY <2>2, <2>3
  <1> QED BY <1>1, <1>2, <1>3, <1>4

(***************************************************************************)
(* A label in the text of a node is in the emitted code.                   *)
(***************************************************************************)
LEMMA LabelIsPlaced ==
    ASSUME source \in DOMAIN Programs, NEW g, NEW X, NEW h, NEW b, NEW l, Describes(g, X, h, b, l), NEW m \in g.done, NEW v,
           LabelIn(TextOf(g, m), v)
    PROVE  LabelIn(X, v)
  <1>1. PICK i \in DOMAIN TextOf(g, m) : IsLabel(TextOf(g, m)[i], v)
    BY DEF LabelIn
  <1>2. IsIns(TextOf(g, m)[i])
    BY <1>1 DEF IsLabel
  <1>3. g.pos[m][i] >= 1 /\ g.pos[m][i] <= Len(X) - 2 /\ X[g.pos[m][i]] = TextOf(g, m)[i]
    BY <1>1, <1>2 DEF Describes, Laid, LaidItem
  <1>4. g.pos[m][i] \in DOMAIN X
    <2>1. m \in Nodes /\ i \in Nat
      BY DoneGood
    <2>2. g.pos[m][i] \in Nat
      BY <2>1 DEF Describes, AccountType
    <2>3. DOMAIN X = 1 .. Len(X) /\ Len(X) \in Nat
      BY DEF Describes, TextType
    <2> QED BY <1>3, <2>2, <2>3
  <1> QED BY <1>1, <1>3, <1>4 DEF LabelIn

(***************************************************************************)
(* A label is emitted at one place.                                        *)
(***************************************************************************)
LEMMA OneLabel ==
    ASSUME source \in DOMAIN Programs, NEW g, NEW X, NEW h, NEW b, NEW l, Describes(g, X, h, b, l), g.wait = {},
           NEW v, NEW p \in DOMAIN X, NEW q \in DOMAIN X, IsLabel(X[p], v), IsLabel(X[q], v)
    PROVE  p = q
  <1>1. ASSUME NEW m \in g.done, NEW i \in DOMAIN TextOf(g, m), IsLabel(TextOf(g, m)[i], v) PROVE v # EndLabel
    <2>1. OwnLabel(g, m, v) \/ CaseLabelOf(g, m, v) \/ LabeledBy(m, v)
      BY <1>1, LabelOwner
    <2>2. OwnLabel(g, m, v) \/ CaseLabelOf(g, m, v) => v \in Nat /\ v > 0
      BY OwnersAgree
    <2>3. LabeledBy(m, v) => v \in Int /\ v < 0
      BY OwnersAgree
    <2> QED BY <2>1, <2>2, <2>3 DEF EndLabel
  <1>2. CASE p = Len(X) - 1 /\ v = EndLabel
    BY <1>1, <1>2, LabelPlace
  <1>3. CASE q = Len(X) - 1 /\ v = EndLabel
    BY <1>1, <1>3, LabelPlace
  <1>4. ASSUME NEW m \in g.done, NEW i \in DOMAIN TextOf(g, m), g.pos[m][i] = p, IsLabel(TextOf(g, m)[i], v),
               NEW k \in g.done, NEW j \in DOMAIN TextOf(g, k), g.pos[k][j] = q, IsLabel(TextOf(g, k)[j], v)
        PROVE  p = q
    <2>1. OwnLabel(g, m, v) \/ (i = 1 /\ CaseLabelOf(g, m, v)) \/ (i = 1 /\ LabeledBy(m, v))
      BY <1>4, LabelOwner
    <2>2. OwnLabel(g, k, v) \/ (j = 1 /\ CaseLabelOf(g, k, v)) \/ (j = 1 /\ LabeledBy(k, v))
      BY <1>4, LabelOwner
    <2>3. /\ OwnLabel(g, m, v) /\ OwnLabel(g, k, v) => m = k
          /\ CaseLabelOf(g, m, v) /\ CaseLabelOf(g, k, v) => m = k
          /\ LabeledBy(m, v) /\ LabeledBy(k, v) => m = k
      BY OwnersAgree
    <2>4. ~(OwnLabel(g, m, v) /\ CaseLabelOf(g, k, v)) /\ ~(LabeledBy(m, v) /\ (OwnLabel(g, k, v) \/ CaseLabelOf(g, k, v)))
      BY OwnersAgree
    <2>5. ~(OwnLabel(g, k, v) /\ CaseLabelOf(g, m, v)) /\ ~(LabeledBy(k, v) /\ (OwnLabel(g, m, v) \/ CaseLabelOf(g, m, v)))
      BY OwnersAgree
    <2>6. m = k
      BY <2>1, <2>2, <2>3, <2>4, <2>5
    <2>7. i = j
      <3>1. LabelsLaid(g.from[m], m, g.base[m], TextOf(g, m))
        BY DoneGood DEF TextGood
      <3>2. IsIns(TextOf(g, m)[i]) /\ TextOf(g, m)[i].op = "LABEL" /\ IsLabel(TextOf(g, m)[j], TextOf(g, m)[i].arg)
        BY <1>4, <2>6 DEF IsLabel
      <3> QED BY <3>1, <3>2, <1>4, <2>6 DEF LabelsLaid
    <2> QED BY <1>4, <2>6, <2>7
  <1>5. CASE /\ \E m \in g.done : \E i \in DOMAIN TextOf(g, m) : g.pos[m][i] = p /\ IsLabel(TextOf(g, m)[i], v)
             /\ \E k \in g.done : \E j \in DOMAIN TextOf(g, k) : g.pos[k][j] = q /\ IsLabel(TextOf(g, k)[j], v)
    BY <1>4, <1>5
  <1> QED BY <1>2, <1>3, <1>5, LabelPlace

(***************************************************************************)
(* The assembler accepts a label when it is in the text.                   *)
(***************************************************************************)
LEMMA DefinedOnce ==
    ASSUME EmitInv, ~errors, Emitted, NEW v
    PROVE  Cardinality(Definitions(v)) = 1 <=> LabelIn(out, v)
  <1>1. /\ source \in DOMAIN Programs /\ \A p \in DOMAIN out : IsIns(out[p])
        /\ \E g : Describes(g, out, Len(out) + 1, breakables, labels) /\ g.wait = {}
    BY EmittedFacts
  <1>2. PICK g : Describes(g, out, Len(out) + 1, breakables, labels) /\ g.wait = {}
    BY <1>1
  <1>3. Definitions(v) = {i \in DOMAIN out : IsLabel(out[i], v)}
    BY <1>1 DEF Definitions, IsLabel
  <1>4. CASE LabelIn(out, v)
    <2>1. PICK p \in DOMAIN out : IsLabel(out[p], v)
      BY <1>4 DEF LabelIn
    <2>2. PICK X, h, b, l : X = out /\ h = Len(out) + 1 /\ b = breakables /\ l = labels
      OBVIOUS
    <2>3. Describes(g, X, h, b, l) /\ p \in DOMAIN X /\ IsLabel(X[p], v)
      BY <1>2, <2>1, <2>2
    <2>4. \A q \in DOMAIN X : IsLabel(X[q], v) => p = q
      BY <1>1, <1>2, <2>3, OneLabel
    <2>5. Definitions(v) = {p}
      BY <1>3, <2>1, <2>2, <2>4
    <2> QED BY <1>4, <2>5, FS_Singleton
  <1>5. CASE ~LabelIn(out, v)
    <2>1. Definitions(v) = {}
      BY <1>3, <1>5 DEF LabelIn
    <2> QED BY <1>5, <2>1, FS_EmptySet
  <1> QED BY <1>4, <1>5

(***************************************************************************)
(* Every target is defined, but those of the stranded jumps.               *)
(***************************************************************************)
LEMMA DoneFacts ==
    ASSUME source \in DOMAIN Programs, NEW g, NEW X, NEW h, NEW b, NEW l, Describes(g, X, h, b, l), g.wait = {}
    PROVE  /\ \A n \in g.done : ~Removed(n) /\ n \in Nodes
           /\ \A n \in Nodes : ~Removed(n) /\ Kind(n) # "const" => n \in g.done
  BY DEF Describes, Covers, Placed, AccountType

(***************************************************************************)
(* The labeled statement that a goto names.                                *)
(***************************************************************************)
LEMMA LabelOfFacts ==
    ASSUME source \in DOMAIN Programs, NEW n \in Nodes, Kind(n) = "goto"
    PROVE  /\ LabelOf(n) \in Nodes /\ Kind(LabelOf(n)) = "label" /\ program[LabelOf(n)].tag = program[n].tag
           /\ \A m \in Nodes : Kind(m) = "label" /\ program[m].tag = program[n].tag => m = LabelOf(n)
  <1>1. \E m \in DOMAIN program : Kind(m) = "label" /\ program[m].tag = program[n].tag
    BY ProgramIsTree DEF IsFunction, Nodes, Kind
  <1>2. LabelOf(n) \in Nodes /\ Kind(LabelOf(n)) = "label" /\ program[LabelOf(n)].tag = program[n].tag
    BY <1>1 DEF LabelOf, Nodes
  <1>3. \A m \in Nodes : Kind(m) = "label" /\ program[m].tag = program[n].tag => m = LabelOf(n)
    BY <1>2, ProgramIsTree DEF IsFunction, Nodes, Kind
  <1> QED BY <1>2, <1>3

(***************************************************************************)
(* A continue that is emitted for while (0) belongs to a do-while.         *)
(***************************************************************************)
LEMMA ContinueOfDo ==
    ASSUME source \in DOMAIN Programs, NEW n \in Nodes, Kind(n) = "continue", ~Removed(n), NEW k, Innermost(n, k),
           Kind(k) = "while", NeverHolds(k)
    PROVE  IsDo(k)
  <1>1. k \in Ancestors(n)
    BY DEF Innermost, Breakables
  <1>2. k \in Nodes
    BY <1>1, AncestorFacts
  <1>3. PICK i \in DOMAIN Kids(k) : n = Kids(k)[i] \/ Kids(k)[i] \in Ancestors(n)
    BY <1>1, <1>2, KidAbove
  <1> DEFINE c == Kids(k)[i]
  <1>4. c \in Nodes /\ Up(c) = k /\ c # 1
    <2>1. c \in Nodes /\ Up(c) = k /\ k < c
      BY <1>2, KidFacts
    <2> QED BY <2>1, <1>2, NodeFacts
  <1>5. program[c].role \in {"cond", "body"}
    BY <1>2, KidRoles DEF Parts
  <1>6. CASE program[c].role = "cond"
    <2>1. Kid(k, "cond") = c
      BY <1>2, <1>6, RoleOfKid
    <2>2. Kind(c) = "const"
      BY <2>1 DEF NeverHolds, ConstantTest
    <2>3. c \in Ancestors(n)
      BY <1>3, <2>2
    <2>4. PICK j \in DOMAIN Kids(c) : TRUE
      BY <2>3, <1>4, KidAbove
    <2>5. program[Kids(c)[j]].role \in Parts(Kind(c))
      BY <1>4, KidRoles
    <2> QED BY <2>2, <2>5 DEF Parts
  <1>7. CASE program[c].role = "body"
    <2>1. ~NeverEntered(c)
      BY <1>3 DEF Removed
    <2> QED BY <2>1, <1>4, <1>7 DEF NeverEntered, NeverHolds, IsDo
  <1> QED BY <1>5, <1>6, <1>7

(***************************************************************************)
(* The break and continue labels of a statement are emitted, but for the   *)
(* continue label of a do-while (0).                                       *)
(***************************************************************************)
LEMMA PairDefined ==
    ASSUME source \in DOMAIN Programs, NEW g, NEW X, NEW h, NEW b, NEW l, Describes(g, X, h, b, l), NEW k \in g.done, Breakable(k)
    PROVE  /\ LabelIn(X, Pair(k, g.base[k]).break)
           /\ Kind(k) = "for" \/ (Kind(k) = "while" /\ ~NeverHolds(k)) => LabelIn(X, Pair(k, g.base[k]).continue)
           /\ Kind(k) = "switch" => Pair(k, g.base[k]).continue = NoContinue
  <1>1. LabelsLaid(g.from[k], k, g.base[k], TextOf(g, k))
    BY DoneGood DEF TextGood
  <1>2. /\ Kind(k) = "switch" => LabelIn(TextOf(g, k), g.base[k] + 1)
        /\ Kind(k) = "for" => LabelIn(TextOf(g, k), g.base[k] + 3) /\ LabelIn(TextOf(g, k), g.base[k] + 4)
        /\ Kind(k) = "while" => LabelIn(TextOf(g, k), g.base[k] + 3) /\ (~NeverHolds(k) => LabelIn(TextOf(g, k), g.base[k] + 2))
    BY <1>1 DEF LabelsLaid
  <1>3. \A v : LabelIn(TextOf(g, k), v) => LabelIn(X, v)
    BY LabelIsPlaced
  <1>4. CASE Kind(k) = "switch"
    BY <1>2, <1>3, <1>4 DEF Pair, Targets
  <1>5. CASE Kind(k) = "for"
    BY <1>2, <1>3, <1>5 DEF Pair, Targets
  <1>6. CASE Kind(k) = "while"
    BY <1>2, <1>3, <1>6 DEF Pair, Targets
  <1> QED BY <1>4, <1>5, <1>6 DEF Breakable, Loops

(***************************************************************************)
(* The stack that a jump was emitted with has the closest loop or switch   *)
(* on top.                                                                 *)
(***************************************************************************)
LEMMA StackOf ==
    ASSUME source \in DOMAIN Programs, NEW g, NEW X, NEW h, NEW b, NEW l, Describes(g, X, h, b, l), NEW n \in g.done,
           Kind(n) \in {"break", "continue"}
    PROVE  \E k \in g.done : /\ Innermost(n, k) /\ g.stk[n][1] = Pair(k, g.base[k]) /\ Breakable(k)
                             /\ (Kind(n) = "continue" => Pair(k, g.base[k]).continue # NoContinue)
  <1>1. g.stk[n] # <<>> /\ (Kind(n) = "continue" => Head(g.stk[n]).continue # NoContinue) /\ g.stk[n] \in Stacks
    BY DoneGood DEF Describes, JumpsOk
  <1>2. Head(g.stk[n]) = g.stk[n][1]
    BY <1>1, HeadOfSeq DEF Stacks
  <1>3. PICK k \in g.done : Innermost(n, k) /\ Head(g.stk[n]) = Pair(k, g.base[k])
    BY <1>1 DEF Describes, Mirrors, Placed
  <1>4. Breakable(k)
    BY <1>3 DEF Innermost, Breakables, Breakable
  <1> QED BY <1>1, <1>2, <1>3, <1>4

(***************************************************************************)
(* Every target is defined when no stranded jump was emitted.              *)
(***************************************************************************)
LEMMA TargetDefined ==
    ASSUME source \in DOMAIN Programs, NEW g, NEW X, NEW h, NEW b, NEW l, Describes(g, X, h, b, l), g.wait = {},
           \A n \in Nodes : Stranded(n) => Removed(n),
           NEW p \in DOMAIN X, NEW v \in TargetsOf(X[p])
    PROVE  LabelIn(X, v)
  <1>1. DOMAIN X = 1 .. Len(X) /\ Len(X) \in Nat /\ Len(X) >= 2
    BY DEF Describes, TextType, Root
  <1>2. p # Len(X) - 1 /\ p # Len(X)
    <2>1. X[Len(X) - 1] = Label(EndLabel) /\ X[Len(X)] = Ins("RTS", 0)
      BY DEF Describes, Root
    <2>2. TargetsOf(Label(EndLabel)) = {} /\ TargetsOf(Ins("RTS", 0)) = {}
      BY DEF TargetsOf, Label, Ins
    <2> QED BY <2>1, <2>2
  <1>3. p \in 1 .. (Len(X) - 2)
    BY <1>1, <1>2
  <1>4. PICK m \in g.done : \E i \in DOMAIN TextOf(g, m) : IsIns(TextOf(g, m)[i]) /\ g.pos[m][i] = p
    BY <1>3 DEF Describes, Owned
  <1>5. PICK i \in DOMAIN TextOf(g, m) : IsIns(TextOf(g, m)[i]) /\ g.pos[m][i] = p
    BY <1>4
  <1>6. X[p] = TextOf(g, m)[i]
    BY <1>5 DEF Describes, Laid, LaidItem
  <1>7. JumpsLaid(g.from[m], m, g.base[m], g.stk[m], TextOf(g, m)) /\ m \in Nodes
    BY DoneGood DEF TextGood
  <1>8. \/ LabelIn(TextOf(g, m), v)
        \/ g.from[m].w = "jumps" /\ v \in {g.from[m].yes, g.from[m].no}
        \/ Kind(m) = "switch" /\ \E j \in DOMAIN TextOf(g, m) : TextOf(g, m)[j].w = "case" /\ TextOf(g, m)[j].label = v
        \/ Kind(m) = "return" /\ v = EndLabel
        \/ Kind(m) = "goto" /\ v = SourceLabel(program[m].tag)
        \/ Kind(m) = "break" /\ v = g.stk[m][1].break
        \/ Kind(m) = "continue" /\ v = g.stk[m][1].continue
    BY <1>5, <1>6, <1>7 DEF JumpsLaid
  <1>9. CASE LabelIn(TextOf(g, m), v)
    BY <1>9, LabelIsPlaced
  <1>10. CASE g.from[m].w = "jumps" /\ v \in {g.from[m].yes, g.from[m].no}
    BY <1>10 DEF Describes, TestsTarget, Placed
  <1>11. CASE Kind(m) = "switch" /\ \E j \in DOMAIN TextOf(g, m) : TextOf(g, m)[j].w = "case" /\ TextOf(g, m)[j].label = v
    <2>1. PICK j \in DOMAIN TextOf(g, m) : TextOf(g, m)[j].w = "case" /\ TextOf(g, m)[j].label = v
      BY <1>11
    <2>2. PICK c : c = TextOf(g, m)[j].tree
      OBVIOUS
    <2>3. c \in g.done /\ g.from[c] = TextOf(g, m)[j]
      BY <2>1, <2>2 DEF Describes, Laid, LaidItem, IsIns, Placed
    <2>4. LabelsLaid(g.from[c], c, g.base[c], TextOf(g, c))
      BY <2>3, DoneGood DEF TextGood
    <2>5. LabelIn(TextOf(g, c), v)
      BY <2>1, <2>3, <2>4 DEF LabelsLaid
    <2> QED BY <2>3, <2>5, LabelIsPlaced
  <1>12. CASE Kind(m) = "return" /\ v = EndLabel
    <2>1. Len(X) - 1 \in DOMAIN X /\ X[Len(X) - 1] = Label(EndLabel)
      BY <1>1 DEF Describes, Root
    <2> QED BY <1>12, <2>1 DEF LabelIn, IsLabel, IsIns, Label, Ins
  <1>13. CASE Kind(m) = "goto" /\ v = SourceLabel(program[m].tag)
    <2>1. ~Removed(LabelOf(m))
      BY <1>7, <1>13, DoneFacts DEF Stranded
    <2>2. LabelOf(m) \in g.done /\ Kind(LabelOf(m)) = "label" /\ program[LabelOf(m)].tag = program[m].tag
      BY <2>1, <1>7, <1>13, LabelOfFacts, DoneFacts
    <2>3. LabelsLaid(g.from[LabelOf(m)], LabelOf(m), g.base[LabelOf(m)], TextOf(g, LabelOf(m)))
      BY <2>2, DoneGood DEF TextGood
    <2>4. LabelIn(TextOf(g, LabelOf(m)), v)
      BY <2>2, <2>3, <1>13 DEF LabelsLaid
    <2> QED BY <2>2, <2>4, LabelIsPlaced
  <1>14. CASE Kind(m) = "break" /\ v = g.stk[m][1].break
    <2>1. PICK k \in g.done : g.stk[m][1] = Pair(k, g.base[k]) /\ Breakable(k)
      BY <1>14, StackOf
    <2> QED BY <2>1, <1>14, PairDefined
  <1>15. CASE Kind(m) = "continue" /\ v = g.stk[m][1].continue
    <2>1. PICK k \in g.done : /\ Innermost(m, k) /\ g.stk[m][1] = Pair(k, g.base[k]) /\ Breakable(k)
                              /\ Pair(k, g.base[k]).continue # NoContinue
      BY <1>15, StackOf
    <2>2. Kind(k) # "switch"
      BY <2>1, PairDefined
    <2>3. ~(Kind(k) = "while" /\ NeverHolds(k))
      <3>1. ~Removed(m) /\ ~Stranded(m) /\ k \in DOMAIN program
        BY <1>7, DoneFacts DEF Nodes
      <3>2. ~(Kind(k) = "while" /\ IsDo(k) /\ NeverHolds(k))
        BY <3>1, <2>1, <1>15 DEF Stranded
      <3> QED BY <3>1, <3>2, <2>1, <1>7, <1>15, ContinueOfDo
    <2>4. Kind(k) = "for" \/ (Kind(k) = "while" /\ ~NeverHolds(k))
      BY <2>1, <2>2, <2>3 DEF Breakable, Loops
    <2> QED BY <2>1, <2>4, <1>15, PairDefined
  <1> QED BY <1>8, <1>9, <1>10, <1>11, <1>12, <1>13, <1>14, <1>15

(***************************************************************************)
(* A stranded jump has no target.                                          *)
(***************************************************************************)
LEMMA StrandedUndefined ==
    ASSUME source \in DOMAIN Programs, NEW g, NEW X, NEW h, NEW b, NEW l, Describes(g, X, h, b, l), g.wait = {},
           NEW n \in Nodes, Stranded(n), ~Removed(n)
    PROVE  \E p \in DOMAIN X : \E v \in TargetsOf(X[p]) : ~LabelIn(X, v)
  <1>1. Kind(n) \in {"goto", "continue"}
    BY DEF Stranded
  <1>2. n \in g.done
    BY <1>1, DoneFacts
  <1>3. JumpsLaid(g.from[n], n, g.base[n], g.stk[n], TextOf(g, n))
    BY <1>2, DoneGood DEF TextGood
  <1>4. ASSUME NEW i \in DOMAIN TextOf(g, n), NEW v, TextOf(g, n)[i] = Lbra(v)
        PROVE  \E p \in DOMAIN X : v \in TargetsOf(X[p])
    <2>1. IsIns(TextOf(g, n)[i])
      BY <1>4 DEF IsIns, Lbra, Ins
    <2>2. g.pos[n][i] >= 1 /\ g.pos[n][i] <= Len(X) - 2 /\ X[g.pos[n][i]] = Lbra(v)
      BY <2>1, <1>2, <1>4 DEF Describes, Laid, LaidItem
    <2>3. g.pos[n][i] \in DOMAIN X
      <3>1. i \in Nat
        BY <1>2, DoneGood
      <3>2. g.pos[n][i] \in Nat
        BY <3>1 DEF Describes, AccountType
      <3>3. DOMAIN X = 1 .. Len(X) /\ Len(X) \in Nat
        BY DEF Describes, TextType
      <3> QED BY <2>2, <3>2, <3>3
    <2>4. v \in TargetsOf(X[g.pos[n][i]])
      BY <2>2, TargetFacts
    <2> QED BY <2>3, <2>4
  <1>5. ASSUME NEW v, LabelIn(X, v), v # EndLabel
        PROVE  \E m \in g.done : \E i \in DOMAIN TextOf(g, m) : IsLabel(TextOf(g, m)[i], v) /\ (OwnLabel(g, m, v) \/ CaseLabelOf(g, m, v) \/ LabeledBy(m, v))
    <2>1. PICK p \in DOMAIN X : IsLabel(X[p], v)
      BY <1>5 DEF LabelIn
    <2>2. PICK m \in g.done : \E i \in DOMAIN TextOf(g, m) : g.pos[m][i] = p /\ IsLabel(TextOf(g, m)[i], v)
      BY <2>1, <1>5, LabelPlace
    <2>3. PICK i \in DOMAIN TextOf(g, m) : IsLabel(TextOf(g, m)[i], v)
      BY <2>2
    <2> QED BY <2>3, LabelOwner
  <1>6. CASE Kind(n) = "goto"
    <2>1. Removed(LabelOf(n))
      BY <1>6 DEF Stranded
    <2>2. PICK v : v = SourceLabel(program[n].tag)
      OBVIOUS
    <2>3. \E p \in DOMAIN X : v \in TargetsOf(X[p])
      BY <1>3, <1>4, <1>6, <2>2 DEF JumpsLaid
    <2>4. v \in Int /\ v < 0
      <3>1. program[n].tag \in Int
        BY NodeFacts DEF Node
      <3>2. LabelOf(n) \in Nodes /\ Kind(LabelOf(n)) = "label" /\ program[LabelOf(n)].tag = program[n].tag
        BY <1>6, LabelOfFacts
      <3>3. program[n].tag > 0
        BY <3>2, ProgramIsTree DEF IsFunction, Nodes, Kind
      <3> QED BY <3>1, <3>3, <2>2 DEF SourceLabel
    <2>5. ~LabelIn(X, v)
      <3> SUFFICES ASSUME LabelIn(X, v) PROVE FALSE
        OBVIOUS
      <3>1. PICK m \in g.done : OwnLabel(g, m, v) \/ CaseLabelOf(g, m, v) \/ LabeledBy(m, v)
        BY <1>5, <2>4 DEF EndLabel
      <3>2. LabeledBy(m, v)
        <4>1. OwnLabel(g, m, v) \/ CaseLabelOf(g, m, v) => v \in Nat /\ v > 0
          BY OwnersAgree
        <4> QED BY <3>1, <4>1, <2>4
      <3>3. m \in Nodes /\ ~Removed(m)
        BY DoneFacts
      <3>4. program[m].tag = program[n].tag
        <4>1. program[m].tag \in Int /\ program[n].tag \in Int
          BY <3>3, NodeFacts DEF Node
        <4> QED BY <4>1, <3>2, <2>2 DEF LabeledBy, SourceLabel
      <3>5. m = LabelOf(n)
        BY <3>2, <3>3, <3>4, <1>6, LabelOfFacts DEF LabeledBy
      <3> QED BY <3>3, <3>5, <2>1
    <2> QED BY <2>3, <2>5
  <1>7. CASE Kind(n) = "continue"
    <2>1. PICK w : Innermost(n, w) /\ Kind(w) = "while" /\ IsDo(w) /\ NeverHolds(w)
      BY <1>7 DEF Stranded
    <2>2. PICK k \in g.done : Innermost(n, k) /\ g.stk[n][1] = Pair(k, g.base[k])
      BY <1>2, <1>7, StackOf
    <2>3. k = w
      BY <2>1, <2>2, InnermostOnce
    <2>4. PICK v : v = g.base[k] + 2
      OBVIOUS
    <2>5. g.stk[n][1].continue = v
      BY <2>1, <2>2, <2>3, <2>4 DEF Pair, Targets
    <2>6. \E p \in DOMAIN X : v \in TargetsOf(X[p])
      BY <1>3, <1>4, <1>7, <2>5 DEF JumpsLaid
    <2>7. k \in Nodes /\ g.base[k] \in Nat
      BY DEF Describes, AccountType
    <2>8. v \in Nat /\ v > 0
      BY <2>4, <2>7
    <2>9. OwnLabel(g, k, v)
      BY <2>1, <2>3, <2>4, <2>7 DEF OwnLabel, Fresh
    <2>10. ~LabelIn(X, v)
      <3> SUFFICES ASSUME LabelIn(X, v) PROVE FALSE
        OBVIOUS
      <3>1. PICK m \in g.done : \E i \in DOMAIN TextOf(g, m) : IsLabel(TextOf(g, m)[i], v) /\ (OwnLabel(g, m, v) \/ CaseLabelOf(g, m, v) \/ LabeledBy(m, v))
        BY <1>5, <2>8 DEF EndLabel
      <3>2. m = k
        <4>1. OwnLabel(g, m, v) => m = k
          BY <2>9, OwnersAgree
        <4>2. ~CaseLabelOf(g, m, v)
          BY <2>9, OwnersAgree
        <4>3. ~LabeledBy(m, v)
          BY <2>9, OwnersAgree
        <4> QED BY <3>1, <4>1, <4>2, <4>3
      <3>3. LabelIn(TextOf(g, k), v)
        BY <3>1, <3>2 DEF LabelIn
      <3>4. LabelsLaid(g.from[k], k, g.base[k], TextOf(g, k))
        BY DoneGood DEF TextGood
      <3> QED BY <2>1, <2>3, <2>4, <3>3, <3>4 DEF LabelsLaid
    <2> QED BY <2>6, <2>10
  <1> QED BY <1>1, <1>6, <1>7

(***************************************************************************)
(* The invariant says which emitted texts assemble.                        *)
(***************************************************************************)
LEMMA DefinedInv == EmitInv => LabelsDefined
  <1> SUFFICES ASSUME EmitInv, Emitted, ~errors
               PROVE  Assembles <=> \A n \in DOMAIN program : Stranded(n) => Removed(n)
    BY DEF LabelsDefined
  <1>1. source \in DOMAIN Programs
    BY DEF EmitInv
  <1>2. PICK g : Describes(g, out, Len(out) + 1, breakables, labels) /\ g.wait = {}
    BY EmittedFacts
  <1>3. PICK X, h, b, l : X = out /\ h = Len(out) + 1 /\ b = breakables /\ l = labels
    OBVIOUS
  <1>4. Describes(g, X, h, b, l)
    BY <1>2, <1>3
  <1>5. Assembles <=> \A p \in DOMAIN X : \A v \in TargetsOf(X[p]) : LabelIn(X, v)
    BY <1>3, DefinedOnce DEF Assembles
  <1>6. ASSUME \A n \in Nodes : Stranded(n) => Removed(n) PROVE \A p \in DOMAIN X : \A v \in TargetsOf(X[p]) : LabelIn(X, v)
    BY <1>1, <1>2, <1>4, <1>6, TargetDefined
  <1>7. ASSUME NEW n \in Nodes, Stranded(n), ~Removed(n) PROVE \E p \in DOMAIN X : \E v \in TargetsOf(X[p]) : ~LabelIn(X, v)
    BY <1>1, <1>2, <1>4, <1>7, StrandedUndefined
  <1> QED BY <1>5, <1>6, <1>7 DEF Nodes

(***************************************************************************)
(* At any moment of the emission what was emitted and what is left is laid *)
(* out like the tree of the function: the inductive invariant of           *)
(* emitCode().                                                             *)
(***************************************************************************)
THEOREM EmissionAccounted == Spec => []EmitInv
  <1>1. Init => EmitInv
    BY InitInv
  <1>2. EmitInv /\ [Next]_vars => EmitInv'
    BY NextInv
  <1> QED BY <1>1, <1>2, PTL DEF Spec

(***************************************************************************)
(* cmoc reports an error exactly for the functions with a break or         *)
(* continue that has nowhere to go and is not removed by a constant        *)
(* condition.                                                              *)
(***************************************************************************)
THEOREM ErrorsAreReported == Spec => []ErrorsReported
  BY EmissionAccounted, ReportedInv, PTL

(***************************************************************************)
(* What is emitted without an error assembles, exactly when no goto or     *)
(* continue goes to a label that a constant condition removed.             *)
(***************************************************************************)
THEOREM LabelsAreDefined == Spec => []LabelsDefined
  BY EmissionAccounted, DefinedInv, PTL

-----------------------------------------------------------------------------
(***************************************************************************)
(* What was emitted runs.                                                  *)
(***************************************************************************)
(***************************************************************************)
(* The running code.  A spot is a place of the text with the result of the *)
(* last test; Goes is the step of an instruction that cannot be observed   *)
(* (CodeStep).                                                             *)
(***************************************************************************)
AtLabel(X, v) == CHOOSE p \in DOMAIN X : IsLabel(X[p], v)
Flags(X) == {0, 1} \cup {X[p].arg : p \in DOMAIN X}
Spots(X) == Nat \X Flags(X)
Next1(X, p, f) == IF X[p].op = "LBRA" \/ (X[p].op = "LBNE" /\ f # 0) THEN AtLabel(X, X[p].arg) ELSE p + 1
Next2(X, p, f) == IF X[p].op = "LOAD" THEN X[p].arg ELSE f
Goes(X, s, t) ==
    /\ s \in Spots(X) /\ t \in Spots(X) /\ s[1] \in DOMAIN X /\ X[s[1]].op \notin {"DO", "TEST", "SELECT", "RTS"}
    /\ t = <<Next1(X, s[1], s[2]), Next2(X, s[1], s[2])>>

(***************************************************************************)
(* From s the code gets to t without anything that can be observed; of two *)
(* spots that meet one leads to the other.                                 *)
(***************************************************************************)
Closed(X, S) == \A s \in S : \A t \in Spots(X) : Goes(X, s, t) => t \in S
Leads(X, s, t) == \A S \in SUBSET Spots(X) : s \in S /\ Closed(X, S) => t \in S
Meets(X, s, t) == Leads(X, s, t) \/ Leads(X, t, s)

(***************************************************************************)
(* A spot leads to itself, to where its instruction goes, and on.          *)
(***************************************************************************)
LEMMA LeadsOn ==
    ASSUME NEW X, NEW s
    PROVE  /\ Leads(X, s, s)
           /\ \A t, u : Leads(X, s, t) /\ Goes(X, t, u) => Leads(X, s, u)
           /\ \A t, u : Leads(X, s, t) /\ Leads(X, t, u) => Leads(X, s, u)
           /\ \A t : s \in Spots(X) /\ Leads(X, s, t) => t \in Spots(X)
  <1>1. Leads(X, s, s)
    BY DEF Leads
  <1>2. ASSUME NEW t, NEW u, Leads(X, s, t), Goes(X, t, u) PROVE Leads(X, s, u)
    <2> SUFFICES ASSUME NEW S \in SUBSET Spots(X), s \in S, Closed(X, S) PROVE u \in S
      BY DEF Leads
    <2>1. t \in S
      BY <1>2 DEF Leads
    <2>2. u \in Spots(X)
      BY <1>2 DEF Goes
    <2> QED BY <2>1, <2>2, <1>2 DEF Closed
  <1>3. ASSUME NEW t, NEW u, Leads(X, s, t), Leads(X, t, u) PROVE Leads(X, s, u)
    BY <1>3 DEF Leads
  <1>4. ASSUME NEW t, s \in Spots(X), Leads(X, s, t) PROVE t \in Spots(X)
    <2>1. Closed(X, Spots(X))
      BY DEF Closed
    <2> QED BY <1>4, <2>1 DEF Leads
  <1> QED BY <1>1, <1>2, <1>3, <1>4

(***************************************************************************)
(* What a spot leads to is itself, or comes after its instruction.         *)
(***************************************************************************)
LEMMA LeadsBeyond ==
    ASSUME NEW X, NEW s \in Spots(X), NEW t, Leads(X, s, t)
    PROVE  t = s \/ \E u : Goes(X, s, u) /\ Leads(X, u, t)
  <1> DEFINE S == {x \in Spots(X) : x = s \/ \E u : Goes(X, s, u) /\ Leads(X, u, x)}
  <1>1. s \in S /\ S \in SUBSET Spots(X)
    OBVIOUS
  <1>2. ASSUME NEW x \in S, NEW y \in Spots(X), Goes(X, x, y) PROVE y \in S
    <2>1. CASE x = s
      <3>1. Goes(X, s, y) /\ Leads(X, y, y)
        BY <1>2, <2>1, LeadsOn
      <3> QED BY <3>1
    <2>2. CASE x # s
      <3>1. PICK u : Goes(X, s, u) /\ Leads(X, u, x)
        BY <2>2
      <3>2. Leads(X, u, y)
        BY <3>1, <1>2, LeadsOn
      <3> QED BY <3>1, <3>2
    <2> QED BY <2>1, <2>2
  <1>3. Closed(X, S)
    BY <1>2 DEF Closed
  <1>4. t \in S
    BY <1>1, <1>3 DEF Leads
  <1> QED BY <1>4

(***************************************************************************)
(* The code goes one way.                                                  *)
(***************************************************************************)
LEMMA LeadsOneWay ==
    ASSUME NEW X, NEW a \in Spots(X), NEW s, NEW t, Leads(X, a, s), Leads(X, a, t)
    PROVE  Meets(X, s, t)
  <1> DEFINE S == {x \in Spots(X) : Leads(X, s, x) \/ Leads(X, x, s)}
  <1>1. a \in S /\ S \in SUBSET Spots(X)
    OBVIOUS
  <1>2. ASSUME NEW x \in S, NEW y \in Spots(X), Goes(X, x, y) PROVE y \in S
    <2>1. CASE Leads(X, s, x)
      BY <1>2, <2>1, LeadsOn
    <2>2. CASE Leads(X, x, s)
      <3>1. CASE s = x
        <4>1. Leads(X, s, s)
          BY LeadsOn
        <4> QED BY <1>2, <3>1, <4>1, LeadsOn
      <3>2. CASE s # x
        <4>1. PICK u : Goes(X, x, u) /\ Leads(X, u, s)
          BY <2>2, <3>2, LeadsBeyond
        <4>2. u = y
          BY <4>1, <1>2 DEF Goes
        <4> QED BY <4>1, <4>2
      <3> QED BY <3>1, <3>2
    <2> QED BY <2>1, <2>2
  <1>3. Closed(X, S)
    BY <1>2 DEF Closed
  <1>4. t \in S
    BY <1>1, <1>3 DEF Leads
  <1> QED BY <1>4 DEF Meets

(***************************************************************************)
(* Spots that meet still do when one of them moves; if neither can, they   *)
(* are the same.                                                           *)
(***************************************************************************)
LEMMA MeetsOn ==
    ASSUME NEW X, NEW s \in Spots(X), NEW t \in Spots(X), Meets(X, s, t)
    PROVE  /\ Meets(X, t, s)
           /\ \A u : Leads(X, t, u) => Meets(X, s, u)
           /\ (\A u : ~Goes(X, s, u) /\ ~Goes(X, t, u)) => s = t
  <1>1. ASSUME NEW u, Leads(X, t, u) PROVE Meets(X, s, u)
    <2>1. CASE Leads(X, s, t)
      <3>1. Leads(X, s, u)
        BY <1>1, <2>1, LeadsOn
      <3> QED BY <3>1 DEF Meets
    <2>2. CASE Leads(X, t, s)
      BY <1>1, <2>2, LeadsOneWay
    <2> QED BY <2>1, <2>2 DEF Meets
  <1>2. ASSUME \A u : ~Goes(X, s, u) /\ ~Goes(X, t, u) PROVE s = t
    BY <1>2, LeadsBeyond DEF Meets
  <1> QED BY <1>1, <1>2 DEF Meets

(***************************************************************************)
(* Whatever the last test, the code at place p gets to place q without     *)
(* anything that can be observed.                                          *)
(***************************************************************************)
Reaches(X, p, q) == \A f \in Flags(X) : \E e \in Flags(X) : Leads(X, <<p, f>>, <<q, e>>)

(***************************************************************************)
(* Reaching is reflexive and transitive.                                   *)
(***************************************************************************)
LEMMA ReachesOn ==
    ASSUME NEW X
    PROVE  /\ \A p : Reaches(X, p, p)
           /\ \A p, q, r : Reaches(X, p, q) /\ Reaches(X, q, r) => Reaches(X, p, r)
  <1>1. ASSUME NEW p PROVE Reaches(X, p, p)
    BY LeadsOn DEF Reaches
  <1>2. ASSUME NEW p, NEW q, NEW r, Reaches(X, p, q), Reaches(X, q, r) PROVE Reaches(X, p, r)
    <2> SUFFICES ASSUME NEW f \in Flags(X) PROVE \E e \in Flags(X) : Leads(X, <<p, f>>, <<r, e>>)
      BY DEF Reaches
    <2>1. PICK d \in Flags(X) : Leads(X, <<p, f>>, <<q, d>>)
      BY <1>2 DEF Reaches
    <2>2. PICK e \in Flags(X) : Leads(X, <<q, d>>, <<r, e>>)
      BY <1>2 DEF Reaches
    <2>3. Leads(X, <<p, f>>, <<r, e>>)
      BY <2>1, <2>2, LeadsOn
    <2> QED BY <2>3
  <1> QED BY <1>1, <1>2

(***************************************************************************)
(* The account of a whole text, in which every jump has its target.        *)
(***************************************************************************)
Final(g, X) ==
    /\ source \in DOMAIN Programs /\ g.wait = {}
    /\ \E b, l : Describes(g, X, Len(X) + 1, b, l)
    /\ \A p \in DOMAIN X : \A v \in TargetsOf(X[p]) : LabelIn(X, v)

(***************************************************************************)
(* What a final account says of its text.                                  *)
(***************************************************************************)
LEMMA FinalFacts ==
    ASSUME NEW g, NEW X, Final(g, X)
    PROVE  /\ source \in DOMAIN Programs /\ Placed(g) = g.done
           /\ X \in Seq(Work) /\ Len(X) \in Nat /\ Len(X) >= 2 /\ DOMAIN X = 1 .. Len(X)
           /\ \A p \in DOMAIN X : IsIns(X[p])
           /\ X[Len(X) - 1] = Label(EndLabel) /\ X[Len(X)] = Ins("RTS", 0)
           /\ 1 \in g.done /\ AtOf(g, 1) = 1 /\ ToOf(g, 1) = Len(X) - 1 /\ g.from[1] = Tree(1)
           /\ \A p \in DOMAIN X : \A v : IsLabel(X[p], v) => AtLabel(X, v) = p
           /\ \A v : LabelIn(X, v) => AtLabel(X, v) \in DOMAIN X /\ IsLabel(X[AtLabel(X, v)], v) /\ AtLabel(X, v) \in Nat
           /\ \A n \in g.done : n \in Nodes /\ ~Removed(n) /\ ItemOf(g.from[n], n)
           /\ \A n \in Nodes : ~Removed(n) /\ Kind(n) # "const" => n \in g.done
           /\ \A n \in Nodes : g.base[n] \in Nat /\ \A i \in Nat : g.pos[n][i] \in Nat
  <1>1. PICK b, l : Describes(g, X, Len(X) + 1, b, l)
    BY DEF Final
  <1>2. PICK h : h = Len(X) + 1
    OBVIOUS
  <1>3. Describes(g, X, h, b, l)
    BY <1>1, <1>2
  <1>4. source \in DOMAIN Programs /\ g.wait = {}
    BY DEF Final
  <1>5. X \in Seq(Work) /\ Len(X) \in Nat /\ Len(X) >= 2 /\ DOMAIN X = 1 .. Len(X)
    BY <1>1 DEF Describes, TextType, Root
  <1>6. \A p \in DOMAIN X : IsIns(X[p])
    BY <1>2, <1>3, <1>5 DEF Describes, TextType
  <1>7. \A p, q \in DOMAIN X : \A v : IsLabel(X[p], v) /\ IsLabel(X[q], v) => p = q
    BY <1>3, <1>4, OneLabel
  <1>8. \A p \in DOMAIN X : \A v : IsLabel(X[p], v) => AtLabel(X, v) = p
    BY <1>7 DEF AtLabel
  <1>9. \A v : LabelIn(X, v) => AtLabel(X, v) \in DOMAIN X /\ IsLabel(X[AtLabel(X, v)], v) /\ AtLabel(X, v) \in Nat
    BY <1>5, <1>8 DEF LabelIn
  <1>10. Placed(g) = g.done
    BY <1>4 DEF Placed
  <1>11. X[Len(X) - 1] = Label(EndLabel) /\ X[Len(X)] = Ins("RTS", 0) /\ 1 \in g.done /\ AtOf(g, 1) = 1 /\ ToOf(g, 1) = Len(X) - 1
         /\ g.from[1] = Tree(1)
    BY <1>3, <1>10 DEF Describes, Root
  <1>12. \A n \in g.done : n \in Nodes /\ ~Removed(n) /\ ItemOf(g.from[n], n)
    BY <1>3, <1>4, <1>10, DoneFacts DEF Describes, Items
  <1>13. \A n \in Nodes : ~Removed(n) /\ Kind(n) # "const" => n \in g.done
    BY <1>3, <1>4, DoneFacts
  <1>14. \A n \in Nodes : g.base[n] \in Nat /\ \A i \in Nat : g.pos[n][i] \in Nat
    BY <1>3 DEF Describes, AccountType
  <1> QED BY <1>4, <1>5, <1>6, <1>8, <1>9, <1>10, <1>11, <1>12, <1>13, <1>14

(***************************************************************************)
(* An instruction that cannot be observed goes to the next place, or to    *)
(* its label.                                                              *)
(***************************************************************************)
LEMMA InsGoes ==
    ASSUME NEW g, NEW X, Final(g, X), NEW p \in DOMAIN X, X[p].op \notin {"DO", "TEST", "SELECT", "RTS"},
           NEW f \in Flags(X)
    PROVE  /\ Goes(X, <<p, f>>, <<Next1(X, p, f), Next2(X, p, f)>>)
           /\ Next1(X, p, f) \in DOMAIN X /\ Next2(X, p, f) \in Flags(X)
  <1>1. p \in Nat /\ p + 1 \in Nat
    BY FinalFacts
  <1>2. Next1(X, p, f) \in DOMAIN X /\ Next1(X, p, f) \in Nat
    <2>1. CASE X[p].op = "LBRA" \/ (X[p].op = "LBNE" /\ f # 0)
      <3>1. X[p].arg \in TargetsOf(X[p])
        BY <2>1 DEF TargetsOf
      <3>2. LabelIn(X, X[p].arg)
        BY <3>1 DEF Final
      <3> QED BY <2>1, <3>2, FinalFacts DEF Next1
    <2>2. CASE ~(X[p].op = "LBRA" \/ (X[p].op = "LBNE" /\ f # 0))
      <3>1. p # Len(X)
        BY FinalFacts DEF Ins
      <3>2. p + 1 \in DOMAIN X
        BY <3>1, FinalFacts
      <3> QED BY <3>2, <1>1, <2>2 DEF Next1
    <2> QED BY <2>1, <2>2
  <1>3. Next2(X, p, f) \in Flags(X)
    BY DEF Next2, Flags
  <1>4. <<p, f>> \in Spots(X) /\ <<Next1(X, p, f), Next2(X, p, f)>> \in Spots(X)
    BY <1>1, <1>2, <1>3 DEF Spots
  <1>5. <<p, f>>[1] = p /\ <<p, f>>[2] = f
    OBVIOUS
  <1> QED BY <1>2, <1>3, <1>4, <1>5 DEF Goes

(***************************************************************************)
(* What runs at the places of a text: labels and empty lines are passed,   *)
(* a jump gets to its label, a child is laid out at its item.              *)
(***************************************************************************)
LEMMA PlaceRuns ==
    ASSUME NEW g, NEW X, Final(g, X), NEW p \in DOMAIN X
    PROVE  /\ X[p].op \in {"LABEL", "BLANK"} => Reaches(X, p, p + 1)
           /\ X[p].op = "LBRA" => Reaches(X, p, AtLabel(X, X[p].arg))
  <1>1. ASSUME X[p].op \in {"LABEL", "BLANK"} PROVE Reaches(X, p, p + 1)
    <2> SUFFICES ASSUME NEW f \in Flags(X) PROVE \E e \in Flags(X) : Leads(X, <<p, f>>, <<p + 1, e>>)
      BY DEF Reaches
    <2>1. Goes(X, <<p, f>>, <<Next1(X, p, f), Next2(X, p, f)>>)
      BY <1>1, InsGoes
    <2>2. Next1(X, p, f) = p + 1 /\ Next2(X, p, f) = f
      BY <1>1 DEF Next1, Next2
    <2> QED BY <2>1, <2>2, LeadsOn
  <1>2. ASSUME X[p].op = "LBRA" PROVE Reaches(X, p, AtLabel(X, X[p].arg))
    <2> SUFFICES ASSUME NEW f \in Flags(X) PROVE \E e \in Flags(X) : Leads(X, <<p, f>>, <<AtLabel(X, X[p].arg), e>>)
      BY DEF Reaches
    <2>1. Goes(X, <<p, f>>, <<Next1(X, p, f), Next2(X, p, f)>>)
      BY <1>2, InsGoes
    <2>2. Next1(X, p, f) = AtLabel(X, X[p].arg) /\ Next2(X, p, f) = f
      BY <1>2 DEF Next1, Next2
    <2>3. PICK q : q = AtLabel(X, X[p].arg)
      OBVIOUS
    <2>4. Goes(X, <<p, f>>, <<q, f>>)
      BY <2>1, <2>2, <2>3
    <2>5. Leads(X, <<p, f>>, <<q, f>>)
      BY <2>4, LeadsOn
    <2> QED BY <2>3, <2>5
  <1> QED BY <1>1, <1>2

(***************************************************************************)
(* What an item of a text stands for at its place: an instruction is       *)
(* there, a child is laid out there.                                       *)
(***************************************************************************)
LEMMA ItemRuns ==
    ASSUME NEW g, NEW X, Final(g, X), NEW n \in g.done, NEW i \in DOMAIN TextOf(g, n), NEW x, TextOf(g, n)[i] = x
    PROVE  /\ g.pos[n][i] \in Nat /\ g.pos[n][i + 1] \in Nat /\ i \in Nat
           /\ IsIns(x) => g.pos[n][i] \in DOMAIN X /\ X[g.pos[n][i]] = x /\ g.pos[n][i + 1] = g.pos[n][i] + 1
           /\ IsIns(x) /\ x.op \in {"LABEL", "BLANK"} => Reaches(X, g.pos[n][i], g.pos[n][i + 1])
           /\ \A v : IsLabel(x, v) => AtLabel(X, v) = g.pos[n][i] /\ LabelIn(X, v)
           /\ IsIns(x) /\ x.op = "LBRA" => Reaches(X, g.pos[n][i], AtLabel(X, x.arg)) /\ LabelIn(X, x.arg)
           /\ ~IsIns(x) => /\ x.tree \in g.done /\ g.from[x.tree] = x /\ g.stk[x.tree] = Inside(g, n)
                           /\ AtOf(g, x.tree) = g.pos[n][i] /\ ToOf(g, x.tree) = g.pos[n][i + 1]
  <1>1. PICK h, b, l : Describes(g, X, h, b, l)
    BY DEF Final
  <1>2. n \in Nodes /\ i \in Nat
    BY <1>1, FinalFacts, DoneGood
  <1>3. g.pos[n][i] \in Nat /\ g.pos[n][i + 1] \in Nat
    BY <1>2, FinalFacts
  <1>4. LaidItem(g, X, n, i)
    BY <1>1 DEF Describes, Laid
  <1>5. IsIns(x) => g.pos[n][i] \in DOMAIN X /\ X[g.pos[n][i]] = x /\ g.pos[n][i + 1] = g.pos[n][i] + 1
    BY <1>3, <1>4, FinalFacts DEF LaidItem
  <1>6. ~IsIns(x) => /\ x.tree \in g.done /\ g.from[x.tree] = x /\ g.stk[x.tree] = Inside(g, n)
                     /\ AtOf(g, x.tree) = g.pos[n][i] /\ ToOf(g, x.tree) = g.pos[n][i + 1]
    BY <1>4, FinalFacts DEF LaidItem
  <1>7. IsIns(x) /\ x.op \in {"LABEL", "BLANK"} => Reaches(X, g.pos[n][i], g.pos[n][i + 1])
    BY <1>5, PlaceRuns
  <1>8. \A v : IsLabel(x, v) => AtLabel(X, v) = g.pos[n][i] /\ LabelIn(X, v)
    BY <1>5, FinalFacts DEF IsLabel, LabelIn
  <1>9. IsIns(x) /\ x.op = "LBRA" => Reaches(X, g.pos[n][i], AtLabel(X, x.arg)) /\ LabelIn(X, x.arg)
    <2> SUFFICES ASSUME IsIns(x), x.op = "LBRA" PROVE Reaches(X, g.pos[n][i], AtLabel(X, x.arg)) /\ LabelIn(X, x.arg)
      OBVIOUS
    <2>1. x.arg \in TargetsOf(x)
      BY DEF TargetsOf
    <2> QED BY <1>5, <2>1, PlaceRuns DEF Final
  <1> QED BY <1>2, <1>3, <1>5, <1>6, <1>7, <1>8, <1>9

(***************************************************************************)
(* The text of each kind of node.                                          *)
(***************************************************************************)
LEMMA TextKnown ==
    ASSUME NEW g, NEW X, Final(g, X), NEW n \in g.done
    PROVE  /\ n \in Nodes /\ g.base[n] \in Nat /\ AtOf(g, n) = g.pos[n][1] /\ ToOf(g, n) = g.pos[n][Len(TextOf(g, n)) + 1]
           /\ Kind(n) \in ConditionKinds => TextOf(g, n) = BoolText(n, g.from[n].yes, g.from[n].no, g.base[n])
           /\ Kind(n) = "case" => TextOf(g, n) = <<Label(g.from[n].label)>> \o Trees(Kids(n))
           /\ Kind(n) \notin ConditionKinds \cup {"case"} => TextOf(g, n) = TreeText(n, g.base[n], g.stk[n])
           /\ AtOf(g, n) \in Nat /\ ToOf(g, n) \in Nat
  <1>1. PICK h, b, l : Describes(g, X, h, b, l)
    BY DEF Final
  <1>2. n \in Nodes /\ g.base[n] \in Nat /\ ItemOf(g.from[n], n) /\ Len(TextOf(g, n)) \in Nat
    BY <1>1, FinalFacts, DoneGood
  <1>3. /\ g.from[n].tree = n /\ g.from[n].w \in {"tree", "case", "jumps"}
        /\ g.from[n].w = "jumps" <=> Kind(n) \in ConditionKinds
        /\ g.from[n].w = "case" <=> Kind(n) = "case"
    BY <1>2 DEF ItemOf
  <1>4. AtOf(g, n) = g.pos[n][1] /\ ToOf(g, n) = g.pos[n][Len(TextOf(g, n)) + 1]
    BY DEF AtOf, ToOf
  <1>5. AtOf(g, n) \in Nat /\ ToOf(g, n) \in Nat
    BY <1>2, <1>4, FinalFacts
  <1> QED BY <1>2, <1>3, <1>4, <1>5 DEF TextOf, ItemText, ConditionKinds

(***************************************************************************)
(* An expression statement is its one instruction.                         *)
(***************************************************************************)
LEMMA DoCode ==
    ASSUME NEW g, NEW X, Final(g, X), NEW n \in g.done, Kind(n) = "do"
    PROVE  AtOf(g, n) \in DOMAIN X /\ X[AtOf(g, n)] = Ins("DO", n) /\ ToOf(g, n) = AtOf(g, n) + 1
  <1>1. TextOf(g, n) = <<Ins("DO", n)>>
    BY TextKnown DEF TreeText, ConditionKinds
  <1>2. 1 \in DOMAIN TextOf(g, n) /\ TextOf(g, n)[1] = Ins("DO", n) /\ Len(TextOf(g, n)) = 1 /\ IsIns(Ins("DO", n))
    BY <1>1 DEF IsIns, Ins
  <1>3. g.pos[n][1] \in DOMAIN X /\ X[g.pos[n][1]] = Ins("DO", n) /\ g.pos[n][1 + 1] = g.pos[n][1] + 1
    BY <1>2, ItemRuns
  <1>4. AtOf(g, n) = g.pos[n][1] /\ ToOf(g, n) = g.pos[n][1 + 1]
    BY <1>2, TextKnown
  <1> QED BY <1>3, <1>4

(***************************************************************************)
(* A jump goes to its label.                                               *)
(***************************************************************************)
LEMMA JumpRuns ==
    ASSUME NEW g, NEW X, Final(g, X), NEW n \in g.done, NEW v, TextOf(g, n) = <<Lbra(v)>>
    PROVE  Reaches(X, AtOf(g, n), AtLabel(X, v)) /\ LabelIn(X, v)
  <1>1. 1 \in DOMAIN TextOf(g, n) /\ TextOf(g, n)[1] = Lbra(v) /\ IsIns(Lbra(v)) /\ Lbra(v).op = "LBRA" /\ Lbra(v).arg = v
    BY DEF IsIns, Lbra, Ins
  <1>2. Reaches(X, g.pos[n][1], AtLabel(X, Lbra(v).arg)) /\ LabelIn(X, Lbra(v).arg)
    BY <1>1, ItemRuns
  <1>3. AtOf(g, n) = g.pos[n][1]
    BY TextKnown
  <1> QED BY <1>1, <1>2, <1>3

(***************************************************************************)
(* A labeled statement is its label and then its body                      *)
(* (LabeledStmt::emitCode).                                                *)
(***************************************************************************)
LEMMA LabeledCode ==
    ASSUME NEW g, NEW X, Final(g, X), NEW n \in g.done, Kind(n) = "label"
    PROVE  /\ AtLabel(X, SourceLabel(program[n].tag)) = AtOf(g, n)
           /\ Kid(n, "body") \in g.done /\ Reaches(X, AtOf(g, n), AtOf(g, Kid(n, "body")))
           /\ ToOf(g, Kid(n, "body")) = ToOf(g, n)
  <1>1. PICK v, c : v = SourceLabel(program[n].tag) /\ c = Kid(n, "body")
    OBVIOUS
  <1>2. TextOf(g, n) = <<Label(v), Tree(c)>>
    BY <1>1, TextKnown DEF TreeText, ConditionKinds
  <1>3. 1 \in DOMAIN TextOf(g, n) /\ TextOf(g, n)[1] = Label(v) /\ 2 \in DOMAIN TextOf(g, n) /\ TextOf(g, n)[2] = Tree(c)
        /\ Len(TextOf(g, n)) = 2
    BY <1>2
  <1>4. IsLabel(Label(v), v) /\ IsIns(Label(v)) /\ Label(v).op = "LABEL" /\ ~IsIns(Tree(c)) /\ Tree(c).tree = c
    BY DEF IsLabel, IsIns, Label, Ins, Tree
  <1>5. AtLabel(X, v) = g.pos[n][1] /\ Reaches(X, g.pos[n][1], g.pos[n][1 + 1])
    BY <1>3, <1>4, ItemRuns
  <1>6. c \in g.done /\ AtOf(g, c) = g.pos[n][2] /\ ToOf(g, c) = g.pos[n][2 + 1]
    BY <1>3, <1>4, ItemRuns
  <1>7. AtOf(g, n) = g.pos[n][1] /\ ToOf(g, n) = g.pos[n][2 + 1]
    BY <1>3, TextKnown
  <1> QED BY <1>1, <1>5, <1>6, <1>7

(***************************************************************************)
(* return goes to the end, goto to its label, break and continue to the    *)
(* labels of the closest loop or switch.                                   *)
(***************************************************************************)
LEMMA EndRuns ==
    ASSUME NEW g, NEW X, Final(g, X)
    PROVE  Reaches(X, Len(X) - 1, Len(X)) /\ AtLabel(X, EndLabel) = Len(X) - 1
  <1>1. Len(X) - 1 \in DOMAIN X /\ X[Len(X) - 1] = Label(EndLabel) /\ (Len(X) - 1) + 1 = Len(X)
    BY FinalFacts
  <1>2. IsLabel(Label(EndLabel), EndLabel) /\ Label(EndLabel).op = "LABEL"
    BY DEF IsLabel, IsIns, Label, Ins
  <1>3. PICK p : p = Len(X) - 1
    OBVIOUS
  <1>4. Reaches(X, p, p + 1)
    BY <1>1, <1>2, <1>3, PlaceRuns
  <1> QED BY <1>1, <1>2, <1>3, <1>4, FinalFacts

(***************************************************************************)
(* A return gets to the RTS (JumpStmt::emitCode).                          *)
(***************************************************************************)
LEMMA ReturnCode ==
    ASSUME NEW g, NEW X, Final(g, X), NEW n \in g.done, Kind(n) = "return"
    PROVE  Reaches(X, AtOf(g, n), Len(X))
  <1>1. TextOf(g, n) = <<Lbra(EndLabel)>>
    BY TextKnown DEF TreeText, ConditionKinds
  <1> QED BY <1>1, JumpRuns, EndRuns, ReachesOn

(***************************************************************************)
(* A goto gets to the statement of its label (JumpStmt::emitCode).         *)
(***************************************************************************)
LEMMA GotoCode ==
    ASSUME NEW g, NEW X, Final(g, X), NEW n \in g.done, Kind(n) = "goto"
    PROVE  LabelOf(n) \in g.done /\ Kind(LabelOf(n)) = "label" /\ Reaches(X, AtOf(g, n), AtOf(g, LabelOf(n)))
  <1>1. PICK v : v = SourceLabel(program[n].tag)
    OBVIOUS
  <1>2. TextOf(g, n) = <<Lbra(v)>>
    BY <1>1, TextKnown DEF TreeText, ConditionKinds
  <1>3. Reaches(X, AtOf(g, n), AtLabel(X, v)) /\ LabelIn(X, v)
    BY <1>2, JumpRuns
  <1>4. source \in DOMAIN Programs /\ n \in Nodes /\ ~Removed(n)
    BY FinalFacts
  <1>5. LabelOf(n) \in Nodes /\ Kind(LabelOf(n)) = "label" /\ program[LabelOf(n)].tag = program[n].tag
    BY <1>4, LabelOfFacts
  <1>6. LabelOf(n) \in g.done
    <2>1. PICK h, b, l : Describes(g, X, h, b, l)
      BY DEF Final
    <2>2. PICK p \in DOMAIN X : IsLabel(X[p], v)
      BY <1>3 DEF LabelIn
    <2>3. v \in Int /\ v < 0
      <3>1. program[n].tag \in Int
        BY <1>4, NodeFacts DEF Node
      <3>2. program[n].tag > 0
        BY <1>4, <1>5, ProgramIsTree DEF IsFunction, Nodes, Kind
      <3> QED BY <3>1, <3>2, <1>1 DEF SourceLabel
    <2>4. PICK m \in g.done : \E i \in DOMAIN TextOf(g, m) : IsLabel(TextOf(g, m)[i], v)
      BY <1>4, <2>1, <2>2, <2>3, LabelPlace DEF EndLabel, Final
    <2>5. OwnLabel(g, m, v) \/ CaseLabelOf(g, m, v) \/ LabeledBy(m, v)
      BY <1>4, <2>1, <2>4, LabelOwner
    <2>6. LabeledBy(m, v)
      <3>1. OwnLabel(g, m, v) \/ CaseLabelOf(g, m, v) => v \in Nat /\ v > 0
        BY <1>4, <2>1, OwnersAgree
      <3> QED BY <2>3, <2>5, <3>1
    <2>7. m \in Nodes
      BY FinalFacts
    <2>8. program[m].tag = program[n].tag
      <3>1. program[m].tag \in Int /\ program[n].tag \in Int
        BY <1>4, <2>7, NodeFacts DEF Node
      <3> QED BY <3>1, <1>1, <2>6 DEF LabeledBy, SourceLabel
    <2>9. m = LabelOf(n)
      BY <1>4, <2>6, <2>7, <2>8, LabelOfFacts DEF LabeledBy
    <2> QED BY <2>9
  <1>7. AtLabel(X, v) = AtOf(g, LabelOf(n))
    BY <1>1, <1>5, <1>6, LabeledCode
  <1> QED BY <1>3, <1>5, <1>6, <1>7

(***************************************************************************)
(* A break or a continue gets to the label that the closest loop or switch *)
(* has for it (JumpStmt::emitCode).                                        *)
(***************************************************************************)
LEMMA LoopJumpCode ==
    ASSUME NEW g, NEW X, Final(g, X), NEW n \in g.done, Kind(n) \in {"break", "continue"}
    PROVE  \E k \in g.done :
              /\ Innermost(n, k)
              /\ Kind(n) = "break" => Reaches(X, AtOf(g, n), AtLabel(X, Pair(k, g.base[k]).break))
              /\ Kind(n) = "continue" => /\ Reaches(X, AtOf(g, n), AtLabel(X, Pair(k, g.base[k]).continue))
                                         /\ Kind(k) = "for" \/ (Kind(k) = "while" /\ ~NeverHolds(k))
  <1>1. PICK h, b, l : Describes(g, X, h, b, l)
    BY DEF Final
  <1>2. source \in DOMAIN Programs /\ n \in Nodes /\ ~Removed(n) /\ g.wait = {}
    BY FinalFacts DEF Final
  <1>3. PICK k \in g.done : /\ Innermost(n, k) /\ g.stk[n][1] = Pair(k, g.base[k]) /\ Breakable(k)
                            /\ (Kind(n) = "continue" => Pair(k, g.base[k]).continue # NoContinue)
    BY <1>1, <1>2, StackOf
  <1>4. PICK v : v = IF Kind(n) = "break" THEN g.stk[n][1].break ELSE g.stk[n][1].continue
    OBVIOUS
  <1>5. TextOf(g, n) = <<Lbra(v)>>
    BY <1>4, TextKnown DEF TreeText, ConditionKinds
  <1>6. Reaches(X, AtOf(g, n), AtLabel(X, v)) /\ LabelIn(X, v)
    BY <1>5, JumpRuns
  <1>7. ASSUME Kind(n) = "continue" PROVE Kind(k) = "for" \/ (Kind(k) = "while" /\ ~NeverHolds(k))
    <2>1. Kind(k) # "switch"
      BY <1>1, <1>2, <1>3, <1>7, PairDefined
    <2>2. ~(Kind(k) = "while" /\ NeverHolds(k))
      <3> SUFFICES ASSUME Kind(k) = "while", NeverHolds(k) PROVE FALSE
        OBVIOUS
      <3>1. IsDo(k)
        BY <1>2, <1>3, <1>7, ContinueOfDo
      <3>2. k \in DOMAIN program
        BY FinalFacts DEF Nodes
      <3>3. Stranded(n)
        BY <3>1, <3>2, <1>3, <1>7 DEF Stranded
      <3>4. \E p \in DOMAIN X : \E w \in TargetsOf(X[p]) : ~LabelIn(X, w)
        BY <3>3, <1>1, <1>2, StrandedUndefined
      <3> QED BY <3>4 DEF Final
    <2> QED BY <2>1, <2>2, <1>3 DEF Breakable, Loops
  <1> QED BY <1>3, <1>4, <1>6, <1>7

(***************************************************************************)
(* The place after child j of a list of statements.                        *)
(***************************************************************************)
PlaceAfter(g, n, j) == IF j = Len(Kids(n)) THEN ToOf(g, n) ELSE AtOf(g, Kids(n)[j + 1])

(***************************************************************************)
(* The children of a node whose text lists them, d items in, are laid out  *)
(* one after the other.                                                    *)
(***************************************************************************)
LEMMA ListPlaces ==
    ASSUME NEW g, NEW X, Final(g, X), NEW n \in g.done, NEW d \in Nat,
           \A j \in DOMAIN Kids(n) : /\ j + d \in DOMAIN TextOf(g, n) /\ ~IsIns(TextOf(g, n)[j + d])
                                     /\ TextOf(g, n)[j + d].tree = Kids(n)[j]
    PROVE  /\ \A j \in DOMAIN Kids(n) : /\ Kids(n)[j] \in g.done /\ g.from[Kids(n)[j]] = TextOf(g, n)[j + d]
                                        /\ AtOf(g, Kids(n)[j]) = g.pos[n][j + d] /\ ToOf(g, Kids(n)[j]) = g.pos[n][j + d + 1]
           /\ \A j \in DOMAIN Kids(n) : j # Len(Kids(n)) => PlaceAfter(g, n, j) = g.pos[n][j + d + 1]
           /\ Len(Kids(n)) # 0 => PlaceAfter(g, n, 0) = g.pos[n][1 + d]
           /\ DOMAIN Kids(n) = 1 .. Len(Kids(n)) /\ Len(Kids(n)) \in Nat
  <1>1. n \in Nodes /\ source \in DOMAIN Programs
    BY FinalFacts
  <1>2. DOMAIN Kids(n) = 1 .. Len(Kids(n)) /\ Len(Kids(n)) \in Nat
    BY <1>1, KidFacts
  <1>3. ASSUME NEW j \in DOMAIN Kids(n)
        PROVE  /\ Kids(n)[j] \in g.done /\ g.from[Kids(n)[j]] = TextOf(g, n)[j + d]
               /\ AtOf(g, Kids(n)[j]) = g.pos[n][j + d] /\ ToOf(g, Kids(n)[j]) = g.pos[n][j + d + 1]
    <2>1. PICK i, x : i = j + d /\ x = TextOf(g, n)[i]
      OBVIOUS
    <2>2. i \in DOMAIN TextOf(g, n) /\ TextOf(g, n)[i] = x /\ ~IsIns(x) /\ x.tree = Kids(n)[j]
      BY <2>1
    <2>3. x.tree \in g.done /\ g.from[x.tree] = x /\ AtOf(g, x.tree) = g.pos[n][i] /\ ToOf(g, x.tree) = g.pos[n][i + 1]
      BY <2>2, ItemRuns
    <2> QED BY <2>1, <2>2, <2>3
  <1>4. ASSUME NEW j \in DOMAIN Kids(n), j # Len(Kids(n)) PROVE PlaceAfter(g, n, j) = g.pos[n][j + d + 1]
    <2>1. j + 1 \in DOMAIN Kids(n) /\ (j + 1) + d = j + d + 1
      BY <1>2, <1>4
    <2> QED BY <1>3, <1>4, <2>1 DEF PlaceAfter
  <1>5. ASSUME Len(Kids(n)) # 0 PROVE PlaceAfter(g, n, 0) = g.pos[n][1 + d]
    <2>1. 1 \in DOMAIN Kids(n) /\ 0 + 1 = 1
      BY <1>2, <1>5
    <2> QED BY <1>3, <1>5, <2>1 DEF PlaceAfter
  <1> QED BY <1>2, <1>3, <1>4, <1>5

(***************************************************************************)
(* A compound statement and a case run their statements one after the      *)
(* other.                                                                  *)
(***************************************************************************)
LEMMA BlockCode ==
    ASSUME NEW g, NEW X, Final(g, X), NEW n \in g.done, Kind(n) = "block"
    PROVE  /\ Reaches(X, AtOf(g, n), PlaceAfter(g, n, 0))
           /\ \A j \in DOMAIN Kids(n) : Kids(n)[j] \in g.done /\ Reaches(X, ToOf(g, Kids(n)[j]), PlaceAfter(g, n, j))
  <1> DEFINE u == Trees(Kids(n))
  <1>1. n \in Nodes /\ source \in DOMAIN Programs
    BY FinalFacts
  <1>2. DOMAIN Kids(n) = 1 .. Len(Kids(n)) /\ Len(Kids(n)) \in Nat
    BY <1>1, KidFacts
  <1>3. TextOf(g, n) = u
    BY TextKnown DEF TreeText, ConditionKinds
  <1>4. DOMAIN u = DOMAIN Kids(n) /\ Len(u) = Len(Kids(n)) /\ \A i \in DOMAIN u : u[i] = Tree(Kids(n)[i])
    BY <1>2 DEF Trees
  <1> HIDE DEF u
  <1>5. \A j \in DOMAIN Kids(n) : j + 0 \in DOMAIN u /\ ~IsIns(u[j + 0]) /\ u[j + 0].tree = Kids(n)[j]
    BY <1>2, <1>4 DEF Tree, IsIns
  <1>6. /\ \A j \in DOMAIN Kids(n) : Kids(n)[j] \in g.done /\ ToOf(g, Kids(n)[j]) = g.pos[n][j + 0 + 1]
        /\ \A j \in DOMAIN Kids(n) : j # Len(Kids(n)) => PlaceAfter(g, n, j) = g.pos[n][j + 0 + 1]
        /\ Len(Kids(n)) # 0 => PlaceAfter(g, n, 0) = g.pos[n][1 + 0]
    BY <1>3, <1>5, ListPlaces
  <1>7. AtOf(g, n) = g.pos[n][1] /\ ToOf(g, n) = g.pos[n][Len(Kids(n)) + 1]
    BY <1>3, <1>4, TextKnown
  <1>8. AtOf(g, n) = PlaceAfter(g, n, 0)
    BY <1>6, <1>7, <1>2 DEF PlaceAfter
  <1>9. \A j \in DOMAIN Kids(n) : ToOf(g, Kids(n)[j]) = PlaceAfter(g, n, j)
    BY <1>2, <1>6, <1>7 DEF PlaceAfter
  <1> QED BY <1>6, <1>8, <1>9, ReachesOn

(***************************************************************************)
(* A case is its label and then its statements.                            *)
(***************************************************************************)
LEMMA CaseCode ==
    ASSUME NEW g, NEW X, Final(g, X), NEW n \in g.done, Kind(n) = "case"
    PROVE  /\ Reaches(X, AtOf(g, n), PlaceAfter(g, n, 0)) /\ AtLabel(X, g.from[n].label) = AtOf(g, n) /\ LabelIn(X, g.from[n].label)
           /\ \A j \in DOMAIN Kids(n) : Kids(n)[j] \in g.done /\ Reaches(X, ToOf(g, Kids(n)[j]), PlaceAfter(g, n, j))
  <1>1. n \in Nodes /\ source \in DOMAIN Programs
    BY FinalFacts
  <1>2. DOMAIN Kids(n) = 1 .. Len(Kids(n)) /\ Len(Kids(n)) \in Nat
    BY <1>1, KidFacts
  <1>3. PICK v, u : v = g.from[n].label /\ u = TextOf(g, n)
    OBVIOUS
  <1>4. u = <<Label(v)>> \o Trees(Kids(n))
    BY <1>3, TextKnown
  <1>5. Len(u) = Len(Kids(n)) + 1 /\ DOMAIN u = 1 .. (Len(Kids(n)) + 1) /\ u[1] = Label(v)
        /\ \A j \in DOMAIN Kids(n) : u[j + 1] = Tree(Kids(n)[j])
    <2>1. PICK s : s = Trees(Kids(n))
      OBVIOUS
    <2>2. PICK S : S = {Label(v)} \cup {Tree(Kids(n)[i]) : i \in DOMAIN Kids(n)}
      OBVIOUS
    <2>3. s \in Seq(S) /\ Len(s) = Len(Kids(n)) /\ \A i \in 1 .. Len(Kids(n)) : s[i] = Tree(Kids(n)[i])
      BY <1>2, <2>1, <2>2 DEF Trees
    <2>4. u = <<Label(v)>> \o s /\ Label(v) \in S
      BY <1>4, <2>1, <2>2
    <2> QED BY <1>2, <2>3, <2>4
  <1>6. ASSUME NEW j \in DOMAIN Kids(n) PROVE j + 1 \in DOMAIN u /\ ~IsIns(u[j + 1]) /\ u[j + 1].tree = Kids(n)[j]
    <2>1. u[j + 1] = Tree(Kids(n)[j]) /\ j + 1 \in DOMAIN u
      BY <1>2, <1>5
    <2> QED BY <2>1 DEF Tree, IsIns
  <1>7. /\ \A j \in DOMAIN Kids(n) : Kids(n)[j] \in g.done /\ ToOf(g, Kids(n)[j]) = g.pos[n][j + 1 + 1]
        /\ \A j \in DOMAIN Kids(n) : j # Len(Kids(n)) => PlaceAfter(g, n, j) = g.pos[n][j + 1 + 1]
        /\ Len(Kids(n)) # 0 => PlaceAfter(g, n, 0) = g.pos[n][1 + 1]
    BY <1>3, <1>6, ListPlaces
  <1>8. AtOf(g, n) = g.pos[n][1] /\ ToOf(g, n) = g.pos[n][Len(Kids(n)) + 1 + 1]
    BY <1>3, <1>5, TextKnown
  <1>9. g.pos[n][1 + 1] = PlaceAfter(g, n, 0)
    BY <1>7, <1>8, <1>2 DEF PlaceAfter
  <1>10. \A j \in DOMAIN Kids(n) : ToOf(g, Kids(n)[j]) = PlaceAfter(g, n, j)
    BY <1>2, <1>7, <1>8 DEF PlaceAfter
  <1>11. 1 \in DOMAIN u /\ IsLabel(Label(v), v) /\ IsIns(Label(v)) /\ Label(v).op = "LABEL"
    BY <1>2, <1>5 DEF IsLabel, IsIns, Label, Ins
  <1>12. Reaches(X, g.pos[n][1], g.pos[n][1 + 1]) /\ AtLabel(X, v) = g.pos[n][1] /\ LabelIn(X, v)
    BY <1>3, <1>5, <1>11, ItemRuns
  <1> QED BY <1>3, <1>7, <1>8, <1>9, <1>10, <1>12, ReachesOn

(***************************************************************************)
(* A switch goes to the label of a case or of its end.                     *)
(***************************************************************************)
LEMMA SwitchCode ==
    ASSUME NEW g, NEW X, Final(g, X), NEW n \in g.done, Kind(n) = "switch", NEW l, l = g.base[n]
    PROVE  /\ AtOf(g, n) \in DOMAIN X /\ X[AtOf(g, n)] = Ins("SELECT", [node |-> n, first |-> l + 2, end |-> l + 1])
           /\ \A j \in DOMAIN Kids(n) : /\ Kids(n)[j] \in g.done /\ Reaches(X, ToOf(g, Kids(n)[j]), PlaceAfter(g, n, j))
                                        /\ AtLabel(X, l + 1 + j) = AtOf(g, Kids(n)[j]) /\ LabelIn(X, l + 1 + j)
           /\ Reaches(X, AtLabel(X, l + 1), ToOf(g, n)) /\ LabelIn(X, l + 1)
  <1>1. n \in Nodes /\ source \in DOMAIN Programs /\ l \in Nat
    BY FinalFacts
  <1>2. PICK u, k : u = TextOf(g, n) /\ k = Len(Kids(n))
    OBVIOUS
  <1>3. u = SwitchText(n, l)
    BY <1>2, TextKnown DEF TreeText, ConditionKinds
  <1>4. SwitchShape(n, l, k, u)
    BY <1>1, <1>2, <1>3, SwitchItems
  <1>5. DOMAIN Kids(n) = 1 .. k /\ k \in Nat /\ DOMAIN u = 1 .. (k + 2) /\ Len(u) = k + 2
    BY <1>4 DEF SwitchShape
  <1>6. \A j \in DOMAIN Kids(n) : j + 1 \in DOMAIN u /\ ~IsIns(u[j + 1]) /\ u[j + 1].tree = Kids(n)[j]
    BY <1>4, <1>5 DEF SwitchShape
  <1>7. /\ \A j \in DOMAIN Kids(n) : /\ Kids(n)[j] \in g.done /\ ToOf(g, Kids(n)[j]) = g.pos[n][j + 1 + 1]
                                     /\ g.from[Kids(n)[j]] = u[j + 1]
        /\ \A j \in DOMAIN Kids(n) : j # Len(Kids(n)) => PlaceAfter(g, n, j) = g.pos[n][j + 1 + 1]
    <2>1. \A j \in DOMAIN Kids(n) : j + 1 \in DOMAIN TextOf(g, n) /\ ~IsIns(TextOf(g, n)[j + 1]) /\ TextOf(g, n)[j + 1].tree = Kids(n)[j]
      BY <1>2, <1>6
    <2>2. /\ \A j \in DOMAIN Kids(n) : /\ Kids(n)[j] \in g.done /\ ToOf(g, Kids(n)[j]) = g.pos[n][j + 1 + 1]
                                       /\ g.from[Kids(n)[j]] = TextOf(g, n)[j + 1]
          /\ \A j \in DOMAIN Kids(n) : j # Len(Kids(n)) => PlaceAfter(g, n, j) = g.pos[n][j + 1 + 1]
      BY <2>1, ListPlaces
    <2> QED BY <1>2, <2>2
  <1>8. AtOf(g, n) = g.pos[n][1] /\ ToOf(g, n) = g.pos[n][k + 2 + 1]
    BY <1>2, <1>5, TextKnown
  <1>9. 1 \in DOMAIN u /\ IsIns(u[1]) /\ u[1] = Ins("SELECT", [node |-> n, first |-> l + 2, end |-> l + 1])
    BY <1>4, <1>5 DEF SwitchShape
  <1>10. AtOf(g, n) \in DOMAIN X /\ X[AtOf(g, n)] = Ins("SELECT", [node |-> n, first |-> l + 2, end |-> l + 1])
    BY <1>2, <1>8, <1>9, ItemRuns
  <1>11. k + 2 \in DOMAIN u /\ IsLabel(u[k + 2], l + 1) /\ IsIns(u[k + 2]) /\ u[k + 2].op = "LABEL"
    BY <1>4, <1>5 DEF SwitchShape, IsLabel
  <1>12. Reaches(X, g.pos[n][k + 2], g.pos[n][k + 2 + 1]) /\ AtLabel(X, l + 1) = g.pos[n][k + 2] /\ LabelIn(X, l + 1)
    BY <1>2, <1>11, ItemRuns
  <1>13. ASSUME NEW j \in DOMAIN Kids(n) PROVE Reaches(X, ToOf(g, Kids(n)[j]), PlaceAfter(g, n, j))
    <2>1. CASE j = k
      <3>1. PlaceAfter(g, n, j) = g.pos[n][k + 2 + 1]
        BY <1>2, <1>8, <2>1 DEF PlaceAfter
      <3>2. ToOf(g, Kids(n)[j]) = g.pos[n][k + 2]
        BY <1>5, <1>7, <2>1
      <3> QED BY <1>12, <3>1, <3>2
    <2>2. CASE j # k
      BY <1>2, <1>7, <2>2, ReachesOn
    <2> QED BY <2>1, <2>2
  <1>14. ASSUME NEW j \in DOMAIN Kids(n) PROVE AtLabel(X, l + 1 + j) = AtOf(g, Kids(n)[j]) /\ LabelIn(X, l + 1 + j)
    <2>1. PICK c : c = Kids(n)[j]
      OBVIOUS
    <2>2. c \in g.done /\ g.from[c].label = l + 1 + j /\ g.from[c].w = "case"
      BY <1>4, <1>7, <2>1 DEF SwitchShape
    <2>3. Kind(c) = "case"
      BY <2>2, FinalFacts DEF ItemOf
    <2> QED BY <2>1, <2>2, <2>3, CaseCode
  <1> QED BY <1>7, <1>8, <1>10, <1>12, <1>13, <1>14

(***************************************************************************)
(* What each sort of item does, by its place.                              *)
(***************************************************************************)
Kept(g, c, p, q) == c \in g.done /\ AtOf(g, c) = p /\ ToOf(g, c) = q

(***************************************************************************)
(* What each sort of item of a text does at its place.                     *)
(***************************************************************************)
LEMMA ItemSorts ==
    ASSUME NEW g, NEW X, Final(g, X), NEW n \in g.done, NEW i \in DOMAIN TextOf(g, n), NEW p, NEW q, p = g.pos[n][i], q = g.pos[n][i + 1]
    PROVE  /\ \A c : TextOf(g, n)[i] = Tree(c) => Kept(g, c, p, q)
           /\ \A c, yes, no : TextOf(g, n)[i] = BoolJumps(c, yes, no) =>
                 c \in g.done /\ AtOf(g, c) = p /\ g.from[c].yes = yes /\ g.from[c].no = no
           /\ \A v : TextOf(g, n)[i] = Label(v) \/ TextOf(g, n)[i] = EndLabelAndPop(v) =>
                 AtLabel(X, v) = p /\ LabelIn(X, v) /\ Reaches(X, p, q)
           /\ \A v : TextOf(g, n)[i] = Lbra(v) => Reaches(X, p, AtLabel(X, v))
           /\ TextOf(g, n)[i] = Blank => Reaches(X, p, q)
           /\ \A r : TextOf(g, n)[i] = Optional(n, r) =>
                 /\ Has(n, r) => Kept(g, Kid(n, r), p, q)
                 /\ ~Has(n, r) => Reaches(X, p, q)
  <1>1. PICK x : x = TextOf(g, n)[i]
    OBVIOUS
  <1>2. ASSUME NEW c, x = Tree(c) PROVE Kept(g, c, p, q)
    <2>1. ~IsIns(x) /\ x.tree = c
      BY <1>2 DEF IsIns, Tree
    <2> QED BY <1>1, <2>1, ItemRuns DEF Kept
  <1>3. ASSUME NEW c, NEW yes, NEW no, x = BoolJumps(c, yes, no)
        PROVE  c \in g.done /\ AtOf(g, c) = p /\ g.from[c].yes = yes /\ g.from[c].no = no
    <2>1. ~IsIns(x) /\ x.tree = c /\ x.yes = yes /\ x.no = no
      BY <1>3 DEF IsIns, BoolJumps
    <2> QED BY <1>1, <2>1, ItemRuns
  <1>4. ASSUME NEW v, x = Label(v) \/ x = EndLabelAndPop(v) PROVE AtLabel(X, v) = p /\ LabelIn(X, v) /\ Reaches(X, p, q)
    <2>1. IsLabel(x, v) /\ IsIns(x) /\ x.op = "LABEL"
      BY <1>4 DEF IsLabel, IsIns, Label, Ins, EndLabelAndPop
    <2> QED BY <1>1, <2>1, ItemRuns
  <1>5. ASSUME NEW v, x = Lbra(v) PROVE Reaches(X, p, AtLabel(X, v))
    <2>1. IsIns(x) /\ x.op = "LBRA" /\ x.arg = v
      BY <1>5 DEF IsIns, Lbra, Ins
    <2>2. Reaches(X, g.pos[n][i], AtLabel(X, x.arg))
      BY <1>1, <2>1, ItemRuns
    <2> QED BY <2>1, <2>2
  <1>6. ASSUME x = Blank PROVE Reaches(X, p, q)
    <2>1. IsIns(x) /\ x.op = "BLANK"
      BY <1>6 DEF IsIns, Blank, Ins
    <2> QED BY <1>1, <2>1, ItemRuns
  <1>7. ASSUME NEW r, x = Optional(n, r)
        PROVE  (Has(n, r) => Kept(g, Kid(n, r), p, q)) /\ (~Has(n, r) => Reaches(X, p, q))
    BY <1>2, <1>6, <1>7 DEF Optional
  <1> QED BY <1>1, <1>2, <1>3, <1>4, <1>5, <1>6, <1>7

(***************************************************************************)
(* An if goes from its condition to its branches, and from there on.       *)
(***************************************************************************)
LEMMA IfCode ==
    ASSUME NEW g, NEW X, Final(g, X), NEW n \in g.done, Kind(n) = "if", ~ConstantTest(n),
           NEW c, c = Kid(n, "cond"), NEW t, t = Kid(n, "then"), NEW e, e = Kid(n, "else")
    PROVE  /\ c \in g.done /\ AtOf(g, c) = AtOf(g, n)
           /\ t \in g.done /\ Reaches(X, AtLabel(X, g.from[c].yes), AtOf(g, t)) /\ Reaches(X, ToOf(g, t), ToOf(g, n))
           /\ Has(n, "else") => /\ e \in g.done /\ Reaches(X, AtLabel(X, g.from[c].no), AtOf(g, e))
                                /\ Reaches(X, ToOf(g, e), ToOf(g, n))
           /\ ~Has(n, "else") => Reaches(X, AtLabel(X, g.from[c].no), ToOf(g, n))
  <1>1. PICK u, l, q : u = TextOf(g, n) /\ l = g.base[n] /\ q = g.pos[n]
    OBVIOUS
  <1>2. u = IfText(n, l)
    BY <1>1, TextKnown DEF TreeText, ConditionKinds
  <1>3. u = <<BoolJumps(c, l + 1, l + 2), Label(l + 1), Tree(t), IF Has(n, "else") THEN Lbra(l + 3) ELSE Blank,
              Label(l + 2), Optional(n, "else"), Label(l + 3)>>
    BY <1>2 DEF IfText
  <1>4. DOMAIN u = 1 .. 7 /\ Len(u) = 7 /\ u[1] = BoolJumps(c, l + 1, l + 2) /\ u[2] = Label(l + 1) /\ u[3] = Tree(t)
        /\ u[4] = (IF Has(n, "else") THEN Lbra(l + 3) ELSE Blank) /\ u[5] = Label(l + 2) /\ u[6] = Optional(n, "else")
        /\ u[7] = Label(l + 3)
    BY <1>3
  <1>5. c \in g.done /\ AtOf(g, c) = q[1] /\ g.from[c].yes = l + 1 /\ g.from[c].no = l + 2
    BY <1>1, <1>4, ItemSorts
  <1>6. AtLabel(X, l + 1) = q[2] /\ Reaches(X, q[2], q[2 + 1])
    BY <1>1, <1>4, ItemSorts
  <1>7. Kept(g, t, q[3], q[3 + 1])
    BY <1>1, <1>4, ItemSorts
  <1>8. /\ Has(n, "else") => Reaches(X, q[4], AtLabel(X, l + 3))
        /\ ~Has(n, "else") => Reaches(X, q[4], q[4 + 1])
    BY <1>1, <1>4, ItemSorts
  <1>9. AtLabel(X, l + 2) = q[5] /\ Reaches(X, q[5], q[5 + 1])
    BY <1>1, <1>4, ItemSorts
  <1>10. (Has(n, "else") => Kept(g, e, q[6], q[6 + 1])) /\ (~Has(n, "else") => Reaches(X, q[6], q[6 + 1]))
    BY <1>1, <1>4, ItemSorts
  <1>11. AtLabel(X, l + 3) = q[7] /\ Reaches(X, q[7], q[7 + 1])
    BY <1>1, <1>4, ItemSorts
  <1>12. AtOf(g, n) = q[1] /\ ToOf(g, n) = q[7 + 1]
    BY <1>1, <1>4, TextKnown
  <1>13. /\ 2 + 1 = 3 /\ 3 + 1 = 4 /\ 4 + 1 = 5 /\ 5 + 1 = 6 /\ 6 + 1 = 7 /\ 7 + 1 = 8
    OBVIOUS
  <1>14. Reaches(X, AtLabel(X, l + 1), AtOf(g, t)) /\ ToOf(g, t) = q[4]
    BY <1>6, <1>7, <1>13 DEF Kept
  <1>15. CASE Has(n, "else")
    <2>1. Reaches(X, q[4], q[8])
      BY <1>8, <1>11, <1>13, <1>15, ReachesOn
    <2> QED BY <1>5, <1>7, <1>9, <1>10, <1>11, <1>12, <1>13, <1>14, <1>15, <2>1 DEF Kept
  <1>16. CASE ~Has(n, "else")
    <2>1. Reaches(X, q[5], q[8])
      BY <1>9, <1>10, <1>11, <1>13, <1>16, ReachesOn
    <2>2. Reaches(X, q[4], q[8])
      BY <1>8, <1>13, <1>16, <2>1, ReachesOn
    <2> QED BY <1>5, <1>7, <1>9, <1>12, <1>13, <1>14, <1>16, <2>1, <2>2 DEF Kept
  <1> QED BY <1>15, <1>16

(***************************************************************************)
(* With a constant condition it is one of its branches, or nothing.        *)
(***************************************************************************)
LEMMA IfConstantCode ==
    ASSUME NEW g, NEW X, Final(g, X), NEW n \in g.done, Kind(n) = "if", ConstantTest(n), NEW r, r = IF Holds(n) THEN "then" ELSE "else"
    PROVE  /\ Has(n, r) => Kept(g, Kid(n, r), AtOf(g, n), ToOf(g, n))
           /\ ~Has(n, r) => Reaches(X, AtOf(g, n), ToOf(g, n))
  <1>1. PICK u, q : u = TextOf(g, n) /\ q = g.pos[n]
    OBVIOUS
  <1>2. u = IfText(n, g.base[n])
    BY <1>1, TextKnown DEF TreeText, ConditionKinds
  <1>3. Has(n, "then")
    BY FinalFacts, KidRoles DEF Required
  <1>4. u = <<Optional(n, r)>>
    <2>1. CASE Holds(n)
      BY <1>2, <1>3, <2>1 DEF IfText, Optional
    <2>2. CASE ~Holds(n)
      BY <1>2, <2>2 DEF IfText
    <2> QED BY <2>1, <2>2
  <1>5. 1 \in DOMAIN u /\ Len(u) = 1 /\ u[1] = Optional(n, r)
    BY <1>4
  <1>6. (Has(n, r) => Kept(g, Kid(n, r), q[1], q[1 + 1])) /\ (~Has(n, r) => Reaches(X, q[1], q[1 + 1]))
    BY <1>1, <1>5, ItemSorts
  <1>7. AtOf(g, n) = q[1] /\ ToOf(g, n) = q[1 + 1]
    BY <1>1, <1>5, TextKnown
  <1> QED BY <1>6, <1>7

(***************************************************************************)
(* Where the code is when a while or if is about to test its condition.    *)
(***************************************************************************)
ConstSpot(g, n) == IF Kind(n) = "if" \/ (~Holds(n) /\ ~IsDo(n)) THEN g.pos[n][1]
                   ELSE IF Holds(n) THEN g.pos[n][4] ELSE g.pos[n][3]
TestSpot(g, n) == IF ConstantTest(n) THEN ConstSpot(g, n) ELSE AtOf(g, Kid(n, "cond"))

(***************************************************************************)
(* The loop of a while: from the start to the condition or to the body,    *)
(* from the body to the condition, and from there to the body or out.      *)
(***************************************************************************)
WhileRuns(g, X, n, b, s) ==
    /\ IF IsDo(n) THEN Reaches(X, AtOf(g, n), AtOf(g, b)) ELSE Reaches(X, AtOf(g, n), s)
    /\ ~NeverHolds(n) \/ IsDo(n) => b \in g.done /\ Reaches(X, ToOf(g, b), s)
    /\ Reaches(X, AtLabel(X, Pair(n, g.base[n]).break), ToOf(g, n))
    /\ ~NeverHolds(n) => Reaches(X, AtLabel(X, Pair(n, g.base[n]).continue), s)
    /\ ConstantTest(n) => IF Holds(n) THEN Reaches(X, s, AtOf(g, b)) ELSE Reaches(X, s, ToOf(g, n))
    /\ ~ConstantTest(n) => /\ Kid(n, "cond") \in g.done
                           /\ Reaches(X, AtLabel(X, g.from[Kid(n, "cond")].yes), AtOf(g, b))
                           /\ Reaches(X, AtLabel(X, g.from[Kid(n, "cond")].no), ToOf(g, n))

(***************************************************************************)
(* A while whose constant condition never holds: its body at most once     *)
(* (WhileStmt::emitCode).                                                  *)
(***************************************************************************)
LEMMA WhileNeverCode ==
    ASSUME NEW g, NEW X, Final(g, X), NEW n \in g.done, Kind(n) = "while", NeverHolds(n)
    PROVE  WhileRuns(g, X, n, Kid(n, "body"), TestSpot(g, n))
  <1>1. PICK u, l, q, b, s : u = TextOf(g, n) /\ l = g.base[n] /\ q = g.pos[n] /\ b = Kid(n, "body") /\ s = TestSpot(g, n)
    OBVIOUS
  <1>2. u = WhileText(n, l)
    BY <1>1, TextKnown DEF TreeText, ConditionKinds
  <1>3. ConstantTest(n) /\ ~Holds(n) /\ Pair(n, l).break = l + 3
    BY DEF NeverHolds, Pair, Targets
  <1>4. CASE IsDo(n)
    <2>1. u = <<Label(l + 1), Tree(b), EndLabelAndPop(l + 3)>>
      BY <1>1, <1>2, <1>4 DEF WhileText
    <2>2. DOMAIN u = 1 .. 3 /\ Len(u) = 3 /\ u[1] = Label(l + 1) /\ u[2] = Tree(b) /\ u[3] = EndLabelAndPop(l + 3)
      BY <2>1
    <2>3. Reaches(X, q[1], q[1 + 1])
      BY <1>1, <2>2, ItemSorts
    <2>4. Kept(g, b, q[2], q[2 + 1])
      BY <1>1, <2>2, ItemSorts
    <2>5. AtLabel(X, l + 3) = q[3] /\ Reaches(X, q[3], q[3 + 1])
      BY <1>1, <2>2, ItemSorts
    <2>6. AtOf(g, n) = q[1] /\ ToOf(g, n) = q[3 + 1] /\ s = q[3]
      BY <1>1, <1>3, <1>4, <2>2, TextKnown DEF TestSpot, ConstSpot
    <2> QED BY <1>1, <1>3, <1>4, <2>3, <2>4, <2>5, <2>6, ReachesOn DEF WhileRuns, Kept
  <1>5. CASE ~IsDo(n)
    <2>1. u = <<Blank, Blank, EndLabelAndPop(l + 3)>>
      BY <1>1, <1>2, <1>5 DEF WhileText
    <2>2. DOMAIN u = 1 .. 3 /\ Len(u) = 3 /\ u[1] = Blank /\ u[2] = Blank /\ u[3] = EndLabelAndPop(l + 3)
      BY <2>1
    <2>3. Reaches(X, q[1], q[1 + 1])
      BY <1>1, <2>2, ItemSorts
    <2>4. Reaches(X, q[2], q[2 + 1])
      BY <1>1, <2>2, ItemSorts
    <2>5. AtLabel(X, l + 3) = q[3] /\ Reaches(X, q[3], q[3 + 1])
      BY <1>1, <2>2, ItemSorts
    <2>6. AtOf(g, n) = q[1] /\ ToOf(g, n) = q[3 + 1] /\ s = q[1]
      BY <1>1, <1>3, <1>5, <2>2, TextKnown DEF TestSpot, ConstSpot
    <2>7. Reaches(X, q[1], q[3])
      BY <2>3, <2>4, ReachesOn
    <2>8. Reaches(X, q[1], q[3 + 1])
      BY <2>5, <2>7, ReachesOn
    <2> QED BY <1>1, <1>3, <1>5, <2>5, <2>6, <2>8, ReachesOn DEF WhileRuns
  <1> QED BY <1>4, <1>5

(***************************************************************************)
(* Any other while goes round (WhileStmt::emitCode).                       *)
(***************************************************************************)
LEMMA WhileCode ==
    ASSUME NEW g, NEW X, Final(g, X), NEW n \in g.done, Kind(n) = "while", ~NeverHolds(n)
    PROVE  WhileRuns(g, X, n, Kid(n, "body"), TestSpot(g, n))
  <1>1. PICK u, l, q, b, c, s : u = TextOf(g, n) /\ l = g.base[n] /\ q = g.pos[n] /\ b = Kid(n, "body") /\ c = Kid(n, "cond")
                                /\ s = TestSpot(g, n)
    OBVIOUS
  <1>2. u = WhileText(n, l)
    BY <1>1, TextKnown DEF TreeText, ConditionKinds
  <1>3. Pair(n, l).break = l + 3 /\ Pair(n, l).continue = l + 2
    BY DEF Pair, Targets
  <1>4. u = <<IF IsDo(n) THEN Blank ELSE Lbra(l + 2), Label(l + 1), Tree(b), Label(l + 2), WhileTest(n, l), EndLabelAndPop(l + 3)>>
    BY <1>1, <1>2 DEF WhileText
  <1>5. DOMAIN u = 1 .. 6 /\ Len(u) = 6 /\ u[1] = (IF IsDo(n) THEN Blank ELSE Lbra(l + 2)) /\ u[2] = Label(l + 1) /\ u[3] = Tree(b)
        /\ u[4] = Label(l + 2) /\ u[5] = WhileTest(n, l) /\ u[6] = EndLabelAndPop(l + 3)
    BY <1>4
  <1>6. IF IsDo(n) THEN Reaches(X, q[1], q[1 + 1]) ELSE Reaches(X, q[1], AtLabel(X, l + 2))
    BY <1>1, <1>5, ItemSorts
  <1>7. AtLabel(X, l + 1) = q[2] /\ Reaches(X, q[2], q[2 + 1])
    BY <1>1, <1>5, ItemSorts
  <1>8. Kept(g, b, q[3], q[3 + 1])
    BY <1>1, <1>5, ItemSorts
  <1>9. AtLabel(X, l + 2) = q[4] /\ Reaches(X, q[4], q[4 + 1])
    BY <1>1, <1>5, ItemSorts
  <1>10. AtLabel(X, l + 3) = q[6] /\ Reaches(X, q[6], q[6 + 1])
    BY <1>1, <1>5, ItemSorts
  <1>11. AtOf(g, n) = q[1] /\ ToOf(g, n) = q[6 + 1]
    BY <1>1, <1>5, TextKnown
  <1>12. CASE ConstantTest(n)
    <2>1. Holds(n) /\ s = q[4]
      BY <1>1, <1>12, TextKnown DEF TestSpot, ConstSpot, NeverHolds
    <2>2. u[5] = Lbra(l + 1)
      BY <1>5, <1>12 DEF WhileTest
    <2>3. Reaches(X, q[5], AtLabel(X, l + 1))
      BY <1>1, <1>5, <2>2, ItemSorts
    <2>4. Reaches(X, q[4], q[2])
      BY <1>7, <1>9, <2>3, ReachesOn
    <2>5. Reaches(X, q[4], q[3])
      BY <1>7, <2>4, ReachesOn
    <2> QED BY <1>1, <1>3, <1>6, <1>7, <1>8, <1>9, <1>10, <1>11, <1>12, <2>1, <2>5, ReachesOn DEF WhileRuns, Kept
  <1>13. CASE ~ConstantTest(n)
    <2>1. s = AtOf(g, c)
      BY <1>1, <1>13 DEF TestSpot
    <2>2. u[5] = BoolJumps(c, l + 1, l + 3)
      BY <1>1, <1>5, <1>13 DEF WhileTest
    <2>3. c \in g.done /\ AtOf(g, c) = q[5] /\ g.from[c].yes = l + 1 /\ g.from[c].no = l + 3
      BY <1>1, <1>5, <2>2, ItemSorts
    <2>4. Reaches(X, q[1], q[4]) \/ IsDo(n)
      BY <1>6, <1>9
    <2>5. ~IsDo(n) => Reaches(X, q[1], q[5])
      BY <1>9, <2>4, ReachesOn
    <2>6. IsDo(n) => Reaches(X, q[1], q[3])
      BY <1>6, <1>7, ReachesOn
    <2> QED BY <1>1, <1>3, <1>7, <1>8, <1>9, <1>10, <1>11, <1>13, <2>1, <2>3, <2>5, <2>6, ReachesOn DEF WhileRuns, Kept
  <1> QED BY <1>12, <1>13

(***************************************************************************)
(* Where the code is when a for is about to test its condition, and when   *)
(* it goes on after its body.                                              *)
(***************************************************************************)
ForSpot(g, n) == IF Has(n, "cond") THEN AtOf(g, Kid(n, "cond")) ELSE AtOf(g, Kid(n, "body"))
IncrementSpot(g, n) == IF Has(n, "incr") THEN AtOf(g, Kid(n, "incr")) ELSE ForSpot(g, n)

ForRuns(g, X, n, b, s, a) ==
    /\ Has(n, "init") => /\ Kid(n, "init") \in g.done /\ AtOf(g, Kid(n, "init")) = AtOf(g, n)
                         /\ Reaches(X, ToOf(g, Kid(n, "init")), s)
    /\ ~Has(n, "init") => Reaches(X, AtOf(g, n), s)
    /\ b \in g.done /\ Reaches(X, ToOf(g, b), a)
    /\ Has(n, "incr") => Kid(n, "incr") \in g.done /\ Reaches(X, ToOf(g, Kid(n, "incr")), s)
    /\ Has(n, "cond") => /\ Kid(n, "cond") \in g.done
                         /\ Reaches(X, AtLabel(X, g.from[Kid(n, "cond")].yes), AtOf(g, b))
                         /\ Reaches(X, AtLabel(X, g.from[Kid(n, "cond")].no), ToOf(g, n))
    /\ Reaches(X, AtLabel(X, Pair(n, g.base[n]).break), ToOf(g, n))
    /\ Reaches(X, AtLabel(X, Pair(n, g.base[n]).continue), a)

(***************************************************************************)
(* The parts of a for follow each other as in C (ForStmt::emitCode).       *)
(***************************************************************************)
LEMMA ForCode ==
    ASSUME NEW g, NEW X, Final(g, X), NEW n \in g.done, Kind(n) = "for"
    PROVE  ForRuns(g, X, n, Kid(n, "body"), ForSpot(g, n), IncrementSpot(g, n))
  <1>1. PICK u, l, q, b, c, s, a : /\ u = TextOf(g, n) /\ l = g.base[n] /\ q = g.pos[n] /\ b = Kid(n, "body") /\ c = Kid(n, "cond")
                                   /\ s = ForSpot(g, n) /\ a = IncrementSpot(g, n)
    OBVIOUS
  <1>2. u = ForText(n, l)
    BY <1>1, TextKnown DEF TreeText, ConditionKinds
  <1>3. Pair(n, l).break = l + 4 /\ Pair(n, l).continue = l + 3
    BY DEF Pair, Targets
  <1>4. u = <<Optional(n, "init"), IF Has(n, "cond") THEN Lbra(l + 2) ELSE Blank, Label(l + 1), Tree(b), Label(l + 3),
              Optional(n, "incr"), IF Has(n, "cond") THEN Label(l + 2) ELSE Blank,
              IF Has(n, "cond") THEN BoolJumps(c, l + 1, l + 4) ELSE Lbra(l + 1), EndLabelAndPop(l + 4)>>
    BY <1>1, <1>2 DEF ForText, ForIncrement
  <1>5. /\ DOMAIN u = 1 .. 9 /\ Len(u) = 9 /\ u[1] = Optional(n, "init")
        /\ u[2] = (IF Has(n, "cond") THEN Lbra(l + 2) ELSE Blank) /\ u[3] = Label(l + 1) /\ u[4] = Tree(b) /\ u[5] = Label(l + 3)
        /\ u[6] = Optional(n, "incr") /\ u[7] = (IF Has(n, "cond") THEN Label(l + 2) ELSE Blank)
        /\ u[8] = (IF Has(n, "cond") THEN BoolJumps(c, l + 1, l + 4) ELSE Lbra(l + 1)) /\ u[9] = EndLabelAndPop(l + 4)
    BY <1>4
  <1>6. (Has(n, "init") => Kept(g, Kid(n, "init"), q[1], q[1 + 1])) /\ (~Has(n, "init") => Reaches(X, q[1], q[1 + 1]))
    BY <1>1, <1>5, ItemSorts
  <1>7. AtLabel(X, l + 1) = q[3] /\ Reaches(X, q[3], q[3 + 1])
    BY <1>1, <1>5, ItemSorts
  <1>8. Kept(g, b, q[4], q[4 + 1])
    BY <1>1, <1>5, ItemSorts
  <1>9. AtLabel(X, l + 3) = q[5] /\ Reaches(X, q[5], q[5 + 1])
    BY <1>1, <1>5, ItemSorts
  <1>10. (Has(n, "incr") => Kept(g, Kid(n, "incr"), q[6], q[6 + 1])) /\ (~Has(n, "incr") => Reaches(X, q[6], q[6 + 1]))
    BY <1>1, <1>5, ItemSorts
  <1>11. AtLabel(X, l + 4) = q[9] /\ Reaches(X, q[9], q[9 + 1])
    BY <1>1, <1>5, ItemSorts
  <1>12. AtOf(g, n) = q[1] /\ ToOf(g, n) = q[9 + 1]
    BY <1>1, <1>5, TextKnown
  <1>13. Reaches(X, q[2], s) /\ Reaches(X, q[7], s) /\ Reaches(X, q[3], AtOf(g, b))
         /\ (Has(n, "cond") => c \in g.done /\ g.from[c].yes = l + 1 /\ g.from[c].no = l + 4)
    <2>1. CASE Has(n, "cond")
      <3>1. Reaches(X, q[2], AtLabel(X, l + 2))
        BY <1>1, <1>5, <2>1, ItemSorts
      <3>2. AtLabel(X, l + 2) = q[7] /\ Reaches(X, q[7], q[7 + 1])
        BY <1>1, <1>5, <2>1, ItemSorts
      <3>3. c \in g.done /\ AtOf(g, c) = q[8] /\ g.from[c].yes = l + 1 /\ g.from[c].no = l + 4
        BY <1>1, <1>5, <2>1, ItemSorts
      <3>4. s = q[8]
        BY <1>1, <2>1, <3>3 DEF ForSpot
      <3> QED BY <1>7, <1>8, <3>1, <3>2, <3>3, <3>4, ReachesOn DEF Kept
    <2>2. CASE ~Has(n, "cond")
      <3>1. Reaches(X, q[2], q[2 + 1])
        BY <1>1, <1>5, <2>2, ItemSorts
      <3>2. Reaches(X, q[7], q[7 + 1])
        BY <1>1, <1>5, <2>2, ItemSorts
      <3>3. Reaches(X, q[8], AtLabel(X, l + 1))
        BY <1>1, <1>5, <2>2, ItemSorts
      <3>4. s = q[4]
        BY <1>1, <1>8, <2>2 DEF ForSpot, Kept
      <3>5. Reaches(X, q[7], q[3])
        BY <1>7, <3>2, <3>3, ReachesOn
      <3> QED BY <1>7, <1>8, <2>2, <3>1, <3>4, <3>5, ReachesOn DEF Kept
    <2> QED BY <2>1, <2>2
  <1>14. Reaches(X, q[5], a)
    <2>1. CASE Has(n, "incr")
      <3>1. a = q[6]
        BY <1>1, <1>10, <2>1 DEF IncrementSpot, Kept
      <3> QED BY <1>9, <3>1
    <2>2. CASE ~Has(n, "incr")
      <3>1. a = s /\ Reaches(X, q[6], q[7])
        BY <1>1, <1>10, <2>2 DEF IncrementSpot
      <3>2. Reaches(X, q[5], q[7])
        BY <1>9, <3>1, ReachesOn
      <3> QED BY <1>13, <3>1, <3>2, ReachesOn
    <2> QED BY <2>1, <2>2
  <1>15. Has(n, "init") => /\ Kid(n, "init") \in g.done /\ AtOf(g, Kid(n, "init")) = AtOf(g, n)
                           /\ Reaches(X, ToOf(g, Kid(n, "init")), s)
    BY <1>6, <1>12, <1>13 DEF Kept
  <1>16. ~Has(n, "init") => Reaches(X, AtOf(g, n), s)
    BY <1>6, <1>12, <1>13, ReachesOn
  <1>17. b \in g.done /\ Reaches(X, ToOf(g, b), a)
    BY <1>8, <1>14 DEF Kept
  <1>18. Has(n, "incr") => Kid(n, "incr") \in g.done /\ Reaches(X, ToOf(g, Kid(n, "incr")), s)
    BY <1>10, <1>13 DEF Kept
  <1>19. Has(n, "cond") => /\ c \in g.done /\ Reaches(X, AtLabel(X, g.from[c].yes), AtOf(g, b))
                           /\ Reaches(X, AtLabel(X, g.from[c].no), ToOf(g, n))
    BY <1>7, <1>11, <1>12, <1>13
  <1>20. /\ Reaches(X, AtLabel(X, Pair(n, l).break), ToOf(g, n))
         /\ Reaches(X, AtLabel(X, Pair(n, l).continue), a)
    BY <1>3, <1>9, <1>11, <1>12, <1>14
  <1> QED BY <1>1, <1>15, <1>16, <1>17, <1>18, <1>19, <1>20 DEF ForRuns

(***************************************************************************)
(* Conditions.                                                             *)
(***************************************************************************)
Yes(g, X, n) == AtLabel(X, g.from[n].yes)
No(g, X, n) == AtLabel(X, g.from[n].no)

(***************************************************************************)
(* A negation swaps the labels of its operand.                             *)
(***************************************************************************)
LEMMA NotCode ==
    ASSUME NEW g, NEW X, Final(g, X), NEW n \in g.done, Kind(n) = "not", NEW c, c = Kid(n, "left")
    PROVE  c \in g.done /\ AtOf(g, c) = AtOf(g, n) /\ g.from[c].yes = g.from[n].no /\ g.from[c].no = g.from[n].yes
  <1>1. TextOf(g, n) = <<BoolJumps(c, g.from[n].no, g.from[n].yes)>>
    BY TextKnown DEF BoolText, ConditionKinds
  <1>2. 1 \in DOMAIN TextOf(g, n) /\ TextOf(g, n)[1] = BoolJumps(c, g.from[n].no, g.from[n].yes)
    BY <1>1
  <1>3. AtOf(g, n) = g.pos[n][1]
    BY TextKnown
  <1> QED BY <1>2, <1>3, ItemSorts

(***************************************************************************)
(* An && or || tries its right side only when the left one does not        *)
(* decide.                                                                 *)
(***************************************************************************)
LEMMA AndOrCode ==
    ASSUME NEW g, NEW X, Final(g, X), NEW n \in g.done, Kind(n) \in {"and", "or"}, NEW c, c = Kid(n, "left"), NEW d, d = Kid(n, "right")
    PROVE  /\ c \in g.done /\ AtOf(g, c) = AtOf(g, n)
           /\ IF Kind(n) = "and" THEN Reaches(X, Yes(g, X, c), AtOf(g, d)) /\ No(g, X, c) = No(g, X, n)
              ELSE Reaches(X, No(g, X, c), AtOf(g, d)) /\ Yes(g, X, c) = Yes(g, X, n)
           /\ d \in g.done /\ Yes(g, X, d) = Yes(g, X, n) /\ No(g, X, d) = No(g, X, n)
  <1>1. PICK u, l, q, yes, no, k : u = TextOf(g, n) /\ l = g.base[n] /\ q = g.pos[n] /\ yes = g.from[n].yes /\ no = g.from[n].no
                                   /\ k = IF Kind(n) = "and" THEN BoolJumps(c, l + 1, no) ELSE BoolJumps(c, yes, l + 1)
    OBVIOUS
  <1>2. u = BoolText(n, yes, no, l)
    BY <1>1, TextKnown DEF ConditionKinds
  <1>3. u = <<k, Label(l + 1), BoolJumps(d, yes, no)>>
    BY <1>1, <1>2 DEF BoolText
  <1>4. DOMAIN u = 1 .. 3 /\ u[1] = k /\ u[2] = Label(l + 1) /\ u[3] = BoolJumps(d, yes, no)
    BY <1>3
  <1>5. c \in g.done /\ AtOf(g, c) = q[1]
        /\ IF Kind(n) = "and" THEN g.from[c].yes = l + 1 /\ g.from[c].no = no ELSE g.from[c].yes = yes /\ g.from[c].no = l + 1
    BY <1>1, <1>4, ItemSorts
  <1>6. AtLabel(X, l + 1) = q[2] /\ Reaches(X, q[2], q[2 + 1])
    BY <1>1, <1>4, ItemSorts
  <1>7. d \in g.done /\ AtOf(g, d) = q[3] /\ g.from[d].yes = yes /\ g.from[d].no = no
    BY <1>1, <1>4, ItemSorts
  <1>8. AtOf(g, n) = q[1]
    BY <1>1, TextKnown
  <1> QED BY <1>1, <1>5, <1>6, <1>7, <1>8 DEF Yes, No

(***************************************************************************)
(* A test falls to its jumps, which go by its result; a constant is loaded *)
(* and goes the same way.                                                  *)
(***************************************************************************)
LEMMA BranchRuns ==
    ASSUME NEW g, NEW X, Final(g, X), NEW p \in Nat, NEW yes, NEW no, p \in DOMAIN X, p + 1 \in DOMAIN X,
           X[p] = Ins("LBNE", yes), X[p + 1] = Lbra(no), NEW f \in Flags(X)
    PROVE  Leads(X, <<p, f>>, <<IF f # 0 THEN AtLabel(X, yes) ELSE AtLabel(X, no), f>>)
  <1>1. /\ X[p].op = "LBNE" /\ X[p].arg = yes /\ X[p].op \notin {"DO", "TEST", "SELECT", "RTS"}
        /\ X[p + 1].op = "LBRA" /\ X[p + 1].arg = no /\ X[p + 1].op \notin {"DO", "TEST", "SELECT", "RTS"}
    BY DEF Ins, Lbra
  <1>2. Goes(X, <<p, f>>, <<Next1(X, p, f), Next2(X, p, f)>>) /\ Next1(X, p, f) \in DOMAIN X
    BY <1>1, InsGoes
  <1>3. PICK a, b : a = AtLabel(X, yes) /\ b = AtLabel(X, no)
    OBVIOUS
  <1>4. CASE f # 0
    <2>1. Next1(X, p, f) = a /\ Next2(X, p, f) = f
      BY <1>1, <1>3, <1>4 DEF Next1, Next2
    <2>2. Goes(X, <<p, f>>, <<a, f>>)
      BY <1>2, <2>1
    <2>3. Leads(X, <<p, f>>, <<a, f>>)
      BY <2>2, LeadsOn
    <2> QED BY <1>3, <1>4, <2>3
  <1>5. CASE f = 0
    <2>1. Next1(X, p, f) = p + 1 /\ Next2(X, p, f) = f
      BY <1>1, <1>5 DEF Next1, Next2
    <2>2. Goes(X, <<p, f>>, <<p + 1, f>>)
      BY <1>2, <2>1
    <2>3. Goes(X, <<p + 1, f>>, <<Next1(X, p + 1, f), Next2(X, p + 1, f)>>)
      BY <1>1, InsGoes
    <2>4. Next1(X, p + 1, f) = b /\ Next2(X, p + 1, f) = f
      BY <1>1, <1>3 DEF Next1, Next2
    <2>5. Goes(X, <<p + 1, f>>, <<b, f>>)
      BY <2>3, <2>4
    <2>6. PICK s, t, u : s = <<p, f>> /\ t = <<p + 1, f>> /\ u = <<b, f>>
      OBVIOUS
    <2>7. Goes(X, s, t) /\ Goes(X, t, u)
      BY <2>2, <2>5, <2>6
    <2>8. Leads(X, s, u)
      BY <2>7, LeadsOn
    <2> QED BY <1>3, <1>5, <2>6, <2>8
  <1> QED BY <1>4, <1>5

(***************************************************************************)
(* A test is its instruction, and then goes by its result.                 *)
(***************************************************************************)
LEMMA AtomCode ==
    ASSUME NEW g, NEW X, Final(g, X), NEW n \in g.done, Kind(n) = "atom"
    PROVE  /\ AtOf(g, n) \in DOMAIN X /\ X[AtOf(g, n)] = Ins("TEST", n)
           /\ \A f \in Flags(X) : Leads(X, <<AtOf(g, n) + 1, f>>, <<IF f # 0 THEN Yes(g, X, n) ELSE No(g, X, n), f>>)
  <1>1. PICK u, q, yes, no : u = TextOf(g, n) /\ q = g.pos[n] /\ yes = g.from[n].yes /\ no = g.from[n].no
    OBVIOUS
  <1>2. u = <<Ins("TEST", n), Ins("LBNE", yes), Lbra(no)>>
    BY <1>1, TextKnown DEF BoolText, ConditionKinds
  <1>3. DOMAIN u = 1 .. 3 /\ u[1] = Ins("TEST", n) /\ u[2] = Ins("LBNE", yes) /\ u[3] = Lbra(no) /\ IsIns(u[1]) /\ IsIns(u[2]) /\ IsIns(u[3])
    BY <1>2 DEF IsIns, Ins, Lbra
  <1>4. q[1] \in DOMAIN X /\ X[q[1]] = Ins("TEST", n) /\ q[1 + 1] = q[1] + 1
    BY <1>1, <1>3, ItemRuns
  <1>5. q[2] \in DOMAIN X /\ X[q[2]] = Ins("LBNE", yes) /\ q[2 + 1] = q[2] + 1 /\ q[2] \in Nat
    BY <1>1, <1>3, ItemRuns
  <1>6. q[3] \in DOMAIN X /\ X[q[3]] = Lbra(no)
    BY <1>1, <1>3, ItemRuns
  <1>7. AtOf(g, n) = q[1]
    BY <1>1, TextKnown
  <1>8. PICK p : p = q[2]
    OBVIOUS
  <1>9. p \in Nat /\ p \in DOMAIN X /\ p + 1 \in DOMAIN X /\ X[p] = Ins("LBNE", yes) /\ X[p + 1] = Lbra(no)
    BY <1>5, <1>6, <1>8
  <1>10. \A f \in Flags(X) : Leads(X, <<p, f>>, <<IF f # 0 THEN AtLabel(X, yes) ELSE AtLabel(X, no), f>>)
    BY <1>9, BranchRuns
  <1> QED BY <1>1, <1>4, <1>7, <1>8, <1>10 DEF Yes, No

(***************************************************************************)
(* A constant condition that is emitted goes by its value.                 *)
(***************************************************************************)
LEMMA ConstantCode ==
    ASSUME NEW g, NEW X, Final(g, X), NEW n \in g.done, Kind(n) = "const"
    PROVE  Reaches(X, AtOf(g, n), IF program[n].tag # 0 THEN Yes(g, X, n) ELSE No(g, X, n))
  <1>1. PICK u, q, yes, no, v : u = TextOf(g, n) /\ q = g.pos[n] /\ yes = g.from[n].yes /\ no = g.from[n].no /\ v = program[n].tag
    OBVIOUS
  <1>2. u = <<Ins("LOAD", v), Ins("LBNE", yes), Lbra(no)>>
    BY <1>1, TextKnown DEF BoolText, ConditionKinds
  <1>3. DOMAIN u = 1 .. 3 /\ u[1] = Ins("LOAD", v) /\ u[2] = Ins("LBNE", yes) /\ u[3] = Lbra(no) /\ IsIns(u[1]) /\ IsIns(u[2]) /\ IsIns(u[3])
    BY <1>2 DEF IsIns, Ins, Lbra
  <1>4. q[1] \in DOMAIN X /\ X[q[1]] = Ins("LOAD", v) /\ q[1 + 1] = q[1] + 1
    BY <1>1, <1>3, ItemRuns
  <1>5. q[2] \in DOMAIN X /\ X[q[2]] = Ins("LBNE", yes) /\ q[2 + 1] = q[2] + 1 /\ q[2] \in Nat
    BY <1>1, <1>3, ItemRuns
  <1>6. q[3] \in DOMAIN X /\ X[q[3]] = Lbra(no)
    BY <1>1, <1>3, ItemRuns
  <1>7. AtOf(g, n) = q[1]
    BY <1>1, TextKnown
  <1>8. PICK p, o : p = q[2] /\ o = q[1]
    OBVIOUS
  <1>9. p \in Nat /\ p \in DOMAIN X /\ p + 1 \in DOMAIN X /\ X[p] = Ins("LBNE", yes) /\ X[p + 1] = Lbra(no)
    BY <1>5, <1>6, <1>8
  <1>10. o \in DOMAIN X /\ X[o].op = "LOAD" /\ X[o].arg = v /\ p = o + 1
    BY <1>4, <1>8 DEF Ins
  <1>11. PICK r : r = IF v # 0 THEN AtLabel(X, yes) ELSE AtLabel(X, no)
    OBVIOUS
  <1>12. v \in Flags(X)
    BY <1>10 DEF Flags
  <1>13. Leads(X, <<p, v>>, <<r, v>>)
    BY <1>9, <1>11, <1>12, BranchRuns
  <1>14. ASSUME NEW f \in Flags(X) PROVE Leads(X, <<o, f>>, <<r, v>>)
    <2>1. Goes(X, <<o, f>>, <<Next1(X, o, f), Next2(X, o, f)>>)
      BY <1>10, InsGoes
    <2>2. Next1(X, o, f) = p /\ Next2(X, o, f) = v
      BY <1>10 DEF Next1, Next2
    <2>3. Goes(X, <<o, f>>, <<p, v>>)
      BY <2>1, <2>2
    <2>4. Leads(X, <<o, f>>, <<p, v>>)
      BY <2>3, LeadsOn
    <2> QED BY <1>13, <2>4, LeadsOn
  <1>15. Reaches(X, o, r)
    BY <1>12, <1>14 DEF Reaches
  <1> QED BY <1>1, <1>7, <1>8, <1>11, <1>15 DEF Yes, No

(***************************************************************************)
(* Where the code is when the walker is somewhere.  A constant condition   *)
(* of an if or a while has no code: the code is then at the jump, if any,  *)
(* that replaces it.                                                       *)
(***************************************************************************)
Skipped(n) == Kind(n) = "const" /\ Kind(Up(n)) # "for"
Around(n) == CHOOSE k : Innermost(n, k)
Exit(g, X, k) == AtLabel(X, Pair(k, g.base[k]).break)
Resume(g, X, k) == AtLabel(X, Pair(k, g.base[k]).continue)
Spot(g, X, c) ==
    IF c.at \in {"enter", "yes", "no"} /\ Skipped(c.node) THEN ConstSpot(g, Up(c.node))
    ELSE IF c.at = "enter" THEN AtOf(g, c.node)
    ELSE IF c.at = "leave" THEN ToOf(g, c.node)
    ELSE IF c.at = "yes" THEN Yes(g, X, c.node)
    ELSE IF c.at = "no" THEN No(g, X, c.node)
    ELSE IF c.at = "break" THEN Exit(g, X, Around(c.node))
    ELSE IF c.at = "continue" THEN Resume(g, X, Around(c.node))
    ELSE Len(X)

(***************************************************************************)
(* The walker is only ever at nodes that have code.                        *)
(***************************************************************************)
HasCode(g, n) == n \in Nodes /\ (IF Skipped(n) THEN Up(n) ELSE n) \in g.done
Live(g, c) ==
    \/ c.at = "enter" /\ HasCode(g, c.node)
    \/ c.at = "leave" /\ c.node \in g.done /\ Kind(c.node) \in StatementKinds
    \/ /\ c.at \in {"yes", "no"} /\ HasCode(g, c.node) /\ Kind(c.node) \in ConditionKinds
       /\ Skipped(c.node) => (c.at = "yes" <=> program[c.node].tag # 0)
    \/ c.at = "break" /\ c.node \in Nodes /\ \E k \in g.done : Innermost(c.node, k)
    \/ /\ c.at = "continue" /\ c.node \in Nodes
       /\ \E k \in g.done : Innermost(c.node, k) /\ (Kind(k) = "for" \/ (Kind(k) = "while" /\ ~NeverHolds(k)))
    \/ c.at = "end" /\ c.node = 0
Arrives(g, X, p, c) == Live(g, c) /\ Reaches(X, p, Spot(g, X, c))

(***************************************************************************)
(* Where it suffices for the code to get to, for the walker to be at a     *)
(* node.                                                                   *)
(***************************************************************************)
LEMMA Arrivals ==
    ASSUME NEW g, NEW X, Final(g, X), NEW n \in g.done, NEW p
    PROVE  /\ Kind(n) # "const" /\ Reaches(X, p, AtOf(g, n)) => Arrives(g, X, p, Enter(n))
           /\ Kind(n) \in StatementKinds /\ Reaches(X, p, ToOf(g, n)) => Arrives(g, X, p, Leave(n))
           /\ Kind(n) \in ConditionKinds /\ ~Skipped(n) /\ Reaches(X, p, Yes(g, X, n)) => Arrives(g, X, p, Result(n, TRUE))
           /\ Kind(n) \in ConditionKinds /\ ~Skipped(n) /\ Reaches(X, p, No(g, X, n)) => Arrives(g, X, p, Result(n, FALSE))
           /\ Reaches(X, p, Len(X)) => Arrives(g, X, p, Finished)
  <1>1. n \in Nodes
    BY FinalFacts
  <1>2. /\ Enter(n).at = "enter" /\ Enter(n).node = n /\ Leave(n).at = "leave" /\ Leave(n).node = n
        /\ Result(n, TRUE).at = "yes" /\ Result(n, TRUE).node = n /\ Result(n, FALSE).at = "no" /\ Result(n, FALSE).node = n
        /\ Finished.at = "end" /\ Finished.node = 0
    BY DEF Enter, Leave, Result, Finished, At
  <1>3. ASSUME Kind(n) # "const", Reaches(X, p, AtOf(g, n)) PROVE Arrives(g, X, p, Enter(n))
    <2>1. ~Skipped(n)
      BY <1>3 DEF Skipped
    <2> QED BY <1>1, <1>2, <1>3, <2>1 DEF Arrives, Live, HasCode, Spot
  <1>4. ASSUME Kind(n) \in StatementKinds, Reaches(X, p, ToOf(g, n)) PROVE Arrives(g, X, p, Leave(n))
    BY <1>2, <1>4 DEF Arrives, Live, Spot
  <1>5. ASSUME Kind(n) \in ConditionKinds, ~Skipped(n), Reaches(X, p, Yes(g, X, n)) PROVE Arrives(g, X, p, Result(n, TRUE))
    BY <1>1, <1>2, <1>5 DEF Arrives, Live, HasCode, Spot
  <1>6. ASSUME Kind(n) \in ConditionKinds, ~Skipped(n), Reaches(X, p, No(g, X, n)) PROVE Arrives(g, X, p, Result(n, FALSE))
    BY <1>1, <1>2, <1>6 DEF Arrives, Live, HasCode, Spot
  <1>7. ASSUME Reaches(X, p, Len(X)) PROVE Arrives(g, X, p, Finished)
    BY <1>2, <1>7 DEF Arrives, Live, Spot
  <1> QED BY <1>3, <1>4, <1>5, <1>6, <1>7

(***************************************************************************)
(* A constant condition of an if or a while arrives at the jump that       *)
(* replaces it; any other one at its test.                                 *)
(***************************************************************************)
LEMMA ConditionArrives ==
    ASSUME NEW g, NEW X, Final(g, X), NEW n \in g.done, Kind(n) \in {"if", "while"}, NEW p, Reaches(X, p, TestSpot(g, n)),
           ~ConstantTest(n) => Kid(n, "cond") \in g.done
    PROVE  Arrives(g, X, p, Enter(Kid(n, "cond")))
  <1>1. PICK c : c = Kid(n, "cond")
    OBVIOUS
  <1>2. source \in DOMAIN Programs /\ n \in Nodes
    BY FinalFacts
  <1>3. Has(n, "cond")
    BY <1>2, KidRoles DEF Required, Parts
  <1>4. c \in Nodes /\ Up(c) = n
    BY <1>1, <1>2, <1>3, KidOfRole
  <1>5. ConstantTest(n) <=> Kind(c) = "const"
    BY <1>1, <1>3 DEF ConstantTest
  <1>6. CASE ConstantTest(n)
    <2>1. Skipped(c)
      BY <1>4, <1>5, <1>6 DEF Skipped
    <2>2. Live(g, Enter(c))
      BY <1>4, <2>1 DEF Live, HasCode, Enter, At
    <2>3. Spot(g, X, Enter(c)) = ConstSpot(g, n)
      BY <1>4, <2>1 DEF Spot, Enter, At
    <2> QED BY <1>1, <1>6, <2>2, <2>3 DEF Arrives, TestSpot
  <1>7. CASE ~ConstantTest(n)
    BY <1>1, <1>5, <1>7, Arrivals DEF TestSpot
  <1> QED BY <1>6, <1>7

(***************************************************************************)
(* Statements are laid out as statements.                                  *)
(***************************************************************************)
LEMMA KidKinds ==
    ASSUME source \in DOMAIN Programs, NEW n \in Nodes
    PROVE  /\ \A r : Has(n, r) /\ r \notin ConditionRoles =>
                 Kind(Kid(n, r)) \in StatementKinds /\ Kind(Kid(n, r)) # "const" /\ Kid(n, r) \in Nodes /\ Up(Kid(n, r)) = n
           /\ \A r : Has(n, r) /\ r \in {"left", "right"} =>
                 Kind(Kid(n, r)) \in ConditionKinds /\ Kind(Kid(n, r)) # "const" /\ Kid(n, r) \in Nodes /\ Up(Kid(n, r)) = n
           /\ \A i \in DOMAIN Kids(n) : Kind(n) \in {"block", "case", "switch"} =>
                 Kind(Kids(n)[i]) \in StatementKinds /\ Kind(Kids(n)[i]) # "const"
  <1>1. IsFunction(program)
    BY ProgramIsTree
  <1>2. \A m \in Nodes : Kind(m) = "const" => program[m].role = "cond"
    BY <1>1 DEF IsFunction, Kind, Nodes
  <1>3. "const" \notin StatementKinds /\ "cond" \in ConditionRoles /\ "item" \notin ConditionRoles
        /\ StatementKinds \cap ConditionKinds = {}
    BY DEF StatementKinds, ConditionRoles, ConditionKinds
  <1>4. ASSUME NEW r, Has(n, r), r \notin ConditionRoles
        PROVE  Kind(Kid(n, r)) \in StatementKinds /\ Kind(Kid(n, r)) # "const" /\ Kid(n, r) \in Nodes /\ Up(Kid(n, r)) = n
    <2>1. program[Kid(n, r)].role = r /\ Kid(n, r) \in Nodes /\ Up(Kid(n, r)) = n
      BY <1>4, KidOfRole
    <2>2. Kind(Kid(n, r)) \in ConditionKinds <=> program[Kid(n, r)].role \in ConditionRoles
      BY <2>1, KidRoles
    <2>3. Kind(Kid(n, r)) \in StatementKinds \cup ConditionKinds
      BY <2>1, KidRoles
    <2> QED BY <1>3, <1>4, <2>1, <2>2, <2>3
  <1>5. ASSUME NEW r, Has(n, r), r \in {"left", "right"}
        PROVE  Kind(Kid(n, r)) \in ConditionKinds /\ Kind(Kid(n, r)) # "const" /\ Kid(n, r) \in Nodes /\ Up(Kid(n, r)) = n
    <2>1. program[Kid(n, r)].role = r /\ Kid(n, r) \in Nodes /\ Up(Kid(n, r)) = n
      BY <1>5, KidOfRole
    <2>2. Kind(Kid(n, r)) \in ConditionKinds <=> program[Kid(n, r)].role \in ConditionRoles
      BY <2>1, KidRoles
    <2>3. Kind(Kid(n, r)) # "const"
      BY <1>2, <1>5, <2>1
    <2> QED BY <1>5, <2>1, <2>2, <2>3 DEF ConditionRoles
  <1>6. ASSUME NEW i \in DOMAIN Kids(n), Kind(n) \in {"block", "case", "switch"}
        PROVE  Kind(Kids(n)[i]) \in StatementKinds /\ Kind(Kids(n)[i]) # "const"
    <2>1. program[Kids(n)[i]].role = "item"
      BY <1>6, KidRoles DEF Parts
    <2>2. Kids(n)[i] \in Nodes
      BY KidFacts
    <2>3. Kind(Kids(n)[i]) \in ConditionKinds <=> program[Kids(n)[i]].role \in ConditionRoles
      BY <2>2, KidRoles
    <2>4. Kind(Kids(n)[i]) \in StatementKinds \cup ConditionKinds
      BY <2>2, KidRoles
    <2> QED BY <1>3, <2>1, <2>3, <2>4
  <1> QED BY <1>4, <1>5, <1>6

(***************************************************************************)
(* The walker goes on after child j of a list.                             *)
(***************************************************************************)
LEMMA FollowingArrives ==
    ASSUME NEW g, NEW X, Final(g, X), NEW n \in g.done, Kind(n) \in {"block", "case", "switch"},
           \A i \in DOMAIN Kids(n) : Kids(n)[i] \in g.done,
           NEW j \in 0 .. Len(Kids(n)), NEW p, Reaches(X, p, PlaceAfter(g, n, j))
    PROVE  Arrives(g, X, p, Following(n, j))
  <1>1. source \in DOMAIN Programs /\ n \in Nodes
    BY FinalFacts
  <1>2. DOMAIN Kids(n) = 1 .. Len(Kids(n)) /\ Len(Kids(n)) \in Nat
    BY <1>1, KidFacts
  <1>3. CASE j = Len(Kids(n))
    <2>1. Reaches(X, p, ToOf(g, n)) /\ Following(n, j) = Leave(n)
      BY <1>3 DEF PlaceAfter, Following
    <2>2. Kind(n) \in StatementKinds
      BY DEF StatementKinds
    <2> QED BY <2>1, <2>2, Arrivals
  <1>4. CASE j # Len(Kids(n))
    <2> DEFINE k == Len(Kids(n))
    <2>5. k \in Nat /\ j \in 0 .. k /\ j # k
      BY <1>2, <1>4
    <2>6. j + 1 \in 1 .. k
      <3> HIDE DEF k
      <3> QED BY <2>5
    <2>1. j + 1 \in DOMAIN Kids(n)
      BY <1>2, <2>6
    <2>2. PICK c : c = Kids(n)[j + 1]
      OBVIOUS
    <2>3. Reaches(X, p, AtOf(g, c)) /\ Following(n, j) = Enter(c)
      BY <1>4, <2>2 DEF PlaceAfter, Following
    <2>4. c \in g.done /\ Kind(c) # "const"
      BY <1>1, <2>1, <2>2, KidKinds
    <2> QED BY <2>3, <2>4, Arrivals
  <1> QED BY <1>3, <1>4

(***************************************************************************)
(* The walker goes on with a loop: at its condition, increment or body.    *)
(***************************************************************************)
LEMMA ForTestArrives ==
    ASSUME NEW g, NEW X, Final(g, X), NEW n \in g.done, Kind(n) = "for", NEW p, Reaches(X, p, ForSpot(g, n))
    PROVE  Arrives(g, X, p, ForTest(n))
  <1>1. source \in DOMAIN Programs /\ n \in Nodes
    BY FinalFacts
  <1>2. ForRuns(g, X, n, Kid(n, "body"), ForSpot(g, n), IncrementSpot(g, n))
    BY ForCode
  <1>3. CASE Has(n, "cond")
    <2>1. PICK c : c = Kid(n, "cond")
      OBVIOUS
    <2>2. c \in g.done /\ Up(c) = n /\ c \in Nodes
      BY <1>1, <1>2, <1>3, <2>1, KidOfRole DEF ForRuns
    <2>3. ~Skipped(c)
      BY <2>2 DEF Skipped
    <2>4. Reaches(X, p, AtOf(g, c)) /\ ForTest(n) = Enter(c)
      BY <1>3, <2>1 DEF ForSpot, ForTest
    <2>5. Live(g, Enter(c)) /\ Spot(g, X, Enter(c)) = AtOf(g, c)
      BY <2>2, <2>3 DEF Live, HasCode, Spot, Enter, At
    <2> QED BY <2>4, <2>5 DEF Arrives
  <1>4. CASE ~Has(n, "cond")
    <2>1. PICK b : b = Kid(n, "body")
      OBVIOUS
    <2>2. Has(n, "body") /\ "body" \notin ConditionRoles
      BY <1>1, KidRoles DEF Required, ConditionRoles
    <2>3. b \in g.done /\ Kind(b) # "const"
      BY <1>1, <1>2, <2>1, <2>2, KidKinds DEF ForRuns
    <2>4. Reaches(X, p, AtOf(g, b)) /\ ForTest(n) = Enter(b)
      BY <1>4, <2>1 DEF ForSpot, ForTest
    <2> QED BY <2>3, <2>4, Arrivals
  <1> QED BY <1>3, <1>4

(***************************************************************************)
(* A while, whether its condition can hold or not.                         *)
(***************************************************************************)
LEMMA WhileFacts ==
    ASSUME NEW g, NEW X, Final(g, X), NEW n \in g.done, Kind(n) = "while"
    PROVE  WhileRuns(g, X, n, Kid(n, "body"), TestSpot(g, n))
  <1> QED BY WhileCode, WhileNeverCode

(***************************************************************************)
(* A loop goes on: at the condition of a while, at the increment of a for. *)
(***************************************************************************)
LEMMA AgainArrives ==
    ASSUME NEW g, NEW X, Final(g, X), NEW n \in g.done, Kind(n) \in Loops, NEW p,
           Reaches(X, p, IF Kind(n) = "while" THEN TestSpot(g, n) ELSE IncrementSpot(g, n))
    PROVE  Arrives(g, X, p, Again(n))
  <1>1. source \in DOMAIN Programs /\ n \in Nodes
    BY FinalFacts
  <1>2. CASE Kind(n) = "while"
    <2>3. ~Has(n, "incr")
      <3> SUFFICES ASSUME Has(n, "incr") PROVE FALSE
        OBVIOUS
      <3>1. \E i \in DOMAIN Kids(n) : program[Kids(n)[i]].role = "incr"
        BY <1>1, KidOfRole
      <3> QED BY <1>1, <1>2, <3>1, KidRoles DEF Parts
    <2>1. Again(n) = Enter(Kid(n, "cond"))
      BY <1>2, <2>3 DEF Again
    <2>2. ~ConstantTest(n) => Kid(n, "cond") \in g.done
      BY <1>2, WhileFacts DEF WhileRuns
    <2> QED BY <1>2, <2>1, <2>2, ConditionArrives
  <1>3. CASE Kind(n) = "for" /\ Has(n, "incr")
    <2>1. PICK c : c = Kid(n, "incr")
      OBVIOUS
    <2>2. Again(n) = Enter(c) /\ Reaches(X, p, AtOf(g, c))
      BY <1>3, <2>1 DEF Again, IncrementSpot
    <2>3. c \in g.done
      BY <1>3, <2>1, ForCode DEF ForRuns
    <2>4. Kind(c) # "const"
      BY <1>1, <1>3, <2>1, KidKinds DEF ConditionRoles
    <2> QED BY <2>2, <2>3, <2>4, Arrivals
  <1>4. CASE Kind(n) = "for" /\ ~Has(n, "incr")
    BY <1>4, ForTestArrives DEF Again, IncrementSpot
  <1> QED BY <1>2, <1>3, <1>4 DEF Loops

(***************************************************************************)
(* From the start of a node, the code gets to where the walker goes.       *)
(***************************************************************************)
LEMMA EnterListed ==
    ASSUME NEW g, NEW X, Final(g, X), NEW n \in g.done, Kind(n) \in {"block", "case", "if", "while"}
    PROVE  Arrives(g, X, AtOf(g, n), AfterEnter(n))
  <1>1. source \in DOMAIN Programs /\ n \in Nodes
    BY FinalFacts
  <1>2. CASE Kind(n) \in {"block", "case"}
    <2>1. (\A j \in DOMAIN Kids(n) : Kids(n)[j] \in g.done) /\ Reaches(X, AtOf(g, n), PlaceAfter(g, n, 0))
      BY <1>2, BlockCode, CaseCode
    <2>2. AfterEnter(n) = Following(n, 0)
      BY <1>2 DEF AfterEnter
    <2>3. 0 \in 0 .. Len(Kids(n))
      BY <1>1, KidFacts
    <2> QED BY <1>2, <2>1, <2>2, <2>3, FollowingArrives
  <1>3. CASE Kind(n) = "if"
    <2>1. AfterEnter(n) = Enter(Kid(n, "cond"))
      BY <1>3 DEF AfterEnter
    <2>2. ~ConstantTest(n) => Kid(n, "cond") \in g.done /\ AtOf(g, Kid(n, "cond")) = AtOf(g, n)
      BY <1>3, IfCode
    <2>3. ConstSpot(g, n) = AtOf(g, n)
      BY <1>3, TextKnown DEF ConstSpot
    <2>4. TestSpot(g, n) = AtOf(g, n)
      BY <2>2, <2>3 DEF TestSpot
    <2>5. Reaches(X, AtOf(g, n), TestSpot(g, n))
      BY <2>4, ReachesOn
    <2> QED BY <1>3, <2>1, <2>2, <2>5, ConditionArrives
  <1>4. CASE Kind(n) = "while" /\ ~IsDo(n)
    <2>1. AfterEnter(n) = Enter(Kid(n, "cond"))
      BY <1>4 DEF AfterEnter, IsDo
    <2>2. Reaches(X, AtOf(g, n), TestSpot(g, n)) /\ (~ConstantTest(n) => Kid(n, "cond") \in g.done)
      BY <1>4, WhileFacts DEF WhileRuns
    <2> QED BY <1>4, <2>1, <2>2, ConditionArrives
  <1>5. CASE Kind(n) = "while" /\ IsDo(n)
    <2>1. PICK b : b = Kid(n, "body")
      OBVIOUS
    <2>2. AfterEnter(n) = Enter(b)
      BY <1>5, <2>1 DEF AfterEnter, IsDo
    <2>3. b \in g.done /\ Reaches(X, AtOf(g, n), AtOf(g, b))
      BY <1>5, <2>1, WhileFacts DEF WhileRuns
    <2>4. Has(n, "body")
      BY <1>1, <1>5, KidRoles DEF Required, Parts
    <2>5. Kind(b) # "const"
      BY <1>1, <2>1, <2>4, KidKinds DEF ConditionRoles
    <2> QED BY <2>2, <2>3, <2>5, Arrivals
  <1> QED BY <1>2, <1>3, <1>4, <1>5

(***************************************************************************)
(* A for starts with its first part.                                       *)
(***************************************************************************)
LEMMA EnterFor ==
    ASSUME NEW g, NEW X, Final(g, X), NEW n \in g.done, Kind(n) = "for"
    PROVE  Arrives(g, X, AtOf(g, n), AfterEnter(n))
  <1>1. source \in DOMAIN Programs /\ n \in Nodes
    BY FinalFacts
  <1>2. CASE Has(n, "init")
    <2>1. PICK b : b = Kid(n, "init")
      OBVIOUS
    <2>2. AfterEnter(n) = Enter(b)
      BY <1>2, <2>1 DEF AfterEnter
    <2>3. b \in g.done /\ AtOf(g, b) = AtOf(g, n)
      BY <1>2, <2>1, ForCode DEF ForRuns
    <2>4. Kind(b) # "const"
      BY <1>1, <1>2, <2>1, KidKinds DEF ConditionRoles
    <2>5. Reaches(X, AtOf(g, n), AtOf(g, b))
      BY <2>3, ReachesOn
    <2> QED BY <2>2, <2>3, <2>4, <2>5, Arrivals
  <1>3. CASE ~Has(n, "init")
    <2>1. AfterEnter(n) = ForTest(n)
      BY <1>3 DEF AfterEnter
    <2>2. Reaches(X, AtOf(g, n), ForSpot(g, n))
      BY <1>3, ForCode DEF ForRuns
    <2> QED BY <2>1, <2>2, ForTestArrives
  <1> QED BY <1>2, <1>3

(***************************************************************************)
(* A jump, or a labeled statement, starts with where it goes.              *)
(***************************************************************************)
LEMMA EnterJump ==
    ASSUME NEW g, NEW X, Final(g, X), NEW n \in g.done, Kind(n) \in {"break", "continue", "return", "goto", "label"}
    PROVE  Arrives(g, X, AtOf(g, n), AfterEnter(n))
  <1>1. source \in DOMAIN Programs /\ n \in Nodes
    BY FinalFacts
  <1>2. CASE Kind(n) \in {"break", "continue"}
    <2>1. PICK k \in g.done :
              /\ Innermost(n, k)
              /\ Kind(n) = "break" => Reaches(X, AtOf(g, n), AtLabel(X, Pair(k, g.base[k]).break))
              /\ Kind(n) = "continue" => /\ Reaches(X, AtOf(g, n), AtLabel(X, Pair(k, g.base[k]).continue))
                                         /\ Kind(k) = "for" \/ (Kind(k) = "while" /\ ~NeverHolds(k))
      BY <1>2, LoopJumpCode
    <2>2. Around(n) = k
      BY <1>1, <2>1, InnermostOnce DEF Around
    <2>3. PICK c : c = AfterEnter(n)
      OBVIOUS
    <2>4. c = At(Kind(n), n)
      BY <1>2, <2>3 DEF AfterEnter
    <2>5. c.at = Kind(n) /\ c.node = n
      BY <2>4 DEF At
    <2>6. Live(g, c)
      BY <1>1, <1>2, <2>1, <2>5 DEF Live
    <2>7. Spot(g, X, c) = IF Kind(n) = "break" THEN Exit(g, X, k) ELSE Resume(g, X, k)
      BY <1>2, <2>2, <2>5 DEF Spot
    <2> QED BY <1>2, <2>1, <2>3, <2>6, <2>7 DEF Arrives, Exit, Resume
  <1>3. CASE Kind(n) = "return"
    <2>1. AfterEnter(n) = Finished
      BY <1>3 DEF AfterEnter
    <2> QED BY <1>3, <2>1, ReturnCode, Arrivals
  <1>4. CASE Kind(n) = "goto"
    <2>1. AfterEnter(n) = Enter(LabelOf(n))
      BY <1>4 DEF AfterEnter
    <2>2. LabelOf(n) \in g.done /\ Kind(LabelOf(n)) # "const" /\ Reaches(X, AtOf(g, n), AtOf(g, LabelOf(n)))
      BY <1>4, GotoCode
    <2> QED BY <2>1, <2>2, Arrivals
  <1>5. CASE Kind(n) = "label"
    <2>1. PICK b : b = Kid(n, "body")
      OBVIOUS
    <2>2. AfterEnter(n) = Enter(b)
      BY <1>5, <2>1 DEF AfterEnter
    <2>3. b \in g.done /\ Reaches(X, AtOf(g, n), AtOf(g, b))
      BY <1>5, <2>1, LabeledCode
    <2>4. Has(n, "body")
      BY <1>1, <1>5, KidRoles DEF Required, Parts
    <2>5. Kind(b) # "const"
      BY <1>1, <2>1, <2>4, KidKinds DEF ConditionRoles
    <2> QED BY <2>2, <2>3, <2>5, Arrivals
  <1> QED BY <1>2, <1>3, <1>4, <1>5

(***************************************************************************)
(* A test starts with its left side.                                       *)
(***************************************************************************)
LEMMA EnterTest ==
    ASSUME NEW g, NEW X, Final(g, X), NEW n \in g.done, Kind(n) \in {"not", "and", "or"}
    PROVE  Arrives(g, X, AtOf(g, n), AfterEnter(n))
  <1>1. source \in DOMAIN Programs /\ n \in Nodes
    BY FinalFacts
  <1>2. PICK b : b = Kid(n, "left")
    OBVIOUS
  <1>3. AfterEnter(n) = Enter(b)
    BY <1>2 DEF AfterEnter
  <1>4. b \in g.done /\ AtOf(g, b) = AtOf(g, n)
    BY <1>2, NotCode, AndOrCode
  <1>5. Has(n, "left")
    BY <1>1, KidRoles DEF Required, Parts
  <1>6. Kind(b) # "const"
    BY <1>1, <1>2, <1>5, KidKinds
  <1>7. Reaches(X, AtOf(g, n), AtOf(g, b))
    BY <1>4, ReachesOn
  <1> QED BY <1>3, <1>4, <1>6, <1>7, Arrivals

(***************************************************************************)
(* A constant condition has its result.                                    *)
(***************************************************************************)
LEMMA EnterConstant ==
    ASSUME NEW g, NEW X, Final(g, X), NEW n, Kind(n) = "const", HasCode(g, n)
    PROVE  Arrives(g, X, Spot(g, X, Enter(n)), AfterEnter(n))
  <1>1. PICK v : v = (program[n].tag # 0)
    OBVIOUS
  <1>2. AfterEnter(n) = Result(n, v)
    BY <1>1 DEF AfterEnter
  <1>3. Result(n, v).at = (IF v THEN "yes" ELSE "no") /\ Result(n, v).node = n /\ Enter(n).at = "enter" /\ Enter(n).node = n
    BY DEF Result, Enter, At
  <1>4. CASE Skipped(n)
    <2>1. Spot(g, X, Enter(n)) = Spot(g, X, Result(n, v))
      BY <1>3, <1>4 DEF Spot
    <2>2. Live(g, Result(n, v))
      BY <1>1, <1>3 DEF Live, ConditionKinds
    <2> QED BY <1>2, <2>1, <2>2, ReachesOn DEF Arrives
  <1>5. CASE ~Skipped(n)
    <2>1. n \in g.done
      BY <1>5 DEF HasCode
    <2>2. Spot(g, X, Enter(n)) = AtOf(g, n)
      BY <1>3, <1>5 DEF Spot
    <2>3. Reaches(X, AtOf(g, n), IF v THEN Yes(g, X, n) ELSE No(g, X, n))
      BY <1>1, <2>1, ConstantCode
    <2> QED BY <1>1, <1>2, <1>5, <2>1, <2>2, <2>3, Arrivals DEF ConditionKinds
  <1> QED BY <1>4, <1>5

(***************************************************************************)
(* From the end of a statement, the code gets to where the walker goes.    *)
(***************************************************************************)
LEMMA ParentFacts ==
    ASSUME NEW g, NEW X, Final(g, X), NEW n \in Nodes, n # 1, Up(n) \in g.done
    PROVE  /\ source \in DOMAIN Programs /\ Up(n) \in Nodes /\ Up(n) # 0 /\ \E i \in DOMAIN Kids(Up(n)) : Kids(Up(n))[i] = n
           /\ program[n].role \in Parts(Kind(Up(n)))
           /\ program[n].role # "item" => Has(Up(n), program[n].role) /\ Kid(Up(n), program[n].role) = n
           /\ Kind(n) \in ConditionKinds <=> program[n].role \in ConditionRoles
           /\ ~Removed(n) => ~NeverEntered(n)
  <1>1. source \in DOMAIN Programs
    BY FinalFacts
  <1>2. Up(n) \in Nodes /\ Index(n) \in DOMAIN Kids(Up(n)) /\ Kids(Up(n))[Index(n)] = n
    BY <1>1, UpFacts
  <1>3. PICK p, i : p = Up(n) /\ i = Index(n)
    OBVIOUS
  <1>4. p \in Nodes /\ i \in DOMAIN Kids(p) /\ Kids(p)[i] = n
    BY <1>2, <1>3
  <1>5. program[Kids(p)[i]].role \in Parts(Kind(p))
    BY <1>1, <1>4, KidRoles
  <1>6. program[Kids(p)[i]].role # "item" => Has(p, program[Kids(p)[i]].role) /\ Kid(p, program[Kids(p)[i]].role) = Kids(p)[i]
    BY <1>1, <1>4, RoleOfKid
  <1>7. Kind(n) \in ConditionKinds <=> program[n].role \in ConditionRoles
    BY <1>1, KidRoles
  <1>8. p # 0
    BY <1>1, <1>4, NodeFacts
  <1>9. ~Removed(n) => ~NeverEntered(n)
    BY DEF Removed
  <1> QED BY <1>1, <1>3, <1>4, <1>5, <1>6, <1>7, <1>8, <1>9

(***************************************************************************)
(* From the end of a statement in a list to the next one.                  *)
(***************************************************************************)
LEMMA LeaveListed ==
    ASSUME NEW g, NEW X, Final(g, X), NEW n \in g.done, n # 1, Up(n) \in g.done, Kind(Up(n)) \in {"block", "case", "switch"}
    PROVE  Arrives(g, X, ToOf(g, n), AfterLeave(n))
  <1>1. PICK p, i : p = Up(n) /\ i = Index(n)
    OBVIOUS
  <1>2. source \in DOMAIN Programs /\ n \in Nodes
    BY FinalFacts
  <1>3. p \in Nodes /\ i \in DOMAIN Kids(p) /\ Kids(p)[i] = n /\ p # 0
    BY <1>1, <1>2, UpFacts, NodeFacts
  <1>4. p \in g.done /\ Kind(p) \in {"block", "case", "switch"}
    BY <1>1
  <1>5. (\A j \in DOMAIN Kids(p) : Kids(p)[j] \in g.done /\ Reaches(X, ToOf(g, Kids(p)[j]), PlaceAfter(g, p, j)))
    BY <1>4, BlockCode, CaseCode, SwitchCode
  <1>6. AfterLeave(n) = Following(p, i)
    BY <1>1, <1>3, <1>4 DEF AfterLeave, Loops
  <1>7. i \in 0 .. Len(Kids(p))
    BY <1>2, <1>3, KidFacts
  <1>8. Reaches(X, ToOf(g, n), PlaceAfter(g, p, i))
    BY <1>3, <1>5
  <1> QED BY <1>4, <1>5, <1>6, <1>7, <1>8, FollowingArrives

(***************************************************************************)
(* From the end of a branch of an if to the end of the if.                 *)
(***************************************************************************)
LEMMA LeaveBranch ==
    ASSUME NEW g, NEW X, Final(g, X), NEW n \in g.done, n # 1, Up(n) \in g.done, Kind(Up(n)) \in {"if", "label"},
           Kind(n) \notin ConditionKinds
    PROVE  Arrives(g, X, ToOf(g, n), AfterLeave(n))
  <1>1. PICK p, r : p = Up(n) /\ r = program[n].role
    OBVIOUS
  <1>2. source \in DOMAIN Programs /\ n \in Nodes /\ ~Removed(n)
    BY FinalFacts
  <1>3. p \in Nodes /\ p # 0 /\ r \in Parts(Kind(p)) /\ r \notin ConditionRoles /\ (r # "item" => Has(p, r) /\ Kid(p, r) = n)
        /\ ~NeverEntered(n) /\ p \in g.done /\ Kind(p) \in {"if", "label"}
    BY <1>1, <1>2, ParentFacts
  <1>4. AfterLeave(n) = Leave(p)
    BY <1>1, <1>3 DEF AfterLeave, Loops
  <1>5. Reaches(X, ToOf(g, n), ToOf(g, p))
    <2>1. CASE Kind(p) = "label"
      <3>1. r = "body"
        BY <1>3, <2>1 DEF Parts
      <3> QED BY <1>3, <2>1, <3>1, LabeledCode, ReachesOn
    <2>2. CASE Kind(p) = "if" /\ ~ConstantTest(p)
      <3>1. r \in {"then", "else"}
        BY <1>3, <2>2 DEF Parts, ConditionRoles
      <3> QED BY <1>3, <2>2, <3>1, IfCode
    <2>3. CASE Kind(p) = "if" /\ ConstantTest(p)
      <3>1. r \in {"then", "else"}
        BY <1>3, <2>3 DEF Parts, ConditionRoles
      <3>2. r = IF Holds(p) THEN "then" ELSE "else"
        <4>1. NeverEntered(Kid(p, r)) <=> r = (IF Holds(p) THEN "else" ELSE "then")
          BY <1>2, <1>3, <2>3, <3>1, KidFactsOfRole
        <4> QED BY <1>3, <3>1, <4>1
      <3>3. Kept(g, n, AtOf(g, p), ToOf(g, p))
        BY <1>3, <2>3, <3>1, <3>2, IfConstantCode
      <3> QED BY <3>3, ReachesOn DEF Kept
    <2> QED BY <1>3, <2>1, <2>2, <2>3
  <1>6. Kind(p) \in StatementKinds
    BY <1>3 DEF StatementKinds
  <1> QED BY <1>3, <1>4, <1>5, <1>6, Arrivals

(***************************************************************************)
(* From the end of a part of a loop to the next part.                      *)
(***************************************************************************)
LEMMA LeaveLoopPart ==
    ASSUME NEW g, NEW X, Final(g, X), NEW n \in g.done, n # 1, Up(n) \in g.done, Kind(Up(n)) \in Loops,
           Kind(n) \notin ConditionKinds
    PROVE  Arrives(g, X, ToOf(g, n), AfterLeave(n))
  <1>1. PICK p, r : p = Up(n) /\ r = program[n].role
    OBVIOUS
  <1>2. source \in DOMAIN Programs /\ n \in Nodes /\ ~Removed(n)
    BY FinalFacts
  <1>3. p \in Nodes /\ p # 0 /\ r \in Parts(Kind(p)) /\ r \notin ConditionRoles /\ (r # "item" => Has(p, r) /\ Kid(p, r) = n)
        /\ ~NeverEntered(n) /\ p \in g.done /\ Kind(p) \in Loops
    BY <1>1, <1>2, ParentFacts
  <1>4. AfterLeave(n) = IF r = "body" THEN Again(p) ELSE ForTest(p)
    BY <1>1, <1>3 DEF AfterLeave, Loops
  <1>5. CASE Kind(p) = "while"
    <2>1. r = "body" /\ Kid(p, "body") = n
      BY <1>3, <1>5 DEF Parts, ConditionRoles
    <2>2. ~NeverHolds(p) \/ IsDo(p)
      <3>1. NeverEntered(Kid(p, "body")) <=> ConstantTest(p) /\ program[p].tag # 1 /\ ~Holds(p)
        BY <1>2, <1>3, <1>5, <2>1, KidFactsOfRole
      <3> QED BY <1>3, <2>1, <3>1 DEF NeverHolds, IsDo
    <2>3. Reaches(X, ToOf(g, n), TestSpot(g, p))
      BY <1>3, <1>5, <2>1, <2>2, WhileFacts DEF WhileRuns
    <2> QED BY <1>3, <1>4, <1>5, <2>1, <2>3, AgainArrives
  <1>6. CASE Kind(p) = "for" /\ r = "body"
    <2>1. Reaches(X, ToOf(g, n), IncrementSpot(g, p))
      BY <1>3, <1>6, ForCode DEF ForRuns
    <2> QED BY <1>3, <1>4, <1>6, <2>1, AgainArrives
  <1>7. CASE Kind(p) = "for" /\ r # "body"
    <2>1. r \in {"init", "incr"}
      BY <1>3, <1>7 DEF Parts, ConditionRoles
    <2>2. Reaches(X, ToOf(g, n), ForSpot(g, p))
      BY <1>3, <1>7, <2>1, ForCode DEF ForRuns
    <2> QED BY <1>3, <1>4, <1>7, <2>2, ForTestArrives
  <1> QED BY <1>3, <1>5, <1>6, <1>7 DEF Loops

(***************************************************************************)
(* From the end of the function to its RTS.                                *)
(***************************************************************************)
LEMMA LeaveRoot ==
    ASSUME NEW g, NEW X, Final(g, X)
    PROVE  Arrives(g, X, ToOf(g, 1), AfterLeave(1))
  <1>1. source \in DOMAIN Programs /\ 1 \in g.done /\ ToOf(g, 1) = Len(X) - 1
    BY FinalFacts
  <1>2. Up(1) = 0
    BY <1>1, ProgramIsTree DEF IsTree, Up
  <1>3. AfterLeave(1) = Finished
    BY <1>2 DEF AfterLeave
  <1> QED BY <1>1, <1>3, EndRuns, Arrivals

(***************************************************************************)
(* From where a result is known, the code gets to where the walker goes.   *)
(***************************************************************************)
ResultSpot(g, X, n, b) == IF b THEN Yes(g, X, n) ELSE No(g, X, n)

(***************************************************************************)
(* The result of an operand decides the test, or the other operand is      *)
(* next.                                                                   *)
(***************************************************************************)
LEMMA ResultInTest ==
    ASSUME NEW g, NEW X, Final(g, X), NEW n \in g.done, n # 1, Up(n) \in g.done, Kind(Up(n)) \in {"not", "and", "or"},
           NEW b \in BOOLEAN
    PROVE  Arrives(g, X, ResultSpot(g, X, n, b), AfterResult(n, b))
  <1>1. PICK p, r : p = Up(n) /\ r = program[n].role
    OBVIOUS
  <1>2. source \in DOMAIN Programs /\ n \in Nodes
    BY FinalFacts
  <1>3. p \in Nodes /\ p # 0 /\ r \in Parts(Kind(p)) /\ (r # "item" => Has(p, r) /\ Kid(p, r) = n)
        /\ p \in g.done /\ Kind(p) \in {"not", "and", "or"}
    BY <1>1, <1>2, ParentFacts
  <1>4. ~Skipped(p) /\ Kind(p) \in ConditionKinds
    BY <1>3 DEF Skipped, ConditionKinds
  <1>5. \A q, v : v \in BOOLEAN /\ Reaches(X, q, ResultSpot(g, X, p, v)) => Arrives(g, X, q, Result(p, v))
    BY <1>3, <1>4, Arrivals DEF ResultSpot
  <1>6. CASE Kind(p) = "not"
    <2>1. r = "left" /\ Kid(p, "left") = n
      BY <1>3, <1>6 DEF Parts
    <2>2. g.from[n].yes = g.from[p].no /\ g.from[n].no = g.from[p].yes
      BY <1>3, <1>6, <2>1, NotCode
    <2>3. ResultSpot(g, X, n, b) = ResultSpot(g, X, p, ~b)
      BY <2>2 DEF ResultSpot, Yes, No
    <2>4. AfterResult(n, b) = Result(p, ~b)
      BY <1>1, <1>6 DEF AfterResult
    <2> QED BY <1>5, <2>3, <2>4, ReachesOn
  <1>7. CASE Kind(p) \in {"and", "or"}
    <2>1. r \in {"left", "right"} /\ Kid(p, r) = n
      BY <1>3, <1>7 DEF Parts
    <2>2. CASE r = "left" /\ (b <=> Kind(p) = "and")
      <3>1. PICK d : d = Kid(p, "right")
        OBVIOUS
      <3>2. AfterResult(n, b) = Enter(d)
        BY <1>1, <1>7, <2>2, <3>1 DEF AfterResult
      <3>3. d \in g.done /\ Reaches(X, ResultSpot(g, X, n, b), AtOf(g, d))
        BY <1>3, <1>7, <2>1, <2>2, <3>1, AndOrCode DEF ResultSpot
      <3>4. Has(p, "right")
        BY <1>2, <1>3, <1>7, KidRoles DEF Required, Parts
      <3>5. Kind(d) # "const"
        BY <1>2, <1>3, <3>1, <3>4, KidKinds
      <3> QED BY <3>2, <3>3, <3>5, Arrivals
    <2>3. CASE ~(r = "left" /\ (b <=> Kind(p) = "and"))
      <3>1. AfterResult(n, b) = Result(p, b)
        BY <1>1, <1>7, <2>3 DEF AfterResult
      <3>2. ResultSpot(g, X, n, b) = ResultSpot(g, X, p, b)
        <4>1. CASE r = "right"
          BY <1>3, <1>7, <2>1, <4>1, AndOrCode DEF ResultSpot
        <4>2. CASE r = "left"
          BY <1>3, <1>7, <2>1, <2>3, <4>2, AndOrCode DEF ResultSpot
        <4> QED BY <2>1, <4>1, <4>2
      <3> QED BY <1>5, <3>1, <3>2, ReachesOn
    <2> QED BY <2>2, <2>3
  <1> QED BY <1>3, <1>6, <1>7

(***************************************************************************)
(* The result of the condition of an if or of a loop takes its branch.     *)
(***************************************************************************)
LEMMA ResultOfCondition ==
    ASSUME NEW g, NEW X, Final(g, X), NEW n \in g.done, n # 1, Up(n) \in g.done, Kind(Up(n)) \in {"if", "while", "for"},
           Kind(n) \in ConditionKinds, ~Skipped(n), NEW b \in BOOLEAN
    PROVE  Arrives(g, X, ResultSpot(g, X, n, b), AfterResult(n, b))
  <1>1. PICK p : p = Up(n)
    OBVIOUS
  <1>2. source \in DOMAIN Programs /\ n \in Nodes
    BY FinalFacts
  <1>3. program[n].role = "cond"
    BY <1>2, ParentFacts DEF Parts, ConditionRoles
  <1>4. p \in Nodes /\ Has(p, "cond") /\ Kid(p, "cond") = n /\ p \in g.done /\ Kind(p) \in {"if", "while", "for"}
    BY <1>1, <1>2, <1>3, ParentFacts
  <1>5. Kind(p) \in {"if", "while"} => ~ConstantTest(p)
    BY <1>1, <1>4 DEF ConstantTest, Skipped
  <1>6. Kind(p) \in StatementKinds
    BY <1>4 DEF StatementKinds
  <1>7. CASE Kind(p) = "if"
    <2>1. CASE b
      <3>1. PICK t : t = Kid(p, "then")
        OBVIOUS
      <3>2. AfterResult(n, b) = Enter(t)
        BY <1>1, <1>7, <2>1, <3>1 DEF AfterResult
      <3>3. t \in g.done /\ Reaches(X, ResultSpot(g, X, n, b), AtOf(g, t))
        BY <1>4, <1>5, <1>7, <2>1, <3>1, IfCode DEF ResultSpot, Yes
      <3>4. Has(p, "then")
        BY <1>2, <1>4, <1>7, KidRoles DEF Required
      <3>5. Kind(t) # "const"
        BY <1>2, <1>4, <3>1, <3>4, KidKinds DEF ConditionRoles
      <3> QED BY <3>2, <3>3, <3>5, Arrivals
    <2>2. CASE ~b /\ Has(p, "else")
      <3>1. PICK t : t = Kid(p, "else")
        OBVIOUS
      <3>2. AfterResult(n, b) = Enter(t)
        BY <1>1, <1>7, <2>2, <3>1 DEF AfterResult
      <3>3. t \in g.done /\ Reaches(X, ResultSpot(g, X, n, b), AtOf(g, t))
        BY <1>4, <1>5, <1>7, <2>2, <3>1, IfCode DEF ResultSpot, No
      <3>5. Kind(t) # "const"
        BY <1>2, <1>4, <2>2, <3>1, KidKinds DEF ConditionRoles
      <3> QED BY <3>2, <3>3, <3>5, Arrivals
    <2>3. CASE ~b /\ ~Has(p, "else")
      <3>1. AfterResult(n, b) = Leave(p)
        BY <1>1, <1>7, <2>3 DEF AfterResult
      <3>2. Reaches(X, ResultSpot(g, X, n, b), ToOf(g, p))
        BY <1>4, <1>5, <1>7, <2>3, IfCode DEF ResultSpot, No
      <3> QED BY <1>4, <1>6, <3>1, <3>2, Arrivals
    <2> QED BY <2>1, <2>2, <2>3
  <1>8. CASE Kind(p) \in {"while", "for"}
    <2>1. PICK d : d = Kid(p, "body")
      OBVIOUS
    <2>2. AfterResult(n, b) = IF b THEN Enter(d) ELSE Leave(p)
      BY <1>1, <1>8, <2>1 DEF AfterResult
    <2>3. /\ Reaches(X, Yes(g, X, n), AtOf(g, d)) /\ Reaches(X, No(g, X, n), ToOf(g, p)) /\ d \in g.done
      <3>1. CASE Kind(p) = "while"
        BY <1>4, <1>5, <2>1, <3>1, WhileFacts DEF WhileRuns, NeverHolds, Yes, No
      <3>2. CASE Kind(p) = "for"
        BY <1>4, <2>1, <3>2, ForCode DEF ForRuns, Yes, No
      <3> QED BY <1>8, <3>1, <3>2
    <2>4. Has(p, "body")
      BY <1>2, <1>4, <1>8, KidRoles DEF Required, Parts
    <2>5. Kind(d) # "const"
      BY <1>2, <1>4, <2>1, <2>4, KidKinds DEF ConditionRoles
    <2> QED BY <1>4, <1>6, <2>2, <2>3, <2>5, Arrivals DEF ResultSpot
  <1> QED BY <1>4, <1>7, <1>8

(***************************************************************************)
(* A constant condition that has no code takes its branch.                 *)
(***************************************************************************)
LEMMA ResultOfConstant ==
    ASSUME NEW g, NEW X, Final(g, X), NEW n \in Nodes, n # 1, Up(n) \in g.done, Kind(n) = "const", Skipped(n),
           NEW b \in BOOLEAN, b = (program[n].tag # 0)
    PROVE  Arrives(g, X, ConstSpot(g, Up(n)), AfterResult(n, b))
  <1>1. PICK p : p = Up(n)
    OBVIOUS
  <1>2. source \in DOMAIN Programs
    BY FinalFacts
  <1>3. program[n].role = "cond"
    BY <1>2, ProgramIsTree DEF IsFunction, Kind, Nodes
  <1>4. p \in Nodes /\ Has(p, "cond") /\ Kid(p, "cond") = n /\ p \in g.done /\ "cond" \in Parts(Kind(p))
    BY <1>1, <1>3, ParentFacts
  <1>5. Kind(p) \in {"if", "while"}
    BY <1>1, <1>4 DEF Parts, Skipped
  <1>6. ConstantTest(p) /\ (Holds(p) <=> b) /\ Kind(p) \in StatementKinds /\ (NeverHolds(p) <=> ~b)
    BY <1>4, <1>5 DEF ConstantTest, Holds, NeverHolds, StatementKinds
  <1>7. CASE Kind(p) = "if"
    <2>1. ConstSpot(g, p) = AtOf(g, p)
      BY <1>4, <1>7, TextKnown DEF ConstSpot
    <2>2. PICK r : r = IF Holds(p) THEN "then" ELSE "else"
      OBVIOUS
    <2>3. CASE Has(p, r)
      <3>1. PICK t : t = Kid(p, r)
        OBVIOUS
      <3>2. AfterResult(n, b) = Enter(t)
        BY <1>1, <1>6, <1>7, <2>2, <2>3, <3>1 DEF AfterResult
      <3>3. t \in g.done /\ AtOf(g, t) = AtOf(g, p)
        BY <1>4, <1>6, <1>7, <2>2, <2>3, <3>1, IfConstantCode DEF Kept
      <3>4. Kind(t) # "const"
        BY <1>2, <1>4, <2>2, <2>3, <3>1, KidKinds DEF ConditionRoles
      <3>5. Reaches(X, AtOf(g, p), AtOf(g, t))
        BY <3>3, ReachesOn
      <3> QED BY <1>1, <2>1, <3>2, <3>3, <3>4, <3>5, Arrivals
    <2>4. CASE ~Has(p, r)
      <3>1. Has(p, "then")
        BY <1>2, <1>4, <1>7, KidRoles DEF Required
      <3>2. AfterResult(n, b) = Leave(p)
        BY <1>1, <1>6, <1>7, <2>2, <2>4, <3>1 DEF AfterResult
      <3>3. Reaches(X, AtOf(g, p), ToOf(g, p))
        BY <1>4, <1>6, <1>7, <2>2, <2>4, IfConstantCode
      <3> QED BY <1>1, <1>4, <1>6, <2>1, <3>2, <3>3, Arrivals
    <2> QED BY <2>3, <2>4
  <1>8. CASE Kind(p) = "while"
    <2>1. PICK d : d = Kid(p, "body")
      OBVIOUS
    <2>2. AfterResult(n, b) = IF b THEN Enter(d) ELSE Leave(p)
      BY <1>1, <1>8, <2>1 DEF AfterResult
    <2>3. /\ b => Reaches(X, ConstSpot(g, p), AtOf(g, d)) /\ d \in g.done
          /\ ~b => Reaches(X, ConstSpot(g, p), ToOf(g, p))
      BY <1>4, <1>6, <1>8, <2>1, WhileFacts DEF WhileRuns, TestSpot
    <2>4. Has(p, "body")
      BY <1>2, <1>4, <1>8, KidRoles DEF Required, Parts
    <2>5. Kind(d) # "const"
      BY <1>2, <1>4, <2>1, <2>4, KidKinds DEF ConditionRoles
    <2> QED BY <1>1, <1>4, <1>6, <2>2, <2>3, <2>5, Arrivals
  <1> QED BY <1>5, <1>7, <1>8

(***************************************************************************)
(* Looking outward for the loop of a break or of a continue.               *)
(***************************************************************************)
LEMMA OutwardFacts ==
    ASSUME source \in DOMAIN Programs, NEW n \in Nodes, NEW k, Innermost(n, k)
    PROVE  /\ n # 1 /\ Up(n) \in Nodes /\ k \in Nodes
           /\ Breakable(Up(n)) => Up(n) = k
           /\ ~Breakable(Up(n)) => Innermost(Up(n), k)
  <1>1. n # 1
    <2> SUFFICES ASSUME n = 1 PROVE FALSE
      OBVIOUS
    <2>1. k \in Ancestors(1)
      BY DEF Innermost, Breakables
    <2> QED BY <2>1 DEF Ancestors
  <1>2. PICK p, i : p = Up(n) /\ i = Index(n)
    OBVIOUS
  <1>3. p \in Nodes /\ i \in DOMAIN Kids(p) /\ Kids(p)[i] = n
    BY <1>1, <1>2, UpFacts
  <1>4. Breakables(n) = (IF Breakable(p) THEN Breakables(p) \cup {p} ELSE Breakables(p)) /\ Breakables(p) \subseteq 1 .. (p - 1)
    BY <1>3, BreakablesOfKid
  <1>5. k \in Breakables(n) /\ \A m \in Breakables(n) : m <= k
    BY DEF Innermost
  <1>6. p \in Nat
    BY <1>3, NodeFacts
  <1>7. CASE Breakable(p)
    <2>1. p \in Breakables(n) /\ p <= k
      BY <1>4, <1>5, <1>7
    <2>2. k = p \/ k \in 1 .. (p - 1)
      BY <1>4, <1>5, <1>7
    <2>3. k = p
      BY <1>6, <2>1, <2>2
    <2> QED BY <1>1, <1>2, <1>3, <1>7, <2>3
  <1>8. CASE ~Breakable(p)
    <2>1. Innermost(p, k)
      BY <1>4, <1>5, <1>8 DEF Innermost
    <2>2. k \in Nodes
      <3>1. k \in Ancestors(n)
        BY <1>5 DEF Breakables
      <3> QED BY <3>1, AncestorFacts
    <2> QED BY <1>1, <1>2, <1>3, <1>8, <2>1, <2>2
  <1> QED BY <1>7, <1>8

(***************************************************************************)
(* A break climbs to the closest loop or switch, and leaves it.            *)
(***************************************************************************)
LEMMA BreakArrives ==
    ASSUME NEW g, NEW X, Final(g, X), NEW n \in Nodes, NEW k \in g.done, Innermost(n, k)
    PROVE  Arrives(g, X, Spot(g, X, At("break", n)), AfterBreak(n))
  <1>1. PICK p : p = Up(n)
    OBVIOUS
  <1>2. source \in DOMAIN Programs
    BY FinalFacts
  <1>3. p \in Nodes /\ (Breakable(p) => p = k) /\ (~Breakable(p) => Innermost(p, k))
    BY <1>1, <1>2, OutwardFacts
  <1>4. Around(n) = k
    BY <1>2, InnermostOnce DEF Around
  <1>5. Spot(g, X, At("break", n)) = Exit(g, X, k)
    BY <1>4 DEF Spot, At
  <1>6. CASE Breakable(p)
    <2>1. AfterBreak(n) = Leave(k)
      BY <1>1, <1>3, <1>6 DEF AfterBreak, Breakable
    <2>2. Kind(k) \in {"while", "for", "switch"} /\ Kind(k) \in StatementKinds
      BY <1>3, <1>6 DEF Breakable, Loops, StatementKinds
    <2>3. Reaches(X, Exit(g, X, k), ToOf(g, k))
      <3>1. CASE Kind(k) = "while"
        BY <3>1, WhileFacts DEF WhileRuns, Exit
      <3>2. CASE Kind(k) = "for"
        BY <3>2, ForCode DEF ForRuns, Exit
      <3>3. CASE Kind(k) = "switch"
        <4>1. Pair(k, g.base[k]).break = g.base[k] + 1
          BY <3>3 DEF Pair, Targets
        <4>2. Reaches(X, AtLabel(X, g.base[k] + 1), ToOf(g, k))
          BY <3>3, SwitchCode
        <4> QED BY <4>1, <4>2 DEF Exit
      <3> QED BY <2>2, <3>1, <3>2, <3>3
    <2> QED BY <1>5, <2>1, <2>2, <2>3, Arrivals
  <1>7. CASE ~Breakable(p)
    <2>1. AfterBreak(n) = At("break", p)
      BY <1>1, <1>7 DEF AfterBreak, Breakable
    <2>2. Around(p) = k
      BY <1>2, <1>3, <1>7, InnermostOnce DEF Around
    <2>3. Spot(g, X, At("break", p)) = Exit(g, X, k)
      BY <2>2 DEF Spot, At
    <2>4. Live(g, At("break", p))
      BY <1>3, <1>7 DEF Live, At
    <2> QED BY <1>5, <2>1, <2>3, <2>4, ReachesOn DEF Arrives
  <1> QED BY <1>6, <1>7

(***************************************************************************)
(* A continue climbs to the closest loop, and goes on with it.             *)
(***************************************************************************)
LEMMA ContinueArrives ==
    ASSUME NEW g, NEW X, Final(g, X), NEW n \in Nodes, NEW k \in g.done, Innermost(n, k),
           Kind(k) = "for" \/ (Kind(k) = "while" /\ ~NeverHolds(k))
    PROVE  Arrives(g, X, Spot(g, X, At("continue", n)), AfterContinue(n))
  <1>1. PICK p : p = Up(n)
    OBVIOUS
  <1>2. source \in DOMAIN Programs
    BY FinalFacts
  <1>3. p \in Nodes /\ (Breakable(p) => p = k) /\ (~Breakable(p) => Innermost(p, k))
    BY <1>1, <1>2, OutwardFacts
  <1>4. Around(n) = k
    BY <1>2, InnermostOnce DEF Around
  <1>5. Spot(g, X, At("continue", n)) = Resume(g, X, k)
    BY <1>4 DEF Spot, At
  <1>6. CASE Breakable(p)
    <2>1. AfterContinue(n) = Again(k) /\ Kind(k) \in Loops
      BY <1>1, <1>3, <1>6 DEF AfterContinue, Loops
    <2>2. Reaches(X, Resume(g, X, k), IF Kind(k) = "while" THEN TestSpot(g, k) ELSE IncrementSpot(g, k))
      <3>1. CASE Kind(k) = "while"
        BY <3>1, WhileFacts DEF WhileRuns, Resume
      <3>2. CASE Kind(k) = "for"
        BY <3>2, ForCode DEF ForRuns, Resume
      <3> QED BY <3>1, <3>2
    <2> QED BY <1>5, <2>1, <2>2, AgainArrives
  <1>7. CASE ~Breakable(p)
    <2>1. AfterContinue(n) = At("continue", p)
      BY <1>1, <1>7 DEF AfterContinue, Breakable
    <2>2. Around(p) = k
      BY <1>2, <1>3, <1>7, InnermostOnce DEF Around
    <2>3. Spot(g, X, At("continue", p)) = Resume(g, X, k)
      BY <2>2 DEF Spot, At
    <2>4. Live(g, At("continue", p))
      BY <1>3, <1>7 DEF Live, At
    <2> QED BY <1>5, <2>1, <2>3, <2>4, ReachesOn DEF Arrives
  <1> QED BY <1>6, <1>7

(***************************************************************************)
(* A step of the walker that cannot be observed is a stretch of code that  *)
(* cannot be observed.                                                     *)
(***************************************************************************)
Walked(c) ==
    CASE c.at = "enter" -> AfterEnter(c.node)
      [] c.at = "leave" -> AfterLeave(c.node)
      [] c.at \in {"yes", "no"} -> AfterResult(c.node, c.at = "yes")
      [] c.at = "break" -> AfterBreak(c.node)
      [] c.at = "continue" -> AfterContinue(c.node)
Watched(c) == c.at = "end" \/ (c.at = "enter" /\ Kind(c.node) \in DOMAIN Events)

(***************************************************************************)
(* The parent of a node that has code has code.                            *)
(***************************************************************************)
LEMMA UpIsDone ==
    ASSUME NEW g, NEW X, Final(g, X), NEW n \in g.done, n # 1
    PROVE  Up(n) \in g.done
  <1>1. PICK b, l : Describes(g, X, Len(X) + 1, b, l)
    BY DEF Final
  <1> QED BY <1>1 DEF Describes, Inherits, Placed

(***************************************************************************)
(* A node that is entered, whatever its kind.                              *)
(***************************************************************************)
LEMMA EnterArrives ==
    ASSUME NEW g, NEW X, Final(g, X), NEW n, HasCode(g, n), Kind(n) \notin DOMAIN Events
    PROVE  Arrives(g, X, Spot(g, X, Enter(n)), AfterEnter(n))
  <1>1. source \in DOMAIN Programs /\ n \in Nodes
    BY FinalFacts DEF HasCode
  <1>2. Kind(n) \in StatementKinds \cup ConditionKinds
    BY <1>1, KidRoles
  <1>3. Kind(n) \notin {"do", "atom", "switch"}
    BY DEF Events
  <1>4. CASE Kind(n) = "const"
    BY <1>4, EnterConstant
  <1>5. CASE Kind(n) # "const"
    <2>1. ~Skipped(n)
      BY <1>5 DEF Skipped
    <2>2. n \in g.done
      BY <2>1 DEF HasCode
    <2>3. Spot(g, X, Enter(n)) = AtOf(g, n)
      BY <2>1 DEF Spot, Enter, At
    <2>4. \/ Kind(n) \in {"block", "case", "if", "while"}
          \/ Kind(n) = "for"
          \/ Kind(n) \in {"break", "continue", "return", "goto", "label"}
          \/ Kind(n) \in {"not", "and", "or"}
      BY <1>2, <1>3, <1>5 DEF StatementKinds, ConditionKinds
    <2> QED BY <2>2, <2>3, <2>4, EnterListed, EnterFor, EnterJump, EnterTest
  <1> QED BY <1>4, <1>5

(***************************************************************************)
(* A statement that is left, wherever it is.                               *)
(***************************************************************************)
LEMMA LeaveArrives ==
    ASSUME NEW g, NEW X, Final(g, X), NEW n \in g.done, Kind(n) \in StatementKinds
    PROVE  Arrives(g, X, ToOf(g, n), AfterLeave(n))
  <1>1. CASE n = 1
    BY <1>1, LeaveRoot
  <1>2. CASE n # 1
    <2>1. n \in Nodes /\ source \in DOMAIN Programs
      BY FinalFacts
    <2>2. Up(n) \in g.done
      BY <1>2, UpIsDone
    <2>3. Kind(n) \notin ConditionKinds
      BY DEF StatementKinds, ConditionKinds
    <2>4. program[n].role \in Parts(Kind(Up(n))) /\ program[n].role \notin ConditionRoles
      BY <1>2, <2>1, <2>2, <2>3, ParentFacts
    <2>5. Kind(Up(n)) \in {"block", "case", "switch", "if", "label", "while", "for"}
      BY <2>4 DEF Parts, ConditionRoles
    <2> QED BY <1>2, <2>2, <2>3, <2>5, LeaveListed, LeaveBranch, LeaveLoopPart DEF Loops
  <1> QED BY <1>1, <1>2

(***************************************************************************)
(* A condition whose result is known, wherever it is.                      *)
(***************************************************************************)
LEMMA ResultArrives ==
    ASSUME NEW g, NEW X, Final(g, X), NEW n, HasCode(g, n), Kind(n) \in ConditionKinds, NEW b \in BOOLEAN,
           Skipped(n) => b = (program[n].tag # 0)
    PROVE  Arrives(g, X, Spot(g, X, Result(n, b)), AfterResult(n, b))
  <1>1. source \in DOMAIN Programs /\ n \in Nodes
    BY FinalFacts DEF HasCode
  <1>2. n # 1
    <2>1. Kind(1) = "block"
      BY <1>1, ProgramIsTree DEF IsFunction, Kind
    <2> QED BY <2>1 DEF ConditionKinds
  <1>3. Result(n, b).at = (IF b THEN "yes" ELSE "no") /\ Result(n, b).node = n
    BY DEF Result, At
  <1>4. CASE Skipped(n)
    <2>1. Spot(g, X, Result(n, b)) = ConstSpot(g, Up(n))
      BY <1>3, <1>4 DEF Spot
    <2>2. Up(n) \in g.done /\ Kind(n) = "const"
      BY <1>4 DEF HasCode, Skipped
    <2> QED BY <1>1, <1>2, <1>4, <2>1, <2>2, ResultOfConstant
  <1>5. CASE ~Skipped(n)
    <2>1. Spot(g, X, Result(n, b)) = ResultSpot(g, X, n, b)
      BY <1>3, <1>5 DEF Spot, ResultSpot
    <2>2. n \in g.done
      BY <1>5 DEF HasCode
    <2>3. Up(n) \in g.done
      BY <1>2, <2>2, UpIsDone
    <2>4. program[n].role \in Parts(Kind(Up(n))) /\ program[n].role \in ConditionRoles
      BY <1>1, <1>2, <2>3, ParentFacts
    <2>5. Kind(Up(n)) \in {"not", "and", "or", "if", "while", "for"}
      BY <2>4 DEF Parts, ConditionRoles
    <2> QED BY <1>2, <1>5, <2>1, <2>2, <2>3, <2>5, ResultInTest, ResultOfCondition
  <1> QED BY <1>4, <1>5

(***************************************************************************)
(* The walker goes on, wherever it is.                                     *)
(***************************************************************************)
LEMMA WalkArrives ==
    ASSUME NEW g, NEW X, Final(g, X), NEW c, Live(g, c), ~Watched(c)
    PROVE  Arrives(g, X, Spot(g, X, c), Walked(c))
  <1>1. PICK n : n = c.node
    OBVIOUS
  <1>2. CASE c.at = "enter" /\ HasCode(g, n)
    <2>1. Spot(g, X, c) = Spot(g, X, Enter(n)) /\ Walked(c) = AfterEnter(n) /\ Kind(n) \notin DOMAIN Events
      BY <1>1, <1>2 DEF Enter, At, Spot, Walked, Watched
    <2> QED BY <1>2, <2>1, EnterArrives
  <1>3. CASE c.at = "leave" /\ n \in g.done /\ Kind(n) \in StatementKinds
    <2>1. Spot(g, X, c) = ToOf(g, n) /\ Walked(c) = AfterLeave(n)
      BY <1>1, <1>3 DEF Walked, Spot
    <2> QED BY <1>3, <2>1, LeaveArrives
  <1>4. CASE c.at \in {"yes", "no"} /\ HasCode(g, n) /\ Kind(n) \in ConditionKinds /\ (Skipped(n) => (c.at = "yes" <=> program[n].tag # 0))
    <2>1. PICK b \in BOOLEAN : b = (c.at = "yes")
      OBVIOUS
    <2>2. Spot(g, X, c) = Spot(g, X, Result(n, b))
      BY <1>1, <1>4, <2>1 DEF Result, At, Spot
    <2>3. Walked(c) = AfterResult(n, b)
      BY <1>1, <1>4, <2>1 DEF Walked
    <2>4. Skipped(n) => b = (program[n].tag # 0)
      BY <1>4, <2>1
    <2> QED BY <1>4, <2>2, <2>3, <2>4, ResultArrives
  <1>5. CASE c.at = "break" /\ n \in Nodes /\ \E k \in g.done : Innermost(n, k)
    <2>1. Spot(g, X, c) = Spot(g, X, At("break", n)) /\ Walked(c) = AfterBreak(n)
      BY <1>1, <1>5 DEF Walked, At, Spot
    <2> QED BY <1>5, <2>1, BreakArrives
  <1>6. CASE c.at = "continue" /\ n \in Nodes
             /\ \E k \in g.done : Innermost(n, k) /\ (Kind(k) = "for" \/ (Kind(k) = "while" /\ ~NeverHolds(k)))
    <2>1. Spot(g, X, c) = Spot(g, X, At("continue", n)) /\ Walked(c) = AfterContinue(n)
      BY <1>1, <1>6 DEF Walked, At, Spot
    <2> QED BY <1>6, <2>1, ContinueArrives
  <1>7. c.at # "end"
    BY DEF Watched
  <1> QED BY <1>1, <1>2, <1>3, <1>4, <1>5, <1>6, <1>7 DEF Live

(***************************************************************************)
(* When the walker is at something that can be observed, its place holds   *)
(* the instruction for it, and the code goes on from there as the walker.  *)
(***************************************************************************)
EventOf(c) == [op |-> IF c.at = "end" THEN "RTS" ELSE Events[Kind(c.node)], node |-> c.node]
InsEvent(x) == [op |-> x.op, node |-> IF x.op = "SELECT" THEN x.arg.node ELSE x.arg]

(***************************************************************************)
(* The instruction at the place of something observable is for it.         *)
(***************************************************************************)
LEMMA WatchedSpot ==
    ASSUME NEW g, NEW X, Final(g, X), NEW c, Live(g, c), Watched(c)
    PROVE  /\ Spot(g, X, c) \in DOMAIN X /\ X[Spot(g, X, c)].op \in {"DO", "TEST", "SELECT", "RTS"}
           /\ InsEvent(X[Spot(g, X, c)]) = EventOf(c)
           /\ c.at # "end" => c.node \in g.done /\ Spot(g, X, c) = AtOf(g, c.node)
  <1>1. PICK n : n = c.node
    OBVIOUS
  <1>2. CASE c.at = "end"
    <2>1. Spot(g, X, c) = Len(X) /\ c.node = 0
      BY <1>2 DEF Spot, Live
    <2>2. X[Len(X)] = Ins("RTS", 0) /\ Len(X) \in DOMAIN X
      BY FinalFacts
    <2> QED BY <1>2, <2>1, <2>2 DEF InsEvent, EventOf, Ins
  <1>3. CASE c.at # "end"
    <2>1. c.at = "enter" /\ Kind(n) \in {"do", "atom", "switch"} /\ HasCode(g, n)
      BY <1>1, <1>3 DEF Watched, Events, Live
    <2>2. ~Skipped(n)
      BY <2>1 DEF Skipped
    <2>3. n \in g.done /\ Spot(g, X, c) = AtOf(g, n)
      BY <1>1, <2>1, <2>2 DEF HasCode, Spot
    <2>4. EventOf(c) = [op |-> Events[Kind(n)], node |-> n]
      BY <1>1, <1>3 DEF EventOf
    <2>5. CASE Kind(n) = "do"
      <3>1. AtOf(g, n) \in DOMAIN X /\ X[AtOf(g, n)] = Ins("DO", n)
        BY <2>3, <2>5, DoCode
      <3> QED BY <1>1, <2>3, <2>4, <2>5, <3>1 DEF InsEvent, Ins, Events
    <2>6. CASE Kind(n) = "atom"
      <3>1. AtOf(g, n) \in DOMAIN X /\ X[AtOf(g, n)] = Ins("TEST", n)
        BY <2>3, <2>6, AtomCode
      <3> QED BY <1>1, <2>3, <2>4, <2>6, <3>1 DEF InsEvent, Ins, Events
    <2>7. CASE Kind(n) = "switch"
      <3>1. PICK a, b : a = g.base[n] + 2 /\ b = g.base[n] + 1
        OBVIOUS
      <3>2. AtOf(g, n) \in DOMAIN X /\ X[AtOf(g, n)] = Ins("SELECT", [node |-> n, first |-> a, end |-> b])
        BY <2>3, <2>7, <3>1, SwitchCode
      <3> QED BY <1>1, <2>3, <2>4, <2>7, <3>2 DEF InsEvent, Ins, Events
    <2> QED BY <2>1, <2>5, <2>6, <2>7
  <1> QED BY <1>2, <1>3

(***************************************************************************)
(* The code and the walker are in step: the walker is at a node that has   *)
(* code, and the place of the code and the place of that node meet.        *)
(***************************************************************************)
InStep(g, X, p, f, c) ==
    /\ Final(g, X) /\ Live(g, c) /\ p \in DOMAIN X /\ f \in Flags(X)
    /\ \E e \in Flags(X) : <<Spot(g, X, c), e>> \in Spots(X) /\ Meets(X, <<p, f>>, <<Spot(g, X, c), e>>)

(***************************************************************************)
(* They are when the function is called.                                   *)
(***************************************************************************)
LEMMA InStepAtStart ==
    ASSUME NEW g, NEW X, Final(g, X), NEW f \in Flags(X)
    PROVE  InStep(g, X, 1, f, Start)
  <1>1. source \in DOMAIN Programs /\ 1 \in g.done /\ AtOf(g, 1) = 1 /\ 1 \in DOMAIN X /\ 1 \in Nodes
    BY FinalFacts
  <1>2. Kind(1) = "block"
    BY <1>1, ProgramIsTree DEF IsFunction, Kind
  <1>3. ~Skipped(1)
    BY <1>2 DEF Skipped
  <1>4. Live(g, Start) /\ Spot(g, X, Start) = 1
    BY <1>1, <1>3 DEF Live, HasCode, Spot, Start, Enter, At
  <1>5. <<1, f>> \in Spots(X)
    BY DEF Spots
  <1>6. Meets(X, <<1, f>>, <<1, f>>)
    BY LeadsOn DEF Meets
  <1> QED BY <1>1, <1>4, <1>5, <1>6 DEF InStep

(***************************************************************************)
(* They stay so when one of them goes on without anything observable ...   *)
(***************************************************************************)
LEMMA InStepWalking ==
    ASSUME NEW g, NEW X, NEW p, NEW f, NEW c, InStep(g, X, p, f, c), ~Watched(c)
    PROVE  InStep(g, X, p, f, Walked(c))
  <1>1. Final(g, X) /\ Live(g, c) /\ p \in DOMAIN X /\ f \in Flags(X)
    BY DEF InStep
  <1>2. PICK e \in Flags(X) : <<Spot(g, X, c), e>> \in Spots(X) /\ Meets(X, <<p, f>>, <<Spot(g, X, c), e>>)
    BY DEF InStep
  <1>3. PICK q, r : q = Spot(g, X, c) /\ r = Spot(g, X, Walked(c))
    OBVIOUS
  <1>4. Live(g, Walked(c)) /\ Reaches(X, q, r)
    BY <1>1, <1>3, WalkArrives DEF Arrives
  <1>5. PICK d \in Flags(X) : Leads(X, <<q, e>>, <<r, d>>)
    BY <1>4 DEF Reaches
  <1>6. PICK s, t, u : s = <<p, f>> /\ t = <<q, e>> /\ u = <<r, d>>
    OBVIOUS
  <1>7. s \in Spots(X)
    <2>1. p \in Nat
      BY <1>1, FinalFacts
    <2> QED BY <1>1, <1>6, <2>1 DEF Spots
  <1>8. t \in Spots(X) /\ Meets(X, s, t) /\ Leads(X, t, u)
    BY <1>2, <1>3, <1>5, <1>6
  <1>9. u \in Spots(X)
    BY <1>8, LeadsOn
  <1>10. Meets(X, s, u)
    BY <1>7, <1>8, MeetsOn
  <1> QED BY <1>1, <1>3, <1>4, <1>6, <1>9, <1>10 DEF InStep

(***************************************************************************)
(* The code goes on.                                                       *)
(***************************************************************************)
LEMMA InStepRunning ==
    ASSUME NEW g, NEW X, NEW p, NEW f, NEW c, InStep(g, X, p, f, c), X[p].op \notin {"DO", "TEST", "SELECT", "RTS"}
    PROVE  InStep(g, X, Next1(X, p, f), Next2(X, p, f), c)
  <1>1. Final(g, X) /\ Live(g, c) /\ p \in DOMAIN X /\ f \in Flags(X)
    BY DEF InStep
  <1>2. PICK e \in Flags(X) : <<Spot(g, X, c), e>> \in Spots(X) /\ Meets(X, <<p, f>>, <<Spot(g, X, c), e>>)
    BY DEF InStep
  <1>3. PICK q, r, d : q = Spot(g, X, c) /\ r = Next1(X, p, f) /\ d = Next2(X, p, f)
    OBVIOUS
  <1>4. Goes(X, <<p, f>>, <<r, d>>) /\ r \in DOMAIN X /\ d \in Flags(X)
    BY <1>1, <1>3, InsGoes
  <1>5. PICK s, t, u : s = <<p, f>> /\ t = <<q, e>> /\ u = <<r, d>>
    OBVIOUS
  <1>6. Goes(X, s, u) /\ t \in Spots(X) /\ Meets(X, s, t)
    BY <1>2, <1>3, <1>4, <1>5
  <1>7. s \in Spots(X) /\ u \in Spots(X)
    BY <1>6 DEF Goes
  <1>8. Leads(X, s, u)
    BY <1>6, LeadsOn
  <1>9. Meets(X, t, s)
    BY <1>6, <1>7, MeetsOn
  <1>10. Meets(X, t, u)
    BY <1>6, <1>7, <1>8, <1>9, MeetsOn
  <1>11. Meets(X, u, t)
    BY <1>6, <1>7, <1>10, MeetsOn
  <1> QED BY <1>1, <1>3, <1>4, <1>5, <1>6, <1>11 DEF InStep

(***************************************************************************)
(* ... and when both are at something observable, it is the same.          *)
(***************************************************************************)
LEMMA InStepMeeting ==
    ASSUME NEW g, NEW X, NEW p, NEW f, NEW c, InStep(g, X, p, f, c), Watched(c), X[p].op \in {"DO", "TEST", "SELECT", "RTS"}
    PROVE  p = Spot(g, X, c) /\ InsEvent(X[p]) = EventOf(c) /\ (c.at # "end" => c.node \in g.done /\ p = AtOf(g, c.node))
  <1>1. Final(g, X) /\ Live(g, c) /\ p \in DOMAIN X /\ f \in Flags(X)
    BY DEF InStep
  <1>2. PICK e \in Flags(X) : <<Spot(g, X, c), e>> \in Spots(X) /\ Meets(X, <<p, f>>, <<Spot(g, X, c), e>>)
    BY DEF InStep
  <1>3. PICK q : q = Spot(g, X, c)
    OBVIOUS
  <1>4. X[q].op \in {"DO", "TEST", "SELECT", "RTS"}
    BY <1>1, <1>3, WatchedSpot
  <1>5. PICK s, t : s = <<p, f>> /\ t = <<q, e>>
    OBVIOUS
  <1>6. \A u : ~Goes(X, s, u) /\ ~Goes(X, t, u)
    <2>1. s[1] = p /\ t[1] = q
      BY <1>5
    <2> QED BY <1>4, <2>1 DEF Goes
  <1>7. s \in Spots(X)
    <2>1. p \in Nat
      BY <1>1, FinalFacts
    <2> QED BY <1>1, <1>5, <2>1 DEF Spots
  <1>8. s = t
    BY <1>2, <1>3, <1>5, <1>6, <1>7, MeetsOn
  <1>9. p = q
    BY <1>5, <1>8
  <1> QED BY <1>1, <1>3, <1>9, WatchedSpot

(***************************************************************************)
(* After a statement, a test and the choice of a case they are in step.    *)
(***************************************************************************)
LEMMA InStepFrom ==
    ASSUME NEW g, NEW X, Final(g, X), NEW p \in DOMAIN X, NEW f \in Flags(X), NEW c, Live(g, c), NEW e \in Flags(X),
           Leads(X, <<p, f>>, <<Spot(g, X, c), e>>)
    PROVE  InStep(g, X, p, f, c)
  <1>1. PICK s, t : s = <<p, f>> /\ t = <<Spot(g, X, c), e>>
    OBVIOUS
  <1>2. s \in Spots(X)
    <2>1. p \in Nat
      BY FinalFacts
    <2> QED BY <1>1, <2>1 DEF Spots
  <1>3. t \in Spots(X) /\ Meets(X, s, t)
    BY <1>1, <1>2, LeadsOn DEF Meets
  <1> QED BY <1>1, <1>3 DEF InStep

(***************************************************************************)
(* It suffices that the code gets to the place of the walker.              *)
(***************************************************************************)
LEMMA InStepArrived ==
    ASSUME NEW g, NEW X, Final(g, X), NEW p \in DOMAIN X, NEW f \in Flags(X), NEW c, Arrives(g, X, p, c)
    PROVE  InStep(g, X, p, f, c)
  <1>1. PICK e \in Flags(X) : Leads(X, <<p, f>>, <<Spot(g, X, c), e>>)
    BY DEF Arrives, Reaches
  <1> QED BY <1>1, InStepFrom DEF Arrives

(***************************************************************************)
(* After an expression statement.                                          *)
(***************************************************************************)
LEMMA InStepAfterDo ==
    ASSUME NEW g, NEW X, Final(g, X), NEW n \in g.done, Kind(n) = "do", NEW f \in Flags(X), NEW p, p = AtOf(g, n)
    PROVE  InStep(g, X, p + 1, f, Leave(n))
  <1>1. p \in DOMAIN X /\ X[p] = Ins("DO", n) /\ ToOf(g, n) = p + 1
    BY DoCode
  <1>2. p # Len(X)
    BY <1>1, FinalFacts DEF Ins
  <1>3. p + 1 \in DOMAIN X
    BY <1>1, <1>2, FinalFacts
  <1>4. Arrives(g, X, p + 1, Leave(n))
    BY <1>1, ReachesOn, Arrivals DEF StatementKinds
  <1> QED BY <1>3, <1>4, InStepArrived

(***************************************************************************)
(* After a test, whatever its result.                                      *)
(***************************************************************************)
LEMMA InStepAfterTest ==
    ASSUME NEW g, NEW X, Final(g, X), NEW n \in g.done, Kind(n) = "atom", NEW b \in {0, 1}, NEW p, p = AtOf(g, n)
    PROVE  InStep(g, X, p + 1, b, Result(n, b # 0))
  <1>1. p \in DOMAIN X /\ X[p] = Ins("TEST", n) /\ \A f \in Flags(X) : Leads(X, <<p + 1, f>>, <<IF f # 0 THEN Yes(g, X, n) ELSE No(g, X, n), f>>)
    BY AtomCode
  <1>2. p # Len(X)
    BY <1>1, FinalFacts DEF Ins
  <1>3. p + 1 \in DOMAIN X
    BY <1>1, <1>2, FinalFacts
  <1>4. b \in Flags(X)
    BY DEF Flags
  <1>5. n \in Nodes /\ ~Skipped(n) /\ Kind(n) \in ConditionKinds
    BY FinalFacts DEF Skipped, ConditionKinds
  <1>6. PICK c : c = Result(n, b # 0)
    OBVIOUS
  <1>7. c.at = (IF b # 0 THEN "yes" ELSE "no") /\ c.node = n
    BY <1>6 DEF Result, At
  <1>8. Live(g, c) /\ Spot(g, X, c) = IF b # 0 THEN Yes(g, X, n) ELSE No(g, X, n)
    BY <1>5, <1>7 DEF Live, HasCode, Spot
  <1>9. Leads(X, <<p + 1, b>>, <<Spot(g, X, c), b>>)
    BY <1>1, <1>4, <1>8
  <1> QED BY <1>3, <1>4, <1>6, <1>8, <1>9, InStepFrom

(***************************************************************************)
(* The label of a choice.                                                  *)
(***************************************************************************)
LabelOfChoice(g, n, choice) ==
    CASE choice # 0 -> g.base[n] + 2 + choice - 1
      [] choice = 0 /\ DefaultCase(n) # {} -> g.base[n] + 2 + (CHOOSE i \in DefaultCase(n) : TRUE) - 1
      [] OTHER -> g.base[n] + 1

(***************************************************************************)
(* After the choice of a case, whichever it is.                            *)
(***************************************************************************)
LEMMA InStepAfterSelect ==
    ASSUME NEW g, NEW X, Final(g, X), NEW n \in g.done, Kind(n) = "switch", NEW choice \in CaseChoices(n), NEW f \in Flags(X)
    PROVE  /\ LabelIn(X, LabelOfChoice(g, n, choice))
           /\ InStep(g, X, AtLabel(X, LabelOfChoice(g, n, choice)), f, ChosenCase(n, choice))
  <1>1. source \in DOMAIN Programs /\ n \in Nodes /\ DOMAIN Kids(n) = 1 .. Len(Kids(n))
    BY FinalFacts, KidFacts
  <1>2. PICK l : l = g.base[n]
    OBVIOUS
  <1>3. l \in Nat
    BY <1>2, TextKnown
  <1>4. /\ \A j \in DOMAIN Kids(n) : Kids(n)[j] \in g.done /\ AtLabel(X, l + 1 + j) = AtOf(g, Kids(n)[j]) /\ LabelIn(X, l + 1 + j)
        /\ Reaches(X, AtLabel(X, l + 1), ToOf(g, n)) /\ LabelIn(X, l + 1)
    <2>1. \A v : v = g.base[n] =>
             /\ \A j \in DOMAIN Kids(n) : /\ Kids(n)[j] \in g.done /\ Reaches(X, ToOf(g, Kids(n)[j]), PlaceAfter(g, n, j))
                                          /\ AtLabel(X, v + 1 + j) = AtOf(g, Kids(n)[j]) /\ LabelIn(X, v + 1 + j)
             /\ Reaches(X, AtLabel(X, v + 1), ToOf(g, n)) /\ LabelIn(X, v + 1)
      BY SwitchCode
    <2> QED BY <1>2, <2>1
  <1>5. ASSUME NEW j \in DOMAIN Kids(n), LabelOfChoice(g, n, choice) = l + 2 + j - 1, ChosenCase(n, choice) = Enter(Kids(n)[j])
        PROVE  /\ LabelIn(X, LabelOfChoice(g, n, choice))
               /\ InStep(g, X, AtLabel(X, LabelOfChoice(g, n, choice)), f, ChosenCase(n, choice))
    <2>1. l + 2 + j - 1 = l + 1 + j
      BY <1>1, <1>3
    <2>2. PICK k, q : k = Kids(n)[j] /\ q = AtOf(g, k)
      OBVIOUS
    <2>3. k \in g.done /\ AtLabel(X, LabelOfChoice(g, n, choice)) = q /\ LabelIn(X, LabelOfChoice(g, n, choice))
      BY <1>4, <1>5, <2>1, <2>2
    <2>4. q \in DOMAIN X
      BY <2>3, FinalFacts
    <2>5. Kind(k) # "const"
      BY <1>1, <2>2, KidKinds
    <2>6. Arrives(g, X, q, Enter(k))
      BY <2>2, <2>3, <2>5, ReachesOn, Arrivals
    <2>7. InStep(g, X, q, f, Enter(k))
      BY <2>4, <2>6, InStepArrived
    <2> QED BY <1>5, <2>2, <2>3, <2>7
  <1>6. CASE choice # 0
    <2>1. choice \in DOMAIN Kids(n)
      BY <1>6 DEF CaseChoices
    <2>2. LabelOfChoice(g, n, choice) = l + 2 + choice - 1 /\ ChosenCase(n, choice) = Enter(Kids(n)[choice])
      BY <1>2, <1>6 DEF LabelOfChoice, ChosenCase
    <2> QED BY <1>5, <2>1, <2>2
  <1>7. CASE choice = 0 /\ DefaultCase(n) # {}
    <2>1. PICK j : j = CHOOSE i \in DefaultCase(n) : TRUE
      OBVIOUS
    <2>2. j \in DOMAIN Kids(n)
      BY <1>7, <2>1 DEF DefaultCase
    <2>3. LabelOfChoice(g, n, choice) = l + 2 + j - 1 /\ ChosenCase(n, choice) = Enter(Kids(n)[j])
      BY <1>2, <1>7, <2>1 DEF LabelOfChoice, ChosenCase
    <2> QED BY <1>5, <2>2, <2>3
  <1>8. CASE choice = 0 /\ DefaultCase(n) = {}
    <2>1. LabelOfChoice(g, n, choice) = l + 1 /\ ChosenCase(n, choice) = Leave(n)
      BY <1>2, <1>8 DEF LabelOfChoice, ChosenCase
    <2>2. PICK q : q = AtLabel(X, l + 1)
      OBVIOUS
    <2>3. q \in DOMAIN X
      BY <1>4, <2>2, FinalFacts
    <2>4. Arrives(g, X, q, Leave(n))
      BY <1>4, <2>2, Arrivals DEF StatementKinds
    <2>5. InStep(g, X, q, f, Leave(n))
      BY <2>3, <2>4, InStepArrived
    <2> QED BY <1>4, <2>1, <2>2, <2>5
  <1> QED BY <1>6, <1>7, <1>8

(***************************************************************************)
(* The inductive invariant of the running code.                            *)
(***************************************************************************)
RunInv ==
    /\ ~Running => flag = 0
    /\ Running => Emitted /\ ~errors /\ \E g : InStep(g, out, pc, flag, control)

(***************************************************************************)
(* Being in step depends on the tree alone.                                *)
(***************************************************************************)
LEMMA SameStep ==
    ASSUME source' = source, NEW g, NEW X, NEW p, NEW f, NEW c
    PROVE  InStep(g, X, p, f, c)' <=> InStep(g, X, p, f, c)
  <1>1. Nodes' = Nodes /\ program' = program
    BY SameTree DEF Nodes
  <1>2. \A m : TextOf(g, m)' = TextOf(g, m)
    BY SameTexts DEF TextOf
  <1>3. \A n, k : Pair(n, k)' = Pair(n, k)
    <2> SUFFICES ASSUME NEW n, NEW k PROVE Pair(n, k)' = Pair(n, k)
      OBVIOUS
    <2>1. Kind(n)' = Kind(n)
      BY SameTree
    <2> QED BY <2>1 DEF Pair, Targets, NoContinue
  <1>4. \A n : Breakables(n)' = Breakables(n)
    BY SameTree DEF Breakables, Ancestors, Loops
  <1>5. \A n, m : (Innermost(n, m)' <=> Innermost(n, m))
    BY <1>4 DEF Innermost
  <1>6. \A m : AtOf(g, m)' = AtOf(g, m) /\ ToOf(g, m)' = ToOf(g, m)
    BY <1>2 DEF AtOf, ToOf
  <1>7. \A b, l : (Describes(g, X, Len(X) + 1, b, l)' <=> Describes(g, X, Len(X) + 1, b, l))
    <2> SUFFICES ASSUME NEW b, NEW l PROVE Describes(g, X, Len(X) + 1, b, l)' <=> Describes(g, X, Len(X) + 1, b, l)
      OBVIOUS
    <2>1. PICK h : h = Len(X) + 1
      OBVIOUS
    <2>2. Describes(g, X, h, b, l)' <=> Describes(g, X, h, b, l)
      BY SameAccount
    <2> QED BY <2>1, <2>2
  <1>8. \A x : TargetsOf(x)' = TargetsOf(x)
    BY SameTree DEF TargetsOf
  <1>9. Final(g, X)' <=> Final(g, X)
    BY <1>7, <1>8 DEF Final, LabelIn, IsLabel, IsIns
  <1>10. \A n : Skipped(n)' <=> Skipped(n)
    BY SameTree DEF Skipped
  <1>11. \A n : HasCode(g, n)' <=> HasCode(g, n)
    BY SameTree, <1>1, <1>10 DEF HasCode
  <1>12. Live(g, c)' <=> Live(g, c)
    BY SameTree, <1>1, <1>5, <1>10, <1>11 DEF Live, StatementKinds, ConditionKinds
  <1>13. \A n : ConstSpot(g, n)' = ConstSpot(g, n)
    BY SameTree, <1>1 DEF ConstSpot, IsDo
  <1>14. \A n : Around(n)' = Around(n)
    BY <1>5 DEF Around
  <1>15. \A k : Exit(g, X, k)' = Exit(g, X, k) /\ Resume(g, X, k)' = Resume(g, X, k)
    BY <1>3 DEF Exit, Resume, AtLabel, IsLabel, IsIns
  <1>16. \A n : Yes(g, X, n)' = Yes(g, X, n) /\ No(g, X, n)' = No(g, X, n)
    BY DEF Yes, No, AtLabel, IsLabel, IsIns
  <1>17. Spot(g, X, c)' = Spot(g, X, c)
    BY SameTree, <1>6, <1>10, <1>13, <1>14, <1>15, <1>16 DEF Spot
  <1>18. /\ Flags(X)' = Flags(X) /\ Spots(X)' = Spots(X)
         /\ \A s, t : (Meets(X, s, t)' <=> Meets(X, s, t))
    BY DEF Flags, Spots, Meets, Leads, Closed, Goes, Next1, Next2, AtLabel, IsLabel, IsIns
  <1> QED BY <1>9, <1>12, <1>17, <1>18 DEF InStep

(***************************************************************************)
(* In step after a step.                                                   *)
(***************************************************************************)
LEMMA RunAfter ==
    ASSUME source' = source, NEW g, NEW X, NEW p, NEW f, NEW c, InStep(g, X, p, f, c),
           X = out', p = pc', f = flag', c = control', todo' = <<>>, ~errors'
    PROVE  RunInv'
  <1>1. InStep(g, X, p, f, c)'
    BY SameStep
  <1>2. Final(g, X) /\ p \in DOMAIN X
    BY DEF InStep
  <1>3. DOMAIN X = 1 .. Len(X)
    BY <1>2, FinalFacts
  <1>4. p # 0
    BY <1>2, <1>3
  <1> QED BY <1>1, <1>4 DEF RunInv, Running, Emitted

(***************************************************************************)
(* The place of a label in the text.                                       *)
(***************************************************************************)
LEMMA PlaceOfLabel ==
    ASSUME NEW g, Final(g, out), NEW v, LabelIn(out, v)
    PROVE  Place(v) = AtLabel(out, v)
  <1>1. PICK X : X = out
    OBVIOUS
  <1>2. Definitions(v) = {p \in DOMAIN X : IsLabel(X[p], v)}
    BY <1>1, FinalFacts DEF Definitions, IsLabel
  <1>3. Place(v) \in Definitions(v)
    BY <1>1, <1>2 DEF LabelIn, Place
  <1> QED BY <1>1, <1>2, <1>3, FinalFacts

(***************************************************************************)
(* The call, and the steps of the code and of the walker.                  *)
(***************************************************************************)
LEMMA CallRun == ASSUME EmitInv, RunInv, CallFunction PROVE RunInv'
  <1>1. Emitted /\ ~errors /\ Assembles /\ flag = 0
    BY DEF CallFunction, RunInv
  <1>2. PICK g : Describes(g, out, Len(out) + 1, breakables, labels) /\ g.wait = {}
    BY <1>1, EmittedFacts
  <1>3. \A p \in DOMAIN out : \A v \in TargetsOf(out[p]) : LabelIn(out, v)
    BY <1>1, DefinedOnce DEF Assembles
  <1>4. PICK X, b, l : X = out /\ b = breakables /\ l = labels
    OBVIOUS
  <1>5. Describes(g, X, Len(X) + 1, b, l)
    BY <1>2, <1>4
  <1>6. Final(g, X)
    BY <1>2, <1>3, <1>4, <1>5 DEF Final, EmitInv
  <1>7. 0 \in Flags(X)
    BY DEF Flags
  <1>8. PICK c : c = Start
    OBVIOUS
  <1>9. InStep(g, X, 1, 0, c)
    BY <1>6, <1>7, <1>8, InStepAtStart
  <1>10. source' = source /\ X = out' /\ 1 = pc' /\ 0 = flag' /\ todo' = <<>> /\ ~errors'
    BY <1>1, <1>4 DEF CallFunction, emitVars, Emitted
  <1>11. c = control'
    BY <1>8 DEF CallFunction
  <1> QED BY <1>9, <1>10, <1>11, RunAfter

(***************************************************************************)
(* An instruction that cannot be observed.                                 *)
(***************************************************************************)
LEMMA CodeRun == ASSUME EmitInv, RunInv, CodeStep PROVE RunInv'
  <1>1. Running /\ Emitted /\ ~errors
    BY DEF CodeStep, RunInv
  <1>2. PICK g, X, p, f, c : InStep(g, X, p, f, c) /\ X = out /\ p = pc /\ f = flag /\ c = control
    BY <1>1 DEF RunInv
  <1>3. Final(g, X) /\ p \in DOMAIN X /\ f \in Flags(X)
    BY <1>2 DEF InStep
  <1>4. X[p].op \notin {"DO", "TEST", "SELECT", "RTS"}
    BY <1>2 DEF CodeStep, CodeObservable, Instr
  <1>5. PICK q, e : q = Next1(X, p, f) /\ e = Next2(X, p, f)
    OBVIOUS
  <1>6. InStep(g, X, q, e, c)
    BY <1>2, <1>4, <1>5, InStepRunning
  <1>7. X[p].op \in {"LBRA", "LBNE"} => LabelIn(X, X[p].arg)
    BY <1>3 DEF Final, TargetsOf
  <1>8. X[p].op \in {"LBRA", "LBNE"} => Place(X[p].arg) = AtLabel(X, X[p].arg)
    <2>1. PICK v : v = X[p].arg
      OBVIOUS
    <2> QED BY <1>2, <1>3, <1>7, <2>1, PlaceOfLabel
  <1>9. pc' = q
    BY <1>2, <1>5, <1>8 DEF CodeStep, Instr, Next1
  <1>10. flag' = e
    BY <1>2, <1>5 DEF CodeStep, Instr, Next2
  <1>11. source' = source /\ X = out' /\ c = control' /\ todo' = <<>> /\ ~errors'
    BY <1>1, <1>2 DEF CodeStep, emitVars, Emitted
  <1> QED BY <1>6, <1>9, <1>10, <1>11, RunAfter

(***************************************************************************)
(* A step of the walker that cannot be observed.                           *)
(***************************************************************************)
LEMMA WalkRun == ASSUME EmitInv, RunInv, WalkStep PROVE RunInv'
  <1>1. Running /\ Emitted /\ ~errors /\ ~Observable
    BY DEF WalkStep, RunInv
  <1>2. PICK g, X, p, f, c : InStep(g, X, p, f, c) /\ X = out /\ p = pc /\ f = flag /\ c = control
    BY <1>1 DEF RunInv
  <1>3. ~Watched(c)
    BY <1>1, <1>2 DEF Observable, Watched
  <1>4. PICK d : d = Walked(c)
    OBVIOUS
  <1>5. InStep(g, X, p, f, d)
    BY <1>2, <1>3, <1>4, InStepWalking
  <1>6. Unobserved = d
    BY <1>2, <1>4 DEF Unobserved, Walked
  <1>7. d = control' /\ source' = source /\ X = out' /\ p = pc' /\ f = flag' /\ todo' = <<>> /\ ~errors'
    BY <1>1, <1>2, <1>6 DEF WalkStep, emitVars, Emitted, Running
  <1> QED BY <1>5, <1>7, RunAfter

(***************************************************************************)
(* When both are at something observable, the code is where the walker's   *)
(* node is.                                                                *)
(***************************************************************************)
LEMMA TogetherAt ==
    ASSUME RunInv, Running, Observable, CodeObservable
    PROVE  /\ Event = CodeEvent /\ Emitted /\ ~errors
           /\ \E g, X, n : /\ Final(g, X) /\ X = out /\ n = control.node /\ flag \in Flags(X) /\ pc \in DOMAIN X
                           /\ control.at # "end" => n \in g.done /\ pc = AtOf(g, n)
  <1>1. PICK g, X, p, f, c : InStep(g, X, p, f, c) /\ X = out /\ p = pc /\ f = flag /\ c = control
    BY DEF RunInv
  <1>2. Watched(c)
    BY <1>1 DEF Observable, Watched
  <1>3. X[p].op \in {"DO", "TEST", "SELECT", "RTS"}
    BY <1>1 DEF CodeObservable, Instr
  <1>4. InsEvent(X[p]) = EventOf(c) /\ (c.at # "end" => c.node \in g.done /\ p = AtOf(g, c.node))
    BY <1>1, <1>2, <1>3, InStepMeeting
  <1>5. Event = EventOf(c) /\ CodeEvent = InsEvent(X[p])
    BY <1>1 DEF Event, EventOf, CodeEvent, InsEvent, Instr
  <1>6. Final(g, X) /\ f \in Flags(X) /\ p \in DOMAIN X
    BY <1>1 DEF InStep
  <1> QED BY <1>1, <1>4, <1>5, <1>6 DEF RunInv

(***************************************************************************)
(* What is at the walker when both are about to do the same.               *)
(***************************************************************************)
LEMMA KindOfEvent ==
    ASSUME Observable, Event = CodeEvent, Instr.op # "RTS"
    PROVE  /\ control.at = "enter" /\ Events[Kind(control.node)] = Instr.op /\ Kind(control.node) \in DOMAIN Events
           /\ control.node = IF Instr.op = "SELECT" THEN Instr.arg.node ELSE Instr.arg
  <1>1. Event.op = CodeEvent.op /\ Event.node = CodeEvent.node
    OBVIOUS
  <1>2. control.at # "end"
    BY <1>1 DEF Event, CodeEvent
  <1> QED BY <1>1, <1>2 DEF Event, CodeEvent, Observable

(***************************************************************************)
(* An expression statement.                                                *)
(***************************************************************************)
LEMMA DoRun == ASSUME EmitInv, RunInv, DoStatement PROVE RunInv'
  <1>1. Running /\ Observable /\ CodeObservable /\ Event = CodeEvent /\ Instr.op = "DO"
    BY DEF DoStatement, Together
  <1>2. control.at = "enter" /\ Kind(control.node) = "do"
    BY <1>1, KindOfEvent DEF Events
  <1>3. PICK g, X, n : /\ Final(g, X) /\ X = out /\ n = control.node /\ flag \in Flags(X)
                       /\ n \in g.done /\ pc = AtOf(g, n)
    BY <1>1, <1>2, TogetherAt
  <1>4. PICK p, f, c : p = pc + 1 /\ f = flag /\ c = Leave(n)
    OBVIOUS
  <1>5. PICK a : a = AtOf(g, n)
    OBVIOUS
  <1>6. InStep(g, X, a + 1, f, c)
    BY <1>2, <1>3, <1>4, <1>5, InStepAfterDo
  <1>7. InStep(g, X, p, f, c)
    BY <1>3, <1>4, <1>5, <1>6
  <1>8. Emitted /\ ~errors
    BY <1>1, TogetherAt
  <1>9. source' = source /\ X = out' /\ p = pc' /\ f = flag' /\ c = control' /\ todo' = <<>> /\ ~errors'
    BY <1>3, <1>4, <1>8 DEF DoStatement, emitVars, Emitted
  <1> QED BY <1>7, <1>9, RunAfter

(***************************************************************************)
(* A test.                                                                 *)
(***************************************************************************)
LEMMA TestRun == ASSUME EmitInv, RunInv, Test PROVE RunInv'
  <1>1. Running /\ Observable /\ CodeObservable /\ Event = CodeEvent /\ Instr.op = "TEST"
    BY DEF Test, Together
  <1>2. control.at = "enter" /\ Kind(control.node) = "atom"
    BY <1>1, KindOfEvent DEF Events
  <1>3. PICK g, X, n : /\ Final(g, X) /\ X = out /\ n = control.node /\ flag \in Flags(X)
                       /\ n \in g.done /\ pc = AtOf(g, n)
    BY <1>1, <1>2, TogetherAt
  <1>4. PICK b \in {0, 1} : flag' = b /\ control' = Result(control.node, b # 0)
    BY DEF Test
  <1>5. PICK a, p, c : a = AtOf(g, n) /\ p = pc + 1 /\ c = Result(n, b # 0)
    OBVIOUS
  <1>6. InStep(g, X, a + 1, b, c)
    BY <1>2, <1>3, <1>5, InStepAfterTest
  <1>7. InStep(g, X, p, b, c)
    BY <1>3, <1>5, <1>6
  <1>8. Emitted /\ ~errors
    BY <1>1, TogetherAt
  <1>9. source' = source /\ X = out' /\ p = pc' /\ b = flag' /\ c = control' /\ todo' = <<>> /\ ~errors'
    BY <1>3, <1>4, <1>5, <1>8 DEF Test, emitVars, Emitted
  <1> QED BY <1>7, <1>9, RunAfter

(***************************************************************************)
(* The choice of a case.                                                   *)
(***************************************************************************)
LEMMA SelectRun == ASSUME EmitInv, RunInv, Select PROVE RunInv'
  <1>1. Running /\ Observable /\ CodeObservable /\ Event = CodeEvent /\ Instr.op = "SELECT"
    BY DEF Select, Together
  <1>2. control.at = "enter" /\ Kind(control.node) = "switch"
    BY <1>1, KindOfEvent DEF Events
  <1>3. PICK g, X, n : /\ Final(g, X) /\ X = out /\ n = control.node /\ flag \in Flags(X)
                       /\ n \in g.done /\ pc = AtOf(g, n)
    BY <1>1, <1>2, TogetherAt
  <1>4. PICK choice \in CaseChoices(n) : pc' = Place(CaseLabel(choice)) /\ control' = ChosenCase(n, choice)
    BY <1>3 DEF Select
  <1>5. PICK a, b : a = g.base[n] + 2 /\ b = g.base[n] + 1
    OBVIOUS
  <1>6. Instr = Ins("SELECT", [node |-> n, first |-> a, end |-> b])
    <2>1. X[AtOf(g, n)] = Ins("SELECT", [node |-> n, first |-> a, end |-> b])
      BY <1>2, <1>3, <1>5, SwitchCode
    <2> QED BY <1>3, <2>1 DEF Instr
  <1>7. Instr.arg.first = a /\ Instr.arg.end = b
    BY <1>6 DEF Ins
  <1>8. CaseLabel(choice) = LabelOfChoice(g, n, choice)
    BY <1>3, <1>5, <1>7 DEF CaseLabel, LabelOfChoice
  <1>9. PICK v, p, f, c : v = LabelOfChoice(g, n, choice) /\ p = AtLabel(X, v) /\ f = flag /\ c = ChosenCase(n, choice)
    OBVIOUS
  <1>10. LabelIn(X, v) /\ InStep(g, X, p, f, c)
    BY <1>2, <1>3, <1>9, InStepAfterSelect
  <1>11. pc' = p
    BY <1>3, <1>4, <1>8, <1>9, <1>10, PlaceOfLabel
  <1>12. Emitted /\ ~errors
    BY <1>1, TogetherAt
  <1>13. source' = source /\ X = out' /\ f = flag' /\ c = control' /\ todo' = <<>> /\ ~errors'
    BY <1>3, <1>4, <1>9, <1>12 DEF Select, emitVars, Emitted
  <1> QED BY <1>10, <1>11, <1>13, RunAfter

(***************************************************************************)
(* Nothing runs.                                                           *)
(***************************************************************************)
LEMMA IdleRun == ASSUME RunInv, ~Running', flag' = 0 PROVE RunInv'
  BY DEF RunInv

(***************************************************************************)
(* The invariant of the running code is kept by every step.                *)
(***************************************************************************)
LEMMA NextRun == ASSUME EmitInv, RunInv, [Next]_vars PROVE RunInv'
  <1>1. CASE Emit
    <2>1. todo # <<>> /\ pc' = pc /\ flag' = flag
      BY <1>1 DEF Emit, EmitIns, EmitEnd, EmitPrimitive, EmitSequence, EmitIf, EmitWhile, EmitFor, EmitSwitch, EmitCase, EmitJump,
                  ReportJump, EmitReturn, EmitGoto, EmitLabeled, EmitBoolJumps, NoJump, NoPush, NoEmit, Emitting, EmittingTree
    <2>2. ~Running /\ flag = 0
      BY <2>1 DEF RunInv, Emitted
    <2>3. ~Running' /\ flag' = 0
      BY <2>1, <2>2 DEF Running
    <2> QED BY <2>3, IdleRun
  <1>2. CASE Return
    <2>1. ~Running' /\ flag' = 0
      BY <1>2 DEF Return, Running
    <2> QED BY <2>1, IdleRun
  <1>3. CASE UNCHANGED vars
    <2>1. source' = source /\ out' = out /\ pc' = pc /\ flag' = flag /\ control' = control /\ todo' = todo /\ errors' = errors
      BY <1>3 DEF vars, emitVars
    <2>2. CASE ~Running
      BY <2>1, <2>2, IdleRun DEF Running, RunInv
    <2>3. CASE Running
      <3>1. Emitted /\ ~errors
        BY <2>3 DEF RunInv
      <3>2. PICK g, X, p, f, c : InStep(g, X, p, f, c) /\ X = out /\ p = pc /\ f = flag /\ c = control
        BY <2>3 DEF RunInv
      <3>3. X = out' /\ p = pc' /\ f = flag' /\ c = control' /\ todo' = <<>> /\ ~errors'
        BY <2>1, <2>3, <3>1, <3>2 DEF Emitted, Running
      <3> QED BY <2>1, <3>2, <3>3, RunAfter
    <2> QED BY <2>2, <2>3
  <1> QED BY <1>1, <1>2, <1>3, CallRun, CodeRun, WalkRun, DoRun, TestRun, SelectRun DEF Next

(***************************************************************************)
(* It says that code and source do the same.                               *)
(***************************************************************************)
LEMMA BehaviourInv == RunInv => SameBehaviour
  BY TogetherAt DEF SameBehaviour

(***************************************************************************)
(* From the call to the return, the emitted code and the source are in     *)
(* step: the inductive invariant of a run.                                 *)
(***************************************************************************)
THEOREM RunInStep == Spec => []RunInv
  <1>1. Init => RunInv
    BY DEF Init, RunInv, Running
  <1>2. EmitInv /\ RunInv /\ [Next]_vars => RunInv'
    BY NextRun
  <1> QED BY <1>1, <1>2, EmissionAccounted, PTL DEF Spec

(***************************************************************************)
(* The emitted code of every function does the statements, tests and       *)
(* choices of the source in the order of C (emitCode of the statements,    *)
(* emitBoolJumps).                                                         *)
(***************************************************************************)
THEOREM BehaviourIsSame == Spec => []SameBehaviour
  BY RunInStep, BehaviourInv, PTL
=============================================================================
