--------------------------- MODULE MCStatementCode ---------------------------
(***************************************************************************)
(* Functions of the form                                                   *)
(*     outer { inner { if (..) jump; ..; }  if (..) jump; }  L: ..;        *)
(* for each kind of outer and inner statement, each kind of condition and  *)
(* each kind of jump.  Every operator has the depth and the role of the    *)
(* tree that it writes.                                                    *)
(***************************************************************************)
EXTENDS StatementCode, SequencesExt, FiniteSetsExt

N(d, role, kind, tag) == <<[depth |-> d, role |-> role, kind |-> kind, tag |-> tag]>>
S(d, role) == N(d, role, "do", 0)
Atom(d, role) == N(d, role, "atom", 0)
Jump(d, role, k) == N(d, role, <<"break", "continue", "return", "goto">>[k + 1], 1)
If(d, role, k) == N(d, role, "if", 0) \o Atom(d + 1, "cond") \o Jump(d + 1, "then", k)

(***************************************************************************)
(* ..      0      1      .. || .. && ! ..                                  *)
(***************************************************************************)
Condition(d, role, k) ==
    CASE k = 0 -> Atom(d, role)
      [] k \in {1, 2} -> N(d, role, "const", k - 1)
      [] k = 3 -> N(d, role, "or", 0) \o Atom(d + 1, "left")
                  \o N(d + 1, "right", "and", 0) \o Atom(d + 2, "left")
                  \o N(d + 2, "right", "not", 0) \o Atom(d + 3, "left")

Body(d, role, jump) == N(d, role, "block", 0) \o If(d + 1, "item", jump) \o S(d + 1, "item")
Inner(d, role, k, c, jump) ==
    CASE k \in {0, 1} -> N(d, role, "while", k) \o Condition(d + 1, "cond", c)
                         \o Body(d + 1, "body", jump)
      [] k = 2 -> N(d, role, "if", 0) \o Condition(d + 1, "cond", c)
                  \o Body(d + 1, "then", jump) \o Jump(d + 1, "else", jump)
      [] k = 3 /\ c = 0 -> N(d, role, "for", 0) \o Body(d + 1, "body", jump)
      [] k = 3 /\ c \in {1, 3} ->
             N(d, role, "for", 0) \o S(d + 1, "init") \o Condition(d + 1, "cond", c)
             \o S(d + 1, "incr") \o Body(d + 1, "body", jump)
      [] k = 3 /\ c = 2 ->
             N(d, role, "switch", 0) \o N(d + 1, "item", "case", 0) \o S(d + 2, "item")
             \o N(d + 1, "item", "case", 0)
             \o N(d + 1, "item", "case", 1) \o If(d + 2, "item", jump) \o Jump(d + 2, "item", jump)

Text(d, role, k, c, inside, outside) ==
    N(d, role, "block", 0) \o Inner(d + 1, "item", k, c, inside) \o If(d + 1, "item", outside)

(***************************************************************************)
(* The outer statement: while (..), while (1), do-while (..), do-while (0),*)
(* for, a switch with the rest as its default or as a case, and none.      *)
(***************************************************************************)
Outer(d, k, text(_, _)) ==
    CASE k \in {0, 1} -> N(d, "item", "while", 0) \o Condition(d + 1, "cond", 2 * k) \o text(d + 1, "body")
      [] k \in {2, 3} -> N(d, "item", "while", 1) \o Condition(d + 1, "cond", k - 2) \o text(d + 1, "body")
      [] k = 4 -> N(d, "item", "for", 0) \o S(d + 1, "init") \o Atom(d + 1, "cond")
                  \o S(d + 1, "incr") \o text(d + 1, "body")
      [] k \in {5, 6} -> N(d, "item", "switch", 0) \o N(d + 1, "item", "case", 6 - k)
                         \o text(d + 2, "item") \o N(d + 1, "item", "case", 0) \o S(d + 2, "item")
      [] k = 7 -> text(d, "item")

(***************************************************************************)
(* Program i of all: the digits of i choose the parts.  The label of the   *)
(* gotos is at the end of the function, or in a branch that is removed.    *)
(***************************************************************************)
Target(removed) == IF removed THEN N(1, "item", "if", 0) \o N(2, "cond", "const", 0)
                                   \o N(2, "then", "label", 1) \o S(3, "body")
                   ELSE N(1, "item", "label", 1) \o S(2, "body")
Program(i) ==
    N(0, "root", "block", 0)
    \o Outer(1, (i \div 128) % 8,
             LAMBDA d, role : Text(d, role, i % 4, (i \div 4) % 4, (i \div 16) % 4, (i \div 64) % 2))
    \o Target(i >= 1024)
AllPrograms == [i \in 1 .. 2048 |-> Program(i - 1)]

(***************************************************************************)
(* The tree of a text: the parent, the children and the last node of each  *)
(* node follow from the depths.                                            *)
(***************************************************************************)
Evaluated(s) == Tail(<<0>> \o s)  \* so that TLC evaluates the elements only once
Upward(t, n) == IF n = 1 THEN 0 ELSE Max({m \in 1 .. (n - 1) : t[m].depth = t[n].depth - 1})
TreeOf(t) ==
    LET up == Evaluated([n \in DOMAIN t |-> Upward(t, n)])
    IN  Evaluated([n \in DOMAIN t |->
            [up |-> up[n], kids |-> SetToSortSeq({k \in DOMAIN t : up[k] = n}, <),
             last |-> Max({m \in n .. Len(t) : \A k \in (n + 1) .. m : t[k].depth > t[n].depth}),
             role |-> t[n].role, kind |-> t[n].kind, tag |-> t[n].tag]])
AllTrees == Evaluated([i \in DOMAIN AllPrograms |-> TreeOf(AllPrograms[i])])
MCPrograms == AllTrees
=============================================================================
