--------------------------- MODULE PeepholeProofs ---------------------------
(***************************************************************************)
(* Proofs about Peephole, for every program that the compiler may generate *)
(* and every width of a byte: the text assembles after every rewriting,    *)
(* the passes come to an end, and no rule applies any more when they do.   *)
(*                                                                         *)
(* Every rule but one is a patch: it leaves the labels alone, gives no     *)
(* branch a target that none had, and raises no rank.                      *)
(***************************************************************************)
EXTENDS Peephole, SequenceTheorems, FiniteSetTheorems, WellFoundedInduction, TLAPS

-----------------------------------------------------------------------------
(* A non-empty set of natural numbers has a least element.                 *)
LEMMA LeastNatural ==
  ASSUME NEW S \in SUBSET Nat, S # {}
  PROVE  \E m \in S : \A k \in S : m <= k
<1> DEFINE R == OpToRel(<, Nat)
<1>1. IsWellFoundedOn(R, Nat)
  BY NatLessThanWellFounded, Zenon
<1>2. \A x, y \in Nat : x < y => <<x, y>> \in R
  BY DEF OpToRel
<1> HIDE DEF R
<1>3. PICK m \in S : \A y \in S : ~ (<<y, m>> \in R)
  BY <1>1, WFMin
<1>4. \A k \in S : m <= k
  <2> TAKE k \in S
  <2>1. m \in Nat /\ k \in Nat
    OBVIOUS
  <2>2. ~ (k < m)
    BY <1>2, <1>3, <2>1
  <2> QED BY <2>1, <2>2
<1> QED BY <1>4

-----------------------------------------------------------------------------
(* Texts that assemble.                                                    *)

HasLabel(c, l)  == \E j \in DOMAIN c : c[j].t = "LABEL" /\ c[j].v = l
HasBranch(c, l) == \E j \in DOMAIN c : IsBranch(c[j]) /\ c[j].v = l

Assembles(c) == \A k \in DOMAIN c : IsBranch(c[k]) => HasLabel(c, c[k].v)

(* What a text is, and how to show that something is one.                  *)
LEMMA TextIs ==
  ASSUME NEW c, IsText(c)
  PROVE  /\ Len(c) \in Nat /\ DOMAIN c = 1 .. Len(c)
         /\ c = [k \in 1 .. Len(c) |-> c[k]]
         /\ \A k \in DOMAIN c : IsElement(c[k])
BY DEF IsText

LEMMA TextFrom ==
  ASSUME NEW n \in Nat, NEW d, DOMAIN d = 1 .. n, d = [k \in 1 .. n |-> d[k]],
         \A k \in 1 .. n : IsElement(d[k])
  PROVE  IsText(d) /\ Len(d) = n
<1> DEFINE S == Range(d)
<1>1. \A k \in 1 .. n : d[k] \in S
  BY DEF Range
<1> HIDE DEF S
<1>2. d \in [1 .. n -> S]
  BY <1>1
<1>3. d \in Seq(S) /\ Len(d) = n
  BY <1>2
<1> QED BY <1>3 DEF IsText, S

(* A label that an element bears is found.                                 *)
LEMMA LabelIsFound ==
  ASSUME NEW c, IsText(c), NEW l, HasLabel(c, l)
  PROVE  LabelIndex(c, l) # 0
<1> DEFINE hits == {k \in 1 .. Len(c) : c[k].t = "LABEL" /\ c[k].v = l}
<1>1. hits # {} /\ hits \in SUBSET Nat
  BY TextIs DEF HasLabel
<1>2. LabelIndex(c, l) = Min(hits)
  BY <1>1 DEF LabelIndex, FirstOf
<1>3. PICK m \in hits : \A k \in hits : m <= k
  <2> HIDE DEF hits
  <2> QED BY <1>1, LeastNatural
<1>4. Min(hits) \in hits
  <2> HIDE DEF hits
  <2> QED BY <1>3 DEF Min
<1> QED BY <1>2, <1>4

(* NextInstrBeforeLabel() finds an instruction.                            *)
LEMMA NextIsInstr ==
  ASSUME NEW c, IsText(c), NEW i \in Nat \ {0}, NextInstrBeforeLabel(c, i) # 0
  PROVE  /\ NextInstrBeforeLabel(c, i) \in DOMAIN c
         /\ NextInstrBeforeLabel(c, i) >= i
         /\ IsIns(c[NextInstrBeforeLabel(c, i)])
<1> DEFINE hits == {k \in i .. Len(c) : IsIns(c[k])}
<1>1. hits # {} /\ NextInstrBeforeLabel(c, i) = Min(hits)
  BY DEF NextInstrBeforeLabel, FirstOf
<1>2. hits \in SUBSET Nat /\ \A k \in hits : k \in DOMAIN c /\ k >= i /\ IsIns(c[k])
  BY TextIs
<1>3. Min(hits) \in hits
  <2> HIDE DEF hits
  <2>1. PICK m \in hits : \A k \in hits : m <= k
    BY <1>1, <1>2, LeastNatural
  <2> QED BY <2>1 DEF Min
<1> HIDE DEF hits
<1> QED BY <1>1, <1>2, <1>3

-----------------------------------------------------------------------------
(* Patches.                                                                *)

Patched(c, d) ==
  /\ IsText(d)
  /\ DOMAIN d = DOMAIN c
  /\ \A k \in DOMAIN c :
       d[k] # c[k] => /\ c[k].t # "LABEL"
                      /\ IsBranch(d[k]) => HasBranch(c, d[k].v)
                      /\ Rank(d[k]) <= Rank(c[k])

(* A patch that leaves less to do.                                         *)
Lowered(c, d) == Patched(c, d) /\ \E k \in DOMAIN c : Rank(d[k]) < Rank(c[k])

(* The rank of an element is a number, zero for those that are no          *)
(* instruction, and one for most of the others.                            *)
LEMMA RankIs ==
  ASSUME NEW e
  PROVE  /\ Rank(e) \in 0 .. 3
         /\ ~ IsIns(e) => Rank(e) = 0
         /\ IsIns(e) => Rank(e) >= 1
         /\ ~ IsBranch(e) /\ ~ (e.op = "LD" /\ e.r = "D" /\ e.m = "#$") => Rank(e) <= 1
BY DEF Rank, IsBranch

LEMMA PatchAssembles ==
  ASSUME NEW c, NEW d, Assembles(c), Patched(c, d)
  PROVE  Assembles(d)
<1> SUFFICES ASSUME NEW k \in DOMAIN d, IsBranch(d[k]) PROVE HasLabel(d, d[k].v)
  BY DEF Assembles
<1>1. HasBranch(c, d[k].v)
  BY DEF Patched, HasBranch
<1>2. PICK j \in DOMAIN c : c[j].t = "LABEL" /\ c[j].v = d[k].v
  BY <1>1 DEF HasBranch, Assembles, HasLabel
<1>3. d[j] = c[j]
  BY <1>2 DEF Patched
<1> QED BY <1>2, <1>3 DEF HasLabel, Patched

LEMMA PatchAgain ==
  ASSUME NEW c, NEW d, NEW e, Patched(c, d), Patched(d, e)
  PROVE  Patched(c, e)
<1>1. ASSUME NEW l, HasBranch(d, l) PROVE HasBranch(c, l)
  <2>1. PICK j \in DOMAIN d : IsBranch(d[j]) /\ d[j].v = l
    BY <1>1 DEF HasBranch
  <2> QED BY <2>1 DEF Patched, HasBranch
<1>2. ASSUME NEW k \in DOMAIN c, e[k] # c[k]
      PROVE  c[k].t # "LABEL" /\ (IsBranch(e[k]) => HasBranch(c, e[k].v)) /\ Rank(e[k]) <= Rank(c[k])
  <2>1. CASE d[k] = c[k]
    BY <1>1, <1>2, <2>1 DEF Patched
  <2>2. CASE d[k] # c[k]
    <3>1. c[k].t # "LABEL"
      BY <2>2 DEF Patched
    <3>2. CASE e[k] = d[k]
      BY <2>2, <3>1, <3>2 DEF Patched
    <3>3. CASE e[k] # d[k]
      <4>1. Rank(e[k]) <= Rank(d[k]) /\ Rank(d[k]) <= Rank(c[k])
        BY <2>2, <3>3 DEF Patched
      <4>2. Rank(e[k]) <= Rank(c[k])
        BY <4>1, RankIs
      <4> QED BY <1>1, <3>1, <3>3, <4>2 DEF Patched
    <3> QED BY <3>2, <3>3
  <2> QED BY <2>1, <2>2
<1> QED BY <1>2 DEF Patched

(* A patch, and then one that leaves less to do.                           *)
LEMMA LoweredAfter ==
  ASSUME NEW c, NEW d, NEW e, Patched(c, d), Lowered(d, e)
  PROVE  Lowered(c, e)
<1>1. PICK k \in DOMAIN c : Rank(e[k]) < Rank(d[k])
  BY DEF Lowered, Patched
<1>2. Rank(d[k]) <= Rank(c[k])
  BY RankIs DEF Patched
<1>3. Rank(e[k]) < Rank(c[k])
  BY <1>1, <1>2, RankIs
<1> QED BY <1>3, PatchAgain DEF Lowered

(* A patch from what each element becomes.                                 *)
LEMMA PatchFrom ==
  ASSUME NEW c, IsText(c), NEW d, DOMAIN d = DOMAIN c, d = [k \in DOMAIN c |-> d[k]],
         \A k \in DOMAIN c :
           d[k] # c[k] => /\ c[k].t # "LABEL"
                          /\ IsElement(d[k])
                          /\ IsBranch(d[k]) => HasBranch(c, d[k].v)
                          /\ Rank(d[k]) <= Rank(c[k])
  PROVE  Patched(c, d)
<1>1. \A k \in 1 .. Len(c) : IsElement(d[k])
  BY TextIs
<1>2. IsText(d)
  BY <1>1, TextIs, TextFrom
<1> QED BY <1>2 DEF Patched

LEMMA PatchOne ==
  ASSUME NEW c, IsText(c), NEW i \in DOMAIN c, NEW e, IsElement(e),
         c[i].t # "LABEL", IsBranch(e) => HasBranch(c, e.v), Rank(e) <= Rank(c[i])
  PROVE  /\ Patched(c, [c EXCEPT ![i] = e])
         /\ Rank(e) < Rank(c[i]) => Lowered(c, [c EXCEPT ![i] = e])
<1> DEFINE d == [c EXCEPT ![i] = e]
<1>1. DOMAIN d = DOMAIN c /\ d = [k \in DOMAIN c |-> d[k]]
  BY TextIs
<1>2. \A k \in DOMAIN c : d[k] = IF k = i THEN e ELSE c[k]
  BY TextIs
<1> HIDE DEF d
<1>3. Patched(c, d)
  BY <1>1, <1>2, PatchFrom
<1> QED BY <1>2, <1>3 DEF d, Lowered

LEMMA CommentedIs ==
  ASSUME NEW e, IsElement(e)
  PROVE  /\ IsElement(CommentedOut(e)) /\ CommentedOut(e).t = "COMMENT" /\ CommentedOut(e).v = e.v
         /\ Rank(CommentedOut(e)) = 0
<1>1. DOMAIN CommentedOut(e) = DOMAIN e
  BY DEF CommentedOut
<1>2. CommentedOut(e).t = "COMMENT" /\ CommentedOut(e).v = e.v
  BY DEF IsElement, CommentedOut
<1> QED BY <1>1, <1>2, RankIs DEF IsElement, IsIns

LEMMA PatchComments ==
  ASSUME NEW c, IsText(c), NEW places,
         \A k \in DOMAIN c : k \in places => c[k].t # "LABEL"
  PROVE  /\ Patched(c, CommentOut(c, places))
         /\ (\E k \in DOMAIN c : k \in places /\ IsIns(c[k])) => Lowered(c, CommentOut(c, places))
<1> DEFINE d == CommentOut(c, places)
<1>1. /\ DOMAIN d = DOMAIN c
      /\ d = [k \in DOMAIN c |-> d[k]]
      /\ \A k \in DOMAIN c : d[k] = IF k \in places THEN CommentedOut(c[k]) ELSE c[k]
  BY DEF CommentOut
<1> HIDE DEF d
<1>2. ASSUME NEW k \in DOMAIN c, d[k] # c[k]
      PROVE  c[k].t # "LABEL" /\ IsElement(d[k]) /\ ~ IsBranch(d[k]) /\ Rank(d[k]) = 0
  BY <1>1, <1>2, TextIs, CommentedIs DEF IsBranch, IsIns
<1>3. Patched(c, d)
  BY <1>1, <1>2, PatchFrom, RankIs
<1>4. ASSUME NEW k \in DOMAIN c, k \in places, IsIns(c[k]) PROVE Rank(d[k]) < Rank(c[k])
  BY <1>1, <1>4, TextIs, CommentedIs, RankIs
<1> QED BY <1>3, <1>4 DEF d, Lowered

(* Insert() moves the elements from i on.                                  *)
LEMMA InsertPlaces ==
  ASSUME NEW c, IsText(c), NEW i \in DOMAIN c, NEW e, IsElement(e)
  PROVE  /\ IsText(Insert(c, i, e))
         /\ DOMAIN Insert(c, i, e) = 1 .. Len(c) + 1
         /\ Insert(c, i, e)[i] = e
         /\ \A k \in 1 .. i - 1 : Insert(c, i, e)[k] = c[k]
         /\ \A k \in i .. Len(c) : Insert(c, i, e)[k + 1] = c[k]
<1> DEFINE n == Len(c)
           S == Range(c) \union {e}
           a == SubSeq(c, 1, i - 1)
           b == SubSeq(c, i, n)
           f == a \o <<e>>
           d == Insert(c, i, e)
<1>1. n \in Nat /\ i \in 1 .. n /\ DOMAIN c = 1 .. n
  BY TextIs
<1>2. c \in Seq(S) /\ e \in S
  BY DEF IsText
<1>3. d = f \o b
  BY DEF Insert
<1>4. /\ a \in Seq(S) /\ Len(a) = i - 1
      /\ \A k \in 1 .. i - 1 : a[k] = c[k]
  <2> HIDE DEF S, n
  <2> QED BY <1>1, <1>2
<1>5. /\ b \in Seq(S) /\ Len(b) = n - i + 1
      /\ \A k \in 1 .. n - i + 1 : b[k] = c[i + k - 1]
  <2> HIDE DEF S
  <2> QED BY <1>1, <1>2
<1> HIDE DEF S, n, a, b, d
<1>6. /\ f \in Seq(S) /\ Len(f) = i
      /\ \A k \in 1 .. i - 1 : f[k] = c[k]
      /\ f[i] = e
  BY <1>1, <1>2, <1>4
<1> HIDE DEF f
<1>7. /\ d \in Seq(S) /\ Len(d) = Len(f) + Len(b)
      /\ \A k \in 1 .. Len(f) + Len(b) : d[k] = IF k <= Len(f) THEN f[k] ELSE b[k - Len(f)]
  <2>1. f \in Seq(S) /\ b \in Seq(S)
    BY <1>5, <1>6
  <2> QED BY <1>3, <2>1, ConcatProperties
<1>8. d \in Seq(S) /\ Len(d) = n + 1
  BY <1>1, <1>5, <1>6, <1>7
<1>9. \A k \in 1 .. i : d[k] = f[k]
  <2> TAKE k \in 1 .. i
  <2>1. k \in 1 .. Len(f) + Len(b) /\ k <= Len(f)
    BY <1>1, <1>5, <1>6
  <2> QED BY <1>7, <2>1
<1>10. \A k \in 1 .. n - i + 1 : d[i + k] = b[k]
  <2> TAKE k \in 1 .. n - i + 1
  <2>1. i + k \in 1 .. Len(f) + Len(b) /\ ~ (i + k <= Len(f)) /\ (i + k) - Len(f) = k
    BY <1>1, <1>5, <1>6
  <2> QED BY <1>7, <2>1
<1>11. d[i] = e /\ \A k \in 1 .. i - 1 : d[k] = c[k]
  BY <1>1, <1>6, <1>9
<1>12. \A k \in i .. n : d[k + 1] = c[k]
  <2> TAKE k \in i .. n
  <2>1. k - i + 1 \in 1 .. n - i + 1 /\ i + (k - i + 1) = k + 1 /\ i + (k - i + 1) - 1 = k
    BY <1>1
  <2> QED BY <1>5, <1>10, <2>1
<1>13. DOMAIN d = 1 .. n + 1 /\ d = [k \in 1 .. n + 1 |-> d[k]]
  BY <1>1, <1>8
<1>14. ASSUME NEW j \in 1 .. n + 1 PROVE IsElement(d[j])
  <2>1. CASE j < i
    BY <1>1, <1>11, <2>1, TextIs
  <2>2. CASE j = i
    BY <1>11, <2>2
  <2>3. CASE j > i
    <3>1. j - 1 \in i .. n /\ (j - 1) + 1 = j /\ j - 1 \in 1 .. n
      BY <1>1, <2>3
    <3> QED BY <1>1, <1>12, <3>1, TextIs
  <2> QED BY <1>1, <2>1, <2>2, <2>3
<1>15. IsText(d)
  BY <1>1, <1>13, <1>14, TextFrom
<1> QED BY <1>11, <1>12, <1>13, <1>15 DEF d, n

(* It adds one element and drops none.                                     *)
LEMMA InsertIs ==
  ASSUME NEW c, IsText(c), NEW i \in DOMAIN c, NEW e, IsElement(e)
  PROVE  /\ \A k \in DOMAIN c : \E j \in DOMAIN Insert(c, i, e) : Insert(c, i, e)[j] = c[k]
         /\ \A j \in DOMAIN Insert(c, i, e) :
              Insert(c, i, e)[j] = e \/ \E k \in DOMAIN c : Insert(c, i, e)[j] = c[k]
<1> DEFINE n == Len(c)
           d == Insert(c, i, e)
<1>1. n \in Nat /\ i \in 1 .. n /\ DOMAIN c = 1 .. n
  BY TextIs
<1>2. DOMAIN d = 1 .. n + 1 /\ d[i] = e /\ (\A k \in 1 .. i - 1 : d[k] = c[k]) /\ \A k \in i .. n : d[k + 1] = c[k]
  BY InsertPlaces
<1> HIDE DEF n, d
<1>3. ASSUME NEW k \in 1 .. n PROVE \E j \in 1 .. n + 1 : d[j] = c[k]
  <2>1. CASE k < i
    BY <1>1, <1>2, <2>1
  <2>2. CASE k >= i
    BY <1>1, <1>2, <2>2
  <2> QED BY <1>1, <2>1, <2>2
<1>4. ASSUME NEW j \in 1 .. n + 1 PROVE d[j] = e \/ \E k \in 1 .. n : d[j] = c[k]
  <2>1. CASE j < i
    BY <1>1, <1>2, <2>1
  <2>2. CASE j = i
    BY <1>2, <2>2
  <2>3. CASE j > i
    <3>1. j - 1 \in i .. n /\ (j - 1) + 1 = j /\ j - 1 \in 1 .. n
      BY <1>1, <2>3
    <3> QED BY <1>2, <3>1
  <2> QED BY <1>1, <2>1, <2>2, <2>3
<1> QED BY <1>1, <1>2, <1>3, <1>4 DEF d

(* The instructions that the rules put into the text.                      *)
LEMMA InsIs ==
  ASSUME NEW op, NEW r, NEW m, NEW v, op \notin Branches
  PROVE  /\ IsElement(Ins(op, r, m, v)) /\ ~ IsBranch(Ins(op, r, m, v))
         /\ op # "LD" \/ r # "D" => Rank(Ins(op, r, m, v)) = 1
BY DEF IsElement, Ins, Element, IsBranch, Rank, IsIns

LEMMA InsIsIns ==
  ASSUME NEW op, NEW r, NEW m, NEW v
  PROVE  IsIns(Ins(op, r, m, v))
BY DEF IsIns, Ins, Element

LEMMA BecomesAdd ==
  ASSUME NEW e, IsElement(e)
  PROVE  /\ IsElement([e EXCEPT !.op = "ADD"]) /\ ~ IsBranch([e EXCEPT !.op = "ADD"])
         /\ Rank([e EXCEPT !.op = "ADD"]) <= 1
<1> DEFINE f == [e EXCEPT !.op = "ADD"]
<1>1. DOMAIN f = DOMAIN e /\ f.op = "ADD"
  BY DEF IsElement
<1>2. "ADD" \notin Branches
  BY DEF Branches
<1>3. ~ IsBranch(f) /\ f.op # "LD"
  BY <1>1, <1>2 DEF IsBranch
<1> HIDE DEF f
<1>4. Rank(f) <= 1
  BY <1>3, RankIs
<1> QED BY <1>1, <1>3, <1>4 DEF IsElement, f

(* What Merged() makes.                                                    *)
LEMMA MergedPatches ==
  ASSUME NEW c, IsText(c), NEW i \in DOMAIN c, NEW e, NEW n \in Nat \ {0}, i + n <= Len(c),
         IsElement(e), ~ IsBranch(e), Rank(e) <= 1,
         IsIns(c[i]), \A k \in DOMAIN c : k \in i + 1 .. i + n => IsIns(c[k])
  PROVE  Lowered(c, CommentOut([c EXCEPT ![i] = e], i + 1 .. i + n))
<1> DEFINE d == [c EXCEPT ![i] = e]
           f == CommentOut(d, i + 1 .. i + n)
<1>1. i \in Nat
  BY TextIs
<1>2. Patched(c, d)
  <2>1. Rank(e) <= Rank(c[i])
    BY RankIs
  <2> QED BY <2>1, PatchOne DEF IsIns
<1>3. ASSUME NEW k \in DOMAIN d, k \in i + 1 .. i + n PROVE IsIns(d[k])
  <2>1. k # i /\ k \in DOMAIN c
    BY <1>1, <1>3
  <2>2. d[k] = c[k]
    BY <2>1
  <2> QED BY <1>3, <2>1, <2>2
<1>4. i + 1 \in DOMAIN d /\ i + 1 \in i + 1 .. i + n
  BY <1>1, TextIs
<1>5. Lowered(d, f)
  <2> HIDE DEF d
  <2> QED BY <1>2, <1>3, <1>4, PatchComments DEF Patched, IsIns
<1> HIDE DEF d, f
<1>6. Lowered(c, f)
  BY <1>2, <1>5, LoweredAfter
<1> QED BY <1>6 DEF d, f

-----------------------------------------------------------------------------
(* The rewritings that are left, counted.                                  *)

Left(c) == Cardinality(RewritingsLeft(c))

LEMMA LeftIs ==
  ASSUME NEW c, IsText(c)
  PROVE  IsFiniteSet(RewritingsLeft(c)) /\ Left(c) \in Nat
<1> DEFINE S == (1 .. Len(c)) \X (1 .. 3)
<1>1. IsFiniteSet(1 .. Len(c)) /\ IsFiniteSet(1 .. 3)
  <2>1. \A n \in Nat : IsFiniteSet(1 .. n)
    BY FS_Interval
  <2> QED BY <2>1, TextIs
<1>2. IsFiniteSet(S)
  BY <1>1, FS_Product
<1>3. RewritingsLeft(c) \in SUBSET S
  BY TextIs DEF RewritingsLeft
<1> HIDE DEF S
<1>4. IsFiniteSet(RewritingsLeft(c))
  BY <1>2, <1>3, FS_Subset
<1> QED BY <1>4, FS_CardinalityType DEF Left

(* Fewer are left when those of d are some of c but not all, each counted  *)
(* at another place.                                                       *)
LEMMA FewerLeft ==
  ASSUME NEW c, IsText(c), NEW d, IsText(d), NEW x \in RewritingsLeft(c),
         NEW f \in [RewritingsLeft(d) -> RewritingsLeft(c) \ {x}],
         \A p, q \in RewritingsLeft(d) : f[p] = f[q] => p = q
  PROVE  Left(d) < Left(c)
<1> DEFINE S == RewritingsLeft(c) \ {x}
<1>1. IsFiniteSet(S) /\ Cardinality(S) = Left(c) - 1
  BY LeftIs, FS_RemoveElement DEF Left
<1>2. f \in Injection(RewritingsLeft(d), S)
  BY DEF Injection, IsInjective
<1> HIDE DEF S
<1>3. Left(d) <= Cardinality(S)
  BY <1>1, <1>2, FS_Injection DEF Left
<1> QED BY <1>1, <1>3, LeftIs

LEMMA LoweredLeavesFewer ==
  ASSUME NEW c, IsText(c), NEW d, Lowered(c, d)
  PROVE  Left(d) < Left(c)
<1>1. \A k \in DOMAIN c : Rank(c[k]) \in 0 .. 3 /\ Rank(d[k]) \in 0 .. 3 /\ Rank(d[k]) <= Rank(c[k])
  BY RankIs DEF Lowered, Patched
<1>2. IsText(d) /\ DOMAIN d = DOMAIN c
  BY DEF Lowered, Patched
<1>3. PICK k \in DOMAIN c : Rank(d[k]) < Rank(c[k])
  BY DEF Lowered
<1> DEFINE x == <<k, Rank(c[k])>>
           f == [q \in RewritingsLeft(d) |-> q]
<1>4. x \in RewritingsLeft(c) /\ x \notin RewritingsLeft(d)
  BY <1>1, <1>3 DEF RewritingsLeft
<1>5. RewritingsLeft(d) \subseteq RewritingsLeft(c)
  BY <1>1, <1>2 DEF RewritingsLeft
<1> HIDE DEF x
<1>6. f \in [RewritingsLeft(d) -> RewritingsLeft(c) \ {x}] /\ \A p, q \in RewritingsLeft(d) : f[p] = f[q] => p = q
  BY <1>4, <1>5
<1> HIDE DEF f
<1> QED BY <1>2, <1>4, <1>6, FewerLeft

(* An element of rank three becomes two of rank one.                       *)
LEMMA SplitLeavesFewer ==
  ASSUME NEW c, IsText(c), NEW i \in DOMAIN c, Rank(c[i]) = 3,
         NEW e, IsElement(e), Rank(e) = 1, NEW g, IsElement(g), Rank(g) = 1,
         IsText([c EXCEPT ![i] = e])
  PROVE  Left(Insert([c EXCEPT ![i] = e], i, g)) < Left(c)
<1> DEFINE d == Insert([c EXCEPT ![i] = e], i, g)
           R == RewritingsLeft(d)
           f == [q \in R |-> IF q[1] = i THEN <<i, 2>> ELSE IF q[1] > i THEN <<q[1] - 1, q[2]>> ELSE q]
           x == <<i, 3>>
<1>1. Len(c) \in Nat /\ DOMAIN c = 1 .. Len(c) /\ i \in 1 .. Len(c)
  BY TextIs
<1>2. Len([c EXCEPT ![i] = e]) = Len(c) /\ DOMAIN [c EXCEPT ![i] = e] = DOMAIN c
  BY <1>1, TextIs
<1>3. /\ IsText(d) /\ DOMAIN d = 1 .. Len(c) + 1
      /\ d[i] = g /\ d[i + 1] = e
      /\ \A k \in 1 .. i - 1 : d[k] = c[k]
      /\ \A k \in i + 1 .. Len(c) : d[k + 1] = c[k]
  <2>1. PICK b : b = [c EXCEPT ![i] = e]
    OBVIOUS
  <2>2. IsText(b) /\ i \in DOMAIN b /\ Len(b) = Len(c) /\ d = Insert(b, i, g)
    BY <1>2, <2>1
  <2>3. b[i] = e /\ \A k \in DOMAIN c : k # i => b[k] = c[k]
    BY <2>1
  <2> HIDE DEF d
  <2>4. /\ IsText(d) /\ DOMAIN d = 1 .. Len(c) + 1
        /\ d[i] = g
        /\ \A k \in 1 .. i - 1 : d[k] = b[k]
        /\ \A k \in i .. Len(c) : d[k + 1] = b[k]
    BY <2>2, InsertPlaces
  <2> QED BY <1>1, <2>3, <2>4
<1> HIDE DEF d
<1>4. ASSUME NEW q \in R
      PROVE  /\ q = <<q[1], q[2]>> /\ q[1] \in 1 .. Len(c) + 1 /\ q[2] \in 1 .. 3
             /\ q[1] < i => Rank(c[q[1]]) >= q[2]
             /\ q[1] \in {i, i + 1} => q[2] = 1
             /\ q[1] > i + 1 => Rank(c[q[1] - 1]) >= q[2] /\ q[1] - 1 \in i + 1 .. Len(c)
  <2>1. q = <<q[1], q[2]>> /\ q[1] \in 1 .. Len(c) + 1 /\ q[2] \in 1 .. 3 /\ q[2] <= Rank(d[q[1]])
    BY <1>3 DEF RewritingsLeft
  <2>2. CASE q[1] < i
    BY <1>1, <1>3, <2>1, <2>2
  <2>3. CASE q[1] = i \/ q[1] = i + 1
    BY <1>1, <1>3, <2>1, <2>3
  <2>4. CASE q[1] > i + 1
    <3>1. q[1] - 1 \in i + 1 .. Len(c) /\ (q[1] - 1) + 1 = q[1]
      BY <1>1, <2>1, <2>4
    <3>2. d[q[1]] = c[q[1] - 1]
      BY <1>3, <3>1
    <3> QED BY <1>1, <2>1, <2>4, <3>1, <3>2
  <2> QED BY <1>1, <2>1, <2>2, <2>3, <2>4
<1>5. x \in RewritingsLeft(c)
  BY <1>1 DEF RewritingsLeft
<1>6. ASSUME NEW q \in R PROVE f[q] \in RewritingsLeft(c) \ {x}
  <2>1. CASE q[1] = i \/ q[1] = i + 1
    <3>1. f[q] \in {<<i, 2>>, <<i, 1>>}
      BY <1>1, <1>4, <2>1
    <3> QED BY <1>1, <3>1 DEF RewritingsLeft
  <2>2. CASE q[1] < i
    <3>1. f[q] = q
      BY <1>1, <1>4, <2>2
    <3> QED BY <1>1, <1>4, <2>2, <3>1 DEF RewritingsLeft
  <2>3. CASE q[1] > i + 1
    <3>1. f[q] = <<q[1] - 1, q[2]>>
      BY <1>1, <1>4, <2>3
    <3> QED BY <1>1, <1>4, <2>3, <3>1 DEF RewritingsLeft
  <2> QED BY <1>1, <1>4, <2>1, <2>2, <2>3
<1>7. ASSUME NEW p \in R, NEW q \in R, f[p] = f[q] PROVE p = q
  BY <1>1, <1>4, <1>7
<1>8. f \in [R -> RewritingsLeft(c) \ {x}]
  BY <1>6
<1> HIDE DEF f, x
<1>9. Left(d) < Left(c)
  BY <1>3, <1>5, <1>7, <1>8, FewerLeft
<1> QED BY <1>9 DEF d

-----------------------------------------------------------------------------
(* The inductive invariant.                                                *)

NoRuleAt(i) == \A k \in DOMAIN Order : ~ Applies(Order[k], code, i)

IInv ==
  /\ IsText(code)
  /\ Assembles(code)
  /\ pos \in Nat \ {0}
  /\ phase \in {"labels", "scan", "done"}
  /\ modified \in BOOLEAN
  /\ phase = "scan" /\ ~ modified => \A i \in DOMAIN code : i < pos => NoRuleAt(i)
  /\ Settled
  /\ IsText(given) /\ passes \in Nat
  /\ passes + Left(code) <= Left(given) + (IF phase = "labels" \/ modified THEN 0 ELSE 1)

LEMMA InitIInv == Init => IInv
<1> SUFFICES ASSUME Init PROVE IInv
  OBVIOUS
<1>1. IsText(code) /\ Assembles(code)
  BY ProgramsAssumption DEF Init, Assembles, HasLabel
<1>2. pos = 1 /\ phase = "labels" /\ modified = FALSE
  BY DEF Init
<1>3. Settled
  BY <1>2 DEF Settled
<1>4. pos \in Nat \ {0} /\ phase \in {"labels", "scan", "done"} /\ phase # "scan"
  BY <1>2
<1>5. modified \in BOOLEAN
  BY <1>2
<1>6. IsText(given) /\ passes \in Nat
      /\ passes + Left(code) <= Left(given) + (IF phase = "labels" \/ modified THEN 0 ELSE 1)
  <2>1. given = code /\ passes = 0
    BY DEF Init
  <2> QED BY <1>1, <1>2, <2>1, LeftIs
<1> QED BY <1>1, <1>3, <1>4, <1>5, <1>6, Zenon DEF IInv

LEMMA IInvMeans == IInv => BranchTargetsKept /\ Settled /\ Terminates
<1> SUFFICES ASSUME IInv PROVE BranchTargetsKept /\ Settled /\ Terminates
  OBVIOUS
<1>1. BranchTargetsKept /\ Settled
  BY LabelIsFound DEF IInv, Assembles, BranchTargetsKept
<1>2. Left(code) \in Nat /\ Left(given) \in Nat /\ passes \in Nat
      /\ (passes + Left(code) <= Left(given) \/ passes + Left(code) <= Left(given) + 1)
  BY LeftIs DEF IInv
<1>3. passes <= Left(given) + 1
  BY <1>2
<1> QED BY <1>1, <1>3 DEF Terminates, Left

(* A rewriting reports itself: only the text has to be looked at.          *)
LEMMA RewriteKeeps ==
  ASSUME IInv, phase = "scan", NEW d, NEW last \in Nat, Rewrite(d, last), IsText(d), Assembles(d),
         Left(d) < Left(code)
  PROVE  IInv'
<1>1. code' = d /\ pos' = last + 1 /\ modified' = TRUE /\ phase' = phase /\ given' = given /\ passes' = passes
  BY DEF Rewrite
<1>2. IsText(code) /\ IsText(given) /\ passes \in Nat /\ passes + Left(code) <= Left(given) + 1
  BY LeftIs DEF IInv
<1>3. passes + Left(d) <= Left(given)
  BY <1>2, LeftIs
<1>4. passes' + Left(code)' <= Left(given)' + (IF phase' = "labels" \/ modified' THEN 0 ELSE 1)
  BY <1>1, <1>2, <1>3, LeftIs
<1>5. Settled'
  BY <1>1 DEF Settled
<1>6. IsText(code') /\ Assembles(code') /\ IsText(given') /\ passes' \in Nat
      /\ phase' \in {"labels", "scan", "done"} /\ modified' \in BOOLEAN /\ modified'
  BY <1>1, <1>2
<1>7. pos' \in Nat \ {0}
  BY <1>1
<1> QED BY <1>4, <1>5, <1>6, <1>7, Zenon DEF IInv

LEMMA PatchKeeps ==
  ASSUME IInv, phase = "scan", NEW d, NEW last \in Nat, Rewrite(d, last), Lowered(code, d)
  PROVE  IInv'
<1>1. IsText(code) /\ Assembles(code)
  BY DEF IInv
<1>2. IsText(d) /\ Assembles(d)
  BY <1>1, PatchAssembles DEF Lowered, Patched
<1> QED BY <1>1, <1>2, RewriteKeeps, LoweredLeavesFewer

(* The turn of a rule.                                                     *)
LEMMA TurnMeans ==
  ASSUME IInv, NEW rule, Turn(rule)
  PROVE  /\ phase = "scan"
         /\ IsText(code) /\ pos \in Nat /\ pos \in DOMAIN code /\ pos \in Nat \ {0}
         /\ DOMAIN code = 1 .. Len(code) /\ Len(code) \in Nat
         /\ \A k \in DOMAIN code : IsElement(code[k])
         /\ Applies(rule, code, pos)
BY TextIs DEF IInv, Turn

(* The next instruction, where it is.                                      *)
LEMMA Next1Is ==
  ASSUME IInv, NEW rule, Turn(rule), Next1 # 0
  PROVE  Next1 \in Nat /\ Next1 \in DOMAIN code /\ Next1 > pos /\ IsIns(code[Next1])
<1>1. pos + 1 \in Nat \ {0}
  BY TurnMeans
<1>2. Next1 \in DOMAIN code /\ Next1 >= pos + 1 /\ IsIns(code[Next1])
  BY <1>1, TurnMeans, NextIsInstr DEF Next1
<1> QED BY <1>2, TurnMeans

(* The rules that only take instructions out.                              *)
LEMMA Comments ==
  ASSUME IInv, phase = "scan", NEW places, NEW last \in Nat, Rewrite(CommentOut(code, places), last),
         \A k \in DOMAIN code : k \in places => IsIns(code[k]), \E k \in DOMAIN code : k \in places
  PROVE  IInv'
<1>1. Lowered(code, CommentOut(code, places))
  BY PatchComments DEF IInv, IsIns
<1> QED BY <1>1, PatchKeeps

LEMMA BranchToNextLocationKeeps == IInv /\ BranchToNextLocation => IInv'
<1> SUFFICES ASSUME IInv, BranchToNextLocation PROVE IInv'
  OBVIOUS
<1>1. Turn("branchToNextLocation") /\ Rewrite(CommentOut(code, {pos}), pos)
  BY DEF BranchToNextLocation
<1>2. IsIns(code[pos])
  BY <1>1, TurnMeans DEF Applies, branchToNextLocation, IsLabel, IsUncond
<1> QED BY <1>1, <1>2, TurnMeans, Comments

LEMMA InstrFollowingUncondBranchKeeps == IInv /\ InstrFollowingUncondBranch => IInv'
<1> SUFFICES ASSUME IInv, InstrFollowingUncondBranch PROVE IInv'
  OBVIOUS
<1>1. Turn("instrFollowingUncondBranch") /\ Rewrite(CommentOut(code, {Next1}), pos)
  BY DEF InstrFollowingUncondBranch
<1>2. Next1 # 0
  BY <1>1, TurnMeans DEF Applies, instrFollowingUncondBranch, Next1
<1>3. Next1 \in Nat /\ Next1 \in DOMAIN code /\ IsIns(code[Next1])
  BY <1>1, <1>2, Next1Is
<1> QED BY <1>1, <1>3, TurnMeans, Comments

LEMMA LddToLDBKeeps == IInv /\ LddToLDB => IInv'
<1> SUFFICES ASSUME IInv, LddToLDB PROVE IInv'
  OBVIOUS
<1> DEFINE e == Ins("LD", "B", "#$", code[pos].v % BYTE)
<1>1. Turn("lddToLDB") /\ Rewrite([code EXCEPT ![pos] = e], pos)
  BY TurnMeans DEF LddToLDB
<1>2. IsIns(code[pos]) /\ Rank(code[pos]) >= 2
  <2>1. lddToLDB(code, pos)
    BY <1>1, TurnMeans DEF Applies
  <2>2. IsIns(code[pos]) /\ code[pos].op = "LD" /\ code[pos].r = "D" /\ code[pos].m = "#$"
    BY <2>1 DEF lddToLDB, Is
  <2>3. ~ IsBranch(code[pos])
    BY <2>2 DEF IsBranch, Branches
  <2> QED BY <2>2, <2>3 DEF Rank
<1>3. IsElement(e) /\ ~ IsBranch(e) /\ Rank(e) = 1
  BY InsIs DEF Branches
<1> HIDE DEF e
<1>4. Lowered(code, [code EXCEPT ![pos] = e])
  <2>1. Rank(e) < Rank(code[pos]) /\ Rank(e) <= Rank(code[pos])
    BY <1>2, <1>3, RankIs
  <2> QED BY <1>1, <1>2, <1>3, <2>1, TurnMeans, PatchOne DEF IsIns
<1> QED BY <1>1, <1>4, TurnMeans, PatchKeeps

LEMMA PushLoadDiscardAddKeeps == IInv /\ PushLoadDiscardAdd => IInv'
<1> SUFFICES ASSUME IInv, PushLoadDiscardAdd PROVE IInv'
  OBVIOUS
<1> DEFINE e == Ins("ADD", "B", "#$", ImmedArg(code[pos + 1]) % BYTE)
<1>1. Turn("pushLoadDiscardAdd") /\ Rewrite(Merged(e, 3), pos + 3)
  BY DEF PushLoadDiscardAdd
<1>2. \A k \in pos .. pos + 3 : IsIns(code[k])
  <2>1. pushLoadDiscardAdd(code, pos)
    BY <1>1, TurnMeans DEF Applies
  <2>2. IsIns(code[pos]) /\ IsIns(code[pos + 1]) /\ IsIns(code[pos + 2]) /\ IsIns(code[pos + 3])
    BY <2>1, InsIsIns DEF pushLoadDiscardAdd, Is
  <2>3. \A k \in pos .. pos + 3 : k = pos \/ k = pos + 1 \/ k = pos + 2 \/ k = pos + 3
    BY <1>1, TurnMeans
  <2> QED BY <2>2, <2>3
<1>3. IsElement(e) /\ ~ IsBranch(e) /\ Rank(e) <= 1
  BY InsIs, RankIs DEF Branches
<1> HIDE DEF e
<1>4. Lowered(code, Merged(e, 3))
  <2>0. pos + 3 <= Len(code)
    BY <1>1, TurnMeans DEF Applies, pushLoadDiscardAdd
  <2>1. IsIns(code[pos]) /\ \A k \in DOMAIN code : k \in pos + 1 .. pos + 3 => IsIns(code[k])
    BY <1>1, <1>2, TurnMeans
  <2> QED BY <1>1, <1>3, <2>0, <2>1, TurnMeans, MergedPatches DEF Merged
<1>5. pos + 3 \in Nat
  BY <1>1, TurnMeans
<1> QED BY <1>1, <1>4, <1>5, TurnMeans, PatchKeeps

LEMMA PushBLoadAddKeeps == IInv /\ PushBLoadAdd => IInv'
<1> SUFFICES ASSUME IInv, PushBLoadAdd PROVE IInv'
  OBVIOUS
<1> DEFINE e == [code[pos + 1] EXCEPT !.op = "ADD"]
<1>1. Turn("pushBLoadAdd") /\ Rewrite(Merged(e, 2), pos + 2)
  BY DEF PushBLoadAdd
<1>2. pushBLoadAdd(code, pos)
  BY <1>1, TurnMeans DEF Applies
<1>3. pos + 1 \in DOMAIN code /\ pos + 2 \in Nat /\ pos + 2 <= Len(code)
  <2>1. pos + 2 <= Len(code)
    BY <1>2 DEF pushBLoadAdd
  <2> QED BY <1>1, <2>1, TurnMeans
<1>4. IsElement(e) /\ ~ IsBranch(e) /\ Rank(e) <= 1
  BY <1>1, <1>3, TurnMeans, BecomesAdd
<1> HIDE DEF e
<1>5. Lowered(code, Merged(e, 2))
  <2>1. IsIns(code[pos]) /\ IsIns(code[pos + 1]) /\ IsIns(code[pos + 2])
    BY <1>2, InsIsIns DEF pushBLoadAdd, Is
  <2>2. \A k \in pos + 1 .. pos + 2 : k = pos + 1 \/ k = pos + 2
    BY <1>1, TurnMeans
  <2>3. \A k \in DOMAIN code : k \in pos + 1 .. pos + 2 => IsIns(code[k])
    BY <2>1, <2>2
  <2> QED BY <1>1, <1>3, <1>4, <2>1, <2>3, TurnMeans, MergedPatches DEF Merged
<1> QED BY <1>1, <1>3, <1>5, TurnMeans, PatchKeeps

LEMMA PushDLoadAddKeeps == IInv /\ PushDLoadAdd => IInv'
<1> SUFFICES ASSUME IInv, PushDLoadAdd PROVE IInv'
  OBVIOUS
<1> DEFINE e == [code[pos + 1] EXCEPT !.op = "ADD"]
<1>1. Turn("pushDLoadAdd") /\ Rewrite(Merged(e, 2), pos + 2)
  BY DEF PushDLoadAdd
<1>2. pushDLoadAdd(code, pos)
  BY <1>1, TurnMeans DEF Applies
<1>3. pos + 1 \in DOMAIN code /\ pos + 2 \in Nat /\ pos + 2 <= Len(code)
  <2>1. pos + 2 <= Len(code)
    BY <1>2 DEF pushDLoadAdd
  <2> QED BY <1>1, <2>1, TurnMeans
<1>4. IsElement(e) /\ ~ IsBranch(e) /\ Rank(e) <= 1
  BY <1>1, <1>3, TurnMeans, BecomesAdd
<1> HIDE DEF e
<1>5. Lowered(code, Merged(e, 2))
  <2>1. IsIns(code[pos]) /\ IsIns(code[pos + 1]) /\ IsIns(code[pos + 2])
    BY <1>2, InsIsIns DEF pushDLoadAdd, Is
  <2>2. \A k \in pos + 1 .. pos + 2 : k = pos + 1 \/ k = pos + 2
    BY <1>1, TurnMeans
  <2>3. \A k \in DOMAIN code : k \in pos + 1 .. pos + 2 => IsIns(code[k])
    BY <2>1, <2>2
  <2> QED BY <1>1, <1>3, <1>4, <2>1, <2>3, TurnMeans, MergedPatches DEF Merged
<1> QED BY <1>1, <1>3, <1>5, TurnMeans, PatchKeeps

LEMMA PushLoadDLoadXKeeps == IInv /\ PushLoadDLoadX => IInv'
<1> SUFFICES ASSUME IInv, PushLoadDLoadX PROVE IInv'
  OBVIOUS
<1> DEFINE e == Ins("TFR", "", "D,X", 0)
           d == [code EXCEPT ![pos] = e]
           f == [d EXCEPT ![pos + 2] = CommentedOut(code[pos + 2])]
<1>1. Turn("pushLoadDLoadX")
  BY DEF PushLoadDLoadX
<1>2. pushLoadDLoadX(code, pos)
  BY <1>1, TurnMeans DEF Applies
<1>3. /\ pos + 2 \in DOMAIN code /\ pos + 2 # pos
      /\ IsIns(code[pos]) /\ IsIns(code[pos + 2])
  <2>1. pos + 2 <= Len(code) /\ IsIns(code[pos]) /\ IsIns(code[pos + 2])
    BY <1>2, InsIsIns DEF pushLoadDLoadX
  <2> QED BY <1>1, <2>1, TurnMeans
<1>4. Rewrite(f, pos)
  BY <1>1, <1>3, TurnMeans DEF PushLoadDLoadX
<1>5. IsElement(e) /\ ~ IsBranch(e) /\ Rank(e) <= Rank(code[pos])
  BY <1>3, InsIs, RankIs DEF Branches
<1> HIDE DEF e
<1>6. Patched(code, d)
  BY <1>1, <1>3, <1>5, TurnMeans, PatchOne DEF IsIns
<1>7. d[pos + 2] = code[pos + 2]
  BY <1>3
<1> HIDE DEF d
<1>8. Lowered(d, f)
  <2>1. /\ IsElement(CommentedOut(code[pos + 2]))
        /\ ~ IsBranch(CommentedOut(code[pos + 2]))
        /\ Rank(CommentedOut(code[pos + 2])) < Rank(d[pos + 2])
    BY <1>1, <1>3, <1>7, TurnMeans, CommentedIs, RankIs DEF IsBranch, IsIns
  <2>2. IsText(d) /\ pos + 2 \in DOMAIN d /\ d[pos + 2].t # "LABEL"
    BY <1>3, <1>6, <1>7 DEF Patched, IsIns
  <2> QED BY <2>1, <2>2, PatchOne, RankIs
<1>9. Lowered(code, f)
  BY <1>6, <1>8, LoweredAfter
<1> QED BY <1>1, <1>4, <1>9, TurnMeans, PatchKeeps

LEMMA ClearDKeeps == IInv /\ ClearD => IInv'
<1> SUFFICES ASSUME IInv, ClearD PROVE IInv'
  OBVIOUS
<1> DEFINE e == Inherent("CLR", "A")
           g == Inherent("CLR", "B")
           d == [code EXCEPT ![pos] = e]
           f == Insert(d, pos, g)
<1>1. Turn("clearD") /\ Rewrite(f, pos + 1)
  BY DEF ClearD
<1>2. IsIns(code[pos]) /\ Rank(code[pos]) = 3
  <2>1. code[pos] = Ins("LD", "D", "#$", 0)
    BY <1>1, TurnMeans DEF Applies, clearD
  <2>2. ~ IsBranch(Ins("LD", "D", "#$", 0)) /\ IsIns(Ins("LD", "D", "#$", 0))
    BY InsIs, InsIsIns DEF Branches
  <2>3. Rank(Ins("LD", "D", "#$", 0)) = 3
    BY <2>2 DEF Rank, Ins, Element
  <2> QED BY <2>1, <2>2, <2>3
<1>3. IsElement(e) /\ ~ IsBranch(e) /\ Rank(e) = 1 /\ IsElement(g) /\ ~ IsBranch(g) /\ Rank(g) = 1
  BY InsIs DEF Branches, Inherent
<1> HIDE DEF e, g
<1>4. Patched(code, d)
  BY <1>1, <1>2, <1>3, TurnMeans, PatchOne DEF IsIns
<1>5. IsText(d) /\ pos \in DOMAIN d /\ Assembles(d)
  BY <1>1, <1>4, TurnMeans, PatchAssembles DEF Patched, IInv
<1> HIDE DEF d
<1>6. /\ IsText(f)
      /\ \A k \in DOMAIN d : \E j \in DOMAIN f : f[j] = d[k]
      /\ \A j \in DOMAIN f : f[j] = g \/ \E k \in DOMAIN d : f[j] = d[k]
  <2>1. IsText(f)
    BY <1>3, <1>5, InsertPlaces
  <2> QED BY <1>3, <1>5, <2>1, InsertIs
<1> HIDE DEF f
<1>7. Assembles(f)
  <2> SUFFICES ASSUME NEW j \in DOMAIN f, IsBranch(f[j]) PROVE HasLabel(f, f[j].v)
    BY DEF Assembles
  <2>1. PICK k \in DOMAIN d : f[j] = d[k]
    BY <1>3, <1>6
  <2>2. PICK h \in DOMAIN d : d[h].t = "LABEL" /\ d[h].v = f[j].v
    BY <1>5, <2>1 DEF Assembles, HasLabel
  <2> QED BY <1>6, <2>2 DEF HasLabel
<1>8. Left(f) < Left(code)
  BY <1>1, <1>2, <1>3, <1>5, TurnMeans, SplitLeavesFewer DEF d, f
<1>9. pos + 1 \in Nat
  BY <1>1, TurnMeans
<1> QED BY <1>1, <1>6, <1>7, <1>8, <1>9, TurnMeans, RewriteKeeps

LEMMA PushDLoadXLoadDKeeps == IInv /\ PushDLoadXLoadD => IInv'
<1> SUFFICES ASSUME IInv, PushDLoadXLoadD PROVE IInv'
  OBVIOUS
<1>1. Turn("pushDLoadXLoadD") /\ Rewrite(CommentOut(code, {pos, pos + 2}), pos + 2)
  BY DEF PushDLoadXLoadD
<1>2. IsIns(code[pos]) /\ IsIns(code[pos + 2])
  BY <1>1, TurnMeans, InsIsIns DEF Applies, pushDLoadXLoadD
<1>3. pos + 2 \in Nat
  BY <1>1, TurnMeans
<1> QED BY <1>1, <1>2, <1>3, TurnMeans, Comments

LEMMA StripConsecutiveLoadsToSameRegKeeps == IInv /\ StripConsecutiveLoadsToSameReg => IInv'
<1> SUFFICES ASSUME IInv, StripConsecutiveLoadsToSameReg PROVE IInv'
  OBVIOUS
<1>1. Turn("stripConsecutiveLoadsToSameReg") /\ Rewrite(CommentOut(code, {pos}), Next1)
  BY DEF StripConsecutiveLoadsToSameReg
<1>2. IsIns(code[pos]) /\ Next1 # 0
  BY <1>1, TurnMeans DEF Applies, stripConsecutiveLoadsToSameReg, Next1
<1>3. Next1 \in Nat
  BY <1>1, <1>2, Next1Is
<1> QED BY <1>1, <1>2, <1>3, TurnMeans, Comments

LEMMA StoreLoadKeeps == IInv /\ StoreLoad => IInv'
<1> SUFFICES ASSUME IInv, StoreLoad PROVE IInv'
  OBVIOUS
<1>1. Turn("storeLoad") /\ Rewrite(CommentOut(code, {Next1}), Next1)
  BY DEF StoreLoad
<1>2. Next1 # 0
  BY <1>1, TurnMeans DEF Applies, storeLoad, Next1
<1>3. Next1 \in Nat /\ Next1 \in DOMAIN code /\ IsIns(code[Next1])
  BY <1>1, <1>2, Next1Is
<1> QED BY <1>1, <1>3, TurnMeans, Comments

(* The opposite of a branch is a branch.                                   *)
LEMMA OppositeIs == \A op \in DOMAIN Opposite : op \in Branches /\ Opposite[op] \in Branches
<1> SUFFICES ASSUME NEW op \in DOMAIN Opposite PROVE op \in Branches /\ Opposite[op] \in Branches
  OBVIOUS
<1>1. op \in Branches \ {"BRA", "BRN"}
  BY DEF Opposite
<1>2. \E o \in Branches : <<op, o>> \in branchInstrTable \/ <<o, op>> \in branchInstrTable
  BY <1>1 DEF Branches, branchInstrTable
<1>3. Opposite[op] = CHOOSE o \in Branches : <<op, o>> \in branchInstrTable \/ <<o, op>> \in branchInstrTable
  BY <1>1 DEF Opposite
<1> QED BY <1>1, <1>2, <1>3, Zenon

LEMMA CondBranchOverUncondBranchKeeps == IInv /\ CondBranchOverUncondBranch => IInv'
<1> SUFFICES ASSUME IInv, CondBranchOverUncondBranch PROVE IInv'
  OBVIOUS
<1> DEFINE e == [code[pos] EXCEPT !.op = Opposite[@], !.v = code[pos + 1].v]
           d == [code EXCEPT ![pos] = e]
           f == [d EXCEPT ![pos + 1] = CommentedOut(code[pos + 1])]
<1>1. Turn("condBranchOverUncondBranch")
  BY DEF CondBranchOverUncondBranch
<1>2. condBranchOverUncondBranch(code, pos)
  BY <1>1, TurnMeans DEF Applies
<1>3. /\ pos + 1 \in DOMAIN code /\ pos + 1 # pos
      /\ IsIns(code[pos]) /\ IsUncond(code[pos + 1])
  <2>1. pos + 2 <= Len(code) /\ IsIns(code[pos]) /\ IsUncond(code[pos + 1])
    BY <1>2 DEF condBranchOverUncondBranch
  <2> QED BY <1>1, <2>1, TurnMeans
<1>4. Rewrite(f, pos)
  BY <1>1, <1>3, TurnMeans DEF CondBranchOverUncondBranch
<1>5. IsElement(e) /\ e.v = code[pos + 1].v /\ Rank(e) <= Rank(code[pos])
  <2>1. IsElement(e) /\ e.v = code[pos + 1].v /\ e.t = code[pos].t /\ e.r = code[pos].r /\ e.op = Opposite[code[pos].op]
    BY <1>1, TurnMeans DEF IsElement
  <2>2. code[pos].op \in DOMAIN Opposite
    BY <1>2 DEF condBranchOverUncondBranch
  <2>3. IsBranch(code[pos]) /\ IsBranch(e)
    BY <1>3, <2>1, <2>2, OppositeIs DEF IsBranch, IsIns
  <2>4. Rank(e) = Rank(code[pos])
    BY <1>3, <2>1, <2>3 DEF Rank, IsBranch
  <2> QED BY <2>1, <2>4, RankIs
<1> HIDE DEF e
<1>6. HasBranch(code, code[pos + 1].v)
  BY <1>3 DEF HasBranch, IsUncond, IsBranch, Branches
<1>7. Patched(code, d)
  BY <1>1, <1>3, <1>5, <1>6, TurnMeans, PatchOne DEF IsIns
<1>8. d[pos + 1] = code[pos + 1]
  BY <1>3
<1> HIDE DEF d
<1>9. Lowered(d, f)
  <2>1. /\ IsElement(CommentedOut(code[pos + 1]))
        /\ ~ IsBranch(CommentedOut(code[pos + 1]))
        /\ Rank(CommentedOut(code[pos + 1])) < Rank(d[pos + 1])
    BY <1>1, <1>3, <1>8, TurnMeans, CommentedIs, RankIs DEF IsBranch, IsIns, IsUncond
  <2>2. IsText(d) /\ pos + 1 \in DOMAIN d /\ d[pos + 1].t # "LABEL"
    BY <1>3, <1>7, <1>8 DEF Patched, IsIns, IsUncond
  <2> QED BY <2>1, <2>2, PatchOne, RankIs
<1>10. Lowered(code, f)
  BY <1>7, <1>9, LoweredAfter
<1> QED BY <1>1, <1>4, <1>10, TurnMeans, PatchKeeps

LEMMA ShortenBranchKeeps == IInv /\ ShortenBranch => IInv'
<1> SUFFICES ASSUME IInv, ShortenBranch PROVE IInv'
  OBVIOUS
<1> DEFINE e == [code[pos] EXCEPT !.r = ""]
<1>1. Turn("shortenBranch") /\ Rewrite([code EXCEPT ![pos] = e], pos)
  BY TurnMeans DEF ShortenBranch
<1>2. IsBranch(code[pos]) /\ code[pos].r = "L"
  BY <1>1, TurnMeans DEF Applies, shortenBranch
<1>3. IsElement(e) /\ e.v = code[pos].v /\ Rank(e) < Rank(code[pos])
  <2>1. IsElement(e) /\ e.v = code[pos].v /\ e.t = code[pos].t /\ e.op = code[pos].op /\ e.r = ""
    BY <1>1, TurnMeans DEF IsElement
  <2> HIDE DEF e
  <2>2. Rank(e) = 1 /\ Rank(code[pos]) = 2
    BY <1>2, <2>1 DEF Rank, IsBranch, IsIns
  <2>3. Rank(e) < Rank(code[pos])
    BY <2>2
  <2> QED BY <2>1, <2>3
<1> HIDE DEF e
<1>4. HasBranch(code, code[pos].v)
  BY <1>1, <1>2, TurnMeans DEF HasBranch
<1>5. Lowered(code, [code EXCEPT ![pos] = e])
  BY <1>1, <1>2, <1>3, <1>4, TurnMeans, PatchOne, RankIs DEF IsBranch, IsIns
<1> QED BY <1>1, <1>5, TurnMeans, PatchKeeps

LEMMA LoadCmpZeroBeqOrBneKeeps == IInv /\ LoadCmpZeroBeqOrBne => IInv'
<1> SUFFICES ASSUME IInv, LoadCmpZeroBeqOrBne PROVE IInv'
  OBVIOUS
<1>1. Turn("loadCmpZeroBeqOrBne") /\ Rewrite(CommentOut(code, {pos + 1}), pos)
  BY DEF LoadCmpZeroBeqOrBne
<1>2. loadCmpZeroBeqOrBne(code, pos)
  BY <1>1, TurnMeans DEF Applies
<1>3. IsIns(code[pos + 1]) /\ pos + 2 <= Len(code)
  BY <1>2 DEF loadCmpZeroBeqOrBne
<1> QED BY <1>1, <1>3, TurnMeans, Comments

LEMMA PushWordForByteComparisonKeeps == IInv /\ PushWordForByteComparison => IInv'
<1> SUFFICES ASSUME IInv, PushWordForByteComparison PROVE IInv'
  OBVIOUS
<1> DEFINE e == [code[pos] EXCEPT !.m = "B"]
           d == [code EXCEPT ![pos] = e]
           f == CommentOut(d, {pos + 2, pos + 3})
<1>1. Turn("pushWordForByteComparison") /\ Rewrite(f, pos)
  BY TurnMeans DEF PushWordForByteComparison
<1>2. pushWordForByteComparison(code, pos)
  BY <1>1, TurnMeans DEF Applies
<1>3. /\ IsIns(code[pos]) /\ ~ IsBranch(code[pos]) /\ code[pos].op = "PSHS" /\ pos + 2 \in DOMAIN code
      /\ IsIns(code[pos + 2]) /\ IsIns(code[pos + 3])
  <2>1. ~ IsBranch(Ins("PSHS", "", "B,A", 0))
    BY InsIs DEF Branches
  <2>2. Ins("PSHS", "", "B,A", 0).op = "PSHS"
    BY DEF Ins, Element
  <2>3. pos + 2 \in DOMAIN code
    <3>1. pos + 4 <= Len(code)
      BY <1>2 DEF pushWordForByteComparison
    <3> QED BY <1>1, <3>1, TurnMeans
  <2> QED BY <1>2, <2>1, <2>2, <2>3, InsIsIns DEF pushWordForByteComparison, Inherent
<1>4. IsElement(e) /\ e.t = code[pos].t /\ e.op = code[pos].op
  BY <1>1, TurnMeans DEF IsElement
<1> HIDE DEF e
<1>5. ~ IsBranch(e) /\ Rank(e) <= Rank(code[pos])
  <2>1. ~ IsBranch(e)
    BY <1>3, <1>4 DEF IsBranch, IsIns
  <2>2. Rank(e) <= 1
    BY <1>3, <1>4, <2>1, RankIs
  <2> QED BY <1>3, <2>1, <2>2, RankIs
<1>6. Patched(code, d)
  BY <1>1, <1>3, <1>4, <1>5, TurnMeans, PatchOne DEF IsIns
<1>7. \A k \in DOMAIN d : k # pos => d[k] = code[k]
  OBVIOUS
<1> HIDE DEF d
<1>8. Lowered(d, f)
  <2>1. pos + 2 # pos /\ pos + 3 # pos
    BY <1>1, TurnMeans
  <2>2. ASSUME NEW k \in DOMAIN d, k \in {pos + 2, pos + 3} PROVE d[k].t # "LABEL"
    BY <1>3, <1>7, <2>1, <2>2 DEF IsIns
  <2>3. pos + 2 \in DOMAIN d /\ IsIns(d[pos + 2])
    BY <1>3, <1>6, <1>7, <2>1 DEF Patched
  <2> QED BY <1>6, <2>2, <2>3, PatchComments DEF Patched
<1> HIDE DEF f
<1>9. Lowered(code, f)
  BY <1>6, <1>8, LoweredAfter
<1> QED BY <1>1, <1>9, TurnMeans, PatchKeeps

LEMMA StripConsecOppositeTFRsKeeps == IInv /\ StripConsecOppositeTFRs => IInv'
<1> SUFFICES ASSUME IInv, StripConsecOppositeTFRs PROVE IInv'
  OBVIOUS
<1>1. Turn("stripConsecOppositeTFRs") /\ Rewrite(CommentOut(code, {Next1}), pos)
  BY DEF StripConsecOppositeTFRs
<1>2. Next1 # 0
  BY <1>1, TurnMeans DEF Applies, stripConsecOppositeTFRs, Next1
<1>3. Next1 \in Nat /\ Next1 \in DOMAIN code /\ IsIns(code[Next1])
  BY <1>1, <1>2, Next1Is
<1> QED BY <1>1, <1>3, TurnMeans, Comments

LEMMA StripOpToDeadRegKeeps == IInv /\ StripOpToDeadReg => IInv'
<1> SUFFICES ASSUME IInv, StripOpToDeadReg PROVE IInv'
  OBVIOUS
<1>1. Turn("stripOpToDeadReg") /\ Rewrite(CommentOut(code, {pos}), pos)
  BY DEF StripOpToDeadReg
<1>2. IsIns(code[pos])
  BY <1>1, TurnMeans DEF Applies, stripOpToDeadReg
<1> QED BY <1>1, <1>2, TurnMeans, Comments

LEMMA StripUselessPushPullKeeps == IInv /\ StripUselessPushPull => IInv'
<1> SUFFICES ASSUME IInv, StripUselessPushPull PROVE IInv'
  OBVIOUS
<1> DEFINE following == NextInstrBeforeLabel(code, Next1 + 1)
<1>1. Turn("stripUselessPushPull") /\ Rewrite(CommentOut(code, {pos, following}), pos)
  BY DEF StripUselessPushPull
<1>2. stripUselessPushPull(code, pos)
  BY <1>1, TurnMeans DEF Applies
<1>3. IsIns(code[pos]) /\ Next1 # 0 /\ following # 0
  BY <1>2, InsIsIns DEF stripUselessPushPull, Next1
<1>4. Next1 + 1 \in Nat \ {0}
  BY <1>1, <1>3, Next1Is
<1>5. IsIns(code[following])
  BY <1>1, <1>3, <1>4, TurnMeans, NextIsInstr
<1> HIDE DEF following
<1> QED BY <1>1, <1>3, <1>5, TurnMeans, Comments

LEMMA RuleKeeps == IInv /\ Rule => IInv'
BY BranchToNextLocationKeeps, InstrFollowingUncondBranchKeeps, LddToLDBKeeps,
   PushLoadDiscardAddKeeps, PushBLoadAddKeeps, PushDLoadAddKeeps, PushLoadDLoadXKeeps,
   ClearDKeeps, PushDLoadXLoadDKeeps, StripConsecutiveLoadsToSameRegKeeps, StoreLoadKeeps,
   CondBranchOverUncondBranchKeeps, ShortenBranchKeeps, LoadCmpZeroBeqOrBneKeeps,
   PushWordForByteComparisonKeeps, StripConsecOppositeTFRsKeeps, StripOpToDeadRegKeeps,
   StripUselessPushPullKeeps, Zenon
   DEF Rule

-----------------------------------------------------------------------------
(* The steps that are not a rule.                                          *)

(* removeUselessLabels() leaves the labels that a branch names.            *)
LEMMA RemoveUselessLabelsKeeps == IInv /\ RemoveUselessLabels => IInv'
<1> SUFFICES ASSUME IInv, RemoveUselessLabels PROVE IInv'
  OBVIOUS
<1> DEFINE places == {k \in DOMAIN code : code[k].t = "LABEL" /\ code[k].v \notin UsedLabels}
<1>1. IsText(code) /\ Assembles(code)
  BY DEF IInv
<1>2. code' = CommentOut(code, places) /\ phase' = "scan" /\ pos' = 1 /\ modified' = FALSE
  BY DEF RemoveUselessLabels
<1>3. /\ DOMAIN code' = DOMAIN code
      /\ code' = [k \in DOMAIN code |-> code'[k]]
      /\ \A k \in DOMAIN code : code'[k] = IF k \in places THEN CommentedOut(code[k]) ELSE code[k]
  <2> HIDE DEF places
  <2> QED BY <1>2 DEF CommentOut
<1>4. IsText(code')
  <2>1. \A k \in DOMAIN code : IsElement(code'[k])
    <3> HIDE DEF places
    <3> QED BY <1>1, <1>3, TextIs, CommentedIs
  <2> QED BY <1>1, <1>3, <2>1, TextIs, TextFrom
<1>5. Assembles(code')
  <2> SUFFICES ASSUME NEW k \in DOMAIN code', IsBranch(code'[k]) PROVE HasLabel(code', code'[k].v)
    BY DEF Assembles
  <2>1. code'[k] = code[k]
    <3> HIDE DEF places
    <3> QED BY <1>1, <1>3, TextIs, CommentedIs DEF IsBranch, IsIns
  <2>2. PICK j \in DOMAIN code : code[j].t = "LABEL" /\ code[j].v = code[k].v
    BY <1>1, <1>3, <2>1 DEF Assembles, HasLabel
  <2>3. j \notin places
    BY <1>3, <2>1, <2>2 DEF UsedLabels
  <2> HIDE DEF places
  <2>4. code'[j] = code[j]
    BY <1>3, <2>3
  <2> QED BY <1>3, <2>1, <2>2, <2>4 DEF HasLabel
<1>6. Settled'
  BY <1>2 DEF Settled
<1>7. ~ (\E i \in DOMAIN code' : i < pos')
  BY <1>2, <1>4, TextIs
<1>8. pos' \in Nat \ {0} /\ phase' \in {"labels", "scan", "done"}
  BY <1>2
<1>9. modified' \in BOOLEAN
  BY <1>2
<1>10. IsText(given') /\ passes' \in Nat
       /\ passes' + Left(code)' <= Left(given)' + (IF phase' = "labels" \/ modified' THEN 0 ELSE 1)
  <2>1. given' = given /\ passes' = passes + 1
    BY DEF RemoveUselessLabels
  <2>2. \A k \in DOMAIN code : Rank(code'[k]) = Rank(code[k])
    <3> TAKE k \in DOMAIN code
    <3>1. CASE k \in places
      BY <1>1, <1>3, <3>1, TextIs, CommentedIs, RankIs DEF IsIns
    <3>2. CASE k \notin places
      <4> HIDE DEF places
      <4> QED BY <1>3, <3>2
    <3> QED BY <3>1, <3>2
  <2>3. RewritingsLeft(code') = RewritingsLeft(code)
    BY <1>3, <2>2 DEF RewritingsLeft
  <2>4. Left(code') = Left(code) /\ Left(code) \in Nat
    BY <1>1, <2>3, LeftIs DEF Left
  <2>5. IsText(given) /\ passes \in Nat /\ passes + Left(code) <= Left(given)
    BY LeftIs DEF IInv, RemoveUselessLabels
  <2>6. passes + 1 + Left(code) <= Left(given) + 1
    BY <2>4, <2>5, LeftIs
  <2> QED BY <1>2, <2>1, <2>4, <2>5, <2>6, LeftIs
<1> QED BY <1>4, <1>5, <1>6, <1>7, <1>8, <1>9, <1>10, Zenon DEF IInv

LEMMA AdvanceKeeps == IInv /\ Advance => IInv'
<1> SUFFICES ASSUME IInv, Advance PROVE IInv'
  OBVIOUS
<1>1. /\ phase = "scan" /\ NoRuleAt(pos)
      /\ pos' = pos + 1 /\ code' = code /\ phase' = phase /\ modified' = modified
  BY DEF Advance, NoRuleAt
<1>2. pos \in Nat \ {0} /\ pos' \in Nat \ {0}
  BY <1>1 DEF IInv
<1>3. ASSUME ~ modified, NEW i \in DOMAIN code, i < pos' PROVE NoRuleAt(i)
  <2>1. i \in Nat
    BY TextIs DEF IInv
  <2>2. i < pos \/ i = pos
    BY <1>1, <1>2, <1>3, <2>1
  <2> QED BY <1>1, <1>3, <2>2 DEF IInv
<1>4. ~ modified' => \A i \in DOMAIN code' : i < pos' => NoRuleAt(i)'
  BY <1>1, <1>3 DEF NoRuleAt
<1>5. Settled'
  BY <1>1 DEF Settled
<1>6. /\ IsText(code') /\ Assembles(code')
      /\ phase' \in {"labels", "scan", "done"} /\ modified' \in BOOLEAN
  BY <1>1 DEF IInv
<1>7. IsText(given') /\ passes' \in Nat
      /\ passes' + Left(code)' <= Left(given)' + (IF phase' = "labels" \/ modified' THEN 0 ELSE 1)
  BY <1>1 DEF IInv, Advance
<1> QED BY <1>2, <1>4, <1>5, <1>6, <1>7, Zenon DEF IInv

(* At the end of a pass that changed nothing, every element has been looked *)
(* at since the last rewriting.                                            *)
LEMMA EndPassKeeps == IInv /\ EndPass => IInv'
<1> SUFFICES ASSUME IInv, EndPass PROVE IInv'
  OBVIOUS
<1>1. /\ phase = "scan" /\ pos > Len(code)
      /\ phase' = (IF modified THEN "labels" ELSE "done")
      /\ code' = code /\ pos' = pos /\ modified' = modified
  BY DEF EndPass
<1>2. \A i \in DOMAIN code : i < pos
  BY <1>1, TextIs DEF IInv
<1>3. ~ modified => \A i \in DOMAIN code : NoRuleAt(i)
  BY <1>1, <1>2 DEF IInv
<1>4. Settled'
  BY <1>1, <1>3 DEF Settled, NoRuleAt, IInv
<1>5. given' = given /\ passes' = passes
  BY DEF EndPass
<1>6. passes' + Left(code)' <= Left(given)' + (IF phase' = "labels" \/ modified' THEN 0 ELSE 1)
  <2>1. passes + Left(code) <= Left(given) + (IF modified THEN 0 ELSE 1)
    BY <1>1 DEF IInv
  <2> QED BY <1>1, <1>5, <2>1
<1>7. phase' \in {"labels", "scan", "done"} /\ phase' # "scan"
  BY <1>1
<1> QED BY <1>1, <1>4, <1>5, <1>6, <1>7 DEF IInv

LEMMA StepIInv == IInv /\ [Next]_vars => IInv'
<1> SUFFICES ASSUME IInv, [Next]_vars PROVE IInv'
  OBVIOUS
<1>1. CASE RemoveUselessLabels
  BY <1>1, RemoveUselessLabelsKeeps
<1>2. CASE Rule
  BY <1>2, RuleKeeps
<1>3. CASE Advance
  BY <1>3, AdvanceKeeps
<1>4. CASE EndPass
  BY <1>4, EndPassKeeps
<1>5. CASE UNCHANGED vars
  BY <1>5 DEF vars, IInv, Settled, NoRuleAt
<1> QED BY <1>1, <1>2, <1>3, <1>4, <1>5, Zenon DEF Next

-----------------------------------------------------------------------------
(* Theorems.                                                               *)

(* Whatever the compiler generated, if it assembles then it still does     *)
(* after every rewriting of -O1: no branch loses its label.                *)
THEOREM LabelsAreKept == Spec => []BranchTargetsKept
<1>1. Init => IInv
  BY InitIInv
<1>2. IInv /\ [Next]_vars => IInv'
  BY StepIInv
<1>3. IInv => BranchTargetsKept
  BY IInvMeans
<1> QED BY <1>1, <1>2, <1>3, PTL DEF Spec

(* When -O1 stops, no rule applies to any element: no rewriting goes       *)
(* unreported, whatever it enables before the place where it was made.     *)
THEOREM NothingLeftToDo == Spec => []Settled
<1>1. Init => IInv
  BY InitIInv
<1>2. IInv /\ [Next]_vars => IInv'
  BY StepIInv
<1>3. IInv => Settled
  BY IInvMeans
<1> QED BY <1>1, <1>2, <1>3, PTL DEF Spec

(* The optimizer stops: whatever the compiler generated, there are no more *)
(* passes than rewritings that it leaves room for, and one.                *)
THEOREM PassesEnd == Spec => []Terminates
<1>1. Init => IInv
  BY InitIInv
<1>2. IInv /\ [Next]_vars => IInv'
  BY StepIInv
<1>3. IInv => Terminates
  BY IInvMeans
<1> QED BY <1>1, <1>2, <1>3, PTL DEF Spec
=============================================================================
