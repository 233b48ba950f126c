--------------------------- MODULE CoCoDiskProofs ---------------------------
(***************************************************************************)
(* Proofs about CoCoDisk and CoCoDiskCrash, for every number and size of   *)
(* granules, every directory size, every set of names and of native files. *)
(*                                                                         *)
(* NoCrossLinks, NoLostGranules and ChainsEnd are about chains, and are    *)
(* not inductive: that two chains do not meet says nothing of where they   *)
(* start.  TablesInv below adds what the code really maintains: the first  *)
(* granules of the files are allocated, distinct, and linked to by no      *)
(* granule; a link leads to an allocated granule; and no two granules have *)
(* the same successor.  It holds until a write-back fails or is cut short. *)
(*                                                                         *)
(* The invocations of CoCoDisk are among those of CoCoDiskCrash, and what  *)
(* a failed commit leaves is one of the torn images: most facts are proved *)
(* once, of the steps of CoCoDiskCrash.                                    *)
(***************************************************************************)
EXTENDS CoCoDiskCrash, DecbTablesProofs

-----------------------------------------------------------------------------
(* The inductive invariant, as a predicate on a table f and a directory d. *)

LiveIn(d) == {i \in DirIndices : Live(d, i)}

NoneAfterEnd(d) == \A i, j \in DirIndices : i < j /\ d[i] = EndOfDir => ~ Live(d, j)

OneEach(d) == \A i, j \in LiveIn(d) : d[i].name = d[j].name => i = j

HeadsAllocated(f, d) == \A i \in LiveIn(d) : f[d[i].first] # FREE_FAT_ENTRY
HeadsUnlinked(f, d)  == \A i \in LiveIn(d) : Unlinked(f, d[i].first)
HeadsDistinct(d)     == \A i, j \in LiveIn(d) : d[i].first = d[j].first => i = j

AllOwned(f, d) ==
  \A g \in Granules : f[g] # FREE_FAT_ENTRY => \E i \in LiveIn(d) : g \in Chain(f, d[i].first)

AllEnd(f, d) ==
  \A i \in LiveIn(d) : \E g \in Chain(f, d[i].first) : f[g] \in LastMarks

DirInv(d) ==
  /\ d \in [DirIndices -> DirEntries]
  /\ NoneAfterEnd(d)
  /\ OneEach(d)
  /\ HeadsDistinct(d)

TablesInv(f, d) ==
  /\ f \in Fats
  /\ DirInv(d)
  /\ HeadsAllocated(f, d)
  /\ HeadsUnlinked(f, d)
  /\ LinksAllocated(f)
  /\ LinksInjective(f)
  /\ AllOwned(f, d)
  /\ AllEnd(f, d)

LEMMA LiveFirst ==
  ASSUME NEW d \in [DirIndices -> DirEntries], NEW i \in LiveIn(d)
  PROVE  /\ d[i].first \in Granules
         /\ d[i].name \in Names
         /\ d[i] # EndOfDir /\ d[i] # Erased
         /\ i \in DirIndices
<1>1. d[i] \in DirEntries /\ d[i].kind = "live" /\ i \in DirIndices
  BY DEF LiveIn, Live
<1>2. d[i] # EndOfDir /\ d[i] # Erased
  BY <1>1 DEF EndOfDir, Erased
<1> QED BY <1>1, <1>2 DEF DirEntries

(* getDirEntryPtr() finds the entry of a name if no other one has it.      *)
LEMMA EntryFound ==
  ASSUME NEW d, NoneAfterEnd(d), NEW i \in LiveIn(d),
         \A j \in LiveIn(d) : d[j].name = d[i].name => j = i
  PROVE  DirEntryPtr(d, d[i].name) = {i}
<1>1. i \in DirIndices /\ Live(d, i)
  BY DEF LiveIn
<1>2. ASSUME NEW j \in 0 .. i - 1
      PROVE  d[j] # EndOfDir /\ (Live(d, j) => d[j].name # d[i].name)
  <2>1. j \in DirIndices /\ j < i
    BY <1>1, DirAssumption DEF DirIndices
  <2>2. d[j] # EndOfDir
    BY <1>1, <2>1 DEF NoneAfterEnd
  <2>3. ASSUME Live(d, j), d[j].name = d[i].name PROVE FALSE
    <3>1. j \in LiveIn(d)
      BY <2>1, <2>3 DEF LiveIn
    <3>2. j = i
      BY <2>3, <3>1
    <3> QED BY <2>1, <3>2, <1>1 DEF DirIndices
  <2> QED BY <2>2, <2>3
<1>3. i \in DirEntryPtr(d, d[i].name)
  BY <1>1, <1>2 DEF DirEntryPtr
<1>4. \A j \in DirEntryPtr(d, d[i].name) : j = i
  BY DEF DirEntryPtr, LiveIn
<1> QED BY <1>3, <1>4

LEMMA EntryIsLive ==
  ASSUME NEW d, NEW name, NEW i \in DirEntryPtr(d, name)
  PROVE  i \in LiveIn(d) /\ d[i].name = name
BY DEF DirEntryPtr, LiveIn

-----------------------------------------------------------------------------
(* killFile().                                                             *)

LEMMA LiveAfterErase ==
  ASSUME NEW d \in [DirIndices -> DirEntries], NEW i \in DirIndices
  PROVE  LET e == [d EXCEPT ![i] = Erased]
         IN  /\ LiveIn(e) = LiveIn(d) \ {i}
             /\ \A j \in LiveIn(e) : e[j] = d[j]
             /\ e \in [DirIndices -> DirEntries]
<1>1. Erased \in DirEntries /\ Erased.kind # "live"
  BY DEF DirEntries, Erased
<1> QED BY <1>1 DEF LiveIn, Live

(* Chains of the other files, when the chain of entry i is freed.          *)
LEMMA OthersSurviveFree ==
  ASSUME NEW f, NEW d, TablesInv(f, d), NEW i \in LiveIn(d), NEW j \in LiveIn(d), j # i
  PROVE  LET f2 == Freed(f, d[i].first)
         IN  /\ \A g \in Chain(f, d[j].first) : f2[g] = f[g]
             /\ Chain(f2, d[j].first) = Chain(f, d[j].first)
<1> DEFINE f2 == Freed(f, d[i].first)
<1>1. d[i].first \in Granules /\ d[j].first \in Granules /\ d[i].first # d[j].first
  BY LiveFirst DEF TablesInv, DirInv, HeadsDistinct
<1>2. Chain(f, d[i].first) \intersect Chain(f, d[j].first) = {}
  BY <1>1, ChainsApart DEF TablesInv, HeadsUnlinked
<1>3. \A g \in Chain(f, d[j].first) : f2[g] = f[g]
  BY <1>2, ChainSubset DEF Freed
<1>4. Chain(f2, d[j].first) = Chain(f, d[j].first)
  <2> HIDE DEF f2
  <2> QED BY <1>1, <1>3, ChainLocal
<1> QED BY <1>3, <1>4

LEMMA KillKeepsTables ==
  ASSUME NEW f, NEW d, TablesInv(f, d), NEW i \in LiveIn(d)
  PROVE  TablesInv(Freed(f, d[i].first), [d EXCEPT ![i] = Erased])
<1> DEFINE a  == d[i].first
           f2 == Freed(f, a)
           d2 == [d EXCEPT ![i] = Erased]
<1> SUFFICES TablesInv(f2, d2)
  OBVIOUS
<1>1. f \in Fats /\ d \in [DirIndices -> DirEntries] /\ a \in Granules /\ i \in DirIndices
  BY LiveFirst DEF TablesInv, DirInv
<1>2. /\ LiveIn(d2) = LiveIn(d) \ {i}
      /\ \A j \in LiveIn(d2) : d2[j] = d[j]
      /\ d2 \in [DirIndices -> DirEntries]
  BY <1>1, LiveAfterErase
<1>3. \A g \in Granules : f2[g] = IF g \in Chain(f, a) THEN FREE_FAT_ENTRY ELSE f[g]
  BY DEF Freed
<1>4. f2 \in Fats
  BY <1>1 DEF Freed, Fats, FatValues
<1>5. \A j \in LiveIn(d2) :
        /\ \A g \in Chain(f, d[j].first) : f2[g] = f[g]
        /\ Chain(f2, d2[j].first) = Chain(f, d[j].first)
        /\ d[j].first \in Granules
  <2> SUFFICES ASSUME NEW j \in LiveIn(d2)
               PROVE  /\ \A g \in Chain(f, d[j].first) : f2[g] = f[g]
                      /\ Chain(f2, d2[j].first) = Chain(f, d[j].first)
                      /\ d[j].first \in Granules
    OBVIOUS
  <2>1. j \in LiveIn(d) /\ j # i /\ d2[j] = d[j]
    BY <1>2
  <2>2. d[j].first \in Granules
    BY <1>1, <2>1, LiveFirst
  <2> QED BY <2>1, <2>2, OthersSurviveFree
<1>6. \A g \in Granules : f2[g] \in Granules => f2[g] = f[g] /\ g \notin Chain(f, a)
  BY <1>3, TableValues
<1>7. DirInv(d2)
  <2>1. NoneAfterEnd(d2)
    BY <1>1 DEF NoneAfterEnd, TablesInv, DirInv, Live, Erased, EndOfDir
  <2>2. OneEach(d2) /\ HeadsDistinct(d2)
    BY <1>2 DEF OneEach, HeadsDistinct, TablesInv, DirInv
  <2> QED BY <1>2, <2>1, <2>2 DEF DirInv
<1>8. HeadsAllocated(f2, d2)
  <2> SUFFICES ASSUME NEW j \in LiveIn(d2)
               PROVE  f2[d2[j].first] # FREE_FAT_ENTRY
    BY DEF HeadsAllocated
  <2>1. j \in LiveIn(d) /\ d2[j] = d[j] /\ d[j].first \in Chain(f, d[j].first)
    BY <1>2, <1>5, ChainFirst
  <2>2. f[d[j].first] # FREE_FAT_ENTRY /\ f2[d[j].first] = f[d[j].first]
    BY <1>5, <2>1 DEF HeadsAllocated, TablesInv
  <2> QED BY <2>1, <2>2
<1>9. HeadsUnlinked(f2, d2)
  BY <1>2, <1>5, <1>6 DEF HeadsUnlinked, Unlinked, TablesInv
<1>10. LinksAllocated(f2)
  <2> SUFFICES ASSUME NEW g \in Granules, f2[g] \in Granules
               PROVE  f2[f2[g]] # FREE_FAT_ENTRY
    BY DEF LinksAllocated
  <2>1. f2[g] = f[g] /\ g \notin Chain(f, a) /\ f[f[g]] # FREE_FAT_ENTRY
    BY <1>6 DEF TablesInv, LinksAllocated
  <2>2. f[g] \notin Chain(f, a)
    <3> SUFFICES ASSUME f[g] \in Chain(f, a) PROVE FALSE
      OBVIOUS
    <3>1. f[g] # a
      BY DEF TablesInv, HeadsUnlinked, Unlinked
    <3>2. PICK h \in Chain(f, a) : f[h] = f[g]
      BY <1>1, <3>1, ChainPredecessor
    <3>3. h = g
      BY <2>1, <3>2, ChainSubset DEF TablesInv, LinksInjective
    <3> QED BY <2>1, <3>3
  <2> QED BY <1>3, <2>1, <2>2
<1>11. LinksInjective(f2)
  BY <1>6 DEF LinksInjective, TablesInv
<1>12. AllOwned(f2, d2)
  BY <1>2, <1>3, <1>5 DEF AllOwned, TablesInv
<1>13. AllEnd(f2, d2)
  BY <1>2, <1>5 DEF AllEnd, TablesInv
<1> HIDE DEF f2, d2
<1> QED BY <1>4, <1>7, <1>8, <1>9, <1>10, <1>11, <1>12, <1>13 DEF TablesInv

-----------------------------------------------------------------------------
(* addFile().                                                              *)

LEMMA AddKeepsTables ==
  ASSUME NEW f, NEW d, TablesInv(f, d), NEW len \in Nat,
         NEW s \in Allocations(f, SizeInGranules(len)), NEW i \in FirstFreeEntry(d),
         NEW name \in Names, \A j \in LiveIn(d) : d[j].name # name
  PROVE  TablesInv(Linked(f, s, SizeInGranules(len), SectorsInLastGranule(len)),
                   [d EXCEPT ![i] = NewEntry(name, s[1], len)])
<1> DEFINE n  == SizeInGranules(len)
           f2 == Linked(f, s, n, SectorsInLastGranule(len))
           e  == NewEntry(name, s[1], len)
           d2 == [d EXCEPT ![i] = e]
           T  == {s[k] : k \in 1 .. n}
<1> SUFFICES TablesInv(f2, d2)
  OBVIOUS
<1>1. /\ n \in Nat \ {0}
      /\ s \in [1 .. n -> Granules]
      /\ \A k, l \in 1 .. n : s[k] = s[l] => k = l
      /\ \A k \in 1 .. n : f[s[k]] = FREE_FAT_ENTRY
  <2>1. n \in Nat \ {0}
    BY SizeIsPositive
  <2> HIDE DEF n
  <2>2. OneToOne(s, n) /\ \A k \in 1 .. n : f[s[k]] = FREE_FAT_ENTRY
    BY <2>1, AllocatedOnce DEF n
  <2> QED BY <2>1, <2>2 DEF n, OneToOne
<1>2. f \in Fats /\ d \in [DirIndices -> DirEntries] /\ SectorsInLastGranule(len) \in 0 .. SectorsPerGranule
  BY SectorsFit DEF TablesInv, DirInv
<1>3. /\ f2 \in Fats
      /\ f2[s[n]] = BASE_LAST + SectorsInLastGranule(len)
      /\ \A k \in 1 .. n - 1 : f2[s[k]] = s[k + 1]
      /\ \A g \in Granules \ T : f2[g] = f[g]
  <2> DEFINE c == SectorsInLastGranule(len)
  <2>1. f \in Fats /\ n \in Nat \ {0} /\ OneToOne(s, n) /\ c \in 0 .. SectorsPerGranule
    BY <1>1, <1>2 DEF OneToOne
  <2> HIDE DEF n, c
  <2>2. /\ Linked(f, s, n, c) \in Fats
        /\ Linked(f, s, n, c)[s[n]] = BASE_LAST + c
        /\ \A k \in 1 .. n - 1 : Linked(f, s, n, c)[s[k]] = s[k + 1]
        /\ \A g \in Granules : (\A k \in 1 .. n : s[k] # g) => Linked(f, s, n, c)[g] = f[g]
    BY <2>1, LinkedValues
  <2> QED BY <2>2 DEF c
<1>4. BASE_LAST + SectorsInLastGranule(len) \in LastMarks
  BY <1>2, SizesAssumption DEF LastMarks, BASE_LAST
<1>5. Chain(f2, s[1]) = T
  <2> DEFINE c == SectorsInLastGranule(len)
  <2>1. f \in Fats /\ n \in Nat \ {0} /\ OneToOne(s, n) /\ c \in 0 .. SectorsPerGranule
    BY <1>1, <1>2 DEF OneToOne
  <2> HIDE DEF n, c
  <2>2. Chain(Linked(f, s, n, c), s[1]) = GranulesOf(s, n)
    BY <2>1, NewChain
  <2> QED BY <2>2 DEF c, GranulesOf
<1>6. i \in DirIndices /\ ~ Live(d, i) /\ \A j \in 0 .. i - 1 : Live(d, j)
  BY DEF FirstFreeEntry
<1>7. e \in DirEntries /\ e.kind = "live" /\ e.name = name /\ e.first = s[1] /\ e # EndOfDir
  <2>1. e.kind = "live" /\ e.name = name /\ e.first = s[1] /\ e # EndOfDir
    BY DEF NewEntry, EndOfDir
  <2>2. s[1] \in Granules
    BY <1>1
  <2> QED BY <2>1, <2>2, LastBytesFit DEF NewEntry, DirEntries
<1> HIDE DEF n, f2, e, T
<1>8. /\ d2 \in [DirIndices -> DirEntries]
      /\ LiveIn(d2) = LiveIn(d) \union {i}
      /\ d2[i] = e
      /\ \A j \in LiveIn(d) : j # i /\ d2[j] = d[j]
  BY <1>2, <1>6, <1>7 DEF LiveIn, Live
<1>9. \A j \in LiveIn(d) :
        /\ d[j].first \in Granules /\ d[j].name # name
        /\ \A g \in Chain(f, d[j].first) : g \in Granules /\ g \notin T /\ f2[g] = f[g]
        /\ Chain(f2, d[j].first) = Chain(f, d[j].first)
  <2> SUFFICES ASSUME NEW j \in LiveIn(d)
               PROVE  /\ d[j].first \in Granules /\ d[j].name # name
                      /\ \A g \in Chain(f, d[j].first) :
                            g \in Granules /\ g \notin T /\ f2[g] = f[g]
                      /\ Chain(f2, d[j].first) = Chain(f, d[j].first)
    OBVIOUS
  <2>1. d[j].first \in Granules
    BY <1>2, LiveFirst
  <2>2. \A g \in Chain(f, d[j].first) : f[g] # FREE_FAT_ENTRY
    BY <2>1, ChainAllocated DEF TablesInv, HeadsAllocated
  <2>3. \A g \in Chain(f, d[j].first) : g \in Granules /\ g \notin T
    BY <1>1, <2>2, ChainSubset DEF T
  <2>4. \A g \in Chain(f, d[j].first) : f2[g] = f[g]
    BY <1>3, <2>3
  <2>5. Chain(f2, d[j].first) = Chain(f, d[j].first)
    BY <2>1, <2>4, ChainLocal
  <2> QED BY <2>1, <2>3, <2>4, <2>5
<1>10. \A k \in 1 .. n : s[k] \in T /\ s[k] \in Granules /\ f2[s[k]] # FREE_FAT_ENTRY
  <2> SUFFICES ASSUME NEW k \in 1 .. n
               PROVE  s[k] \in T /\ s[k] \in Granules /\ f2[s[k]] # FREE_FAT_ENTRY
    OBVIOUS
  <2>1. s[k] \in T /\ s[k] \in Granules
    BY <1>1 DEF T
  <2>2. CASE k = n
    BY <1>3, <1>4, <2>1, <2>2, TableValues
  <2>3. CASE k # n
    <3>1. f2[s[k]] = s[k + 1] /\ s[k + 1] \in Granules
      BY <1>1, <1>3, <2>3
    <3> QED BY <2>1, <3>1, TableValues
  <2> QED BY <2>1, <2>2, <2>3
<1>11. \A g \in T : \E k \in 1 .. n : g = s[k]
  BY DEF T
(* A granule of the file that has a successor is not its last.             *)
<1>12. ASSUME NEW k \in 1 .. n, f2[s[k]] \in Granules
       PROVE  k + 1 \in 2 .. n /\ f2[s[k]] = s[k + 1]
  <2>1. k # n
    BY <1>3, <1>4, <1>12, TableValues
  <2> QED BY <1>1, <1>3, <2>1
(* Nothing old leads into the new file.                                    *)
<1>13. \A g \in Granules \ T : f2[g] = f[g] /\ f[g] \notin T
  <2> SUFFICES ASSUME NEW g \in Granules \ T, f[g] \in T PROVE FALSE
    BY <1>3
  <2>1. PICK k \in 1 .. n : f[g] = s[k]
    BY <1>11
  <2>2. f[g] \in Granules /\ f[f[g]] = FREE_FAT_ENTRY
    BY <1>1, <2>1
  <2> QED BY <2>2 DEF TablesInv, LinksAllocated
<1>14. \A j \in LiveIn(d) : d[j].first \notin T
  BY <1>9, ChainFirst
<1>15. s[1] \in T /\ 1 \in 1 .. n /\ s[1] \in Granules
  BY <1>1, <1>10
<1>16. DirInv(d2)
  <2>1. NoneAfterEnd(d2)
    <3> SUFFICES ASSUME NEW a \in DirIndices, NEW b \in DirIndices, a < b,
                        d2[a] = EndOfDir, Live(d2, b)
                 PROVE  FALSE
      BY DEF NoneAfterEnd
    <3>1. a # i /\ d[a] = EndOfDir
      BY <1>2, <1>7, <1>8
    <3>2. CASE b = i
      <4>1. a \in 0 .. i - 1
        BY <3>2, <1>6 DEF DirIndices
      <4>2. Live(d, a)
        BY <1>6, <4>1
      <4> QED BY <3>1, <4>2 DEF Live, EndOfDir
    <3>3. CASE b # i
      <4>1. Live(d, b)
        BY <1>2, <3>3 DEF Live
      <4> QED BY <3>1, <4>1 DEF TablesInv, DirInv, NoneAfterEnd
    <3> QED BY <3>2, <3>3
  <2>2. OneEach(d2)
    BY <1>7, <1>8, <1>9 DEF OneEach, TablesInv, DirInv
  <2>3. HeadsDistinct(d2)
    BY <1>7, <1>8, <1>14, <1>15 DEF HeadsDistinct, TablesInv, DirInv
  <2> QED BY <1>8, <2>1, <2>2, <2>3 DEF DirInv
<1>17. HeadsAllocated(f2, d2)
  <2>1. ASSUME NEW j \in LiveIn(d) PROVE f2[d2[j].first] # FREE_FAT_ENTRY
    <3>1. d2[j].first = d[j].first /\ d[j].first \in Chain(f, d[j].first)
      BY <1>8, <1>9, ChainFirst
    <3>2. f2[d[j].first] = f[d[j].first]
      BY <1>9, <3>1
    <3> QED BY <3>1, <3>2 DEF TablesInv, HeadsAllocated
  <2>2. f2[d2[i].first] # FREE_FAT_ENTRY
    BY <1>7, <1>8, <1>10, <1>15
  <2> QED BY <1>8, <2>1, <2>2 DEF HeadsAllocated
<1>18. HeadsUnlinked(f2, d2)
  <2>1. ASSUME NEW j \in LiveIn(d), NEW g \in Granules PROVE f2[g] # d2[j].first
    <3>1. d2[j].first = d[j].first /\ d[j].first \in Granules /\ d[j].first \notin T
      BY <1>8, <1>9, <1>14
    <3>2. CASE g \in T
      <4>1. PICK k \in 1 .. n : g = s[k]
        BY <1>11, <3>2
      <4>2. f2[g] \in Granules => f2[g] \in T
        BY <1>10, <1>12, <4>1
      <4> QED BY <3>1, <4>2
    <3>3. CASE g \notin T
      BY <1>3, <3>1, <3>3 DEF TablesInv, HeadsUnlinked, Unlinked
    <3> QED BY <3>2, <3>3
  <2>2. ASSUME NEW g \in Granules PROVE f2[g] # d2[i].first
    <3>1. d2[i].first = s[1]
      BY <1>7, <1>8
    <3>2. CASE g \in T
      <4>1. PICK k \in 1 .. n : g = s[k]
        BY <1>11, <3>2
      <4>2. ASSUME f2[g] = s[1] PROVE FALSE
        <5>1. k + 1 \in 2 .. n /\ s[k + 1] = s[1]
          BY <1>12, <1>15, <4>1, <4>2
        <5>2. k + 1 = 1
          BY <1>1, <1>15, <5>1
        <5> QED BY <5>1, <5>2
      <4> QED BY <3>1, <4>2
    <3>3. CASE g \notin T
      BY <1>13, <1>15, <3>1, <3>3
    <3> QED BY <3>2, <3>3
  <2> QED BY <1>8, <2>1, <2>2 DEF HeadsUnlinked, Unlinked
<1>19. LinksAllocated(f2)
  <2> SUFFICES ASSUME NEW g \in Granules, f2[g] \in Granules
               PROVE  f2[f2[g]] # FREE_FAT_ENTRY
    BY DEF LinksAllocated
  <2>1. CASE g \in T
    <3>1. PICK k \in 1 .. n : g = s[k]
      BY <1>11, <2>1
    <3>2. k + 1 \in 1 .. n /\ f2[g] = s[k + 1]
      BY <1>12, <3>1
    <3> QED BY <1>10, <3>2
  <2>2. CASE g \notin T
    <3>1. f2[g] = f[g] /\ f[g] \notin T
      BY <1>13, <2>2
    <3>2. f2[f[g]] = f[f[g]]
      BY <1>3, <3>1
    <3> QED BY <3>1, <3>2 DEF TablesInv, LinksAllocated
  <2> QED BY <2>1, <2>2
<1>20. LinksInjective(f2)
  <2> SUFFICES ASSUME NEW g \in Granules, NEW h \in Granules,
                      f2[g] \in Granules, f2[g] = f2[h]
               PROVE  g = h
    BY DEF LinksInjective
  <2>1. \A x \in T : f2[x] \in Granules => f2[x] \in T
    BY <1>10, <1>11, <1>12
  <2>2. CASE g \in T /\ h \in T
    <3>1. PICK k \in 1 .. n, l \in 1 .. n : g = s[k] /\ h = s[l]
      BY <1>11, <2>2
    <3>2. k + 1 \in 1 .. n /\ l + 1 \in 1 .. n /\ s[k + 1] = s[l + 1]
      BY <1>12, <3>1
    <3>3. k + 1 = l + 1
      BY <1>1, <3>2
    <3> QED BY <3>1, <3>3
  <2>3. CASE g \in T /\ h \notin T
    BY <1>13, <2>1, <2>3
  <2>4. CASE g \notin T /\ h \in T
    BY <1>13, <2>1, <2>4
  <2>5. CASE g \notin T /\ h \notin T
    BY <1>3, <2>5 DEF TablesInv, LinksInjective
  <2> QED BY <2>2, <2>3, <2>4, <2>5
<1>21. AllOwned(f2, d2)
  <2> SUFFICES ASSUME NEW g \in Granules, f2[g] # FREE_FAT_ENTRY
               PROVE  \E j \in LiveIn(d2) : g \in Chain(f2, d2[j].first)
    BY DEF AllOwned
  <2>1. CASE g \in T
    BY <1>5, <1>7, <1>8, <2>1
  <2>2. CASE g \notin T
    <3>1. f[g] # FREE_FAT_ENTRY
      BY <1>3, <2>2
    <3>2. PICK j \in LiveIn(d) : g \in Chain(f, d[j].first)
      BY <3>1 DEF TablesInv, AllOwned
    <3> QED BY <1>8, <1>9, <3>2
  <2> QED BY <2>1, <2>2
<1>22. AllEnd(f2, d2)
  <2>1. ASSUME NEW j \in LiveIn(d)
        PROVE  \E g \in Chain(f2, d2[j].first) : f2[g] \in LastMarks
    BY <1>8, <1>9 DEF TablesInv, AllEnd
  <2>2. s[n] \in T /\ f2[s[n]] \in LastMarks
    BY <1>1, <1>3, <1>4, <1>10
  <2> QED BY <1>5, <1>7, <1>8, <2>1, <2>2 DEF AllEnd
<1> QED BY <1>3, <1>16, <1>17, <1>18, <1>19, <1>20, <1>21, <1>22 DEF TablesInv

-----------------------------------------------------------------------------
(* The invocations.                                                        *)

(* The copy in memory after killFile(): sound tables, without a file of    *)
(* that name.                                                              *)
LEMMA AfterKillSound ==
  ASSUME TablesInv(fat, dir), NEW name, NEW k \in AfterKill(name)
  PROVE  TablesInv(k.fat, k.dir) /\ \A j \in LiveIn(k.dir) : k.dir[j].name # name
<1>1. CASE DirEntryPtr(dir, name) = {}
  <2>1. k = [fat |-> fat, dir |-> dir]
    BY <1>1 DEF AfterKill
  <2>2. ASSUME NEW j \in LiveIn(dir) PROVE dir[j].name # name
    <3>1. DirEntryPtr(dir, dir[j].name) = {j}
      BY EntryFound DEF TablesInv, DirInv, OneEach
    <3> QED BY <1>1, <3>1
  <2> QED BY <2>1, <2>2
<1>2. CASE DirEntryPtr(dir, name) # {}
  <2>1. PICK i \in DirEntryPtr(dir, name) :
          k = [fat |-> Freed(fat, dir[i].first), dir |-> [dir EXCEPT ![i] = Erased]]
    BY <1>2 DEF AfterKill
  <2>2. i \in LiveIn(dir) /\ dir[i].name = name /\ dir \in [DirIndices -> DirEntries] /\ i \in DirIndices
    BY EntryIsLive DEF TablesInv, DirInv, LiveIn
  <2>3. TablesInv(k.fat, k.dir)
    BY <2>1, <2>2, KillKeepsTables
  <2>4. LiveIn(k.dir) = LiveIn(dir) \ {i} /\ \A j \in LiveIn(k.dir) : k.dir[j] = dir[j]
    <3> DEFINE e == [dir EXCEPT ![i] = Erased]
    <3>1. LiveIn(e) = LiveIn(dir) \ {i} /\ \A j \in LiveIn(e) : e[j] = dir[j]
      BY <2>2, LiveAfterErase
    <3>2. k.dir = e
      BY <2>1
    <3> HIDE DEF e
    <3> QED BY <3>1, <3>2
  <2>5. \A j \in LiveIn(k.dir) : k.dir[j].name # name
    BY <2>2, <2>4 DEF TablesInv, DirInv, OneEach
  <2> QED BY <2>3, <2>5
<1> QED BY <1>1, <1>2

LEMMA TextEndInside ==
  ASSUME NEW file, Len(file) \in Nat
  PROVE  TextEnd(file) \in 0 .. Len(file)
<1> DEFINE len     == Len(file)
           P(n)    == (n = 0 \/ file[n] = LF) /\ \A k \in n + 1 .. len : file[k] # LF
           Feeds   == {k \in 0 .. len : k = 0 \/ file[k] = LF}
           FromEnd == {m \in 0 .. len : len - m \in Feeds}
<1>1. FromEnd \in SUBSET Nat /\ len \in FromEnd
  OBVIOUS
<1>2. PICK m \in FromEnd : \A k \in FromEnd : m <= k
  <2> HIDE DEF FromEnd
  <2> QED BY <1>1, LeastNatural
<1>3. len - m \in 0 .. len /\ len - m \in Feeds
  BY <1>2
<1>4. ASSUME NEW k \in (len - m) + 1 .. len, file[k] = LF PROVE FALSE
  <2>1. len - k \in 0 .. len /\ len - (len - k) = k /\ len - k < m
    BY <1>2, <1>4
  <2>2. len - k \in FromEnd
    BY <1>3, <1>4, <2>1
  <2> QED BY <1>2, <2>1, <2>2
<1>5. \E n \in 0 .. len : P(n)
  BY <1>3, <1>4
<1> QED BY <1>5 DEF TextEnd

LEMMA StoredBytes ==
  ASSUME NEW bytes \in StoredFiles
  PROVE  bytes \in Seq(Bytes) /\ Len(bytes) \in Nat
<1>1. PICK file \in NativeFiles, format \in Formats : bytes = Converted(file, format)
  BY DEF StoredFiles
<1>2. file \in Seq(Bytes) /\ CR \in Bytes
  BY <1>1, FilesAssumption
<1>3. Len(file) \in Nat /\ \A k \in 1 .. Len(file) : file[k] \in Bytes
  BY <1>2, LenProperties, ElementOfSeq
<1> DEFINE byte(k) == IF format # "binary" /\ file[k] = LF THEN CR ELSE file[k]
<1>4. ASSUME NEW n \in 0 .. Len(file) PROVE [k \in 1 .. n |-> byte(k)] \in Seq(Bytes)
  <2>1. [k \in 1 .. n |-> byte(k)] \in [1 .. n -> Bytes] /\ n \in Nat
    BY <1>2, <1>3
  <2> QED BY <2>1, SeqDef
<1>5. CASE format = "newlines"
  <2>1. TextEnd(file) \in 0 .. Len(file)
    BY <1>3, TextEndInside
  <2>2. bytes = <<CR>> \o [k \in 1 .. TextEnd(file) |-> byte(k)]
    BY <1>1, <1>5 DEF Converted
  <2>3. <<CR>> \in Seq(Bytes) /\ [k \in 1 .. TextEnd(file) |-> byte(k)] \in Seq(Bytes)
    BY <1>2, <1>4, <2>1
  <2> QED BY <2>2, <2>3, LenProperties, ConcatProperties
<1>6. CASE format # "newlines"
  <2>1. bytes = [k \in 1 .. Len(file) |-> byte(k)] /\ Len(file) \in 0 .. Len(file)
    BY <1>1, <1>3, <1>6 DEF Converted
  <2>2. bytes \in Seq(Bytes)
    BY <1>4, <2>1
  <2> QED BY <2>2, LenProperties
<1> QED BY <1>5, <1>6

LEMMA AfterAddSound ==
  ASSUME NEW k, TablesInv(k.fat, k.dir),
         NEW name \in Names, \A j \in LiveIn(k.dir) : k.dir[j].name # name,
         NEW bytes \in StoredFiles, NEW r \in AfterAdd(k, name, bytes)
  PROVE  TablesInv(r.fat, r.dir)
<1> DEFINE len == Len(bytes)
           n   == SizeInGranules(len)
<1>1. len \in Nat
  BY StoredBytes
<1>2. PICK s \in Allocations(k.fat, n), i \in FirstFreeEntry(k.dir) :
        r = [fat  |-> Linked(k.fat, s, n, SectorsInLastGranule(len)),
             dir  |-> [k.dir EXCEPT ![i] = NewEntry(name, s[1], len)],
             data |-> Written(data, s, n, bytes)]
  BY DEF AfterAdd
<1>3. r.fat = Linked(k.fat, s, n, SectorsInLastGranule(len))
      /\ r.dir = [k.dir EXCEPT ![i] = NewEntry(name, s[1], len)]
  BY <1>2
<1> HIDE DEF len
<1> QED BY <1>1, <1>2, <1>3, AddKeepsTables

LEMMA InitSound == Init => TablesInv(fat, dir)
<1> SUFFICES ASSUME Init PROVE TablesInv(fat, dir)
  OBVIOUS
<1>1. fat \in Fats /\ \A g \in Granules : fat[g] = FREE_FAT_ENTRY
  BY DEF Init, Fats, FatValues
<1>2. dir \in [DirIndices -> DirEntries] /\ LiveIn(dir) = {}
  BY DEF Init, DirEntries, LiveIn, Live, EndOfDir
<1>3. NoneAfterEnd(dir)
  BY <1>2 DEF NoneAfterEnd, LiveIn
<1> QED BY <1>1, <1>2, <1>3, TableValues
        DEF TablesInv, DirInv, OneEach, HeadsDistinct, HeadsAllocated, HeadsUnlinked,
            LinksAllocated, LinksInjective, AllOwned, AllEnd

(* What an invocation for a name leaves alone: the entries of other names, *)
(* and the table entries of their granules.                                *)
LEMMA KillLeavesOthers ==
  ASSUME TablesInv(fat, dir), NEW name, NEW k \in AfterKill(name),
         NEW j \in LiveIn(dir), dir[j].name # name
  PROVE  /\ j \in LiveIn(k.dir) /\ k.dir[j] = dir[j]
         /\ \A g \in Chain(fat, dir[j].first) : k.fat[g] = fat[g]
         /\ Chain(k.fat, dir[j].first) = Chain(fat, dir[j].first)
<1>1. CASE DirEntryPtr(dir, name) = {}
  BY <1>1 DEF AfterKill
<1>2. CASE DirEntryPtr(dir, name) # {}
  <2>1. PICK i \in DirEntryPtr(dir, name) :
          k = [fat |-> Freed(fat, dir[i].first), dir |-> [dir EXCEPT ![i] = Erased]]
    BY <1>2 DEF AfterKill
  <2>2. k.fat = Freed(fat, dir[i].first) /\ k.dir = [dir EXCEPT ![i] = Erased]
    BY <2>1
  <2>3. i \in LiveIn(dir) /\ j # i /\ dir \in [DirIndices -> DirEntries] /\ i \in DirIndices
    BY EntryIsLive DEF TablesInv, DirInv, LiveIn
  <2>4. j \in LiveIn(k.dir) /\ k.dir[j] = dir[j]
    BY <2>2, <2>3 DEF LiveIn, Live
  <2> QED BY <2>2, <2>3, <2>4, OthersSurviveFree
<1> QED BY <1>1, <1>2

(* killFile() erases an entry and makes none.                              *)
LEMMA KillAddsNone ==
  ASSUME TablesInv(fat, dir), NEW name, NEW k \in AfterKill(name), NEW j \in LiveIn(k.dir)
  PROVE  j \in LiveIn(dir) /\ k.dir[j] = dir[j]
<1>1. CASE DirEntryPtr(dir, name) = {}
  BY <1>1 DEF AfterKill
<1>2. CASE DirEntryPtr(dir, name) # {}
  <2>1. PICK i \in DirEntryPtr(dir, name) :
          k = [fat |-> Freed(fat, dir[i].first), dir |-> [dir EXCEPT ![i] = Erased]]
    BY <1>2 DEF AfterKill
  <2>2. i \in DirIndices /\ dir \in [DirIndices -> DirEntries] /\ k.dir = [dir EXCEPT ![i] = Erased]
    BY <2>1, EntryIsLive DEF TablesInv, DirInv, LiveIn
  <2> QED BY <2>2 DEF LiveIn, Live, Erased
<1> QED BY <1>1, <1>2

LEMMA AddLeavesOthers ==
  ASSUME NEW k, TablesInv(k.fat, k.dir), NEW name,
         NEW bytes \in StoredFiles, NEW r \in AfterAdd(k, name, bytes),
         NEW j \in LiveIn(k.dir)
  PROVE  /\ r.dir[j] = k.dir[j]
         /\ \A g \in Chain(k.fat, k.dir[j].first) : r.fat[g] = k.fat[g] /\ r.data[g] = data[g]
<1> DEFINE len == Len(bytes)
           n   == SizeInGranules(len)
           c   == SectorsInLastGranule(len)
<1>1. len \in Nat
  BY StoredBytes
<1>2. n \in Nat \ {0} /\ c \in 0 .. SectorsPerGranule
  BY <1>1, SizeIsPositive, SectorsFit
<1>3. PICK s \in Allocations(k.fat, n), i \in FirstFreeEntry(k.dir) :
        r = [fat  |-> Linked(k.fat, s, n, c),
             dir  |-> [k.dir EXCEPT ![i] = NewEntry(name, s[1], len)],
             data |-> Written(data, s, n, bytes)]
  BY DEF AfterAdd
<1>4. /\ r.fat  = Linked(k.fat, s, n, c)
      /\ r.dir  = [k.dir EXCEPT ![i] = NewEntry(name, s[1], len)]
      /\ r.data = Written(data, s, n, bytes)
  BY <1>3
<1> HIDE DEF len, n, c
<1>5. k.fat \in Fats /\ k.dir \in [DirIndices -> DirEntries]
  BY DEF TablesInv, DirInv
<1>6. i # j /\ j \in DirIndices
  BY DEF FirstFreeEntry, LiveIn
<1>7. r.dir[j] = k.dir[j]
  BY <1>4, <1>5, <1>6
<1>8. \A g \in Chain(k.fat, k.dir[j].first) :
        g \in Granules /\ \A l \in 1 .. n : s[l] # g
  <2>1. k.dir[j].first \in Granules
    BY <1>5, LiveFirst
  <2>2. \A g \in Chain(k.fat, k.dir[j].first) : k.fat[g] # FREE_FAT_ENTRY
    BY <2>1, ChainAllocated DEF TablesInv, HeadsAllocated
  <2>3. \A l \in 1 .. n : k.fat[s[l]] = FREE_FAT_ENTRY
    BY <1>2, AllocatedOnce
  <2> QED BY <2>2, <2>3, ChainSubset
<1>9. \A g \in Granules : (\A l \in 1 .. n : s[l] # g) => Linked(k.fat, s, n, c)[g] = k.fat[g]
  BY <1>2 DEF Linked
<1>10. \A g \in Granules : (\A l \in 1 .. n : s[l] # g) => Written(data, s, n, bytes)[g] = data[g]
  BY DEF Written
<1> QED BY <1>4, <1>7, <1>8, <1>9, <1>10

(* What the image to be written back has in common with the old one: all   *)
(* that belongs to files of other names.                                   *)

Others(name) == {j \in LiveIn(dir) : dir[j].name # name}

Spares(name, r) ==
  /\ TablesInv(r.fat, r.dir)
  /\ \A j \in Others(name) :
       /\ r.dir[j] = dir[j]
       /\ \A g \in Chain(fat, dir[j].first) : r.fat[g] = fat[g] /\ r.data[g] = data[g]
  /\ \A j \in LiveIn(r.dir) : r.dir[j].name # name => j \in LiveIn(dir) /\ r.dir[j] = dir[j]

LEMMA KillSpares ==
  ASSUME TablesInv(fat, dir), NEW name, NEW k \in AfterKill(name)
  PROVE  Spares(name, [fat |-> k.fat, dir |-> k.dir, data |-> data])
BY AfterKillSound, KillLeavesOthers, KillAddsNone DEF Spares, Others

LEMMA AddSpares ==
  ASSUME TablesInv(fat, dir), NEW name \in Names, NEW k \in AfterKill(name),
         NEW bytes \in StoredFiles, NEW r \in AfterAdd(k, name, bytes)
  PROVE  Spares(name, r)
<1>1. TablesInv(k.fat, k.dir) /\ \A j \in LiveIn(k.dir) : k.dir[j].name # name
  BY AfterKillSound
<1>2. TablesInv(r.fat, r.dir)
  BY <1>1, AfterAddSound
<1>3. ASSUME NEW j \in Others(name)
      PROVE  /\ r.dir[j] = dir[j]
             /\ \A g \in Chain(fat, dir[j].first) : r.fat[g] = fat[g] /\ r.data[g] = data[g]
  <2>1. /\ j \in LiveIn(k.dir) /\ k.dir[j] = dir[j]
        /\ \A g \in Chain(fat, dir[j].first) : k.fat[g] = fat[g]
        /\ Chain(k.fat, dir[j].first) = Chain(fat, dir[j].first)
    BY KillLeavesOthers DEF Others
  <2>2. /\ r.dir[j] = k.dir[j]
        /\ \A g \in Chain(k.fat, k.dir[j].first) : r.fat[g] = k.fat[g] /\ r.data[g] = data[g]
    BY <1>1, <2>1, AddLeavesOthers
  <2> QED BY <2>1, <2>2
<1>4. ASSUME NEW j \in LiveIn(r.dir), r.dir[j].name # name
      PROVE  j \in LiveIn(dir) /\ r.dir[j] = dir[j]
  <2>1. PICK i \in FirstFreeEntry(k.dir), s \in Allocations(k.fat, SizeInGranules(Len(bytes))) :
          r.dir = [k.dir EXCEPT ![i] = NewEntry(name, s[1], Len(bytes))]
    BY DEF AfterAdd
  <2>2. k.dir \in [DirIndices -> DirEntries] /\ i \in DirIndices
    BY <1>1 DEF TablesInv, DirInv, FirstFreeEntry
  <2>3. j # i
    BY <1>4, <2>1, <2>2 DEF NewEntry
  <2>4. j \in LiveIn(k.dir) /\ r.dir[j] = k.dir[j]
    BY <2>1, <2>2, <2>3 DEF LiveIn, Live
  <2> QED BY <2>4, KillAddsNone
<1> QED BY <1>2, <1>3, <1>4 DEF Spares

(* The images that an invocation for a name may write back.                *)
Images(n) == Killed(n) \union UNION {Replaced(n, bytes) : bytes \in StoredFiles}

LEMMA ImagesSpare ==
  ASSUME TablesInv(fat, dir), NEW n \in NativeNames, NEW r \in Images(n)
  PROVE  Spares(CoCoName[n], r)
<1>1. CASE r \in Killed(n)
  BY <1>1, KillSpares DEF Killed
<1>2. ASSUME NEW bytes \in StoredFiles, r \in Replaced(n, bytes) PROVE Spares(CoCoName[n], r)
  <2>1. PICK k \in AfterKill(CoCoName[n]) : r \in AfterAdd(k, CoCoName[n], bytes)
    BY <1>2 DEF Replaced
  <2> QED BY <2>1, AddSpares, NamesAssumption
<1> QED BY <1>1, <1>2 DEF Images

LEMMA ImagesData ==
  ASSUME NEW n \in NativeNames, NEW r \in Images(n)
  PROVE  r.data = data \/ DOMAIN r.data = Granules
<1>1. CASE r \in Killed(n)
  BY <1>1 DEF Killed
<1>2. ASSUME NEW bytes \in StoredFiles, r \in Replaced(n, bytes) PROVE DOMAIN r.data = Granules
  <2>1. PICK k \in AfterKill(CoCoName[n]) : r \in AfterAdd(k, CoCoName[n], bytes)
    BY <1>2 DEF Replaced
  <2> QED BY <2>1 DEF AfterAdd, Written
<1> QED BY <1>1, <1>2 DEF Images

(* killFile() and addFile() leave no entry after one that marks the end of *)
(* the old directory, and make no mark.                                    *)
KeepsEnd(r) ==
  /\ \A i, j \in DirIndices : i < j /\ dir[i] = EndOfDir => ~ Live(r.dir, j)
  /\ \A i \in DirIndices : r.dir[i] = EndOfDir => dir[i] = EndOfDir

LEMMA KillKeepsEnd ==
  ASSUME TablesInv(fat, dir), NEW name, NEW k \in AfterKill(name)
  PROVE  /\ KeepsEnd([fat |-> k.fat, dir |-> k.dir, data |-> data])
         /\ \A i \in DirIndices : dir[i] = EndOfDir => k.dir[i] = EndOfDir
<1>1. \A i, j \in DirIndices : i < j /\ dir[i] = EndOfDir => ~ Live(dir, j)
  BY DEF TablesInv, DirInv, NoneAfterEnd
<1>2. CASE DirEntryPtr(dir, name) = {}
  BY <1>1, <1>2 DEF AfterKill, KeepsEnd
<1>3. CASE DirEntryPtr(dir, name) # {}
  <2>1. PICK e \in DirEntryPtr(dir, name) :
          k = [fat |-> Freed(fat, dir[e].first), dir |-> [dir EXCEPT ![e] = Erased]]
    BY <1>3 DEF AfterKill
  <2>2. /\ e \in DirIndices /\ dir \in [DirIndices -> DirEntries]
        /\ k.dir = [dir EXCEPT ![e] = Erased] /\ Live(dir, e)
    BY <2>1, EntryIsLive DEF TablesInv, DirInv, LiveIn
  <2>3. Erased # EndOfDir /\ Erased.kind # "live" /\ dir[e] # EndOfDir
    BY <2>2 DEF Erased, EndOfDir, Live
  <2> QED BY <1>1, <2>2, <2>3 DEF KeepsEnd, Live
<1> QED BY <1>2, <1>3

LEMMA ImagesKeepEnd ==
  ASSUME TablesInv(fat, dir), NEW n \in NativeNames, NEW r \in Images(n)
  PROVE  KeepsEnd(r)
<1>1. CASE r \in Killed(n)
  BY <1>1, KillKeepsEnd DEF Killed
<1>2. ASSUME NEW bytes \in StoredFiles, r \in Replaced(n, bytes) PROVE KeepsEnd(r)
  <2>1. PICK k \in AfterKill(CoCoName[n]) : r \in AfterAdd(k, CoCoName[n], bytes)
    BY <1>2 DEF Replaced
  <2>2. PICK e \in FirstFreeEntry(k.dir), s \in Allocations(k.fat, SizeInGranules(Len(bytes))) :
          r.dir = [k.dir EXCEPT ![e] = NewEntry(CoCoName[n], s[1], Len(bytes))]
    BY <2>1 DEF AfterAdd
  <2> DEFINE new == NewEntry(CoCoName[n], s[1], Len(bytes))
  <2>3. k.dir \in [DirIndices -> DirEntries] /\ e \in DirIndices
    BY AfterKillSound DEF TablesInv, DirInv, FirstFreeEntry
  <2>4. new # EndOfDir
    BY DEF NewEntry, EndOfDir
  <2>5. \A i \in DirIndices : i < e => Live(k.dir, i)
    BY <2>3 DEF FirstFreeEntry, DirIndices
  <2>6. \A i \in DirIndices : dir[i] = EndOfDir => k.dir[i] = EndOfDir
    BY KillKeepsEnd
  <2>7. /\ \A i, j \in DirIndices : i < j /\ dir[i] = EndOfDir => ~ Live(k.dir, j)
        /\ \A i \in DirIndices : k.dir[i] = EndOfDir => dir[i] = EndOfDir
    BY KillKeepsEnd DEF KeepsEnd
  <2>8. \A i \in DirIndices : Live(k.dir, i) => k.dir[i] # EndOfDir
    BY DEF Live, EndOfDir
  <2> HIDE DEF new
  <2>9. \A i \in DirIndices : r.dir[i] = IF i = e THEN new ELSE k.dir[i]
    BY <2>2, <2>3 DEF new
  <2>10. \A j \in DirIndices : j # e /\ Live(r.dir, j) => Live(k.dir, j)
    BY <2>9 DEF Live
  <2>11. ASSUME NEW i \in DirIndices, i < e PROVE dir[i] # EndOfDir
    BY <2>5, <2>6, <2>8, <2>11
  <2> QED BY <2>3, <2>4, <2>7, <2>9, <2>10, <2>11 DEF KeepsEnd
<1> QED BY <1>1, <1>2 DEF Images

-----------------------------------------------------------------------------
(***************************************************************************)
(* What a failed or interrupted write-back cannot do, whatever parts of    *)
(* the new image reached the medium.                                       *)
(*                                                                         *)
(* A torn table satisfies nothing of TablesInv: its chains may branch, be  *)
(* cut or run in circles.  But the granules are divided: those that the    *)
(* files of other names own have the same entry in the old and in the new  *)
(* table, and the set of all the rest is closed under both tables, hence   *)
(* under any mixture of them.  So a chain that starts in the rest stays    *)
(* there.                                                                  *)
(***************************************************************************)

(* The granules that no file of J owns.                                    *)
Rest(f, d, J) == {g \in Granules : \A j \in J : g \notin Chain(f, d[j].first)}

(* No link leads from the rest to a file of J, and a file outside of J     *)
(* starts in the rest.                                                     *)
LEMMA RestClosed ==
  ASSUME NEW f, NEW d, TablesInv(f, d), NEW J \in SUBSET LiveIn(d)
  PROVE  /\ Closed(f, Rest(f, d, J))
         /\ \A i \in LiveIn(d) \ J : d[i].first \in Rest(f, d, J)
<1>1. \A i \in LiveIn(d) : d[i].first \in Granules
  BY LiveFirst DEF TablesInv, DirInv
<1>2. ASSUME NEW g \in Rest(f, d, J), f[g] \in Granules, NEW j \in J,
             f[g] \in Chain(f, d[j].first)
      PROVE  FALSE
  <2>1. g \in Granules /\ g \notin Chain(f, d[j].first)
    BY DEF Rest
  <2>2. f[g] # d[j].first
    BY <2>1 DEF TablesInv, HeadsUnlinked, Unlinked
  <2>3. PICK h \in Chain(f, d[j].first) : f[h] = f[g]
    BY <1>1, <1>2, <2>2, ChainPredecessor
  <2>4. h = g
    BY <1>2, <2>1, <2>3, ChainSubset DEF TablesInv, LinksInjective
  <2> QED BY <2>1, <2>4
<1>3. ASSUME NEW i \in LiveIn(d) \ J, NEW j \in J PROVE d[i].first \notin Chain(f, d[j].first)
  <2>1. d[i].first # d[j].first
    BY DEF TablesInv, DirInv, HeadsDistinct
  <2>2. Chain(f, d[i].first) \intersect Chain(f, d[j].first) = {}
    BY <1>1, <2>1, ChainsApart DEF TablesInv, HeadsUnlinked
  <2> QED BY <1>1, <2>2, ChainFirst
<1> QED BY <1>1, <1>2, <1>3 DEF Closed, Rest

-----------------------------------------------------------------------------
(* The torn image.                                                         *)

(* Its parts come from one image or the other.                             *)
LEMMA TornParts ==
  ASSUME NEW r, NEW F, NEW D, NEW G
  PROVE  LET t == Torn(r, F, D, G)
         IN  /\ \A g \in Granules : t.fat[g] \in {fat[g], r.fat[g]} /\ t.data[g] \in {data[g], r.data[g]}
             /\ \A i \in DirIndices : t.dir[i] \in {dir[i], r.dir[i]}
BY DEF Torn

(* The files of other names are whole in it.                               *)
LEMMA TornSpares ==
  ASSUME TablesInv(fat, dir), NEW name, NEW r, Spares(name, r), NEW F, NEW D, NEW G,
         NEW j \in Others(name)
  PROVE  LET t == Torn(r, F, D, G)
         IN  /\ t.dir[j] = dir[j]
             /\ \A g \in Chain(fat, dir[j].first) : t.fat[g] = fat[g] /\ t.data[g] = data[g]
             /\ Chain(t.fat, dir[j].first) = Chain(fat, dir[j].first)
<1> DEFINE t == Torn(r, F, D, G)
<1>1. j \in DirIndices /\ dir[j].first \in Granules
  BY LiveFirst DEF Others, TablesInv, DirInv
<1>2. t.dir[j] = dir[j]
  BY <1>1, TornParts DEF Spares
<1>3. \A g \in Chain(fat, dir[j].first) : t.fat[g] = fat[g] /\ t.data[g] = data[g]
  BY ChainSubset, TornParts DEF Spares
<1>4. Chain(t.fat, dir[j].first) = Chain(fat, dir[j].first)
  <2> HIDE DEF t
  <2> QED BY <1>1, <1>3, ChainLocal
<1> QED BY <1>2, <1>3, <1>4

(* A live entry of it is that of a file of another name, or leads nowhere  *)
(* into their granules.                                                    *)
LEMMA TornEntry ==
  ASSUME TablesInv(fat, dir), NEW name, NEW r, Spares(name, r), NEW F, NEW D, NEW G,
         NEW i \in LiveIn(Torn(r, F, D, G).dir)
  PROVE  LET t == Torn(r, F, D, G)
         IN  \/ i \in Others(name) /\ t.dir[i].name # name
             \/ /\ t.dir[i].name = name
                /\ Chain(t.fat, t.dir[i].first) \subseteq Rest(fat, dir, Others(name))
<1> DEFINE t == Torn(r, F, D, G)
           J == Others(name)
<1>1. i \in DirIndices /\ Live(t.dir, i) /\ t.dir[i] \in {dir[i], r.dir[i]}
  BY TornParts DEF LiveIn
<1>2. CASE t.dir[i].name # name
  BY <1>1, <1>2 DEF Others, Spares, LiveIn, Live
<1>3. CASE t.dir[i].name = name
  <2>1. J \in SUBSET LiveIn(dir) /\ J \in SUBSET LiveIn(r.dir)
    BY DEF Others, Spares, LiveIn, Live
  <2>2. Rest(r.fat, r.dir, J) = Rest(fat, dir, J)
    <3>1. ASSUME NEW j \in J
          PROVE  dir[j].first \in Granules /\ \A g \in Chain(fat, dir[j].first) : r.fat[g] = fat[g]
      BY <2>1, LiveFirst DEF Spares, TablesInv, DirInv
    <3>2. ASSUME NEW j \in J PROVE Chain(r.fat, r.dir[j].first) = Chain(fat, dir[j].first)
      BY <3>1, ChainLocal DEF Spares
    <3> QED BY <3>2 DEF Rest
  <2>3. Closed(fat, Rest(fat, dir, J)) /\ Closed(r.fat, Rest(fat, dir, J))
    BY <2>1, <2>2, RestClosed DEF Spares
  <2>4. Closed(t.fat, Rest(fat, dir, J))
    <3> HIDE DEF J
    <3> QED BY <2>3, TornParts DEF Closed, Rest
  <2>5. t.dir[i].first \in Rest(fat, dir, J)
    <3>1. CASE t.dir[i] = dir[i]
      <4>1. i \in LiveIn(dir) \ J
        BY <1>1, <1>3, <3>1 DEF Others, LiveIn, Live
      <4> QED BY <2>1, <3>1, <4>1, RestClosed
    <3>2. CASE t.dir[i] = r.dir[i]
      <4>1. i \in LiveIn(r.dir) \ J
        BY <1>1, <1>3, <3>2 DEF Others, Spares, LiveIn, Live
      <4> QED BY <2>1, <2>2, <3>2, <4>1, RestClosed DEF Spares
    <3> QED BY <1>1, <3>1, <3>2
  <2>6. Rest(fat, dir, J) \in SUBSET Granules
    BY DEF Rest
  <2> HIDE DEF t, J
  <2>7. Chain(t.fat, t.dir[i].first) \subseteq Rest(fat, dir, J)
    BY <2>4, <2>5, <2>6, ChainLeast
  <2> QED BY <1>3, <2>7 DEF t, J
<1> QED BY <1>2, <1>3

Apart(f, d) ==
  \A i, j \in LiveIn(d) :
    d[i].name # d[j].name => Chain(f, d[i].first) \intersect Chain(f, d[j].first) = {}

LEMMA SoundTablesApart ==
  ASSUME NEW f, NEW d, TablesInv(f, d)
  PROVE  Apart(f, d)
<1> SUFFICES ASSUME NEW i \in LiveIn(d), NEW j \in LiveIn(d), d[i].name # d[j].name
             PROVE  Chain(f, d[i].first) \intersect Chain(f, d[j].first) = {}
  BY DEF Apart
<1>1. d[i].first \in Granules /\ d[j].first \in Granules /\ d[i].first # d[j].first
  BY LiveFirst DEF TablesInv, DirInv, HeadsDistinct
<1> QED BY <1>1, ChainsApart DEF TablesInv, HeadsUnlinked

LEMMA TornApart ==
  ASSUME TablesInv(fat, dir), NEW name, NEW r, Spares(name, r), NEW F, NEW D, NEW G
  PROVE  Apart(Torn(r, F, D, G).fat, Torn(r, F, D, G).dir)
<1> DEFINE t == Torn(r, F, D, G)
           J == Others(name)
<1>1. \A j \in J : t.dir[j] = dir[j] /\ Chain(t.fat, dir[j].first) = Chain(fat, dir[j].first)
  BY TornSpares
<1>2. \A i \in LiveIn(t.dir) :
        \/ i \in J /\ t.dir[i].name # name
        \/ t.dir[i].name = name /\ Chain(t.fat, t.dir[i].first) \subseteq Rest(fat, dir, J)
  BY TornEntry
<1>3. ASSUME NEW i \in J, NEW j \in J, dir[i].name # dir[j].name
      PROVE  Chain(fat, dir[i].first) \intersect Chain(fat, dir[j].first) = {}
  BY <1>3, SoundTablesApart DEF Apart, Others
<1>4. ASSUME NEW j \in J PROVE Chain(fat, dir[j].first) \intersect Rest(fat, dir, J) = {}
  BY DEF Rest
<1> HIDE DEF t, J
<1>5. Apart(t.fat, t.dir)
  BY <1>1, <1>2, <1>3, <1>4 DEF Apart
<1> QED BY <1>5 DEF t

-----------------------------------------------------------------------------
(* The steps.                                                              *)

(* What an invocation for name n comes to: it is refused, it stores one of *)
(* its images, or it leaves a mixture of that image and the old one.       *)
Step(n) ==
  /\ Intact /\ asked' \in Requests /\ asked'.name = n
  /\ \/ status' = "error" /\ UNCHANGED <<fat, dir, data>>
     \/ \E r \in Images(n) : Becomes(r) /\ status' = "ok"
     \/ \E r \in Images(n), F \in SUBSET Granules, D \in SUBSET DirIndices, G \in SUBSET Granules :
          Becomes(Torn(r, F, D, G)) /\ status' \in {"commit failed", "torn"}

LEMMA CommitCases ==
  ASSUME NEW r, Commit(r)
  PROVE  \/ Becomes(r) /\ status' = "ok"
         \/ \E F \in SUBSET Granules, D \in SUBSET DirIndices, G \in SUBSET Granules :
              Becomes(Torn(r, F, D, G)) /\ status' = "commit failed"
BY DEF Commit, Cut

LEMMA InvocationIsStep ==
  ASSUME NEW n \in NativeNames, Intact,
         KillOnly(n) \/ RefuseFile(n) \/ \E bytes \in StoredFiles : WriteFile(n, bytes)
  PROVE  Step(n)
<1>1. CASE KillOnly(n)
  <2>1. PICK r \in Killed(n) : Commit(r)
    BY <1>1 DEF KillOnly
  <2>2. r \in Images(n) /\ asked' \in Requests /\ asked'.name = n
    BY <1>1 DEF Images, KillOnly, Requests, Killing
  <2> QED BY <2>1, <2>2, CommitCases DEF Step
<1>2. CASE RefuseFile(n)
  BY <1>2 DEF RefuseFile, Step, Requests, Misreading
<1>3. ASSUME NEW bytes \in StoredFiles, WriteFile(n, bytes) PROVE Step(n)
  <2>1. asked' \in Requests /\ asked'.name = n
    BY <1>3 DEF WriteFile, Requests, Writing
  <2>2. CASE status' = "error" /\ UNCHANGED <<fat, dir, data>>
    BY <2>1, <2>2 DEF Step
  <2>3. ASSUME NEW r \in Replaced(n, bytes), Commit(r) PROVE Step(n)
    <3>1. r \in Images(n)
      BY <2>3 DEF Images
    <3> QED BY <2>1, <2>3, <3>1, CommitCases DEF Step
  <2> QED BY <1>3, <2>2, <2>3 DEF WriteFile
<1> QED BY <1>1, <1>2, <1>3

LEMMA StepCases ==
  ASSUME CrashNext
  PROVE  (~ Intact /\ UNCHANGED vars) \/ \E n \in NativeNames : Step(n)
<1>1. ASSUME NEW n \in NativeNames, Intact, CrashInCommit(n) PROVE Step(n)
  <2>1. PICK r \in Images(n) : Interrupted(r) /\ asked' \in Requests /\ asked'.name = n
    BY <1>1 DEF CrashInCommit, Images, Requests, Killing, Writing
  <2> QED BY <1>1, <2>1 DEF Interrupted, Step
<1> QED BY <1>1, InvocationIsStep DEF CrashNext, Next, Look

LEMMA SpecIsCrashSpec == Spec => CrashSpec
<1>1. [Next]_vars => [CrashNext]_vars
  BY DEF CrashNext
<1> QED BY <1>1, PTL DEF Spec, CrashSpec

(* An invocation that leaves the image intact leaves its tables sound, and *)
(* no entry ever gets behind the end of the directory.                     *)
TablesHold ==
  /\ Intact => TablesInv(fat, dir)
  /\ NoneAfterEnd(dir)
  /\ Apart(fat, dir)

LEMMA StepSound ==
  ASSUME TablesInv(fat, dir), NEW n \in NativeNames, Step(n)
  PROVE  TablesHold'
<1>1. CASE status' = "error" /\ UNCHANGED <<fat, dir, data>>
  BY <1>1, SoundTablesApart DEF TablesHold, TablesInv, DirInv
<1>2. ASSUME NEW r \in Images(n), Becomes(r), status' = "ok" PROVE TablesHold'
  <2>1. TablesInv(r.fat, r.dir) /\ fat' = r.fat /\ dir' = r.dir
    BY <1>2, ImagesSpare DEF Spares, Becomes
  <2> QED BY <2>1, SoundTablesApart DEF TablesHold, TablesInv, DirInv
<1>3. ASSUME NEW r \in Images(n), NEW F \in SUBSET Granules, NEW D \in SUBSET DirIndices,
             NEW G \in SUBSET Granules, Becomes(Torn(r, F, D, G)),
             status' \in {"commit failed", "torn"}
      PROVE  TablesHold'
  <2>1. Spares(CoCoName[n], r) /\ KeepsEnd(r)
    BY ImagesSpare, ImagesKeepEnd
  <2>2. fat' = Torn(r, F, D, G).fat /\ dir' = Torn(r, F, D, G).dir
    BY <1>3 DEF Becomes
  <2>3. Apart(fat', dir')
    BY <2>1, <2>2, TornApart
  <2>4. \A i \in DirIndices : dir'[i] \in {dir[i], r.dir[i]}
    BY <2>2, TornParts
  <2>5. NoneAfterEnd(dir)
    BY DEF TablesInv, DirInv
  <2>6. NoneAfterEnd(dir')
    BY <2>1, <2>4, <2>5 DEF NoneAfterEnd, KeepsEnd, Live
  <2>7. ~ Intact'
    BY <1>3 DEF Intact
  <2> QED BY <2>3, <2>6, <2>7 DEF TablesHold
<1> QED BY <1>1, <1>2, <1>3 DEF Step

LEMMA InitHolds == Init => TablesHold
BY InitSound, SoundTablesApart DEF TablesHold, TablesInv, DirInv

LEMMA NextHolds == TablesHold /\ [CrashNext]_vars => TablesHold'
<1> SUFFICES ASSUME TablesHold, [CrashNext]_vars PROVE TablesHold'
  OBVIOUS
<1>1. CASE UNCHANGED vars
  BY <1>1 DEF vars, TablesHold, Intact
<1>2. ASSUME NEW n \in NativeNames, Step(n) PROVE TablesHold'
  BY <1>2, StepSound DEF TablesHold, Step
<1> QED BY <1>1, <1>2, StepCases

LEMMA TablesInvariant == CrashSpec => []TablesHold
BY InitHolds, NextHolds, PTL DEF CrashSpec

LEMMA LiveEntriesAre == LiveEntries = LiveIn(dir)
BY DEF LiveEntries, LiveIn

-----------------------------------------------------------------------------
(* What the tables always satisfy.                                         *)

(* Every part of a mixture has a value that the code can decode: one that  *)
(* the old image or the new one holds there.                               *)
Decodable ==
  /\ fat \in [Granules -> FatValues]
  /\ dir \in [DirIndices -> DirEntries]
  /\ DOMAIN data = Granules

LEMMA StepDecodable ==
  ASSUME TablesInv(fat, dir), Decodable, NEW n \in NativeNames, Step(n)
  PROVE  Decodable'
<1>1. CASE UNCHANGED <<fat, dir, data>>
  BY <1>1 DEF Decodable
<1>2. ASSUME NEW r \in Images(n)
      PROVE  /\ r.fat \in [Granules -> FatValues]
             /\ r.dir \in [DirIndices -> DirEntries]
             /\ DOMAIN r.data = Granules
  BY ImagesSpare, ImagesData DEF Decodable, Spares, TablesInv, DirInv, Fats
<1>3. ASSUME NEW r \in Images(n), Becomes(r) PROVE Decodable'
  BY <1>2, <1>3 DEF Becomes, Decodable
<1>4. ASSUME NEW r \in Images(n), NEW F, NEW D, NEW G, Becomes(Torn(r, F, D, G))
      PROVE  Decodable'
  <2>1. /\ fat'  = [g \in Granules |-> IF g \in F THEN r.fat[g] ELSE fat[g]]
        /\ dir'  = [i \in DirIndices |-> IF i \in D THEN r.dir[i] ELSE dir[i]]
        /\ data' = [g \in Granules |-> IF g \in G THEN r.data[g] ELSE data[g]]
    BY <1>4 DEF Becomes, Torn
  <2>2. fat' \in [Granules -> FatValues]
    BY <1>2, <2>1 DEF Decodable
  <2>3. dir' \in [DirIndices -> DirEntries]
    BY <1>2, <2>1 DEF Decodable
  <2> QED BY <2>1, <2>2, <2>3 DEF Decodable
<1> QED BY <1>1, <1>3, <1>4 DEF Step

LEMMA AlwaysDecodable == CrashSpec => []Decodable
<1>1. Init => Decodable
  <2> SUFFICES ASSUME Init PROVE Decodable
    OBVIOUS
  <2>1. TablesInv(fat, dir)
    BY InitSound
  <2> QED BY <2>1 DEF Init, TablesInv, DirInv, Fats, Decodable
<1>2. TablesHold /\ Decodable /\ [CrashNext]_vars => Decodable'
  <2> SUFFICES ASSUME TablesHold, Decodable, [CrashNext]_vars PROVE Decodable'
    OBVIOUS
  <2>1. CASE UNCHANGED vars
    BY <2>1 DEF vars, Decodable
  <2>2. ASSUME NEW n \in NativeNames, Step(n) PROVE Decodable'
    BY <2>2, StepDecodable DEF TablesHold, Step
  <2> QED BY <2>1, <2>2, StepCases
<1> QED BY <1>1, <1>2, TablesInvariant, PTL DEF CrashSpec

LEMMA RequestsAre ==
  ASSUME NEW n \in NativeNames
  PROVE  /\ Killing(n) \in Requests /\ Misreading(n) \in Requests
         /\ \A bytes \in StoredFiles : Writing(n, bytes) \in Requests
BY DEF Requests

(* Every part of the image has a value that the code can decode, also      *)
(* after a failed commit.                                                  *)
THEOREM TypeCorrect == Spec => []TypeOK
<1> DEFINE HistoryInv == status \in {"none", "ok", "error", "commit failed"} /\ asked \in Requests
<1>1. Init => HistoryInv
  BY DEF Init, Requests
<1>2. HistoryInv /\ [Next]_vars => HistoryInv'
  <2> SUFFICES ASSUME HistoryInv, [Next]_vars PROVE HistoryInv'
    OBVIOUS
  <2>1. CASE UNCHANGED vars
    BY <2>1 DEF vars
  <2>2. ASSUME NEW n \in NativeNames, KillOnly(n) PROVE HistoryInv'
    <3>1. asked' = Killing(n) /\ status' \in {"ok", "commit failed"}
      BY <2>2 DEF KillOnly, Commit
    <3>2. asked' \in Requests
      BY <3>1, RequestsAre
    <3> QED BY <3>1, <3>2
  <2>3. ASSUME NEW n \in NativeNames, RefuseFile(n) PROVE HistoryInv'
    <3>1. asked' = Misreading(n) /\ status' = "error"
      BY <2>3 DEF RefuseFile
    <3>2. asked' \in Requests
      BY <3>1, RequestsAre
    <3> QED BY <3>1, <3>2
  <2>4. ASSUME NEW n \in NativeNames, NEW bytes \in StoredFiles, WriteFile(n, bytes)
        PROVE  HistoryInv'
    <3>1. asked' = Writing(n, bytes) /\ status' \in {"ok", "commit failed", "error"}
      BY <2>4 DEF WriteFile, Commit
    <3>2. asked' \in Requests
      BY <3>1, RequestsAre
    <3> QED BY <3>1, <3>2
  <2> QED BY <2>1, <2>2, <2>3, <2>4 DEF Next, Look
<1>3. Decodable /\ HistoryInv => TypeOK
  BY DEF Decodable, TypeOK
<1> QED BY <1>1, <1>2, <1>3, SpecIsCrashSpec, AlwaysDecodable, PTL DEF Spec

LEMMA SoundTables ==
  ASSUME TablesInv(fat, dir)
  PROVE  OneEntryPerName /\ NoCrossLinks /\ NoLostGranules /\ ChainsEnd
<1>2. OneEntryPerName
  BY LiveEntriesAre DEF OneEntryPerName, TablesInv, DirInv, OneEach
<1>3. NoLostGranules
  BY LiveEntriesAre DEF NoLostGranules, TablesInv, AllOwned, FileChain
<1>4. \A i \in LiveIn(dir) : dir[i].first \in Granules
  BY LiveFirst DEF TablesInv, DirInv
<1>5. NoCrossLinks
  <2> SUFFICES ASSUME NEW i \in LiveIn(dir), NEW j \in LiveIn(dir), i # j
               PROVE  Chain(fat, dir[i].first) \intersect Chain(fat, dir[j].first) = {}
    BY LiveEntriesAre DEF NoCrossLinks, FileChain
  <2>1. dir[i].first # dir[j].first
    BY DEF TablesInv, DirInv, HeadsDistinct
  <2> QED BY <1>4, <2>1, ChainsApart DEF TablesInv, HeadsUnlinked
<1>6. ChainsEnd
  <2> SUFFICES ASSUME NEW i \in LiveIn(dir)
               PROVE  /\ \A g \in Chain(fat, dir[i].first) : fat[g] # FREE_FAT_ENTRY
                      /\ \E g \in Chain(fat, dir[i].first) : fat[g] \in LastMarks
    BY LiveEntriesAre DEF ChainsEnd, FileChain
  <2> QED BY <1>4, ChainAllocated DEF TablesInv, HeadsAllocated, AllEnd
<1> QED BY <1>2, <1>3, <1>5, <1>6

(* They are stated of an intact image.                                     *)
LEMMA SoundWhenIntact == TablesHold => OneEntryPerName /\ NoCrossLinks /\ NoLostGranules /\ ChainsEnd
<1>1. CASE Intact
  BY <1>1, SoundTables DEF TablesHold
<1>2. CASE ~ Intact
  BY <1>2 DEF OneEntryPerName, NoCrossLinks, NoLostGranules, ChainsEnd
<1> QED BY <1>1, <1>2

LEMMA HoldsInSpec == Spec => []TablesHold
BY SpecIsCrashSpec, TablesInvariant, PTL

(* No file is ever listed after an end-of-directory mark, where no search  *)
(* by name would find it, a failed commit included.                        *)
THEOREM DirectoryContiguous == Spec => []NoEntryPastEnd
<1>1. TablesHold => NoEntryPastEnd
  BY DEF TablesHold, NoneAfterEnd, NoEntryPastEnd
<1> QED BY <1>1, HoldsInSpec, PTL

(* No two entries ever have the same name, so that killing one entry kills *)
(* the file.                                                               *)
THEOREM NamesUnique == Spec => []OneEntryPerName
BY HoldsInSpec, SoundWhenIntact, PTL

(* No granule ever belongs to two files.                                   *)
THEOREM FilesDisjoint == Spec => []NoCrossLinks
BY HoldsInSpec, SoundWhenIntact, PTL

(* No granule is ever lost: one that is not free belongs to a file.        *)
THEOREM NothingLost == Spec => []NoLostGranules
BY HoldsInSpec, SoundWhenIntact, PTL

(* The chain of every file is allocated and has a last granule.            *)
THEOREM ChainsAreSound == Spec => []ChainsEnd
BY HoldsInSpec, SoundWhenIntact, PTL

(* What an invocation makes of the files of other names.                   *)
LEMMA StepLeavesOthers ==
  ASSUME TablesInv(fat, dir), NEW n \in NativeNames, Step(n),
         NEW i \in LiveIn(dir), dir[i].name # CoCoName[n]
  PROVE  /\ dir'[i] = dir[i]
         /\ \A g \in Chain(fat, dir[i].first) : fat'[g] = fat[g] /\ data'[g] = data[g]
<1>1. CASE UNCHANGED <<fat, dir, data>>
  BY <1>1
<1>2. ASSUME NEW r \in Images(n), Becomes(r)
      PROVE  /\ dir'[i] = dir[i]
             /\ \A g \in Chain(fat, dir[i].first) : fat'[g] = fat[g] /\ data'[g] = data[g]
  BY <1>2, ImagesSpare DEF Spares, Others, Becomes
<1>3. ASSUME NEW r \in Images(n), NEW F, NEW D, NEW G, Becomes(Torn(r, F, D, G))
      PROVE  /\ dir'[i] = dir[i]
             /\ \A g \in Chain(fat, dir[i].first) : fat'[g] = fat[g] /\ data'[g] = data[g]
  <2>1. /\ r.dir[i] = dir[i]
        /\ \A g \in Chain(fat, dir[i].first) : r.fat[g] = fat[g] /\ r.data[g] = data[g]
    BY ImagesSpare DEF Spares, Others
  <2>2. i \in DirIndices /\ Chain(fat, dir[i].first) \in SUBSET Granules
    BY ChainSubset DEF LiveIn
  <2>3. /\ dir'  = [j \in DirIndices |-> IF j \in D THEN r.dir[j]  ELSE dir[j]]
        /\ fat'  = [g \in Granules   |-> IF g \in F THEN r.fat[g]  ELSE fat[g]]
        /\ data' = [g \in Granules   |-> IF g \in G THEN r.data[g] ELSE data[g]]
    BY <1>3 DEF Becomes, Torn
  <2>4. dir'[i] = dir[i]
    BY <2>1, <2>2, <2>3
  <2>5. ASSUME NEW g \in Chain(fat, dir[i].first) PROVE fat'[g] = fat[g] /\ data'[g] = data[g]
    BY <2>1, <2>2, <2>3
  <2> QED BY <2>4, <2>5
<1> QED BY <1>1, <1>2, <1>3 DEF Step

LEMMA CrashLeavesOthers == CrashSpec => OnlyOneFileTouched
<1> DEFINE Touched(name) ==
      \A i \in LiveEntries :
        dir[i].name # name =>
          /\ dir'[i] = dir[i]
          /\ \A g \in FileChain(i) : fat'[g] = fat[g] /\ data'[g] = data[g]
<1>1. ASSUME TablesHold, CrashNext, ~ UNCHANGED vars PROVE Touched(CoCoName[asked'.name])
  <2>1. PICK n \in NativeNames : Step(n)
    BY <1>1, StepCases
  <2>2. TablesInv(fat, dir) /\ asked'.name = n
    BY <1>1, <2>1 DEF TablesHold, Step
  <2> QED BY <2>1, <2>2, StepLeavesOthers, LiveEntriesAre DEF FileChain
<1>2. TablesHold /\ [CrashNext]_vars => [Touched(CoCoName[asked'.name])]_vars
  BY <1>1
<1> QED BY <1>2, TablesInvariant, PTL DEF CrashSpec, OnlyOneFileTouched

(* Storing or killing a file leaves every other file as it was, its entry, *)
(* its chain and its bytes, also when the commit fails.                    *)
THEOREM OthersUntouched == Spec => OnlyOneFileTouched
BY SpecIsCrashSpec, CrashLeavesOthers, PTL

-----------------------------------------------------------------------------
(* An interrupted write-back.                                              *)

(* It cannot make two files of different names share a granule.            *)
THEOREM TornApartAlways == CrashSpec => []TornFilesApart
<1>1. TablesHold => TornFilesApart
  BY LiveEntriesAre DEF TablesHold, Apart, TornFilesApart, FileChain
<1> QED BY <1>1, TablesInvariant, PTL

(* Interrupted or not, an invocation for a name leaves the entries, the    *)
(* chains and the bytes of the files of other names as they were.          *)
THEOREM TornTouchesOne == CrashSpec => TornOneFileTouched
BY CrashLeavesOthers DEF TornOneFileTouched

(* Until an invocation is interrupted the tables are sound, as in Spec.    *)
THEOREM SoundUntilTorn == CrashSpec => [](Intact => NoCrossLinks /\ NoLostGranules /\ ChainsEnd)
<1>1. TablesHold => (Intact => NoCrossLinks /\ NoLostGranules /\ ChainsEnd)
  BY SoundWhenIntact
<1> QED BY <1>1, TablesInvariant, PTL

(* Every part of a torn image still has a value that the code can decode.  *)
THEOREM TornDecodable == CrashSpec => []CrashTypeOK
<1> DEFINE StatusInv == status \in {"none", "ok", "error", "commit failed", "torn"}
<1>1. Init => StatusInv
  BY DEF Init
<1>2. StatusInv /\ [CrashNext]_vars => StatusInv'
  BY StepCases DEF vars, Step
<1>3. Decodable /\ StatusInv => CrashTypeOK
  BY DEF Decodable, CrashTypeOK
<1> QED BY <1>1, <1>2, <1>3, AlwaysDecodable, PTL DEF CrashSpec

-----------------------------------------------------------------------------
(* Following a chain.                                                      *)

LEMMA FileWalk ==
  ASSUME NEW f, NEW d, TablesInv(f, d), NEW i \in LiveIn(d)
  PROVE  LET a == d[i].first
             w == Walk(f, a)
         IN  /\ w \in [1 .. Len(w) -> Granules] /\ w \in Seq(Granules)
             /\ Len(w) \in Nat \ {0} /\ Len(w) <= NumGranules
             /\ {w[k] : k \in 1 .. Len(w)} = Chain(f, a)
             /\ f[w[Len(w)]] \in LastMarks
             /\ Cardinality(Chain(f, a)) = Len(w)
             /\ FileGranules(f, a) = {w}
             /\ IsPath(f, a, w)
<1> DEFINE a == d[i].first
           w == Walk(f, a)
<1>1. /\ f \in Fats /\ LinksAllocated(f) /\ LinksInjective(f)
      /\ a \in Granules /\ Unlinked(f, a) /\ f[a] # FREE_FAT_ENTRY
      /\ \E g \in Chain(f, a) : f[g] \in LastMarks
  BY LiveFirst DEF TablesInv, DirInv, HeadsUnlinked, HeadsAllocated, AllEnd
<1> HIDE DEF a
<1>2. IsPath(f, a, w) /\ f[w[Len(w)]] \notin Granules
  BY <1>1, WalkIsWhole
<1> HIDE DEF w
<1>3. w \in [1 .. Len(w) -> Granules] /\ w \in Seq(Granules) /\ Len(w) \in Nat \ {0}
  BY <1>2, PathShape DEF IsPath
<1> QED BY <1>1, <1>2, <1>3, PathWhole DEF a, w

(* The loops of the program meet the granules of a file, each once, and    *)
(* stop at its last one.                                                   *)
THEOREM WalksAreSound == Spec => []WalkVisitsChain
<1>1. ASSUME TablesInv(fat, dir) PROVE WalkVisitsChain
  <2> SUFFICES ASSUME NEW i \in LiveIn(dir)
               PROVE  LET w == Walk(fat, dir[i].first)
                      IN  /\ FileGranules(fat, dir[i].first) = {w}
                          /\ {w[k] : k \in DOMAIN w} = FileChain(i)
                          /\ Len(w) = Cardinality(FileChain(i))
    BY LiveEntriesAre DEF WalkVisitsChain
  <2> DEFINE w == Walk(fat, dir[i].first)
  <2>1. /\ w \in [1 .. Len(w) -> Granules]
        /\ {w[k] : k \in 1 .. Len(w)} = Chain(fat, dir[i].first)
        /\ Cardinality(Chain(fat, dir[i].first)) = Len(w)
        /\ FileGranules(fat, dir[i].first) = {w}
    BY <1>1, FileWalk
  <2> HIDE DEF w
  <2>2. DOMAIN w = 1 .. Len(w)
    BY <2>1
  <2> QED BY <2>1, <2>2 DEF FileChain, w
<1>2. TablesHold => WalkVisitsChain
  BY <1>1 DEF TablesHold, WalkVisitsChain
<1> QED BY <1>2, HoldsInSpec, PTL

-----------------------------------------------------------------------------
(* A file of no sector has no byte in its last sector: what makes the two  *)
(* computations of a length agree, and what the tables alone do not say.   *)
MarksFit(f, d) ==
  \A i \in LiveIn(d) : \A g \in Chain(f, d[i].first) : f[g] = BASE_LAST => d[i].lastBytes = 0

DiskInv == TablesInv(fat, dir) /\ MarksFit(fat, dir)

LEMMA KillKeepsMarks ==
  ASSUME TablesInv(fat, dir), MarksFit(fat, dir), NEW name, NEW k \in AfterKill(name)
  PROVE  MarksFit(k.fat, k.dir)
<1> SUFFICES ASSUME NEW j \in LiveIn(k.dir), NEW g \in Chain(k.fat, k.dir[j].first), k.fat[g] = BASE_LAST
             PROVE  k.dir[j].lastBytes = 0
  BY DEF MarksFit
<1>1. j \in LiveIn(dir) /\ k.dir[j] = dir[j] /\ dir[j].name # name
  BY KillAddsNone, AfterKillSound
<1>2. /\ \A h \in Chain(fat, dir[j].first) : k.fat[h] = fat[h]
      /\ Chain(k.fat, dir[j].first) = Chain(fat, dir[j].first)
  BY <1>1, KillLeavesOthers
<1> QED BY <1>1, <1>2 DEF MarksFit

(* What addFile() makes of the tables and the contents: r, with the file   *)
(* in the granules of s and its description in entry i.                    *)
AddedAt(k, r, name, bytes, s, i) ==
  LET len == Len(bytes)
      n   == SizeInGranules(len)
  IN  /\ i \in DirIndices /\ n \in Nat \ {0} /\ OneToOne(s, n)
      /\ LiveIn(r.dir) = LiveIn(k.dir) \union {i}
      /\ r.dir[i] = NewEntry(name, s[1], len)
      /\ \A j \in LiveIn(k.dir) : r.dir[j] = k.dir[j]
      /\ r.data = Written(data, s, n, bytes)
      /\ r.fat[s[n]] = BASE_LAST + SectorsInLastGranule(len)
      /\ \A h \in 1 .. n - 1 : r.fat[s[h]] = s[h + 1]
      /\ Chain(r.fat, s[1]) = GranulesOf(s, n)

LEMMA Added ==
  ASSUME NEW k, TablesInv(k.fat, k.dir),
         NEW name \in Names, \A j \in LiveIn(k.dir) : k.dir[j].name # name,
         NEW bytes \in StoredFiles, NEW r \in AfterAdd(k, name, bytes)
  PROVE  \E s, i : AddedAt(k, r, name, bytes, s, i)
<1> DEFINE len == Len(bytes)
           n   == SizeInGranules(len)
           c   == SectorsInLastGranule(len)
<1>1. n \in Nat \ {0} /\ c \in 0 .. SectorsPerGranule
  BY StoredBytes, SizeIsPositive, SectorsFit
<1>2. PICK s \in Allocations(k.fat, n), i \in FirstFreeEntry(k.dir) :
        r = [fat  |-> Linked(k.fat, s, n, c),
             dir  |-> [k.dir EXCEPT ![i] = NewEntry(name, s[1], len)],
             data |-> Written(data, s, n, bytes)]
  BY DEF AfterAdd
<1>3. /\ r.fat  = Linked(k.fat, s, n, c)
      /\ r.dir  = [k.dir EXCEPT ![i] = NewEntry(name, s[1], len)]
      /\ r.data = Written(data, s, n, bytes)
  BY <1>2
<1> HIDE DEF len, n, c
<1>4. k.fat \in Fats /\ k.dir \in [DirIndices -> DirEntries]
  BY DEF TablesInv, DirInv
<1>5. OneToOne(s, n)
  BY <1>1, AllocatedOnce
<1>6. /\ r.fat[s[n]] = BASE_LAST + c
      /\ \A h \in 1 .. n - 1 : r.fat[s[h]] = s[h + 1]
      /\ Chain(r.fat, s[1]) = GranulesOf(s, n)
  <2>1. /\ Linked(k.fat, s, n, c)[s[n]] = BASE_LAST + c
        /\ \A h \in 1 .. n - 1 : Linked(k.fat, s, n, c)[s[h]] = s[h + 1]
    BY <1>1, <1>4, <1>5, LinkedValues
  <2>2. Chain(Linked(k.fat, s, n, c), s[1]) = GranulesOf(s, n)
    BY <1>1, <1>4, <1>5, NewChain
  <2> QED BY <1>3, <2>1, <2>2
<1>7. i \in DirIndices /\ ~ Live(k.dir, i)
  BY DEF FirstFreeEntry
<1>8. r.dir[i] = NewEntry(name, s[1], len) /\ Live(r.dir, i)
  BY <1>3, <1>4, <1>7 DEF NewEntry, Live
<1>9. \A j \in DirIndices : j # i => r.dir[j] = k.dir[j]
  BY <1>3, <1>4
<1>10. LiveIn(r.dir) = LiveIn(k.dir) \union {i}
  BY <1>7, <1>8, <1>9 DEF LiveIn, Live
<1>11. \A j \in LiveIn(k.dir) : r.dir[j] = k.dir[j]
  BY <1>7, <1>9 DEF LiveIn
<1>12. AddedAt(k, r, name, bytes, s, i)
  BY <1>1, <1>3, <1>5, <1>6, <1>7, <1>8, <1>10, <1>11 DEF AddedAt, len, n, c
<1> QED BY <1>12

LEMMA AddKeepsMarks ==
  ASSUME NEW k, TablesInv(k.fat, k.dir), MarksFit(k.fat, k.dir),
         NEW name \in Names, \A j \in LiveIn(k.dir) : k.dir[j].name # name,
         NEW bytes \in StoredFiles, NEW r \in AfterAdd(k, name, bytes)
  PROVE  MarksFit(r.fat, r.dir)
<1> DEFINE len == Len(bytes)
           n   == SizeInGranules(len)
<1> SUFFICES ASSUME NEW j \in LiveIn(r.dir), NEW g \in Chain(r.fat, r.dir[j].first), r.fat[g] = BASE_LAST
             PROVE  r.dir[j].lastBytes = 0
  BY DEF MarksFit
<1>0. PICK s, i : AddedAt(k, r, name, bytes, s, i)
  BY Added
<1>1. /\ n \in Nat \ {0} /\ OneToOne(s, n)
      /\ LiveIn(r.dir) = LiveIn(k.dir) \union {i}
      /\ r.dir[i] = NewEntry(name, s[1], len)
      /\ r.fat[s[n]] = BASE_LAST + SectorsInLastGranule(len)
      /\ \A h \in 1 .. n - 1 : r.fat[s[h]] = s[h + 1]
      /\ Chain(r.fat, s[1]) = GranulesOf(s, n)
  BY <1>0 DEF AddedAt
<1>2. len \in Nat
  BY StoredBytes
<1> HIDE DEF len, n
<1>3. CASE j = i
  <2>1. r.dir[j].first = s[1] /\ r.dir[j].lastBytes = BytesInLastSector(len)
    BY <1>1, <1>3 DEF NewEntry
  <2>2. PICK h \in 1 .. n : g = s[h]
    BY <1>1, <2>1 DEF GranulesOf
  <2>3. h = n
    <3> SUFFICES ASSUME h # n PROVE FALSE
      OBVIOUS
    <3>1. h \in 1 .. n - 1 /\ h + 1 \in 1 .. n
      BY <1>1
    <3>2. r.fat[g] \in Granules
      BY <1>1, <2>2, <3>1 DEF OneToOne
    <3> QED BY <3>2, TableValues DEF BASE_LAST
  <2>4. SectorsInLastGranule(len) \in 0 .. SectorsPerGranule
    BY <1>2, SectorsFit
  <2>5. SectorsInLastGranule(len) = 0
    BY <1>1, <2>2, <2>3, <2>4, GranuleBytes DEF BASE_LAST
  <2> QED BY <1>2, <2>1, <2>5, LengthSplits
<1>4. CASE j # i
  <2>1. j \in LiveIn(k.dir)
    BY <1>1, <1>4
  <2>2. /\ r.dir[j] = k.dir[j]
        /\ \A h \in Chain(k.fat, k.dir[j].first) : r.fat[h] = k.fat[h]
    BY <2>1, AddLeavesOthers
  <2>3. k.dir[j].first \in Granules
    BY <2>1, LiveFirst DEF TablesInv, DirInv
  <2>4. Chain(r.fat, k.dir[j].first) = Chain(k.fat, k.dir[j].first)
    BY <2>2, <2>3, ChainLocal
  <2> QED BY <2>1, <2>2, <2>4 DEF MarksFit
<1> QED BY <1>3, <1>4
LEMMA ImagesKeepMarks ==
  ASSUME DiskInv, NEW n \in NativeNames, NEW r \in Images(n)
  PROVE  MarksFit(r.fat, r.dir)
<1>1. CASE r \in Killed(n)
  BY <1>1, KillKeepsMarks DEF Killed, DiskInv
<1>2. ASSUME NEW bytes \in StoredFiles, r \in Replaced(n, bytes) PROVE MarksFit(r.fat, r.dir)
  <2>1. PICK k \in AfterKill(CoCoName[n]) : r \in AfterAdd(k, CoCoName[n], bytes)
    BY <1>2 DEF Replaced
  <2>2. /\ TablesInv(k.fat, k.dir) /\ MarksFit(k.fat, k.dir)
        /\ \A j \in LiveIn(k.dir) : k.dir[j].name # CoCoName[n]
    BY AfterKillSound, KillKeepsMarks DEF DiskInv
  <2> QED BY <2>1, <2>2, AddKeepsMarks, NamesAssumption
<1> QED BY <1>1, <1>2 DEF Images

LEMMA DiskInvariant == CrashSpec => [](Intact => DiskInv)
<1>1. Init => (Intact => DiskInv)
  <2>1. Init => LiveIn(dir) = {}
    BY DEF Init, LiveIn, Live, EndOfDir
  <2> QED BY <2>1, InitSound DEF DiskInv, MarksFit
<1>2. TablesHold' /\ (Intact => DiskInv) /\ [CrashNext]_vars => (Intact => DiskInv)'
  <2> SUFFICES ASSUME TablesHold', Intact => DiskInv, [CrashNext]_vars, Intact'
               PROVE  MarksFit(fat', dir')
    BY DEF TablesHold, DiskInv
  <2>1. CASE UNCHANGED vars
    BY <2>1 DEF vars, Intact, DiskInv
  <2>2. ASSUME NEW n \in NativeNames, Step(n) PROVE MarksFit(fat', dir')
    <3>1. DiskInv
      BY <2>2 DEF Step
    <3>2. CASE UNCHANGED <<fat, dir, data>>
      BY <3>1, <3>2 DEF DiskInv
    <3>3. ASSUME NEW r \in Images(n), Becomes(r) PROVE MarksFit(fat', dir')
      BY <3>1, <3>3, ImagesKeepMarks DEF Becomes
    <3>4. status' \notin {"commit failed", "torn"}
      BY DEF Intact
    <3> QED BY <2>2, <3>2, <3>3, <3>4 DEF Step
  <2> QED BY <2>1, <2>2, StepCases
<1> QED BY <1>1, <1>2, TablesInvariant, PTL DEF CrashSpec

-----------------------------------------------------------------------------
(* Lengths.                                                                *)

LEMMA FileLengths ==
  ASSUME NEW f, NEW d, TablesInv(f, d), MarksFit(f, d), NEW i \in LiveIn(d)
  PROVE  LET w == Walk(f, d[i].first)
             l == d[i].lastBytes
         IN  /\ FileLength(f, w, l) \in Nat
             /\ FileLength(f, w, l) <= Len(w) * BytesPerGranule
             /\ ListedLength(f, w, l) = FileLength(f, w, l)
<1> DEFINE w == Walk(f, d[i].first)
           l == d[i].lastBytes
           n == Len(w)
           c == f[w[n]] - BASE_LAST
           B == BytesPerGranule
           S == BytesPerSector
           M == SectorsPerGranule
<1>1. n \in Nat \ {0} /\ w[n] \in Chain(f, d[i].first) /\ f[w[n]] \in LastMarks
  <2>1. n \in Nat \ {0} /\ {w[k] : k \in 1 .. n} = Chain(f, d[i].first) /\ f[w[n]] \in LastMarks
    BY FileWalk
  <2>2. n \in 1 .. n
    BY <2>1
  <2> QED BY <2>1, <2>2
<1>2. c \in 0 .. M /\ (c = 0 => f[w[n]] = BASE_LAST)
  BY <1>1, GranuleBytes DEF LastMarks, BASE_LAST
<1>3. l \in 0 .. S /\ (c = 0 => l = 0)
  <2>1. l \in 0 .. S
    BY LiveFirst DEF TablesInv, DirInv, DirEntries, LiveIn, Live, EndOfDir, Erased
  <2>2. f[w[n]] = BASE_LAST => l = 0
    BY <1>1 DEF MarksFit
  <2> QED BY <1>2, <2>1, <2>2
<1>4. /\ FileLength(f, w, l) = (n - 1) * B + IF c > 0 THEN (c - 1) * S + l ELSE 0
      /\ ListedLength(f, w, l) = (n - 1) * B + l + IF c > 0 THEN (c - 1) * S ELSE 0
  BY DEF FileLength, ListedLength
<1>5. B \in Nat \ {0} /\ S \in Nat \ {0} /\ M \in Nat \ {0} /\ B = M * S
  BY GranuleBytes
<1> HIDE DEF w, l, n, c, B, S, M
<1>6. (n - 1) * B \in Nat /\ n * B = (n - 1) * B + B
  BY <1>1, <1>5
<1>7. CASE c = 0
  BY <1>3, <1>4, <1>5, <1>6, <1>7 DEF w, l, n, B
<1>8. CASE c # 0
  <2>1. c - 1 \in Nat /\ c \in Nat /\ (c - 1) * S \in Nat /\ (c - 1) * S + S = c * S
    BY <1>2, <1>5, <1>8
  <2>2. c * S <= M * S
    BY <1>2, <1>5
  <2>3. (c - 1) * S + l <= B
    <3> DEFINE p == (c - 1) * S
    <3>1. p \in Nat /\ p + S = c * S
      BY <2>1
    <3> HIDE DEF p
    <3>2. p + l <= B
      BY <1>3, <1>5, <2>2, <3>1
    <3> QED BY <3>2 DEF p
  <2> DEFINE p == (c - 1) * S
             q == (n - 1) * B
  <2>4. p \in Nat /\ q \in Nat /\ l \in Nat /\ p + l <= B /\ n * B = q + B /\ c > 0
    BY <1>2, <1>3, <1>5, <1>6, <1>8, <2>1, <2>3
  <2>5. FileLength(f, w, l) = q + (p + l) /\ ListedLength(f, w, l) = q + l + p
    BY <1>4, <2>4
  <2> HIDE DEF p, q
  <2>6. /\ FileLength(f, w, l) \in Nat
        /\ FileLength(f, w, l) <= n * B
        /\ ListedLength(f, w, l) = FileLength(f, w, l)
    BY <1>5, <2>4, <2>5
  <2> QED BY <2>6 DEF w, l, n, B
<1> QED BY <1>7, <1>8

(* The same facts of the first granule and the walk, under names.          *)
WalkIs(f, a, w) ==
  /\ w \in [1 .. Len(w) -> Granules] /\ w \in Seq(Granules)
  /\ Len(w) \in Nat \ {0} /\ Len(w) <= NumGranules
  /\ \A k \in 1 .. Len(w) : w[k] \in Chain(f, a)
  /\ f[w[Len(w)]] \in LastMarks
  /\ FileGranules(f, a) = {w}
  /\ IsPath(f, a, w)

LEMMA FileWalkIs ==
  ASSUME NEW f, NEW d, TablesInv(f, d), NEW i \in LiveIn(d), NEW a, a = d[i].first
  PROVE  WalkIs(f, a, Walk(f, a))
<1> DEFINE w == Walk(f, d[i].first)
<1>1. /\ w \in [1 .. Len(w) -> Granules] /\ w \in Seq(Granules)
      /\ Len(w) \in Nat \ {0} /\ Len(w) <= NumGranules
      /\ {w[k] : k \in 1 .. Len(w)} = Chain(f, d[i].first)
      /\ f[w[Len(w)]] \in LastMarks
      /\ FileGranules(f, d[i].first) = {w}
      /\ IsPath(f, d[i].first, w)
  BY FileWalk
<1> HIDE DEF w
<1>2. WalkIs(f, d[i].first, w)
  BY <1>1 DEF WalkIs
<1> QED BY <1>2 DEF w

(* What a read finds of a file: its granules are those of the walk.        *)
ByWalk(f, dt, e) ==
  LET w == Walk(f, e.first)
  IN  [k \in 1 .. FileLength(f, w, e.lastBytes) |->
         dt[w[(k - 1) \div BytesPerGranule + 1]][(k - 1) % BytesPerGranule]]

LEMMA ExtractedIs ==
  ASSUME NEW f, NEW d, TablesInv(f, d), NEW i \in LiveIn(d), NEW dt
  PROVE  Extracted(f, dt, d[i]) = ByWalk(f, dt, d[i])
<1> DEFINE w == Walk(f, d[i].first)
<1>1. FileGranules(f, d[i].first) = {w}
  BY FileWalk
<1> DEFINE v    == CHOOSE s \in FileGranules(f, d[i].first) : TRUE
           l    == d[i].lastBytes
           m(u) == FileLength(f, u, l)
<1>2. v = w
  BY <1>1
<1>3. Extracted(f, dt, d[i]) =
        [k \in 1 .. m(v) |-> dt[v[(k - 1) \div BytesPerGranule + 1]][(k - 1) % BytesPerGranule]]
  BY DEF Extracted
<1> HIDE DEF v, w, m
<1>4. Extracted(f, dt, d[i]) =
        [k \in 1 .. m(w) |-> dt[w[(k - 1) \div BytesPerGranule + 1]][(k - 1) % BytesPerGranule]]
  BY <1>2, <1>3
<1> QED BY <1>4 DEF w, m, ByWalk

-----------------------------------------------------------------------------
(* Reading.                                                                *)

LEMMA ReadFound ==
  ASSUME NEW f, NEW d, NEW i, DirEntryPtr(d, d[i].name) = {i},
         FileGranules(f, d[i].first) # {}, NEW dt
  PROVE  ReadIn(f, d, dt, d[i].name) = Extracted(f, dt, d[i])
<1>1. (CHOOSE j \in DirEntryPtr(d, d[i].name) : TRUE) = i
  OBVIOUS
<1> QED BY <1>1 DEF ReadIn

LEMMA ReadSound ==
  ASSUME NEW f, NEW d, TablesInv(f, d), NEW i \in LiveIn(d), NEW dt
  PROVE  ReadIn(f, d, dt, d[i].name) = Extracted(f, dt, d[i])
<1>1. DirEntryPtr(d, d[i].name) = {i}
  BY EntryFound DEF TablesInv, DirInv, OneEach
<1>2. FileGranules(f, d[i].first) # {}
  <2>1. FileGranules(f, d[i].first) = {Walk(f, d[i].first)}
    BY FileWalk
  <2> QED BY <2>1
<1> QED BY <1>1, <1>2, ReadFound

LEMMA ReadMissing ==
  ASSUME NEW f, NEW d, NEW dt, NEW name, \A i \in LiveIn(d) : d[i].name # name
  PROVE  ReadIn(f, d, dt, name) = Absent
BY EntryIsLive DEF ReadIn

(* The granules of a file depend on the links of its chain only.           *)
LEMMA FilesLocal ==
  ASSUME NEW f, NEW f2, NEW a \in Granules, \A g \in Chain(f, a) : f2[g] = f[g]
  PROVE  FileGranules(f, a) \subseteq FileGranules(f2, a)
<1> SUFFICES ASSUME NEW s \in FileGranules(f, a) PROVE s \in FileGranules(f2, a)
  OBVIOUS
<1>1. PICK n \in 1 .. NumGranules : s \in [1 .. n -> Granules]
  BY DEF FileGranules
<1>2. /\ s[1] = a /\ f[s[Len(s)]] \in LastMarks
      /\ \A k \in 1 .. Len(s) - 1 : f[s[k]] = s[k + 1]
  BY DEF FileGranules
<1>3. n \in Nat \ {0} /\ s \in Seq(Granules) /\ Len(s) = n /\ s # <<>>
  BY <1>1, SizesAssumption
<1>4. \A k \in 1 .. Len(s) : s[k] \in Chain(f, a)
  BY <1>2, <1>3, PathInChain DEF IsPath
<1>5. \A k \in 1 .. Len(s) : f2[s[k]] = f[s[k]]
  BY <1>4
<1>6. /\ f2[s[Len(s)]] \in LastMarks
      /\ \A k \in 1 .. Len(s) - 1 : f2[s[k]] = s[k + 1]
  BY <1>2, <1>3, <1>5
<1> QED BY <1>1, <1>2, <1>6 DEF FileGranules

(* A file is read as before when its entry, its links and its bytes are    *)
(* what they were, whatever became of the other files.                     *)
LEMMA ReadKept ==
  ASSUME NEW f, NEW d, TablesInv(f, d), MarksFit(f, d), NEW i \in LiveIn(d), NEW dt,
         NEW f2, NEW dt2, \A g \in Chain(f, d[i].first) : f2[g] = f[g] /\ dt2[g] = dt[g]
  PROVE  /\ FileGranules(f2, d[i].first) # {}
         /\ Extracted(f2, dt2, d[i]) = Extracted(f, dt, d[i])
<1> DEFINE a == d[i].first
           l == d[i].lastBytes
           w == Walk(f, a)
           m == FileLength(f, w, l)
           B == BytesPerGranule
<1>1. WalkIs(f, a, w) /\ a \in Granules
  BY FileWalkIs, LiveFirst DEF TablesInv, DirInv
<1>2. FileGranules(f2, a) = {w}
  <2>1. Chain(f2, a) = Chain(f, a)
    BY <1>1, ChainLocal
  <2>2. FileGranules(f2, a) = FileGranules(f, a)
    <3> HIDE DEF a
    <3>1. FileGranules(f, a) \subseteq FileGranules(f2, a)
      BY <1>1, FilesLocal DEF a
    <3>2. FileGranules(f2, a) \subseteq FileGranules(f, a)
      BY <1>1, <2>1, FilesLocal DEF a
    <3> QED BY <3>1, <3>2
  <2> QED BY <1>1, <2>2 DEF WalkIs
<1>3. m \in Nat /\ m <= Len(w) * B
  BY FileLengths
<1>4. /\ Extracted(f, dt, d[i]) =
           [k \in 1 .. m |-> dt[w[(k - 1) \div B + 1]][(k - 1) % B]]
      /\ Extracted(f2, dt2, d[i]) =
           [k \in 1 .. FileLength(f2, w, l) |-> dt2[w[(k - 1) \div B + 1]][(k - 1) % B]]
  <2> DEFINE v(g)  == CHOOSE s \in FileGranules(g, a) : TRUE
             n(g, u) == FileLength(g, u, l)
  <2>1. /\ Extracted(f, dt, d[i]) =
             [k \in 1 .. n(f, v(f)) |-> dt[v(f)[(k - 1) \div B + 1]][(k - 1) % B]]
        /\ Extracted(f2, dt2, d[i]) =
             [k \in 1 .. n(f2, v(f2)) |-> dt2[v(f2)[(k - 1) \div B + 1]][(k - 1) % B]]
    BY DEF Extracted
  <2>2. v(f) = w /\ v(f2) = w
    BY <1>1, <1>2 DEF WalkIs
  <2> HIDE DEF v, w, n
  <2>3. /\ Extracted(f, dt, d[i]) =
             [k \in 1 .. n(f, w) |-> dt[w[(k - 1) \div B + 1]][(k - 1) % B]]
        /\ Extracted(f2, dt2, d[i]) =
             [k \in 1 .. n(f2, w) |-> dt2[w[(k - 1) \div B + 1]][(k - 1) % B]]
    BY <2>1, <2>2
  <2> QED BY <2>3 DEF n
<1> HIDE DEF w
<1>5. \A k \in 1 .. Len(w) : f2[w[k]] = f[w[k]] /\ dt2[w[k]] = dt[w[k]]
  BY <1>1 DEF WalkIs
<1>6. FileLength(f2, w, l) = m
  <2>1. f2[w[Len(w)]] = f[w[Len(w)]]
    BY <1>1, <1>5 DEF WalkIs
  <2> QED BY <2>1 DEF FileLength
<1> HIDE DEF m
<1>7. ASSUME NEW k \in 1 .. m
      PROVE  dt2[w[(k - 1) \div B + 1]][(k - 1) % B] = dt[w[(k - 1) \div B + 1]][(k - 1) % B]
  <2> DEFINE p == k - 1
             c == Len(w) - 1
  <2>1. p \in Nat /\ p < m /\ c \in Nat /\ c + 1 = Len(w) /\ B \in Nat \ {0}
    BY <1>1, <1>3, GranuleBytes DEF WalkIs
  <2> HIDE DEF p, c, B
  <2>2. p < (c + 1) * B
    <3> DEFINE z == Len(w) * B
    <3>1. z \in Nat /\ z = (c + 1) * B
      BY <1>1, <2>1 DEF WalkIs
    <3> HIDE DEF z
    <3> QED BY <1>3, <2>1, <3>1 DEF z
  <2>3. p \div B \in Nat /\ p \div B <= c
    BY <2>1, <2>2, DivUpper, DivMod
  <2>4. p \div B + 1 \in 1 .. Len(w)
    BY <2>1, <2>3
  <2> QED BY <1>5, <2>4 DEF p
<1> QED BY <1>2, <1>4, <1>6, <1>7

(* What addFile() stores is read back, byte for byte.                      *)
IsByteAt(k, q, r) == k - 1 = BytesPerGranule * q + r

LEMMA WrittenByte ==
  ASSUME NEW dt, NEW n \in Nat \ {0}, NEW s, OneToOne(s, n), NEW bytes, Len(bytes) \in Nat,
         NEW k \in 1 .. Len(bytes), NEW q \in 0 .. n - 1, NEW r \in 0 .. BytesPerGranule - 1,
         IsByteAt(k, q, r)
  PROVE  Written(dt, s, n, bytes)[s[q + 1]][r] = bytes[k]
<1> DEFINE B    == BytesPerGranule
           g    == s[q + 1]
           base == ((CHOOSE i \in 1 .. n : s[i] = g) - 1) * B
<1>1. q \in Nat /\ q + 1 \in 1 .. n /\ g \in Granules /\ B \in Nat \ {0}
  BY GranuleBytes DEF OneToOne
<1>2. (CHOOSE i \in 1 .. n : s[i] = g) = q + 1
  BY <1>1 DEF OneToOne
<1>3. base = B * q
  <2>1. ((q + 1) - 1) * B = B * q
    BY <1>1
  <2> QED BY <1>2, <2>1
<1>4. Written(dt, s, n, bytes)[g] =
        [b \in 0 .. B - 1 |-> IF base + b < Len(bytes) THEN bytes[base + b + 1] ELSE dt[g][b]]
  BY <1>1 DEF Written
<1> HIDE DEF base, B, g
<1>5. base + r = k - 1 /\ base + r + 1 = k /\ base + r < Len(bytes)
  <2> DEFINE p == B * q
  <2>1. p \in Nat /\ k - 1 = p + r /\ base = p
    BY <1>1, <1>3 DEF B, IsByteAt
  <2> HIDE DEF p
  <2> QED BY <1>1, <2>1 DEF B
<1>6. r \in 0 .. B - 1
  BY DEF B
<1>7. Written(dt, s, n, bytes)[g][r] =
        IF base + r < Len(bytes) THEN bytes[base + r + 1] ELSE dt[g][r]
  BY <1>4, <1>6
<1> QED BY <1>5, <1>7 DEF g

LEMMA WrittenRead ==
  ASSUME NEW k, TablesInv(k.fat, k.dir), MarksFit(k.fat, k.dir),
         NEW name \in Names, \A j \in LiveIn(k.dir) : k.dir[j].name # name,
         NEW bytes \in StoredFiles, NEW r \in AfterAdd(k, name, bytes)
  PROVE  /\ ReadIn(r.fat, r.dir, r.data, name) = bytes
         /\ \E i \in LiveIn(r.dir) : r.dir[i].name = name
<1> DEFINE len == Len(bytes)
           n   == SizeInGranules(len)
           c   == SectorsInLastGranule(len)
           l   == BytesInLastSector(len)
           B   == BytesPerGranule
<1>1. TablesInv(r.fat, r.dir) /\ MarksFit(r.fat, r.dir)
  BY AfterAddSound, AddKeepsMarks
<1>2. bytes \in Seq(Bytes) /\ len \in Nat
  BY StoredBytes
<1>3. PICK s, i : AddedAt(k, r, name, bytes, s, i)
  BY Added
<1>4. /\ n \in Nat \ {0} /\ OneToOne(s, n)
      /\ i \in LiveIn(r.dir)
      /\ r.dir[i] = NewEntry(name, s[1], len)
      /\ r.data = Written(data, s, n, bytes)
      /\ r.fat[s[n]] = BASE_LAST + c
      /\ \A h \in 1 .. n - 1 : r.fat[s[h]] = s[h + 1]
  BY <1>3 DEF AddedAt
<1>5. /\ len = (n - 1) * B + (IF c > 0 THEN (c - 1) * BytesPerSector + l ELSE 0)
      /\ c \in 0 .. SectorsPerGranule
  BY <1>2, LengthSplits, SectorsFit
<1>6. r.dir[i].first = s[1] /\ r.dir[i].lastBytes = l /\ r.dir[i].name = name
  BY <1>4 DEF NewEntry
<1> HIDE DEF len, n, c, l, B
<1>7. s \in Seq(Granules) /\ Len(s) = n /\ s \in [1 .. n -> Granules] /\ s[1] \in Granules
  BY <1>4 DEF OneToOne
<1>8. Walk(r.fat, s[1]) = s
  <2>1. IsPath(r.fat, s[1], s)
    BY <1>4, <1>7 DEF IsPath
  <2>2. r.fat[s[Len(s)]] \notin Granules
    <3>1. r.fat[s[Len(s)]] = BASE_LAST + c
      BY <1>4, <1>7
    <3>2. BASE_LAST + c \in LastMarks
      BY <1>5, SizesAssumption DEF LastMarks, BASE_LAST
    <3> QED BY <3>1, <3>2, TableValues
  <2>3. /\ r.fat \in Fats /\ LinksAllocated(r.fat) /\ LinksInjective(r.fat)
        /\ Unlinked(r.fat, s[1]) /\ r.fat[s[1]] # FREE_FAT_ENTRY
    BY <1>1, <1>4, <1>6 DEF TablesInv, HeadsUnlinked, HeadsAllocated
  <2> DEFINE f == r.fat
             a == s[1]
  <2> HIDE DEF f, a
  <2>4. FileGranules(f, a) = {s}
    BY <1>7, <2>1, <2>2, <2>3, PathWhole DEF f, a
  <2>5. FileGranules(f, a) = {Walk(f, a)}
    BY <1>1, <1>4, <1>6, FileWalk DEF f, a
  <2> QED BY <2>4, <2>5 DEF f, a
<1>9. FileLength(r.fat, s, l) = len
  <2>1. r.fat[s[Len(s)]] - BASE_LAST = c
    <3>1. r.fat[s[Len(s)]] = 192 + c
      BY <1>4, <1>7 DEF BASE_LAST
    <3>2. c \in Int
      BY <1>5, SizesAssumption
    <3> QED BY <3>1, <3>2 DEF BASE_LAST
  <2> QED BY <1>5, <1>7, <2>1 DEF FileLength, B
<1>10. len <= n * B
  BY <1>1, <1>4, <1>6, <1>7, <1>8, <1>9, FileLengths DEF B
<1>11. Extracted(r.fat, r.data, r.dir[i]) =
         [j \in 1 .. len |-> r.data[s[(j - 1) \div B + 1]][(j - 1) % B]]
  <2> DEFINE w == Walk(r.fat, r.dir[i].first)
             m == FileLength(r.fat, w, r.dir[i].lastBytes)
  <2>1. Extracted(r.fat, r.data, r.dir[i]) =
          [j \in 1 .. m |-> r.data[w[(j - 1) \div BytesPerGranule + 1]][(j - 1) % BytesPerGranule]]
    <3>1. Extracted(r.fat, r.data, r.dir[i]) = ByWalk(r.fat, r.data, r.dir[i])
      BY <1>1, <1>4, ExtractedIs
    <3> QED BY <3>1 DEF ByWalk
  <2>2. w = s
    BY <1>6, <1>8
  <2> HIDE DEF w
  <2>3. m = len
    BY <1>6, <1>9, <2>2
  <2> HIDE DEF m
  <2> QED BY <2>1, <2>2, <2>3 DEF B
<1>12. ASSUME NEW j \in 1 .. len PROVE r.data[s[(j - 1) \div B + 1]][(j - 1) % B] = bytes[j]
  <2> DEFINE p == j - 1
             m == n - 1
             q == p \div B
             u == p % B
  <2>1. p \in Nat /\ p < len /\ m \in Nat /\ m + 1 = n /\ B \in Nat \ {0}
    BY <1>2, <1>4, GranuleBytes DEF B
  <2> HIDE DEF p, m, B
  <2>2. p < (m + 1) * B
    <3> DEFINE z == n * B
    <3>1. z \in Nat /\ z = (m + 1) * B
      BY <1>4, <2>1
    <3> HIDE DEF z
    <3> QED BY <1>2, <1>10, <2>1, <3>1 DEF z
  <2>3. q \in Nat /\ q <= m /\ u \in 0 .. B - 1 /\ p = B * q + u
    BY <2>1, <2>2, DivUpper, DivMod
  <2> HIDE DEF q, u
  <2>4. q \in 0 .. n - 1
    BY <2>1, <2>3
  <2>5. Written(data, s, n, bytes)[s[q + 1]][u] = bytes[j]
    <3>1. /\ n \in Nat \ {0} /\ OneToOne(s, n) /\ Len(bytes) \in Nat
          /\ j \in 1 .. Len(bytes) /\ q \in 0 .. n - 1
          /\ u \in 0 .. BytesPerGranule - 1 /\ IsByteAt(j, q, u)
      BY <1>2, <1>4, <2>3, <2>4 DEF B, p, len, IsByteAt
    <3> QED BY <3>1, WrittenByte
  <2> QED BY <1>4, <2>5 DEF p, q, u
<1>13. bytes = [j \in 1 .. len |-> bytes[j]]
  BY <1>2, LenProperties DEF len
<1>14. Extracted(r.fat, r.data, r.dir[i]) = bytes
  BY <1>11, <1>12, <1>13
<1> QED BY <1>1, <1>4, <1>6, <1>14, ReadSound

-----------------------------------------------------------------------------
(* What an invocation makes of what can be read.                           *)

(* It makes no entry of another name.                                      *)
LEMMA StepAddsNone ==
  ASSUME TablesInv(fat, dir), NEW n \in NativeNames, Step(n),
         NEW j \in LiveIn(dir'), dir'[j].name # CoCoName[n]
  PROVE  j \in LiveIn(dir) /\ dir'[j] = dir[j]
<1>1. CASE UNCHANGED <<fat, dir, data>>
  BY <1>1
<1>2. ASSUME NEW r \in Images(n), Becomes(r) PROVE j \in LiveIn(dir) /\ dir'[j] = dir[j]
  BY <1>2, ImagesSpare DEF Spares, Becomes
<1>3. ASSUME NEW r \in Images(n), NEW F, NEW D, NEW G, Becomes(Torn(r, F, D, G))
      PROVE  j \in LiveIn(dir) /\ dir'[j] = dir[j]
  <2>1. j \in DirIndices /\ Live(dir', j)
    BY DEF LiveIn
  <2>2. dir' = [i \in DirIndices |-> IF i \in D THEN r.dir[i] ELSE dir[i]]
    BY <1>3 DEF Becomes, Torn
  <2>3. CASE dir'[j] = dir[j]
    BY <2>1, <2>3 DEF LiveIn, Live
  <2>4. CASE dir'[j] = r.dir[j]
    <3>1. j \in LiveIn(r.dir)
      BY <2>1, <2>4 DEF LiveIn, Live
    <3> QED BY <2>4, <3>1, ImagesSpare DEF Spares
  <2> QED BY <2>1, <2>2, <2>3, <2>4
<1> QED BY <1>1, <1>2, <1>3 DEF Step

(* A file of another name is read as before, also when the commit fails.   *)
LEMMA StepKeepsReads ==
  ASSUME DiskInv, NEW n \in NativeNames, Step(n), NEW name, name # CoCoName[n]
  PROVE  ReadIn(fat', dir', data', name) = ReadIn(fat, dir, data, name)
<1>1. TablesInv(fat, dir) /\ MarksFit(fat, dir)
  BY DEF DiskInv
<1>2. CASE \A i \in LiveIn(dir) : dir[i].name # name
  <2>1. \A i \in LiveIn(dir') : dir'[i].name # name
    BY <1>1, <1>2, StepAddsNone
  <2> QED BY <1>2, <2>1, ReadMissing
<1>3. ASSUME NEW i \in LiveIn(dir), dir[i].name = name
      PROVE  ReadIn(fat', dir', data', name) = ReadIn(fat, dir, data, name)
  <2>1. /\ dir'[i] = dir[i]
        /\ \A g \in Chain(fat, dir[i].first) : fat'[g] = fat[g] /\ data'[g] = data[g]
    BY <1>1, <1>3, StepLeavesOthers
  <2>2. i \in LiveIn(dir')
    BY <2>1 DEF LiveIn, Live
  <2>3. \A j \in LiveIn(dir') : dir'[j].name = dir'[i].name => j = i
    BY <1>1, <1>3, <2>1, StepAddsNone DEF TablesInv, DirInv, OneEach
  <2>4. NoneAfterEnd(dir')
    BY <1>1, StepSound DEF TablesHold
  <2>5. DirEntryPtr(dir', dir'[i].name) = {i}
    BY <2>2, <2>3, <2>4, EntryFound
  <2>6. /\ FileGranules(fat', dir[i].first) # {}
        /\ Extracted(fat', data', dir[i]) = Extracted(fat, data, dir[i])
    BY <1>1, <2>1, ReadKept
  <2>7. ReadIn(fat', dir', data', dir'[i].name) = Extracted(fat', data', dir'[i])
    <3> DEFINE f == fat'
               d == dir'
    <3>1. DirEntryPtr(d, d[i].name) = {i} /\ FileGranules(f, d[i].first) # {}
      BY <2>1, <2>5, <2>6
    <3> HIDE DEF f, d
    <3>2. ReadIn(f, d, data', d[i].name) = Extracted(f, data', d[i])
      BY <3>1, ReadFound
    <3> QED BY <3>2 DEF f, d
  <2>8. ReadIn(fat, dir, data, dir[i].name) = Extracted(fat, data, dir[i])
    BY <1>1, ReadSound
  <2> QED BY <1>3, <2>1, <2>6, <2>7, <2>8
<1> QED BY <1>2, <1>3

(* A file that was stored is found, and holds the bytes it was given.      *)
LEMMA StoredIsRead ==
  ASSUME DiskInv, NEW n \in NativeNames, NEW bytes \in StoredFiles,
         NEW r \in Replaced(n, bytes), Becomes(r)
  PROVE  /\ ReadIn(fat', dir', data', CoCoName[n]) = bytes
         /\ \E i \in LiveIn(dir') : dir'[i].name = CoCoName[n]
<1>1. PICK k \in AfterKill(CoCoName[n]) : r \in AfterAdd(k, CoCoName[n], bytes)
  BY DEF Replaced
<1>2. /\ TablesInv(k.fat, k.dir) /\ MarksFit(k.fat, k.dir)
      /\ \A j \in LiveIn(k.dir) : k.dir[j].name # CoCoName[n]
  BY AfterKillSound, KillKeepsMarks DEF DiskInv
<1>3. CoCoName[n] \in Names
  BY NamesAssumption
<1>4. /\ ReadIn(r.fat, r.dir, r.data, CoCoName[n]) = bytes
      /\ \E i \in LiveIn(r.dir) : r.dir[i].name = CoCoName[n]
  BY <1>1, <1>2, <1>3, WrittenRead
<1> QED BY <1>4 DEF Becomes

(* A name that was killed has no entry.                                    *)
LEMMA KilledIsGone ==
  ASSUME DiskInv, NEW n \in NativeNames, NEW r \in Killed(n), Becomes(r)
  PROVE  \A i \in LiveIn(dir') : dir'[i].name # CoCoName[n]
<1>1. PICK k \in AfterKill(CoCoName[n]) : r = [fat |-> k.fat, dir |-> k.dir, data |-> data]
  BY DEF Killed
<1>2. \A i \in LiveIn(k.dir) : k.dir[i].name # CoCoName[n]
  BY AfterKillSound DEF DiskInv
<1> QED BY <1>1, <1>2 DEF Becomes

(* The length that --dir prints is that of the file that a read delivers.  *)
ListedIn(f, d, name) ==
  IF DirEntryPtr(d, name) = {} THEN Absent
  ELSE LET i == CHOOSE i \in DirEntryPtr(d, name) : TRUE
       IN  ListedLength(f, Walk(f, d[i].first), d[i].lastBytes)

LEMMA ListedFound ==
  ASSUME NEW f, NEW d, TablesInv(f, d), MarksFit(f, d), NEW i \in LiveIn(d), NEW dt
  PROVE  ListedIn(f, d, d[i].name) = Len(ReadIn(f, d, dt, d[i].name))
<1> DEFINE w == Walk(f, d[i].first)
           m == FileLength(f, w, d[i].lastBytes)
<1>1. DirEntryPtr(d, d[i].name) = {i}
  BY EntryFound DEF TablesInv, DirInv, OneEach
<1>2. ListedIn(f, d, d[i].name) = ListedLength(f, w, d[i].lastBytes)
  <2>1. (CHOOSE j \in DirEntryPtr(d, d[i].name) : TRUE) = i
    BY <1>1
  <2> QED BY <1>1, <2>1 DEF ListedIn
<1>3. m \in Nat /\ ListedLength(f, w, d[i].lastBytes) = m
  BY FileLengths
<1>4. Extracted(f, dt, d[i]) =
        [k \in 1 .. m |-> dt[w[(k - 1) \div BytesPerGranule + 1]][(k - 1) % BytesPerGranule]]
  <2>1. Extracted(f, dt, d[i]) = ByWalk(f, dt, d[i])
    BY ExtractedIs
  <2> QED BY <2>1 DEF ByWalk
<1> HIDE DEF m
<1>5. Len(Extracted(f, dt, d[i])) = m
  BY <1>3, <1>4
<1> QED BY <1>2, <1>3, <1>5, ReadSound

LEMMA ListedMissing ==
  ASSUME NEW f, NEW d, NEW name, \A i \in LiveIn(d) : d[i].name # name
  PROVE  ListedIn(f, d, name) = Absent
BY EntryIsLive DEF ListedIn

LEMMA StepKeepsListing ==
  ASSUME DiskInv, NEW n \in NativeNames, Step(n), DiskInv', NEW name, name # CoCoName[n]
  PROVE  ListedIn(fat', dir', name) = ListedIn(fat, dir, name)
<1>1. TablesInv(fat, dir) /\ MarksFit(fat, dir) /\ TablesInv(fat', dir') /\ MarksFit(fat', dir')
  BY DEF DiskInv
<1>2. CASE \A i \in LiveIn(dir) : dir[i].name # name
  <2>1. \A i \in LiveIn(dir') : dir'[i].name # name
    BY <1>1, <1>2, StepAddsNone
  <2> QED BY <1>2, <2>1, ListedMissing
<1>3. ASSUME NEW i \in LiveIn(dir), dir[i].name = name
      PROVE  ListedIn(fat', dir', name) = ListedIn(fat, dir, name)
  <2>1. dir'[i] = dir[i] /\ i \in LiveIn(dir')
    BY <1>1, <1>3, StepLeavesOthers DEF LiveIn, Live
  <2>2. ListedIn(fat, dir, name) = Len(ReadIn(fat, dir, data, name))
    BY <1>1, <1>3, ListedFound
  <2>3. ListedIn(fat', dir', name) = Len(ReadIn(fat', dir', data', name))
    BY <1>1, <1>3, <2>1, ListedFound
  <2> QED BY <2>2, <2>3, StepKeepsReads
<1> QED BY <1>2, <1>3

(* The length that --dir prints for a name is that of the bytes that were  *)
(* last stored under it.                                                   *)
THEOREM ListingIsRight == Spec => ListingAgrees
<1> DEFINE Good ==
      Intact' =>
        \A name \in Names :
          Listed(name)' =
            IF status' # "ok" \/ name # CoCoName[asked'.name] THEN Listed(name)
            ELSE IF asked'.op = "write" THEN Len(asked'.bytes) ELSE Absent
<1>1. \A name : /\ Listed(name) = ListedIn(fat, dir, name)
                /\ Listed(name)' = ListedIn(fat', dir', name)
  BY DEF Listed, ListedIn
<1>2. ASSUME DiskInv, NEW n \in NativeNames, Step(n), DiskInv', NEW name \in Names, name # CoCoName[n]
      PROVE  Listed(name)' = Listed(name)
  BY <1>1, <1>2, StepKeepsListing
<1>3. ASSUME DiskInv, DiskInv', NEW n \in NativeNames, NEW bytes \in StoredFiles,
             NEW r \in Replaced(n, bytes), Becomes(r)
      PROVE  Listed(CoCoName[n])' = Len(bytes)
  <2>1. /\ ReadIn(fat', dir', data', CoCoName[n]) = bytes
        /\ \E i \in LiveIn(dir') : dir'[i].name = CoCoName[n]
    BY <1>3, StoredIsRead
  <2>2. PICK i \in LiveIn(dir') : dir'[i].name = CoCoName[n]
    BY <2>1
  <2>3. ListedIn(fat', dir', dir'[i].name) = Len(ReadIn(fat', dir', data', dir'[i].name))
    BY <1>3, ListedFound DEF DiskInv
  <2> QED BY <1>1, <2>1, <2>2, <2>3
<1>4. ASSUME DiskInv, NEW n \in NativeNames, NEW r \in Killed(n), Becomes(r)
      PROVE  Listed(CoCoName[n])' = Absent
  BY <1>1, <1>4, KilledIsGone, ListedMissing
<1>5. ASSUME DiskInv, DiskInv', Intact, NEW n \in NativeNames, Step(n), Intact',
             KillOnly(n) \/ RefuseFile(n) \/ \E bytes \in StoredFiles : WriteFile(n, bytes)
      PROVE  Good
  <2> SUFFICES ASSUME NEW name \in Names
               PROVE  Listed(name)' =
                        IF status' # "ok" \/ name # CoCoName[asked'.name] THEN Listed(name)
                        ELSE IF asked'.op = "write" THEN Len(asked'.bytes) ELSE Absent
    OBVIOUS
  <2>1. asked'.name = n
    BY <1>5 DEF Step
  <2>2. CASE name # CoCoName[n]
    BY <1>2, <1>5, <2>1, <2>2
  <2>3. CASE status' # "ok"
    <3>1. UNCHANGED <<fat, dir, data>>
      BY <1>5, <2>3 DEF Intact, Step
    <3> QED BY <1>1, <2>3, <3>1
  <2>4. CASE name = CoCoName[n] /\ status' = "ok"
    <3>1. CASE KillOnly(n)
      <4>1. PICK r \in Killed(n) : Commit(r)
        BY <3>1 DEF KillOnly
      <4>2. Becomes(r)
        BY <2>4, <4>1 DEF Commit
      <4>3. asked'.op = "kill"
        BY <3>1 DEF KillOnly, Killing
      <4> QED BY <1>4, <1>5, <2>1, <2>4, <4>2, <4>3
    <3>2. ASSUME NEW bytes \in StoredFiles, WriteFile(n, bytes)
          PROVE  Listed(name)' = Len(bytes) /\ asked'.op = "write" /\ asked'.bytes = bytes
      <4>1. PICK r \in Replaced(n, bytes) : Commit(r)
        BY <2>4, <3>2 DEF WriteFile
      <4>2. Becomes(r)
        BY <2>4, <4>1 DEF Commit
      <4>3. asked'.op = "write" /\ asked'.bytes = bytes
        BY <3>2 DEF WriteFile, Writing
      <4> QED BY <1>3, <1>5, <2>4, <4>2, <4>3
    <3>3. ~ RefuseFile(n)
      BY <2>4 DEF RefuseFile
    <3> QED BY <1>5, <2>1, <2>4, <3>1, <3>2, <3>3
  <2> QED BY <2>2, <2>3, <2>4
<1>6. (Intact => DiskInv) /\ (Intact => DiskInv)' /\ [Next]_vars => [Good]_vars
  <2> SUFFICES ASSUME Intact => DiskInv, Intact' => DiskInv', Next, ~ UNCHANGED vars, Intact'
               PROVE  Good
    OBVIOUS
  <2>1. PICK n \in NativeNames :
          /\ Intact
          /\ KillOnly(n) \/ RefuseFile(n) \/ \E bytes \in StoredFiles : WriteFile(n, bytes)
    BY DEF Next, Look
  <2>2. Step(n)
    BY <2>1, InvocationIsStep
  <2> HIDE DEF Good
  <2> QED BY <1>5, <2>1, <2>2
<1>7. Spec => [](Intact => DiskInv)
  BY SpecIsCrashSpec, DiskInvariant, PTL
<1> QED BY <1>6, <1>7, PTL DEF Spec, ListingAgrees

-----------------------------------------------------------------------------
(* The map from names to contents that the disk implements.                *)

(* The tool implements FileStore: a write that succeeds stores the bytes   *)
(* it was given under its name, a kill that succeeds removes the name, one *)
(* that is refused changes no file, and a failed commit no file of another *)
(* name.                                                                   *)
THEOREM StoreImplemented == Spec => StoreSpec
<1> DEFINE map     == [name \in Names |-> ReadBack(name)]
           request == IF asked = Nothing THEN asked
                      ELSE [asked EXCEPT !.name = CoCoName[asked.name]]
<1>1. \A name : /\ ReadBack(name) = ReadIn(fat, dir, data, name)
                /\ ReadBack(name)' = ReadIn(fat', dir', data', name)
  BY DEF ReadBack
<1>2. Init => Store!Init
  <2> SUFFICES ASSUME Init PROVE map = [name \in Names |-> Absent]
    BY DEF Init, Nothing, Store!Init
  <2>1. LiveIn(dir) = {}
    BY DEF Init, LiveIn, Live, EndOfDir
  <2> QED BY <1>1, <2>1, ReadMissing
<1>3. ASSUME DiskInv, NEW n \in NativeNames, Step(n), NEW name \in Names, name # CoCoName[n]
      PROVE  map'[name] = map[name]
  BY <1>1, <1>3, StepKeepsReads
<1>4. \A n \in NativeNames :
        /\ asked' = Killing(n) => Store!Asks("kill", CoCoName[n])
        /\ asked' = Misreading(n) => Store!Asks("unreadable", CoCoName[n])
        /\ \A bytes : asked' = Writing(n, bytes) =>
                        Store!Asks("write", CoCoName[n]) /\ request'.bytes = bytes
  BY DEF Store!Asks, Killing, Misreading, Writing, Nothing
<1>5. ASSUME DiskInv, NEW n \in NativeNames, Step(n), status' = "commit failed",
             Store!Asks("write", CoCoName[n]) \/ Store!Asks("kill", CoCoName[n])
      PROVE  Store!Spoil(CoCoName[n])
  BY <1>3, <1>5 DEF Store!Spoil
<1>6. ASSUME DiskInv, NEW n \in NativeNames, Step(n), KillOnly(n)
      PROVE  Store!Remove(CoCoName[n]) \/ Store!Spoil(CoCoName[n])
  <2>1. Store!Asks("kill", CoCoName[n])
    BY <1>4, <1>6 DEF KillOnly
  <2>2. PICK r \in Killed(n) : Commit(r)
    BY <1>6 DEF KillOnly
  <2>3. CASE status' = "commit failed"
    BY <1>5, <1>6, <2>1, <2>3
  <2>4. CASE Becomes(r) /\ status' = "ok"
    <3>1. ReadBack(CoCoName[n])' = Absent
      BY <1>1, <1>6, <2>4, KilledIsGone, ReadMissing
    <3>2. map' = [map EXCEPT ![CoCoName[n]] = Absent]
      BY <1>3, <1>6, <3>1, NamesAssumption
    <3> QED BY <2>1, <2>4, <3>2 DEF Store!Remove
  <2> QED BY <2>2, <2>3, <2>4 DEF Commit
<1>7. ASSUME DiskInv, NEW n \in NativeNames, Step(n), NEW bytes \in StoredFiles, WriteFile(n, bytes)
      PROVE  Store!Put(CoCoName[n]) \/ Store!Refuse(CoCoName[n]) \/ Store!Spoil(CoCoName[n])
  <2>1. Store!Asks("write", CoCoName[n]) /\ request'.bytes = bytes
    BY <1>4, <1>7 DEF WriteFile
  <2>2. CASE status' = "error" /\ UNCHANGED <<fat, dir, data>>
    <3>1. map' = map
      BY <1>1, <2>2
    <3> QED BY <2>1, <2>2, <3>1 DEF Store!Refuse
  <2>3. ASSUME NEW r \in Replaced(n, bytes), Commit(r)
        PROVE  Store!Put(CoCoName[n]) \/ Store!Spoil(CoCoName[n])
    <3>1. CASE status' = "commit failed"
      BY <1>5, <1>7, <2>1, <3>1
    <3>2. CASE Becomes(r) /\ status' = "ok"
      <4>1. ReadBack(CoCoName[n])' = bytes
        BY <1>1, <1>7, <2>3, <3>2, StoredIsRead
      <4>2. map' = [map EXCEPT ![CoCoName[n]] = request'.bytes]
        BY <1>3, <1>7, <2>1, <4>1, NamesAssumption
      <4>3. request'.bytes \in StoredFiles
        BY <2>1
      <4> QED BY <2>1, <3>2, <4>2, <4>3 DEF Store!Put
    <3> QED BY <2>3, <3>1, <3>2 DEF Commit
  <2> QED BY <1>7, <2>2, <2>3 DEF WriteFile
<1>8. ASSUME NEW n \in NativeNames, RefuseFile(n) PROVE Store!Refuse(CoCoName[n])
  <2>1. map' = map
    BY <1>1, <1>8 DEF RefuseFile
  <2> QED BY <1>4, <1>8, <2>1 DEF RefuseFile, Store!Refuse
<1>9. (Intact => DiskInv) /\ [Next]_vars => [Store!Next]_<<map, request, status>>
  <2> SUFFICES ASSUME Intact => DiskInv, [Next]_vars
               PROVE  Store!Next \/ UNCHANGED <<map, request, status>>
    OBVIOUS
  <2>1. CASE UNCHANGED vars
    BY <1>1, <2>1 DEF vars
  <2>2. ASSUME NEW n \in NativeNames, Intact,
               KillOnly(n) \/ RefuseFile(n) \/ \E bytes \in StoredFiles : WriteFile(n, bytes)
        PROVE  Store!Next
    <3>1. Step(n) /\ DiskInv /\ status # "commit failed" /\ CoCoName[n] \in Names
      BY <2>2, InvocationIsStep, NamesAssumption DEF Intact
    <3>2. \/ Store!Put(CoCoName[n]) \/ Store!Remove(CoCoName[n])
          \/ Store!Refuse(CoCoName[n]) \/ Store!Spoil(CoCoName[n])
      BY <1>6, <1>7, <1>8, <2>2, <3>1
    <3> QED BY <3>1, <3>2 DEF Store!Next
  <2> QED BY <2>1, <2>2 DEF Next, Look
<1>10. Spec => [](Intact => DiskInv)
  BY SpecIsCrashSpec, DiskInvariant, PTL
<1> QED BY <1>2, <1>9, <1>10, PTL DEF Spec, StoreSpec, Store!Spec
=============================================================================
