-------------------------- MODULE DiskReaderProofs --------------------------
(***************************************************************************)
(* Proofs about DiskReader, for every diskette size, every set of files    *)
(* that writecocofile may have laid out, and every sequence of calls.      *)
(*                                                                         *)
(* A place is a sector of the file: its granule, by its rank in the file,  *)
(* and its number in that granule.  Every descriptor is at a place: either *)
(* that sector is still to be loaded, or it is in memory and the           *)
(* descriptor names the place that follows it.  This holds as long as      *)
(* nothing went amiss; of the other descriptors only so much is known that *)
(* the next call that sets the position is seen to mend them.              *)
(***************************************************************************)
EXTENDS DiskReader, DecbTablesProofs

-----------------------------------------------------------------------------
(* The diskettes.                                                          *)

Count(k)      == Len(k.granules)
LastSector(k) == SectorsInLastGranule(k.length)

SoundDisk(k) ==
  /\ Count(k) \in Nat \ {0} /\ Count(k) <= NumGranules
  /\ OneToOne(k.granules, Count(k))
  /\ k.fat \in Fats
  /\ \A j \in 1 .. Count(k) - 1 : k.fat[k.granules[j]] = k.granules[j + 1]
  /\ k.fat[k.granules[Count(k)]] = BASE_LAST + LastSector(k)
  /\ LastSector(k) \in 1 .. SectorsPerGranule
  /\ k.lastBytes \in 1 .. BytesPerSector
  /\ k.length \in Nat \ {0}
  /\ k.length = (Count(k) - 1) * BytesPerGranule + (LastSector(k) - 1) * BytesPerSector + k.lastBytes
  /\ k.length % BytesPerSector # 0 => k.lastBytes < BytesPerSector
  /\ Chain(k.fat, k.granules[1]) = GranulesOf(k.granules, Count(k))
  /\ Cardinality(Chain(k.fat, k.granules[1])) = Count(k)

LEMMA GranulesCounted ==
  ASSUME NEW n \in Nat \ {0}, NEW s, OneToOne(s, n)
  PROVE  Cardinality(GranulesOf(s, n)) = n /\ n <= NumGranules
<1> DEFINE G == GranulesOf(s, n)
<1>1. /\ s \in [1 .. n -> Granules]
      /\ \A i, j \in 1 .. n : s[i] = s[j] => i = j
  BY DEF OneToOne
<1>2. G \in SUBSET Granules /\ IsFiniteSet(G) /\ Cardinality(G) <= NumGranules
  <2>1. G \in SUBSET Granules
    BY <1>1 DEF GranulesOf
  <2> QED BY <2>1, GranuleCount, FS_Subset
<1>3. s \in Bijection(1 .. n, G)
  BY <1>1 DEF Bijection, Injection, Surjection, GranulesOf, IsInjective
<1>4. Cardinality(1 .. n) = n /\ IsFiniteSet(1 .. n)
  BY FS_Interval
<1>5. Cardinality(G) = Cardinality(1 .. n)
  BY <1>3, <1>4, FS_Bijection DEF ExistsBijection
<1> QED BY <1>2, <1>4, <1>5

LEMMA DisketteIsSound ==
  ASSUME NEW l \in Layouts, l.length > 0, NEW w
  PROVE  SoundDisk(Diskette(l, w))
<1> DEFINE k   == Diskette(l, w)
           s   == l.granules
           n   == Len(s)
           len == l.length
           c   == SectorsInLastGranule(len)
<1>1. /\ len \in Nat \ {0} /\ n = SizeInGranules(len) /\ n \in Nat \ {0} /\ OneToOne(s, n)
  <2>1. /\ len \in Nat /\ s \in Seq(Granules) /\ n = SizeInGranules(len)
        /\ \A i, j \in 1 .. n : s[i] = s[j] => i = j
    BY LayoutsAssumption
  <2>2. n \in Nat \ {0}
    BY <2>1, SizeIsPositive
  <2>3. s \in [1 .. n -> Granules]
    BY <2>1
  <2>4. len > 0
    OBVIOUS
  <2> QED BY <2>1, <2>2, <2>3, <2>4 DEF OneToOne
<1>2. /\ k.granules = s /\ k.length = len /\ k.lastBytes = BytesInLastSector(len)
      /\ k.fat = Linked(FreeFat, s, n, c)
  BY DEF Diskette
<1>3. FreeFat \in Fats
  BY DEF FreeFat, Fats, FatValues
<1>4. c \in 0 .. SectorsPerGranule /\ BytesInLastSector(len) \in 0 .. BytesPerSector
  BY <1>1, SectorsFit, LastBytesFit
<1>5. /\ len = (n - 1) * BytesPerGranule + (c - 1) * BytesPerSector + BytesInLastSector(len)
      /\ c > 0 /\ BytesInLastSector(len) > 0
  <2>1. /\ len = (n - 1) * BytesPerGranule
                   + (IF c > 0 THEN (c - 1) * BytesPerSector + BytesInLastSector(len) ELSE 0)
        /\ c > 0 /\ BytesInLastSector(len) > 0
    BY <1>1, LengthSplits
  <2> HIDE DEF n, c, len
  <2> DEFINE a == (n - 1) * BytesPerGranule
             b == (c - 1) * BytesPerSector
  <2>2. a \in Nat /\ b \in Int /\ BytesInLastSector(len) \in Int
    <3>1. n - 1 \in Nat /\ c - 1 \in Nat
      BY <1>1, <1>4, <2>1, GranuleBytes
    <3>2. BytesPerGranule \in Nat /\ BytesPerSector \in Nat
      BY GranuleBytes
    <3>3. a \in Nat /\ b \in Nat
      <4> DEFINE x == n - 1
                 y == c - 1
      <4>1. x \in Nat /\ y \in Nat
        BY <3>1
      <4> HIDE DEF x, y
      <4>2. x * BytesPerGranule \in Nat /\ y * BytesPerSector \in Nat
        BY <3>2, <4>1
      <4> QED BY <4>2 DEF x, y
    <3>4. BytesInLastSector(len) \in Int
      <4> DEFINE z == BytesInLastSector(len)
      <4>1. z \in 0 .. BytesPerSector
        BY <1>4
      <4> HIDE DEF z
      <4>2. z \in Int
        BY <4>1, GranuleBytes
      <4> QED BY <4>2 DEF z
    <3> QED BY <3>3, <3>4
  <2>3. len = a + (b + BytesInLastSector(len))
    BY <2>1
  <2> HIDE DEF a, b
  <2>4. len = a + b + BytesInLastSector(len)
    BY <2>2, <2>3
  <2> QED BY <2>1, <2>4 DEF a, b
<1>6. c \in 1 .. SectorsPerGranule /\ BytesInLastSector(len) \in 1 .. BytesPerSector
  BY <1>4, <1>5, GranuleBytes
<1>7. len % BytesPerSector # 0 => BytesInLastSector(len) < BytesPerSector
  <2>1. len \in Nat /\ BytesPerSector \in Nat \ {0}
    BY <1>1, GranuleBytes
  <2>2. len % BytesPerSector \in 0 .. BytesPerSector - 1
    <3> HIDE DEF len
    <3> QED BY <2>1, DivMod
  <2> QED BY <2>1, <2>2 DEF BytesInLastSector
<1>8. /\ k.fat \in Fats
      /\ k.fat[s[n]] = BASE_LAST + c
      /\ \A j \in 1 .. n - 1 : k.fat[s[j]] = s[j + 1]
  BY <1>1, <1>2, <1>3, <1>4, LinkedValues
<1>9. Chain(k.fat, s[1]) = GranulesOf(s, n)
  BY <1>1, <1>2, <1>3, <1>4, NewChain
<1>10. Cardinality(GranulesOf(s, n)) = n /\ n <= NumGranules
  BY <1>1, GranulesCounted
<1> HIDE DEF k, s, n, len, c
<1>11. Count(k) = n /\ LastSector(k) = c
  BY <1>2 DEF Count, LastSector, n, c
<1>12. SoundDisk(k)
  BY <1>1, <1>2, <1>5, <1>6, <1>7, <1>8, <1>9, <1>10, <1>11 DEF SoundDisk
<1> QED BY <1>12 DEF k

(* What openfile() takes from any diskette, the ones of an empty file      *)
(* included: their table ends with $C0.                                    *)
LaidOut(k) ==
  /\ k.granules[1] \in Granules
  /\ k.length \in Nat
  /\ k.length > 0 => SoundDisk(k)
  /\ k.length = 0 => k.fat[k.granules[1]] = BASE_LAST

LEMMA DisketteIsLaidOut ==
  ASSUME NEW l \in Layouts, NEW w
  PROVE  LaidOut(Diskette(l, w))
<1> DEFINE k == Diskette(l, w)
           s == l.granules
           n == Len(s)
           c == SectorsInLastGranule(l.length)
<1>1. /\ l.length \in Nat /\ n = SizeInGranules(l.length) /\ n \in Nat \ {0} /\ OneToOne(s, n)
  <2>1. /\ l.length \in Nat /\ s \in Seq(Granules) /\ n = SizeInGranules(l.length)
        /\ \A i, j \in 1 .. n : s[i] = s[j] => i = j
    BY LayoutsAssumption
  <2>2. n \in Nat \ {0} /\ s \in [1 .. n -> Granules]
    BY <2>1, SizeIsPositive
  <2> QED BY <2>1, <2>2 DEF OneToOne
<1>2. k.granules = s /\ k.length = l.length /\ k.fat = Linked(FreeFat, s, n, c)
  BY DEF Diskette
<1>3. FreeFat \in Fats /\ c \in 0 .. SectorsPerGranule
  BY <1>1, SectorsFit DEF FreeFat, Fats, FatValues
<1>4. s[1] \in Granules
  BY <1>1 DEF OneToOne
<1>5. ASSUME l.length = 0 PROVE k.fat[s[1]] = BASE_LAST
  <2>1. n = 1
    BY <1>1, <1>5 DEF SizeInGranules
  <2>2. c = 0
    <3>1. BytesPerGranule \in Nat \ {0} /\ BytesPerSector \in Nat \ {0}
      BY GranuleBytes
    <3>2. 0 % BytesPerGranule = 0 /\ (0 + BytesPerSector - 1) \div BytesPerSector = 0
      BY <3>1
    <3> QED BY <1>5, <3>2 DEF SectorsInLastGranule
  <2>3. k.fat[s[n]] = BASE_LAST + c
    BY <1>1, <1>2, <1>3, LinkedValues
  <2> QED BY <2>1, <2>2, <2>3 DEF BASE_LAST
<1>6. l.length > 0 => SoundDisk(k)
  BY DisketteIsSound
<1> QED BY <1>1, <1>2, <1>4, <1>5, <1>6 DEF LaidOut

(* openfile() of an empty file leaves the table.                           *)
LEMMA EmptyLeaves ==
  ASSUME NEW k, LaidOut(k), k.length = 0
  PROVE  LeavesTable(k.fat, k.granules[1])
BY ChainFirst DEF LaidOut, LeavesTable

(* The computation of openfile() finds the length, within the table.       *)
LEMMA LengthFound ==
  ASSUME NEW k, SoundDisk(k)
  PROVE  /\ ~ LeavesTable(k.fat, k.granules[1])
         /\ ComputedLength(k.fat, k.granules[1], k.lastBytes) = k.length
<1> DEFINE s == k.granules
           n == Count(k)
           c == LastSector(k)
<1>1. /\ n \in Nat \ {0} /\ s \in [1 .. n -> Granules]
      /\ \A j \in 1 .. n - 1 : k.fat[s[j]] = s[j + 1]
      /\ k.fat[s[n]] = BASE_LAST + c
      /\ c \in 1 .. SectorsPerGranule
      /\ Chain(k.fat, s[1]) = GranulesOf(s, n)
      /\ Cardinality(Chain(k.fat, s[1])) = n
      /\ k.lastBytes \in 1 .. BytesPerSector
  BY DEF SoundDisk, OneToOne
<1>2. k.length = (n - 1) * BytesPerGranule + (c - 1) * BytesPerSector + k.lastBytes
  BY DEF SoundDisk
<1>3. \A g \in Granules : g < BASE_LAST
  BY TableValues
<1> HIDE DEF n, c, s
<1>4. c \in Nat \ {0} /\ (BASE_LAST + c) - (BASE_LAST + 1) = c - 1 /\ BASE_LAST + c > BASE_LAST
  BY <1>1, GranuleBytes DEF BASE_LAST
<1>5. ASSUME NEW j \in 1 .. n, j # n PROVE k.fat[s[j]] < BASE_LAST
  <2>1. j \in 1 .. n - 1 /\ j + 1 \in 1 .. n
    BY <1>1, <1>5
  <2> QED BY <1>1, <1>3, <2>1
<1>6. ASSUME NEW g \in GranulesOf(s, n)
      PROVE  (k.fat[g] > BASE_LAST <=> g = s[n]) /\ k.fat[g] # BASE_LAST
  <2>1. PICK j \in 1 .. n : g = s[j]
    BY DEF GranulesOf
  <2>2. CASE j = n
    BY <1>1, <1>4, <2>1, <2>2 DEF BASE_LAST
  <2>3. CASE j # n
    <3>1. k.fat[g] < BASE_LAST /\ k.fat[g] \in Nat
      <4>1. j \in 1 .. n - 1 /\ j + 1 \in 1 .. n
        BY <1>1, <2>3
      <4> QED BY <1>1, <1>5, <2>1, <2>3, <4>1, TableValues
    <3>2. g # s[n]
      BY <1>1, <1>4, <3>1 DEF BASE_LAST
    <3> QED BY <3>1, <3>2 DEF BASE_LAST
  <2> QED BY <2>2, <2>3
<1>7. s[n] \in GranulesOf(s, n)
  BY <1>1 DEF GranulesOf
<1>8. (CHOOSE g \in Chain(k.fat, s[1]) : k.fat[g] > BASE_LAST) = s[n]
  BY <1>1, <1>6, <1>7
<1>9. ComputedLength(k.fat, s[1], k.lastBytes) = k.length
  BY <1>1, <1>2, <1>4, <1>8 DEF ComputedLength
<1>10. ~ LeavesTable(k.fat, s[1])
  BY <1>1, <1>6 DEF LeavesTable
<1> QED BY <1>9, <1>10 DEF s

-----------------------------------------------------------------------------
(* Places.                                                                 *)

Start(j, s) == (j - 1) * BytesPerGranule + (s - 1) * BytesPerSector

Place(k, j, s) ==
  /\ j \in 1 .. Count(k) /\ s \in 1 .. SectorsPerGranule
  /\ j = Count(k) => s <= LastSector(k)

IsLast(k, j, s) == j = Count(k) /\ s = LastSector(k)

SizeAt(k, j, s) == IF IsLast(k, j, s) THEN k.lastBytes ELSE BytesPerSector

(* Distances between starts, without a product to reason about.            *)
LEMMA StartSteps ==
  ASSUME NEW j \in Nat \ {0}, NEW s \in Nat \ {0}
  PROVE  /\ Start(j, s) \in Nat
         /\ Start(j, s + 1) = Start(j, s) + BytesPerSector
         /\ Start(j + 1, 1) = Start(j, SectorsPerGranule) + BytesPerSector
<1> DEFINE B == BytesPerGranule
           S == BytesPerSector
           M == SectorsPerGranule
           x == j - 1
           y == s - 1
<1>1. B \in Nat /\ S \in Nat /\ M \in Nat \ {0} /\ B = M * S /\ x \in Nat /\ y \in Nat
  BY GranuleBytes
<1>2. /\ Start(j, s) = x * B + y * S
      /\ Start(j, s + 1) = x * B + (y + 1) * S
      /\ Start(j + 1, 1) = (x + 1) * B + 0 * S
      /\ Start(j, M) = x * B + (M - 1) * S
  <2>1. (s + 1) - 1 = y + 1 /\ (j + 1) - 1 = x + 1 /\ 1 - 1 = 0
    OBVIOUS
  <2> QED BY <2>1 DEF Start
<1> HIDE DEF B, S, M, x, y
<1>3. x * B \in Nat /\ y * S \in Nat /\ (y + 1) * S = y * S + S
      /\ (x + 1) * B = x * B + B /\ 0 * S = 0 /\ (M - 1) * S = M * S - S
  BY <1>1
<1> DEFINE p == x * B
           q == y * S
           u == (M - 1) * S
<1>4. /\ p \in Nat /\ q \in Nat /\ u \in Int /\ u = B - S
      /\ Start(j, s) = p + q
      /\ Start(j, s + 1) = p + (q + S)
      /\ Start(j + 1, 1) = p + B
      /\ Start(j, M) = p + u
  <2>1. u = B - S
    BY <1>1, <1>3
  <2>2. (x + 1) * B + 0 * S = p + B
    BY <1>1, <1>3
  <2>3. u \in Int
    BY <1>1, <2>1
  <2> QED BY <1>2, <1>3, <2>1, <2>2, <2>3
<1> HIDE DEF p, q, u
<1>5. /\ Start(j, s) \in Nat
      /\ Start(j, s + 1) = Start(j, s) + S
      /\ Start(j + 1, 1) = Start(j, M) + S
  BY <1>1, <1>4
<1> QED BY <1>5 DEF S, M

LEMMA StartGrows ==
  ASSUME NEW j \in Nat \ {0}, NEW j2 \in Nat \ {0}, j <= j2,
         NEW s \in Nat \ {0}, NEW s2 \in Nat \ {0}, s <= s2
  PROVE  Start(j, s) <= Start(j2, s2)
<1> DEFINE x == j - 1
           x2 == j2 - 1
           y == s - 1
           y2 == s2 - 1
<1>1. x \in Nat /\ x2 \in Nat /\ x <= x2 /\ y \in Nat /\ y2 \in Nat /\ y <= y2
  OBVIOUS
<1>2. BytesPerGranule \in Nat /\ BytesPerSector \in Nat
  BY GranuleBytes
<1> HIDE DEF x, x2, y, y2
<1>3. /\ x * BytesPerGranule \in Nat /\ x2 * BytesPerGranule \in Nat
      /\ y * BytesPerSector \in Nat /\ y2 * BytesPerSector \in Nat
      /\ x * BytesPerGranule <= x2 * BytesPerGranule
      /\ y * BytesPerSector <= y2 * BytesPerSector
  BY <1>1, <1>2
<1>4. x * BytesPerGranule + y * BytesPerSector <= x2 * BytesPerGranule + y2 * BytesPerSector
  BY <1>3
<1> QED BY <1>4 DEF Start, x, x2, y, y2

(* The last place ends with the file; the others are full and the file     *)
(* goes on after them.                                                     *)
LEMMA PlaceEnds ==
  ASSUME NEW k, SoundDisk(k), NEW j, NEW s, Place(k, j, s)
  PROVE  /\ Start(j, s) \in Nat
         /\ SizeAt(k, j, s) \in 1 .. BytesPerSector
         /\ IsLast(k, j, s) => Start(j, s) + SizeAt(k, j, s) = k.length
         /\ ~ IsLast(k, j, s) => Start(j, s) + SizeAt(k, j, s) < k.length
<1> DEFINE n == Count(k)
           c == LastSector(k)
           S == BytesPerSector
           M == SectorsPerGranule
<1>1. /\ n \in Nat \ {0} /\ c \in 1 .. M /\ M \in Nat \ {0} /\ S \in Nat \ {0}
      /\ k.lastBytes \in 1 .. S /\ k.length \in Nat
      /\ k.length = Start(n, c) + k.lastBytes
      /\ j \in 1 .. n /\ s \in 1 .. M /\ (j = n => s <= c)
  BY GranuleBytes DEF SoundDisk, Place, Start
<1> HIDE DEF n, c, S, M
<1>2. /\ j \in Nat \ {0} /\ s \in Nat \ {0} /\ c \in Nat \ {0} /\ j <= n
  BY <1>1
<1>3. Start(j, s) \in Nat /\ Start(n, c) \in Nat
  BY <1>1, <1>2, StartSteps
<1>4. SizeAt(k, j, s) \in 1 .. S
  BY <1>1 DEF SizeAt, S
<1>5. CASE IsLast(k, j, s)
  BY <1>1, <1>3, <1>4, <1>5 DEF SizeAt, IsLast, n, c, S
<1>6. CASE ~ IsLast(k, j, s)
  <2>1. SizeAt(k, j, s) = S
    BY <1>6 DEF SizeAt, S
  <2>2. Start(j, s) + S <= Start(n, c)
    <3>1. CASE j = n
      <4>1. s + 1 <= c /\ s + 1 \in Nat \ {0}
        BY <1>1, <1>2, <1>6, <3>1 DEF IsLast, n, c
      <4>2. Start(j, s + 1) <= Start(n, c)
        BY <1>1, <1>2, <3>1, <4>1, StartGrows
      <4>3. Start(j, s + 1) = Start(j, s) + S
        BY <1>2, StartSteps DEF S
      <4> QED BY <4>2, <4>3
    <3>2. CASE j # n
      <4>1. j + 1 <= n /\ j + 1 \in Nat \ {0}
        BY <1>1, <1>2, <3>2
      <4>2. Start(j + 1, 1) <= Start(n, c)
        BY <1>1, <1>2, <4>1, StartGrows
      <4>3. Start(j, s) <= Start(j, M)
        BY <1>1, <1>2, StartGrows
      <4>4. Start(j + 1, 1) = Start(j, M) + S
        BY <1>2, StartSteps DEF S, M
      <4>5. Start(j, M) \in Nat /\ Start(j + 1, 1) \in Nat
        BY <1>1, <1>2, <4>1, StartSteps
      <4> QED BY <1>1, <1>3, <4>2, <4>3, <4>4, <4>5
    <3> QED BY <3>1, <3>2
  <2> QED BY <1>1, <1>3, <1>4, <1>6, <2>1, <2>2 DEF S
<1> QED BY <1>3, <1>4, <1>5, <1>6 DEF S

(* The place that getNextSector() moves to.                                *)
LEMMA PlaceAfter ==
  ASSUME NEW k, SoundDisk(k), NEW j, NEW s, Place(k, j, s)
  PROVE  LET used == SectorsInUse(k.fat[k.granules[j]])
         IN  /\ k.granules[j] \in Granules
             /\ used \in Nat /\ s <= used
             /\ IsLast(k, j, s) <=> s = used /\ k.fat[k.granules[j]] > BASE_LAST
             /\ s < used => Place(k, j, s + 1) /\ Start(j, s + 1) = Start(j, s) + BytesPerSector
             /\ s = used /\ ~ IsLast(k, j, s) =>
                  /\ Place(k, j + 1, 1) /\ Start(j + 1, 1) = Start(j, s) + BytesPerSector
                  /\ k.fat[k.granules[j]] = k.granules[j + 1]
                  /\ k.granules[j + 1] \in Granules
<1> DEFINE n == Count(k)
           c == LastSector(k)
           M == SectorsPerGranule
           g == k.granules[j]
           e == k.fat[g]
<1>1. /\ n \in Nat \ {0} /\ c \in 1 .. M /\ M \in Nat \ {0}
      /\ k.granules \in [1 .. n -> Granules]
      /\ \A i \in 1 .. n - 1 : k.fat[k.granules[i]] = k.granules[i + 1]
      /\ k.fat[k.granules[n]] = BASE_LAST + c
      /\ j \in 1 .. n /\ s \in 1 .. M /\ (j = n => s <= c)
  BY GranuleBytes DEF SoundDisk, Place, OneToOne
<1>2. g \in Granules
  BY <1>1
<1> HIDE DEF n, c, M, e, g
<1>3. /\ Start(j, s + 1) = Start(j, s) + BytesPerSector
      /\ Start(j + 1, 1) = Start(j, M) + BytesPerSector
  <2>1. j \in Nat \ {0} /\ s \in Nat \ {0}
    BY <1>1
  <2> QED BY <2>1, StartSteps DEF M
<1>4. CASE j = n
  <2>1. e = BASE_LAST + c /\ e > BASE_LAST /\ SectorsInUse(e) = c /\ c \in Nat
    <3>1. e = 192 + c
      BY <1>1, <1>4 DEF e, g, BASE_LAST
    <3>2. c \in Nat \ {0}
      BY <1>1
    <3> QED BY <3>1, <3>2 DEF SectorsInUse, BASE_LAST
  <2>2. s < c => Place(k, j, s + 1)
    BY <1>1, <1>4 DEF Place, n, c, M
  <2> QED BY <1>1, <1>2, <1>3, <1>4, <2>1, <2>2 DEF IsLast, n, c, e, g
<1>5. CASE j # n
  <2>1. j \in 1 .. n - 1 /\ j + 1 \in 1 .. n
    BY <1>1, <1>5
  <2>2. e = k.granules[j + 1] /\ k.granules[j + 1] \in Granules /\ e \in Granules
    BY <1>1, <2>1 DEF e, g
  <2>3. ~ (e > BASE_LAST) /\ SectorsInUse(e) = M
    BY <2>2, TableValues DEF SectorsInUse, BASE_LAST, M
  <2>4. ~ IsLast(k, j, s)
    BY <1>5 DEF IsLast, n
  <2>5. s < M => Place(k, j, s + 1)
    BY <1>1, <1>5 DEF Place, n, c, M
  <2>6. Place(k, j + 1, 1)
    BY <1>1, <2>1 DEF Place, n, c, M
  <2>8. M \in Nat /\ s <= M
    BY <1>1
  <2> QED BY <1>2, <1>3, <2>2, <2>3, <2>4, <2>5, <2>6, <2>8 DEF e, g, M
<1> QED BY <1>4, <1>5

(* The place of a position to which a careful program may seek.            *)
LEMMA PlaceOf ==
  ASSUME NEW k, SoundDisk(k), NEW pos \in 0 .. k.length,
         pos < k.length \/ k.length % BytesPerSector # 0
  PROVE  LET j == pos \div BytesPerGranule + 1
             p == pos % BytesPerGranule
             s == p \div BytesPerSector + 1
             o == p % BytesPerSector
         IN  /\ Place(k, j, s)
             /\ o \in 0 .. BytesPerSector - 1
             /\ pos = Start(j, s) + o
<1> DEFINE B == BytesPerGranule
           S == BytesPerSector
           M == SectorsPerGranule
           q == pos \div B
           p == pos % B
           u == p \div S
           o == p % S
           x == Count(k) - 1
           y == LastSector(k) - 1
           l == k.lastBytes
           L == k.length
<1>1. /\ B \in Nat \ {0} /\ S \in Nat \ {0} /\ M \in Nat \ {0} /\ B = M * S
      /\ x \in Nat /\ y \in 0 .. M - 1 /\ l \in 1 .. S /\ L \in Nat
      /\ L = x * B + y * S + l
      /\ L % S # 0 => l < S
  BY GranuleBytes DEF SoundDisk
<1>2. pos \in Nat /\ pos <= L
  BY <1>1
<1>3. /\ q \in Nat /\ p \in 0 .. B - 1 /\ pos = B * q + p
  BY <1>1, <1>2, DivMod
<1>4. /\ u \in Nat /\ o \in 0 .. S - 1 /\ p = S * u + o
  <2> HIDE DEF p, S
  <2>1. p \in Nat
    BY <1>1, <1>3
  <2> QED BY <1>1, <2>1, DivMod
<1> HIDE DEF B, S, M, x, y, l, L
<1> DEFINE a == x * B
           b == y * S
<1>5. /\ a \in Nat /\ b \in Nat /\ b + S <= B /\ (x + 1) * B = a + B
      /\ (y + 1) * S = b + S
  <2>1. y \in Nat /\ y + 1 <= M
    BY <1>1
  <2>2. (y + 1) * S <= M * S /\ (y + 1) * S = y * S + S /\ y * S \in Nat
    BY <1>1, <2>1
  <2>3. x * B \in Nat /\ (x + 1) * B = x * B + B
    BY <1>1
  <2> QED BY <1>1, <2>2, <2>3
<1>6. pos < a + b + S
  <2>1. L = a + b + l
    BY <1>1
  <2> HIDE DEF a, b
  <2>2. CASE pos < L
    BY <1>1, <1>2, <1>5, <2>1, <2>2
  <2>3. CASE L % S # 0
    BY <1>1, <1>2, <1>5, <2>1, <2>3
  <2> QED BY <2>2, <2>3 DEF L, S
<1>7. q <= x
  <2>1. pos < (x + 1) * B
    <3> HIDE DEF a, b
    <3> QED BY <1>1, <1>2, <1>5, <1>6
  <2> QED BY <1>1, <1>2, <2>1, DivUpper
<1> HIDE DEF q, p
<1>8. u <= M - 1
  <2>1. p \in Nat /\ M - 1 \in Nat /\ p < ((M - 1) + 1) * S
    <3>1. (M - 1) + 1 = M /\ M - 1 \in Nat /\ p \in Nat /\ p < M * S
      BY <1>1, <1>3
    <3> QED BY <3>1
  <2> QED BY <1>1, <2>1, DivUpper
<1>9. ASSUME q = x PROVE u <= y
  <2>1. B * q = a
    BY <1>1, <1>9
  <2>2. p \in Nat /\ y \in Nat /\ p < (y + 1) * S
    <3> HIDE DEF a, b
    <3> QED BY <1>1, <1>2, <1>3, <1>5, <1>6, <2>1
  <2> QED BY <1>1, <2>2, DivUpper
<1> HIDE DEF u, o
<1>10. Place(k, q + 1, u + 1)
  <2>1. Count(k) = x + 1 /\ LastSector(k) = y + 1
    BY DEF SoundDisk, x, y
  <2>2. q + 1 \in 1 .. x + 1 /\ u + 1 \in 1 .. M
    BY <1>1, <1>3, <1>4, <1>7, <1>8
  <2>3. q + 1 = x + 1 => u + 1 <= y + 1
    BY <1>1, <1>3, <1>4, <1>9
  <2> QED BY <2>1, <2>2, <2>3 DEF Place, M
<1>11. pos = Start(q + 1, u + 1) + o
  <2>1. (q + 1) - 1 = q /\ (u + 1) - 1 = u
    BY <1>3, <1>4
  <2>2. Start(q + 1, u + 1) = q * B + u * S
    BY <2>1 DEF Start, B, S
  <2> DEFINE z1 == q * B
             z2 == u * S
  <2>3. z1 = B * q /\ z2 = S * u /\ z1 \in Nat /\ z2 \in Nat
    BY <1>1, <1>3, <1>4
  <2>4. pos = z1 + (z2 + o) /\ o \in Nat
    BY <1>1, <1>3, <1>4, <2>3
  <2> HIDE DEF z1, z2
  <2>5. pos = (z1 + z2) + o
    BY <2>3, <2>4
  <2> QED BY <2>2, <2>5 DEF z1, z2
<1> QED BY <1>4, <1>10, <1>11 DEF q, p, u, o, B, S

(* What the file holds at a place.                                         *)
LEMMA PlaceBytes ==
  ASSUME NEW d, SoundDisk(disks[d]), NEW j, NEW s, Place(disks[d], j, s),
         NEW o \in 0 .. BytesPerSector - 1
  PROVE  ByteAt(d, Start(j, s) + o) = <<d, disks[d].granules[j], s, o>>
<1> DEFINE B == BytesPerGranule
           S == BytesPerSector
           M == SectorsPerGranule
           x == j - 1
           y == s - 1
           r == S * y + o
           p == Start(j, s) + o
<1>1. /\ B \in Nat \ {0} /\ S \in Nat \ {0} /\ M \in Nat \ {0} /\ B = M * S
      /\ x \in Nat /\ y \in 0 .. M - 1 /\ o \in 0 .. S - 1 /\ x + 1 = j /\ y + 1 = s
  BY GranuleBytes DEF Place, SoundDisk
<1>2. p = B * x + r /\ r \in 0 .. B - 1 /\ p \in Nat
  <2>1. Start(j, s) = x * B + y * S
    BY DEF Start
  <2> HIDE DEF B, S, M, x, y
  <2> DEFINE z1 == x * B
             z2 == y * S
  <2>2. z1 = B * x /\ z2 = S * y /\ z1 \in Nat /\ z2 \in Nat /\ z2 + S <= B
    <3>1. y \in Nat /\ y + 1 <= M
      BY <1>1
    <3>2. (y + 1) * S <= M * S /\ (y + 1) * S = y * S + S
      BY <1>1, <3>1
    <3> QED BY <1>1, <3>1, <3>2
  <2> HIDE DEF z1, z2
  <2>3. p = z1 + (z2 + o) /\ z2 + o \in 0 .. B - 1 /\ o \in Nat
    <3>1. Start(j, s) = z1 + z2
      BY <2>1 DEF z1, z2
    <3> QED BY <1>1, <2>2, <3>1
  <2>4. r = z2 + o
    BY <2>2
  <2> QED BY <2>2, <2>3, <2>4
<1> HIDE DEF p
<1>3. p \div B = x /\ p % B = r
  <2> HIDE DEF r, B, x
  <2>1. p \in Nat /\ B \in Nat \ {0} /\ x \in Nat /\ r \in 0 .. B - 1 /\ p = B * x + r
    BY <1>1, <1>2
  <2> QED BY <2>1, DivUnique
<1>4. r \div S = y /\ r % S = o
  <2> HIDE DEF S, M, y, B
  <2> DEFINE v == r
  <2>1. v \in Nat /\ y \in Nat /\ v = S * y + o
    BY <1>1, <1>2
  <2> HIDE DEF v
  <2> QED BY <1>1, <2>1, DivUnique DEF v
<1> HIDE DEF r
<1>5. ByteAt(d, p) = <<d, disks[d].granules[x + 1], y + 1, o>>
  BY <1>3, <1>4 DEF ByteAt
<1> HIDE DEF x, y
<1> QED BY <1>1, <1>5 DEF p

(* The loop of seek() finds the granule of a place.                        *)
Followed(f, first, n) ==
  CHOOSE w : w = [k \in 0 .. n |->
                    IF k = 0 THEN first ELSE IF w[k - 1] \in Granules THEN f[w[k - 1]] ELSE w[k - 1]]

LEMMA FollowFinds ==
  ASSUME NEW k, SoundDisk(k), NEW m \in 0 .. Count(k) - 1
  PROVE  Follow(k.fat, k.granules[1], m) = k.granules[m + 1]
<1> DEFINE f == k.fat
           s == k.granules
           n == Count(k)
           v == Followed(f, s[1], m)
           w == [i \in 0 .. m |-> s[i + 1]]
<1>1. /\ n \in Nat \ {0} /\ s \in [1 .. n -> Granules]
      /\ \A j \in 1 .. n - 1 : f[s[j]] = s[j + 1]
  BY DEF SoundDisk, OneToOne
<1>2. Follow(f, s[1], m) = v[m]
  BY DEF Follow, Followed
<1> HIDE DEF f, s, n
<1>3. m \in Nat /\ m + 1 <= n
  BY <1>1 DEF n
<1>4. w = [i \in 0 .. m |->
             IF i = 0 THEN s[1] ELSE IF w[i - 1] \in Granules THEN f[w[i - 1]] ELSE w[i - 1]]
  <2> SUFFICES ASSUME NEW i \in 0 .. m
               PROVE  s[i + 1] = IF i = 0 THEN s[1]
                                 ELSE IF w[i - 1] \in Granules THEN f[w[i - 1]] ELSE w[i - 1]
    OBVIOUS
  <2>1. CASE i = 0
    BY <2>1
  <2>2. CASE i # 0
    <3>1. i \in 1 .. n - 1 /\ i - 1 \in 0 .. m /\ (i - 1) + 1 = i /\ i \in 1 .. n
      BY <1>1, <1>3, <2>2
    <3>2. w[i - 1] = s[i]
      BY <3>1
    <3> QED BY <1>1, <2>2, <3>1, <3>2
  <2> QED BY <2>1, <2>2
<1>5. v = [i \in 0 .. m |->
             IF i = 0 THEN s[1] ELSE IF v[i - 1] \in Granules THEN f[v[i - 1]] ELSE v[i - 1]]
  <2> HIDE DEF w
  <2> QED BY <1>4 DEF Followed
<1> HIDE DEF v, w
<1> DEFINE T == {i \in 1 .. m + 1 : v[i - 1] = s[i]}
<1>6. 1 \in T
  BY <1>3, <1>5
<1>7. ASSUME NEW i \in 1 .. (m + 1) - 1, i \in T PROVE i + 1 \in T
  <2>1. i \in 0 .. m /\ i # 0 /\ i + 1 \in 1 .. m + 1 /\ (i + 1) - 1 = i /\ i \in 1 .. n - 1 /\ i \in 1 .. n
    BY <1>1, <1>3
  <2>2. v[i - 1] = s[i]
    BY <1>7
  <2>3. v[i] = f[s[i]]
    BY <1>1, <1>5, <2>1, <2>2
  <2> QED BY <1>1, <2>1, <2>3
<1>8. m + 1 \in T
  <2> HIDE DEF T
  <2>1. m + 1 \in Nat /\ m + 1 \in 1 .. m + 1
    BY <1>3
  <2> QED BY <1>6, <1>7, <2>1, IntervalInduction
<1>9. v[m] = s[m + 1]
  BY <1>3, <1>8
<1> QED BY <1>2, <1>9 DEF f, s

-----------------------------------------------------------------------------
(* Descriptors.                                                            *)

FileDescs ==
  [isOpen : BOOLEAN, drive : Nat, firstGran : Nat, lastBytes : Nat, length : Nat,
   curGran : Nat, curSec : Nat, offset : Nat, secOffset : Nat,
   curSector : Seq(Nat), availBytes : Nat]

Ranks       == 1 .. NumGranules
SectorNos   == 1 .. SectorsPerGranule

(* A descriptor has its fields, whatever they hold.                        *)
Shaped(d) ==
  d \in [isOpen : {d.isOpen}, drive : {d.drive}, firstGran : {d.firstGran},
         lastBytes : {d.lastBytes}, length : {d.length}, curGran : {d.curGran},
         curSec : {d.curSec}, offset : {d.offset}, secOffset : {d.secOffset},
         curSector : {d.curSector}, availBytes : {d.availBytes}]

(* The descriptor describes the file of diskette k.                        *)
Knows(k, d) ==
  d.firstGran = k.granules[1] /\ d.lastBytes = k.lastBytes /\ d.length = k.length

(* The sector to be loaded next is the one at the place.                   *)
Heads(k, d, j, s) == Place(k, j, s) /\ d.curGran = k.granules[j] /\ d.curSec = s

(* No sector is in memory.                                                 *)
Waiting(k, d) ==
  /\ d.availBytes = 0
  /\ \/ d.curGran = EOF /\ d.offset = k.length
     \/ \E j \in Ranks, s \in SectorNos :
          /\ Heads(k, d, j, s)
          /\ d.secOffset < BytesPerSector
          /\ d.offset = Start(j, s) + d.secOffset
          /\ d.offset <= k.length

(* The sector at the place is in memory, and the next one is known.        *)
Holds(k, d, j, s) ==
  /\ Place(k, j, s)
  /\ d.curSector = <<d.drive, k.granules[j], s>>
  /\ d.availBytes = SizeAt(k, j, s)
  /\ d.secOffset <= d.availBytes
  /\ d.offset = Start(j, s) + d.secOffset
  /\ IsLast(k, j, s) => d.curGran = EOF
  /\ ~ IsLast(k, j, s) =>
       /\ d.secOffset < d.availBytes
       /\ \E j2 \in Ranks, s2 \in SectorNos :
            Heads(k, d, j2, s2) /\ Start(j2, s2) = Start(j, s) + BytesPerSector

Positioned(k, d) ==
  Waiting(k, d) \/ \E j \in Ranks, s \in SectorNos : Holds(k, d, j, s)

(* What is offered at the full end of a file, where no place is.           *)
Offered(d) ==
  /\ d.secOffset \in Nat /\ d.availBytes \in Nat
  /\ d.availBytes = 0 => d.secOffset = 0
  /\ d.availBytes # 0 => d.secOffset < d.availBytes

(* What is known of an open descriptor, the less the more went amiss.      *)
Truthful(d, am) ==
  /\ Shaped(d) /\ d.isOpen = TRUE /\ d.drive \in Drives
  /\ "opened" \notin am => SoundDisk(disks[d.drive]) /\ Knows(disks[d.drive], d)
  /\ am = {} => d \in FileDescs /\ Positioned(disks[d.drive], d)

Reasons == {"opened", "table", "end"}

ReaderInv ==
  /\ \A d \in Drives : LaidOut(disks[d])
  /\ curDriveNo \in Drives /\ amiss \subseteq Reasons
  /\ amiss \subseteq {"end"} => left \in Nat
  /\ Shaped(fd) /\ fd.isOpen \in BOOLEAN
  /\ fd.isOpen => Truthful(fd, amiss)
  /\ stuck = "no" /\ amiss = {"end"} => Offered(fd)
  /\ ~ fd.isOpen => left = 0 /\ amiss = {} /\ fd.offset = 0
  /\ HaltsExplained

LEMMA RanksOf ==
  ASSUME NEW k, SoundDisk(k), NEW j, NEW s, Place(k, j, s)
  PROVE  j \in Ranks /\ s \in SectorNos /\ j \in Nat /\ s \in Nat
BY SizesAssumption DEF SoundDisk, Place, Ranks, SectorNos

LEMMA NoGranuleIsEOF == EOF \notin Granules
BY TableValues DEF EOF, BASE_LAST

LEMMA DescriptorsAreShaped ==
  ASSUME NEW d \in FileDescs
  PROVE  Shaped(d)
BY DEF FileDescs, Shaped

LEMMA KnownFields ==
  ASSUME NEW k, SoundDisk(k), NEW d, Knows(k, d)
  PROVE  d.firstGran \in Nat /\ d.lastBytes \in Nat \ {0} /\ d.length \in Nat \ {0}
<1>1. 1 \in 1 .. Count(k) /\ k.granules \in [1 .. Count(k) -> Granules]
  BY DEF SoundDisk, OneToOne
<1>2. k.granules[1] \in Nat
  BY <1>1, TableValues
<1>3. k.lastBytes \in 1 .. BytesPerSector /\ k.length \in Nat \ {0}
  BY DEF SoundDisk
<1> QED BY <1>2, <1>3, GranuleBytes DEF Knows

(* rewind() leaves the descriptor at the first place.                      *)
LEMMA RewoundIs ==
  ASSUME NEW k, SoundDisk(k), NEW d, Shaped(d), d.isOpen \in BOOLEAN, d.drive \in Nat, Knows(k, d)
  PROVE  LET e == Rewound(d)
         IN  /\ e \in FileDescs /\ Knows(k, e) /\ Positioned(k, e)
             /\ e.isOpen = d.isOpen /\ e.drive = d.drive /\ e.offset = 0
<1> DEFINE e == Rewound(d)
<1>0. d.firstGran \in Nat /\ d.lastBytes \in Nat /\ d.length \in Nat
  BY KnownFields
<1>1. /\ e \in FileDescs
      /\ e.isOpen = d.isOpen /\ e.drive = d.drive /\ e.firstGran = d.firstGran
      /\ e.lastBytes = d.lastBytes /\ e.length = d.length
      /\ e.curGran = d.firstGran /\ e.curSec = 1 /\ e.offset = 0 /\ e.secOffset = 0
      /\ e.availBytes = 0
  <2>1. <<>> \in Seq(Nat)
    OBVIOUS
  <2>2. e = [d EXCEPT !.curGran = d.firstGran, !.curSec = 1, !.offset = 0, !.secOffset = 0,
                      !.availBytes = 0, !.curSector = <<>>]
    BY DEF Rewound
  <2> DEFINE none == <<>>
  <2> HIDE DEF e, none
  <2> QED BY <1>0, <2>1, <2>2 DEF FileDescs, Shaped, none
<1>2. Place(k, 1, 1)
  BY GranuleBytes DEF SoundDisk, Place
<1>3. Start(1, 1) = 0
  BY GranuleBytes DEF Start
<1> HIDE DEF e
<1>4. Heads(k, e, 1, 1)
  BY <1>1, <1>2 DEF Heads, Knows
<1>5. Waiting(k, e)
  <2>1. 0 < BytesPerSector /\ 0 <= k.length /\ 0 = Start(1, 1) + 0
    BY <1>3, GranuleBytes DEF SoundDisk
  <2> QED BY <1>1, <1>2, <1>4, <2>1, RanksOf DEF Waiting
<1> QED BY <1>1, <1>5 DEF e, Knows, Positioned

(* seek() leaves it at the place of the position.                          *)
LEMMA SoughtIs ==
  ASSUME NEW k, SoundDisk(k), NEW d, Shaped(d), d.isOpen \in BOOLEAN, d.drive \in Nat,
         Knows(k, d), NEW pos \in 0 .. k.length,
         pos < k.length \/ k.length % BytesPerSector # 0
  PROVE  LET gran == Follow(k.fat, k.granules[1], pos \div BytesPerGranule)
             e    == Sought(d, gran, pos)
         IN  /\ gran \in Granules
             /\ e \in FileDescs /\ Knows(k, e) /\ Positioned(k, e)
             /\ e.isOpen = d.isOpen /\ e.drive = d.drive /\ e.offset = pos
<1> DEFINE q == pos \div BytesPerGranule
           p == pos % BytesPerGranule
           u == p \div BytesPerSector
           o == p % BytesPerSector
           gran == Follow(k.fat, k.granules[1], q)
           e    == Sought(d, gran, pos)
<1>1. /\ Place(k, q + 1, u + 1)
      /\ o \in 0 .. BytesPerSector - 1
      /\ pos = Start(q + 1, u + 1) + o
  BY PlaceOf
<1>2. q \in Nat /\ p \in Nat
  <2>1. pos \in Nat
    BY DEF SoundDisk
  <2>2. pos \div BytesPerGranule \in Nat /\ pos % BytesPerGranule \in 0 .. BytesPerGranule - 1
    BY <2>1, GranuleBytes, DivMod
  <2> QED BY <2>2, GranuleBytes
<1>3. u \in Nat /\ o \in Nat
  <2> HIDE DEF p
  <2>1. p \div BytesPerSector \in Nat /\ p % BytesPerSector \in 0 .. BytesPerSector - 1
    BY <1>2, GranuleBytes, DivMod
  <2> QED BY <2>1, GranuleBytes
<1>4. Sought(d, gran, pos) =
        [d EXCEPT !.curGran = gran, !.curSec = u + 1, !.secOffset = o, !.availBytes = 0,
                  !.curSector = <<>>, !.offset = pos]
  BY DEF Sought
<1> HIDE DEF q, p, u, o
<1>5. q \in 0 .. Count(k) - 1
  BY <1>1, <1>2 DEF Place, SoundDisk
<1>6. gran = k.granules[q + 1]
  BY <1>5, FollowFinds
<1>7. gran \in Granules /\ gran \in Nat
  <2>1. q + 1 \in 1 .. Count(k)
    BY <1>1 DEF Place
  <2> QED BY <1>6, <2>1, TableValues DEF SoundDisk, OneToOne
<1> HIDE DEF gran
<1>8. /\ e \in FileDescs
      /\ e.isOpen = d.isOpen /\ e.drive = d.drive /\ e.firstGran = d.firstGran
      /\ e.lastBytes = d.lastBytes /\ e.length = d.length
      /\ e.curGran = gran /\ e.curSec = u + 1 /\ e.offset = pos /\ e.secOffset = o
      /\ e.availBytes = 0
  <2>1. pos \in Nat
    BY DEF SoundDisk
  <2>2. u + 1 \in Nat
    BY <1>3
  <2>3. e = [d EXCEPT !.curGran = gran, !.curSec = u + 1, !.secOffset = o, !.availBytes = 0,
                      !.curSector = <<>>, !.offset = pos]
    BY <1>4
  <2>6. <<>> \in Seq(Nat) /\ d.firstGran \in Nat /\ d.lastBytes \in Nat /\ d.length \in Nat
    BY KnownFields
  <2> HIDE DEF e
  <2> DEFINE sec  == u + 1
             none == <<>>
  <2> HIDE DEF sec, none
  <2>4. sec \in Nat /\ none \in Seq(Nat)
        /\ e = [d EXCEPT !.curGran = gran, !.curSec = sec, !.secOffset = o,
                         !.availBytes = 0, !.curSector = none, !.offset = pos]
    BY <2>2, <2>3, <2>6 DEF sec, none
  <2>5. /\ e \in FileDescs
        /\ e.isOpen = d.isOpen /\ e.drive = d.drive /\ e.firstGran = d.firstGran
        /\ e.lastBytes = d.lastBytes /\ e.length = d.length
        /\ e.curGran = gran /\ e.curSec = sec /\ e.offset = pos /\ e.secOffset = o
        /\ e.availBytes = 0
    BY <1>3, <1>7, <2>1, <2>4, <2>6 DEF FileDescs, Shaped
  <2> QED BY <2>5 DEF sec
<1> HIDE DEF e
<1>9. Heads(k, e, q + 1, u + 1)
  BY <1>1, <1>6, <1>8 DEF Heads
<1>10. Waiting(k, e)
  <2>1. o < BytesPerSector /\ pos <= k.length
    BY <1>1, <1>3, GranuleBytes DEF SoundDisk
  <2>2. q + 1 \in Ranks /\ u + 1 \in SectorNos
    BY <1>1, RanksOf
  <2> QED BY <1>1, <1>8, <1>9, <2>1, <2>2 DEF Waiting
<1> QED BY <1>7, <1>8, <1>10 DEF gran, q, e, Knows, Positioned

-----------------------------------------------------------------------------
(* Delivering bytes.                                                       *)

LEMMA FourthAdded ==
  ASSUME NEW a, NEW b, NEW c, NEW o
  PROVE  <<a, b, c>> \o <<o>> = <<a, b, c, o>>
<1> DEFINE X == {a, b, c, o}
           s == <<a, b, c>>
           t == <<o>>
           r == <<a, b, c, o>>
           u == s \o t
<1>1. s \in Seq(X) /\ t \in Seq(X) /\ r \in Seq(X)
  OBVIOUS
<1>2. Len(s) = 3 /\ Len(t) = 1 /\ Len(r) = 4
  OBVIOUS
<1>3. s[1] = a /\ s[2] = b /\ s[3] = c /\ t[1] = o
      /\ r[1] = a /\ r[2] = b /\ r[3] = c /\ r[4] = o
  OBVIOUS
<1> HIDE DEF X, s, t, r
<1>4. /\ u \in Seq(X) /\ Len(u) = 4
      /\ \A i \in 1 .. 4 : u[i] = IF i <= 3 THEN s[i] ELSE t[i - 3]
  <2>1. s \o t \in Seq(X) /\ Len(s \o t) = Len(s) + Len(t)
    BY <1>1, ConcatProperties
  <2>2. \A i \in 1 .. Len(s) + Len(t) : (s \o t)[i] = IF i <= Len(s) THEN s[i] ELSE t[i - Len(s)]
    BY <1>1, ConcatProperties
  <2>3. Len(s) + Len(t) = 4
    BY <1>2
  <2> QED BY <1>2, <2>1, <2>2, <2>3
<1> HIDE DEF u
<1>5. u[1] = r[1] /\ u[2] = r[2] /\ u[3] = r[3] /\ u[4] = r[4]
  BY <1>3, <1>4
<1>6. \A i \in 1 .. 4 : i = 1 \/ i = 2 \/ i = 3 \/ i = 4
  OBVIOUS
<1>7. \A i \in 1 .. 4 : u[i] = r[i]
  BY <1>5, <1>6
<1>8. u = r
  BY <1>1, <1>2, <1>4, <1>7, SeqEqual
<1> QED BY <1>8 DEF u, s, t, r

(* A sector in memory has a byte count, and what it offers lies before the *)
(* end of the file.                                                        *)
LEMMA HeldBytes ==
  ASSUME NEW k, SoundDisk(k), NEW d \in FileDescs, NEW j, NEW s, Holds(k, d, j, s)
  PROVE  /\ d.availBytes \in 1 .. BytesPerSector
         /\ Available(d) = d.availBytes - d.secOffset
         /\ Available(d) \in 0 .. BytesPerSector
         /\ d.offset + Available(d) = Start(j, s) + SizeAt(k, j, s)
         /\ d.offset + Available(d) <= k.length
         /\ d.offset <= k.length
<1>1. /\ Start(j, s) \in Nat /\ SizeAt(k, j, s) \in 1 .. BytesPerSector
      /\ Start(j, s) + SizeAt(k, j, s) <= k.length /\ k.length \in Nat
  BY PlaceEnds DEF Holds, SoundDisk
<1>2. d.secOffset \in Nat /\ d.availBytes \in Nat /\ d.offset \in Nat
  BY DEF FileDescs
<1>3. BytesPerSector \in Nat \ {0}
  BY GranuleBytes
<1>4. /\ d.availBytes = SizeAt(k, j, s) /\ d.secOffset <= d.availBytes
      /\ d.offset = Start(j, s) + d.secOffset
  BY DEF Holds
<1>5. Available(d) = d.availBytes - d.secOffset
  BY <1>1, <1>2, <1>3, <1>4 DEF Available
<1> QED BY <1>1, <1>2, <1>3, <1>4, <1>5

(* Without one there is nothing to offer.                                  *)
LEMMA NothingHeld ==
  ASSUME NEW d, d.availBytes = 0
  PROVE  Available(d) = 0
BY DEF Available

LEMMA PositionKnown ==
  ASSUME NEW k, SoundDisk(k), NEW d \in FileDescs, Positioned(k, d)
  PROVE  /\ Available(d) \in Nat
         /\ d.offset \in 0 .. k.length
         /\ d.offset + Available(d) <= k.length
<1>1. CASE Waiting(k, d)
  <2>1. d.offset \in Nat /\ d.offset <= k.length /\ k.length \in Nat
    BY <1>1 DEF Waiting, FileDescs, SoundDisk
  <2>2. Available(d) = 0
    BY <1>1, NothingHeld DEF Waiting
  <2> QED BY <2>1, <2>2
<1>2. CASE \E j \in Ranks, s \in SectorNos : Holds(k, d, j, s)
  <2>1. PICK j, s : Holds(k, d, j, s)
    BY <1>2
  <2>2. d.offset \in Nat /\ k.length \in Nat
    BY DEF FileDescs, SoundDisk
  <2> QED BY <2>1, <2>2, HeldBytes, GranuleBytes
<1> QED BY <1>1, <1>2 DEF Positioned

(* The bytes that are copied are those of the file at the position.        *)
LEMMA BytesCopied ==
  ASSUME NEW d \in FileDescs, SoundDisk(disks[d.drive]), Positioned(disks[d.drive], d),
         NEW n \in 0 .. Available(d)
  PROVE  /\ InSector(d, n) = SubSeq(FileBytes(d.drive), d.offset + 1, d.offset + n)
         /\ d.offset + n <= Len(FileBytes(d.drive))
         /\ Len(FileBytes(d.drive)) = disks[d.drive].length
<1> DEFINE k == disks[d.drive]
           F == FileBytes(d.drive)
<1>1. d.offset \in 0 .. k.length /\ d.offset + Available(d) <= k.length /\ k.length \in Nat
      /\ Available(d) \in Nat
  BY PositionKnown DEF SoundDisk
<1>2. F = [p \in 1 .. k.length |-> ByteAt(d.drive, p - 1)] /\ Len(F) = k.length
  BY <1>1 DEF FileBytes
<1>3. n \in Nat /\ d.offset + n <= k.length /\ d.offset \in Nat
  BY <1>1
<1>4. SubSeq(F, d.offset + 1, d.offset + n) = [i \in 1 .. n |-> F[d.offset + i]]
  <2> DEFINE a == d.offset
  <2> HIDE DEF F, a
  <2>1. a \in Nat /\ 1 + (a + n) - (a + 1) = n /\ \A i \in 1 .. n : i + (a + 1) - 1 = a + i
    BY <1>3 DEF a
  <2>2. SubSeq(F, a + 1, a + n) = [i \in 1 .. n |-> F[a + i]]
    BY <1>3, <2>1 DEF SubSeq
  <2> QED BY <2>2 DEF a
<1>5. ASSUME NEW i \in 1 .. n
      PROVE  d.curSector \o <<d.secOffset + i - 1>> = F[d.offset + i]
  <2>1. Available(d) # 0 /\ i \in Nat
    BY <1>1, <1>3
  <2>2. ~ Waiting(k, d)
    BY <2>1, NothingHeld DEF Waiting
  <2>3. PICK j \in Ranks, s \in SectorNos : Holds(k, d, j, s)
    BY <2>2 DEF Positioned
  <2> DEFINE o == d.secOffset + i - 1
  <2>4. d.secOffset \in Nat /\ d.availBytes \in Nat /\ BytesPerSector \in Nat
    BY GranuleBytes DEF FileDescs
  <2>5. o \in 0 .. BytesPerSector - 1
    BY <1>3, <2>3, <2>4, HeldBytes
  <2>6. Start(j, s) \in Nat /\ d.offset = Start(j, s) + d.secOffset /\ Place(k, j, s)
        /\ d.curSector = <<d.drive, k.granules[j], s>>
    BY <2>3, PlaceEnds DEF Holds
  <2>7. ByteAt(d.drive, Start(j, s) + o) = <<d.drive, k.granules[j], s, o>>
    <3> HIDE DEF o
    <3> QED BY <2>5, <2>6, PlaceBytes
  <2>8. F[d.offset + i] = ByteAt(d.drive, Start(j, s) + o)
    <3>1. d.offset + i \in 1 .. k.length /\ (d.offset + i) - 1 = Start(j, s) + o
      BY <1>1, <1>3, <2>4, <2>6
    <3> HIDE DEF o
    <3> QED BY <1>2, <3>1
  <2> HIDE DEF o, F
  <2>9. <<d.drive, k.granules[j], s>> \o <<o>> = <<d.drive, k.granules[j], s, o>>
    BY FourthAdded
  <2> QED BY <2>6, <2>7, <2>8, <2>9 DEF o
<1> QED BY <1>2, <1>3, <1>4, <1>5 DEF InSector

(* advanceOffset() keeps the descriptor at a place.                        *)
LEMMA AdvancedIs ==
  ASSUME NEW k, SoundDisk(k), NEW d \in FileDescs, Knows(k, d), Positioned(k, d),
         NEW n \in 1 .. Available(d)
  PROVE  LET e == Advanced(d, n)
         IN  /\ e \in FileDescs /\ Knows(k, e) /\ Positioned(k, e)
             /\ e.isOpen = d.isOpen /\ e.drive = d.drive /\ e.offset = d.offset + n
             /\ n = Available(d) => e.availBytes = 0
<1> DEFINE e    == Advanced(d, n)
           used == d.secOffset + n
<1>1. ~ Waiting(k, d)
  BY NothingHeld DEF Waiting
<1>2. PICK j \in Ranks, s \in SectorNos : Holds(k, d, j, s)
  BY <1>1 DEF Positioned
<1>3. /\ d.availBytes \in 1 .. BytesPerSector /\ BytesPerSector \in Nat
      /\ Available(d) = d.availBytes - d.secOffset
      /\ d.secOffset \in Nat /\ d.offset \in Nat /\ n \in Nat \ {0}
      /\ Start(j, s) \in Nat /\ d.offset = Start(j, s) + d.secOffset
      /\ used \in Nat /\ used <= d.availBytes
  <2>1. d.secOffset \in Nat /\ d.offset \in Nat /\ d.availBytes \in Nat /\ BytesPerSector \in Nat
    BY GranuleBytes DEF FileDescs
  <2>2. Start(j, s) \in Nat /\ d.offset = Start(j, s) + d.secOffset
    BY <1>2, PlaceEnds DEF Holds
  <2> QED BY <1>2, <2>1, <2>2, HeldBytes
<1>4. /\ e \in FileDescs
      /\ e.isOpen = d.isOpen /\ e.drive = d.drive /\ e.firstGran = d.firstGran
      /\ e.lastBytes = d.lastBytes /\ e.length = d.length
      /\ e.curGran = d.curGran /\ e.curSec = d.curSec
      /\ e.offset = d.offset + n
      /\ e.secOffset = (IF used >= d.availBytes THEN 0 ELSE used)
      /\ e.availBytes = (IF used >= d.availBytes THEN 0 ELSE d.availBytes)
      /\ e.curSector = (IF used >= d.availBytes THEN <<>> ELSE d.curSector)
  <2> DEFINE y == d.offset + n
             a == IF used >= d.availBytes THEN 0 ELSE used
             b == IF used >= d.availBytes THEN 0 ELSE d.availBytes
             z == IF used >= d.availBytes THEN <<>> ELSE d.curSector
  <2>1. y \in Nat /\ a \in Nat /\ b \in Nat
    BY <1>3
  <2>4. z \in Seq(Nat)
    BY DEF FileDescs
  <2>2. e = [d EXCEPT !.offset = y, !.secOffset = a, !.availBytes = b, !.curSector = z]
    BY DEF Advanced
  <2> HIDE DEF e, y, a, b, z
  <2>3. /\ e \in FileDescs
        /\ e.isOpen = d.isOpen /\ e.drive = d.drive /\ e.firstGran = d.firstGran
        /\ e.lastBytes = d.lastBytes /\ e.length = d.length
        /\ e.curGran = d.curGran /\ e.curSec = d.curSec
        /\ e.offset = y /\ e.secOffset = a /\ e.availBytes = b /\ e.curSector = z
    BY <2>1, <2>2, <2>4 DEF FileDescs
  <2> QED BY <2>3 DEF y, a, b, z
<1> HIDE DEF e
<1>5. Knows(k, e)
  BY <1>4 DEF Knows
<1>6. Place(k, j, s) /\ d.availBytes = SizeAt(k, j, s)
  BY <1>2 DEF Holds
<1>7. CASE used < d.availBytes
  <2>1. e.secOffset = used /\ e.availBytes = d.availBytes /\ e.offset = Start(j, s) + used
        /\ e.curSector = d.curSector
    BY <1>3, <1>4, <1>7
  <2>2. Holds(k, e, j, s)
    BY <1>2, <1>3, <1>4, <1>7, <2>1 DEF Holds, Heads
  <2>3. n # Available(d)
    BY <1>3, <1>7
  <2> QED BY <1>4, <1>5, <2>2, <2>3 DEF e, Positioned
<1>8. CASE used = d.availBytes
  <2>1. e.secOffset = 0 /\ e.availBytes = 0 /\ e.offset = Start(j, s) + SizeAt(k, j, s)
    BY <1>3, <1>4, <1>6, <1>8
  <2>2. Waiting(k, e)
    <3>1. CASE IsLast(k, j, s)
      <4>1. e.curGran = EOF
        BY <1>2, <1>4, <3>1 DEF Holds
      <4>2. e.offset = k.length
        BY <1>6, <2>1, <3>1, PlaceEnds
      <4> QED BY <2>1, <4>1, <4>2 DEF Waiting
    <3>2. CASE ~ IsLast(k, j, s)
      <4>1. PICK j2 \in Ranks, s2 \in SectorNos :
              Heads(k, d, j2, s2) /\ Start(j2, s2) = Start(j, s) + BytesPerSector
        BY <1>2, <3>2 DEF Holds
      <4>2. Heads(k, e, j2, s2)
        BY <1>4, <4>1 DEF Heads
      <4>3. e.offset = Start(j2, s2) + 0 /\ e.offset <= k.length
        <5>1. SizeAt(k, j, s) = BytesPerSector
          BY <3>2 DEF SizeAt
        <5>2. Start(j, s) + SizeAt(k, j, s) < k.length /\ k.length \in Nat
          BY <1>6, <3>2, PlaceEnds DEF SoundDisk
        <5> QED BY <1>3, <2>1, <4>1, <5>1, <5>2
      <4>4. 0 < BytesPerSector
        BY GranuleBytes
      <4> QED BY <2>1, <4>2, <4>3, <4>4 DEF Waiting
    <3> QED BY <3>1, <3>2
  <2> QED BY <1>4, <1>5, <2>1, <2>2 DEF e, Positioned
<1> QED BY <1>3, <1>7, <1>8

-----------------------------------------------------------------------------
(* Loading a sector.                                                       *)

(* The descriptor that getNextSector() has when the sector of d has been   *)
(* loaded, and the one it leaves.                                          *)
LoadedWith(d, bytes) ==
  [d EXCEPT !.curSector = <<d.drive, d.curGran, d.curSec>>, !.availBytes = bytes]

LEMMA SteppedIs ==
  ASSUME NEW k, SoundDisk(k), NEW d \in FileDescs, d.drive \in Nat, Knows(k, d),
         NEW j, NEW s, Heads(k, d, j, s),
         d.secOffset < BytesPerSector, d.offset = Start(j, s) + d.secOffset, d.offset <= k.length
  PROVE  LET e == Stepped(LoadedWith(d, SizeAt(k, j, s)), k.fat[d.curGran])
         IN  /\ e \in FileDescs /\ Knows(k, e) /\ Holds(k, e, j, s)
             /\ e.isOpen = d.isOpen /\ e.drive = d.drive /\ e.offset = d.offset
<1> DEFINE c     == LoadedWith(d, SizeAt(k, j, s))
           g     == k.granules[j]
           entry == k.fat[g]
           used  == SectorsInUse(entry)
           e     == Stepped(c, entry)
           a     == SizeAt(k, j, s)
           x     == <<d.drive, g, s>>
<1>1. Place(k, j, s) /\ d.curGran = g /\ d.curSec = s
  BY DEF Heads
<1>2. /\ g \in Granules /\ used \in Nat /\ s <= used
      /\ IsLast(k, j, s) <=> s = used /\ entry > BASE_LAST
      /\ s < used => Place(k, j, s + 1) /\ Start(j, s + 1) = Start(j, s) + BytesPerSector
      /\ s = used /\ ~ IsLast(k, j, s) =>
           /\ Place(k, j + 1, 1) /\ Start(j + 1, 1) = Start(j, s) + BytesPerSector
           /\ entry = k.granules[j + 1]
           /\ k.granules[j + 1] \in Granules
  BY <1>1, PlaceAfter
<1>3. /\ a \in 1 .. BytesPerSector /\ Start(j, s) \in Nat /\ k.length \in Nat
      /\ IsLast(k, j, s) => Start(j, s) + a = k.length
      /\ ~ IsLast(k, j, s) => a = BytesPerSector
      /\ BytesPerSector \in Nat
  BY <1>1, PlaceEnds, GranuleBytes DEF SizeAt, SoundDisk
<1>4. g \in Nat /\ s \in Nat /\ j \in Nat /\ g # EOF
  BY <1>1, <1>2, RanksOf, TableValues, NoGranuleIsEOF
<1> HIDE DEF g, entry, used, a
<1>5. a \in Nat /\ x \in Seq(Nat)
  BY <1>3, <1>4
<1> HIDE DEF x
<1>6. c = [d EXCEPT !.curSector = x, !.availBytes = a]
  BY <1>1 DEF x, a, LoadedWith
<1> HIDE DEF c
<1>7. /\ c \in FileDescs
      /\ c.isOpen = d.isOpen /\ c.drive = d.drive /\ c.firstGran = d.firstGran
      /\ c.lastBytes = d.lastBytes /\ c.length = d.length
      /\ c.curGran = g /\ c.curSec = s /\ c.offset = d.offset /\ c.secOffset = d.secOffset
      /\ c.curSector = x /\ c.availBytes = a
  BY <1>1, <1>5, <1>6 DEF FileDescs
<1>8. d.secOffset \in Nat /\ d.offset \in Nat /\ d.secOffset <= a
      /\ (~ IsLast(k, j, s) => d.secOffset < a)
  <2>1. d.secOffset \in Nat /\ d.offset \in Nat
    BY DEF FileDescs
  <2> QED BY <1>3, <2>1
<1> DEFINE Kept(u) == /\ u \in FileDescs
                      /\ u.isOpen = d.isOpen /\ u.drive = d.drive /\ u.firstGran = d.firstGran
                      /\ u.lastBytes = d.lastBytes /\ u.length = d.length
                      /\ u.offset = d.offset /\ u.secOffset = d.secOffset
                      /\ u.curSector = x /\ u.availBytes = a
<1>9. CASE s < used
  <2> DEFINE y == s + 1
  <2>1. y \in Nat /\ e = [c EXCEPT !.curSec = y]
    <3>1. c.curSec < SectorsInUse(entry)
      BY <1>7, <1>9 DEF used
    <3>2. Stepped(c, entry) = [c EXCEPT !.curSec = c.curSec + 1]
      BY <3>1 DEF Stepped
    <3>3. c.curSec + 1 = y /\ y \in Nat
      BY <1>4, <1>7
    <3> DEFINE y1 == c.curSec + 1
    <3> HIDE DEF y, y1
    <3>4. Stepped(c, entry) = [c EXCEPT !.curSec = y1]
      BY <3>2 DEF y1
    <3>5. y1 = y
      BY <3>3 DEF y1
    <3> QED BY <3>3, <3>4, <3>5
  <2> HIDE DEF e, y
  <2>2. Kept(e) /\ e.curSec = y /\ e.curGran = g
    BY <1>7, <2>1 DEF FileDescs
  <2>3. Heads(k, e, j, y) /\ j \in Ranks /\ y \in SectorNos /\ Start(j, y) = Start(j, s) + BytesPerSector
    BY <1>2, <1>9, <2>2, RanksOf DEF Heads, y, g
  <2>4. ~ IsLast(k, j, s)
    BY <1>2, <1>4, <1>9
  <2>5. Holds(k, e, j, s)
    BY <1>1, <1>3, <1>8, <2>2, <2>3, <2>4 DEF Holds, x, a, g
  <2> QED BY <1>1, <2>2, <2>5 DEF e, Knows, entry, c
<1>10. CASE s = used /\ entry > BASE_LAST
  <2> DEFINE y == s + 1
             z == EOF
  <2>1. y \in Nat /\ z \in Nat /\ e = [c EXCEPT !.curSec = y, !.curGran = z]
    <3>1. ~ (c.curSec < SectorsInUse(entry))
      BY <1>4, <1>7, <1>10 DEF used
    <3>2. Stepped(c, entry) = [c EXCEPT !.curSec = c.curSec + 1, !.curGran = EOF]
      BY <1>10, <3>1 DEF Stepped
    <3>3. c.curSec + 1 = y /\ y \in Nat /\ z \in Nat
      BY <1>4, <1>7 DEF EOF
    <3> DEFINE y1 == c.curSec + 1
    <3> HIDE DEF y, y1, z
    <3>4. Stepped(c, entry) = [c EXCEPT !.curSec = y1, !.curGran = z]
      BY <3>2 DEF y1, z
    <3>5. y1 = y
      BY <3>3 DEF y1
    <3> QED BY <3>3, <3>4, <3>5
  <2> HIDE DEF e, y, z
  <2>2. Kept(e) /\ e.curSec = y /\ e.curGran = z
    BY <1>7, <2>1 DEF FileDescs
  <2>3. IsLast(k, j, s)
    BY <1>2, <1>10
  <2>4. Holds(k, e, j, s)
    BY <1>1, <1>3, <1>8, <2>2, <2>3 DEF Holds, x, a, g, z
  <2> QED BY <1>1, <2>2, <2>4 DEF e, Knows, entry, c
<1>11. CASE s = used /\ ~ (entry > BASE_LAST)
  <2>1. ~ IsLast(k, j, s)
    BY <1>2, <1>11
  <2>2. /\ Place(k, j + 1, 1) /\ Start(j + 1, 1) = Start(j, s) + BytesPerSector
        /\ entry = k.granules[j + 1] /\ entry \in Nat
    BY <1>2, <1>11, <2>1, TableValues
  <2>3. ~ (s < used)
    BY <1>4, <1>11
  <2>4. e = [c EXCEPT !.curSec = 1, !.curGran = entry]
    BY <1>7, <1>11, <2>3 DEF Stepped, used
  <2> HIDE DEF e
  <2>5. Kept(e) /\ e.curSec = 1 /\ e.curGran = entry
    BY <1>7, <2>2, <2>4 DEF FileDescs
  <2>6. Heads(k, e, j + 1, 1) /\ j + 1 \in Ranks /\ 1 \in SectorNos
    BY <2>2, <2>5, RanksOf DEF Heads
  <2>7. Holds(k, e, j, s)
    BY <1>1, <1>3, <1>8, <2>1, <2>2, <2>5, <2>6 DEF Holds, x, a, g
  <2> QED BY <1>1, <2>5, <2>7 DEF e, Knows, entry, c
<1>12. s < used \/ s = used
  BY <1>2, <1>4
<1> QED BY <1>9, <1>10, <1>11, <1>12

-----------------------------------------------------------------------------
(* What a call does to any descriptor.                                     *)

(* The descriptor is still that of the same file.                          *)
SameFile(d, e) ==
  /\ Shaped(e)
  /\ e.isOpen = d.isOpen /\ e.drive = d.drive /\ e.firstGran = d.firstGran
  /\ e.lastBytes = d.lastBytes /\ e.length = d.length

LEMMA RewoundSame ==
  ASSUME NEW d, Shaped(d)
  PROVE  SameFile(d, Rewound(d))
<1> DEFINE e    == Rewound(d)
           none == <<>>
<1>1. e = [d EXCEPT !.curGran = d.firstGran, !.curSec = 1, !.offset = 0, !.secOffset = 0,
                    !.availBytes = 0, !.curSector = none]
  BY DEF Rewound
<1> HIDE DEF e, none
<1>2. SameFile(d, e)
  BY <1>1 DEF SameFile, Shaped
<1> QED BY <1>2 DEF e

LEMMA SoughtSame ==
  ASSUME NEW d, Shaped(d), NEW gran, NEW pos
  PROVE  /\ SameFile(d, Sought(d, gran, pos))
         /\ Sought(d, gran, pos).secOffset = (pos % BytesPerGranule) % BytesPerSector
         /\ Sought(d, gran, pos).availBytes = 0
         /\ Sought(d, gran, pos).offset = pos
<1> DEFINE e    == Sought(d, gran, pos)
           none == <<>>
           sec  == (pos % BytesPerGranule) \div BytesPerSector + 1
           off  == (pos % BytesPerGranule) % BytesPerSector
<1>1. e = [d EXCEPT !.curGran = gran, !.curSec = sec, !.secOffset = off, !.availBytes = 0,
                    !.curSector = none, !.offset = pos]
  BY DEF Sought
<1> HIDE DEF e, none, sec, off
<1>2. SameFile(d, e) /\ e.secOffset = off /\ e.availBytes = 0 /\ e.offset = pos
  BY <1>1 DEF SameFile, Shaped
<1> QED BY <1>2 DEF e, off

LEMMA AdvancedSame ==
  ASSUME NEW d, Shaped(d), NEW n
  PROVE  SameFile(d, Advanced(d, n))
<1> DEFINE e    == Advanced(d, n)
           done == d.secOffset + n >= d.availBytes
           y    == d.offset + n
           a    == IF done THEN 0 ELSE d.secOffset + n
           b    == IF done THEN 0 ELSE d.availBytes
           z    == IF done THEN <<>> ELSE d.curSector
<1>1. e = [d EXCEPT !.offset = y, !.secOffset = a, !.availBytes = b, !.curSector = z]
  BY DEF Advanced
<1> HIDE DEF e, done, y, a, b, z
<1>2. SameFile(d, e)
  BY <1>1 DEF SameFile, Shaped
<1> QED BY <1>2 DEF e

(* The descriptor after the sector named s has been loaded.                *)
LoadedFrom(d, s, r) ==
  [d EXCEPT !.curSector  = s,
            !.availBytes = IF IsLastSector(d, r) THEN d.lastBytes ELSE BytesPerSector]

LEMMA LoadedSame ==
  ASSUME NEW d, Shaped(d), NEW s, NEW r
  PROVE  /\ SameFile(d, LoadedFrom(d, s, r))
         /\ LoadedFrom(d, s, r).secOffset = d.secOffset
         /\ LoadedFrom(d, s, r).availBytes = IF IsLastSector(d, r) THEN d.lastBytes ELSE BytesPerSector
<1> DEFINE e == LoadedFrom(d, s, r)
           b == IF IsLastSector(d, r) THEN d.lastBytes ELSE BytesPerSector
<1>1. e = [d EXCEPT !.curSector = s, !.availBytes = b]
  BY DEF LoadedFrom
<1> HIDE DEF e, b
<1>2. SameFile(d, e) /\ e.secOffset = d.secOffset /\ e.availBytes = b
  BY <1>1 DEF SameFile, Shaped
<1> QED BY <1>2 DEF e, b

LEMMA SteppedSame ==
  ASSUME NEW d, Shaped(d), NEW entry
  PROVE  /\ SameFile(d, Stepped(d, entry))
         /\ Stepped(d, entry).secOffset = d.secOffset
         /\ Stepped(d, entry).availBytes = d.availBytes
<1> DEFINE e == Stepped(d, entry)
           y == d.curSec + 1
<1>1. \/ e = [d EXCEPT !.curSec = y]
      \/ e = [d EXCEPT !.curSec = y, !.curGran = EOF]
      \/ e = [d EXCEPT !.curSec = 1, !.curGran = entry]
  BY DEF Stepped
<1> HIDE DEF e, y
<1>2. SameFile(d, e) /\ e.secOffset = d.secOffset /\ e.availBytes = d.availBytes
  <2>1. CASE e = [d EXCEPT !.curSec = y]
    BY <2>1 DEF SameFile, Shaped
  <2>2. CASE e = [d EXCEPT !.curSec = y, !.curGran = EOF]
    BY <2>2 DEF SameFile, Shaped
  <2>3. CASE e = [d EXCEPT !.curSec = 1, !.curGran = entry]
    BY <2>3 DEF SameFile, Shaped
  <2> QED BY <1>1, <2>1, <2>2, <2>3
<1> QED BY <1>2 DEF e

LEMMA SameTwice ==
  ASSUME NEW d, NEW e, NEW f, SameFile(d, e), SameFile(e, f)
  PROVE  SameFile(d, f)
BY DEF SameFile

(* updateFAT() succeeds or fails, and gives the buffer back when it is up  *)
(* to date.                                                                *)
LEMMA TableOutcomes ==
  ASSUME NEW buffer, NEW upToDate, NEW r \in UpdatedFAT(buffer, upToDate)
  PROVE  r.ok \in BOOLEAN /\ (upToDate = TRUE => r.ok = TRUE /\ r.fat = buffer)
<1>1. \/ upToDate /\ r = [ok |-> TRUE, fat |-> buffer]
      \/ ~ upToDate /\ r = [ok |-> TRUE, fat |-> disks[curDriveNo].fat]
      \/ ~ upToDate /\ r = [ok |-> FALSE, fat |-> buffer]
  BY DEF UpdatedFAT
<1>2. CASE upToDate /\ r = [ok |-> TRUE, fat |-> buffer]
  <2>1. r.ok = TRUE /\ r.fat = buffer
    BY <1>2
  <2> QED BY <2>1
<1>3. CASE ~ upToDate /\ r = [ok |-> TRUE, fat |-> disks[curDriveNo].fat]
  <2>1. r.ok = TRUE
    BY <1>3
  <2> QED BY <1>3, <2>1
<1>4. CASE ~ upToDate /\ r = [ok |-> FALSE, fat |-> buffer]
  <2>1. r.ok = FALSE
    BY <1>4
  <2> QED BY <1>4, <2>1
<1> QED BY <1>1, <1>2, <1>3, <1>4

(* The outcomes of getNextSector(): nothing was loaded; or a sector was,   *)
(* with the table of the file's diskette; or that table was not there.     *)
LEMMA SectorOutcomes ==
  ASSUME NEW d, Shaped(d), NEW r \in NextSector(d)
  PROVE  /\ SameFile(d, r.d) /\ r.ok \in BOOLEAN
         /\ \/ /\ SectorsMet(d) = {} \/ "data" \in disks[d.drive].flaws
               /\ r.ok = FALSE /\ r.d = d /\ r.right = TRUE
            \/ /\ r.ok = TRUE /\ r.right = TRUE
               /\ \E s \in SectorsMet(d) : \E r1 :
                    /\ r1.ok = TRUE /\ r1.fat = disks[d.drive].fat
                    /\ r.d = Stepped(LoadedFrom(d, s, r1), r1.fat[d.curGran])
            \/ r.right = FALSE
<1> DEFINE unread == [ok |-> FALSE, d |-> d, fat |-> fatBuffer, fresh |-> fatUpToDate,
                      right |-> TRUE]
           whole(s, r1, r2) ==
             [ok |-> TRUE, d |-> Stepped(LoadedFrom(d, s, r1), r2.fat[d.curGran]),
              fat |-> r2.fat, fresh |-> r2.ok, right |-> r1.ok /\ IsTableOf(r2.fat, d.drive)]
           half(s, r1, r2) ==
             [ok |-> FALSE, d |-> LoadedFrom(d, s, r1), fat |-> r2.fat, fresh |-> r2.ok,
              right |-> FALSE]
<1>1. \/ r = unread /\ (SectorsMet(d) = {} \/ "data" \in disks[d.drive].flaws)
      \/ \E s \in SectorsMet(d) :
           \E r1 \in UpdatedFAT(fatBuffer, fatUpToDate) :
             \E r2 \in UpdatedFAT(r1.fat, r1.ok) :
               r = IF r2.ok THEN whole(s, r1, r2) ELSE half(s, r1, r2)
  <2> DEFINE read(s, r1, r2) == IF r2.ok THEN whole(s, r1, r2) ELSE half(s, r1, r2)
             with(s, r1)     == {read(s, r1, r2) : r2 \in UpdatedFAT(r1.fat, r1.ok)}
             of(s)           == UNION {with(s, r1) : r1 \in UpdatedFAT(fatBuffer, fatUpToDate)}
             none            == IF SectorsMet(d) = {} \/ "data" \in disks[d.drive].flaws
                                  THEN {unread} ELSE {}
  <2>1. NextSector(d) = none \union UNION {of(s) : s \in SectorsMet(d)}
    BY DEF NextSector, LoadedFrom
  <2>2. CASE r \in none
    BY <2>2
  <2>3. CASE r \in UNION {of(s) : s \in SectorsMet(d)}
    <3>1. PICK s \in SectorsMet(d) : r \in of(s)
      <4> HIDE DEF of
      <4> QED BY <2>3
    <3>2. PICK r1 \in UpdatedFAT(fatBuffer, fatUpToDate) : r \in with(s, r1)
      <4> HIDE DEF with
      <4> QED BY <3>1
    <3>3. PICK r2 \in UpdatedFAT(r1.fat, r1.ok) : r = read(s, r1, r2)
      <4> HIDE DEF read
      <4> QED BY <3>2
    <3> QED BY <3>1, <3>2, <3>3
  <2> HIDE DEF none, of
  <2> QED BY <2>1, <2>2, <2>3
<1>2. CASE r = unread /\ (SectorsMet(d) = {} \/ "data" \in disks[d.drive].flaws)
  <2>1. r.ok = FALSE /\ r.d = d /\ r.right = TRUE
    BY <1>2
  <2>2. SameFile(d, d)
    BY DEF SameFile
  <2> QED BY <1>2, <2>1, <2>2
<1>3. CASE \E s \in SectorsMet(d) :
             \E r1 \in UpdatedFAT(fatBuffer, fatUpToDate) :
               \E r2 \in UpdatedFAT(r1.fat, r1.ok) :
                 r = IF r2.ok THEN whole(s, r1, r2) ELSE half(s, r1, r2)
  <2>1. PICK s \in SectorsMet(d) :
               \E r1 \in UpdatedFAT(fatBuffer, fatUpToDate) :
                 \E r2 \in UpdatedFAT(r1.fat, r1.ok) :
                   r = IF r2.ok THEN whole(s, r1, r2) ELSE half(s, r1, r2)
    BY <1>3
  <2>2. PICK r1 \in UpdatedFAT(fatBuffer, fatUpToDate) :
               \E r2 \in UpdatedFAT(r1.fat, r1.ok) :
                 r = IF r2.ok THEN whole(s, r1, r2) ELSE half(s, r1, r2)
    BY <2>1
  <2>3. PICK r2 \in UpdatedFAT(r1.fat, r1.ok) :
               r = IF r2.ok THEN whole(s, r1, r2) ELSE half(s, r1, r2)
    BY <2>2
  <2>4. r1.ok \in BOOLEAN /\ r2.ok \in BOOLEAN /\ (r1.ok = TRUE => r2.ok = TRUE /\ r2.fat = r1.fat)
    BY TableOutcomes
  <2>5. SameFile(d, LoadedFrom(d, s, r1))
    BY LoadedSame
  <2>6. CASE r2.ok
    <3> DEFINE e == Stepped(LoadedFrom(d, s, r1), r2.fat[d.curGran])
    <3>1. r.ok = TRUE /\ r.d = e /\ r.right = (r1.ok /\ IsTableOf(r2.fat, d.drive))
      BY <2>3, <2>6
    <3>2. SameFile(d, e)
      BY <2>5, SteppedSame, SameTwice DEF SameFile
    <3> HIDE DEF e
    <3>3. CASE r1.ok /\ IsTableOf(r2.fat, d.drive)
      <4>1. r1.ok = TRUE /\ r1.fat = disks[d.drive].fat /\ r2.fat = r1.fat /\ r.right = TRUE
        BY <2>4, <3>1, <3>3 DEF IsTableOf
      <4>2. r.d = Stepped(LoadedFrom(d, s, r1), r1.fat[d.curGran])
        BY <3>1, <4>1 DEF e
      <4> QED BY <3>1, <3>2, <4>1, <4>2
    <3>4. CASE ~ (r1.ok /\ IsTableOf(r2.fat, d.drive))
      BY <3>1, <3>2, <3>4
    <3> QED BY <3>3, <3>4
  <2>7. CASE ~ r2.ok
    <3>1. r.ok = FALSE /\ r.d = LoadedFrom(d, s, r1) /\ r.right = FALSE
      BY <2>3, <2>7
    <3> QED BY <2>5, <3>1
  <2> QED BY <2>4, <2>6, <2>7
<1> QED BY <1>1, <1>2, <1>3

(* A descriptor at a place that has nothing more to offer gets the sector  *)
(* of that place, unless the file ends there.                              *)
LEMMA NextSectorIs ==
  ASSUME NEW d \in FileDescs, SoundDisk(disks[d.drive]), Knows(disks[d.drive], d),
         Positioned(disks[d.drive], d), Available(d) = 0,
         NEW r \in NextSector(d), r.right = TRUE
  PROVE  /\ r.d \in FileDescs /\ Positioned(disks[d.drive], r.d) /\ r.d.offset = d.offset
         /\ ~ r.ok => d.offset = disks[d.drive].length \/ "data" \in disks[d.drive].flaws
<1> DEFINE k == disks[d.drive]
<1>0. Shaped(d)
  BY DescriptorsAreShaped
<1>1. ASSUME NEW j \in Ranks, NEW s \in SectorNos, Heads(k, d, j, s)
      PROVE  d.curGran \in Granules /\ SectorsMet(d) = {<<d.drive, d.curGran, d.curSec>>}
  <2>1. Place(k, j, s) /\ d.curGran = k.granules[j] /\ d.curSec = s
    BY <1>1 DEF Heads
  <2>2. k.granules[j] \in Granules /\ s <= SectorsPerGranule
    <3>0. SoundDisk(k)
      OBVIOUS
    <3> HIDE DEF k
    <3>1. j \in 1 .. Count(k) /\ s \in 1 .. SectorsPerGranule /\ k.granules \in [1 .. Count(k) -> Granules]
      BY <2>1, <3>0 DEF Place, SoundDisk, OneToOne
    <3>2. s <= SectorsPerGranule
      BY <3>1, SizesAssumption
    <3> QED BY <3>1, <3>2
  <2> QED BY <2>1, <2>2 DEF SectorsMet
<1>2. CASE d.curGran = EOF
  <2>1. d.offset = k.length
    <3>1. CASE Waiting(k, d)
      BY <1>1, <1>2, <3>1, NoGranuleIsEOF DEF Waiting
    <3>2. CASE \E j \in Ranks, s \in SectorNos : Holds(k, d, j, s)
      <4>1. PICK j \in Ranks, s \in SectorNos : Holds(k, d, j, s)
        BY <3>2
      <4>2. IsLast(k, j, s)
        BY <1>1, <1>2, <4>1, NoGranuleIsEOF DEF Holds
      <4>3. Start(j, s) + SizeAt(k, j, s) = k.length
        BY <4>1, <4>2, PlaceEnds DEF Holds
      <4>4. d.offset + Available(d) = Start(j, s) + SizeAt(k, j, s)
        BY <4>1, HeldBytes
      <4>5. d.offset \in Nat
        BY DEF FileDescs
      <4> QED BY <4>3, <4>4, <4>5
    <3> QED BY <3>1, <3>2 DEF Positioned
  <2>2. SectorsMet(d) = {}
    BY <1>2, NoGranuleIsEOF DEF SectorsMet
  <2>3. r.d = d
    BY <1>0, <2>2, SectorOutcomes
  <2> QED BY <2>1, <2>3
<1>3. CASE d.curGran # EOF
  <2>1. ASSUME NEW j \in Ranks, NEW s \in SectorNos, Holds(k, d, j, s) PROVE FALSE
    <3>1. d.secOffset < d.availBytes
      BY <1>3, <2>1 DEF Holds
    <3>2. d.secOffset \in Nat /\ d.availBytes \in Nat /\ Available(d) = d.availBytes - d.secOffset
      BY <2>1, HeldBytes DEF FileDescs
    <3> QED BY <3>1, <3>2
  <2>2. PICK j \in Ranks, s \in SectorNos :
          /\ Heads(k, d, j, s)
          /\ d.secOffset < BytesPerSector
          /\ d.offset = Start(j, s) + d.secOffset
          /\ d.offset <= k.length
    BY <1>3, <2>1 DEF Positioned, Waiting
  <2>3. SectorsMet(d) = {<<d.drive, d.curGran, d.curSec>>}
    BY <1>1, <2>2
  <2>4. CASE r.ok = FALSE
    <3>1. r.d = d /\ "data" \in k.flaws
      BY <1>0, <2>3, <2>4, SectorOutcomes
    <3> QED BY <3>1
  <2>5. CASE r.ok = TRUE
    <3>0. PICK s1 \in SectorsMet(d) : \E r1 :
            /\ r1.ok = TRUE /\ r1.fat = k.fat
            /\ r.d = Stepped(LoadedFrom(d, s1, r1), r1.fat[d.curGran])
      BY <1>0, <2>5, SectorOutcomes
    <3>1. PICK r1 :
            /\ r1.ok = TRUE /\ r1.fat = k.fat
            /\ r.d = Stepped(LoadedFrom(d, s1, r1), r1.fat[d.curGran])
      BY <3>0
    <3>2. s1 = <<d.drive, d.curGran, d.curSec>>
      BY <2>3
    <3>3. Place(k, j, s) /\ d.curGran = k.granules[j] /\ d.curSec = s
      BY <2>2 DEF Heads
    <3>4. IsLastSector(d, r1) <=> IsLast(k, j, s)
      BY <3>1, <3>3, PlaceAfter DEF IsLastSector
    <3>5. LoadedFrom(d, s1, r1) = LoadedWith(d, SizeAt(k, j, s))
      BY <3>2, <3>4 DEF LoadedFrom, LoadedWith, SizeAt, Knows
    <3>6. d.drive \in Nat
      BY DEF FileDescs
    <3> DEFINE e == Stepped(LoadedWith(d, SizeAt(k, j, s)), k.fat[d.curGran])
    <3>7. e \in FileDescs /\ Holds(k, e, j, s) /\ e.offset = d.offset
      BY <2>2, <3>6, SteppedIs
    <3> HIDE DEF e
    <3>8. r.d = e
      BY <3>1, <3>5 DEF e
    <3> QED BY <2>5, <3>7, <3>8 DEF Positioned
  <2> QED BY <1>0, <2>4, <2>5, SectorOutcomes
<1> QED BY <1>2, <1>3

(* At the full end of a file, it gets a sector or none.                    *)
LEMMA NextSectorBeyond ==
  ASSUME NEW d, Shaped(d), SoundDisk(disks[d.drive]), Knows(disks[d.drive], d),
         d.secOffset = 0, d.availBytes = 0,
         NEW r \in NextSector(d), r.right = TRUE
  PROVE  Offered(r.d)
<1>1. CASE r.d = d
  BY <1>1 DEF Offered
<1>2. CASE \E s \in SectorsMet(d) : \E r1 : r.d = Stepped(LoadedFrom(d, s, r1), r1.fat[d.curGran])
  <2>0. PICK s \in SectorsMet(d) : \E r1 : r.d = Stepped(LoadedFrom(d, s, r1), r1.fat[d.curGran])
    BY <1>2
  <2>1. PICK r1 : r.d = Stepped(LoadedFrom(d, s, r1), r1.fat[d.curGran])
    BY <2>0
  <2> DEFINE c == LoadedFrom(d, s, r1)
  <2>2. Shaped(c) /\ c.secOffset = 0
        /\ c.availBytes = IF IsLastSector(d, r1) THEN d.lastBytes ELSE BytesPerSector
    BY LoadedSame DEF SameFile
  <2> HIDE DEF c
  <2>3. r.d.secOffset = 0 /\ r.d.availBytes = c.availBytes
    BY <2>1, <2>2, SteppedSame DEF c
  <2>4. c.availBytes \in Nat \ {0}
    <3>1. d.lastBytes \in Nat \ {0} /\ BytesPerSector \in Nat \ {0}
      BY KnownFields, GranuleBytes
    <3> QED BY <2>2, <3>1
  <2> DEFINE o == r.d.secOffset
             a == r.d.availBytes
  <2>5. o = 0 /\ a \in Nat \ {0}
    BY <2>3, <2>4
  <2> HIDE DEF o, a
  <2>6. o \in Nat /\ a \in Nat /\ o < a /\ a # 0
    BY <2>5
  <2> QED BY <2>6 DEF o, a, Offered
<1> QED BY <1>1, <1>2, SectorOutcomes

-----------------------------------------------------------------------------
(* The full end of a file.                                                 *)

(* A length that is not a multiple of the size of a granule leads seek()   *)
(* to the last granule of the file.                                        *)
LEMMA EndIsInside ==
  ASSUME NEW k, SoundDisk(k), k.length % BytesPerGranule # 0
  PROVE  Follow(k.fat, k.granules[1], k.length \div BytesPerGranule) \in Granules
<1> DEFINE len == k.length
           q   == len \div BytesPerGranule
           p   == len % BytesPerGranule
           e   == len - 1
           B   == BytesPerGranule
<1>1. len \in Nat \ {0} /\ B \in Nat \ {0}
  BY GranuleBytes DEF SoundDisk
<1>2. e \in 0 .. len /\ e < len /\ e \in Nat
  <2> HIDE DEF len
  <2> QED BY <1>1
<1>3. q \in Nat /\ p \in 0 .. B - 1 /\ len = B * q + p
  <2> HIDE DEF len, B
  <2>1. len \in Nat /\ B \in Nat \ {0}
    BY <1>1
  <2> QED BY <2>1, DivMod DEF B
<1>4. p # 0
  OBVIOUS
<1> DEFINE o == p - 1
<1>5. e = B * q + o /\ o \in 0 .. B - 1
  <2> DEFINE m == B * q
  <2>1. m \in Int
    <3> HIDE DEF len, p, q, B
    <3> QED BY <1>1, <1>3
  <2>2. len = m + p
    BY <1>3
  <2> HIDE DEF m, len, p, q, B
  <2>3. e = m + o /\ o \in 0 .. B - 1
    BY <1>1, <1>3, <1>4, <2>1, <2>2
  <2> QED BY <2>3 DEF m
<1>6. e \div B = q
  <2> HIDE DEF len, p, q, B, e, o
  <2> QED BY <1>1, <1>2, <1>3, <1>5, DivUnique
<1>7. Place(k, e \div B + 1, (e % B) \div BytesPerSector + 1)
  BY <1>2, PlaceOf
<1>8. q \in 0 .. Count(k) - 1
  <2>1. q + 1 \in 1 .. Count(k)
    BY <1>6, <1>7 DEF Place
  <2>2. Count(k) \in Nat
    BY DEF SoundDisk
  <2> HIDE DEF q
  <2> QED BY <1>3, <2>1, <2>2
<1>9. Follow(k.fat, k.granules[1], q) = k.granules[q + 1]
  BY <1>8, FollowFinds
<1>10. k.granules[q + 1] \in Granules
  <2>1. q + 1 \in 1 .. Count(k) /\ k.granules \in [1 .. Count(k) -> Granules]
    BY <1>6, <1>7 DEF Place, SoundDisk, OneToOne
  <2> HIDE DEF q
  <2> QED BY <2>1
<1> QED BY <1>9, <1>10

(* A length that is a multiple of the size of a sector leads it to the     *)
(* start of a sector.                                                      *)
LEMMA FullEndOffset ==
  ASSUME NEW len \in Nat, len % BytesPerSector = 0
  PROVE  (len % BytesPerGranule) % BytesPerSector = 0
<1> DEFINE S == BytesPerSector
           M == SectorsPerGranule
           B == BytesPerGranule
           q == len \div B
           p == len % B
           t == len \div S
<1>1. /\ S \in Nat \ {0} /\ M \in Nat \ {0} /\ B \in Nat \ {0} /\ B = M * S
  BY GranuleBytes, SizesAssumption DEF BytesPerGranule
<1>2. len = B * q + p /\ q \in Nat /\ p \in 0 .. B - 1
  <2> HIDE DEF B
  <2> QED BY <1>1, DivMod DEF B
<1> HIDE DEF S
<1>3. len = S * t /\ t \in Nat
  <2> DEFINE m == len % S
             x == S * t
  <2>1. m = 0
    BY DEF S
  <2>2. len = x + m /\ t \in Nat
    BY <1>1, DivMod
  <2>3. x \in Nat
    <3> HIDE DEF t
    <3> QED BY <1>1, <2>2
  <2> HIDE DEF m, x, t
  <2>4. len = x
    BY <2>1, <2>2, <2>3
  <2> QED BY <2>2, <2>4 DEF x
<1> HIDE DEF S, M, B, q, p, t
<1>4. p = S * (t - M * q)
  <2>1. S * t = (M * S) * q + p
    BY <1>1, <1>2, <1>3
  <2>2. (M * S) * q = S * (M * q)
    BY <1>1, <1>2
  <2>3. S * (t - M * q) = S * t - S * (M * q)
    BY <1>1, <1>2, <1>3
  <2>4. S * (M * q) \in Int /\ p \in Int
    BY <1>1, <1>2
  <2> QED BY <2>1, <2>2, <2>3, <2>4
<1> DEFINE c == t - M * q
<1>5. c \in Int /\ p = S * c /\ p \in Nat
  BY <1>1, <1>2, <1>3, <1>4
<1> HIDE DEF c
<1>6. c \in Nat
  BY <1>1, <1>5
<1>7. p % S = 0
  <2>1. p = S * c + 0 /\ 0 \in 0 .. S - 1
    BY <1>1, <1>5, <1>6
  <2> QED BY <1>1, <1>5, <1>6, <2>1, DivUnique
<1> QED BY <1>7 DEF p, B, S

(* seek() leaves the descriptor there with nothing in memory.              *)
LEMMA SoughtEnd ==
  ASSUME NEW k, SoundDisk(k), NEW d, Shaped(d), k.length % BytesPerSector = 0, NEW gran
  PROVE  Offered(Sought(d, gran, k.length))
<1>1. k.length \in Nat
  BY DEF SoundDisk
<1>2. (k.length % BytesPerGranule) % BytesPerSector = 0
  BY <1>1, FullEndOffset
<1> QED BY <1>2, SoughtSame DEF Offered

-----------------------------------------------------------------------------
(* The invariant.                                                          *)

LEMMA ReaderStart == Init => ReaderInv
<1> SUFFICES ASSUME Init PROVE ReaderInv
  OBVIOUS
<1>1. ASSUME NEW d \in Drives PROVE LaidOut(disks[d])
  <2>1. PICK l \in Layouts, w \in Flaws : disks[d] = Diskette(l, w)
    BY DEF Init
  <2> QED BY <2>1, DisketteIsLaidOut
<1>2. 0 \in Drives
  BY ReaderAssumption
<1>3. Shaped(NotOpen) /\ NotOpen.isOpen = FALSE /\ NotOpen.offset = 0
  BY DEF NotOpen, Shaped
<1>4. HaltsExplained
  BY DEF Init, HaltsExplained
<1> QED BY <1>1, <1>2, <1>3, <1>4 DEF Init, ReaderInv

(* What a step has to keep while a file is open, or when it opens one.     *)
LEMMA StillOpen ==
  ASSUME ReaderInv, UNCHANGED <<disks, curDriveNo>>, Truthful(fd', amiss'),
         amiss' \subseteq Reasons, amiss' \subseteq {"end"} => left' \in Nat,
         stuck' = "no" /\ amiss' = {"end"} => Offered(fd'),
         HaltsExplained'
  PROVE  ReaderInv'
BY DEF ReaderInv, Truthful

(* A descriptor does not tell less when more went amiss.                   *)
LEMMA StillTruthful ==
  ASSUME NEW d, NEW am, Truthful(d, am), NEW e, SameFile(d, e), NEW am2, am \subseteq am2, am2 # {}
  PROVE  Truthful(e, am2)
BY DEF Truthful, SameFile, Knows

(* A call that neither fails an assertion nor leaves the table needs no    *)
(* explanation.                                                            *)
LEMMA NothingToExplain ==
  ASSUME stuck' = "no"
  PROVE  HaltsExplained'
BY DEF HaltsExplained

LEMMA SwitchKeeps ==
  ASSUME ReaderInv, NEW d \in Drives, SetDefaultDriveNo(d)
  PROVE  ReaderInv'
<1>1. stuck' = "no" /\ curDriveNo' = d /\ UNCHANGED <<disks, fd, left, stuck, amiss>>
  BY DEF SetDefaultDriveNo, Idle
<1>2. HaltsExplained'
  BY <1>1, NothingToExplain
<1> QED BY <1>1, <1>2 DEF ReaderInv, Truthful

LEMMA ForgetKeeps ==
  ASSUME ReaderInv, ForgetFAT
  PROVE  ReaderInv'
<1>1. stuck' = "no" /\ UNCHANGED <<disks, curDriveNo, fd, left, stuck, amiss>>
  BY DEF ForgetFAT, Idle
<1>2. HaltsExplained'
  BY <1>1, NothingToExplain
<1> QED BY <1>1, <1>2 DEF ReaderInv, Truthful

(* What openfile() does: nothing, or a file is open at its start, or at    *)
(* least something is.                                                     *)
LEMMA OpenFileIs ==
  ASSUME ReaderInv, OpenFile
  PROVE  /\ ReaderInv' /\ left = 0
         /\ UNCHANGED <<disks, curDriveNo, left>>
         /\ \/ UNCHANGED <<fd, got, amiss>>
            \/ fd'.offset = 0 /\ got' = <<>> /\ amiss' = {}
            \/ amiss' # {}
<1> DEFINE k == disks[curDriveNo]
<1>1. PICK r \in UpdatedFAT(fatBuffer, fatUpToDate) :
        /\ fatBuffer' = r.fat
        /\ fatUpToDate' = r.ok
        /\ IF ~ r.ok THEN UNCHANGED <<fd, got, stuck, amiss>>
           ELSE IF LeavesTable(r.fat, disks[curDriveNo].granules[1])
                  THEN stuck' = "bounds" /\ UNCHANGED <<fd, got, amiss>>
           ELSE /\ fd' = Opened(r.fat)
                /\ got' = <<>>
                /\ amiss' = IF IsTableOf(r.fat, curDriveNo) THEN {} ELSE {"opened"}
                /\ UNCHANGED stuck
  BY DEF OpenFile
<1>2. UNCHANGED <<disks, curDriveNo, left>> /\ left = 0 /\ stuck = "no"
  BY DEF OpenFile, Idle
<1>3. LaidOut(k) /\ curDriveNo \in Drives /\ curDriveNo \in Nat /\ Shaped(fd)
  BY ReaderAssumption DEF ReaderInv
<1>4. ASSUME UNCHANGED <<fd, amiss>>, stuck' = "no" PROVE ReaderInv'
  <2>1. HaltsExplained'
    BY <1>4, NothingToExplain
  <2> QED BY <1>2, <1>4, <2>1 DEF ReaderInv, Truthful
<1>5. CASE ~ r.ok
  <2>1. UNCHANGED <<fd, got, amiss>> /\ stuck' = "no"
    BY <1>1, <1>2, <1>5
  <2>2. ReaderInv'
    BY <1>4, <2>1
  <2> QED BY <1>2, <2>1, <2>2
<1>6. CASE r.ok /\ LeavesTable(r.fat, k.granules[1])
  <2>1. stuck' = "bounds" /\ UNCHANGED <<fd, got, amiss>> /\ fatBuffer' = r.fat
    BY <1>1, <1>6
  <2>2. ASSUME r.fat = k.fat PROVE k.length = 0
    <3>1. ~ SoundDisk(k)
      <4> HIDE DEF k
      <4> QED BY <1>6, <2>2, LengthFound
    <3>2. k.length \in Nat /\ (k.length > 0 => SoundDisk(k))
      BY <1>3 DEF LaidOut
    <3> HIDE DEF k
    <3> QED BY <3>1, <3>2
  <2>3. HaltsExplained'
    BY <1>2, <2>1, <2>2 DEF HaltsExplained, IsTableOf
  <2>4. ReaderInv'
    BY <1>2, <2>1, <2>3 DEF ReaderInv, Truthful
  <2> QED BY <1>2, <2>1, <2>4
<1>7. CASE r.ok /\ ~ LeavesTable(r.fat, k.granules[1])
  <2> DEFINE len == ComputedLength(r.fat, k.granules[1], k.lastBytes)
             b   == [fd EXCEPT !.isOpen = TRUE, !.drive = curDriveNo, !.firstGran = k.granules[1],
                               !.lastBytes = k.lastBytes, !.length = len]
  <2>1. fd' = Rewound(b) /\ got' = <<>> /\ stuck' = "no"
        /\ amiss' = IF IsTableOf(r.fat, curDriveNo) THEN {} ELSE {"opened"}
    BY <1>1, <1>2, <1>7 DEF Opened
  <2>2. /\ Shaped(b) /\ b.isOpen = TRUE /\ b.drive = curDriveNo
        /\ b.firstGran = k.granules[1] /\ b.lastBytes = k.lastBytes /\ b.length = len
    <3> DEFINE f == k.granules[1]
               y == k.lastBytes
    <3> HIDE DEF f, y, len, k
    <3> QED BY <1>3 DEF Shaped, f, y
  <2>3. HaltsExplained'
    BY <2>1, NothingToExplain
  <2>4. CASE IsTableOf(r.fat, curDriveNo)
    <3>1. r.fat = k.fat /\ amiss' = {}
      BY <2>1, <2>4 DEF IsTableOf
    <3>2. SoundDisk(k)
      <4> HIDE DEF k
      <4>1. k.length # 0
        BY <1>3, <1>7, <3>1, EmptyLeaves
      <4> QED BY <1>3, <4>1 DEF LaidOut
    <3>3. Knows(k, b)
      <4> HIDE DEF k, b
      <4>1. len = k.length
        BY <3>1, <3>2, LengthFound
      <4> QED BY <2>2, <4>1 DEF Knows
    <3> HIDE DEF b
    <3> DEFINE e == Rewound(b)
    <3>4. /\ e \in FileDescs /\ Knows(k, e) /\ Positioned(k, e)
          /\ e.isOpen = TRUE /\ e.drive = curDriveNo /\ e.offset = 0
      BY <1>3, <2>2, <3>2, <3>3, RewoundIs
    <3>5. Shaped(e)
      BY <3>4, DescriptorsAreShaped
    <3>6. fd' = e
      BY <2>1
    <3> HIDE DEF e
    <3>7. Truthful(fd', amiss')
      BY <1>3, <3>1, <3>2, <3>4, <3>5, <3>6 DEF Truthful
    <3>8. ReaderInv'
      BY <1>2, <2>3, <3>1, <3>7, StillOpen
    <3> QED BY <1>2, <2>1, <3>1, <3>4, <3>6, <3>8
  <2>5. CASE ~ IsTableOf(r.fat, curDriveNo)
    <3>1. amiss' = {"opened"}
      BY <2>1, <2>5
    <3> HIDE DEF b
    <3>2. SameFile(b, fd')
      BY <2>1, <2>2, RewoundSame
    <3>3. Truthful(fd', amiss')
      BY <1>3, <2>2, <3>1, <3>2 DEF Truthful, SameFile
    <3>4. ReaderInv'
      BY <1>2, <2>3, <3>1, <3>3, StillOpen DEF Reasons
    <3> QED BY <1>2, <3>1, <3>4
  <2> QED BY <2>4, <2>5
<1> QED BY <1>5, <1>6, <1>7

(* What is known of an open descriptor whose file was opened with the      *)
(* right table.                                                            *)
LEMMA OpenNow ==
  ASSUME ReaderInv, fd.isOpen
  PROVE  /\ Shaped(fd) /\ fd.isOpen = TRUE /\ fd.drive \in Drives /\ fd.drive \in Nat
         /\ amiss \subseteq Reasons
         /\ "opened" \notin amiss => SoundDisk(disks[fd.drive]) /\ Knows(disks[fd.drive], fd)
         /\ amiss = {} => fd \in FileDescs /\ Positioned(disks[fd.drive], fd)
<1>1. Truthful(fd, amiss) /\ amiss \subseteq Reasons
  BY DEF ReaderInv
<1>2. fd.drive \in Drives
  BY <1>1 DEF Truthful
<1>3. fd.drive \in Nat
  <2>1. \A d \in Drives : d \in Nat
    BY ReaderAssumption
  <2> QED BY <1>2, <2>1
<1> QED BY <1>1, <1>2, <1>3 DEF Truthful

(* rewind() and seek() set the position, or lose it.                       *)
Moved ==
  /\ fd.isOpen /\ left = 0 /\ got' = <<>>
  /\ UNCHANGED <<disks, curDriveNo, left>>
  /\ SameFile(fd, fd')
  /\ amiss' = {} => SoundDisk(disks[fd.drive]) /\ fd'.offset \in 0 .. disks[fd.drive].length

LEMMA NotMoved ==
  ASSUME ReaderInv, fd.isOpen, left = 0, got' = <<>>, stuck = "no",
         UNCHANGED <<disks, curDriveNo, left, fd, stuck, amiss>>
  PROVE  ReaderInv' /\ Moved
<1>1. HaltsExplained'
  BY NothingToExplain
<1>2. ReaderInv'
  BY <1>1 DEF ReaderInv, Truthful
<1>3. SameFile(fd, fd')
  BY OpenNow DEF SameFile
<1>4. ASSUME amiss' = {}
      PROVE  SoundDisk(disks[fd.drive]) /\ fd'.offset \in 0 .. disks[fd.drive].length
  <2> DEFINE k == disks[fd.drive]
  <2>1. SoundDisk(k) /\ fd \in FileDescs /\ Positioned(k, fd)
    BY <1>4, OpenNow
  <2> HIDE DEF k
  <2>2. fd.offset \in 0 .. k.length
    BY <2>1, PositionKnown
  <2> QED BY <2>1, <2>2 DEF k
<1> QED BY <1>2, <1>3, <1>4 DEF Moved

LEMMA RewindIs ==
  ASSUME ReaderInv, Rewind
  PROVE  ReaderInv' /\ Moved
<1>1. PICK r \in UpdatedFAT(fatBuffer, fatUpToDate) :
        IF r.ok THEN fd' = Rewound(fd) /\ amiss' = amiss \intersect {"opened"}
                ELSE UNCHANGED <<fd, amiss>>
  BY DEF Rewind
<1>2. /\ UNCHANGED <<disks, curDriveNo, left, stuck>> /\ left = 0 /\ stuck = "no"
      /\ fd.isOpen /\ got' = <<>>
  BY DEF Rewind, Idle
<1>3. /\ Shaped(fd) /\ fd.isOpen = TRUE /\ fd.drive \in Drives /\ fd.drive \in Nat
      /\ amiss \subseteq Reasons
      /\ "opened" \notin amiss => SoundDisk(disks[fd.drive]) /\ Knows(disks[fd.drive], fd)
  BY <1>2, OpenNow
<1>4. CASE ~ r.ok
  BY <1>1, <1>2, <1>4, NotMoved
<1>5. CASE r.ok
  <2>1. fd' = Rewound(fd) /\ amiss' = amiss \intersect {"opened"}
    BY <1>1, <1>5
  <2>2. SameFile(fd, fd')
    BY <1>3, <2>1, RewoundSame
  <2>3. HaltsExplained'
    BY <1>2, NothingToExplain
  <2>4. CASE "opened" \in amiss
    <3>1. amiss' = {"opened"}
      BY <2>1, <2>4
    <3>2. Truthful(fd', amiss')
      BY <1>3, <2>2, <3>1 DEF Truthful, SameFile
    <3>3. ReaderInv'
      BY <1>2, <2>3, <3>1, <3>2, StillOpen DEF Reasons
    <3> QED BY <1>2, <2>2, <3>1, <3>3 DEF Moved
  <2>5. CASE "opened" \notin amiss
    <3> DEFINE k == disks[fd.drive]
    <3>1. amiss' = {} /\ SoundDisk(k) /\ Knows(k, fd)
      BY <1>3, <2>1, <2>5
    <3>2. /\ fd' \in FileDescs /\ Knows(k, fd') /\ Positioned(k, fd')
          /\ fd'.isOpen = TRUE /\ fd'.drive = fd.drive /\ fd'.offset = 0
      <4> DEFINE e == Rewound(fd)
      <4>1. /\ e \in FileDescs /\ Knows(k, e) /\ Positioned(k, e)
            /\ e.isOpen = TRUE /\ e.drive = fd.drive /\ e.offset = 0
        BY <1>3, <3>1, RewoundIs
      <4>2. fd' = e
        BY <2>1
      <4> HIDE DEF e
      <4> QED BY <4>1, <4>2
    <3>3. Truthful(fd', amiss')
      BY <1>3, <2>2, <3>1, <3>2 DEF Truthful, SameFile
    <3>4. ReaderInv'
      BY <1>2, <2>3, <3>1, <3>3, StillOpen
    <3>5. 0 \in 0 .. k.length
      BY <3>1 DEF SoundDisk
    <3> QED BY <1>2, <2>2, <3>1, <3>2, <3>4, <3>5 DEF Moved
  <2> QED BY <2>4, <2>5
<1> QED BY <1>4, <1>5

LEMMA SeekIs ==
  ASSUME ReaderInv, NEW newPos \in Targets, Seek(newPos)
  PROVE  ReaderInv' /\ Moved
<1> DEFINE k    == disks[fd.drive]
           pos  == IF newPos > fd.length THEN fd.length ELSE newPos
           gran(f) == Follow(f, fd.firstGran, pos \div BytesPerGranule)
<1>1. PICK r \in UpdatedFAT(fatBuffer, fatUpToDate) :
        IF ~ r.ok THEN UNCHANGED <<fd, stuck, amiss>>
        ELSE /\ amiss' = (amiss \intersect {"opened"})
                           \union (IF IsTableOf(r.fat, fd.drive) THEN {} ELSE {"table"})
                           \union (IF FullEnd(pos) THEN {"end"} ELSE {})
             /\ IF gran(r.fat) \in Granules
                  THEN fd' = Sought(fd, gran(r.fat), pos) /\ UNCHANGED stuck
                  ELSE stuck' = "assert" /\ UNCHANGED fd
  BY DEF Seek
<1>2. UNCHANGED <<disks, curDriveNo, left>> /\ left = 0 /\ stuck = "no" /\ fd.isOpen /\ got' = <<>>
  BY DEF Seek, Idle
<1>3. /\ Shaped(fd) /\ fd.isOpen = TRUE /\ fd.drive \in Drives /\ fd.drive \in Nat
      /\ amiss \subseteq Reasons
      /\ "opened" \notin amiss => SoundDisk(k) /\ Knows(k, fd)
  BY <1>2, OpenNow
<1>4. CASE ~ r.ok
  BY <1>1, <1>2, <1>4, NotMoved
<1>5. CASE r.ok
  <2>1. /\ amiss' = (amiss \intersect {"opened"})
                       \union (IF IsTableOf(r.fat, fd.drive) THEN {} ELSE {"table"})
                       \union (IF FullEnd(pos) THEN {"end"} ELSE {})
        /\ IF gran(r.fat) \in Granules
             THEN fd' = Sought(fd, gran(r.fat), pos) /\ UNCHANGED stuck
             ELSE stuck' = "assert" /\ UNCHANGED fd
    BY <1>1, <1>5
  <2> DEFINE g == gran(r.fat)
  <2>2. amiss' \subseteq Reasons /\ ("opened" \in amiss' <=> "opened" \in amiss)
        /\ ("table" \notin amiss' => IsTableOf(r.fat, fd.drive))
        /\ ("end" \in amiss' <=> FullEnd(pos))
    BY <2>1 DEF Reasons
  (* What is known when the table was the right one.                       *)
  <2>3. ASSUME amiss' \subseteq {"end"}
        PROVE  /\ SoundDisk(k) /\ Knows(k, fd)
               /\ g = Follow(k.fat, k.granules[1], pos \div BytesPerGranule)
               /\ pos \in 0 .. k.length /\ k.length = fd.length
    <3>1. SoundDisk(k) /\ Knows(k, fd)
      BY <1>3, <2>2, <2>3
    <3>2. r.fat = k.fat
      BY <2>2, <2>3 DEF IsTableOf
    <3>3. k.length = fd.length /\ k.granules[1] = fd.firstGran
      BY <3>1 DEF Knows
    <3>4. k.length \in Nat /\ newPos \in Nat
      BY <3>1, ReaderAssumption DEF SoundDisk
    <3>5. pos \in 0 .. k.length
      <4> DEFINE x == fd.length
      <4>1. x \in Nat /\ x = k.length
        BY <3>3, <3>4
      <4> HIDE DEF x, k
      <4>2. (IF newPos > x THEN x ELSE newPos) \in 0 .. k.length
        BY <3>4, <4>1
      <4> QED BY <4>2 DEF x
    <3> QED BY <3>1, <3>2, <3>3, <3>5
  <2> HIDE DEF pos
  <2>4. CASE g \notin Granules
    <3>1. stuck' = "assert" /\ UNCHANGED fd
      BY <2>1, <2>4
    <3>2. SameFile(fd, fd')
      BY <1>3, <3>1 DEF SameFile
    <3>3. ASSUME amiss' \subseteq {"end"}
          PROVE  FullEnd(pos) /\ fd.length % BytesPerGranule = 0
      <4>1. SoundDisk(k) /\ Knows(k, fd) /\ k.length = fd.length /\ pos \in 0 .. k.length
            /\ Follow(k.fat, k.granules[1], pos \div BytesPerGranule) \notin Granules
        BY <2>3, <2>4, <3>3
      <4> HIDE DEF k, g
      <4>2. ~ (pos < k.length \/ k.length % BytesPerSector # 0)
        BY <1>3, <4>1, SoughtIs
      <4>3. pos = k.length
        BY <4>1, <4>2 DEF SoundDisk
      <4>4. FullEnd(pos)
        BY <4>1, <4>2, <4>3 DEF FullEnd
      <4>5. k.length % BytesPerGranule = 0
        BY <4>1, <4>3, EndIsInside
      <4> QED BY <4>1, <4>4, <4>5
    <3>4. HaltsExplained'
      BY <2>2, <3>1, <3>3 DEF HaltsExplained
    <3>5. amiss' # {}
      BY <2>2, <3>3
    <3>6. Truthful(fd', amiss')
      BY <1>3, <2>2, <3>1, <3>5 DEF Truthful
    <3>7. ReaderInv'
      BY <1>2, <2>2, <3>1, <3>4, <3>6, StillOpen
    <3> QED BY <1>2, <3>2, <3>5, <3>7 DEF Moved
  <2>5. CASE g \in Granules
    <3> DEFINE e == Sought(fd, g, pos)
    <3>1. fd' = e /\ stuck' = "no"
      BY <1>2, <2>1, <2>5
    <3>2. SameFile(fd, e)
      BY <1>3, SoughtSame
    <3>3. HaltsExplained'
      BY <3>1, NothingToExplain
    <3>4. ASSUME amiss' = {"end"} PROVE Offered(e)
      <4>1. SoundDisk(k) /\ pos = k.length /\ k.length % BytesPerSector = 0
        BY <2>2, <2>3, <3>4 DEF FullEnd
      <4> HIDE DEF k, g
      <4> QED BY <1>3, <4>1, SoughtEnd
    <3>5. ASSUME amiss' = {}
          PROVE  /\ e \in FileDescs /\ Positioned(k, e) /\ SoundDisk(k)
                 /\ e.offset = pos /\ pos \in 0 .. k.length
      <4>1. /\ SoundDisk(k) /\ Knows(k, fd) /\ pos \in 0 .. k.length /\ k.length = fd.length
            /\ g = Follow(k.fat, k.granules[1], pos \div BytesPerGranule)
        BY <2>3, <3>5
      <4>2. ~ FullEnd(pos)
        BY <2>2, <3>5
      <4> DEFINE h == Follow(k.fat, k.granules[1], pos \div BytesPerGranule)
      <4> HIDE DEF k, g
      <4>3. pos < k.length \/ k.length % BytesPerSector # 0
        BY <4>1, <4>2 DEF FullEnd, SoundDisk
      <4>4. /\ Sought(fd, h, pos) \in FileDescs /\ Positioned(k, Sought(fd, h, pos))
            /\ Sought(fd, h, pos).offset = pos
        BY <1>3, <4>1, <4>3, SoughtIs
      <4> HIDE DEF h
      <4>5. g = h
        BY <4>1 DEF h
      <4> QED BY <4>1, <4>4, <4>5
    <3> HIDE DEF e, g
    <3>6. Truthful(fd', amiss')
      <4>1. Shaped(fd') /\ fd'.isOpen = TRUE /\ fd'.drive = fd.drive
            /\ (Knows(k, fd) => Knows(k, fd'))
        BY <1>3, <3>1, <3>2 DEF SameFile, Knows
      <4> QED BY <1>3, <2>2, <3>1, <3>5, <4>1 DEF Truthful
    <3>7. ReaderInv'
      BY <1>2, <2>2, <3>1, <3>3, <3>4, <3>6, StillOpen
    <3> QED BY <1>2, <3>1, <3>2, <3>5, <3>7 DEF Moved
  <2> QED BY <2>4, <2>5
<1> QED BY <1>4, <1>5

LEMMA StartReadIs ==
  ASSUME ReaderInv, NEW n \in Requests, StartRead(n)
  PROVE  /\ ReaderInv' /\ left = 0 /\ left' = n /\ n \in Nat \ {0} /\ got' = <<>>
         /\ UNCHANGED <<disks, curDriveNo, fd, amiss>>
<1>1. n \in Nat \ {0}
  BY ReaderAssumption
<1>2. /\ stuck' = "no" /\ fd.isOpen /\ left = 0 /\ left' = n /\ got' = <<>>
      /\ UNCHANGED <<disks, curDriveNo, fd, stuck, amiss>>
  BY DEF StartRead, Idle
<1>3. HaltsExplained'
  BY <1>2, NothingToExplain
<1> QED BY <1>1, <1>2, <1>3 DEF ReaderInv, Truthful

(* A round of the loop of read() delivers what is in memory, or as much of *)
(* it as is asked for.                                                     *)
Round(n) ==
  /\ n \in 0 .. left /\ n <= Available(fd)
  /\ got' = got \o InSector(fd, n)
  /\ fd'.offset = fd.offset + n
  /\ \/ left' = left - n
     \/ /\ left' = 0
        /\ fd'.offset = disks[fd.drive].length \/ "data" \in disks[fd.drive].flaws

(* A round that starts with nothing amiss, and ends so.                    *)
GoodRound ==
  /\ amiss = {} /\ SoundDisk(disks[fd.drive]) /\ fd \in FileDescs /\ Positioned(disks[fd.drive], fd)
  /\ \E n : Round(n)

RoundDone ==
  /\ ReaderInv' /\ fd.isOpen /\ SameFile(fd, fd') /\ UNCHANGED <<disks, curDriveNo>>
  /\ amiss' = {} => GoodRound

(* What the full end of a file offers.                                     *)
LEMMA OfferedBytes ==
  ASSUME NEW d, Offered(d)
  PROVE  /\ Available(d) \in Nat
         /\ Available(d) = 0 => d.availBytes = 0 /\ d.secOffset = 0
         /\ Available(d) # 0 => d.availBytes # 0 /\ Available(d) = d.availBytes - d.secOffset
<1> DEFINE a == d.availBytes
           o == d.secOffset
<1>1. o \in Nat /\ a \in Nat /\ (a = 0 => o = 0) /\ (a # 0 => o < a)
  BY DEF Offered
<1>2. Available(d) = IF a = 0 THEN 0 ELSE a - o
  BY DEF Available
<1> HIDE DEF a, o
<1>3. Available(d) \in Nat /\ (Available(d) = 0 => a = 0 /\ o = 0)
      /\ (Available(d) # 0 => a # 0 /\ Available(d) = a - o)
  BY <1>1, <1>2
<1> QED BY <1>3 DEF a, o

LEMMA OfferedAdvances ==
  ASSUME NEW d, Shaped(d), Offered(d), NEW n \in 1 .. Available(d)
  PROVE  /\ Offered(Advanced(d, n))
         /\ n = Available(d) => Advanced(d, n).availBytes = 0 /\ Advanced(d, n).secOffset = 0
<1> DEFINE e    == Advanced(d, n)
           a    == d.availBytes
           o    == d.secOffset
           x    == Available(d)
           done == o + n >= a
           y    == d.offset + n
           o2   == IF done THEN 0 ELSE o + n
           a2   == IF done THEN 0 ELSE a
           z    == IF done THEN <<>> ELSE d.curSector
<1>1. x \in Nat /\ (x # 0 => a # 0 /\ x = a - o) /\ n \in 1 .. x
  BY OfferedBytes
<1>2. o \in Nat /\ a \in Nat
  BY DEF Offered
<1>3. e = [d EXCEPT !.offset = y, !.secOffset = o2, !.availBytes = a2, !.curSector = z]
  BY DEF Advanced
<1> HIDE DEF e, y, o2, a2, z
<1>4. e.secOffset = o2 /\ e.availBytes = a2
  BY <1>3 DEF Shaped
<1> HIDE DEF a, o, x
<1>5. /\ o2 \in Nat /\ a2 \in Nat /\ (a2 = 0 => o2 = 0) /\ (a2 # 0 => o2 < a2)
      /\ n = x => a2 = 0 /\ o2 = 0
  <2>1. n \in Nat /\ n # 0 /\ n <= x
    BY <1>1
  <2> QED BY <1>1, <1>2, <2>1 DEF o2, a2
<1>6. Offered(e)
  BY <1>4, <1>5 DEF Offered
<1> QED BY <1>4, <1>5, <1>6 DEF e, x

LEMMA FinishIs ==
  ASSUME ReaderInv, Finish
  PROVE  RoundDone
<1>1. /\ left > 0 /\ Available(fd) >= left /\ stuck = "no"
      /\ got' = got \o InSector(fd, left)
      /\ fd' = Advanced(fd, left)
      /\ left' = 0
      /\ UNCHANGED <<disks, curDriveNo, fatBuffer, fatUpToDate, stuck, amiss>>
  BY DEF Finish
<1>2. fd.isOpen
  BY <1>1 DEF ReaderInv
<1>3. /\ Shaped(fd) /\ amiss \subseteq Reasons /\ Truthful(fd, amiss)
      /\ amiss \subseteq {"end"} => left \in Nat
      /\ amiss = {"end"} => Offered(fd)
  BY <1>1, <1>2 DEF ReaderInv
<1>4. SameFile(fd, fd')
  BY <1>1, <1>3, AdvancedSame
<1>5. HaltsExplained'
  BY <1>1, NothingToExplain
<1>6. CASE amiss = {}
  <2> DEFINE k == disks[fd.drive]
             e == Advanced(fd, left)
             a == Available(fd)
  <2>1. SoundDisk(k) /\ Knows(k, fd) /\ fd \in FileDescs /\ Positioned(k, fd)
    BY <1>2, <1>6, OpenNow
  <2>2. a \in Nat
    <3> HIDE DEF k
    <3> QED BY <2>1, PositionKnown
  <2>3. left \in 1 .. a /\ left \in Nat /\ left <= a
    <3>1. left \in Nat /\ left > 0 /\ a >= left
      BY <1>1, <1>3, <1>6
    <3> HIDE DEF a
    <3> QED BY <2>2, <3>1
  <2>4. e \in FileDescs /\ Knows(k, e) /\ Positioned(k, e) /\ e.offset = fd.offset + left
    <3> HIDE DEF k
    <3> QED BY <2>1, <2>3, AdvancedIs
  <2>5. fd' = e
    BY <1>1
  <2> HIDE DEF e
  <2>6. Truthful(fd', amiss')
    BY <1>1, <1>3, <1>4, <1>6, <2>1, <2>4, <2>5 DEF Truthful, SameFile
  <2>7. ReaderInv'
    BY <1>1, <1>3, <1>5, <1>6, <2>6, StillOpen
  <2>8. Round(left)
    BY <1>1, <2>3, <2>4, <2>5 DEF Round
  <2> QED BY <1>1, <1>2, <1>4, <1>6, <2>1, <2>7, <2>8 DEF RoundDone, GoodRound
<1>7. CASE amiss # {}
  <2>1. Truthful(fd', amiss')
    BY <1>1, <1>3, <1>4, <1>7, StillTruthful
  <2>2. ASSUME amiss = {"end"} PROVE Offered(fd')
    <3>1. Offered(fd) /\ left \in Nat
      BY <1>3, <2>2
    <3>2. left \in 1 .. Available(fd)
      <4> DEFINE a == Available(fd)
      <4>1. a \in Nat
        BY <3>1, OfferedBytes
      <4>2. left > 0 /\ a >= left
        BY <1>1
      <4> HIDE DEF a
      <4>3. left \in 1 .. a
        BY <3>1, <4>1, <4>2
      <4> QED BY <4>3 DEF a
    <3> QED BY <1>1, <1>3, <3>1, <3>2, OfferedAdvances
  <2>3. ReaderInv'
    BY <1>1, <1>3, <1>5, <2>1, <2>2, StillOpen
  <2> QED BY <1>1, <1>2, <1>4, <1>7, <2>3 DEF RoundDone
<1> QED BY <1>6, <1>7

LEMMA ContinueIs ==
  ASSUME ReaderInv, Continue
  PROVE  RoundDone
<1> DEFINE n == Available(fd)
           d == IF n = 0 THEN fd ELSE Advanced(fd, n)
           k == disks[fd.drive]
<1>1. left > 0 /\ n < left /\ stuck = "no" /\ UNCHANGED <<disks, curDriveNo>>
  BY DEF Continue
<1>2. fd.isOpen
  BY <1>1 DEF ReaderInv
<1>3. /\ Shaped(fd) /\ amiss \subseteq Reasons /\ Truthful(fd, amiss)
      /\ amiss \subseteq {"end"} => left \in Nat
      /\ amiss = {"end"} => Offered(fd)
  BY <1>1, <1>2 DEF ReaderInv
<1>4. ASSUME amiss = {}
      PROVE  SoundDisk(k) /\ Knows(k, fd) /\ fd \in FileDescs /\ Positioned(k, fd)
  BY <1>2, <1>4, OpenNow
<1>5. amiss \subseteq {"end"} => n \in Nat
  <2>1. CASE amiss = {}
    <3>1. SoundDisk(k) /\ fd \in FileDescs /\ Positioned(k, fd)
      BY <1>4, <2>1
    <3> HIDE DEF k
    <3> QED BY <3>1, PositionKnown
  <2>2. CASE amiss = {"end"}
    BY <1>3, <2>2, OfferedBytes
  <2> QED BY <2>1, <2>2
<1>6. CASE n < 0
  <2>1. stuck' = "assert" /\ UNCHANGED <<fatBuffer, fatUpToDate, fd, left, got, amiss>>
    BY <1>6 DEF Continue
  <2>2. ~ (amiss \subseteq {"end"})
    <3> HIDE DEF n
    <3> QED BY <1>5, <1>6
  <2>3. HaltsExplained'
    BY <2>1, <2>2 DEF HaltsExplained
  <2>4. Truthful(fd', amiss') /\ SameFile(fd, fd')
    BY <1>3, <2>1 DEF SameFile
  <2>5. ReaderInv'
    BY <1>1, <1>3, <2>1, <2>2, <2>3, <2>4, StillOpen
  <2> QED BY <1>1, <1>2, <2>1, <2>2, <2>4, <2>5 DEF RoundDone
<1>7. CASE ~ (n < 0)
  <2>1. PICK r \in NextSector(d) :
          /\ fd' = r.d
          /\ fatBuffer' = r.fat
          /\ fatUpToDate' = r.fresh
          /\ left' = LeftAfter(r.ok, n)
          /\ amiss' = IF r.right THEN amiss ELSE amiss \union {"table"}
    BY <1>7 DEF Continue
  <2>2. got' = got \o InSector(fd, n) /\ UNCHANGED stuck
    BY <1>7 DEF Continue
  <2>3. SameFile(fd, d) /\ Shaped(d)
    <3>1. SameFile(fd, fd)
      BY <1>3 DEF SameFile
    <3> QED BY <1>3, <3>1, AdvancedSame DEF SameFile
  <2> HIDE DEF d
  <2>4. SameFile(fd, fd') /\ r.ok \in BOOLEAN /\ (r.right = TRUE \/ r.right = FALSE)
    <3>1. SameFile(d, r.d) /\ r.ok \in BOOLEAN /\ (r.right = TRUE \/ r.right = FALSE)
      BY <2>3, SectorOutcomes
    <3>2. SameFile(d, fd')
      BY <2>1, <3>1
    <3> QED BY <2>3, <3>1, <3>2, SameTwice
  <2>5. HaltsExplained'
    BY <1>1, <2>2, NothingToExplain
  <2>6. ASSUME amiss \subseteq {"end"}
        PROVE  /\ left' \in Nat
               /\ \/ left' = left - n
                  \/ left' = 0 /\ r.ok = FALSE
    <3>1. n \in Nat /\ n < left /\ left \in Nat
      BY <1>1, <1>3, <1>5, <2>6
    <3>2. left' = IF r.ok THEN left - n ELSE 0
      BY <2>1 DEF LeftAfter
    <3> HIDE DEF n
    <3>3. CASE r.ok = TRUE
      BY <3>1, <3>2, <3>3
    <3>4. CASE r.ok = FALSE
      BY <3>2, <3>4
    <3> QED BY <2>4, <3>3, <3>4
  <2>7. /\ amiss' \subseteq Reasons /\ amiss \subseteq amiss'
        /\ amiss' \subseteq {"end"} => amiss' = amiss /\ r.right = TRUE
    <3>1. CASE r.right = TRUE
      BY <1>3, <2>1, <3>1
    <3>2. CASE r.right = FALSE
      BY <1>3, <2>1, <3>2 DEF Reasons
    <3> QED BY <2>4, <3>1, <3>2
  <2>8. CASE amiss' = {}
    <3>1. amiss = {} /\ r.right = TRUE
      BY <2>7, <2>8
    <3>2. SoundDisk(k) /\ Knows(k, fd) /\ fd \in FileDescs /\ Positioned(k, fd) /\ n \in Nat
      BY <1>4, <1>5, <3>1
    <3>3. d \in FileDescs /\ d.drive = fd.drive /\ Knows(k, d) /\ Positioned(k, d)
          /\ Available(d) = 0 /\ d.offset = fd.offset + n
      <4>1. CASE n = 0
        <5>1. d = fd
          BY <4>1 DEF d
        <5>2. fd.offset \in Nat
          BY <3>2 DEF FileDescs
        <5>3. fd.offset = fd.offset + n
          BY <4>1, <5>2
        <5> QED BY <3>2, <4>1, <5>1, <5>3
      <4>2. CASE n # 0
        <5> DEFINE e == Advanced(fd, n)
        <5>1. n \in 1 .. Available(fd)
          <6>1. n \in Nat /\ n = Available(fd)
            BY <3>2
          <6> HIDE DEF n
          <6> QED BY <4>2, <6>1
        <5>2. /\ e \in FileDescs /\ Knows(k, e) /\ Positioned(k, e)
              /\ e.drive = fd.drive /\ e.offset = fd.offset + n /\ e.availBytes = 0
          <6> HIDE DEF k
          <6>1. n = Available(fd)
            OBVIOUS
          <6> HIDE DEF n
          <6> QED BY <3>2, <5>1, <6>1, AdvancedIs
        <5>3. d = e
          BY <4>2 DEF d
        <5> HIDE DEF e
        <5> QED BY <5>2, <5>3, NothingHeld
      <4> QED BY <4>1, <4>2
    <3>4. /\ r.d \in FileDescs /\ Positioned(k, r.d) /\ r.d.offset = d.offset
          /\ ~ r.ok => d.offset = k.length \/ "data" \in k.flaws
      BY <3>1, <3>2, <3>3, NextSectorIs
    <3>5. fd' \in FileDescs /\ Positioned(k, fd') /\ fd'.offset = fd.offset + n
      BY <2>1, <3>3, <3>4
    <3>6. Truthful(fd', amiss')
      BY <1>3, <2>4, <2>8, <3>2, <3>5 DEF Truthful, SameFile, Knows
    <3>7. left' \in Nat /\ (left' = left - n \/ (left' = 0 /\ r.ok = FALSE))
      BY <2>6, <3>1
    <3>8. ReaderInv'
      BY <1>1, <2>5, <2>8, <3>6, <3>7, StillOpen
    <3>9. Round(n)
      <4>1. n \in 0 .. left /\ n <= Available(fd)
        <5>1. n \in Nat /\ n < left /\ left \in Nat /\ n = Available(fd)
          BY <1>1, <1>3, <3>1, <3>2
        <5> HIDE DEF n
        <5> QED BY <5>1
      <4>2. left' = 0 /\ r.ok = FALSE => fd'.offset = k.length \/ "data" \in k.flaws
        BY <2>1, <3>4
      <4> HIDE DEF n
      <4> QED BY <2>2, <3>5, <3>7, <4>1, <4>2 DEF Round
    <3> HIDE DEF n
    <3> QED BY <1>1, <1>2, <2>4, <3>1, <3>2, <3>8, <3>9 DEF RoundDone, GoodRound
  <2>9. CASE amiss' # {}
    <3>1. Truthful(fd', amiss')
      BY <1>3, <2>4, <2>7, <2>9, StillTruthful
    <3>2. ASSUME amiss' = {"end"} PROVE Offered(fd')
      <4>1. amiss = {"end"} /\ r.right = TRUE
        BY <2>7, <3>2
      <4>2. Offered(fd) /\ SoundDisk(k) /\ Knows(k, fd)
        BY <1>2, <1>3, <4>1, OpenNow
      <4>3. d.secOffset = 0 /\ d.availBytes = 0
        <5>1. CASE n = 0
          BY <4>2, <5>1, OfferedBytes DEF d
        <5>2. CASE n # 0
          <6>1. n \in Nat /\ n = Available(fd)
            BY <4>2, OfferedBytes
          <6>2. d = Advanced(fd, n)
            BY <5>2 DEF d
          <6> HIDE DEF n
          <6>3. n \in 1 .. Available(fd)
            BY <5>2, <6>1
          <6> QED BY <1>3, <4>2, <6>1, <6>2, <6>3, OfferedAdvances
        <5> QED BY <5>1, <5>2
      <4>4. d.drive = fd.drive /\ Knows(k, d)
        BY <2>3, <4>2 DEF SameFile, Knows
      <4>5. Offered(r.d)
        BY <2>3, <4>1, <4>2, <4>3, <4>4, NextSectorBeyond
      <4> QED BY <2>1, <4>5
    <3>3. amiss' \subseteq {"end"} => left' \in Nat
      BY <2>6, <2>7
    <3>4. ReaderInv'
      BY <1>1, <2>5, <2>7, <3>1, <3>2, <3>3, StillOpen
    <3> QED BY <1>1, <1>2, <2>4, <2>9, <3>4 DEF RoundDone
  <2> QED BY <2>8, <2>9
<1> QED BY <1>6, <1>7

LEMMA ReaderNext == ASSUME ReaderInv, [Next]_vars PROVE ReaderInv'
<1>1. CASE UNCHANGED vars
  BY <1>1 DEF vars, ReaderInv, Truthful, HaltsExplained, IsTableOf
<1>2. ASSUME NEW d \in Drives, SetDefaultDriveNo(d) PROVE ReaderInv'
  BY <1>2, SwitchKeeps
<1>3. CASE ForgetFAT
  BY <1>3, ForgetKeeps
<1>4. CASE OpenFile
  BY <1>4, OpenFileIs
<1>5. CASE Rewind
  BY <1>5, RewindIs
<1>6. ASSUME NEW p \in Targets, Seek(p) PROVE ReaderInv'
  BY <1>6, SeekIs
<1>7. ASSUME NEW n \in Requests, StartRead(n) PROVE ReaderInv'
  BY <1>7, StartReadIs
<1>8. CASE ReadRound
  BY <1>8, FinishIs, ContinueIs DEF ReadRound, RoundDone
<1> QED BY <1>1, <1>2, <1>3, <1>4, <1>5, <1>6, <1>7, <1>8 DEF Next

LEMMA ReaderInvariant == Spec => []ReaderInv
<1>1. Init => ReaderInv
  BY ReaderStart
<1>2. ReaderInv /\ [Next]_vars => ReaderInv'
  BY ReaderNext
<1> QED BY <1>1, <1>2, PTL DEF Spec

-----------------------------------------------------------------------------
(* What holds of the library.                                              *)

(* As long as every call has had the table of the right diskette, the one  *)
(* call that fails an assertion of disk.c is a seek() to the end of a file *)
(* that ends with its granule (line 286); and openfile() reads outside of  *)
(* the table only when the file is empty.                                  *)
THEOREM HaltsAtFullEnd == Spec => []HaltsExplained
<1>1. ReaderInv => HaltsExplained
  BY DEF ReaderInv
<1> QED BY <1>1, ReaderInvariant, PTL

(* openfile() finds the number of bytes that were stored, when the table   *)
(* in memory is the one of the diskette.                                   *)
THEOREM LengthIsRight == Spec => []LengthKnown
<1>1. ReaderInv => LengthKnown
  BY DEF ReaderInv, Truthful, LengthKnown, Knows
<1> QED BY <1>1, ReaderInvariant, PTL

(* The three ways in which the descriptor says where it is agree.          *)
THEOREM PositionIsRight == Spec => []PositionAgrees
<1>1. ASSUME ReaderInv PROVE PositionAgrees
  <2> SUFFICES ASSUME fd.isOpen, amiss = {}
               PROVE  LET ahead == fd.offset + Available(fd)
                          start == IF fd.availBytes = 0 THEN fd.secOffset ELSE 0
                      IN  /\ Available(fd) > 0 =>
                               /\ fd.offset < disks[fd.drive].length
                               /\ fd.curSector \o <<fd.secOffset>> = ByteAt(fd.drive, fd.offset)
                          /\ fd.curGran = EOF => ahead = disks[fd.drive].length
                          /\ fd.curGran # EOF /\ ahead < disks[fd.drive].length =>
                               ByteAt(fd.drive, ahead) = <<fd.drive, fd.curGran, fd.curSec, start>>
    BY DEF PositionAgrees
  <2> DEFINE k == disks[fd.drive]
             z == fd.offset
             a == Available(fd)
  <2>1. SoundDisk(k) /\ fd \in FileDescs /\ Positioned(k, fd)
    BY <1>1 DEF ReaderInv, Truthful
  <2>2. z \in Nat /\ a \in Nat /\ z + a <= k.length /\ k.length \in Nat
        /\ fd.secOffset \in Nat /\ BytesPerSector \in Nat \ {0}
    <3>1. a \in Nat /\ z + a <= k.length
      BY <2>1, PositionKnown
    <3>2. z \in Nat /\ fd.secOffset \in Nat /\ k.length \in Nat
      BY <2>1 DEF FileDescs, SoundDisk
    <3> QED BY <3>1, <3>2, GranuleBytes
  <2>3. ASSUME NEW j \in Ranks, NEW s \in SectorNos, Heads(k, fd, j, s) PROVE fd.curGran # EOF
    <3> HIDE DEF k
    <3>1. Place(k, j, s) /\ fd.curGran = k.granules[j]
      BY <2>3 DEF Heads
    <3>2. k.granules[j] \in Granules
      BY <2>1, <3>1 DEF Place, SoundDisk, OneToOne
    <3> QED BY <3>1, <3>2, NoGranuleIsEOF
  <2>4. CASE Waiting(k, fd)
    <3>1. fd.availBytes = 0 /\ a = 0
      BY <2>4, NothingHeld DEF Waiting
    <3>2. fd.curGran = EOF => z = k.length
      BY <2>3, <2>4 DEF Waiting
    <3>3. ASSUME fd.curGran # EOF
          PROVE  ByteAt(fd.drive, z) = <<fd.drive, fd.curGran, fd.curSec, fd.secOffset>>
      <4>1. PICK j \in Ranks, s \in SectorNos :
              /\ Heads(k, fd, j, s)
              /\ fd.secOffset < BytesPerSector
              /\ z = Start(j, s) + fd.secOffset
        BY <2>4, <3>3 DEF Waiting
      <4>2. fd.secOffset \in 0 .. BytesPerSector - 1
        BY <2>2, <4>1
      <4> QED BY <2>1, <4>1, <4>2, PlaceBytes DEF Heads
    <3>4. z + a = z /\ ~ (a > 0)
      BY <2>2, <3>1
    <3> QED BY <3>1, <3>2, <3>3, <3>4
  <2>5. CASE \E j \in Ranks, s \in SectorNos : Holds(k, fd, j, s)
    <3>1. PICK j \in Ranks, s \in SectorNos : Holds(k, fd, j, s)
      BY <2>5
    <3>2. /\ Place(k, j, s) /\ Start(j, s) \in Nat /\ z = Start(j, s) + fd.secOffset
          /\ fd.curSector = <<fd.drive, k.granules[j], s>>
      BY <2>1, <3>1, PlaceEnds DEF Holds
    <3>3. /\ fd.availBytes \in 1 .. BytesPerSector /\ a = fd.availBytes - fd.secOffset
          /\ z + a = Start(j, s) + SizeAt(k, j, s)
      BY <2>1, <3>1, HeldBytes
    <3>4. ASSUME a > 0
          PROVE  z < k.length /\ fd.curSector \o <<fd.secOffset>> = ByteAt(fd.drive, z)
      <4>1. fd.secOffset \in 0 .. BytesPerSector - 1 /\ z < k.length
        BY <2>2, <3>3, <3>4
      <4>2. ByteAt(fd.drive, z) = <<fd.drive, k.granules[j], s, fd.secOffset>>
        BY <2>1, <3>2, <4>1, PlaceBytes
      <4> QED BY <3>2, <4>1, <4>2, FourthAdded
    <3>5. CASE IsLast(k, j, s)
      <4>1. fd.curGran = EOF /\ z + a = k.length
        BY <2>1, <3>1, <3>2, <3>3, <3>5, PlaceEnds DEF Holds
      <4> QED BY <3>4, <4>1
    <3>6. CASE ~ IsLast(k, j, s)
      <4>1. PICK j2 \in Ranks, s2 \in SectorNos :
              Heads(k, fd, j2, s2) /\ Start(j2, s2) = Start(j, s) + BytesPerSector
        BY <3>1, <3>6 DEF Holds
      <4>2. Start(j2, s2) + 0 = z + a /\ fd.availBytes # 0
        BY <2>2, <3>2, <3>3, <3>6, <4>1 DEF SizeAt
      <4>3. 0 \in 0 .. BytesPerSector - 1
        BY <2>2
      <4>4. ByteAt(fd.drive, z + a) = <<fd.drive, k.granules[j2], s2, 0>>
        <5>1. ByteAt(fd.drive, Start(j2, s2) + 0) = <<fd.drive, k.granules[j2], s2, 0>>
          BY <2>1, <4>1, <4>3, PlaceBytes DEF Heads
        <5> QED BY <4>2, <5>1
      <4>5. fd.curGran = k.granules[j2] /\ fd.curSec = s2 /\ fd.curGran # EOF
        BY <2>3, <4>1 DEF Heads
      <4> QED BY <3>4, <4>2, <4>4, <4>5
    <3> QED BY <3>5, <3>6
  <2> QED BY <2>1, <2>4, <2>5 DEF Positioned
<1> QED BY <1>1, ReaderInvariant, PTL

(* The library implements ReadOnlyFile: what read() delivers are the bytes *)
(* of the file at the position, each once, and all that were asked for     *)
(* unless the file ends or the medium fails; and after something went      *)
(* amiss, from the next call that sets the position.                       *)
THEOREM FileIsRead == Spec => ReadsFile
<1> DEFINE flawed == fd.isOpen /\ disks[fd.drive].flaws # {}
           file   == IF fd.isOpen THEN FileBytes(fd.drive) ELSE <<>>
           known  == amiss = {}
<1>1. Init => File!Init
  BY DEF Init, NotOpen, File!Init
<1>2. ASSUME disks' = disks, fd'.isOpen = fd.isOpen, fd'.drive = fd.drive
      PROVE  UNCHANGED <<flawed, file>>
  <2>1. FileBytes(fd.drive)' = FileBytes(fd.drive)
    BY <1>2 DEF FileBytes, ByteAt
  <2> QED BY <1>2, <2>1
<1>3. ASSUME fd.isOpen, SoundDisk(disks[fd.drive])
      PROVE  file = FileBytes(fd.drive) /\ Len(file) = disks[fd.drive].length
  <2> DEFINE x == disks[fd.drive].length
  <2>1. x \in Nat
    BY <1>3 DEF SoundDisk
  <2>2. file = [p \in 1 .. x |-> ByteAt(fd.drive, p - 1)]
    BY <1>3 DEF FileBytes
  <2>3. file = FileBytes(fd.drive)
    BY <1>3
  <2> HIDE DEF x, file
  <2>4. Len(file) = x
    BY <2>1, <2>2
  <2> QED BY <2>3, <2>4 DEF x
<1>4. (amiss' = {} => known' = TRUE) /\ (amiss' # {} => known' = FALSE)
  OBVIOUS
<1>5. UNCHANGED amiss => UNCHANGED known
  OBVIOUS
<1>6. amiss = {} => known
  OBVIOUS
<1> HIDE DEF flawed, file, known
<1> DEFINE avars == <<flawed, file, fd.offset, left, got, known>>
<1>7. ASSUME amiss' # {} PROVE File!Next
  BY <1>4, <1>7 DEF File!Next, File!Lose, known
<1>8. ASSUME UNCHANGED <<disks, fd, left, got, amiss>> PROVE UNCHANGED avars
  BY <1>2, <1>5, <1>8
<1>9. ASSUME ReaderInv, OpenFile PROVE File!Next \/ UNCHANGED avars
  <2>1. /\ UNCHANGED <<disks, curDriveNo, left>> /\ left = 0
        /\ \/ UNCHANGED <<fd, got, amiss>>
           \/ fd'.offset = 0 /\ got' = <<>> /\ amiss' = {}
           \/ amiss' # {}
    BY <1>9, OpenFileIs
  <2>2. CASE UNCHANGED <<fd, got, amiss>>
    BY <1>8, <2>1, <2>2
  <2>3. CASE fd'.offset = 0 /\ got' = <<>> /\ amiss' = {}
    <3>1. File!Open
      BY <1>4, <2>1, <2>3 DEF File!Open, known
    <3> QED BY <3>1 DEF File!Next
  <2> QED BY <1>7, <2>1, <2>2, <2>3
<1>10. ASSUME Moved PROVE File!Next
  <2>1. CASE amiss' = {}
    <3>1. /\ fd.isOpen /\ left = 0 /\ got' = <<>> /\ UNCHANGED <<disks, left>>
          /\ fd'.isOpen = fd.isOpen /\ fd'.drive = fd.drive
          /\ SoundDisk(disks[fd.drive]) /\ fd'.offset \in 0 .. disks[fd.drive].length
      BY <1>10, <2>1 DEF Moved, SameFile
    <3>2. UNCHANGED <<flawed, file>>
      BY <1>2, <3>1
    <3>3. fd'.offset \in 0 .. Len(file)
      BY <1>3, <3>1
    <3>4. File!Move
      BY <1>4, <2>1, <3>1, <3>2, <3>3 DEF File!Move, flawed, file, known
    <3> QED BY <3>4 DEF File!Next
  <2> QED BY <1>7, <2>1
<1>11. ASSUME ReaderInv, NEW n \in Requests, StartRead(n) PROVE File!Next
  <2>1. left = 0 /\ left' > 0 /\ got' = <<>> /\ UNCHANGED <<disks, fd, amiss>>
    BY <1>11, StartReadIs
  <2>2. UNCHANGED <<flawed, file, fd.offset, known>>
    BY <1>2, <1>5, <2>1
  <2>3. File!Ask
    BY <2>1, <2>2 DEF File!Ask, flawed, file, known
  <2> QED BY <2>3 DEF File!Next
<1>12. ASSUME ReaderInv, ReadRound PROVE File!Next
  <2>1. RoundDone /\ left > 0
    BY <1>12, FinishIs, ContinueIs DEF ReadRound, Finish, Continue
  <2>2. CASE amiss' = {}
    <3> DEFINE k == disks[fd.drive]
    <3>1. /\ fd.isOpen /\ amiss = {} /\ disks' = disks
          /\ fd'.isOpen = fd.isOpen /\ fd'.drive = fd.drive
          /\ SoundDisk(k) /\ fd \in FileDescs /\ Positioned(k, fd)
      BY <2>1, <2>2 DEF RoundDone, GoodRound, SameFile
    <3>2. PICK n : Round(n)
      BY <2>1, <2>2 DEF RoundDone, GoodRound
    <3>3. /\ n \in 0 .. left /\ n <= Available(fd)
          /\ got' = got \o InSector(fd, n)
          /\ fd'.offset = fd.offset + n
          /\ \/ left' = left - n
             \/ /\ left' = 0
                /\ fd'.offset = k.length \/ "data" \in k.flaws
      BY <3>2 DEF Round
    <3>4. UNCHANGED <<flawed, file>>
      BY <1>2, <3>1
    <3>5. file = FileBytes(fd.drive) /\ Len(file) = k.length
      BY <1>3, <3>1
    <3>6. Available(fd) \in Nat
      <4> HIDE DEF k
      <4> QED BY <3>1, PositionKnown
    <3>7. n \in 0 .. Available(fd)
      BY <3>3, <3>6
    <3>8. InSector(fd, n) = SubSeq(file, fd.offset + 1, fd.offset + n) /\ fd.offset + n <= Len(file)
      BY <3>1, <3>5, <3>7, BytesCopied
    <3>9. "data" \in k.flaws => flawed
      BY <3>1 DEF flawed
    <3>10. known /\ UNCHANGED known
      BY <1>5, <1>6, <2>2, <3>1
    <3>11. File!Deliver
      <4> HIDE DEF k
      <4>1. \/ left' = left - n
            \/ left' = 0 /\ (fd'.offset = Len(file) \/ flawed)
        BY <3>3, <3>5, <3>9
      <4> QED BY <2>1, <3>3, <3>4, <3>8, <3>10, <4>1 DEF File!Deliver, flawed, file, known
    <3> QED BY <3>11 DEF File!Next
  <2> QED BY <1>7, <2>2
<1>13. ReaderInv /\ [Next]_vars => [File!Next]_avars
  <2> SUFFICES ASSUME ReaderInv, [Next]_vars PROVE File!Next \/ UNCHANGED avars
    OBVIOUS
  <2>1. CASE UNCHANGED vars
    BY <1>8, <2>1 DEF vars
  <2>2. ASSUME NEW d \in Drives, SetDefaultDriveNo(d) PROVE UNCHANGED avars
    BY <1>8, <2>2 DEF SetDefaultDriveNo
  <2>3. CASE ForgetFAT
    BY <1>8, <2>3 DEF ForgetFAT
  <2>4. CASE Rewind
    BY <1>10, <2>4, RewindIs
  <2>5. ASSUME NEW p \in Targets, Seek(p) PROVE File!Next
    BY <1>10, <2>5, SeekIs
  <2> QED BY <1>9, <1>11, <1>12, <2>1, <2>2, <2>3, <2>4, <2>5 DEF Next
<1> QED BY <1>1, <1>13, ReaderInvariant, PTL DEF Spec, ReadsFile, File!Spec, File!vars, flawed, file, known
=============================================================================
