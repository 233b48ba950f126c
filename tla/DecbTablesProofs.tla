-------------------------- MODULE DecbTablesProofs --------------------------
(***************************************************************************)
(* Lemmas about the operators of DecbTables, for every number and size of  *)
(* granules: sizes, chains, the sequences of granules that the table       *)
(* describes, and what it becomes when a file is linked; and at the end    *)
(* about the place of a sector on the diskette.                            *)
(***************************************************************************)
EXTENDS DecbTables, SequenceTheorems, FiniteSetTheorems, WellFoundedInduction, TLAPS

-----------------------------------------------------------------------------
(* Natural numbers: the least-number principle, induction over an          *)
(* interval, and quotients by a divisor that is not a literal.             *)

(* A non-empty set of natural numbers has a least element.                 *)
LEMMA LeastNatural ==
  ASSUME NEW S \in SUBSET Nat, S # {}
  PROVE  \E m \in S : \A k \in S : m <= k
<1> DEFINE R == OpToRel(<, Nat)
<1>1. IsWellFoundedOn(R, Nat)
  BY NatLessThanWellFounded, Zenon
<1>2. \A x, y \in Nat : x < y => <<x, y>> \in R
  BY DEF OpToRel
<1> HIDE DEF R
<1>3. PICK m \in S : \A y \in S : ~ (<<y, m>> \in R)
  BY <1>1, WFMin
<1>4. \A k \in S : m <= k
  <2> TAKE k \in S
  <2>1. m \in Nat /\ k \in Nat
    OBVIOUS
  <2>2. ~ (k < m)
    BY <1>2, <1>3, <2>1
  <2> QED BY <2>1, <2>2
<1> QED BY <1>4

(* Induction over an interval 1 .. n, for a set in the place of a          *)
(* predicate.                                                              *)
LEMMA IntervalInduction ==
  ASSUME NEW n \in Nat, NEW S, 1 \in S,
         \A k \in 1 .. n - 1 : k \in S => k + 1 \in S
  PROVE  \A k \in 1 .. n : k \in S
<1> DEFINE Bad == {k \in 1 .. n : k \notin S}
<1>1. ASSUME Bad # {} PROVE FALSE
  <2>1. Bad \in SUBSET Nat
    OBVIOUS
  <2>2. PICK m \in Bad : \A k \in Bad : m <= k
    <3> HIDE DEF Bad
    <3> QED BY <1>1, <2>1, LeastNatural
  <2>3. m \in 1 .. n /\ m \notin S /\ m # 1
    OBVIOUS
  <2>4. m - 1 \in 1 .. n - 1
    BY <2>3
  <2>5. m - 1 \notin Bad
    BY <2>2, <2>3
  <2>6. m - 1 \in S
    BY <2>4, <2>5
  <2>7. (m - 1) + 1 \in S
    BY <2>4, <2>6
  <2> QED BY <2>3, <2>7
<1> QED BY <1>1

(* Quotient and remainder.                                                 *)
LEMMA DivMod ==
  ASSUME NEW a \in Nat, NEW b \in Nat \ {0}
  PROVE  /\ a \div b \in Nat
         /\ a % b \in 0 .. b - 1
         /\ a = b * (a \div b) + (a % b)
OBVIOUS

LEMMA DivUpper ==
  ASSUME NEW a \in Nat, NEW b \in Nat \ {0}, NEW c \in Nat, a < (c + 1) * b
  PROVE  a \div b <= c
<1> DEFINE q == a \div b
<1>1. q \in Nat /\ a = b * q + (a % b) /\ a % b \in Nat
  BY DivMod
<1>2. ASSUME q >= c + 1 PROVE FALSE
  <2> HIDE DEF q
  <2>1. b * q >= b * (c + 1)
    BY <1>1, <1>2
  <2> QED BY <2>1, <1>1
<1> QED BY <1>1, <1>2

LEMMA DivLower ==
  ASSUME NEW a \in Nat, NEW b \in Nat \ {0}, NEW c \in Nat, c * b <= a
  PROVE  c <= a \div b
<1> DEFINE q == a \div b
<1>1. q \in Nat /\ a = b * q + (a % b) /\ a % b \in 0 .. b - 1
  BY DivMod
<1>2. ASSUME q + 1 <= c PROVE FALSE
  <2> HIDE DEF q
  <2>1. b * (q + 1) <= b * c
    BY <1>1, <1>2
  <2> QED BY <2>1, <1>1
<1> QED BY <1>1, <1>2

LEMMA DivUnique ==
  ASSUME NEW a \in Nat, NEW b \in Nat \ {0}, NEW q \in Nat, NEW r \in 0 .. b - 1, a = b * q + r
  PROVE  a \div b = q /\ a % b = r
<1>1. r \in Nat /\ r < b /\ b * q \in Nat /\ q * b = b * q
  OBVIOUS
<1>2. q * b <= a
  BY <1>1
<1>3. a < (q + 1) * b
  <2>1. (q + 1) * b = b * q + b
    OBVIOUS
  <2> QED BY <1>1, <2>1
<1>4. a \div b = q
  BY <1>2, <1>3, DivLower, DivUpper, DivMod
<1>5. a % b \in Nat /\ a = b * q + (a % b)
  <2>1. a = b * (a \div b) + (a % b) /\ a % b \in 0 .. b - 1
    BY DivMod
  <2> QED BY <1>4, <2>1
<1>6. a % b = r
  <2> DEFINE c == a % b
             p == b * q
  <2>1. a = p + c /\ a = p + r /\ p \in Nat /\ c \in Nat /\ r \in Nat
    BY <1>1, <1>5
  <2> HIDE DEF c, p
  <2>2. c = r
    BY <2>1
  <2> QED BY <2>2 DEF c
<1> QED BY <1>4, <1>6

(* What is left over when len is cut into pieces of b, counting the last   *)
(* piece as full when nothing is left.                                     *)
LEMMA LastPiece ==
  ASSUME NEW len \in Nat \ {0}, NEW b \in Nat \ {0}
  PROVE  (IF len > 0 /\ len % b = 0 THEN b ELSE len % b) = ((len - 1) % b) + 1
<1> DEFINE q == (len - 1) \div b
           r == (len - 1) % b
<1>1. /\ q \in Nat /\ r \in 0 .. b - 1
      /\ len - 1 = b * q + r
  <2> DEFINE p == len - 1
  <2>1. p \in Nat
    OBVIOUS
  <2> HIDE DEF p
  <2>2. p \div b \in Nat /\ p % b \in 0 .. b - 1 /\ p = b * (p \div b) + (p % b)
    BY <2>1, DivMod
  <2> QED BY <2>2 DEF p
<1> HIDE DEF q, r
<1>2. CASE r + 1 = b
  <2>1. b * (q + 1) = b * q + b /\ q + 1 \in Nat /\ b * q \in Nat
    BY <1>1
  <2>2. len = b * (q + 1) + 0 /\ 0 \in 0 .. b - 1
    BY <1>1, <1>2, <2>1
  <2>3. len % b = 0
    BY <2>1, <2>2, DivUnique
  <2> QED BY <1>2, <2>3 DEF r
<1>3. CASE r + 1 # b
  <2>1. b * q \in Nat /\ r + 1 \in 0 .. b - 1
    BY <1>1, <1>3
  <2>2. len = b * q + (r + 1)
    BY <1>1, <2>1
  <2>3. len % b = r + 1
    BY <1>1, <2>1, <2>2, DivUnique
  <2> QED BY <1>1, <2>3 DEF r
<1> QED BY <1>2, <1>3

-----------------------------------------------------------------------------
(* Constants and sizes.                                                    *)

LEMMA TableValues ==
  /\ \A g \in Granules : g \in Nat /\ g < BASE_LAST
  /\ \A v \in LastMarks : v \notin Granules /\ v # FREE_FAT_ENTRY
  /\ FREE_FAT_ENTRY \notin Granules
BY SizesAssumption DEF Granules, LastMarks, BASE_LAST, FREE_FAT_ENTRY

LEMMA GranuleCount == IsFiniteSet(Granules) /\ Cardinality(Granules) = NumGranules
<1>1. 0 \in Int /\ NumGranules - 1 \in Int /\ ~ (0 > NumGranules - 1)
      /\ (NumGranules - 1) - 0 + 1 = NumGranules
  BY SizesAssumption
<1>2. IsFiniteSet(0 .. NumGranules - 1) /\ Cardinality(0 .. NumGranules - 1) = (NumGranules - 1) - 0 + 1
  <2> DEFINE b == NumGranules - 1
  <2> HIDE DEF b
  <2>1. b \in Int /\ ~ (0 > b)
    BY <1>1 DEF b
  <2> QED BY <2>1, FS_Interval DEF b
<1> QED BY <1>1, <1>2 DEF Granules

LEMMA GranuleBytes ==
  /\ BytesPerGranule \in Nat \ {0}
  /\ BytesPerGranule = SectorsPerGranule * BytesPerSector
  /\ SectorsPerGranule \in Nat \ {0}
  /\ BytesPerSector \in Nat \ {0}
<1>1. SectorsPerGranule \in Nat \ {0} /\ BytesPerSector \in Nat \ {0}
  BY SizesAssumption
<1>2. SectorsPerGranule * BytesPerSector \in Nat \ {0}
  BY <1>1
<1> QED BY <1>1, <1>2 DEF BytesPerGranule

(* A file takes at least one granule.                                      *)
LEMMA SizeIsPositive ==
  ASSUME NEW len \in Nat
  PROVE  SizeInGranules(len) \in Nat \ {0}
<1>1. CASE len = 0
  BY <1>1 DEF SizeInGranules
<1>2. CASE len # 0
  <2> DEFINE a == len + BytesPerGranule - 1
  <2>1. a \in Nat /\ 1 * BytesPerGranule <= a
    BY <1>2, GranuleBytes
  <2>2. a \div BytesPerGranule \in Nat /\ 1 <= a \div BytesPerGranule
    <3> HIDE DEF a
    <3> QED BY <2>1, GranuleBytes, DivLower, DivMod
  <2> QED BY <1>2, <2>2 DEF SizeInGranules
<1> QED BY <1>1, <1>2

(* addFile() asserts that its sector count fits in a granule.              *)
LEMMA SectorsFit ==
  ASSUME NEW len \in Nat
  PROVE  SectorsInLastGranule(len) \in 0 .. SectorsPerGranule
<1> DEFINE rest == IF len > 0 /\ len % BytesPerGranule = 0
                     THEN BytesPerGranule ELSE len % BytesPerGranule
           a    == rest + BytesPerSector - 1
<1>1. rest \in 0 .. BytesPerGranule
  BY GranuleBytes, DivMod
<1>2. a \in Nat /\ a < (SectorsPerGranule + 1) * BytesPerSector
  <2> HIDE DEF rest
  <2> QED BY <1>1, GranuleBytes
<1>3. a \div BytesPerSector \in Nat /\ a \div BytesPerSector <= SectorsPerGranule
  <2> HIDE DEF a
  <2> QED BY <1>2, GranuleBytes, DivUpper, DivMod
<1>4. SectorsInLastGranule(len) = a \div BytesPerSector
  BY DEF SectorsInLastGranule
<1> HIDE DEF a
<1> QED BY <1>3, <1>4, GranuleBytes

LEMMA LastBytesFit ==
  ASSUME NEW len \in Nat
  PROVE  BytesInLastSector(len) \in 0 .. BytesPerSector
<1>1. len % BytesPerSector \in 0 .. BytesPerSector - 1
  BY GranuleBytes, DivMod
<1> QED BY <1>1, GranuleBytes DEF BytesInLastSector

(* A file is made of full granules, then of full sectors, then of the      *)
(* bytes of its last sector: the number of granules, the sector count of   *)
(* the last one and the last bytes of the directory entry determine the    *)
(* length.                                                                 *)
LEMMA LengthSplits ==
  ASSUME NEW len \in Nat
  PROVE  LET n == SizeInGranules(len)
             c == SectorsInLastGranule(len)
             l == BytesInLastSector(len)
         IN  /\ len = (n - 1) * BytesPerGranule + (IF c > 0 THEN (c - 1) * BytesPerSector + l ELSE 0)
             /\ c = 0 => l = 0
             /\ len # 0 => c > 0 /\ l > 0
<1>1. CASE len = 0
  <2>1. SizeInGranules(len) = 1 /\ BytesInLastSector(len) = 0
    BY <1>1, GranuleBytes, DivUnique DEF SizeInGranules, BytesInLastSector
  <2>2. 0 % BytesPerGranule = 0
    BY GranuleBytes
  <2>3. (0 + BytesPerSector - 1) \div BytesPerSector = 0
    <3>1. BytesPerSector - 1 \in Nat /\ BytesPerSector - 1 = BytesPerSector * 0 + (BytesPerSector - 1)
          /\ BytesPerSector - 1 \in 0 .. BytesPerSector - 1 /\ 0 + BytesPerSector - 1 = BytesPerSector - 1
      BY GranuleBytes
    <3> QED BY <3>1, GranuleBytes, DivUnique
  <2>4. SectorsInLastGranule(len) = 0
    BY <1>1, <2>2, <2>3 DEF SectorsInLastGranule
  <2> QED BY <1>1, <2>1, <2>4, GranuleBytes
<1>2. CASE len # 0
  <2> DEFINE B == BytesPerGranule
             S == BytesPerSector
             M == SectorsPerGranule
             q == (len - 1) \div B
             r == (len - 1) % B
             u == r \div S
             v == r % S
  <2>1. /\ B \in Nat \ {0} /\ S \in Nat \ {0} /\ M \in Nat \ {0} /\ B = M * S
        /\ len - 1 \in Nat
    BY <1>2, GranuleBytes
  <2>2. /\ q \in Nat /\ r \in 0 .. B - 1 /\ r \in Nat /\ len - 1 = B * q + r
        /\ u \in Nat /\ v \in 0 .. S - 1 /\ v \in Nat /\ r = S * u + v
    <3>1. q \in Nat /\ r \in 0 .. B - 1 /\ r \in Nat /\ len - 1 = B * q + r
      <4> DEFINE p == len - 1
      <4>1. p \in Nat /\ B \in Nat \ {0}
        BY <2>1
      <4> HIDE DEF p, B
      <4>2. p \div B \in Nat /\ p % B \in 0 .. B - 1 /\ p = B * (p \div B) + (p % B)
        BY <4>1, DivMod
      <4> QED BY <4>2 DEF p
    <3>2. r \in Nat /\ S \in Nat \ {0}
      BY <2>1, <3>1
    <3> HIDE DEF q, r, S
    <3>3. r \div S \in Nat /\ r % S \in 0 .. S - 1 /\ r = S * (r \div S) + (r % S)
      BY <3>2, DivMod
    <3> QED BY <3>1, <3>3
  <2> HIDE DEF q, r, u, v
  <2>3. SizeInGranules(len) = q + 1
    <3>1. B * (q + 1) = B * q + B /\ q + 1 \in Nat /\ B * q \in Nat
      BY <2>1, <2>2
    <3>2. len + B - 1 = B * (q + 1) + r /\ len + B - 1 \in Nat
      BY <2>1, <2>2, <3>1
    <3>3. (len + B - 1) \div B = q + 1
      BY <2>1, <2>2, <3>1, <3>2, DivUnique
    <3> QED BY <1>2, <3>3 DEF SizeInGranules
  <2>4. SectorsInLastGranule(len) = u + 1
    <3>1. (IF len > 0 /\ len % B = 0 THEN B ELSE len % B) = r + 1
      BY <1>2, <2>1, LastPiece DEF r
    <3>2. S * (u + 1) = S * u + S /\ u + 1 \in Nat /\ S * u \in Nat
      BY <2>1, <2>2
    <3>3. r + 1 + S - 1 = S * (u + 1) + v /\ r + 1 + S - 1 \in Nat
      BY <2>1, <2>2, <3>2
    <3>4. (r + 1 + S - 1) \div S = u + 1
      BY <2>1, <2>2, <3>2, <3>3, DivUnique
    <3> QED BY <3>1, <3>4 DEF SectorsInLastGranule
  <2>5. BytesInLastSector(len) = v + 1
    <3>1. BytesInLastSector(len) = ((len - 1) % S) + 1
      BY <1>2, <2>1, LastPiece DEF BytesInLastSector
    <3>2. len - 1 = S * (M * q + u) + v
      <4>1. B * q = S * (M * q) /\ S * (M * q + u) = S * (M * q) + S * u
        BY <2>1, <2>2
      <4> QED BY <2>1, <2>2, <4>1
    <3>3. M * q + u \in Nat
      BY <2>1, <2>2
    <3>4. (len - 1) % S = v
      BY <2>1, <2>2, <3>2, <3>3, DivUnique
    <3> QED BY <3>1, <3>4
  <2>6. len = ((q + 1) - 1) * B + ((u + 1) - 1) * S + (v + 1)
    <3>1. ((q + 1) - 1) * B = B * q /\ ((u + 1) - 1) * S = S * u /\ B * q \in Nat /\ S * u \in Nat
      BY <2>1, <2>2
    <3> QED BY <2>1, <2>2, <3>1
  <2>7. u + 1 > 0 /\ v + 1 > 0
    BY <2>2
  <2>8. ((q + 1) - 1) * B \in Nat /\ ((u + 1) - 1) * S \in Nat /\ v + 1 \in Nat
    BY <2>1, <2>2
  <2> QED BY <2>3, <2>4, <2>5, <2>6, <2>7, <2>8
<1> QED BY <1>1, <1>2

-----------------------------------------------------------------------------
(* Chains.                                                                 *)

Fats == [Granules -> FatValues]

LEMMA ChainSubset ==
  ASSUME NEW f, NEW a
  PROVE  Chain(f, a) \subseteq Granules
BY DEF Chain

LEMMA ChainFirst ==
  ASSUME NEW f, NEW a \in Granules
  PROVE  a \in Chain(f, a)
BY DEF Chain

LEMMA ChainClosed ==
  ASSUME NEW f, NEW a
  PROVE  Closed(f, Chain(f, a))
BY DEF Chain, Closed

LEMMA ChainLeast ==
  ASSUME NEW f, NEW a, NEW S \in SUBSET Granules, a \in S, Closed(f, S)
  PROVE  Chain(f, a) \subseteq S
BY DEF Chain

(* A granule of a chain other than its first follows one of the chain.     *)
LEMMA ChainPredecessor ==
  ASSUME NEW f, NEW a \in Granules, NEW g \in Chain(f, a), g # a
  PROVE  \E h \in Chain(f, a) : f[h] = g
<1> SUFFICES ASSUME \A h \in Chain(f, a) : f[h] # g PROVE FALSE
  OBVIOUS
<1> DEFINE S == Chain(f, a) \ {g}
<1>1. S \in SUBSET Granules
  BY ChainSubset
<1>2. a \in S
  BY ChainFirst
<1>3. Closed(f, S)
  BY ChainClosed DEF Closed
<1>4. Chain(f, a) \subseteq S
  <2> HIDE DEF S
  <2> QED BY <1>1, <1>2, <1>3, ChainLeast
<1> QED BY <1>4

(* No granule of the table leads to a.                                     *)
Unlinked(f, a) == \A g \in Granules : f[g] # a

LinksInjective(f) == \A g, h \in Granules : f[g] \in Granules /\ f[g] = f[h] => g = h

LinksAllocated(f) == \A g \in Granules : f[g] \in Granules => f[f[g]] # FREE_FAT_ENTRY

(* Two chains that start at different granules, which nothing leads to, do *)
(* not meet.                                                               *)
LEMMA ChainsApart ==
  ASSUME NEW f, LinksInjective(f),
         NEW a \in Granules, NEW b \in Granules, a # b, Unlinked(f, a), Unlinked(f, b)
  PROVE  Chain(f, a) \intersect Chain(f, b) = {}
<1> DEFINE S == Chain(f, a) \ Chain(f, b)
<1>1. S \in SUBSET Granules
  BY ChainSubset
<1>2. a \in S
  <2>1. a \notin Chain(f, b)
    BY ChainPredecessor, ChainSubset DEF Unlinked
  <2> QED BY <2>1, ChainFirst
<1>3. Closed(f, S)
  <2> SUFFICES ASSUME NEW g \in S, f[g] \in Granules PROVE f[g] \in S
    BY DEF Closed
  <2>1. f[g] \in Chain(f, a)
    BY ChainClosed DEF Closed
  <2>2. ASSUME f[g] \in Chain(f, b) PROVE FALSE
    <3>1. f[g] # b
      BY <1>1 DEF Unlinked
    <3>2. PICK h \in Chain(f, b) : f[h] = f[g]
      BY <2>2, <3>1, ChainPredecessor
    <3>3. h = g
      BY <1>1, <3>2, ChainSubset DEF LinksInjective
    <3> QED BY <3>3
  <2> QED BY <2>1, <2>2
<1>4. Chain(f, a) \subseteq S
  <2> HIDE DEF S
  <2> QED BY <1>1, <1>2, <1>3, ChainLeast
<1> QED BY <1>4

(* A chain depends only on the table entries of its own granules.          *)
LEMMA ChainLocal ==
  ASSUME NEW f1, NEW f2, NEW a \in Granules, \A g \in Chain(f1, a) : f2[g] = f1[g]
  PROVE  Chain(f2, a) = Chain(f1, a)
<1>1. Chain(f2, a) \subseteq Chain(f1, a)
  <2>1. Closed(f2, Chain(f1, a))
    BY ChainClosed DEF Closed
  <2> QED BY <2>1, ChainFirst, ChainSubset, ChainLeast
<1>2. Chain(f1, a) \subseteq Chain(f2, a)
  <2>1. Closed(f1, Chain(f2, a))
    BY <1>1, ChainClosed DEF Closed
  <2> QED BY <2>1, ChainFirst, ChainSubset, ChainLeast
<1> QED BY <1>1, <1>2

(* A chain that starts at an allocated granule has no free one.            *)
LEMMA ChainAllocated ==
  ASSUME NEW f, LinksAllocated(f), NEW a \in Granules, f[a] # FREE_FAT_ENTRY
  PROVE  \A g \in Chain(f, a) : f[g] # FREE_FAT_ENTRY
<1> DEFINE S == {g \in Granules : f[g] # FREE_FAT_ENTRY}
<1>1. S \in SUBSET Granules /\ a \in S /\ Closed(f, S)
  BY DEF Closed, LinksAllocated
<1>2. Chain(f, a) \subseteq S
  <2> HIDE DEF S
  <2> QED BY <1>1, ChainLeast
<1> QED BY <1>2

-----------------------------------------------------------------------------
(* Linking a file.                                                         *)

(* Sequences of distinct granules, and what they hold.                     *)
OneToOne(s, n) ==
  /\ s \in [1 .. n -> Granules]
  /\ \A i, j \in 1 .. n : s[i] = s[j] => i = j

GranulesOf(s, n) == {s[k] : k \in 1 .. n}

LEMMA AllocatedOnce ==
  ASSUME NEW f, NEW n \in Nat \ {0}, NEW s \in Allocations(f, n)
  PROVE  OneToOne(s, n) /\ \A i \in 1 .. n : f[s[i]] = FREE_FAT_ENTRY
<1>1. s \in [1 .. n -> Granules] /\ \A i, j \in 1 .. n : i < j => s[i] < s[j]
  BY DEF Allocations
<1>2. \A i \in 1 .. n : s[i] \in Nat
  BY <1>1, TableValues
<1>3. ASSUME NEW i \in 1 .. n, NEW j \in 1 .. n, s[i] = s[j] PROVE i = j
  BY <1>1, <1>2, <1>3
<1> QED BY <1>1, <1>3 DEF Allocations, OneToOne

LEMMA LinkedValues ==
  ASSUME NEW f \in Fats, NEW n \in Nat \ {0}, NEW s, OneToOne(s, n),
         NEW sectors \in 0 .. SectorsPerGranule
  PROVE  LET f2 == Linked(f, s, n, sectors)
         IN  /\ f2 \in Fats
             /\ f2[s[n]] = BASE_LAST + sectors
             /\ \A k \in 1 .. n - 1 : f2[s[k]] = s[k + 1]
             /\ \A g \in Granules : (\A k \in 1 .. n : s[k] # g) => f2[g] = f[g]
<1> DEFINE f2 == Linked(f, s, n, sectors)
<1>1. /\ s \in [1 .. n -> Granules]
      /\ \A i, j \in 1 .. n : s[i] = s[j] => i = j
  BY DEF OneToOne
<1>2. BASE_LAST + sectors \in LastMarks
  BY SizesAssumption DEF LastMarks, BASE_LAST
<1>3. f2[s[n]] = BASE_LAST + sectors
  BY <1>1 DEF Linked
<1>4. ASSUME NEW k \in 1 .. n - 1 PROVE f2[s[k]] = s[k + 1]
  <2>1. s[k] \in Granules /\ s[k] # s[n] /\ k \in 1 .. n
    BY <1>1
  <2>2. \A i \in 1 .. n - 1 : s[i] = s[k] => i = k
    BY <1>1
  <2>3. (CHOOSE i \in 1 .. n - 1 : s[i] = s[k]) = k
    BY <2>2
  <2> QED BY <2>1, <2>3 DEF Linked
<1>5. ASSUME NEW g \in Granules, \A k \in 1 .. n : s[k] # g PROVE f2[g] = f[g]
  BY <1>5 DEF Linked
<1>6. f2 \in Fats
  <2> SUFFICES ASSUME NEW g \in Granules PROVE f2[g] \in FatValues
    BY DEF Fats, Linked
  <2>1. CASE \E k \in 1 .. n - 1 : s[k] = g
    <3>1. PICK k \in 1 .. n - 1 : s[k] = g
      BY <2>1
    <3>2. f2[g] = s[k + 1] /\ k + 1 \in 1 .. n
      BY <1>4, <3>1
    <3> QED BY <1>1, <3>2 DEF FatValues
  <2>2. CASE g = s[n]
    BY <1>2, <1>3, <2>2 DEF FatValues
  <2>3. CASE \A k \in 1 .. n : s[k] # g
    BY <1>5, <2>3 DEF Fats
  <2> QED BY <2>1, <2>2, <2>3
<1> QED BY <1>3, <1>4, <1>5, <1>6

(* The chain of the new file is made of the granules allocated for it.     *)
LEMMA NewChain ==
  ASSUME NEW f \in Fats, NEW n \in Nat \ {0}, NEW s, OneToOne(s, n),
         NEW sectors \in 0 .. SectorsPerGranule
  PROVE  Chain(Linked(f, s, n, sectors), s[1]) = GranulesOf(s, n)
<1> DEFINE f2 == Linked(f, s, n, sectors)
           T  == {s[k] : k \in 1 .. n}
<1>1. /\ s \in [1 .. n -> Granules]
      /\ f2[s[n]] = BASE_LAST + sectors
      /\ \A k \in 1 .. n - 1 : f2[s[k]] = s[k + 1]
  <2>1. s \in [1 .. n -> Granules]
    BY DEF OneToOne
  <2>2. f2[s[n]] = BASE_LAST + sectors /\ \A k \in 1 .. n - 1 : f2[s[k]] = s[k + 1]
    BY LinkedValues
  <2> QED BY <2>1, <2>2
<1>2. BASE_LAST + sectors \notin Granules
  <2>1. BASE_LAST + sectors \in LastMarks
    BY SizesAssumption DEF LastMarks, BASE_LAST
  <2> QED BY <2>1, TableValues
<1> HIDE DEF f2
<1>3. Chain(f2, s[1]) \subseteq T
  <2>1. T \in SUBSET Granules /\ s[1] \in T
    BY <1>1
  <2>2. Closed(f2, T)
    <3> SUFFICES ASSUME NEW k \in 1 .. n, f2[s[k]] \in Granules PROVE f2[s[k]] \in T
      BY DEF Closed
    <3>1. k \in 1 .. n - 1
      BY <1>1, <1>2
    <3> QED BY <1>1, <3>1
  <2> HIDE DEF T
  <2> QED BY <2>1, <2>2, ChainLeast
<1>4. \A k \in 1 .. n : s[k] \in Chain(f2, s[1])
  <2> DEFINE S == {k \in 1 .. n : s[k] \in Chain(f2, s[1])}
  <2>1. 1 \in S
    BY <1>1, ChainFirst
  <2>2. ASSUME NEW k \in 1 .. n - 1, k \in S PROVE k + 1 \in S
    <3>1. s[k] \in Chain(f2, s[1]) /\ f2[s[k]] = s[k + 1] /\ k + 1 \in 1 .. n
      BY <1>1, <2>2
    <3>2. s[k + 1] \in Granules
      BY <1>1, <3>1
    <3> QED BY <3>1, <3>2, ChainClosed DEF Closed
  <2>3. \A k \in 1 .. n : k \in S
    <3> HIDE DEF S
    <3> QED BY <2>1, <2>2, IntervalInduction
  <2> QED BY <2>3
<1> QED BY <1>3, <1>4 DEF f2, GranulesOf

-----------------------------------------------------------------------------
(* Sequences of granules that follow the table from a granule.             *)

IsPath(f, a, s) ==
  /\ s \in Seq(Granules) /\ s # <<>>
  /\ s[1] = a
  /\ \A k \in 1 .. Len(s) - 1 : f[s[k]] = s[k + 1]

LEMMA PathShape ==
  ASSUME NEW f, NEW a, NEW s, IsPath(f, a, s)
  PROVE  /\ Len(s) \in Nat \ {0}
         /\ s \in [1 .. Len(s) -> Granules]
BY EmptySeq, LenProperties DEF IsPath

(* They stay in the chain.                                                 *)
LEMMA PathInChain ==
  ASSUME NEW f, NEW a \in Granules, NEW s, IsPath(f, a, s)
  PROVE  \A k \in 1 .. Len(s) : s[k] \in Chain(f, a)
<1> DEFINE S == {k \in 1 .. Len(s) : s[k] \in Chain(f, a)}
<1>1. 1 \in S
  BY PathShape, ChainFirst DEF IsPath
<1>2. ASSUME NEW k \in 1 .. Len(s) - 1, k \in S PROVE k + 1 \in S
  <2>1. k + 1 \in 1 .. Len(s) /\ s[k + 1] \in Granules /\ f[s[k]] = s[k + 1]
    BY PathShape DEF IsPath
  <2> QED BY <1>2, <2>1, ChainClosed DEF Closed
<1>3. \A k \in 1 .. Len(s) : k \in S
  <2> HIDE DEF S
  <2> QED BY <1>1, <1>2, PathShape, IntervalInduction
<1> QED BY <1>3

(* They meet no granule twice, when no two granules have the same          *)
(* successor and none has the first one.                                   *)
LEMMA PathOnce ==
  ASSUME NEW f, LinksInjective(f), NEW a \in Granules, Unlinked(f, a), NEW s, IsPath(f, a, s)
  PROVE  \A i, j \in 1 .. Len(s) : s[i] = s[j] => i = j
<1> DEFINE S == {i \in 1 .. Len(s) : \A j \in 1 .. Len(s) : i < j => s[i] # s[j]}
<1>1. Len(s) \in Nat \ {0} /\ \A k \in 1 .. Len(s) : s[k] \in Granules
  BY PathShape
<1>2. \A j \in 1 .. Len(s) : 1 < j => j - 1 \in 1 .. Len(s) - 1 /\ f[s[j - 1]] = s[j] /\ j - 1 \in 1 .. Len(s)
  BY <1>1 DEF IsPath
<1>3. 1 \in S
  BY <1>1, <1>2 DEF IsPath, Unlinked
<1>4. ASSUME NEW i \in 1 .. Len(s) - 1, i \in S PROVE i + 1 \in S
  <2>1. i \in 1 .. Len(s) /\ i + 1 \in 1 .. Len(s) /\ f[s[i]] = s[i + 1]
    BY <1>1 DEF IsPath
  <2>2. ASSUME NEW j \in 1 .. Len(s), i + 1 < j, s[i + 1] = s[j] PROVE FALSE
    <3>1. f[s[j - 1]] = s[j] /\ j - 1 \in 1 .. Len(s) /\ i < j - 1
      BY <1>2, <2>1, <2>2
    <3>2. s[i] = s[j - 1]
      BY <1>1, <2>1, <2>2, <3>1 DEF LinksInjective
    <3> QED BY <1>4, <3>1, <3>2
  <2> QED BY <2>1, <2>2
<1>5. \A i \in 1 .. Len(s) : i \in S
  <2> HIDE DEF S
  <2> QED BY <1>1, <1>3, <1>4, IntervalInduction
<1>6. ASSUME NEW i \in 1 .. Len(s), NEW j \in 1 .. Len(s), s[i] = s[j] PROVE i = j
  BY <1>5, <1>6
<1> QED BY <1>6

(* One that ends on a granule without successor is the file.               *)
LEMMA PathWhole ==
  ASSUME NEW f \in Fats, LinksAllocated(f), LinksInjective(f),
         NEW a \in Granules, Unlinked(f, a), f[a] # FREE_FAT_ENTRY,
         NEW s, IsPath(f, a, s), f[s[Len(s)]] \notin Granules
  PROVE  /\ {s[k] : k \in 1 .. Len(s)} = Chain(f, a)
         /\ f[s[Len(s)]] \in LastMarks
         /\ Cardinality(Chain(f, a)) = Len(s)
         /\ Len(s) <= NumGranules
         /\ FileGranules(f, a) = {s}
<1> DEFINE n == Len(s)
           T == {s[k] : k \in 1 .. n}
<1>1. n \in Nat \ {0} /\ s \in [1 .. n -> Granules]
  BY PathShape
<1>2. T = Chain(f, a)
  <2>1. T \subseteq Chain(f, a)
    BY PathInChain
  <2>2. T \in SUBSET Granules /\ a \in T
    BY <1>1 DEF IsPath
  <2>3. ASSUME NEW g \in T, f[g] \in Granules PROVE f[g] \in T
    <3>1. PICK k \in 1 .. n : g = s[k]
      OBVIOUS
    <3>2. k # n
      BY <2>3, <3>1
    <3>3. f[g] = s[k + 1] /\ k + 1 \in 1 .. n
      BY <1>1, <3>1, <3>2 DEF IsPath
    <3> QED BY <3>3
  <2>4. Closed(f, T)
    BY <2>3 DEF Closed
  <2>5. Chain(f, a) \subseteq T
    <3> HIDE DEF T
    <3> QED BY <2>2, <2>4, ChainLeast
  <2> QED BY <2>1, <2>5
<1>3. f[s[n]] \in LastMarks
  <2>1. s[n] \in Chain(f, a) /\ s[n] \in Granules
    BY <1>1, <1>2
  <2>2. f[s[n]] # FREE_FAT_ENTRY
    BY <2>1, ChainAllocated
  <2> QED BY <2>1, <2>2 DEF Fats, FatValues
<1>4. Cardinality(T) = n /\ n <= NumGranules
  <2>1. IsFiniteSet(1 .. n) /\ Cardinality(1 .. n) = n
    BY <1>1, FS_Interval
  <2>2. IsFiniteSet(Granules) /\ Cardinality(Granules) = NumGranules
    BY GranuleCount
  <2>3. T \in SUBSET Granules /\ IsFiniteSet(T) /\ Cardinality(T) <= NumGranules
    <3>1. T \in SUBSET Granules
      BY <1>1
    <3> HIDE DEF T
    <3> QED BY <3>1, <2>2, FS_Subset
  <2>4. s \in Bijection(1 .. n, T)
    BY <1>1, PathOnce DEF Bijection, Injection, Surjection, IsInjective
  <2>5. Cardinality(T) = n
    <3> HIDE DEF T, n
    <3> QED BY <2>1, <2>4, FS_Bijection DEF ExistsBijection
  <2> QED BY <2>3, <2>5
<1>5. s \in FileGranules(f, a)
  <2>1. n \in 1 .. NumGranules
    BY <1>1, <1>4, SizesAssumption
  <2> QED BY <1>1, <1>3, <2>1 DEF FileGranules, IsPath
<1>6. ASSUME NEW t \in FileGranules(f, a) PROVE t = s
  <2>1. PICK m \in 1 .. NumGranules : t \in [1 .. m -> Granules]
    BY DEF FileGranules
  <2>2. /\ m \in Nat \ {0} /\ t \in Seq(Granules) /\ Len(t) = m
        /\ t[1] = a
        /\ \A k \in 1 .. m - 1 : f[t[k]] = t[k + 1]
        /\ f[t[m]] \notin Granules
    <3>1. m \in Nat \ {0}
      BY SizesAssumption
    <3>2. t \in Seq(Granules) /\ Len(t) = m
      BY <2>1, <3>1
    <3> QED BY <3>1, <3>2, TableValues DEF FileGranules
  <2> DEFINE S == {k \in 1 .. m : k <= n /\ t[k] = s[k]}
  <2>3. 1 \in S
    BY <1>1, <2>2 DEF IsPath
  <2>4. ASSUME NEW k \in 1 .. m - 1, k \in S PROVE k + 1 \in S
    <3>1. k \in 1 .. n /\ t[k + 1] = f[s[k]] /\ k + 1 \in 1 .. m /\ t[k + 1] \in Granules
      BY <1>1, <2>1, <2>2, <2>4
    <3>2. k # n
      BY <3>1
    <3>3. k \in 1 .. n - 1 /\ k + 1 <= n
      <4>1. n \in Nat /\ k \in Nat
        BY <1>1, <3>1
      <4> HIDE DEF n, S
      <4> QED BY <3>1, <3>2, <4>1
    <3>4. t[k + 1] = s[k + 1]
      BY <3>1, <3>3 DEF IsPath
    <3> QED BY <3>1, <3>3, <3>4
  <2>5. \A k \in 1 .. m : k \in S
    <3> HIDE DEF S, n
    <3> QED BY <2>2, <2>3, <2>4, IntervalInduction
  <2>6. m = n
    <3>1. m \in 1 .. n /\ t[m] = s[m]
      BY <1>1, <2>2, <2>5
    <3>2. ASSUME m # n PROVE FALSE
      <4>1. m \in 1 .. n - 1 /\ m + 1 \in 1 .. n
        <5> HIDE DEF n
        <5> QED BY <1>1, <2>2, <3>1, <3>2
      <4>2. f[t[m]] = s[m + 1] /\ s[m + 1] \in Granules
        BY <1>1, <3>1, <4>1 DEF IsPath
      <4> QED BY <2>2, <4>2
    <3> QED BY <3>2
  <2> QED BY <1>1, <2>1, <2>5, <2>6
<1> QED BY <1>1, <1>2, <1>3, <1>4, <1>5, <1>6

-----------------------------------------------------------------------------
(* The loop that follows a chain.                                          *)

Longer(f, met) ==
  LET next == f[met[Len(met)]] IN IF next \in Granules THEN Append(met, next) ELSE met

Rounds(f, a) ==
  CHOOSE w : w = [n \in 0 .. NumGranules - 1 |-> IF n = 0 THEN <<a>> ELSE Longer(f, w[n - 1])]

LEMMA WalkIsRounds ==
  ASSUME NEW f, NEW a
  PROVE  Walk(f, a) = Rounds(f, a)[NumGranules - 1]
BY DEF Walk, Rounds, Longer

(* The recursive definition has a solution.                                *)
LEMMA RoundsExist ==
  ASSUME NEW f, NEW a
  PROVE  /\ Rounds(f, a)[0] = <<a>>
         /\ \A n \in 1 .. NumGranules - 1 : Rounds(f, a)[n] = Longer(f, Rounds(f, a)[n - 1])
<1> DEFINE Follows(v, m) ==
             /\ DOMAIN v = 0 .. m - 1
             /\ v[0] = <<a>>
             /\ \A n \in 1 .. m - 1 : v[n] = Longer(f, v[n - 1])
           S == {m \in 1 .. NumGranules : \E v : Follows(v, m)}
<1>1. NumGranules \in Nat \ {0}
  BY SizesAssumption
<1>2. 1 \in S
  <2>1. Follows([n \in 0 .. 0 |-> <<a>>], 1)
    OBVIOUS
  <2> HIDE DEF Follows
  <2> QED BY <1>1, <2>1
<1>3. ASSUME NEW m \in 1 .. NumGranules - 1, m \in S PROVE m + 1 \in S
  <2>1. PICK v : Follows(v, m)
    BY <1>3
  <2> DEFINE u == [n \in 0 .. m |-> IF n = m THEN Longer(f, v[m - 1]) ELSE v[n]]
  <2>2. m \in Nat \ {0} /\ (m + 1) - 1 = m
    BY <1>1
  <2>3. u[0] = <<a>> /\ DOMAIN u = 0 .. m
    BY <2>1, <2>2
  <2>4. ASSUME NEW n \in 1 .. m PROVE u[n] = Longer(f, u[n - 1])
    <3>1. n - 1 \in 0 .. m /\ n - 1 # m /\ n \in 0 .. m
      BY <2>2
    <3>2. u[n - 1] = v[n - 1]
      BY <3>1
    <3>3. CASE n = m
      BY <3>1, <3>2, <3>3
    <3>4. CASE n # m
      <4>1. n \in 1 .. m - 1 /\ u[n] = v[n]
        BY <2>2, <3>1, <3>4
      <4> QED BY <2>1, <3>2, <4>1
    <3> QED BY <3>3, <3>4
  <2>5. Follows(u, m + 1)
    <3> HIDE DEF u
    <3> QED BY <2>2, <2>3, <2>4
  <2> HIDE DEF Follows, u
  <2> QED BY <1>1, <2>5
<1>4. NumGranules \in S
  <2> HIDE DEF S
  <2>1. \A m \in 1 .. NumGranules : m \in S
    BY <1>1, <1>2, <1>3, IntervalInduction
  <2> QED BY <1>1, <2>1
<1>5. PICK v : Follows(v, NumGranules)
  BY <1>4
<1> DEFINE w == [n \in 0 .. NumGranules - 1 |-> IF n = 0 THEN <<a>> ELSE Longer(f, v[n - 1])]
<1>6. \A n \in 0 .. NumGranules - 1 : w[n] = v[n]
  <2> SUFFICES ASSUME NEW n \in 0 .. NumGranules - 1 PROVE w[n] = v[n]
    OBVIOUS
  <2>1. CASE n = 0
    BY <1>1, <1>5, <2>1
  <2>2. CASE n # 0
    <3>1. n \in 1 .. NumGranules - 1
      BY <1>1, <2>2
    <3>2. v[n] = Longer(f, v[n - 1])
      BY <1>5, <3>1
    <3> QED BY <2>2, <3>2
  <2> QED BY <2>1, <2>2
<1>7. w = [n \in 0 .. NumGranules - 1 |-> IF n = 0 THEN <<a>> ELSE Longer(f, w[n - 1])]
  <2>1. \A n \in 0 .. NumGranules - 1 : n # 0 => n - 1 \in 0 .. NumGranules - 1
    BY <1>1
  <2>2. \A n \in 0 .. NumGranules - 1 : n # 0 => w[n - 1] = v[n - 1]
    BY <1>6, <2>1
  <2> QED BY <2>2
<1>8. \E u : u = [n \in 0 .. NumGranules - 1 |-> IF n = 0 THEN <<a>> ELSE Longer(f, u[n - 1])]
  <2> HIDE DEF w
  <2> QED BY <1>7
<1>9. Rounds(f, a) = [n \in 0 .. NumGranules - 1 |-> IF n = 0 THEN <<a>> ELSE Longer(f, Rounds(f, a)[n - 1])]
  BY <1>8 DEF Rounds
<1>10. Rounds(f, a)[0] = <<a>>
  BY <1>1, <1>9
<1>11. ASSUME NEW n \in 1 .. NumGranules - 1
       PROVE  Rounds(f, a)[n] = Longer(f, Rounds(f, a)[n - 1])
  <2>1. n \in 0 .. NumGranules - 1 /\ n # 0
    BY <1>1
  <2> QED BY <1>9, <2>1
<1> QED BY <1>10, <1>11

(* Each round makes a path that has one granule more or is complete.       *)
LEMMA RoundIsPath ==
  ASSUME NEW f, NEW a \in Granules, NEW n \in 0 .. NumGranules - 1
  PROVE  LET s == Rounds(f, a)[n]
         IN  /\ IsPath(f, a, s)
             /\ Len(s) = n + 1 \/ f[s[Len(s)]] \notin Granules
<1> DEFINE Good(k) == LET s == Rounds(f, a)[k - 1]
                      IN  /\ IsPath(f, a, s)
                          /\ Len(s) = k \/ f[s[Len(s)]] \notin Granules
           S == {k \in 1 .. NumGranules : Good(k)}
<1>1. NumGranules \in Nat \ {0}
  BY SizesAssumption
<1>2. Good(1)
  <2>1. Rounds(f, a)[1 - 1] = <<a>>
    BY RoundsExist
  <2>2. IsPath(f, a, <<a>>) /\ Len(<<a>>) = 1
    BY DEF IsPath
  <2> QED BY <2>1, <2>2
<1>3. ASSUME NEW k \in 1 .. NumGranules - 1, Good(k) PROVE Good(k + 1)
  <2> DEFINE s == Rounds(f, a)[k - 1]
             t == Rounds(f, a)[(k + 1) - 1]
  <2>1. t = Longer(f, s)
    <3>1. (k + 1) - 1 = k /\ k \in 1 .. NumGranules - 1
      BY <1>1
    <3> QED BY <3>1, RoundsExist
  <2> HIDE DEF s, t
  <2>2. IsPath(f, a, s) /\ (Len(s) = k \/ f[s[Len(s)]] \notin Granules)
    BY <1>3 DEF s
  <2>3. Len(s) \in Nat \ {0} /\ s \in Seq(Granules)
    BY <2>2, PathShape DEF IsPath
  <2>4. CASE f[s[Len(s)]] \notin Granules
    <3>1. t = s
      BY <2>1, <2>4 DEF Longer
    <3>2. IsPath(f, a, t) /\ f[t[Len(t)]] \notin Granules
      BY <2>2, <2>4, <3>1
    <3> QED BY <3>2 DEF t
  <2>5. CASE f[s[Len(s)]] \in Granules
    <3>1. t = Append(s, f[s[Len(s)]])
      BY <2>1, <2>5 DEF Longer
    <3>2. /\ t \in Seq(Granules) /\ t # <<>>
          /\ Len(t) = Len(s) + 1
          /\ t[Len(s) + 1] = f[s[Len(s)]]
          /\ \A i \in 1 .. Len(s) : t[i] = s[i]
      BY <2>3, <2>5, <3>1
    <3>3. ASSUME NEW i \in 1 .. Len(t) - 1 PROVE f[t[i]] = t[i + 1]
      <4>1. i \in 1 .. Len(s)
        BY <2>3, <3>2
      <4>2. CASE i = Len(s)
        BY <3>2, <4>1, <4>2
      <4>3. CASE i # Len(s)
        <5>1. i \in 1 .. Len(s) - 1 /\ i + 1 \in 1 .. Len(s)
          BY <2>3, <4>1, <4>3
        <5> QED BY <2>2, <3>2, <4>1, <5>1 DEF IsPath
      <4> QED BY <4>2, <4>3
    <3>4. IsPath(f, a, t)
      BY <2>2, <2>3, <3>2, <3>3 DEF IsPath
    <3>5. Len(t) = k + 1
      BY <2>2, <2>5, <3>2
    <3> QED BY <3>4, <3>5 DEF t
  <2> QED BY <2>4, <2>5
<1>4. \A k \in 1 .. NumGranules : k \in S
  <2>1. 1 \in S /\ \A k \in 1 .. NumGranules - 1 : k \in S => k + 1 \in S
    <3> HIDE DEF Good
    <3> QED BY <1>1, <1>2, <1>3
  <2> HIDE DEF S
  <2> QED BY <1>1, <2>1, IntervalInduction
<1>5. n + 1 \in 1 .. NumGranules /\ (n + 1) - 1 = n
  BY <1>1
<1>6. Good(n + 1)
  BY <1>4, <1>5
<1> QED BY <1>5, <1>6

(* The loop ends within NumGranules rounds, on a chain that has a last     *)
(* granule.                                                                *)
LEMMA WalkIsWhole ==
  ASSUME NEW f, LinksInjective(f), NEW a \in Granules, Unlinked(f, a),
         \E g \in Chain(f, a) : f[g] \in LastMarks
  PROVE  IsPath(f, a, Walk(f, a)) /\ f[Walk(f, a)[Len(Walk(f, a))]] \notin Granules
<1> DEFINE s == Walk(f, a)
           n == Len(s)
           T == {s[k] : k \in 1 .. n}
<1>1. NumGranules \in Nat \ {0} /\ NumGranules - 1 \in 0 .. NumGranules - 1
  BY SizesAssumption
<1>2. IsPath(f, a, s) /\ (n = NumGranules \/ f[s[n]] \notin Granules)
  <2>1. (NumGranules - 1) + 1 = NumGranules
    BY <1>1
  <2> QED BY <1>1, <2>1, RoundIsPath, WalkIsRounds
<1>3. n \in Nat \ {0} /\ s \in [1 .. n -> Granules]
  BY <1>2, PathShape
<1>4. CASE n = NumGranules
  <2>1. IsFiniteSet(1 .. n) /\ Cardinality(1 .. n) = n
    BY <1>3, FS_Interval
  <2>2. IsFiniteSet(Granules) /\ Cardinality(Granules) = NumGranules
    BY GranuleCount
  <2>3. s \in Injection(1 .. n, Granules)
    BY <1>2, <1>3, PathOnce DEF Injection, IsInjective
  <2>4. s \in Surjection(1 .. n, Granules)
    <3> HIDE DEF s
    <3> QED BY <1>4, <2>1, <2>2, <2>3, FS_Injection
  <2>5. PICK g \in Granules : f[g] \in LastMarks
    BY ChainSubset
  <2>6. PICK k \in 1 .. n : s[k] = g
    BY <2>4 DEF Surjection
  <2>7. f[s[k]] \notin Granules
    BY <2>5, <2>6, TableValues
  <2>8. k = n
    <3> SUFFICES ASSUME k # n PROVE FALSE
      OBVIOUS
    <3>1. k \in 1 .. n - 1 /\ k + 1 \in 1 .. n
      <4> HIDE DEF n
      <4> QED BY <1>3
    <3> QED BY <1>2, <1>3, <2>7, <3>1 DEF IsPath
  <2> QED BY <1>2, <2>7, <2>8
<1> QED BY <1>2, <1>4

-----------------------------------------------------------------------------
(* The place of a sector, with the numbers of the source: the computations *)
(* of DecbGeometry agree, for every granule and sector.                    *)

Geometry == INSTANCE DecbGeometry

USE DEF Geometry!BYTES_PER_SECTOR, Geometry!SECTORS_PER_GRANULE, Geometry!GRANULES_PER_TRACK,
        Geometry!SECTORS_PER_TRACK, Geometry!BYTES_PER_GRANULE, Geometry!BYTES_PER_TRACK,
        Geometry!DIR_TRACK, Geometry!MAX_GRANULES, Geometry!NumTracks, Geometry!Granules,
        Geometry!Sectors, Geometry!ImageLength

(* Halving a granule number by LSR and keeping its low bit by ANDB lose    *)
(* nothing: granuleToTrack() relies on it.                                 *)
LEMMA HalfAndBit ==
  ASSUME NEW g \in Geometry!Granules
  PROVE  /\ g \div 2 \in 0 .. 33
         /\ g % 2 \in {0, 1}
         /\ g = 2 * (g \div 2) + (g % 2)
         /\ g < 34 <=> g \div 2 < 17
  OBVIOUS

(* Wherever a program reads a file on the target, it reads the byte the    *)
(* host tool wrote: the three address computations agree.                  *)
THEOREM SectorsAgree ==
  ASSUME NEW g \in Geometry!Granules, NEW s \in Geometry!Sectors
  PROVE  Geometry!SectorAgreement(g, s)
<1> DEFINE h == g \div 2
           b == g % 2
<1>1. h \in 0 .. 33 /\ b \in {0, 1} /\ g = 2 * h + b /\ (g < 34 <=> h < 17)
  BY HalfAndBit
<1>2. CASE b = 0
  BY <1>1, <1>2 DEF Geometry!SectorAgreement, Geometry!SectorOffset, Geometry!GranuleToTrack, Geometry!TrySeek, Geometry!GetGranule
<1>3. CASE b = 1
  BY <1>1, <1>3 DEF Geometry!SectorAgreement, Geometry!SectorOffset, Geometry!GranuleToTrack, Geometry!TrySeek, Geometry!GetGranule
<1>4. QED
  BY <1>1, <1>2, <1>3

(* getNextSector() never asks for a sector of the directory track, nor for *)
(* one that dskcon() refuses.                                              *)
THEOREM SectorsAccepted ==
  ASSUME NEW g \in Geometry!Granules, NEW s \in Geometry!Sectors
  PROVE  Geometry!SectorAccepted(g, s)
<1>1. /\ g \div 2 \in 0 .. 33 /\ g % 2 \in {0, 1}
  BY HalfAndBit
<1>2. QED
  BY <1>1 DEF Geometry!SectorAccepted, Geometry!GranuleToTrack, Geometry!DskconAccepts

(* Writing a granule of the image never reaches into another one.          *)
THEOREM GranulesApart ==
  ASSUME NEW g \in Geometry!Granules, NEW h \in Geometry!Granules
  PROVE  Geometry!GranulesDisjoint(g, h)
  BY DEF Geometry!GranulesDisjoint, Geometry!GetGranule
=============================================================================
