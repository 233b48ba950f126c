------------------------ MODULE SwitchDispatchProofs ------------------------
(***************************************************************************)
(* Proofs about SwitchDispatch, for every width of a byte and every set of *)
(* cases: whichever form the compiler takes, each value of the expression  *)
(* goes to the case that C selects; the compiler stops on its assertion    *)
(* for the switches of StopsBelowZero and no others; and the form taken is *)
(* the shorter one, up to the entries of the table that are not counted.   *)
(***************************************************************************)
EXTENDS SwitchDispatch, FiniteSetTheorems, WellFoundedInduction, TLAPS

-----------------------------------------------------------------------------
(* A non-empty set of natural numbers has a least element.                 *)
LEMMA LeastNatural ==
  ASSUME NEW S \in SUBSET Nat, S # {}
  PROVE  \E m \in S : \A k \in S : m <= k
<1> DEFINE R == OpToRel(<, Nat)
<1>1. IsWellFoundedOn(R, Nat)
  BY NatLessThanWellFounded, Zenon
<1>2. \A x, y \in Nat : x < y => <<x, y>> \in R
  BY DEF OpToRel
<1> HIDE DEF R
<1>3. PICK m \in S : \A y \in S : ~ (<<y, m>> \in R)
  BY <1>1, WFMin
<1>4. \A k \in S : m <= k
  <2> TAKE k \in S
  <2>1. m \in Nat /\ k \in Nat
    OBVIOUS
  <2>2. ~ (k < m)
    BY <1>2, <1>3, <2>1
  <2> QED BY <2>1, <2>2
<1> QED BY <1>4

(* Induction over an interval 1 .. n, for a set in the place of a          *)
(* predicate.                                                              *)
LEMMA IntervalInduction ==
  ASSUME NEW n \in Nat, NEW S, 1 \in S,
         \A k \in 1 .. n - 1 : k \in S => k + 1 \in S
  PROVE  \A k \in 1 .. n : k \in S
<1> DEFINE Bad == {k \in 1 .. n : k \notin S}
<1>1. ASSUME Bad # {} PROVE FALSE
  <2>1. Bad \in SUBSET Nat
    OBVIOUS
  <2>2. PICK m \in Bad : \A k \in Bad : m <= k
    <3> HIDE DEF Bad
    <3> QED BY <1>1, <2>1, LeastNatural
  <2>3. m \in 1 .. n /\ m \notin S /\ m # 1
    OBVIOUS
  <2>4. m - 1 \in 1 .. n - 1
    BY <2>3
  <2>5. m - 1 \notin Bad
    BY <2>2, <2>3
  <2>6. m - 1 \in S
    BY <2>4, <2>5
  <2>7. (m - 1) + 1 \in S
    BY <2>4, <2>6
  <2> QED BY <2>3, <2>7
<1> QED BY <1>1

(* Quotient and remainder.                                                 *)
LEMMA DivMod ==
  ASSUME NEW a \in Nat, NEW b \in Nat \ {0}
  PROVE  /\ a \div b \in Nat
         /\ a % b \in 0 .. b - 1
         /\ a = b * (a \div b) + (a % b)
OBVIOUS

LEMMA DivUpper ==
  ASSUME NEW a \in Nat, NEW b \in Nat \ {0}, NEW c \in Nat, a < (c + 1) * b
  PROVE  a \div b <= c
<1> DEFINE q == a \div b
<1>1. q \in Nat /\ a = b * q + (a % b) /\ a % b \in Nat
  BY DivMod
<1>2. ASSUME q >= c + 1 PROVE FALSE
  <2> HIDE DEF q
  <2>1. b * q >= b * (c + 1)
    BY <1>1, <1>2
  <2> QED BY <2>1, <1>1
<1> QED BY <1>1, <1>2

LEMMA DivLower ==
  ASSUME NEW a \in Nat, NEW b \in Nat \ {0}, NEW c \in Nat, c * b <= a
  PROVE  c <= a \div b
<1> DEFINE q == a \div b
<1>1. q \in Nat /\ a = b * q + (a % b) /\ a % b \in 0 .. b - 1
  BY DivMod
<1>2. ASSUME q + 1 <= c PROVE FALSE
  <2> HIDE DEF q
  <2>1. b * (q + 1) <= b * c
    BY <1>1, <1>2
  <2> QED BY <2>1, <1>1
<1> QED BY <1>1, <1>2

LEMMA DivUnique ==
  ASSUME NEW a \in Nat, NEW b \in Nat \ {0}, NEW q \in Nat, NEW r \in 0 .. b - 1, a = b * q + r
  PROVE  a \div b = q /\ a % b = r
<1>1. r \in Nat /\ r < b /\ b * q \in Nat /\ q * b = b * q
  OBVIOUS
<1>2. q * b <= a
  BY <1>1
<1>3. a < (q + 1) * b
  <2>1. (q + 1) * b = b * q + b
    OBVIOUS
  <2> QED BY <1>1, <2>1
<1>4. a \div b = q
  BY <1>2, <1>3, DivLower, DivUpper, DivMod
<1>5. a % b \in Nat /\ a = b * q + (a % b)
  <2>1. a = b * (a \div b) + (a % b) /\ a % b \in 0 .. b - 1
    BY DivMod
  <2> QED BY <1>4, <2>1
<1>6. a % b = r
  <2> DEFINE c == a % b
             p == b * q
  <2>1. a = p + c /\ a = p + r /\ p \in Nat /\ c \in Nat /\ r \in Nat
    BY <1>1, <1>5
  <2> HIDE DEF c, p
  <2>2. c = r
    BY <2>1
  <2> QED BY <2>2 DEF c
<1> QED BY <1>4, <1>6

-----------------------------------------------------------------------------
(* Bytes, words and their order.                                           *)

LEMMA Widths ==
  /\ BYTE \in Nat /\ BYTE >= 2 /\ BYTE = HalfByte + HalfByte /\ HalfByte \in Nat /\ HalfByte >= 1
  /\ WORD \in Nat /\ HalfWord \in Nat /\ WORD = HalfWord + HalfWord
  /\ HalfWord >= BYTE /\ MaxByte = BYTE - 1
  /\ WORD = BYTE * (BYTE - 1) + BYTE
<1>1. HalfByte \in Nat /\ HalfByte >= 1
  BY WidthAssumption
<1>2. BYTE \in Nat /\ BYTE = HalfByte + HalfByte /\ BYTE >= 2
  BY <1>1 DEF BYTE
<1>3. WORD = (HalfByte + HalfByte) * BYTE
  BY <1>1, <1>2 DEF WORD
<1>4. \A h \in Nat, b \in Nat : (h + h) * b = h * b + h * b /\ h * b \in Nat /\ (h >= 1 => h * b >= b)
                                /\ b * b = b * (b - 1) + b
  OBVIOUS
<1>5. WORD = HalfWord + HalfWord /\ HalfWord \in Nat /\ HalfWord >= BYTE
  BY <1>1, <1>2, <1>3, <1>4 DEF HalfWord
<1>6. WORD = BYTE * (BYTE - 1) + BYTE
  BY <1>2, <1>4 DEF WORD
<1> QED BY <1>1, <1>2, <1>5, <1>6 DEF MaxByte

LEMMA ModWord ==
  ASSUME NEW a \in Int, 0 - WORD < a, a < WORD
  PROVE  a % WORD = IF a >= 0 THEN a ELSE a + WORD
<1>1. WORD \in Nat \ {0}
  BY Widths
<1> HIDE DEF WORD
<1>2. \A w \in Nat \ {0} : \A b \in Int : 0 - w < b /\ b < w => b % w = IF b >= 0 THEN b ELSE b + w
  OBVIOUS
<1> QED BY <1>1, <1>2

(* The numbers of the patterns lie within one word, and no two are equal.  *)
LEMMA Numbers ==
  ASSUME NEW t, NEW v \in Word, NEW w \in Word
  PROVE  /\ v \in Nat /\ Number(t, v) \in Int
         /\ Number(t, v) - Number(t, w) < WORD
         /\ Number(t, v) = Number(t, w) => v = w
         /\ Number(t, v) >= Number(t, w) => Pattern(v - w) = Number(t, v) - Number(t, w)
         /\ v = 0 => Number(t, v) = 0
<1>1. WORD \in Nat /\ HalfWord \in Nat /\ WORD = HalfWord + HalfWord /\ HalfWord > 0
  BY Widths
<1>2. v \in 0 .. WORD - 1 /\ w \in 0 .. WORD - 1
  BY DEF Word
<1> HIDE DEF WORD, HalfWord
<1>3. Number(t, v) = (IF t.signed /\ v >= HalfWord THEN v - WORD ELSE v)
  BY <1>1, <1>2 DEF Number, Signed
<1>4. Number(t, w) = (IF t.signed /\ w >= HalfWord THEN w - WORD ELSE w)
  BY <1>1, <1>2 DEF Number, Signed
<1>5. 0 - WORD < v - w /\ v - w < WORD /\ v - w \in Int
  BY <1>1, <1>2
<1>6. Pattern(v - w) = IF v - w >= 0 THEN v - w ELSE v - w + WORD
  BY <1>5, ModWord DEF Pattern
<1>7. v \in Nat /\ Number(t, v) \in Int /\ Number(t, w) \in Int
  BY <1>1, <1>2, <1>3, <1>4
<1>8. Number(t, v) - Number(t, w) < WORD
  BY <1>1, <1>2, <1>3, <1>4
<1>9. Number(t, v) = Number(t, w) => v = w
  BY <1>1, <1>2, <1>3, <1>4
<1>10. Number(t, v) >= Number(t, w) => Pattern(v - w) = Number(t, v) - Number(t, w)
  BY <1>1, <1>2, <1>3, <1>4, <1>6
<1>11. v = 0 => Number(t, v) = 0
  BY <1>1, <1>3
<1> QED BY <1>7, <1>8, <1>9, <1>10, <1>11

(* Two values of a byte that are not the same differ in their low byte.    *)
LEMMA LowBytes ==
  ASSUME NEW t \in Types, t.byte, NEW v \in ExprValues(t)
  PROVE  /\ v \in Word
         /\ ~ (Signed(v) > MaxByte)
         /\ v % BYTE = IF v < BYTE THEN v ELSE v - WORD + BYTE
         /\ v < BYTE \/ v >= WORD - HalfByte
         /\ t.signed => v < HalfByte \/ v >= WORD - HalfByte
         /\ ~ t.signed => v < BYTE
<1>1. /\ BYTE \in Nat /\ BYTE >= 2 /\ BYTE = HalfByte + HalfByte /\ HalfByte \in Nat /\ HalfByte >= 1
      /\ WORD \in Nat /\ HalfWord \in Nat /\ WORD = HalfWord + HalfWord
      /\ HalfWord >= BYTE /\ MaxByte = BYTE - 1
      /\ WORD = BYTE * (BYTE - 1) + BYTE
  BY Widths
<1> HIDE DEF BYTE, WORD, HalfWord, MaxByte
<1>2. \/ ~ t.signed /\ v \in 0 .. MaxByte
      \/ t.signed /\ v \in 0 .. HalfByte - 1
      \/ t.signed /\ v \in WORD - HalfByte .. WORD - 1
  BY DEF ExprValues, Types
<1>3. v \in Nat /\ v < WORD /\ (v < BYTE \/ v >= WORD - HalfByte)
  BY <1>1, <1>2
<1>4. v \in Word
  BY <1>1, <1>3 DEF Word
<1>5. ~ (Signed(v) > MaxByte)
  BY <1>1, <1>3 DEF Signed
<1>6. v % BYTE = IF v < BYTE THEN v ELSE v - WORD + BYTE
  <2>1. CASE v < BYTE
    <3>1. v = BYTE * 0 + v /\ v \in 0 .. BYTE - 1
      BY <1>1, <1>3, <2>1
    <3>2. v % BYTE = v
      BY <1>1, <1>3, <3>1, DivUnique
    <3> QED BY <2>1, <3>2
  <2>2. CASE ~ (v < BYTE)
    <3> DEFINE r == v - WORD + BYTE
               q == BYTE - 1
    <3>1. r \in 0 .. BYTE - 1 /\ q \in Nat
      BY <1>1, <1>3, <2>2
    <3>2. v = BYTE * q + r
      <4>1. \A p \in Int : WORD = p + BYTE => v = p + (v - WORD + BYTE)
        BY <1>1, <1>3
      <4>2. BYTE * (BYTE - 1) \in Int
        BY <1>1
      <4> QED BY <1>1, <4>1, <4>2
    <3> HIDE DEF r, q
    <3>3. BYTE \in Nat \ {0}
      BY <1>1
    <3>4. v % BYTE = r
      BY <1>3, <3>1, <3>2, <3>3, DivUnique
    <3> QED BY <2>2, <3>4 DEF r
  <2> QED BY <2>1, <2>2
<1>7. t.signed => v < HalfByte \/ v >= WORD - HalfByte
  BY <1>1, <1>2
<1>8. ~ t.signed => v < BYTE
  BY <1>1, <1>2
<1> QED BY <1>3, <1>4, <1>5, <1>6, <1>7, <1>8

LEMMA LowByteOnce ==
  ASSUME NEW t \in Types, t.byte, NEW v \in ExprValues(t), NEW w \in ExprValues(t), v % BYTE = w % BYTE
  PROVE  v = w
<1>1. /\ BYTE \in Nat /\ BYTE = HalfByte + HalfByte /\ HalfByte \in Nat /\ HalfByte >= 1
      /\ WORD \in Nat /\ WORD = HalfWord + HalfWord /\ HalfWord >= BYTE /\ HalfWord \in Nat
  BY Widths
<1>2. v \in Nat /\ w \in Nat /\ v < WORD /\ w < WORD
  BY <1>1, LowBytes DEF Word
<1>3. v % BYTE = IF v < BYTE THEN v ELSE v - WORD + BYTE
  BY LowBytes
<1>4. w % BYTE = IF w < BYTE THEN w ELSE w - WORD + BYTE
  BY LowBytes
<1> DEFINE cv == v % BYTE
           cw == w % BYTE
<1> HIDE DEF cv, cw, BYTE, WORD, HalfWord
<1>5. CASE t.signed
  <2>1. (v < HalfByte \/ v >= WORD - HalfByte) /\ (w < HalfByte \/ w >= WORD - HalfByte)
    BY <1>5, LowBytes
  <2> QED BY <1>1, <1>2, <1>3, <1>4, <2>1
<1>6. CASE ~ t.signed
  <2>1. v < BYTE /\ w < BYTE
    BY <1>6, LowBytes
  <2> QED BY <1>1, <1>2, <1>3, <1>4, <2>1
<1> QED BY <1>5, <1>6

-----------------------------------------------------------------------------
(* Lists of cases.                                                         *)

Num(t, cs, i) == Number(t, cs[i].caseValue)

(* What compileLabeledStatements() leaves when it reports and warns of     *)
(* nothing.                                                                *)
GoodCases(t, cs) ==
  /\ t \in Types
  /\ cs \in Seq([isDefault : BOOLEAN, caseValue : Word])
  /\ \A i \in Ordinary(cs) : cs[i].caseValue \in ExprValues(t)
  /\ \A i \in Defaults(cs) : cs[i].caseValue = 0
  /\ \A i, j \in Ordinary(cs) : cs[i].caseValue = cs[j].caseValue => i = j

LEMMA CaseNumbers ==
  ASSUME NEW t, NEW cs, GoodCases(t, cs)
  PROVE  /\ DOMAIN cs = 1 .. Len(cs) /\ Len(cs) \in Nat
         /\ \A i \in DOMAIN cs : /\ cs[i].caseValue \in Word
                                /\ Num(t, cs, i) \in Int
                                /\ 0 - WORD < Num(t, cs, i) /\ Num(t, cs, i) < WORD
         /\ \A i, j \in Ordinary(cs) : Num(t, cs, i) = Num(t, cs, j) => i = j
         /\ Ordinary(cs) \subseteq DOMAIN cs
         /\ DefaultLabel(cs) \in Nat
<1>1. DOMAIN cs = 1 .. Len(cs) /\ Len(cs) \in Nat
  BY DEF GoodCases
<1>2. \A i \in DOMAIN cs : cs[i].caseValue \in Word
  <2> DEFINE R == [isDefault : BOOLEAN, caseValue : Word]
  <2>1. cs \in Seq(R)
    BY DEF GoodCases
  <2>2. \A i \in DOMAIN cs : cs[i] \in R
    <3> HIDE DEF R
    <3> QED BY <1>1, <2>1
  <2> QED BY <2>2
<1>3. 0 \in Word /\ WORD \in Nat
  <2>1. WORD \in Nat /\ WORD > 0
    BY Widths
  <2> QED BY <2>1 DEF Word
<1>4. ASSUME NEW i \in DOMAIN cs
      PROVE  /\ Num(t, cs, i) \in Int
             /\ 0 - WORD < Num(t, cs, i) /\ Num(t, cs, i) < WORD
  <2> DEFINE v == cs[i].caseValue
  <2>1. Number(t, v) \in Int /\ Number(t, 0) = 0
    BY <1>2, <1>3, Numbers
  <2>2. Number(t, v) - Number(t, 0) < WORD /\ Number(t, 0) - Number(t, v) < WORD
    BY <1>2, <1>3, Numbers
  <2> HIDE DEF WORD
  <2> QED BY <1>3, <2>1, <2>2 DEF Num
<1>5. Ordinary(cs) \subseteq DOMAIN cs
  BY DEF Ordinary
<1>6. \A i, j \in Ordinary(cs) : Num(t, cs, i) = Num(t, cs, j) => i = j
  BY <1>2, <1>5, Numbers DEF Num, GoodCases
<1>7. DefaultLabel(cs) \in Nat
  <2>1. CASE Defaults(cs) = {}
    BY <1>1, <2>1 DEF DefaultLabel
  <2>2. CASE Defaults(cs) # {}
    <3>1. DefaultLabel(cs) \in Defaults(cs)
      BY <2>2 DEF DefaultLabel
    <3> QED BY <1>1, <3>1 DEF Defaults
  <2> QED BY <2>1, <2>2
<1> QED BY <1>1, <1>2, <1>4, <1>5, <1>6, <1>7

(* Every part of the list has a first and a last value.                    *)
LEMMA FirstIs ==
  ASSUME NEW t, NEW cs, GoodCases(t, cs), NEW part \in SUBSET DOMAIN cs, part # {}
  PROVE  /\ First(t, cs, part) \in part
         /\ \A j \in part : Num(t, cs, First(t, cs, part)) <= Num(t, cs, j)
<1> DEFINE S == {Num(t, cs, i) + WORD : i \in part}
<1>1. WORD \in Int /\ \A i \in part : Num(t, cs, i) \in Int /\ 0 - WORD < Num(t, cs, i)
  BY CaseNumbers, Widths
<1> HIDE DEF WORD
<1>2. S \in SUBSET Nat /\ S # {}
  BY <1>1
<1>3. PICK m \in S : \A k \in S : m <= k
  <2> HIDE DEF S
  <2> QED BY <1>2, LeastNatural
<1>4. PICK i \in part : m = Num(t, cs, i) + WORD
  OBVIOUS
<1>5. \A j \in part : Num(t, cs, i) <= Num(t, cs, j)
  <2> TAKE j \in part
  <2>1. Num(t, cs, i) + WORD <= Num(t, cs, j) + WORD
    BY <1>3, <1>4
  <2> QED BY <1>1, <2>1
<1>6. \E k \in part : \A j \in part : Number(t, cs[k].caseValue) <= Number(t, cs[j].caseValue)
  BY <1>5 DEF Num
<1> QED BY <1>6 DEF First, Num

LEMMA LastIs ==
  ASSUME NEW t, NEW cs, GoodCases(t, cs), NEW part \in SUBSET DOMAIN cs, part # {}
  PROVE  /\ Last(t, cs, part) \in part
         /\ \A j \in part : Num(t, cs, j) <= Num(t, cs, Last(t, cs, part))
<1> DEFINE S == {WORD - Num(t, cs, i) : i \in part}
<1>1. WORD \in Int /\ \A i \in part : Num(t, cs, i) \in Int /\ Num(t, cs, i) < WORD
  BY CaseNumbers, Widths
<1> HIDE DEF WORD
<1>2. S \in SUBSET Nat /\ S # {}
  BY <1>1
<1>3. PICK m \in S : \A k \in S : m <= k
  <2> HIDE DEF S
  <2> QED BY <1>2, LeastNatural
<1>4. PICK i \in part : m = WORD - Num(t, cs, i)
  OBVIOUS
<1>5. \A j \in part : Num(t, cs, j) <= Num(t, cs, i)
  <2> TAKE j \in part
  <2>1. WORD - Num(t, cs, i) <= WORD - Num(t, cs, j)
    BY <1>3, <1>4
  <2> QED BY <1>1, <2>1
<1>6. \E k \in part : \A j \in part : Number(t, cs[j].caseValue) <= Number(t, cs[k].caseValue)
  BY <1>5 DEF Num
<1> QED BY <1>6 DEF Last, Num

(* The limits of the table are those of the list, the default included.    *)
LEMMA LimitsAre ==
  ASSUME NEW t, NEW cs, GoodCases(t, cs), cs # <<>>
  PROVE  LET min == MinCaseValue(t, cs)
             max == MaxCaseValue(t, cs)
         IN  /\ \E i \in DOMAIN cs : min = cs[i].caseValue
             /\ \E i \in DOMAIN cs : max = cs[i].caseValue
             /\ \A i \in DOMAIN cs : Number(t, min) <= Num(t, cs, i) /\ Num(t, cs, i) <= Number(t, max)
<1> DEFINE all == {cs[i].caseValue : i \in DOMAIN cs}
<1>1. DOMAIN cs # {} /\ DOMAIN cs \in SUBSET DOMAIN cs
  <2>1. cs \in Seq([isDefault : BOOLEAN, caseValue : Word])
    BY DEF GoodCases
  <2>2. Len(cs) # 0 /\ Len(cs) \in Nat /\ DOMAIN cs = 1 .. Len(cs)
    BY <2>1
  <2> QED BY <2>2
<1>2. PICK a \in DOMAIN cs : \A j \in DOMAIN cs : Num(t, cs, a) <= Num(t, cs, j)
  BY <1>1, FirstIs
<1>3. PICK b \in DOMAIN cs : \A j \in DOMAIN cs : Num(t, cs, j) <= Num(t, cs, b)
  BY <1>1, LastIs
<1>4. \E v \in all : \A w \in all : Number(t, v) <= Number(t, w)
  BY <1>2 DEF Num
<1>5. \E v \in all : \A w \in all : Number(t, w) <= Number(t, v)
  BY <1>3 DEF Num
<1>6. \A v, w \in all : Number(t, v) \in Int /\ (Number(t, v) >= Number(t, w) <=> Number(t, w) <= Number(t, v))
  BY CaseNumbers DEF Num
<1>7. MinCaseValue(t, cs) \in all /\ \A w \in all : Number(t, MinCaseValue(t, cs)) <= Number(t, w)
  <2>1. MinCaseValue(t, cs) = CHOOSE v \in all : \A w \in all : Number(t, v) <= Number(t, w)
    BY DEF MinCaseValue
  <2> HIDE DEF all
  <2> QED BY <1>4, <2>1
<1>8. MaxCaseValue(t, cs) \in all /\ \A w \in all : Number(t, w) <= Number(t, MaxCaseValue(t, cs))
  <2>1. MaxCaseValue(t, cs) = CHOOSE v \in all : \A w \in all : Number(t, v) >= Number(t, w)
    BY DEF MaxCaseValue
  <2> HIDE DEF all
  <2> QED BY <1>5, <1>6, <2>1
<1> QED BY <1>7, <1>8 DEF Num

-----------------------------------------------------------------------------
(* The loop that writes the table.                                         *)

After(t, cs, min, last) ==
  CHOOSE w : w = [n \in 0 .. last |-> IF n = 0 THEN Table(Ordinary(cs), <<>>, FALSE)
                                     ELSE Iteration(t, cs, min + n - 1, w[n - 1])]

LEMMA TableIsAfter ==
  ASSUME NEW t, NEW cs
  PROVE  LET min == Number(t, MinCaseValue(t, cs))
             last == Number(t, MaxCaseValue(t, cs)) - min + 1
         IN  JumpTableEntries(t, cs) = After(t, cs, min, last)[last]
BY DEF JumpTableEntries, After

(* What the recursive definition says of its solution w.                   *)
Unfolds(w, t, cs, min, last) ==
  /\ w[0] = Table(Ordinary(cs), <<>>, FALSE)
  /\ \A n \in 1 .. last : w[n] = Iteration(t, cs, min + n - 1, w[n - 1])

(* The recursive definition has a solution.                                *)
LEMMA AfterExists ==
  ASSUME NEW t, NEW cs, NEW min \in Int, NEW last \in Nat
  PROVE  Unfolds(After(t, cs, min, last), t, cs, min, last)
<1> DEFINE start == Table(Ordinary(cs), <<>>, FALSE)
           It(n, s) == Iteration(t, cs, min + n - 1, s)
           Follows(v, m) ==
             /\ DOMAIN v = 0 .. m - 1
             /\ v[0] = start
             /\ \A n \in 1 .. m - 1 : v[n] = It(n, v[n - 1])
           S == {m \in 1 .. last + 1 : \E v : Follows(v, m)}
<1> HIDE DEF start, It
<1>1. last + 1 \in Nat \ {0} /\ (last + 1) - 1 = last
  OBVIOUS
<1>2. 1 \in S
  <2>1. Follows([n \in 0 .. 0 |-> start], 1)
    OBVIOUS
  <2> HIDE DEF Follows
  <2> QED BY <1>1, <2>1
<1>3. ASSUME NEW m \in 1 .. last, m \in S PROVE m + 1 \in S
  <2>1. PICK v : Follows(v, m)
    BY <1>3
  <2> DEFINE u == [n \in 0 .. m |-> IF n = m THEN It(m, v[m - 1]) ELSE v[n]]
  <2>2. m \in Nat \ {0} /\ (m + 1) - 1 = m
    BY <1>1
  <2>3. u[0] = start /\ DOMAIN u = 0 .. m
    BY <2>1, <2>2
  <2>4. ASSUME NEW n \in 1 .. m PROVE u[n] = It(n, u[n - 1])
    <3>1. n - 1 \in 0 .. m /\ n - 1 # m /\ n \in 0 .. m
      BY <2>2
    <3>2. u[n - 1] = v[n - 1]
      BY <3>1
    <3>3. CASE n = m
      BY <3>1, <3>2, <3>3
    <3>4. CASE n # m
      <4>1. n \in 1 .. m - 1 /\ u[n] = v[n]
        BY <2>2, <3>1, <3>4
      <4> QED BY <2>1, <3>2, <4>1
    <3> QED BY <3>3, <3>4
  <2>5. Follows(u, m + 1)
    <3> HIDE DEF u
    <3> QED BY <2>2, <2>3, <2>4
  <2> HIDE DEF Follows, u
  <2> QED BY <1>1, <2>5
<1>4. last + 1 \in S
  <2> HIDE DEF S
  <2>1. \A m \in 1 .. last + 1 : m \in S
    BY <1>1, <1>2, <1>3, IntervalInduction
  <2> QED BY <1>1, <2>1
<1>5. PICK v : Follows(v, last + 1)
  BY <1>4
<1> DEFINE w == [n \in 0 .. last |-> IF n = 0 THEN start ELSE It(n, v[n - 1])]
<1>6. \A n \in 0 .. last : w[n] = v[n]
  <2> SUFFICES ASSUME NEW n \in 0 .. last PROVE w[n] = v[n]
    OBVIOUS
  <2>1. CASE n = 0
    BY <1>5, <2>1
  <2>2. CASE n # 0
    <3>1. n \in 1 .. last
      BY <2>2
    <3>2. v[n] = It(n, v[n - 1])
      BY <1>1, <1>5, <3>1
    <3> QED BY <2>2, <3>2
  <2> QED BY <2>1, <2>2
<1>7. w = [n \in 0 .. last |-> IF n = 0 THEN start ELSE It(n, w[n - 1])]
  <2>1. \A n \in 0 .. last : n # 0 => n - 1 \in 0 .. last
    OBVIOUS
  <2>2. \A n \in 0 .. last : n # 0 => w[n - 1] = v[n - 1]
    BY <1>6, <2>1
  <2> QED BY <2>2
<1>8. \E u : u = [n \in 0 .. last |-> IF n = 0 THEN start ELSE It(n, u[n - 1])]
  <2> HIDE DEF w
  <2> QED BY <1>7
<1> DEFINE a == After(t, cs, min, last)
<1>9. a = [n \in 0 .. last |-> IF n = 0 THEN start ELSE It(n, a[n - 1])]
  BY <1>8 DEF After, start, It
<1> HIDE DEF a
<1>10. a[0] = start
  BY <1>9
<1>11. ASSUME NEW n \in 1 .. last PROVE a[n] = It(n, a[n - 1])
  <2>1. n \in 0 .. last /\ n # 0
    OBVIOUS
  <2> QED BY <1>9, <2>1
<1> QED BY <1>10, <1>11 DEF a, start, It, Unfolds

(* What an entry of the table should be.                                   *)
RightEntry(t, cs, value, e) ==
  \/ e \in Ordinary(cs) /\ Num(t, cs, e) = value
  \/ e = DefaultLabel(cs) /\ \A i \in Ordinary(cs) : Num(t, cs, i) # value

(* The table when the values below value have their entries.               *)
RightTable(t, cs, min, n, s) ==
  /\ s.halted = FALSE
  /\ s.rest = {i \in Ordinary(cs) : min + n <= Num(t, cs, i)}
  /\ s.entries \in Seq(Nat) /\ Len(s.entries) = n
  /\ \A k \in 1 .. n : RightEntry(t, cs, min + k - 1, s.entries[k])

LEMMA IterationIsRight ==
  ASSUME NEW t, NEW cs, GoodCases(t, cs), NEW min \in Int, NEW n \in Nat, NEW s,
         RightTable(t, cs, min, n, s), NEW top \in Ordinary(cs), min + n <= Num(t, cs, top)
  PROVE  RightTable(t, cs, min, n + 1, Iteration(t, cs, min + n, s))
<1> DEFINE value == min + n
           i == First(t, cs, s.rest)
           r == Iteration(t, cs, value, s)
<1>1. /\ s.halted = FALSE
      /\ s.rest = {j \in Ordinary(cs) : value <= Num(t, cs, j)}
      /\ s.entries \in Seq(Nat) /\ Len(s.entries) = n
      /\ \A k \in 1 .. n : RightEntry(t, cs, min + k - 1, s.entries[k])
  BY DEF RightTable
<1>2. value \in Int /\ value + 1 = min + (n + 1) /\ min + (n + 1) - 1 = value
  OBVIOUS
<1>3. /\ \A j \in Ordinary(cs) : j \in DOMAIN cs /\ j \in Nat /\ Num(t, cs, j) \in Int
      /\ \A j, k \in Ordinary(cs) : Num(t, cs, j) = Num(t, cs, k) => j = k
      /\ DefaultLabel(cs) \in Nat
  BY CaseNumbers
<1> HIDE DEF value
<1>4. i \in s.rest /\ \A j \in s.rest : Num(t, cs, i) <= Num(t, cs, j)
  <2>1. s.rest \in SUBSET DOMAIN cs
    BY <1>1, <1>3
  <2>2. s.rest # {}
    BY <1>1 DEF value
  <2> QED BY <2>1, <2>2, FirstIs
<1> HIDE DEF i
<1>5. i \in Ordinary(cs) /\ value <= Num(t, cs, i) /\ i \in Nat /\ Num(t, cs, i) \in Int
  BY <1>1, <1>3, <1>4
<1>6. r = IF value < Num(t, cs, i) THEN Table(s.rest, Append(s.entries, DefaultLabel(cs)), FALSE)
          ELSE Table(s.rest \ {i}, Append(s.entries, i), FALSE)
  <2>1. s.rest # {} /\ s.halted = FALSE
    BY <1>1, <1>4
  <2> QED BY <2>1 DEF Iteration, i, Num
<1> HIDE DEF r
<1>7. ASSUME NEW e \in Nat, NEW rest, RightEntry(t, cs, value, e),
             \A j : j \in rest <=> j \in Ordinary(cs) /\ value + 1 <= Num(t, cs, j),
             r = Table(rest, Append(s.entries, e), FALSE)
      PROVE  RightTable(t, cs, min, n + 1, r)
  <2> DEFINE entries == Append(s.entries, e)
  <2>1. /\ entries \in Seq(Nat) /\ Len(entries) = n + 1 /\ entries[n + 1] = e
        /\ \A k \in 1 .. n : entries[k] = s.entries[k]
    BY <1>1
  <2> HIDE DEF entries
  <2>2. r.halted = FALSE /\ r.rest = rest /\ r.entries = entries
    BY <1>7 DEF Table, entries
  <2>4. rest = {j \in Ordinary(cs) : value + 1 <= Num(t, cs, j)}
    BY <1>7
  <2>3. ASSUME NEW k \in 1 .. n + 1 PROVE RightEntry(t, cs, min + k - 1, entries[k])
    <3>1. CASE k = n + 1
      BY <1>2, <1>7, <2>1, <3>1
    <3>2. CASE k # n + 1
      <4>1. k \in 1 .. n
        BY <3>2
      <4> QED BY <1>1, <2>1, <4>1
    <3> QED BY <3>1, <3>2
  <2> QED BY <1>2, <2>1, <2>2, <2>3, <2>4 DEF RightTable
<1>8. ASSUME value < Num(t, cs, i) PROVE RightTable(t, cs, min, n + 1, r)
  <2>1. \A j \in Ordinary(cs) : value <= Num(t, cs, j) => value + 1 <= Num(t, cs, j)
    <3> TAKE j \in Ordinary(cs)
    <3>1. value <= Num(t, cs, j) => Num(t, cs, i) <= Num(t, cs, j)
      BY <1>1, <1>4
    <3> QED BY <1>2, <1>3, <1>5, <1>8, <3>1
  <2>2. \A j : j \in s.rest <=> j \in Ordinary(cs) /\ value + 1 <= Num(t, cs, j)
    <3>1. \A j \in Ordinary(cs) : value <= Num(t, cs, j) <=> value + 1 <= Num(t, cs, j)
      BY <1>2, <1>3, <2>1
    <3> QED BY <1>1, <3>1
  <2>3. RightEntry(t, cs, value, DefaultLabel(cs))
    <3>1. \A j \in Ordinary(cs) : Num(t, cs, j) # value
      BY <1>2, <1>3, <2>1
    <3> QED BY <3>1 DEF RightEntry
  <2>4. r = Table(s.rest, Append(s.entries, DefaultLabel(cs)), FALSE)
    BY <1>6, <1>8
  <2> QED BY <1>3, <1>7, <2>2, <2>3, <2>4
<1>9. ASSUME ~ (value < Num(t, cs, i)) PROVE RightTable(t, cs, min, n + 1, r)
  <2>1. Num(t, cs, i) = value
    BY <1>2, <1>5, <1>9
  <2>2. \A j : j \in s.rest \ {i} <=> j \in Ordinary(cs) /\ value + 1 <= Num(t, cs, j)
    <3>1. \A j \in Ordinary(cs) : value <= Num(t, cs, j) /\ j # i <=> value + 1 <= Num(t, cs, j)
      <4> TAKE j \in Ordinary(cs)
      <4>1. j # i => Num(t, cs, j) # value
        BY <1>3, <1>5, <2>1
      <4> QED BY <1>2, <1>3, <2>1, <4>1
    <3> QED BY <1>1, <3>1
  <2>3. RightEntry(t, cs, value, i)
    BY <1>5, <2>1 DEF RightEntry
  <2>4. r = Table(s.rest \ {i}, Append(s.entries, i), FALSE)
    BY <1>6, <1>9
  <2> QED BY <1>5, <1>7, <2>2, <2>3, <2>4
<1>10. RightTable(t, cs, min, n + 1, r)
  BY <1>8, <1>9
<1> QED BY <1>10 DEF r, value

(* The loop stands at the value of its n-th entry: it has passed the last  *)
(* case, and the assertion has failed, or it has not.                      *)
LoopState(t, cs, min, n, s, greatest) ==
  IF min + n - 1 <= greatest THEN RightTable(t, cs, min, n, s) ELSE s.halted = TRUE

LEMMA IterationKeeps ==
  ASSUME NEW t, NEW cs, GoodCases(t, cs), NEW min \in Int, NEW n \in Nat, NEW s,
         NEW top \in Ordinary(cs), \A i \in Ordinary(cs) : Num(t, cs, i) <= Num(t, cs, top),
         LoopState(t, cs, min, n, s, Num(t, cs, top))
  PROVE  LoopState(t, cs, min, n + 1, Iteration(t, cs, min + n, s), Num(t, cs, top))
<1> DEFINE greatest == Num(t, cs, top)
           r == Iteration(t, cs, min + n, s)
<1>1. greatest \in Int /\ \A i \in Ordinary(cs) : Num(t, cs, i) \in Int
  BY CaseNumbers
<1>2. min + (n + 1) - 1 = min + n
  OBVIOUS
<1>3. CASE min + n <= greatest
  <2>1. min + n - 1 <= greatest
    BY <1>1, <1>3
  <2>2. RightTable(t, cs, min, n, s)
    BY <2>1 DEF LoopState
  <2>3. RightTable(t, cs, min, n + 1, r)
    BY <1>3, <2>2, IterationIsRight
  <2> QED BY <1>2, <1>3, <2>3 DEF LoopState
<1>4. CASE ~ (min + n <= greatest)
  <2>1. s.halted = TRUE \/ s.rest = {}
    <3>1. CASE min + n - 1 <= greatest
      <4>1. s.rest = {i \in Ordinary(cs) : min + n <= Num(t, cs, i)}
        BY <3>1 DEF LoopState, RightTable
      <4>2. \A i \in Ordinary(cs) : ~ (min + n <= Num(t, cs, i))
        <5> HIDE DEF greatest
        <5>1. \A i \in Ordinary(cs) : Num(t, cs, i) <= greatest
          BY DEF greatest
        <5> QED BY <1>1, <1>4, <5>1
      <4> QED BY <4>1, <4>2
    <3>2. CASE ~ (min + n - 1 <= greatest)
      BY <3>2 DEF LoopState
    <3> QED BY <3>1, <3>2
  <2>2. r = Table({}, s.entries, TRUE)
    BY <2>1 DEF Iteration
  <2>3. r.halted = TRUE
    BY <2>2 DEF Table
  <2> HIDE DEF r
  <2> QED BY <1>2, <1>4, <2>3 DEF LoopState, r
<1> QED BY <1>3, <1>4

LEMMA LoopIsRight ==
  ASSUME NEW t, NEW cs, GoodCases(t, cs), NEW min \in Int, NEW last \in Nat,
         \A i \in Ordinary(cs) : min <= Num(t, cs, i),
         NEW top \in Ordinary(cs), \A i \in Ordinary(cs) : Num(t, cs, i) <= Num(t, cs, top)
  PROVE  LoopState(t, cs, min, last, After(t, cs, min, last)[last], Num(t, cs, top))
<1> DEFINE greatest == Num(t, cs, top)
           w == After(t, cs, min, last)
           S == {m \in 1 .. last + 1 : LoopState(t, cs, min, m - 1, w[m - 1], greatest)}
<1>0. Unfolds(w, t, cs, min, last)
  BY AfterExists
<1>1. LoopState(t, cs, min, 0, w[0], greatest)
  <2>1. w[0] = Table(Ordinary(cs), <<>>, FALSE)
    BY <1>0 DEF Unfolds
  <2>2. \A i \in Ordinary(cs) : min + 0 <= Num(t, cs, i)
    BY CaseNumbers
  <2> HIDE DEF w
  <2>3. w[0].halted = FALSE /\ w[0].rest = Ordinary(cs) /\ w[0].entries = <<>>
    BY <2>1 DEF Table
  <2>4. Ordinary(cs) = {i \in Ordinary(cs) : min + 0 <= Num(t, cs, i)}
    BY <2>2
  <2>5. RightTable(t, cs, min, 0, w[0])
    BY <2>3, <2>4 DEF RightTable
  <2>6. min + 0 - 1 <= greatest
    <3>1. greatest \in Int /\ min <= greatest
      BY CaseNumbers
    <3> HIDE DEF greatest
    <3> QED BY <3>1
  <2> QED BY <2>5, <2>6 DEF LoopState
<1>2. 1 \in S
  <2>1. 1 \in 1 .. last + 1 /\ 1 - 1 = 0
    OBVIOUS
  <2> HIDE DEF w, greatest
  <2> QED BY <1>1, <2>1
<1>3. ASSUME NEW m \in 1 .. (last + 1) - 1, m \in S PROVE m + 1 \in S
  <2>1. m \in 1 .. last /\ m - 1 \in Nat /\ (m - 1) + 1 = m /\ (m + 1) - 1 = m /\ m + 1 \in 1 .. last + 1
        /\ min + m - 1 = min + (m - 1)
    OBVIOUS
  <2>2. w[m] = Iteration(t, cs, min + (m - 1), w[m - 1])
    BY <1>0, <2>1 DEF Unfolds
  <2> HIDE DEF w
  <2>3. LoopState(t, cs, min, m - 1, w[m - 1], greatest)
    BY <1>3
  <2>4. LoopState(t, cs, min, (m - 1) + 1, w[m], greatest)
    BY <2>1, <2>2, <2>3, IterationKeeps
  <2> HIDE DEF greatest
  <2> QED BY <2>1, <2>4
<1>4. \A m \in 1 .. last + 1 : m \in S
  <2> HIDE DEF S
  <2> QED BY <1>2, <1>3, IntervalInduction
<1>5. LoopState(t, cs, min, last, w[last], greatest)
  <2>1. last + 1 \in 1 .. last + 1 /\ (last + 1) - 1 = last
    OBVIOUS
  <2> HIDE DEF w, greatest
  <2> QED BY <1>4, <2>1
<1> QED BY <1>5

-----------------------------------------------------------------------------
(* What the two forms cost.                                                *)

(* The count of entries is that of the values from first to last, except   *)
(* that it may wrap to zero.                                               *)
LEMMA EntriesCounted ==
  ASSUME NEW t, NEW v \in Word, NEW w \in Word, Number(t, v) <= Number(t, w)
  PROVE  LET count == Number(t, w) - Number(t, v) + 1
         IN  /\ count \in Nat \ {0} /\ count <= WORD
             /\ NumTableEntries(v, w) = IF count = WORD THEN 0 ELSE count
<1> DEFINE d == Number(t, w) - Number(t, v)
           a == 1 + w - v
<1>1. WORD \in Nat /\ WORD > 1
  <2>1. WORD \in Nat /\ WORD = HalfWord + HalfWord /\ HalfWord >= BYTE /\ BYTE >= 2 /\ BYTE \in Nat /\ HalfWord \in Nat
    BY Widths
  <2> HIDE DEF WORD, HalfWord, BYTE
  <2> QED BY <2>1
<1>2. v \in 0 .. WORD - 1 /\ w \in 0 .. WORD - 1
  BY DEF Word
<1> HIDE DEF WORD
<1>3. Number(t, w) \in Int /\ Number(t, v) \in Int /\ d < WORD /\ Pattern(w - v) = d
  <2>1. Number(t, w) \in Int /\ Number(t, v) \in Int
    BY Numbers
  <2>2. Number(t, w) >= Number(t, v)
    BY <2>1
  <2> QED BY <2>1, <2>2, Numbers
<1>4. d \in Nat
  BY <1>3
<1>5. d = IF w - v >= 0 THEN w - v ELSE w - v + WORD
  <2>1. w - v \in Int /\ 0 - WORD < w - v /\ w - v < WORD
    BY <1>1, <1>2
  <2> QED BY <1>3, <2>1, ModWord DEF Pattern
<1> HIDE DEF d
<1>6. a = IF w - v >= 0 THEN d + 1 ELSE d + 1 - WORD
  BY <1>1, <1>2, <1>4, <1>5
<1>7. a % WORD = IF d + 1 = WORD THEN 0 ELSE d + 1
  <2>1. CASE a = WORD
    <3>1. WORD % WORD = 0
      <4>1. WORD = WORD * 1 + 0 /\ 0 \in 0 .. WORD - 1
        BY <1>1
      <4> QED BY <1>1, <4>1, DivUnique
    <3>2. d + 1 = WORD
      BY <1>1, <1>3, <1>4, <1>6, <2>1 DEF d
    <3> QED BY <2>1, <3>1, <3>2
  <2>2. CASE a # WORD
    <3>1. a \in Int /\ 0 - WORD < a /\ a < WORD
      BY <1>1, <1>2, <2>2
    <3>2. a % WORD = IF a >= 0 THEN a ELSE a + WORD
      BY <3>1, ModWord
    <3>3. d < WORD
      BY <1>3 DEF d
    <3> HIDE DEF a
    <3> QED BY <1>1, <1>2, <1>4, <1>6, <2>2, <3>1, <3>2, <3>3
  <2> QED BY <2>1, <2>2
<1>8. NumTableEntries(v, w) = a % WORD
  BY DEF NumTableEntries
<1>9. d + 1 <= WORD
  BY <1>1, <1>3, <1>4 DEF d
<1> QED BY <1>4, <1>7, <1>8, <1>9 DEF d

LEMMA CostsAre ==
  ASSUME NEW t, NEW cs, GoodCases(t, cs), Ordinary(cs) # {}
  PROVE  LET n == Cardinality(Ordinary(cs))
             all == Ordinary(cs)
             count == NumTableEntries(cs[First(t, cs, all)].caseValue, cs[Last(t, cs, all)].caseValue)
         IN  /\ n \in Nat /\ n <= Len(cs)
             /\ IfElseCost(t, cs) = n * (CmpCost(t) + 4) + 3
             /\ JumpTableCost(t, cs) = PromotionCost(t) + 4 + 3 + 6 + 2 * (3 + count)
             /\ CmpCost(t) \in {2, 4} /\ PromotionCost(t) \in {0, 1}
<1> DEFINE all == Ordinary(cs)
<1>1. DOMAIN cs = 1 .. Len(cs) /\ Len(cs) \in Nat /\ all \in SUBSET (1 .. Len(cs))
  BY CaseNumbers
<1> HIDE DEF all
<1>2. IsFiniteSet(1 .. Len(cs)) /\ Cardinality(1 .. Len(cs)) = Len(cs)
  <2>1. \A n \in Nat : IsFiniteSet(1 .. n) /\ Cardinality(1 .. n) = IF 1 > n THEN 0 ELSE n - 1 + 1
    BY FS_Interval
  <2> QED BY <1>1, <2>1
<1>3. IsFiniteSet(all) /\ Cardinality(all) <= Len(cs)
  <2>1. \A S, T : IsFiniteSet(S) /\ T \in SUBSET S => IsFiniteSet(T) /\ Cardinality(T) <= Cardinality(S)
    BY FS_Subset, Zenon
  <2> QED BY <1>1, <1>2, <2>1
<1>4. Cardinality(all) \in Nat /\ Cardinality(all) # 0
  BY <1>3, FS_CardinalityType, FS_EmptySet DEF all
<1>5. IfElseCost(t, cs) = Cardinality(all) * (CmpCost(t) + 4) + 3
  BY <1>4 DEF IfElseCost, all
<1>6. CmpCost(t) \in {2, 4} /\ PromotionCost(t) \in {0, 1}
  BY DEF CmpCost, PromotionCost
<1> QED BY <1>3, <1>4, <1>5, <1>6 DEF all, JumpTableCost

(* The form is one of the two; a table is chosen only when it costs less   *)
(* than Excess more, and when nothing is asked for only when it costs less.*)
LEMMA ModeIs ==
  ASSUME NEW t, NEW cs, NEW force \in {"none", "ifelse", "jump"},
         IfElseCost(t, cs) \in Nat, JumpTableCost(t, cs) \in Nat
  PROVE  /\ Mode(t, cs, force) \in {"ifelse", "jump"}
         /\ Mode(t, cs, force) = "jump" =>
              JumpTableCost(t, cs) < IfElseCost(t, cs) + (IF force = "none" THEN 0 ELSE Excess)
         /\ Mode(t, cs, force) = "ifelse" /\ force = "none" => IfElseCost(t, cs) <= JumpTableCost(t, cs)
<1> DEFINE i == IfElseCost(t, cs)
           j == JumpTableCost(t, cs)
           mode == Mode(t, cs, force)
<1>1. i \in Nat /\ j \in Nat /\ Excess \in Nat \ {0}
  BY CaseAssumption
<1>2. mode = IF j > i /\ j - i >= Excess THEN "ifelse"
             ELSE IF force # "none" THEN force
             ELSE IF i <= j THEN "ifelse" ELSE "jump"
  BY DEF Mode
<1> HIDE DEF i, j, mode
<1>3. mode \in {"ifelse", "jump"}
  BY <1>2
<1>4. CASE j > i /\ j - i >= Excess
  BY <1>1, <1>2, <1>4 DEF i, j, mode
<1>5. CASE ~ (j > i /\ j - i >= Excess) /\ force # "none"
  <2>1. j < i + Excess
    BY <1>1, <1>5
  <2> QED BY <1>3, <1>5, <2>1 DEF i, j, mode
<1>6. CASE ~ (j > i /\ j - i >= Excess) /\ force = "none"
  <2>1. mode = IF i <= j THEN "ifelse" ELSE "jump"
    BY <1>2, <1>6
  <2>2. i <= j \/ j < i + 0
    BY <1>1
  <2> QED BY <1>6, <2>1, <2>2 DEF i, j, mode
<1> QED BY <1>4, <1>5, <1>6

-----------------------------------------------------------------------------
(* The comparisons.                                                        *)

LEMMA TestsAre ==
  ASSUME NEW t, NEW cs, GoodCases(t, cs)
  PROVE  /\ DOMAIN Tests(t, cs) = Ordinary(cs)
         /\ \A i \in Ordinary(cs) :
              Tests(t, cs)[i] = IF t.byte THEN cs[i].caseValue % BYTE ELSE cs[i].caseValue
<1>1. \A i \in Ordinary(cs) : t.byte => ~ (Signed(cs[i].caseValue) > MaxByte)
  BY LowBytes DEF GoodCases
<1>2. {j \in Ordinary(cs) : ~ (t.byte /\ Signed(cs[j].caseValue) > MaxByte)} = Ordinary(cs)
  BY <1>1
<1> QED BY <1>2 DEF Tests

LEMMA TestsDispatch ==
  ASSUME NEW t, NEW cs, GoodCases(t, cs), NEW x \in ExprValues(t), NEW i \in Ordinary(cs)
  PROVE  Tests(t, cs)[i] = (IF t.byte THEN x % BYTE ELSE x) <=> cs[i].caseValue = x
<1>1. t \in Types /\ cs[i].caseValue \in ExprValues(t)
  BY DEF GoodCases
<1>2. Tests(t, cs)[i] = IF t.byte THEN cs[i].caseValue % BYTE ELSE cs[i].caseValue
  BY TestsAre
<1>3. CASE t.byte
  <2>1. cs[i].caseValue % BYTE = x % BYTE => cs[i].caseValue = x
    BY <1>1, <1>3, LowByteOnce
  <2> QED BY <1>2, <1>3, <2>1
<1>4. CASE ~ t.byte
  BY <1>2, <1>4
<1> QED BY <1>3, <1>4

-----------------------------------------------------------------------------
(* The table.                                                              *)

(* The table spans the cases and the default's 0; the compiler stops when  *)
(* that 0 is above them.                                                   *)
LEMMA TableIsRight ==
  ASSUME NEW t, NEW cs, GoodCases(t, cs), Ordinary(cs) # {}
  PROVE  LET all == Ordinary(cs)
             first == First(t, cs, all)
             last == Last(t, cs, all)
             low == Number(t, MinCaseValue(t, cs))
             high == Number(t, MaxCaseValue(t, cs))
             s == JumpTableEntries(t, cs)
         IN  /\ MinCaseValue(t, cs) \in Word /\ MaxCaseValue(t, cs) \in Word
             /\ low = IF AllAboveZero(t, cs) THEN 0 ELSE Num(t, cs, first)
             /\ \A i \in all : low <= Num(t, cs, i) /\ Num(t, cs, i) <= high
             /\ AllBelowZero(t, cs) => s.halted = TRUE
             /\ ~ AllBelowZero(t, cs) => /\ high = Num(t, cs, last)
                                         /\ high - low + 1 \in Nat
                                         /\ RightTable(t, cs, low, high - low + 1, s)
<1> DEFINE all == Ordinary(cs)
           first == First(t, cs, all)
           last == Last(t, cs, all)
           least == Num(t, cs, first)
           greatest == Num(t, cs, last)
           min == MinCaseValue(t, cs)
           max == MaxCaseValue(t, cs)
           low == Number(t, min)
           high == Number(t, max)
<1>1. /\ \A i \in DOMAIN cs : cs[i].caseValue \in Word /\ Num(t, cs, i) \in Int
      /\ all \in SUBSET DOMAIN cs /\ all # {}
      /\ all = DOMAIN cs \ Defaults(cs)
  BY CaseNumbers DEF Ordinary
<1>2. first \in all /\ \A j \in all : least <= Num(t, cs, j)
  <2> HIDE DEF all
  <2> QED BY <1>1, FirstIs
<1>3. last \in all /\ \A j \in all : Num(t, cs, j) <= greatest
  <2> HIDE DEF all
  <2> QED BY <1>1, LastIs
<1>4. cs # <<>>
  BY <1>1
<1>5. PICK a \in DOMAIN cs, b \in DOMAIN cs :
        /\ min = cs[a].caseValue /\ max = cs[b].caseValue
        /\ \A i \in DOMAIN cs : low <= Num(t, cs, i) /\ Num(t, cs, i) <= high
  BY <1>4, LimitsAre
<1>6. low = Num(t, cs, a) /\ high = Num(t, cs, b) /\ min \in Word /\ max \in Word
  BY <1>1, <1>5 DEF Num
<1>7. \A i \in Defaults(cs) : i \in DOMAIN cs /\ Num(t, cs, i) = 0
  <2> TAKE i \in Defaults(cs)
  <2>1. i \in DOMAIN cs
    BY DEF Defaults
  <2>2. cs[i].caseValue = 0
    BY DEF GoodCases
  <2> QED BY <1>1, <2>1, <2>2, Numbers DEF Num
<1>8. /\ AllAboveZero(t, cs) <=> Defaults(cs) # {} /\ \A i \in all : Num(t, cs, i) > 0
      /\ AllBelowZero(t, cs) <=> Defaults(cs) # {} /\ \A i \in all : Num(t, cs, i) < 0
  BY DEF AllAboveZero, AllBelowZero, CaseNumbersOf, Num
<1> HIDE DEF first, last, min, max, low, high, least, greatest
<1>9. least \in Int /\ greatest \in Int /\ low \in Int /\ high \in Int /\ low <= high
      /\ first \in DOMAIN cs /\ last \in DOMAIN cs /\ least <= greatest
  <2>1. least \in Int /\ greatest \in Int /\ first \in DOMAIN cs /\ last \in DOMAIN cs
    BY <1>1, <1>2, <1>3 DEF least, greatest
  <2>2. low \in Int /\ high \in Int /\ low <= high
    BY <1>1, <1>5, <1>6
  <2>3. least <= greatest
    BY <1>2, <1>3 DEF greatest
  <2> QED BY <2>1, <2>2, <2>3
<1>10. low = IF AllAboveZero(t, cs) THEN 0 ELSE least
  <2>1. low <= least
    BY <1>5, <1>9 DEF least
  <2>2. CASE a \in all
    <3>1. low = least
      BY <1>2, <1>6, <1>9, <2>1, <2>2
    <3>2. ASSUME AllAboveZero(t, cs) PROVE FALSE
      <4>1. PICK d \in Defaults(cs) : TRUE
        BY <1>8, <3>2
      <4>2. low <= 0 /\ low > 0
        BY <1>5, <1>6, <1>7, <1>8, <2>2, <3>2, <4>1
      <4> QED BY <1>9, <4>2
    <3> QED BY <3>1, <3>2
  <2>3. CASE a \notin all
    <3>1. low = 0 /\ Defaults(cs) # {}
      BY <1>1, <1>6, <1>7, <2>3
    <3>2. CASE least = 0
      BY <3>1, <3>2
    <3>3. CASE least # 0
      <4>1. \A i \in all : Num(t, cs, i) > 0
        <5> TAKE i \in all
        <5>1. least <= Num(t, cs, i) /\ Num(t, cs, i) \in Int
          BY <1>1, <1>2
        <5> QED BY <1>9, <2>1, <3>1, <3>3, <5>1
      <4> QED BY <1>8, <3>1, <4>1
    <3> QED BY <3>2, <3>3
  <2> QED BY <2>2, <2>3
<1>11. high > greatest <=> AllBelowZero(t, cs)
  <2>1. ASSUME high > greatest PROVE AllBelowZero(t, cs)
    <3>1. b \notin all
      BY <1>3, <1>6, <1>9, <2>1
    <3>2. high = 0 /\ Defaults(cs) # {}
      BY <1>1, <1>6, <1>7, <3>1
    <3>3. \A i \in all : Num(t, cs, i) < 0
      BY <1>1, <1>3, <1>9, <2>1, <3>2
    <3> QED BY <1>8, <3>2, <3>3
  <2>2. ASSUME AllBelowZero(t, cs) PROVE high > greatest
    <3>1. PICK d \in Defaults(cs) : TRUE
      BY <1>8, <2>2
    <3>2. greatest < 0
      BY <1>3, <1>8, <2>2 DEF greatest
    <3>3. 0 <= high
      BY <1>5, <1>7, <3>1
    <3> QED BY <1>9, <3>2, <3>3
  <2> QED BY <2>1, <2>2
<1>12. greatest <= high
  BY <1>5, <1>9 DEF greatest
<1>13. LoopState(t, cs, low, high - low + 1, JumpTableEntries(t, cs), greatest)
  <2> DEFINE count == high - low + 1
  <2>1. JumpTableEntries(t, cs) = After(t, cs, low, count)[count]
    BY TableIsAfter DEF min, max, low, high
  <2>2. count \in Nat
    BY <1>9
  <2> HIDE DEF count
  <2>3. \A i \in all : low <= Num(t, cs, i)
    BY <1>1, <1>5
  <2>4. LoopState(t, cs, low, count, After(t, cs, low, count)[count], Num(t, cs, last))
    BY <1>3, <1>9, <2>2, <2>3, LoopIsRight DEF greatest
  <2> QED BY <2>1, <2>4 DEF greatest, count
<1>14. AllBelowZero(t, cs) => JumpTableEntries(t, cs).halted = TRUE
  <2> SUFFICES ASSUME AllBelowZero(t, cs) PROVE JumpTableEntries(t, cs).halted = TRUE
    OBVIOUS
  <2>1. ~ (low + (high - low + 1) - 1 <= greatest)
    BY <1>9, <1>11
  <2> QED BY <1>13, <2>1 DEF LoopState
<1>15. ~ AllBelowZero(t, cs) => /\ high = greatest /\ high - low + 1 \in Nat
                                /\ RightTable(t, cs, low, high - low + 1, JumpTableEntries(t, cs))
  <2> SUFFICES ASSUME ~ AllBelowZero(t, cs)
               PROVE  /\ high = greatest /\ high - low + 1 \in Nat
                      /\ RightTable(t, cs, low, high - low + 1, JumpTableEntries(t, cs))
    OBVIOUS
  <2>1. high = greatest /\ high - low + 1 \in Nat /\ low + (high - low + 1) - 1 <= greatest
    BY <1>9, <1>11, <1>12
  <2> QED BY <1>13, <2>1 DEF LoopState
<1>16. \A i \in all : low <= Num(t, cs, i) /\ Num(t, cs, i) <= high
  BY <1>1, <1>5
<1> QED BY <1>6, <1>10, <1>14, <1>15, <1>16 DEF first, last, min, max, low, high, least, greatest

(* The index into the table does not lose its high bit, and the entry that *)
(* is read is the right one.                                               *)
LEMMA TableDispatch ==
  ASSUME NEW t, NEW cs, GoodCases(t, cs), Ordinary(cs) # {}, ~ AllBelowZero(t, cs), NEW c, NEW x \in Word,
         c.min = MinCaseValue(t, cs), c.max = MaxCaseValue(t, cs),
         c.entries = JumpTableEntries(t, cs).entries,
         Len(c.entries) <= HalfWord
  PROVE  RightEntry(t, cs, Number(t, x), DispatchTable(t, cs, c, x))
<1> DEFINE all == Ordinary(cs)
           low == Number(t, c.min)
           high == Number(t, c.max)
           count == high - low + 1
           n == Number(t, x)
<1>1. \A j \in all : low <= Num(t, cs, j) /\ Num(t, cs, j) <= high
  BY TableIsRight
<1>2. \A i \in all : cs[i].caseValue \in Word /\ Num(t, cs, i) \in Int
  BY CaseNumbers
<1>3. /\ count \in Nat
      /\ c.entries \in Seq(Nat) /\ Len(c.entries) = count
      /\ \A k \in 1 .. count : RightEntry(t, cs, low + k - 1, c.entries[k])
  BY TableIsRight DEF RightTable
<1>4. n \in Int
  BY Numbers
<1>5. c.min \in Word /\ c.max \in Word
  BY TableIsRight
<1> HIDE DEF all
<1>6. low \in Int /\ high \in Int
  BY <1>5, Numbers
<1> DEFINE e == DispatchTable(t, cs, c, x)
<1>7. e = IF n <= high /\ n >= low THEN c.entries[(Pattern(x - c.min) % HalfWord) + 1] ELSE DefaultLabel(cs)
  BY DEF DispatchTable, UseTable
<1> HIDE DEF e, low, high
<1>8. CASE ~ (n <= high /\ n >= low)
  <2>1. \A i \in all : Num(t, cs, i) # n
    BY <1>1, <1>2, <1>4, <1>6, <1>8
  <2> QED BY <1>7, <1>8, <2>1 DEF RightEntry, e, all
<1>9. CASE n <= high /\ n >= low
  <2>1. Pattern(x - c.min) = n - low
    BY <1>5, <1>9, Numbers DEF low
  <2> DEFINE k == n - low
  <2>2. k \in Nat /\ k < HalfWord /\ HalfWord \in Nat /\ k + 1 \in 1 .. count /\ low + (k + 1) - 1 = n
    <3>1. HalfWord \in Nat /\ high - low + 1 <= HalfWord
      BY <1>3, Widths
    <3> HIDE DEF HalfWord, n
    <3> QED BY <1>4, <1>6, <1>9, <3>1
  <2>3. k % HalfWord = k
    <3>1. HalfWord \in Nat \ {0} /\ k \in 0 .. HalfWord - 1
      BY <2>2
    <3>2. k = HalfWord * 0 + k
      BY <2>2
    <3> HIDE DEF HalfWord, k
    <3> QED BY <2>2, <3>1, <3>2, DivUnique
  <2>4. e = c.entries[k + 1]
    BY <1>7, <1>9, <2>1, <2>3
  <2> HIDE DEF k
  <2>5. RightEntry(t, cs, low + (k + 1) - 1, c.entries[k + 1])
    BY <1>3, <2>2
  <2> QED BY <2>2, <2>4, <2>5 DEF e
<1> QED BY <1>8, <1>9

(* The first of the cases that are equal, or the default.                  *)
Found(cs, equal) ==
  IF equal = {} THEN DefaultLabel(cs) ELSE CHOOSE i \in equal : \A j \in equal : i <= j

(* What C selects, for a list of cases.                                    *)
Select(cs, x) == Found(cs, {i \in Ordinary(cs) : cs[i].caseValue = x})

LEMMA RightIsSelected ==
  ASSUME NEW t, NEW cs, GoodCases(t, cs), NEW x \in Word, NEW e, RightEntry(t, cs, Number(t, x), e)
  PROVE  Select(cs, x) = e
<1> DEFINE equal == {i \in Ordinary(cs) : cs[i].caseValue = x}
<1>1. \A i \in Ordinary(cs) : i \in Nat /\ cs[i].caseValue \in Word
  BY CaseNumbers
<1>2. \A i \in Ordinary(cs) : Num(t, cs, i) = Number(t, x) <=> cs[i].caseValue = x
  BY <1>1, Numbers DEF Num
<1>3. CASE e \in Ordinary(cs) /\ Num(t, cs, e) = Number(t, x)
  <2>1. e \in equal
    BY <1>2, <1>3
  <2>2. \A i \in equal : i = e
    BY <1>2, <1>3, CaseNumbers
  <2>3. Select(cs, x) = IF equal = {} THEN DefaultLabel(cs) ELSE CHOOSE i \in equal : \A j \in equal : i <= j
    BY DEF Select, Found
  <2>4. e <= e
    BY <1>1, <1>3
  <2> HIDE DEF equal
  <2>5. \E i \in equal : \A j \in equal : i <= j
    BY <2>1, <2>2, <2>4
  <2>6. Select(cs, x) \in equal
    BY <2>1, <2>3, <2>5
  <2> QED BY <2>2, <2>6
<1>4. CASE e = DefaultLabel(cs) /\ \A i \in Ordinary(cs) : Num(t, cs, i) # Number(t, x)
  <2>1. equal = {}
    BY <1>2, <1>4
  <2> QED BY <1>4, <2>1 DEF Select, Found
<1> QED BY <1>3, <1>4 DEF RightEntry

-----------------------------------------------------------------------------
(* The states of the compiler.                                             *)

CaseInv ==
  /\ type \in Types
  /\ forced \in {"none", "ifelse", "jump"}
  /\ cases \in Seq([isDefault : BOOLEAN, caseValue : Word])
  /\ Len(cases) <= MaxCases
  /\ errors \in BOOLEAN
  /\ ~ errors => GoodCases(type, cases)
  /\ \/ code = NotEmitted
     \/ ~ errors /\ code = Emitted(type, cases, Mode(type, cases, forced))

LEMMA Appended ==
  ASSUME NEW cs \in Seq([isDefault : BOOLEAN, caseValue : Word]), NEW new,
         NEW r \in [isDefault : BOOLEAN, caseValue : Word], new = Append(cs, r)
  PROVE  /\ new \in Seq([isDefault : BOOLEAN, caseValue : Word])
         /\ Len(new) = Len(cs) + 1 /\ Len(cs) + 1 \notin DOMAIN cs
         /\ new[Len(cs) + 1] = r
         /\ \A i \in DOMAIN cs : new[i] = cs[i]
         /\ r.isDefault => /\ Defaults(new) = Defaults(cs) \union {Len(cs) + 1}
                           /\ Ordinary(new) = Ordinary(cs)
         /\ ~ r.isDefault => /\ Defaults(new) = Defaults(cs)
                             /\ Ordinary(new) = Ordinary(cs) \union {Len(cs) + 1}
<1> DEFINE R == [isDefault : BOOLEAN, caseValue : Word]
           n == Len(cs) + 1
<1> HIDE DEF R
<1>1. cs \in Seq(R) /\ r \in R
  BY DEF R
<1>2. /\ new \in Seq(R) /\ Len(new) = n /\ n \notin DOMAIN cs /\ DOMAIN new = DOMAIN cs \union {n}
      /\ new[n] = r /\ \A i \in DOMAIN cs : new[i] = cs[i]
  BY <1>1
<1> HIDE DEF n
<1>3. Defaults(new) = IF r.isDefault THEN Defaults(cs) \union {n} ELSE Defaults(cs)
  BY <1>2 DEF Defaults
<1>4. Ordinary(new) = IF r.isDefault THEN Ordinary(cs) ELSE Ordinary(cs) \union {n}
  BY <1>2, <1>3 DEF Ordinary, Defaults
<1> QED BY <1>2, <1>3, <1>4 DEF n, R

LEMMA CaseInvInit == Init => CaseInv
<1> SUFFICES ASSUME Init PROVE CaseInv
  OBVIOUS
<1>1. cases = <<>> /\ errors = FALSE /\ code = NotEmitted /\ type \in Types
  BY DEF Init
<1>2. DOMAIN cases = {} /\ Len(cases) = 0 /\ cases \in Seq([isDefault : BOOLEAN, caseValue : Word])
  BY <1>1
<1>3. Ordinary(cases) = {} /\ Defaults(cases) = {}
  BY <1>2 DEF Ordinary, Defaults
<1>4. GoodCases(type, cases)
  BY <1>1, <1>2, <1>3 DEF GoodCases
<1>5. MaxCases >= 0
  BY CaseAssumption
<1> QED BY <1>1, <1>2, <1>4, <1>5 DEF CaseInv, Init

(* A case that the compiler does not warn about is a value that the        *)
(* expression can have.                                                    *)
LEMMA InRange ==
  ASSUME NEW t \in Types, NEW v \in Word, ~ OutOfRange(t, v)
  PROVE  v \in ExprValues(t)
<1>1. /\ HalfByte \in Nat /\ HalfByte >= 1 /\ BYTE \in Nat /\ MaxByte = BYTE - 1
      /\ WORD \in Nat /\ WORD = HalfWord + HalfWord /\ HalfWord \in Nat /\ HalfWord >= BYTE
      /\ BYTE = HalfByte + HalfByte
  BY Widths
<1>2. v \in 0 .. WORD - 1
  BY DEF Word
<1> HIDE DEF BYTE, WORD, HalfWord, MaxByte
<1>3. t.byte \in BOOLEAN /\ t.signed \in BOOLEAN
  BY DEF Types
<1>4. CASE ~ t.byte
  <2>1. ExprValues(t) = Word
    BY <1>4 DEF ExprValues
  <2> QED BY <2>1
<1>5. CASE t.byte /\ ~ t.signed
  <2>1. ExprValues(t) = 0 .. MaxByte
    BY <1>5 DEF ExprValues
  <2>2. ~ (v > MaxByte)
    BY <1>5 DEF OutOfRange
  <2> QED BY <1>1, <1>2, <2>1, <2>2
<1>6. CASE t.byte /\ t.signed
  <2>1. ExprValues(t) = 0 .. HalfByte - 1 \union WORD - HalfByte .. WORD - 1
    BY <1>6 DEF ExprValues
  <2>2. ~ (v >= HalfByte /\ v < WORD - HalfByte)
    BY <1>6 DEF OutOfRange
  <2> QED BY <1>1, <1>2, <2>1, <2>2
<1> QED BY <1>3, <1>4, <1>5, <1>6

LEMMA AddCaseKeeps ==
  ASSUME ~ Warned, CaseInv, NEW v \in CaseExprs, AddCase(v)
  PROVE  CaseInv'
<1> DEFINE n == Len(cases) + 1
<1>1. /\ code = NotEmitted /\ ~ errors /\ Len(cases) < MaxCases /\ ~ OutOfRange(type, v)
      /\ cases' = Append(cases, [isDefault |-> FALSE, caseValue |-> v])
      /\ errors' = \E i \in Ordinary(cases) : cases[i].caseValue = v
      /\ type' = type /\ forced' = forced /\ code' = code
  BY DEF AddCase
<1>2. /\ type \in Types /\ forced \in {"none", "ifelse", "jump"}
      /\ cases \in Seq([isDefault : BOOLEAN, caseValue : Word])
      /\ GoodCases(type, cases)
  BY <1>1 DEF CaseInv
<1>3. v \in Word
  BY CaseAssumption
<1>4. /\ cases' \in Seq([isDefault : BOOLEAN, caseValue : Word])
      /\ Len(cases') = n /\ n \notin DOMAIN cases
      /\ cases'[n].caseValue = v
      /\ \A i \in DOMAIN cases : cases'[i] = cases[i]
      /\ Defaults(cases') = Defaults(cases)
      /\ Ordinary(cases') = Ordinary(cases) \union {n}
  <2> DEFINE r == [isDefault |-> FALSE, caseValue |-> v]
  <2>1. r \in [isDefault : BOOLEAN, caseValue : Word] /\ r.caseValue = v /\ ~ r.isDefault
    BY <1>3
  <2>2. cases' = Append(cases, r)
    BY <1>1
  <2> HIDE DEF r
  <2>3. cases' \in Seq([isDefault : BOOLEAN, caseValue : Word])
    BY <1>2, <2>1, <2>2, Appended
  <2>4. Len(cases') = n /\ n \notin DOMAIN cases
    BY <1>2, <2>1, <2>2, Appended
  <2>5. cases'[n] = r /\ \A i \in DOMAIN cases : cases'[i] = cases[i]
    BY <1>2, <2>1, <2>2, Appended
  <2>6. Defaults(cases') = Defaults(cases)
    BY <1>2, <2>1, <2>2, Appended
  <2>7. Ordinary(cases') = Ordinary(cases) \union {n}
    BY <1>2, <2>1, <2>2, Appended
  <2> QED BY <2>1, <2>3, <2>4, <2>5, <2>6, <2>7
<1>5. Defaults(cases) \in SUBSET DOMAIN cases /\ Ordinary(cases) \in SUBSET DOMAIN cases
  BY DEF Defaults, Ordinary
<1>6. ASSUME ~ errors' PROVE GoodCases(type, cases')
  <2>1. \A i \in Ordinary(cases) : cases[i].caseValue # v
    BY <1>1, <1>6
  <2>2. v \in ExprValues(type)
    BY <1>1, <1>2, <1>3, InRange
  <2>3. \A i \in Ordinary(cases') : cases'[i].caseValue \in ExprValues(type)
    BY <1>2, <1>4, <1>5, <2>2 DEF GoodCases
  <2>4. \A i \in Defaults(cases') : cases'[i].caseValue = 0
    BY <1>2, <1>4, <1>5 DEF GoodCases
  <2>5. \A i, j \in Ordinary(cases') : cases'[i].caseValue = cases'[j].caseValue => i = j
    BY <1>2, <1>4, <1>5, <2>1 DEF GoodCases
  <2> QED BY <1>2, <1>4, <2>3, <2>4, <2>5 DEF GoodCases
<1>7. Len(cases') <= MaxCases
  <2>1. Len(cases) \in Nat /\ MaxCases \in Nat
    BY <1>2, CaseAssumption
  <2> QED BY <1>1, <1>4, <2>1
<1>8. errors' \in BOOLEAN
  BY <1>1
<1> QED BY <1>1, <1>2, <1>4, <1>6, <1>7, <1>8 DEF CaseInv

LEMMA AddDefaultKeeps ==
  ASSUME CaseInv, AddDefault
  PROVE  CaseInv'
<1> DEFINE n == Len(cases) + 1
<1>1. /\ code = NotEmitted /\ ~ errors /\ Len(cases) < MaxCases
      /\ cases' = Append(cases, [isDefault |-> TRUE, caseValue |-> 0])
      /\ errors' = (Defaults(cases) # {})
      /\ type' = type /\ forced' = forced /\ code' = code
  BY DEF AddDefault
<1>2. /\ type \in Types /\ forced \in {"none", "ifelse", "jump"}
      /\ cases \in Seq([isDefault : BOOLEAN, caseValue : Word])
      /\ GoodCases(type, cases)
  BY <1>1 DEF CaseInv
<1>3. 0 \in Word
  <2>1. WORD \in Nat /\ WORD = HalfWord + HalfWord /\ HalfWord >= BYTE /\ BYTE >= 2 /\ BYTE \in Nat /\ HalfWord \in Nat
    BY Widths
  <2> HIDE DEF WORD, HalfWord, BYTE
  <2> QED BY <2>1 DEF Word
<1>4. /\ cases' \in Seq([isDefault : BOOLEAN, caseValue : Word])
      /\ Len(cases') = n /\ n \notin DOMAIN cases
      /\ cases'[n].caseValue = 0
      /\ \A i \in DOMAIN cases : cases'[i] = cases[i]
      /\ Defaults(cases') = Defaults(cases) \union {n}
      /\ Ordinary(cases') = Ordinary(cases)
  <2> DEFINE r == [isDefault |-> TRUE, caseValue |-> 0]
  <2>1. r \in [isDefault : BOOLEAN, caseValue : Word] /\ r.caseValue = 0 /\ r.isDefault
    BY <1>3
  <2>2. cases' = Append(cases, r)
    BY <1>1
  <2> HIDE DEF r
  <2>3. cases' \in Seq([isDefault : BOOLEAN, caseValue : Word])
    BY <1>2, <2>1, <2>2, Appended
  <2>4. Len(cases') = n /\ n \notin DOMAIN cases
    BY <1>2, <2>1, <2>2, Appended
  <2>5. cases'[n] = r /\ \A i \in DOMAIN cases : cases'[i] = cases[i]
    BY <1>2, <2>1, <2>2, Appended
  <2>6. Defaults(cases') = Defaults(cases) \union {n}
    BY <1>2, <2>1, <2>2, Appended
  <2>7. Ordinary(cases') = Ordinary(cases)
    BY <1>2, <2>1, <2>2, Appended
  <2> QED BY <2>1, <2>3, <2>4, <2>5, <2>6, <2>7
<1>5. Defaults(cases) \in SUBSET DOMAIN cases /\ Ordinary(cases) \in SUBSET DOMAIN cases
  BY DEF Defaults, Ordinary
<1>6. GoodCases(type, cases')
  <2>1. \A i \in Ordinary(cases') : cases'[i].caseValue \in ExprValues(type)
    BY <1>2, <1>4, <1>5 DEF GoodCases
  <2>2. \A i \in Defaults(cases') : cases'[i].caseValue = 0
    BY <1>2, <1>4, <1>5 DEF GoodCases
  <2>3. \A i, j \in Ordinary(cases') : cases'[i].caseValue = cases'[j].caseValue => i = j
    BY <1>2, <1>4, <1>5 DEF GoodCases
  <2> QED BY <1>2, <1>4, <2>1, <2>2, <2>3 DEF GoodCases
<1>7. Len(cases') <= MaxCases
  <2>1. Len(cases) \in Nat /\ MaxCases \in Nat
    BY <1>2, CaseAssumption
  <2> QED BY <1>1, <1>4, <2>1
<1>8. errors' \in BOOLEAN
  BY <1>1
<1> QED BY <1>1, <1>2, <1>4, <1>6, <1>7, <1>8 DEF CaseInv

LEMMA CaseInvStep == ~ Warned /\ CaseInv /\ [Next]_vars => CaseInv'
<1> SUFFICES ASSUME ~ Warned, CaseInv, [Next]_vars PROVE CaseInv'
  OBVIOUS
<1>1. CASE \E v \in CaseExprs : AddCase(v)
  BY <1>1, AddCaseKeeps
<1>2. CASE AddDefault
  BY <1>2, AddDefaultKeeps
<1>3. CASE EmitSwitch
  <2>1. /\ ~ errors /\ code' = Emitted(type, cases, Mode(type, cases, forced))
        /\ type' = type /\ forced' = forced /\ cases' = cases /\ errors' = errors
    BY <1>3 DEF EmitSwitch
  <2> QED BY <2>1 DEF CaseInv
<1>4. CASE UNCHANGED vars
  <2>1. type' = type /\ forced' = forced /\ cases' = cases /\ errors' = errors /\ code' = code
    BY <1>4 DEF vars
  <2> QED BY <2>1 DEF CaseInv
<1> QED BY <1>1, <1>2, <1>3, <1>4 DEF Next

LEMMA CaseInvHolds == ASSUME ~ Warned PROVE Spec => []CaseInv
<1>1. CaseInv /\ [Next]_vars => CaseInv'
  BY CaseInvStep
<1> QED BY CaseInvInit, <1>1, PTL DEF Spec

-----------------------------------------------------------------------------
(* What was emitted.                                                       *)

(* The comparisons, the table, or no code at all.                          *)
LEMMA EmittedIs ==
  ASSUME CaseInv, code # NotEmitted
  PROVE  LET mode == Mode(type, cases, forced)
             all == Ordinary(cases)
         IN  /\ GoodCases(type, cases)
             /\ \/ /\ mode = "ifelse" \/ all = {}
                   /\ code.form = "tests" /\ code.tests = Tests(type, cases)
                \/ /\ mode = "jump" /\ all # {} /\ AllBelowZero(type, cases)
                   /\ code.form = "halted"
                \/ /\ mode = "jump" /\ all # {} /\ ~ AllBelowZero(type, cases)
                   /\ code.form = "table"
                   /\ code.min = MinCaseValue(type, cases) /\ code.max = MaxCaseValue(type, cases)
                   /\ code.entries = JumpTableEntries(type, cases).entries
<1> DEFINE mode == Mode(type, cases, forced)
           all == Ordinary(cases)
<1>1. /\ code = Emitted(type, cases, mode) /\ GoodCases(type, cases)
      /\ forced \in {"none", "ifelse", "jump"}
  BY DEF CaseInv
<1>2. CASE mode = "ifelse" \/ all = {}
  <2>1. code = [form |-> "tests", tests |-> Tests(type, cases)]
    BY <1>1, <1>2 DEF Emitted
  <2> QED BY <1>1, <1>2, <2>1
<1>3. CASE ~ (mode = "ifelse" \/ all = {})
  <2>1. mode = "jump" /\ all # {}
    <3>1. mode \in {"ifelse", "jump"}
      BY <1>1 DEF Mode
    <3> QED BY <1>3, <3>1
  <2>2. CASE AllBelowZero(type, cases)
    <3>1. JumpTableEntries(type, cases).halted = TRUE
      BY <1>1, <2>1, <2>2, TableIsRight
    <3>2. code = [form |-> "halted"]
      BY <1>1, <1>3, <3>1 DEF Emitted
    <3> QED BY <1>1, <2>1, <2>2, <3>2
  <2>3. CASE ~ AllBelowZero(type, cases)
    <3>1. JumpTableEntries(type, cases).halted = FALSE
      BY <1>1, <2>1, <2>3, TableIsRight DEF RightTable
    <3>2. code = [form |-> "table", min |-> MinCaseValue(type, cases),
                  max |-> MaxCaseValue(type, cases), entries |-> JumpTableEntries(type, cases).entries]
      BY <1>1, <1>3, <3>1 DEF Emitted
    <3> QED BY <1>1, <2>1, <2>3, <3>2
  <2> QED BY <2>2, <2>3
<1> QED BY <1>2, <1>3

LEMMA CostsInNat ==
  ASSUME NEW t, NEW cs, GoodCases(t, cs), Ordinary(cs) # {}
  PROVE  IfElseCost(t, cs) \in Nat /\ JumpTableCost(t, cs) \in Nat
<1> DEFINE n == Cardinality(Ordinary(cs))
           v == cs[First(t, cs, Ordinary(cs))].caseValue
           w == cs[Last(t, cs, Ordinary(cs))].caseValue
           count == NumTableEntries(v, w)
<1>1. /\ n \in Nat /\ CmpCost(t) \in {2, 4} /\ PromotionCost(t) \in {0, 1}
      /\ IfElseCost(t, cs) = n * (CmpCost(t) + 4) + 3
      /\ JumpTableCost(t, cs) = PromotionCost(t) + 4 + 3 + 6 + 2 * (3 + count)
  BY CostsAre
<1>2. count \in Nat
  <2>1. Ordinary(cs) \in SUBSET DOMAIN cs /\ \A i \in DOMAIN cs : cs[i].caseValue \in Word /\ Num(t, cs, i) \in Int
    BY CaseNumbers
  <2> DEFINE all == Ordinary(cs)
  <2>2. all \in SUBSET DOMAIN cs /\ all # {}
    BY <2>1
  <2>3. v \in Word /\ w \in Word /\ Number(t, v) <= Number(t, w)
    <3> HIDE DEF all
    <3>1. First(t, cs, all) \in all /\ Last(t, cs, all) \in all
          /\ Num(t, cs, First(t, cs, all)) <= Num(t, cs, Last(t, cs, all))
      BY <2>2, FirstIs, LastIs
    <3> QED BY <2>1, <3>1 DEF Num, all
  <2> HIDE DEF v, w
  <2>4. WORD \in Nat
    BY Widths
  <2> QED BY <2>3, <2>4, EntriesCounted
<1> HIDE DEF n, count
<1> QED BY <1>1, <1>2

LEMMA DispatchIsRight == ASSUME CaseInv PROVE DispatchesByValue
<1> SUFFICES ASSUME Done, InMemory, NEW x \in ExprValues(type) PROVE Dispatch(x) = Selected(x)
  BY DEF DispatchesByValue
<1> DEFINE all == Ordinary(cases)
           mode == Mode(type, cases, forced)
<1>0. code # NotEmitted /\ code.form # "halted"
  BY DEF Done
<1>1. GoodCases(type, cases) /\ Len(cases) <= MaxCases /\ forced \in {"none", "ifelse", "jump"} /\ type \in Types
  BY <1>0, EmittedIs DEF CaseInv
<1>2. Selected(x) = Select(cases, x)
  BY DEF Selected, Select, Found
<1>3. CASE code.form = "tests" /\ code.tests = Tests(type, cases)
  <2> DEFINE y == IF type.byte THEN x % BYTE ELSE x
             tests == Tests(type, cases)
  <2>1. DOMAIN tests = all
    BY <1>1, TestsAre
  <2>2. \A i \in all : tests[i] = y <=> cases[i].caseValue = x
    BY <1>1, TestsDispatch
  <2> HIDE DEF tests
  <2>3. {i \in DOMAIN tests : tests[i] = y} = {i \in all : cases[i].caseValue = x}
    BY <2>1, <2>2
  <2>4. DispatchTests(type, cases, tests, x) = Select(cases, x)
    <3>1. DispatchTests(type, cases, tests, x) = Found(cases, {i \in DOMAIN tests : tests[i] = y})
      BY DEF DispatchTests, Found
    <3> HIDE DEF y
    <3> QED BY <2>3, <3>1 DEF Select
  <2>5. Dispatch(x) = DispatchTests(type, cases, tests, x)
    BY <1>3 DEF Dispatch, tests
  <2> QED BY <1>2, <2>4, <2>5
<1>4. CASE /\ mode = "jump" /\ all # {} /\ ~ AllBelowZero(type, cases)
           /\ code.form = "table"
           /\ code.min = MinCaseValue(type, cases) /\ code.max = MaxCaseValue(type, cases)
           /\ code.entries = JumpTableEntries(type, cases).entries
  <2>1. Len(code.entries) <= HalfWord
    BY <1>4 DEF InMemory
  <2>2. x \in Word
    <3>1. CASE type.byte
      BY <1>1, <3>1, LowBytes
    <3>2. CASE ~ type.byte
      BY <3>2 DEF ExprValues
    <3> QED BY <3>1, <3>2
  <2>3. RightEntry(type, cases, Number(type, x), DispatchTable(type, cases, code, x))
    BY <1>1, <1>4, <2>1, <2>2, TableDispatch
  <2>4. Dispatch(x) = DispatchTable(type, cases, code, x)
    BY <1>4 DEF Dispatch
  <2> QED BY <1>1, <1>2, <2>2, <2>3, <2>4, RightIsSelected
<1> QED BY <1>0, <1>3, <1>4, EmittedIs

(* Every value of the expression reaches the case that C selects, in       *)
(* either form, where the address space holds the table.                   *)
THEOREM EveryValueFindsItsCase == ~ Warned => (Spec => []DispatchesByValue)
<1> SUFFICES ASSUME ~ Warned PROVE Spec => []DispatchesByValue
  OBVIOUS
<1>1. CaseInv => DispatchesByValue
  BY DispatchIsRight
<1> QED BY CaseInvHolds, <1>1, PTL

(* The assertion stops the compiler on the switches whose cases are all    *)
(* below the 0 of their default, and on no others.                         *)
THEOREM StopsOnlyBelowZero == ~ Warned => (Spec => []StopsBelowZero)
<1> SUFFICES ASSUME ~ Warned PROVE Spec => []StopsBelowZero
  OBVIOUS
<1>1. CaseInv => StopsBelowZero
  <2> SUFFICES ASSUME CaseInv PROVE StopsBelowZero
    OBVIOUS
  <2>1. CASE code = NotEmitted
    BY <2>1 DEF StopsBelowZero, NotEmitted
  <2>2. CASE code # NotEmitted
    BY <2>2, EmittedIs DEF StopsBelowZero
  <2> QED BY <2>1, <2>2
<1> QED BY CaseInvHolds, <1>1, PTL

-----------------------------------------------------------------------------
(* The form taken is the one that needs less memory.                       *)

LEMMA TestsTake ==
  ASSUME NEW cs, GoodCases(type, cs), Ordinary(cs) # {}, NEW c, c.form = "tests", c.tests = Tests(type, cs)
  PROVE  SizeOf(c) = IfElseCost(type, cs)
<1>1. DOMAIN c.tests = Ordinary(cs)
  BY TestsAre
<1>2. IfElseCost(type, cs) = Cardinality(Ordinary(cs)) * (CmpCost(type) + 4) + 3
  BY CostsAre
<1> QED BY <1>1, <1>2 DEF SizeOf, TestsSize

(* A table has the entries that were counted and those that were not.      *)
LEMMA AllCounted ==
  ASSUME NEW t, NEW cs, GoodCases(t, cs), Ordinary(cs) # {}, ~ AllBelowZero(t, cs)
  PROVE  LET v == cs[First(t, cs, Ordinary(cs))].caseValue
             w == cs[Last(t, cs, Ordinary(cs))].caseValue
         IN  /\ NumTableEntries(v, w) \in Nat /\ Uncounted(t, cs) \in Int
             /\ Len(JumpTableEntries(t, cs).entries) = NumTableEntries(v, w) + Uncounted(t, cs)
<1> DEFINE all == Ordinary(cs)
           first == First(t, cs, all)
           last == Last(t, cs, all)
           v == cs[first].caseValue
           w == cs[last].caseValue
           least == Number(t, v)
           greatest == Number(t, w)
           low == Number(t, MinCaseValue(t, cs))
           high == Number(t, MaxCaseValue(t, cs))
           written == Len(JumpTableEntries(t, cs).entries)
           above == AllAboveZero(t, cs)
<1>1. /\ \A i \in DOMAIN cs : cs[i].caseValue \in Word /\ Num(t, cs, i) \in Int
      /\ all \in SUBSET DOMAIN cs /\ all # {}
  BY CaseNumbers
<1>2. first \in all /\ last \in all /\ Num(t, cs, first) <= Num(t, cs, last)
  <2> HIDE DEF all
  <2> QED BY <1>1, FirstIs, LastIs
<1>3. v \in Word /\ w \in Word /\ least <= greatest /\ least \in Int /\ greatest \in Int
  BY <1>1, <1>2 DEF Num
<1>4. low = (IF above THEN 0 ELSE least) /\ high = greatest /\ written = high - low + 1
  BY TableIsRight DEF RightTable, Num
<1>5. NumTableEntries(v, w) = IF greatest - least + 1 = WORD THEN 0 ELSE greatest - least + 1
  <2> HIDE DEF v, w
  <2> QED BY <1>3, EntriesCounted
<1>6. Uncounted(t, cs) = (IF above THEN least ELSE 0) + (IF greatest - least = WORD - 1 THEN WORD ELSE 0)
  BY DEF Uncounted
<1> DEFINE counted == NumTableEntries(v, w)
           uncounted == Uncounted(t, cs)
<1>7. WORD \in Nat
  BY Widths
<1> HIDE DEF v, w, least, greatest, low, high, written, above, WORD, counted, uncounted
<1>8. counted \in Nat /\ uncounted \in Int /\ written = counted + uncounted
  BY <1>3, <1>4, <1>5, <1>6, <1>7 DEF counted, uncounted
<1> QED BY <1>8 DEF written, counted, uncounted, v, w, first, last

LEMMA ShorterFormIsTaken == CaseInv => TakesLessMemory
<1> DEFINE all == Ordinary(cases)
           mode == Mode(type, cases, forced)
           i == IfElseCost(type, cases)
           j == JumpTableCost(type, cases)
           v == cases[First(type, cases, all)].caseValue
           w == cases[Last(type, cases, all)].caseValue
           other == Emitted(type, cases, IF code.form = "tests" THEN "jump" ELSE "ifelse")
           table == JumpTableEntries(type, cases)
           missed == 2 * Uncounted(type, cases)
           margin == IF forced = "none" THEN 0 ELSE Excess
<1> SUFFICES ASSUME CaseInv, code # NotEmitted, all # {}
             PROVE  /\ code.form = "table" => SizeOf(code) - missed + 6 < SizeOf(other) + margin
                    /\ code.form = "tests" /\ other.form = "table" /\ forced = "none" =>
                         SizeOf(code) <= SizeOf(other) - missed + 6
  BY DEF TakesLessMemory, Done
<1>1. GoodCases(type, cases) /\ forced \in {"none", "ifelse", "jump"}
  BY EmittedIs DEF CaseInv
<1>2. i \in Nat /\ j \in Nat /\ j = PromotionCost(type) + 4 + 3 + 6 + 2 * (3 + NumTableEntries(v, w))
      /\ PromotionCost(type) \in {0, 1}
  BY <1>1, CostsInNat, CostsAre
<1>3. /\ mode = "jump" => j < i + margin
      /\ mode = "ifelse" /\ forced = "none" => i <= j
  BY <1>1, <1>2, ModeIs
(* The table, less what was not counted, costs what was estimated.         *)
<1>4. ASSUME NEW c, c.form = "table", c.entries = table.entries, ~ AllBelowZero(type, cases)
      PROVE  SizeOf(c) - missed + 6 = j /\ SizeOf(c) \in Int /\ missed \in Int
  <2> DEFINE counted == NumTableEntries(v, w)
             uncounted == Uncounted(type, cases)
             written == Len(table.entries)
             promotion == PromotionCost(type)
  <2>1. counted \in Nat /\ uncounted \in Int /\ written = counted + uncounted
    BY <1>1, <1>4, AllCounted
  <2>2. SizeOf(c) = promotion + 4 + 3 + 2 * (3 + written)
    <3> HIDE DEF table
    <3> QED BY <1>4 DEF SizeOf, TableSize
  <2>3. j = promotion + 4 + 3 + 6 + 2 * (3 + counted) /\ promotion \in {0, 1}
    BY <1>2
  <2>4. missed = 2 * uncounted
    OBVIOUS
  <2> HIDE DEF counted, uncounted, written, promotion, j, missed
  <2> QED BY <2>1, <2>2, <2>3, <2>4
<1>5. ASSUME code.form = "table" PROVE SizeOf(code) - missed + 6 < SizeOf(other) + margin
  <2>1. mode = "jump" /\ ~ AllBelowZero(type, cases) /\ code.entries = table.entries
    BY <1>5, EmittedIs
  <2>2. SizeOf(code) - missed + 6 = j
    BY <1>4, <1>5, <2>1
  <2>3. other = [form |-> "tests", tests |-> Tests(type, cases)]
    BY <1>5 DEF Emitted
  <2>4. SizeOf(other) = i
    <3>1. other.form = "tests" /\ other.tests = Tests(type, cases)
      BY <2>3
    <3> HIDE DEF other
    <3> QED BY <1>1, <3>1, TestsTake
  <2> HIDE DEF other, i, j, missed, margin
  <2> QED BY <1>3, <2>1, <2>2, <2>4
<1>6. ASSUME code.form = "tests", other.form = "table", forced = "none"
      PROVE  SizeOf(code) <= SizeOf(other) - missed + 6
  <2>1. mode = "ifelse" /\ code.tests = Tests(type, cases)
    BY <1>6, EmittedIs
  <2>2. SizeOf(code) = i
    BY <1>1, <1>6, <2>1, TestsTake
  <2>3. ~ table.halted /\ other.entries = table.entries
    <3>1. other = IF table.halted THEN [form |-> "halted"]
                  ELSE [form |-> "table", min |-> MinCaseValue(type, cases),
                        max |-> MaxCaseValue(type, cases), entries |-> table.entries]
      BY <1>6 DEF Emitted
    <3> HIDE DEF other, table
    <3>2. ~ table.halted
      BY <1>6, <3>1
    <3> QED BY <3>1, <3>2
  <2>4. ~ AllBelowZero(type, cases)
    BY <1>1, <2>3, TableIsRight
  <2>5. SizeOf(other) - missed + 6 = j
    <3> HIDE DEF other, table, missed, j
    <3> QED BY <1>4, <1>6, <2>3, <2>4
  <2> HIDE DEF other, i, j, missed
  <2> QED BY <1>3, <1>6, <2>1, <2>2, <2>5
<1> QED BY <1>5, <1>6

(* The form taken is the shorter one, up to the share of the routine and   *)
(* the entries that are not counted; a form that was asked for costs less  *)
(* than Excess more.                                                       *)
THEOREM ShorterFormTaken == ~ Warned => (Spec => []TakesLessMemory)
<1> SUFFICES ASSUME ~ Warned PROVE Spec => []TakesLessMemory
  OBVIOUS
<1> QED BY CaseInvHolds, ShorterFormIsTaken, PTL
=============================================================================
