-------------------------- MODULE FrameLayoutProofs --------------------------
(***************************************************************************)
(* Proofs about FrameLayout: for every tree of scopes and every list of    *)
(* variables in each of them, two variables in use at the same time share  *)
(* no byte of the frame, and none lies on the saved frame pointer or on    *)
(* the return address.                                                     *)
(*                                                                         *)
(* Neither is inductive: nothing in them says where a block starts.        *)
(* FrameInv adds what allocateLocalVariables() maintains: the variables of *)
(* a block lie between its bottom and that of the block around it, which   *)
(* is below the bottom of every block further out.                         *)
(***************************************************************************)
EXTENDS FrameLayout, TLAPS

-----------------------------------------------------------------------------
(* Sizes and displacements.                                                *)

LEMMA Limits == FrameLimit \in Nat /\ FrameLimit > 8 /\ UInt16 = 2 * FrameLimit
BY LimitAssumption DEF UInt16

LEMMA SmallRemainder ==
  ASSUME NEW a \in Nat, NEW n \in Nat, a < n
  PROVE  a % n = a
OBVIOUS

(* int16_t holds what fits it, and always holds a number.                  *)
LEMMA Int16Fits ==
  ASSUME NEW n \in Int, Fits(n)
  PROVE  Int16(n) = n
<1> DEFINE a == n + FrameLimit
<1>1. a \in Nat /\ a < UInt16 /\ UInt16 \in Nat
  BY Limits DEF Fits
<1>2. a % UInt16 = a
  <2> HIDE DEF a
  <2> QED BY <1>1, SmallRemainder
<1> QED BY <1>2, Limits DEF Int16

LEMMA Int16Type ==
  ASSUME NEW n \in Int
  PROVE  Int16(n) \in Int
<1> DEFINE a == n + FrameLimit
<1>1. a \in Int /\ UInt16 \in Nat \ {0}
  BY Limits
<1>2. a % UInt16 \in Int
  <2> HIDE DEF a
  <2> QED BY <1>1
<1> QED BY <1>2, Limits DEF Int16

(* The variable at an index of a scope.                                    *)
LEMMA VariableAt ==
  ASSUME NEW s \in Scope, NEW i \in DOMAIN Declared[s]
  PROVE  /\ <<s, i>> \in Variables
         /\ DeclarationOf(<<s, i>>) = Declared[s][i]
         /\ SizeOfVariable(<<s, i>>) = VariableSize(Declared[s][i])
         /\ VariableSize(Declared[s][i]) \in Nat
         /\ Declared[s][i].param \in BOOLEAN
         /\ Declared[s][i].param => Parent[s] = 0
         /\ i \in 1 .. Len(Declared[s])
<1>1. <<s, i>> \in Variables
  BY DEF Variables
<1>2. DeclarationOf(<<s, i>>) = Declared[s][i]
  BY DEF DeclarationOf
<1> QED BY <1>1, <1>2, DeclaredAssumption DEF SizeOfVariable

LEMMA VariableParts ==
  ASSUME NEW v \in Variables
  PROVE  /\ v[1] \in Scope
         /\ v[2] \in DOMAIN Declared[v[1]]
         /\ v[2] \in 1 .. Len(Declared[v[1]])
         /\ v = <<v[1], v[2]>>
         /\ SizeOfVariable(v) \in Nat
         /\ DeclarationOf(v).param \in BOOLEAN
         /\ DeclarationOf(v).param => Parent[v[1]] = 0
BY DeclaredAssumption DEF Variables

-----------------------------------------------------------------------------
(* The inductive invariant.                                                *)

IsParam(v) == DeclarationOf(v).param
End(v) == place[v] + SizeOfVariable(v)

(* The scopes whose variables have all been placed.                        *)
LaidOut(s) == phase = "done" \/ (phase = "allocate" /\ s < scope)

FrameTypes ==
  /\ phase \in {"declare", "allocate", "done"}
  /\ scope \in Scope
  /\ item \in Int
  /\ phase = "declare" => item \in 1 .. Len(Declared[scope]) + 1
  /\ phase # "declare" => item \in 0 .. Len(Declared[scope])
  /\ phase = "done" => (scope = Scopes /\ item = 0)
  /\ displacement \in Int
  /\ bottom \in [Scope -> Int]
  /\ DOMAIN place \subseteq Variables
  /\ \A v \in DOMAIN place : place[v] \in Int
  /\ wrapped \in BOOLEAN

(* Which variables have a place by now.                                    *)
PlacedSoFar ==
  \A v \in DOMAIN place :
    IF phase = "declare"
      THEN IsParam(v) /\ (v[1] < scope \/ (v[1] = scope /\ v[2] < item))
      ELSE IsParam(v) \/ v[1] < scope \/ (v[1] = scope /\ v[2] > item)

(* The scopes around one come before it.                                   *)
AroundBefore ==
  \A s \in Scope : (phase # "declare" \/ s <= scope) => \A a \in Around[s] : a \in Scope /\ a < s

(* Parameters go up from the linkage.                                      *)
ParamsAscend ==
  /\ \A v \in DOMAIN place : IsParam(v) => place[v] >= FirstParamOf(v[1])
  /\ \A v, w \in DOMAIN place :
       (IsParam(v) /\ IsParam(w) /\ v[1] = w[1] /\ v[2] < w[2]) => End(v) <= place[w]
  /\ phase = "declare" =>
       /\ displacement >= FirstParamOf(scope)
       /\ \A v \in DOMAIN place : v[1] = scope => End(v) <= displacement

(* Local variables go down from the bottom of the block around.            *)
LocalsDescend ==
  /\ \A v \in DOMAIN place : ~ IsParam(v) => End(v) <= Above(v[1], bottom)
  /\ \A v, w \in DOMAIN place :
       (~ IsParam(v) /\ ~ IsParam(w) /\ v[1] = w[1] /\ v[2] < w[2]) => End(v) <= place[w]
  /\ \A v \in DOMAIN place : (~ IsParam(v) /\ LaidOut(v[1])) => bottom[v[1]] <= place[v]
  /\ phase = "allocate" =>
       /\ displacement <= Above(scope, bottom)
       /\ \A v \in DOMAIN place : (~ IsParam(v) /\ v[1] = scope) => displacement <= place[v]

(* Blocks nest.                                                            *)
BottomsNest ==
  \A s \in Scope : LaidOut(s) => (bottom[s] <= 0 /\ \A a \in Around[s] : bottom[s] <= bottom[a])

FrameInv ==
  /\ FrameTypes
  /\ PlacedSoFar
  /\ AroundBefore
  /\ ~ wrapped => (ParamsAscend /\ LocalsDescend /\ BottomsNest)

LEMMA FirstParams == \A s \in Scope : FirstParamOf(s) \in Nat /\ FirstParamOf(s) >= 4
BY DEF FirstParamOf, FirstParam

(* What a step that places a variable does to the function place.          *)
LEMMA PlacedValue ==
  ASSUME NEW v, NEW at, place' = Placed(v, at)
  PROVE  /\ DOMAIN place' = DOMAIN place \union {v}
         /\ place'[v] = at
         /\ \A w \in DOMAIN place : w # v => place'[w] = place[w]
BY DEF Placed

(* The block around a scope has been laid out when its turn comes.         *)
LEMMA AboveNests ==
  ASSUME FrameTypes, AroundBefore, BottomsNest, phase # "declare",
         NEW s \in Scope, s <= scope
  PROVE  /\ Above(s, bottom) \in Int
         /\ Above(s, bottom) <= 0
         /\ \A a \in Around[s] : Above(s, bottom) <= bottom[a]
<1>1. CASE Parent[s] = 0
  BY <1>1, ScopesAssumption DEF Above
<1>2. CASE Parent[s] # 0
  <2>1. Parent[s] \in Scope /\ Parent[s] < s
    BY <1>2, ScopesAssumption DEF Scope
  <2>2. LaidOut(Parent[s])
    BY <2>1 DEF LaidOut, FrameTypes, Scope
  <2>3. /\ bottom[Parent[s]] \in Int
        /\ bottom[Parent[s]] <= 0
        /\ \A a \in Around[Parent[s]] : bottom[Parent[s]] <= bottom[a]
    BY <2>1, <2>2 DEF BottomsNest, FrameTypes
  <2>4. Around[s] = {Parent[s]} \union Around[Parent[s]]
    BY <1>2, ScopesAssumption
  <2> QED BY <1>2, <2>3, <2>4 DEF Above
<1> QED BY <1>1, <1>2

LEMMA FrameInitInv == FrameInit => FrameInv
<1> SUFFICES ASSUME FrameInit PROVE FrameInv
  OBVIOUS
<1>1. 1 \in Scope /\ Len(Declared[1]) \in Nat
  BY ScopesAssumption, DeclaredAssumption DEF Scope
<1>2. DOMAIN place = {}
  BY DEF FrameInit
<1>3. FrameTypes
  <2>1. displacement \in Int
    BY <1>1, FirstParams DEF FrameInit
  <2>2. bottom \in [Scope -> Int]
    BY DEF FrameInit
  <2>3. phase = "declare" /\ scope = 1 /\ item = 1
    BY DEF FrameInit
  <2>4. wrapped \in BOOLEAN
    BY Zenon DEF FrameInit
  <2> QED BY <1>1, <1>2, <2>1, <2>2, <2>3, <2>4 DEF FrameTypes
<1>4. PlacedSoFar
  BY <1>2 DEF PlacedSoFar
<1>5. AroundBefore
  <2>1. Parent[1] = 0
    BY <1>1, ScopesAssumption DEF Scope
  <2>2. Around[1] = {}
    BY <1>1, <2>1, ScopesAssumption
  <2> QED BY <2>2 DEF AroundBefore, FrameInit, Scope
<1>6. ParamsAscend
  BY <1>1, <1>2, FirstParams DEF ParamsAscend, FrameInit
<1>7. LocalsDescend
  BY <1>2 DEF LocalsDescend, FrameInit
<1>8. BottomsNest
  BY DEF BottomsNest, LaidOut, FrameInit
<1> QED BY <1>3, <1>4, <1>5, <1>6, <1>7, <1>8 DEF FrameInv

-----------------------------------------------------------------------------
(* declareFormalParams()                                                   *)

LEMMA DeclareParamKeeps ==
  ASSUME FrameInv, DeclareParam
  PROVE  FrameInv'
<1> DEFINE d == Declared[scope][item]
           at == IF VariableSize(d) = 1 THEN displacement + 1 ELSE displacement
<1>0. PICK v : v = <<scope, item>>
  OBVIOUS
<1>1. /\ phase = "declare" /\ phase' = phase
      /\ scope \in Scope /\ scope' = scope
      /\ item \in DOMAIN Declared[scope] /\ item \in Int /\ item' = item + 1
      /\ bottom' = bottom
      /\ displacement \in Int
  BY DEF FrameInv, FrameTypes, DeclareParam
<1>2. /\ v \in Variables /\ v[1] = scope /\ v[2] = item
      /\ DeclarationOf(v) = d /\ SizeOfVariable(v) = VariableSize(d)
      /\ VariableSize(d) \in Nat /\ d.param \in BOOLEAN
      /\ item \in 1 .. Len(Declared[scope])
  BY <1>0, <1>1, VariableAt
<1>3. at \in Int /\ displacement <= at
  BY <1>1, <1>2
<1>4. AroundBefore'
  BY <1>1 DEF FrameInv, AroundBefore
<1>5. BottomsNest'
  BY <1>1 DEF BottomsNest, LaidOut
<1>6. CASE ~ d.param
  <2>1. displacement' = displacement /\ place' = place /\ wrapped' = wrapped
    BY <1>6 DEF DeclareParam
  <2>2. FrameTypes'
    BY <1>1, <1>2, <2>1 DEF FrameInv, FrameTypes
  <2>3. PlacedSoFar'
    BY <1>1, <2>1, VariableParts DEF FrameInv, FrameTypes, PlacedSoFar, IsParam
  <2>4. ASSUME ~ wrapped' PROVE ParamsAscend' /\ LocalsDescend'
    <3>1. ParamsAscend /\ LocalsDescend
      BY <2>1, <2>4 DEF FrameInv
    <3>2. ParamsAscend'
      BY <1>1, <2>1, <3>1 DEF ParamsAscend, IsParam, End
    <3>3. LocalsDescend'
      BY <1>1, <2>1, <3>1 DEF LocalsDescend, IsParam, End, LaidOut, Above
    <3> QED BY <3>2, <3>3
  <2> QED BY <1>4, <1>5, <2>2, <2>3, <2>4 DEF FrameInv
<1>7. CASE d.param
  <2>1. /\ place' = Placed(v, Int16(at))
        /\ displacement' = Int16(at + VariableSize(d))
        /\ wrapped' = (wrapped \/ Overflows(d, at + VariableSize(d)))
    BY <1>0, <1>7 DEF DeclareParam
  <2> HIDE DEF at, d
  <2>2. /\ DOMAIN place' = DOMAIN place \union {v}
        /\ place'[v] = Int16(at)
        /\ \A w \in DOMAIN place : w # v => place'[w] = place[w]
    BY <2>1, PlacedValue
  <2>3. v \notin DOMAIN place
    BY <1>1, <1>2, ScopesAssumption DEF FrameInv, PlacedSoFar, Scope
  <2>4. FrameTypes'
    <3>1. Int16(at) \in Int /\ displacement' \in Int
      BY <1>2, <1>3, <2>1, Int16Type
    <3>2. DOMAIN place' \subseteq Variables /\ \A w \in DOMAIN place' : place'[w] \in Int
      BY <1>2, <2>2, <3>1 DEF FrameInv, FrameTypes
    <3>3. wrapped' \in BOOLEAN
      BY <2>1 DEF FrameInv, FrameTypes
    <3> QED BY <1>1, <1>2, <3>1, <3>2, <3>3 DEF FrameInv, FrameTypes
  <2>5. IsParam(v)
    BY <1>2, <1>7 DEF IsParam, d
  <2>6. PlacedSoFar'
    <3>1. \A w \in DOMAIN place' : IsParam(w) /\ (w[1] < scope \/ (w[1] = scope /\ w[2] < item + 1))
      BY <1>1, <1>2, <2>2, <2>5, VariableParts DEF FrameInv, FrameTypes, PlacedSoFar
    <3> QED BY <1>1, <3>1 DEF PlacedSoFar, IsParam
  <2>7. ASSUME ~ wrapped' PROVE ParamsAscend' /\ LocalsDescend'
    <3>1. ParamsAscend /\ LocalsDescend /\ Fits(at + VariableSize(d))
      BY <2>1, <2>7 DEF FrameInv, Overflows
    <3>2. displacement >= FirstParamOf(scope) /\ FirstParamOf(scope) \in Nat
      BY <1>1, <3>1, FirstParams DEF ParamsAscend
    <3>3. Fits(at)
      BY <1>1, <1>2, <1>3, <3>1, <3>2, Limits DEF Fits
    <3>4. place'[v] = at /\ displacement' = at + VariableSize(d)
      BY <1>2, <1>3, <2>1, <2>2, <3>1, <3>3, Int16Fits
    <3>5. \A w \in DOMAIN place : /\ End(w)' = End(w) /\ place'[w] = place[w]
                                  /\ End(w) \in Int /\ place[w] \in Int /\ SizeOfVariable(w) \in Nat
      BY <2>2, <2>3, VariableParts DEF End, FrameInv, FrameTypes
    <3>6. End(v)' = displacement'
      BY <1>2, <3>4 DEF End
    <3>7. \A w \in DOMAIN place : /\ IsParam(w) /\ place[w] >= FirstParamOf(w[1])
                                  /\ w[1] = scope => (End(w) <= displacement /\ w[2] < item)
                                  /\ w[1] \in Scope /\ w[2] \in Int
      BY <1>1, <3>1, VariableParts DEF ParamsAscend, FrameInv, FrameTypes, PlacedSoFar, Scope
    <3>8. \A w \in DOMAIN place' : IsParam(w) => place'[w] >= FirstParamOf(w[1])
      BY <1>1, <1>2, <1>3, <2>2, <3>2, <3>4, <3>5, <3>7
    <3>9. \A w, x \in DOMAIN place' :
            (IsParam(w) /\ IsParam(x) /\ w[1] = x[1] /\ w[2] < x[2]) => End(w)' <= place'[x]
      <4> TAKE w, x \in DOMAIN place'
      <4> HAVE IsParam(w) /\ IsParam(x) /\ w[1] = x[1] /\ w[2] < x[2]
      <4>1. CASE w \in DOMAIN place /\ x \in DOMAIN place
        BY <4>1, <3>1, <3>5 DEF ParamsAscend
      <4>2. CASE w = v
        BY <4>2, <1>1, <1>2, <2>2, <3>7
      <4>3. CASE w \in DOMAIN place /\ x = v
        BY <4>3, <1>1, <1>2, <1>3, <3>4, <3>5, <3>7
      <4> QED BY <2>2, <4>1, <4>2, <4>3
    <3>10. displacement' >= FirstParamOf(scope) /\ \A w \in DOMAIN place' : w[1] = scope => End(w)' <= displacement'
      BY <1>1, <1>2, <1>3, <2>2, <3>2, <3>4, <3>5, <3>6, <3>7
    <3>11. ParamsAscend'
      BY <1>1, <3>8, <3>9, <3>10 DEF ParamsAscend, IsParam
    <3>12. LocalsDescend'
      BY <1>1, <2>2, <2>5, <3>7 DEF LocalsDescend, IsParam
    <3> QED BY <3>11, <3>12
  <2> QED BY <1>4, <1>5, <2>4, <2>6, <2>7 DEF FrameInv
<1> QED BY <1>2, <1>6, <1>7

LEMMA DeclareNextKeeps ==
  ASSUME FrameInv, DeclareNext
  PROVE  FrameInv'
<1>1. /\ phase = "declare"
      /\ scope \in Scope /\ item = Len(Declared[scope]) + 1 /\ Len(Declared[scope]) \in Nat
      /\ bottom' = bottom /\ place' = place /\ wrapped' = wrapped
      /\ Scopes \in Nat \ {0}
  BY ScopesAssumption, DeclaredAssumption DEF FrameInv, FrameTypes, DeclareNext
<1>2. \A v \in DOMAIN place : v[1] \in Scope /\ v[2] \in 1 .. Len(Declared[v[1]]) /\ IsParam(v) /\ v[1] <= scope
  <2> SUFFICES ASSUME NEW v \in DOMAIN place
               PROVE  v[1] \in Scope /\ v[2] \in 1 .. Len(Declared[v[1]]) /\ IsParam(v) /\ v[1] <= scope
    OBVIOUS
  <2>1. v \in Variables
    BY DEF FrameInv, FrameTypes
  <2>2. v[1] \in Scope /\ v[2] \in 1 .. Len(Declared[v[1]])
    BY <2>1, VariableParts
  <2>3. IsParam(v) /\ (v[1] < scope \/ v[1] = scope)
    BY <1>1 DEF FrameInv, PlacedSoFar
  <2> QED BY <1>1, <2>2, <2>3 DEF Scope
<1>3. CASE scope < Scopes
  <2>1. /\ scope' = scope + 1 /\ item' = 1 /\ phase' = "declare"
        /\ displacement' = FirstParamOf(scope')
        /\ scope' \in Scope
    BY <1>1, <1>3 DEF DeclareNext, Scope
  <2>2. FirstParamOf(scope') \in Nat
    BY <2>1, FirstParams
  <2>3. FrameTypes'
    BY <1>1, <2>1, <2>2, DeclaredAssumption DEF FrameInv, FrameTypes
  <2>4. PlacedSoFar'
    BY <1>1, <1>2, <2>1 DEF PlacedSoFar, IsParam, Scope
  <2>5. AroundBefore'
    <3>1. Parent[scope + 1] \in 0 .. scope
      BY <1>1, <2>1, ScopesAssumption DEF Scope
    <3>2. \A a \in Around[scope + 1] : a \in Scope /\ a < scope + 1
      <4>1. CASE Parent[scope + 1] = 0
        BY <4>1, <2>1, ScopesAssumption
      <4>2. CASE Parent[scope + 1] # 0
        <5>1. Parent[scope + 1] \in Scope /\ Parent[scope + 1] <= scope
          BY <3>1, <4>2, <1>1 DEF Scope
        <5>2. \A a \in Around[Parent[scope + 1]] : a \in Scope /\ a < Parent[scope + 1]
          BY <5>1, <1>1 DEF FrameInv, AroundBefore
        <5>3. Around[scope + 1] = {Parent[scope + 1]} \union Around[Parent[scope + 1]]
          BY <4>2, <2>1, ScopesAssumption
        <5> QED BY <5>1, <5>2, <5>3, <1>1 DEF Scope
      <4> QED BY <4>1, <4>2
    <3> QED BY <1>1, <2>1, <3>2 DEF FrameInv, AroundBefore, Scope
  <2>6. ASSUME ~ wrapped' PROVE ParamsAscend' /\ LocalsDescend' /\ BottomsNest'
    <3>1. ParamsAscend /\ LocalsDescend
      BY <1>1, <2>6 DEF FrameInv
    <3>2. \A v \in DOMAIN place : v[1] # scope'
      BY <1>1, <1>2, <2>1 DEF Scope
    <3>3. ParamsAscend'
      BY <1>1, <2>1, <2>2, <3>1, <3>2 DEF ParamsAscend, IsParam, End
    <3>4. LocalsDescend'
      BY <1>1, <1>2, <2>1 DEF LocalsDescend, IsParam
    <3>5. BottomsNest'
      BY <2>1 DEF BottomsNest, LaidOut
    <3> QED BY <3>3, <3>4, <3>5
  <2> QED BY <2>3, <2>4, <2>5, <2>6 DEF FrameInv
<1>4. CASE ~ (scope < Scopes)
  <2>1. /\ scope' = 1 /\ item' = Len(Declared[1]) /\ phase' = "allocate"
        /\ displacement' = 0
        /\ scope = Scopes /\ 1 \in Scope
    BY <1>1, <1>4 DEF DeclareNext, Scope
  <2>2. FrameTypes'
    BY <1>1, <2>1, DeclaredAssumption DEF FrameInv, FrameTypes
  <2>3. PlacedSoFar'
    BY <1>1, <1>2, <2>1 DEF PlacedSoFar, IsParam
  <2>4. AroundBefore'
    BY <1>1, <2>1 DEF FrameInv, AroundBefore, Scope
  <2>5. ASSUME ~ wrapped' PROVE ParamsAscend' /\ LocalsDescend' /\ BottomsNest'
    <3>1. ParamsAscend
      BY <1>1, <2>5 DEF FrameInv
    <3>2. ParamsAscend'
      BY <1>1, <2>1, <3>1 DEF ParamsAscend, IsParam, End
    <3>3. Parent[1] = 0
      BY <2>1, ScopesAssumption DEF Scope
    <3>4. LocalsDescend'
      BY <1>1, <1>2, <2>1, <3>3 DEF LocalsDescend, IsParam, Above
    <3>5. BottomsNest'
      BY <2>1 DEF BottomsNest, LaidOut, Scope
    <3> QED BY <3>2, <3>4, <3>5
  <2> QED BY <2>2, <2>3, <2>4, <2>5 DEF FrameInv
<1> QED BY <1>3, <1>4

-----------------------------------------------------------------------------
(* Scope::allocateLocalVariables()                                         *)

LEMMA AllocateVariableKeeps ==
  ASSUME FrameInv, AllocateVariable
  PROVE  FrameInv'
<1> DEFINE d == Declared[scope][item]
           at == displacement - VariableSize(d)
<1>0. PICK v : v = <<scope, item>>
  OBVIOUS
<1>1. /\ phase = "allocate" /\ phase' = phase
      /\ scope \in Scope /\ scope' = scope
      /\ item \in DOMAIN Declared[scope] /\ item \in Int /\ item' = item - 1
      /\ bottom' = bottom
      /\ displacement \in Int
  BY DEF FrameInv, FrameTypes, AllocateVariable
<1>2. /\ v \in Variables /\ v[1] = scope /\ v[2] = item
      /\ DeclarationOf(v) = d /\ SizeOfVariable(v) = VariableSize(d)
      /\ VariableSize(d) \in Nat /\ d.param \in BOOLEAN
      /\ item \in 1 .. Len(Declared[scope])
  BY <1>0, <1>1, VariableAt
<1>3. at \in Int /\ at <= displacement
  BY <1>1, <1>2
<1>4. AroundBefore'
  BY <1>1 DEF FrameInv, AroundBefore
<1>5. ~ wrapped => BottomsNest'
  BY <1>1 DEF FrameInv, BottomsNest, LaidOut
<1>6. \A w \in DOMAIN place : /\ w[1] \in Scope /\ w[2] \in Int /\ IsParam(w) \in BOOLEAN
                              /\ IsParam(w) \/ w[1] < scope \/ (w[1] = scope /\ w[2] > item)
  BY <1>1, VariableParts DEF FrameInv, FrameTypes, PlacedSoFar, IsParam
<1>7. CASE ~ IsLocal(d)
  <2>1. /\ displacement' = displacement /\ place' = place
        /\ wrapped' = (wrapped \/ (~ d.param /\ VariableSize(d) # TrueSize(d)))
    BY <1>7 DEF AllocateVariable
  <2>2. wrapped' \in BOOLEAN
    BY <2>1 DEF FrameInv, FrameTypes
  <2>3. FrameTypes'
    BY <1>1, <1>2, <2>1, <2>2 DEF FrameInv, FrameTypes
  <2>4. PlacedSoFar'
    BY <1>1, <1>6, <2>1, ScopesAssumption DEF PlacedSoFar, IsParam, Scope
  <2>5. ASSUME ~ wrapped' PROVE ParamsAscend' /\ LocalsDescend' /\ BottomsNest'
    <3>1. ~ wrapped /\ ParamsAscend /\ LocalsDescend
      BY <2>1, <2>5 DEF FrameInv
    <3>2. ParamsAscend'
      BY <1>1, <2>1, <3>1 DEF ParamsAscend, IsParam, End
    <3>3. LocalsDescend'
      BY <1>1, <2>1, <3>1 DEF LocalsDescend, IsParam, End, LaidOut, Above
    <3> QED BY <1>5, <3>1, <3>2, <3>3
  <2> QED BY <1>4, <2>3, <2>4, <2>5 DEF FrameInv
<1>8. CASE IsLocal(d)
  <2>1. /\ place' = Placed(v, Int16(at))
        /\ displacement' = Int16(at)
        /\ wrapped' = (wrapped \/ Overflows(d, at))
        /\ ~ d.param
    BY <1>0, <1>8 DEF AllocateVariable, IsLocal
  <2> HIDE DEF at, d
  <2>2. /\ DOMAIN place' = DOMAIN place \union {v}
        /\ place'[v] = Int16(at)
        /\ \A w \in DOMAIN place : w # v => place'[w] = place[w]
    BY <2>1, PlacedValue
  <2>3. ~ IsParam(v)
    BY <1>2, <2>1 DEF IsParam
  <2>4. v \notin DOMAIN place
    <3>1. SUFFICES ASSUME v \in DOMAIN place PROVE FALSE
      OBVIOUS
    <3>2. v[1] < scope \/ (v[1] = scope /\ v[2] > item)
      BY <1>6, <2>3, <3>1
    <3> QED BY <1>1, <1>2, <3>2, ScopesAssumption DEF Scope
  <2>5. FrameTypes'
    <3>1. Int16(at) \in Int /\ displacement' \in Int
      BY <1>3, <2>1, Int16Type
    <3>2. DOMAIN place' \subseteq Variables /\ \A w \in DOMAIN place' : place'[w] \in Int
      BY <1>2, <2>2, <3>1 DEF FrameInv, FrameTypes
    <3>3. wrapped' \in BOOLEAN
      BY <2>1 DEF FrameInv, FrameTypes
    <3> QED BY <1>1, <1>2, <3>1, <3>2, <3>3 DEF FrameInv, FrameTypes
  <2>6. PlacedSoFar'
    <3>1. \A w \in DOMAIN place' : IsParam(w) \/ w[1] < scope \/ (w[1] = scope /\ w[2] > item - 1)
      BY <1>1, <1>2, <1>6, <2>2
    <3> QED BY <1>1, <3>1 DEF PlacedSoFar, IsParam
  <2>7. ASSUME ~ wrapped' PROVE ParamsAscend' /\ LocalsDescend' /\ BottomsNest'
    <3>1. ~ wrapped /\ ParamsAscend /\ LocalsDescend /\ BottomsNest /\ Fits(at)
      BY <2>1, <2>7 DEF FrameInv, Overflows
    <3>2. place'[v] = at /\ displacement' = at /\ End(v)' = displacement
      <4>1. place'[v] = at /\ displacement' = at
        BY <1>3, <2>1, <2>2, <3>1, Int16Fits
      <4> QED BY <1>1, <1>2, <4>1 DEF End, at
    <3>3. \A w \in DOMAIN place : /\ End(w)' = End(w) /\ place'[w] = place[w]
                                  /\ End(w) \in Int /\ place[w] \in Int /\ SizeOfVariable(w) \in Nat
      BY <2>2, <2>4, VariableParts DEF End, FrameInv, FrameTypes
    <3>4. Above(scope, bottom) \in Int /\ displacement <= Above(scope, bottom)
      BY <1>1, <3>1, ScopesAssumption, AboveNests DEF LocalsDescend, FrameInv, FrameTypes, Scope
    <3>5. \A w \in DOMAIN place : (~ IsParam(w) /\ w[1] = scope) => (displacement <= place[w] /\ w[2] > item)
      BY <1>1, <1>6, <3>1, ScopesAssumption DEF LocalsDescend, Scope
    <3>6. ParamsAscend'
      BY <1>1, <2>2, <2>3, <3>1, <3>3 DEF ParamsAscend, IsParam
    <3>7. \A w \in DOMAIN place' : ~ IsParam(w) => End(w)' <= Above(w[1], bottom)
      BY <1>1, <1>2, <2>2, <3>1, <3>2, <3>3, <3>4 DEF LocalsDescend
    <3>8. \A w, x \in DOMAIN place' :
            (~ IsParam(w) /\ ~ IsParam(x) /\ w[1] = x[1] /\ w[2] < x[2]) => End(w)' <= place'[x]
      <4> TAKE w, x \in DOMAIN place'
      <4> HAVE ~ IsParam(w) /\ ~ IsParam(x) /\ w[1] = x[1] /\ w[2] < x[2]
      <4>1. CASE w \in DOMAIN place /\ x \in DOMAIN place
        BY <4>1, <3>1, <3>3 DEF LocalsDescend
      <4>2. CASE w = v /\ x \in DOMAIN place
        BY <4>2, <1>2, <3>2, <3>3, <3>5
      <4>3. CASE x = v
        BY <4>3, <1>1, <1>2, <2>2, <3>5, <1>6
      <4> QED BY <2>2, <4>1, <4>2, <4>3
    <3>9. \A w \in DOMAIN place' : (~ IsParam(w) /\ LaidOut(w[1])) => bottom[w[1]] <= place'[w]
      BY <1>1, <1>2, <2>2, <3>1, <3>3, ScopesAssumption DEF LocalsDescend, LaidOut, Scope
    <3>10. /\ displacement' <= Above(scope, bottom)
           /\ \A w \in DOMAIN place' : (~ IsParam(w) /\ w[1] = scope) => displacement' <= place'[w]
      BY <1>1, <1>3, <2>2, <3>2, <3>3, <3>4, <3>5
    <3>11. LocalsDescend'
      BY <1>1, <3>7, <3>8, <3>9, <3>10 DEF LocalsDescend, IsParam, LaidOut, Above
    <3> QED BY <1>5, <3>1, <3>6, <3>11
  <2> QED BY <1>4, <2>5, <2>6, <2>7 DEF FrameInv
<1> QED BY <1>7, <1>8

LEMMA AllocateNextKeeps ==
  ASSUME FrameInv, AllocateNext
  PROVE  FrameInv'
<1>1. /\ phase = "allocate" /\ item = 0
      /\ scope \in Scope /\ displacement \in Int
      /\ bottom \in [Scope -> Int] /\ bottom' = [bottom EXCEPT ![scope] = displacement]
      /\ place' = place /\ wrapped' = wrapped
      /\ Scopes \in Nat \ {0}
  BY ScopesAssumption DEF FrameInv, FrameTypes, AllocateNext
<1>2. /\ bottom' \in [Scope -> Int] /\ bottom'[scope] = displacement
      /\ \A s \in Scope : s # scope => bottom'[s] = bottom[s]
  BY <1>1
<1>3. \A w \in DOMAIN place : /\ w \in Variables /\ w[1] \in Scope /\ w[2] \in 1 .. Len(Declared[w[1]])
                              /\ IsParam(w) \in BOOLEAN
                              /\ IsParam(w) \/ w[1] <= scope
  BY <1>1, VariableParts DEF FrameInv, FrameTypes, PlacedSoFar, IsParam, Scope
<1>4. /\ phase' = IF scope < Scopes THEN "allocate" ELSE "done"
      /\ scope' = IF scope < Scopes THEN scope + 1 ELSE scope
      /\ item' = IF scope < Scopes THEN Len(Declared[scope + 1]) ELSE 0
      /\ displacement' = IF scope < Scopes THEN Above(scope + 1, bottom') ELSE displacement
      /\ scope' \in Scope
  BY <1>1 DEF AllocateNext, Scope
<1>5. \A s \in Scope : LaidOut(s)' => (s = scope \/ (s < scope /\ LaidOut(s)))
  BY <1>1, <1>4 DEF LaidOut, Scope
(* Nothing around a scope that is being laid out changes its bottom.       *)
<1>6. \A s \in Scope : s <= scope => (Above(s, bottom') = Above(s, bottom) /\ Above(s, bottom) \in Int)
  BY <1>1, <1>2, ScopesAssumption DEF Above, Scope
<1>7. Above(scope', bottom') \in Int
  BY <1>2, <1>4, ScopesAssumption DEF Above, Scope
<1>8. FrameTypes'
  <2>1. scope' \in Scope /\ item' \in 0 .. Len(Declared[scope']) /\ item' \in Int
    <3>1. Len(Declared[scope']) \in Nat
      BY <1>4, DeclaredAssumption
    <3> QED BY <1>4, <3>1
  <2>2. displacement' \in Int
    BY <1>1, <1>4, <1>7
  <2>3. wrapped' \in BOOLEAN /\ DOMAIN place' \subseteq Variables /\ \A v \in DOMAIN place' : place'[v] \in Int
    BY <1>1 DEF FrameInv, FrameTypes
  <2>4. phase' \in {"allocate", "done"} /\ (phase' = "done" => scope' = Scopes /\ item' = 0)
    BY <1>1, <1>4 DEF Scope
  <2> QED BY <1>2, <2>1, <2>2, <2>3, <2>4 DEF FrameTypes
<1>9. PlacedSoFar'
  <2>1. \A w \in DOMAIN place : IsParam(w) \/ w[1] < scope' \/ (w[1] = scope' /\ w[2] > item')
    <3>1. CASE scope < Scopes
      BY <1>1, <1>3, <1>4, <3>1 DEF Scope
    <3>2. CASE ~ (scope < Scopes)
      BY <1>1, <1>3, <1>4, <3>2 DEF Scope
    <3> QED BY <3>1, <3>2
  <2>2. phase' # "declare"
    BY <1>4
  <2> QED BY <1>1, <2>1, <2>2 DEF PlacedSoFar, IsParam
<1>10. AroundBefore'
  BY <1>1, <1>4 DEF FrameInv, AroundBefore
<1>11. ASSUME ~ wrapped' PROVE ParamsAscend' /\ LocalsDescend' /\ BottomsNest'
  <2>1. ParamsAscend /\ LocalsDescend /\ BottomsNest
    BY <1>1, <1>11 DEF FrameInv
  <2>2. ParamsAscend'
    BY <1>1, <1>4, <2>1 DEF ParamsAscend, IsParam, End
  <2>3. BottomsNest'
    <3>1. /\ displacement <= Above(scope, bottom) /\ Above(scope, bottom) \in Int
          /\ Above(scope, bottom) <= 0
          /\ \A a \in Around[scope] : Above(scope, bottom) <= bottom[a]
      BY <1>1, <2>1, AboveNests DEF LocalsDescend, FrameInv, Scope
    <3>2. \A s \in Scope : \A a \in Around[s] : a \in Scope /\ a < s
      BY <1>1 DEF FrameInv, AroundBefore
    <3>3. \A s \in Scope : bottom[s] \in Int
      BY <1>1
    <3>4. ASSUME NEW s \in Scope, LaidOut(s)'
          PROVE  bottom'[s] <= 0 /\ \A a \in Around[s] : bottom'[s] <= bottom'[a]
      <4>1. CASE s = scope
        BY <4>1, <1>1, <1>2, <3>1, <3>2, <3>3 DEF Scope
      <4>2. CASE s < scope /\ LaidOut(s)
        BY <4>2, <1>2, <2>1, <3>2 DEF BottomsNest, Scope
      <4> QED BY <1>5, <3>4, <4>1, <4>2
    <3> QED BY <3>4 DEF BottomsNest
  <2>4. LocalsDescend'
    <3>1. \A w \in DOMAIN place : ~ IsParam(w) => End(w) <= Above(w[1], bottom')
      BY <1>3, <1>6, <2>1 DEF LocalsDescend
    <3>2. \A w \in DOMAIN place : (~ IsParam(w) /\ LaidOut(w[1])') => bottom'[w[1]] <= place[w]
      <4> TAKE w \in DOMAIN place
      <4> HAVE ~ IsParam(w) /\ LaidOut(w[1])'
      <4>1. CASE w[1] = scope
        BY <4>1, <1>1, <1>2, <2>1 DEF LocalsDescend
      <4>2. CASE w[1] < scope /\ LaidOut(w[1])
        BY <4>2, <1>1, <1>2, <1>3, <2>1 DEF LocalsDescend, Scope
      <4> QED BY <1>3, <1>5, <4>1, <4>2
    <3>3. phase' = "allocate" =>
            /\ displacement' <= Above(scope', bottom')
            /\ \A w \in DOMAIN place : (~ IsParam(w) /\ w[1] = scope') => displacement' <= place[w]
      BY <1>1, <1>3, <1>4, <1>7 DEF Scope
    <3>4. \A w \in DOMAIN place : place'[w] = place[w] /\ End(w)' = End(w)
      BY <1>1 DEF End
    <3>5. \A v, w \in DOMAIN place :
            (~ IsParam(v) /\ ~ IsParam(w) /\ v[1] = w[1] /\ v[2] < w[2]) => End(v) <= place[w]
      BY <2>1 DEF LocalsDescend
    <3> QED BY <1>1, <3>1, <3>2, <3>3, <3>4, <3>5 DEF LocalsDescend, IsParam, LaidOut, Above
  <2> QED BY <2>2, <2>3, <2>4
<1> QED BY <1>8, <1>9, <1>10, <1>11 DEF FrameInv

-----------------------------------------------------------------------------
(* The theorems.                                                           *)

THEOREM FrameInvariant == FrameSpec => []FrameInv
<1>1. FrameInv /\ [FrameNext]_frameVars => FrameInv'
  <2> SUFFICES ASSUME FrameInv, [FrameNext]_frameVars PROVE FrameInv'
    OBVIOUS
  <2>1. CASE DeclareParam
    BY <2>1, DeclareParamKeeps
  <2>2. CASE DeclareNext
    BY <2>2, DeclareNextKeeps
  <2>3. CASE AllocateVariable
    BY <2>3, AllocateVariableKeeps
  <2>4. CASE AllocateNext
    BY <2>4, AllocateNextKeeps
  <2>5. CASE UNCHANGED frameVars
    BY <2>5 DEF frameVars, FrameInv, FrameTypes, PlacedSoFar, AroundBefore, ParamsAscend, LocalsDescend,
                BottomsNest, IsParam, End, LaidOut, Above
  <2> QED BY <2>1, <2>2, <2>3, <2>4, <2>5 DEF FrameNext
<1> QED BY <1>1, FrameInitInv, PTL DEF FrameSpec

(* A variable in use with another is in its scope or in one around it.     *)
LEMMA Sharing ==
  ASSUME NEW v, NEW w \in InUseWith(v), FrameTypes
  PROVE  w \in DOMAIN place /\ w # v /\ (w[1] = v[1] \/ w[1] \in Around[v[1]])
BY DEF InUseWith

LEMMA FrameInvApart == FrameInv => LiveVariablesApart
<1> SUFFICES ASSUME FrameInv, ~ wrapped,
                    NEW v \in DOMAIN place, NEW w \in InUseWith(v)
             PROVE  Apart(v, w)
  BY DEF LiveVariablesApart
<1>1. ParamsAscend /\ LocalsDescend /\ BottomsNest /\ FrameTypes /\ AroundBefore /\ PlacedSoFar
  BY DEF FrameInv
<1>2. w \in DOMAIN place /\ w # v /\ (w[1] = v[1] \/ w[1] \in Around[v[1]])
  BY <1>1, Sharing
<1>3. \A x \in {v, w} : /\ x[1] \in Scope /\ x[2] \in Int /\ x = <<x[1], x[2]>>
                        /\ place[x] \in Int /\ SizeOfVariable(x) \in Nat /\ End(x) \in Int
                        /\ IsParam(x) \in BOOLEAN /\ (IsParam(x) => Parent[x[1]] = 0)
  <2> SUFFICES ASSUME NEW x \in {v, w}
               PROVE  /\ x[1] \in Scope /\ x[2] \in Int /\ x = <<x[1], x[2]>>
                      /\ place[x] \in Int /\ SizeOfVariable(x) \in Nat /\ End(x) \in Int
                      /\ IsParam(x) \in BOOLEAN /\ (IsParam(x) => Parent[x[1]] = 0)
    OBVIOUS
  <2>1. x \in Variables /\ place[x] \in Int
    BY <1>1, <1>2 DEF FrameTypes
  <2>2. /\ x[1] \in Scope /\ x[2] \in Int /\ x = <<x[1], x[2]>> /\ SizeOfVariable(x) \in Nat
        /\ IsParam(x) \in BOOLEAN /\ (IsParam(x) => Parent[x[1]] = 0)
    BY <2>1, VariableParts DEF IsParam
  <2> QED BY <2>1, <2>2 DEF End
<1>4. ASSUME NEW x \in {v, w}, ~ IsParam(x)
      PROVE  /\ phase # "declare" /\ x[1] <= scope
             /\ End(x) <= Above(x[1], bottom) /\ Above(x[1], bottom) \in Int /\ Above(x[1], bottom) <= 0
             /\ \A a \in Around[x[1]] : Above(x[1], bottom) <= bottom[a]
  <2>1. phase # "declare" /\ x[1] <= scope
    <3>1. x \in DOMAIN place /\ x[1] \in Scope /\ scope \in Scope
      BY <1>1, <1>2, <1>3, <1>4 DEF FrameTypes
    <3>2. phase # "declare" /\ (x[1] < scope \/ x[1] = scope)
      BY <1>1, <1>4, <3>1 DEF PlacedSoFar
    <3> QED BY <3>1, <3>2, ScopesAssumption DEF Scope
  <2> QED BY <1>1, <1>2, <1>3, <1>4, <2>1, AboveNests DEF LocalsDescend
<1>5. ASSUME NEW x \in {v, w}, IsParam(x)
      PROVE  place[x] >= 4 /\ Around[x[1]] = {}
  BY <1>1, <1>2, <1>3, <1>5, FirstParams, ScopesAssumption DEF ParamsAscend
<1>6. CASE IsParam(v) /\ IsParam(w)
  <2>1. v[1] = w[1] /\ v[2] # w[2]
    BY <1>2, <1>3, <1>5, <1>6
  <2>2. End(v) <= place[w] \/ End(w) <= place[v]
    BY <1>1, <1>2, <1>3, <1>6, <2>1 DEF ParamsAscend
  <2> QED BY <2>2 DEF Apart, End
<1>7. CASE IsParam(v) /\ ~ IsParam(w)
  BY <1>3, <1>4, <1>5, <1>7 DEF Apart, End
<1>8. CASE ~ IsParam(v) /\ IsParam(w)
  BY <1>3, <1>4, <1>5, <1>8 DEF Apart, End
<1>9. CASE ~ IsParam(v) /\ ~ IsParam(w)
  <2>1. CASE w[1] = v[1]
    <3>1. v[2] # w[2]
      BY <1>2, <1>3, <2>1
    <3>2. End(v) <= place[w] \/ End(w) <= place[v]
      BY <1>1, <1>2, <1>3, <1>9, <2>1, <3>1 DEF LocalsDescend
    <3> QED BY <3>2 DEF Apart, End
  <2>2. CASE w[1] \in Around[v[1]]
    <3>1. w[1] < v[1] /\ v[1] <= scope /\ phase # "declare"
      BY <1>1, <1>3, <1>4, <1>9, <2>2 DEF AroundBefore
    <3>2. LaidOut(w[1])
      BY <1>1, <1>3, <3>1 DEF LaidOut, FrameTypes, Scope
    <3>3. bottom[w[1]] <= place[w] /\ bottom[w[1]] \in Int
      BY <1>1, <1>2, <1>3, <1>9, <3>2 DEF LocalsDescend, FrameTypes
    <3>4. End(v) <= Above(v[1], bottom) /\ Above(v[1], bottom) <= bottom[w[1]] /\ Above(v[1], bottom) \in Int
      BY <1>4, <1>9, <2>2
    <3>5. End(v) <= place[w]
      BY <1>3, <3>3, <3>4
    <3> QED BY <3>5 DEF Apart, End
  <2> QED BY <1>2, <2>1, <2>2
<1> QED BY <1>3, <1>6, <1>7, <1>8, <1>9

(* No byte of the frame belongs to two variables in use at the same time   *)
(* (FunctionDef::declareFormalParams(), Scope::allocateLocalVariables()).  *)
THEOREM VariablesApart == FrameSpec => []LiveVariablesApart
BY FrameInvariant, FrameInvApart, PTL

(* No variable lies on the linkage of its function: on the saved frame     *)
(* pointer, the return address and the address of what it returns.         *)
THEOREM LinkageUntouched == FrameSpec => []LinkageKept
<1>1. FrameInv => LinkageKept
  <2> SUFFICES ASSUME FrameInv, ~ wrapped, NEW v \in DOMAIN place
               PROVE  IF DeclarationOf(v).param THEN place[v] >= FirstParamOf(v[1])
                      ELSE place[v] + SizeOfVariable(v) <= 0
    BY DEF LinkageKept
  <2>1. ParamsAscend /\ LocalsDescend /\ BottomsNest /\ FrameTypes /\ AroundBefore /\ PlacedSoFar
    BY DEF FrameInv
  <2>2. v[1] \in Scope /\ place[v] \in Int /\ SizeOfVariable(v) \in Nat /\ DeclarationOf(v).param \in BOOLEAN
    BY <2>1, VariableParts DEF FrameTypes
  <2>3. CASE DeclarationOf(v).param
    BY <2>1, <2>3 DEF ParamsAscend, IsParam
  <2>4. CASE ~ DeclarationOf(v).param
    <3>1. phase # "declare" /\ v[1] <= scope
      BY <2>1, <2>2, <2>4 DEF PlacedSoFar, FrameTypes, Scope, IsParam
    <3>2. Above(v[1], bottom) \in Int /\ Above(v[1], bottom) <= 0
      BY <2>1, <2>2, <3>1, AboveNests
    <3> QED BY <2>1, <2>2, <2>4, <3>2 DEF LocalsDescend, IsParam, End
  <2> QED BY <2>2, <2>3, <2>4
<1> QED BY <1>1, FrameInvariant, PTL
===============================================================================
