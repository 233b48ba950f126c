----------------------------- MODULE FrameLayout ------------------------------
(***************************************************************************)
(* Where the parameters and the local variables of every function are in   *)
(* its stack frame: FunctionDef::declareFormalParams() counts up from the  *)
(* return address, Scope::allocateLocalVariables() counts down from the    *)
(* saved frame pointer and gives the same bytes to the blocks that are not *)
(* inside one another.                                                     *)
(*                                                                         *)
(* Scopes are numbered as ScopeCreator makes them: the scope of a function,*)
(* then those of its blocks in the order of the text.  A displacement is a *)
(* number of 16 bits: FrameLimit stands for 2^15.                          *)
(*                                                                         *)
(* An extern variable, which allocateLocalVariables() passes over, changes *)
(* nothing here and is not among the variables.  An argument of an         *)
(* undefined structure, which is an error, has a size of 0.                *)
(***************************************************************************)
EXTENDS Integers, SequencesExt, FiniteSetsExt

CONSTANTS
  Scopes,        \* how many there are
  Parent,        \* the scope around each one, 0 around that of a function
  Around,        \* all the scopes around each one
  Declared,      \* the variables of each one, in order
  HiddenOnStack, \* the functions that find the address of what they return there
  FrameLimit

Scope == 1 .. Scopes
UInt16 == 2 * FrameLimit

(* getVariableSizeInBytes(); the dimensions are multiplied in 16 bits.     *)
TrueSize(d) == FoldLeft(LAMBDA p, q : p * q, d.element, d.dims)
VariableSize(d) == TrueSize(d) % UInt16
HasSize(d) == (\A j \in DOMAIN d.dims : d.dims[j] # 0) /\ VariableSize(d) < FrameLimit

Variables == UNION {{<<s, i>> : i \in DOMAIN Declared[s]} : s \in Scope}
DeclarationOf(v) == Declared[v[1]][v[2]]
SizeOfVariable(v) == VariableSize(DeclarationOf(v))

ASSUME ScopesAssumption ==
  /\ Scopes \in Nat \ {0}
  /\ Parent \in [Scope -> 0 .. Scopes - 1]
  /\ \A s \in Scope : Parent[s] < s
  /\ Around \in [Scope -> SUBSET Scope]
  /\ \A s \in Scope :
       Around[s] = IF Parent[s] = 0 THEN {} ELSE {Parent[s]} \union Around[Parent[s]]

ASSUME DeclaredAssumption ==
  /\ \A s \in Scope : Len(Declared[s]) \in Nat /\ DOMAIN Declared[s] = 1 .. Len(Declared[s])
  /\ \A v \in Variables :
       /\ DeclarationOf(v).param \in BOOLEAN
       /\ DeclarationOf(v).param => Parent[v[1]] = 0
       /\ SizeOfVariable(v) \in Nat
  /\ HiddenOnStack \subseteq Scope

ASSUME LimitAssumption == FrameLimit \in Nat /\ FrameLimit > 8

VARIABLES
  phase,         \* "declare", then "allocate", then "done"
  scope, item,   \* the variable that is next
  displacement,  \* of the last one
  bottom,        \* the displacement below the variables of each scope
  place,         \* the displacements given
  wrapped        \* one of them did not fit 16 bits, or a size did not

frameVars == <<phase, scope, item, displacement, bottom, place, wrapped>>

(* FIRST_FUNC_PARAM_FRAME_DISPLACEMENT: above the saved U and the return   *)
(* address; then the hidden parameter, the address of what is returned.    *)
FirstParam == 4
FirstParamOf(s) == IF s \in HiddenOnStack THEN FirstParam + 2 ELSE FirstParam

(* int16_t *)
Int16(n) == ((n + FrameLimit) % UInt16) - FrameLimit
Fits(n) == n \in - FrameLimit .. FrameLimit - 1

FrameInit ==
  /\ phase = "declare"
  /\ scope = 1
  /\ item = 1
  /\ displacement = FirstParamOf(1)
  /\ bottom = [s \in Scope |-> 0]
  /\ place = [v \in {} |-> 0]
  /\ wrapped = FALSE

Placed(v, at) == [w \in DOMAIN place \union {v} |-> IF w = v THEN at ELSE place[w]]
Overflows(d, n) == ~ Fits(n) \/ VariableSize(d) # TrueSize(d)

(* The step of declareFormalParams() for one parameter: a byte takes the   *)
(* low half of a word.                                                     *)
DeclareParam ==
  /\ phase = "declare"
  /\ item \in DOMAIN Declared[scope]
  /\ LET d == Declared[scope][item]
         at == IF VariableSize(d) = 1 THEN displacement + 1 ELSE displacement
     IN  IF ~ d.param THEN UNCHANGED <<displacement, place, wrapped>>
         ELSE /\ place' = Placed(<<scope, item>>, Int16(at))
              /\ displacement' = Int16(at + VariableSize(d))
              /\ wrapped' = (wrapped \/ Overflows(d, at + VariableSize(d)))
  /\ item' = item + 1
  /\ UNCHANGED <<phase, scope, bottom>>

DeclareNext ==
  /\ phase = "declare"
  /\ item > Len(Declared[scope])
  /\ IF scope < Scopes
       THEN /\ scope' = scope + 1
            /\ item' = 1
            /\ displacement' = FirstParamOf(scope + 1)
            /\ phase' = phase
       ELSE /\ scope' = 1
            /\ item' = Len(Declared[1])
            /\ displacement' = 0
            /\ phase' = "allocate"
  /\ UNCHANGED <<bottom, place, wrapped>>

(* Mutant: the parameters are not told from the variables. *)
IsLocal_any(d) == HasSize(d)

(* The declarations that allocateLocalVariables() does not pass over. *)
IsLocal(d) == ~ d.param /\ HasSize(d)

AllocateVariable ==
  /\ phase = "allocate"
  /\ item \in DOMAIN Declared[scope]
  /\ LET d == Declared[scope][item]
         at == displacement - VariableSize(d)
     IN  IF ~ IsLocal(d)
           THEN /\ wrapped' = (wrapped \/ (~ d.param /\ VariableSize(d) # TrueSize(d)))
                /\ UNCHANGED <<displacement, place>>
           ELSE /\ displacement' = Int16(at)
                /\ place' = Placed(<<scope, item>>, Int16(at))
                /\ wrapped' = (wrapped \/ Overflows(d, at))
  /\ item' = item - 1
  /\ UNCHANGED <<phase, scope, bottom>>

(* Mutant: a block inside a block starts where the function's own          *)
(* variables end.                                                          *)
Above_function(s, b) == IF Parent[s] = 0 THEN 0 ELSE b[Min(Around[s])]

(* The displacement from which a scope counts down. *)
Above(s, b) == IF Parent[s] = 0 THEN 0 ELSE b[Parent[s]]

AllocateNext ==
  /\ phase = "allocate"
  /\ item = 0
  /\ LET b == [bottom EXCEPT ![scope] = displacement]
     IN  /\ bottom' = b
         /\ IF scope < Scopes
              THEN /\ scope' = scope + 1
                   /\ item' = Len(Declared[scope + 1])
                   /\ displacement' = Above(scope + 1, b)
                   /\ phase' = phase
              ELSE /\ phase' = "done"
                   /\ UNCHANGED <<scope, item, displacement>>
  /\ UNCHANGED <<place, wrapped>>

FrameNext == DeclareParam \/ DeclareNext \/ AllocateVariable \/ AllocateNext

FrameSpec == FrameInit /\ [][FrameNext]_frameVars

-----------------------------------------------------------------------------
ScopesIn(f) == {f} \union {s \in Scope : f \in Around[s]}

(* What a function reserves below the frame pointer. *)
MinDisplacement(f) == Min({bottom[s] : s \in ScopesIn(f)})

(* The variables that can be in use at the same time as v: those of its    *)
(* block and of the blocks around it.                                      *)
InUseWith(v) ==
  {w \in UNION {{<<s, i>> : i \in DOMAIN Declared[s]} : s \in {v[1]} \union Around[v[1]]} : w # v /\ w \in DOMAIN place}

Apart(v, w) ==
  place[v] + SizeOfVariable(v) <= place[w] \/ place[w] + SizeOfVariable(w) <= place[v]

(* No byte of the frame belongs to two variables that are in use at the    *)
(* same time, whatever blocks the function has and whichever were visited  *)
(* before, unless the frame has more bytes than 16 bits can count.         *)
LiveVariablesApart ==
  ~ wrapped =>
    \A v \in DOMAIN place : \A w \in InUseWith(v) : Apart(v, w)

(* The saved frame pointer and the return address, at 0 to 3, are no       *)
(* variable's, nor is the address of what is returned.                     *)
LinkageKept ==
  ~ wrapped =>
    \A v \in DOMAIN place :
      IF DeclarationOf(v).param THEN place[v] >= FirstParamOf(v[1])
      ELSE place[v] + SizeOfVariable(v) <= 0
===============================================================================
