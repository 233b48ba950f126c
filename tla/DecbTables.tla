----------------------------- MODULE DecbTables -----------------------------
(***************************************************************************)
(* The tables of a Disk Extended Color Basic diskette, as the two programs *)
(* of this repository that handle them see them: writecocofile on the host *)
(* (CoCoDisk) and the disk.c library on the target (DiskReader).           *)
(*                                                                         *)
(* The file allocation table names, for each granule, the granule that     *)
(* follows it in its file, or says that it is the last one of its file and *)
(* how many of its sectors are used, or that it is free.                   *)
(***************************************************************************)
EXTENDS Integers, FiniteSets, Sequences

CONSTANTS
  NumGranules,        (* MAX_GRANULES, 68 on a 35-track diskette           *)
  SectorsPerGranule,  (* SECTORS_PER_GRANULE, 9                            *)
  BytesPerSector      (* BYTES_PER_SECTOR, 256                             *)

BASE_LAST      == 192   \* 0xC0: last granule of a file, plus its sector count
FREE_FAT_ENTRY == 255

ASSUME SizesAssumption ==
  /\ NumGranules       \in 1 .. BASE_LAST - 1
  /\ SectorsPerGranule \in 1 .. 9
  /\ BytesPerSector    \in Nat \ {0}

Granules        == 0 .. NumGranules - 1
BytesPerGranule == SectorsPerGranule * BytesPerSector
LastMarks       == BASE_LAST .. BASE_LAST + SectorsPerGranule
FatValues       == Granules \union LastMarks \union {FREE_FAT_ENTRY}

-----------------------------------------------------------------------------
(* Sizes.                                                                  *)

SizeInGranules(len) ==
  IF len = 0 THEN 1 ELSE (len + BytesPerGranule - 1) \div BytesPerGranule

(* Mutant: a full last sector counts no byte.                              *)
BytesInLastSector_mod(len) == len % BytesPerSector

BytesInLastSector(len) ==
  IF len > 0 /\ len % BytesPerSector = 0 THEN BytesPerSector ELSE len % BytesPerSector

SectorsInLastGranule(len) ==
  LET rest == IF len > 0 /\ len % BytesPerGranule = 0
                THEN BytesPerGranule ELSE len % BytesPerGranule
  IN  (rest + BytesPerSector - 1) \div BytesPerSector

-----------------------------------------------------------------------------
(* The file allocation table.                                              *)

(* A set of granules that contains the successors of its members.          *)
Closed(f, S) == \A g \in S : f[g] \in Granules => f[g] \in S

(* The granules met by following the table from first: the least closed    *)
(* set that holds it.  (Stated without recursion, so that it can be        *)
(* reasoned about; Walk below is the loop itself.)                         *)
Chain(f, first) ==
  {g \in Granules : \A S \in SUBSET Granules : first \in S /\ Closed(f, S) => g \in S}

(* The granules of the file that starts at first, in file order: a set of  *)
(* one sequence, or of none when the chain does not end.                   *)
FileGranules(f, first) ==
  {s \in UNION {[1 .. n -> Granules] : n \in 1 .. NumGranules} :
     /\ s[1] = first
     /\ \A i \in 1 .. Len(s) - 1 : f[s[i]] = s[i + 1]
     /\ f[s[Len(s)]] \in LastMarks}

(* Mutant: a granule is recorded only when it has a successor.             *)
Walk_lastMissed(f, first) ==
  LET w[n \in 0 .. NumGranules - 1] ==
        IF n = 0 THEN <<first>>
        ELSE LET met  == w[n - 1]
                 next == f[met[Len(met)]]
             IN  IF next \in Granules /\ f[next] \in Granules THEN Append(met, next) ELSE met
  IN  w[NumGranules - 1]

(* The loop of getGranuleList() and extractFile(), cut after NumGranules   *)
(* rounds.                                                                 *)
Walk(f, first) ==
  LET w[n \in 0 .. NumGranules - 1] ==
        IF n = 0 THEN <<first>>
        ELSE LET met  == w[n - 1]
                 next == f[met[Len(met)]]
             IN  IF next \in Granules THEN Append(met, next) ELSE met
  IN  w[NumGranules - 1]

(* Mutant: a granule already used by a file may be handed out again.       *)
Allocations_reuse(f, n) ==
  {s \in [1 .. n -> Granules] : \A i, j \in 1 .. n : i < j => s[i] < s[j]}

(* allocateGranules(): the n lowest free granules in increasing order.     *)
(* A set of one sequence, or of none when there are not enough of them.    *)
Allocations(f, n) ==
  {s \in [1 .. n -> Granules] :
     /\ \A i \in 1 .. n : f[s[i]] = FREE_FAT_ENTRY
     /\ \A i, j \in 1 .. n : i < j => s[i] < s[j]
     /\ \A g \in Granules : f[g] = FREE_FAT_ENTRY /\ g < s[n] => \E i \in 1 .. n : s[i] = g}

(* Mutant: only the first granule of the file is freed.                    *)
Freed_first(f, first) == [f EXCEPT ![first] = FREE_FAT_ENTRY]

(* The loop of killFile() on the table.                                    *)
Freed(f, first) ==
  LET chain == Chain(f, first)
  IN  [g \in Granules |-> IF g \in chain THEN FREE_FAT_ENTRY ELSE f[g]]

(* Mutant: the last granule is not marked.                                 *)
Linked_unmarked(f, s, n, sectors) ==
  [g \in Granules |->
     IF \E i \in 1 .. n - 1 : s[i] = g
       THEN s[(CHOOSE i \in 1 .. n - 1 : s[i] = g) + 1] ELSE f[g]]

Linked(f, s, n, sectors) ==
  [g \in Granules |->
     IF g = s[n] THEN BASE_LAST + sectors
     ELSE IF \E i \in 1 .. n - 1 : s[i] = g
            THEN s[(CHOOSE i \in 1 .. n - 1 : s[i] = g) + 1]
            ELSE f[g]]
=============================================================================
