----------------------------- MODULE DiskReader -----------------------------
(***************************************************************************)
(* disk.c: the target-side library that reads the files of a Disk Extended *)
(* Color Basic diskette through DSKCON, sector by sector.                  *)
(*                                                                         *)
(* A program has one descriptor here, and the drives hold diskettes that   *)
(* do not change, each with one file, laid out by the table that           *)
(* writecocofile makes (DecbTables).  A sector is named by its place       *)
(* <<drive, granule, sector>>, a byte by its sector and offset.            *)
(*                                                                         *)
(* Every call is one step, except read(), whose loop takes one step per    *)
(* round.  The program makes the calls that it likes in any order: what    *)
(* it has done to the descriptor that the library cannot cope with is      *)
(* noted in the history variable amiss.                                    *)
(***************************************************************************)
EXTENDS DecbTables

CONSTANTS
  Drives,       (* numbers given to setDefaultDriveNo()                    *)
  Layouts,      (* the files that a diskette may hold: records with fields *)
                (* granules (a sequence) and length                        *)
  Requests,     (* byte counts asked of read()                             *)
  Targets,      (* positions asked of seek()                               *)
  Flaws,        (* what the diskettes may be like: sets of sectors whose   *)
                (* reading may fail, "data" sectors and the "fat"          *)
  OffsetLimit   (* no read() starts beyond this position, which a failing  *)
                (* table lets grow: an offset has 32 bits                  *)

ASSUME ReaderAssumption ==
  /\ 0 \in Drives /\ Drives \subseteq 0 .. 3
  /\ Requests \subseteq Nat \ {0}
  /\ Targets \subseteq Nat
  /\ Flaws \subseteq SUBSET {"data", "fat"}
  /\ OffsetLimit \in Nat

(* The files are as writecocofile lays them out: as many granules as the   *)
(* length calls for, none of them twice.                                   *)
ASSUME LayoutsAssumption ==
  \A l \in Layouts :
    /\ l.length \in Nat
    /\ l.granules \in Seq(Granules)
    /\ Len(l.granules) = SizeInGranules(l.length)
    /\ \A i, j \in 1 .. Len(l.granules) : l.granules[i] = l.granules[j] => i = j

EOF == 255       \* value of curGran at the end of the file

VARIABLES
  disks,         \* what is in each drive: the table and the only file
  curDriveNo, fatBuffer, fatUpToDate,
  fd,            \* the struct FileDesc; its curSector is <<>> while
                 \* availBytes is 0, when nothing reads it
  left, got,     \* the read() in progress, or the last call if it was one:
                 \* bytes still to deliver, delivered
  stuck,         \* "no", "assert" (a failed assertion halts the program) or
                 \* "bounds" (a byte outside of the FAT buffer was read)
  amiss          \* why the descriptor need not tell the truth: the file was
                 \* "opened" with the table of another diskette; its last
                 \* move was made with such a "table", or without one; it is
                 \* at the "end" of a file whose last sector is full

vars == <<disks, curDriveNo, fatBuffer, fatUpToDate, fd, left, got, stuck, amiss>>

-----------------------------------------------------------------------------
(* The diskettes.                                                          *)

FreeFat == [g \in Granules |-> FREE_FAT_ENTRY]

Diskette(l, flaws) ==
  [flaws     |-> flaws,
   fat       |-> Linked(FreeFat, l.granules, Len(l.granules), SectorsInLastGranule(l.length)),
   lastBytes |-> BytesInLastSector(l.length),
   length    |-> l.length,
   granules  |-> l.granules]

(* The byte at offset p of the file in drive d.                            *)
ByteAt(d, p) ==
  LET q == p % BytesPerGranule
  IN  <<d, disks[d].granules[p \div BytesPerGranule + 1],
        q \div BytesPerSector + 1, q % BytesPerSector>>

FileBytes(d) == [p \in 1 .. disks[d].length |-> ByteAt(d, p - 1)]

-----------------------------------------------------------------------------
(* The table.                                                              *)

(* Nothing in the library tells whose table is in memory.                  *)
IsTableOf(f, d) == f = disks[d].fat

(* The outcomes of updateFAT() when the state of the buffer is as given.   *)
UpdatedFAT(buffer, upToDate) ==
  IF upToDate THEN {[ok |-> TRUE, fat |-> buffer]}
  ELSE {[ok |-> TRUE, fat |-> disks[curDriveNo].fat]}
         \union (IF "fat" \in disks[curDriveNo].flaws THEN {[ok |-> FALSE, fat |-> buffer]} ELSE {})

(* The loop of computeFileLength() leaves the table when it meets an entry *)
(* of exactly $C0, which is what writecocofile writes for an empty file.   *)
LeavesTable(f, first) == \E g \in Chain(f, first) : f[g] = BASE_LAST

ComputedLength(f, first, lastBytes) ==
  LET last == CHOOSE g \in Chain(f, first) : f[g] > BASE_LAST
  IN  (Cardinality(Chain(f, first)) - 1) * BytesPerGranule
        + (f[last] - (BASE_LAST + 1)) * BytesPerSector + lastBytes

-----------------------------------------------------------------------------
(* Opening.                                                                *)

NotOpen ==
  [isOpen |-> FALSE, drive |-> 0, firstGran |-> 0, lastBytes |-> 0, length |-> 0,
   curGran |-> 0, curSec |-> 1, offset |-> 0, secOffset |-> 0,
   curSector |-> <<>>, availBytes |-> 0]

Init ==
  /\ disks \in [Drives -> {Diskette(l, w) : l \in Layouts, w \in Flaws}]
  /\ curDriveNo = 0
  /\ fatBuffer = FreeFat      \* not read before it is filled
  /\ fatUpToDate = FALSE
  /\ fd = NotOpen
  /\ left = 0
  /\ got = <<>>
  /\ stuck = "no"
  /\ amiss = {}

Idle == left = 0 /\ stuck = "no"

SetDefaultDriveNo(d) ==
  /\ Idle
  /\ curDriveNo' = d
  /\ UNCHANGED <<disks, fatBuffer, fatUpToDate, fd, left, got, stuck, amiss>>

(* The program resets fatUpToDate, as the comment of updateFAT() lets it.  *)
ForgetFAT ==
  /\ Idle
  /\ fatUpToDate' = FALSE
  /\ UNCHANGED <<disks, curDriveNo, fatBuffer, fd, left, got, stuck, amiss>>

(* What rewind() does once it has the table.                               *)
Rewound(d) ==
  [d EXCEPT !.curGran = d.firstGran, !.curSec = 1,
            !.offset = 0, !.secOffset = 0, !.availBytes = 0, !.curSector = <<>>]

Opened(f) ==
  LET disk  == disks[curDriveNo]
      first == disk.granules[1]
  IN  Rewound([fd EXCEPT !.isOpen = TRUE, !.drive = curDriveNo, !.firstGran = first,
                         !.lastBytes = disk.lastBytes,
                         !.length = ComputedLength(f, first, disk.lastBytes)])

(* openfile() of the name that the directory has.  (The search of the      *)
(* directory itself changes nothing, and nothing happens when it fails.)   *)
OpenFile ==
  /\ Idle
  /\ \E r \in UpdatedFAT(fatBuffer, fatUpToDate) :
       /\ fatBuffer' = r.fat
       /\ fatUpToDate' = r.ok
       /\ IF ~ r.ok THEN UNCHANGED <<fd, got, stuck, amiss>>
          ELSE IF LeavesTable(r.fat, disks[curDriveNo].granules[1])
                 THEN stuck' = "bounds" /\ UNCHANGED <<fd, got, amiss>>
          ELSE /\ fd' = Opened(r.fat)
               /\ got' = <<>>
               /\ amiss' = IF IsTableOf(r.fat, curDriveNo) THEN {} ELSE {"opened"}
               /\ UNCHANGED stuck
  /\ UNCHANGED <<disks, curDriveNo, left>>

Rewind ==
  /\ Idle /\ fd.isOpen
  /\ \E r \in UpdatedFAT(fatBuffer, fatUpToDate) :
       /\ fatBuffer' = r.fat
       /\ fatUpToDate' = r.ok
       /\ IF r.ok THEN fd' = Rewound(fd) /\ amiss' = amiss \intersect {"opened"}
                  ELSE UNCHANGED <<fd, amiss>>
  /\ got' = <<>>
  /\ UNCHANGED <<disks, curDriveNo, left, stuck>>

-----------------------------------------------------------------------------
(* seek().                                                                 *)

(* Mutant: the last step is not taken.                                     *)
Follow_near(f, first, n) ==
  LET w[k \in 0 .. n] ==
        IF k < 2 THEN first
        ELSE LET g == w[k - 1] IN IF g \in Granules THEN f[g] ELSE g
  IN  w[n]

(* The entry reached from first by n steps through the table.  Taking a    *)
(* step from a value that is not a granule fails an assertion, and so does *)
(* ending on one.                                                          *)
Follow(f, first, n) ==
  LET w[k \in 0 .. n] ==
        IF k = 0 THEN first
        ELSE LET g == w[k - 1] IN IF g \in Granules THEN f[g] ELSE g
  IN  w[n]

(* Mutant: the offset in the sector stays that of the old position.        *)
Sought_staleOffset(d, gran, pos) ==
  [d EXCEPT !.curGran    = gran,
            !.curSec     = (pos % BytesPerGranule) \div BytesPerSector + 1,
            !.availBytes = 0,
            !.curSector  = <<>>,
            !.offset     = pos]

(* The descriptor once the granule of the new position is known.           *)
Sought(d, gran, pos) ==
  [d EXCEPT !.curGran    = gran,
            !.curSec     = (pos % BytesPerGranule) \div BytesPerSector + 1,
            !.secOffset  = (pos % BytesPerGranule) % BytesPerSector,
            !.availBytes = 0,
            !.curSector  = <<>>,
            !.offset     = pos]

FullEnd(pos) == pos = fd.length /\ fd.length % BytesPerSector = 0

Seek(newPos) ==
  /\ Idle /\ fd.isOpen
  /\ LET pos  == IF newPos > fd.length THEN fd.length ELSE newPos
         jump == pos \div BytesPerGranule
     IN  \E r \in UpdatedFAT(fatBuffer, fatUpToDate) :
           /\ fatBuffer' = r.fat
           /\ fatUpToDate' = r.ok
           /\ LET gran == Follow(r.fat, fd.firstGran, jump)
              IN  IF ~ r.ok THEN UNCHANGED <<fd, stuck, amiss>>
                  ELSE /\ amiss' = (amiss \intersect {"opened"})
                                     \union (IF IsTableOf(r.fat, fd.drive) THEN {} ELSE {"table"})
                                     \union (IF FullEnd(pos) THEN {"end"} ELSE {})
                       /\ IF gran \in Granules
                            THEN fd' = Sought(fd, gran, pos) /\ UNCHANGED stuck
                            ELSE stuck' = "assert" /\ UNCHANGED fd
  /\ got' = <<>>
  /\ UNCHANGED <<disks, curDriveNo, left>>

-----------------------------------------------------------------------------
(* read().                                                                 *)

StartRead(n) ==
  /\ Idle /\ fd.isOpen
  /\ fd.offset <= OffsetLimit
  /\ left' = n
  /\ got' = <<>>
  /\ UNCHANGED <<disks, curDriveNo, fatBuffer, fatUpToDate, fd, stuck, amiss>>

(* The number that getCurrentlyAvailableBytes() finds.                     *)
Available(d) == IF d.availBytes = 0 THEN 0 ELSE d.availBytes - d.secOffset

(* The next n bytes of the sector in memory.                               *)
InSector(d, n) == [k \in 1 .. n |-> d.curSector \o <<d.secOffset + k - 1>>]

(* Mutant: the exhausted sector is not given up.                           *)
Advanced_kept(d, n) ==
  [d EXCEPT !.offset = d.offset + n, !.secOffset = d.secOffset + n]

(* advanceOffset()                                                         *)
Advanced(d, n) ==
  LET used == d.secOffset + n
      done == used >= d.availBytes
  IN  [d EXCEPT !.offset     = d.offset + n,
                !.secOffset  = IF done THEN 0 ELSE used,
                !.availBytes = IF done THEN 0 ELSE d.availBytes,
                !.curSector  = IF done THEN <<>> ELSE d.curSector]

(* Mutant: a granule that points to another is taken to be one sector      *)
(* shorter than it is.                                                     *)
SectorsInUse_short(entry) ==
  IF entry > BASE_LAST THEN entry - BASE_LAST ELSE SectorsPerGranule - 1

SectorsInUse(entry) ==
  IF entry > BASE_LAST THEN entry - BASE_LAST ELSE SectorsPerGranule

(* The descriptor after the sector has been loaded and availBytes set.     *)
Stepped(d, entry) ==
  IF d.curSec < SectorsInUse(entry) THEN [d EXCEPT !.curSec = d.curSec + 1]
  ELSE IF entry > BASE_LAST THEN [d EXCEPT !.curSec = d.curSec + 1, !.curGran = EOF]
  ELSE [d EXCEPT !.curSec = 1, !.curGran = entry]

(* isLastSectorOfFile(), when the table is not in memory and cannot be     *)
(* read, is TRUE "hoping that the caller will stop using the disk".        *)
IsLastSector(d, r) ==
  ~ r.ok \/ (r.fat[d.curGran] > BASE_LAST /\ d.curSec = SectorsInUse(r.fat[d.curGran]))

(* What readDiskSector() finds where curGran and curSec point: when they   *)
(* come from another table, curSec may run into the other granule of the   *)
(* track.  dskcon() refuses what lies beyond the track or the diskette.    *)
SectorsMet(d) ==
  IF d.curGran \notin Granules THEN {}
  ELSE IF d.curSec <= SectorsPerGranule THEN {<<d.drive, d.curGran, d.curSec>>}
  ELSE IF d.curGran % 2 = 0 /\ d.curSec <= 2 * SectorsPerGranule
         THEN {<<d.drive, d.curGran + 1, d.curSec - SectorsPerGranule>>}
  ELSE {}

(* The outcomes of getNextSector().  The table is asked for twice: to know *)
(* whether the sector is the last one, then to move to the next one.       *)
NextSector(d) ==
  LET outcome(ok, e, r, right) ==
        [ok |-> ok, d |-> e, fat |-> r.fat, fresh |-> r.ok, right |-> right]
      unread == [ok |-> FALSE, d |-> d, fat |-> fatBuffer, fresh |-> fatUpToDate, right |-> TRUE]
      loaded(s, r) == [d EXCEPT !.curSector  = s,
                                !.availBytes = IF IsLastSector(d, r)
                                                 THEN d.lastBytes ELSE BytesPerSector]
  IN  (IF SectorsMet(d) = {} \/ "data" \in disks[d.drive].flaws THEN {unread} ELSE {})
        \union UNION {UNION {
          {IF r2.ok
             THEN outcome(TRUE, Stepped(loaded(s, r1), r2.fat[d.curGran]), r2,
                          r1.ok /\ IsTableOf(r2.fat, d.drive))
             ELSE outcome(FALSE, loaded(s, r1), r2, FALSE)
             : r2 \in UpdatedFAT(r1.fat, r1.ok)}
               : r1 \in UpdatedFAT(fatBuffer, fatUpToDate)}
                 : s \in SectorsMet(d)}

(* Mutant: the loop goes on when no sector could be loaded.                *)
LeftAfter_ignored(loaded, n) == left - n

LeftAfter(loaded, n) == IF loaded THEN left - n ELSE 0

(* A round of the loop finds enough in memory to finish the request ...    *)
Finish ==
  /\ left > 0 /\ stuck = "no"
  /\ Available(fd) >= left
  /\ got' = got \o InSector(fd, left)
  /\ fd' = Advanced(fd, left)
  /\ left' = 0
  /\ UNCHANGED <<disks, curDriveNo, fatBuffer, fatUpToDate, stuck, amiss>>

(* ... or delivers what there is and loads the next sector, unless the     *)
(* assertion of getCurrentlyAvailableBytes() fails.                        *)
Continue ==
  /\ left > 0 /\ stuck = "no"
  /\ LET n == Available(fd)
     IN  /\ n < left
         /\ IF n < 0
              THEN /\ stuck' = "assert"
                   /\ UNCHANGED <<fatBuffer, fatUpToDate, fd, left, got, amiss>>
              ELSE /\ got' = got \o InSector(fd, n)
                   /\ \E r \in NextSector(IF n = 0 THEN fd ELSE Advanced(fd, n)) :
                        /\ fd' = r.d
                        /\ fatBuffer' = r.fat
                        /\ fatUpToDate' = r.fresh
                        /\ left' = LeftAfter(r.ok, n)
                        /\ amiss' = IF r.right THEN amiss ELSE amiss \union {"table"}
                   /\ UNCHANGED stuck
  /\ UNCHANGED <<disks, curDriveNo>>

ReadRound == Finish \/ Continue

Next ==
  \/ \E d \in Drives : SetDefaultDriveNo(d)
  \/ ForgetFAT
  \/ OpenFile
  \/ Rewind
  \/ \E p \in Targets : Seek(p)
  \/ \E n \in Requests : StartRead(n)
  \/ ReadRound

Spec == Init /\ [][Next]_vars

(* read() runs to its end once called: nothing else runs on the machine.   *)
FairSpec == Spec /\ WF_vars(ReadRound)

-----------------------------------------------------------------------------
(* Properties.                                                             *)

(* What the fields of struct FileDesc and the variables of the library     *)
(* hold, whatever the program does.                                        *)
ReaderTypeOK ==
  /\ curDriveNo \in Drives
  /\ fatBuffer \in [Granules -> FatValues]
  /\ fatUpToDate \in BOOLEAN
  /\ fd.curGran \in Granules \union {BASE_LAST, EOF}
  /\ fd.curSec \in 1 .. 2 * SectorsPerGranule + 1
  /\ fd.secOffset \in 0 .. BytesPerSector
  /\ fd.availBytes \in 0 .. BytesPerSector
  /\ left \in Nat
  /\ stuck \in {"no", "assert", "bounds"}
  /\ amiss \subseteq {"opened", "table", "end"}

(* The program halts by an assertion for one reason only, as long as every *)
(* call had the table of the right diskette: a seek() to the end of a file *)
(* that ends with its granule (line 286).  It reads outside of the table   *)
(* only when it opens an empty file.                                       *)
HaltsExplained ==
  /\ stuck = "assert" /\ amiss \subseteq {"end"} =>
       "end" \in amiss /\ fd.length % BytesPerGranule = 0
  /\ stuck = "bounds" /\ IsTableOf(fatBuffer, curDriveNo) => disks[curDriveNo].length = 0

(* The sector that the next read() loads is one of the open file.          *)
NextIsInFile ==
  \E p \in 0 .. fd.length - 1, o \in 0 .. BytesPerSector - 1 :
     ByteAt(fd.drive, p) = <<fd.drive, fd.curGran, fd.curSec, o>>

(* A seek() to the end of the file, or beyond it, succeeds only when the   *)
(* last sector is not full.  Otherwise the program halts when the granule  *)
(* is full too, and is left before a sector that is not the file's when it *)
(* is not: the next read() delivers that sector.                           *)
SeekToEnd ==
  [][\A p \in Targets :
       /\ Seek(p) /\ p >= fd.length
       /\ fatUpToDate' /\ IsTableOf(fatBuffer', fd.drive) /\ "opened" \notin amiss
       => /\ stuck' = "assert" <=> fd.length % BytesPerGranule = 0
          /\ stuck' = "no" => (NextIsInFile' <=> fd.length % BytesPerSector # 0)]_vars

(* The length that openfile() computes from the table of the diskette and  *)
(* the directory entry is the number of bytes that were stored.            *)
LengthKnown ==
  fd.isOpen /\ "opened" \notin amiss => fd.length = disks[fd.drive].length

(* The three ways the descriptor says where it is agree, unless something  *)
(* went amiss: offset counts the bytes before the position; the sector in  *)
(* memory, while it has bytes to offer, holds the byte at offset; and the  *)
(* sector to be loaded next is the one that holds the first byte not in    *)
(* memory.                                                                 *)
PositionAgrees ==
  fd.isOpen /\ amiss = {} =>
    LET ahead == fd.offset + Available(fd)
        start == IF fd.availBytes = 0 THEN fd.secOffset ELSE 0
    IN  /\ Available(fd) > 0 =>
             /\ fd.offset < disks[fd.drive].length
             /\ fd.curSector \o <<fd.secOffset>> = ByteAt(fd.drive, fd.offset)
        /\ fd.curGran = EOF => ahead = disks[fd.drive].length
        /\ fd.curGran # EOF /\ ahead < disks[fd.drive].length =>
             ByteAt(fd.drive, ahead) = <<fd.drive, fd.curGran, fd.curSec, start>>

File == INSTANCE ReadOnlyFile WITH
          flawed  <- fd.isOpen /\ disks[fd.drive].flaws # {},
          file    <- IF fd.isOpen THEN FileBytes(fd.drive) ELSE <<>>,
          pos     <- fd.offset,
          known   <- amiss = {}

(* Through rewinds, seeks, and reads cut short by the medium, the library  *)
(* delivers the bytes of the file at the position, in order, each once,    *)
(* and all that were asked for unless the file ends or the medium fails;   *)
(* and when it went amiss, it does again from the next rewind() or seek()  *)
(* that has the table, or from the next openfile().                        *)
ReadsFile == File!Spec

(* Every read() returns, at the end of the file, on an error and in a file *)
(* that went amiss too, unless an assertion fails.                         *)
ReadReturns == [](left > 0 => <>(left = 0 \/ stuck = "assert"))
=============================================================================
