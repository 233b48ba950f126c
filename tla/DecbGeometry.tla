---------------------------- MODULE DecbGeometry ----------------------------
(***************************************************************************)
(* Where the granules of a Disk Extended Color Basic diskette lie.         *)
(*                                                                         *)
(* Three programs of the repository compute the place of the same 256-byte *)
(* sector, each with its own arithmetic: writecocofile (host, byte offset  *)
(* in the image), <disk.h> (6809 program, track and sector numbers) and    *)
(* the DSKCON device of usim (track and sector back to a byte offset).     *)
(* The numbers are those of the source: this module has no parameter and   *)
(* no state; what it says is proved in DecbTablesProofs.                   *)
(***************************************************************************)
EXTENDS Integers

BYTES_PER_SECTOR    == 256
SECTORS_PER_GRANULE == 9
GRANULES_PER_TRACK  == 2
SECTORS_PER_TRACK   == SECTORS_PER_GRANULE * GRANULES_PER_TRACK
BYTES_PER_GRANULE   == BYTES_PER_SECTOR * SECTORS_PER_GRANULE
BYTES_PER_TRACK     == BYTES_PER_SECTOR * SECTORS_PER_TRACK
DIR_TRACK           == 17
MAX_GRANULES        == 68
NumTracks           == 35

Granules == 0 .. MAX_GRANULES - 1
Sectors  == 1 .. SECTORS_PER_GRANULE    \* sectors of a granule, as curSec counts them
ImageLength == NumTracks * BYTES_PER_TRACK

(* Offset of a granule in the image, as the host tool computes it. *)
GetGranule(granuleNo) ==
  IF granuleNo < DIR_TRACK * 2
    THEN granuleNo * BYTES_PER_GRANULE
    ELSE BYTES_PER_TRACK + granuleNo * BYTES_PER_GRANULE

(* Track of a granule, and the number of sectors that precede it there. *)
GranuleToTrack(granule) ==
  LET t == granule \div 2
  IN  [track |-> IF t >= 17 THEN t + 1 ELSE t,
       sec   |-> IF granule % 2 > 0 THEN 9 ELSE 0]

(* Offset of a sector in usim.dsk, as the simulated controller computes it. *)
TrySeek(track, sector) == (track * 18 + sector - 1) * 256

(* The parameters that dskcon() lets through to the controller. *)
DskconAccepts(track, sector) ==
  /\ track < 35
  /\ sector # 0
  /\ sector <= 18

SectorOffset(g, s) ==
  LET at == GranuleToTrack(g) IN TrySeek(at.track, at.sec + s)

-----------------------------------------------------------------------------
(* What the three computations have to satisfy.                            *)

(* The byte that the 6809 program reaches through DSKCON for a sector of a *)
(* granule is the one where writecocofile put that sector, although one    *)
(* skips the directory track by a test on the granule number and the other *)
(* by a test on the track number.                                          *)
SectorAgreement(g, s) ==
  SectorOffset(g, s) = GetGranule(g) + (s - 1) * BYTES_PER_SECTOR

(* No sector of a granule lies on the directory track, and dskcon() never  *)
(* refuses the track and sector that getNextSector() computes.             *)
SectorAccepted(g, s) ==
  LET at == GranuleToTrack(g)
  IN  at.track # DIR_TRACK /\ DskconAccepts(at.track, at.sec + s)

(* Two granules never overlap, and all of them end inside the image.       *)
GranulesDisjoint(g, h) ==
  /\ GetGranule(g) + BYTES_PER_GRANULE <= ImageLength
  /\ g < h => GetGranule(g) + BYTES_PER_GRANULE <= GetGranule(h)
=============================================================================
