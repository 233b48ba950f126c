----------------------------- MODULE MCCoCoDisk -----------------------------
(***************************************************************************)
(* CoCoDisk and CoCoDiskCrash on a diskette of a few granules.  Three      *)
(* instances are checked: one with many tables whose granules all hold the *)
(* same byte, so that only fat and dir vary; one with fewer tables and     *)
(* files whose bytes tell the files and the places in them apart; and one  *)
(* of three granules of one byte, with more names than directory entries,  *)
(* whose write-back is interrupted.                                        *)
(***************************************************************************)
EXTENDS CoCoDiskCrash, TLC

CONSTANTS n1, n2, n3, d1, d2, d3, nLong

(* nLong is too long a name: cut to eight characters it is n2's.           *)
ManyNames     == {n1, n2, n3, nLong}
SomeNames     == {n1, n2, n3}
FewNames      == {n1, n2}
ManyDirNames  == {d1, d2, d3}
FewDirNames   == {d1, d2}
ManyCoCoNames == [n \in ManyNames |-> CASE n = n1 -> d1 [] n = n3 -> d3 [] OTHER -> d2]
SomeCoCoNames == [n \in SomeNames |-> CASE n = n1 -> d1 [] n = n2 -> d2 [] OTHER -> d3]
FewCoCoNames  == [n \in FewNames |-> IF n = n1 THEN d1 ELSE d2]
(* Empty, exactly a granule, a granule and a sector, and more than two     *)
(* granules, of two one-byte sectors.                                      *)
UniformFiles == {[k \in 1 .. len |-> 0] : len \in {0, 2, 3, 5}}

(* Five bytes, one of them a line feed (10): three granules of one two-    *)
(* byte sector, which is all there are.  With --newlines the two bytes of  *)
(* its unfinished last line go and a carriage return (13) comes first: two *)
(* full granules.  And no byte at all, or one with --newlines.             *)
LineFiles == {<<21, 22, 10, 23, 24>>, <<>>}

(* One granule and two.                                                    *)
CrashFiles == {<<1>>, <<2, 3>>}
=============================================================================
