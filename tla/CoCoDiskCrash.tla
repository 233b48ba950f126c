---------------------------- MODULE CoCoDiskCrash ----------------------------
(***************************************************************************)
(* CoCoDisk when the write-back of the image is cut short: the host loses  *)
(* power, its disk fills up, the process is killed.  commit() rewrites the *)
(* whole image in place with one unsynchronised write, so that any part of *)
(* the new image may have reached the medium and any part may not.  The    *)
(* parts are the table entries, the directory entries and the granules.    *)
(*                                                                         *)
(* Nothing is promised about the file being stored or killed; the question *)
(* is what becomes of the others.                                          *)
(***************************************************************************)
EXTENDS CoCoDisk

(* commit(), interrupted.                                                  *)
Interrupted(r) ==
  /\ \E F \in SUBSET Granules, D \in SUBSET DirIndices, G \in SUBSET Granules :
       Becomes(Torn(r, F, D, G))
  /\ status' = "torn"

CrashInCommit(n) ==
  \/ \E r \in Killed(n) : Interrupted(r) /\ asked' = Killing(n)
  \/ \E bytes \in StoredFiles : \E r \in Replaced(n, bytes) :
       Interrupted(r) /\ asked' = Writing(n, bytes)

CrashNext ==
  \/ Next
  \/ Intact /\ \E n \in NativeNames : CrashInCommit(n)

CrashSpec == Init /\ [][CrashNext]_vars

-----------------------------------------------------------------------------
(* The type invariant, with one more outcome.                              *)
CrashTypeOK ==
  /\ fat \in [Granules -> FatValues]
  /\ dir \in [DirIndices -> DirEntries]
  /\ status \in {"none", "ok", "error", "commit failed", "torn"}

(* Even in a torn image the files of two names share no granule: whatever  *)
(* mixture of old and new entries the table holds, what the file being     *)
(* replaced leads to was its own before or after.  (It may have two        *)
(* entries by then, the erased one back and the new one.)                  *)
TornFilesApart ==
  \A i, j \in LiveEntries :
    dir[i].name # dir[j].name => FileChain(i) \intersect FileChain(j) = {}

(* The file of one name is at stake, also when the image is torn.          *)
TornOneFileTouched == OnlyOneFileTouched
=============================================================================
