------------------------------ MODULE CoCoDisk ------------------------------
(***************************************************************************)
(* writecocofile: a host tool that stores native files on a Disk Extended  *)
(* Color Basic diskette image (class CoCoDisk and its callers).            *)
(*                                                                         *)
(* A disk is three tables.  fat[g] names the granule that follows g in its *)
(* file, or marks g as the last one of its file together with the number   *)
(* of sectors used there, or says that g is free.  dir[i] is a directory   *)
(* entry: "end" (first byte $FF), "erased" (first byte 0) or "live".       *)
(* data[g][b] is byte b of granule g.                                      *)
(*                                                                         *)
(* One invocation of the tool reads the image, works on its copy in memory *)
(* and writes the copy back only when that succeeded: with a single        *)
(* invocation at a time the whole invocation is one step of this module.   *)
(* The write-back can fail too, and then leaves the beginning of the new   *)
(* image before the rest of the old one.  (CoCoDiskCrash interrupts it.)   *)
(***************************************************************************)
EXTENDS DecbTables

CONSTANTS
  NumDirEntries,      (* NUM_DIR_LIST_ENTRIES, 128                         *)
  LowGranules,        (* granules that lie before the directory track, 34  *)
  NativeNames,        (* names a user gives on the command line            *)
  Names,              (* 11-character names of directory entries           *)
  CoCoName,           (* padded and truncated upper-case form of a name    *)
  AddableNames,       (* names whose two parts have legal lengths          *)
  NativeFiles,        (* contents of native files: sequences of bytes      *)
  LF, CR,             (* the two line terminators                          *)
  BlankByte,          (* what a formatted granule holds                    *)
  Absent              (* what a read delivers of a name without a file     *)

ASSUME DirAssumption == NumDirEntries \in Nat \ {0}

ASSUME LayoutAssumption == LowGranules \in 0 .. NumGranules

ASSUME NamesAssumption ==
  /\ CoCoName \in [NativeNames -> Names]
  /\ AddableNames \subseteq NativeNames

Bytes == 0 .. 255

ASSUME FilesAssumption ==
  /\ NativeFiles \subseteq Seq(Bytes)
  /\ LF \in Bytes /\ CR \in Bytes /\ BlankByte \in Bytes

DirIndices == 0 .. NumDirEntries - 1
Formats    == {"binary", "ascii", "newlines"}

EndOfDir == [kind |-> "end"]
Erased   == [kind |-> "erased"]

VARIABLES fat, dir, data,
          status,   \* outcome of the last invocation: "none", "ok" or an error
          asked     \* what the last invocation was asked to do (history)

vars == <<fat, dir, data, status, asked>>

-----------------------------------------------------------------------------
(* The directory.                                                          *)

Live(d, i) == d[i].kind = "live"

(* The entry getDirEntryPtr() finds: a set of at most one index.           *)
DirEntryPtr(d, name) ==
  {i \in DirIndices : /\ Live(d, i) /\ d[i].name = name
                      /\ \A j \in 0 .. i - 1 : /\ d[j] # EndOfDir
                                               /\ Live(d, j) => d[j].name # name}

(* Mutant: any free entry will do.                                         *)
FirstFreeEntry_any(d) == {i \in DirIndices : ~ Live(d, i)}

(* The entry addFile() fills: a set of at most one index.                  *)
FirstFreeEntry(d) ==
  {i \in DirIndices : ~ Live(d, i) /\ \A j \in 0 .. i - 1 : Live(d, j)}

-----------------------------------------------------------------------------
(* Contents.                                                               *)

(* The end of the last line that has its line feed: with --newlines, a     *)
(* getline() that meets the end of the file ends the loop and its line is  *)
(* not written.                                                            *)
TextEnd(file) ==
  CHOOSE n \in 0 .. Len(file) :
    (n = 0 \/ file[n] = LF) /\ \A k \in n + 1 .. Len(file) : file[k] # LF

(* Newlines of an ASCII file become carriage returns; --newlines does the  *)
(* same, after an empty line.                                              *)
Converted(file, format) ==
  LET byte(k) == IF format # "binary" /\ file[k] = LF THEN CR ELSE file[k]
  IN  IF format = "newlines"
        THEN <<CR>> \o [k \in 1 .. TextEnd(file) |-> byte(k)]
        ELSE [k \in 1 .. Len(file) |-> byte(k)]

(* What may have to be stored.                                             *)
StoredFiles == {Converted(file, format) : file \in NativeFiles, format \in Formats}

(* Each granule of the file receives its share; the tail of the last one   *)
(* keeps what it held.                                                     *)
Written(dt, s, n, bytes) ==
  LET len == Len(bytes)
  IN  [g \in Granules |->
         IF \E i \in 1 .. n : s[i] = g
           THEN LET base == ((CHOOSE i \in 1 .. n : s[i] = g) - 1) * BytesPerGranule
                IN  [b \in 0 .. BytesPerGranule - 1 |->
                       IF base + b < len THEN bytes[base + b + 1] ELSE dt[g][b]]
           ELSE dt[g]]

(* Length of a file, from its granules and the last bytes of its entry.    *)
FileLength(f, w, lastBytes) ==
  LET sectors == f[w[Len(w)]] - BASE_LAST
  IN  (Len(w) - 1) * BytesPerGranule
        + IF sectors > 0 THEN (sectors - 1) * BytesPerSector + lastBytes ELSE 0

(* The length that listDirectory() prints.                                 *)
ListedLength(f, w, lastBytes) ==
  LET sectors == f[w[Len(w)]] - BASE_LAST
  IN  (Len(w) - 1) * BytesPerGranule + lastBytes
        + IF sectors > 0 THEN (sectors - 1) * BytesPerSector ELSE 0

(* extractFile(): the bytes of the file that entry e describes.            *)
Extracted(f, dt, e) ==
  LET w == CHOOSE s \in FileGranules(f, e.first) : TRUE
  IN  [k \in 1 .. FileLength(f, w, e.lastBytes) |->
         dt[w[(k - 1) \div BytesPerGranule + 1]][(k - 1) % BytesPerGranule]]

-----------------------------------------------------------------------------
(* What killFile() and addFile() make of the copy in memory.               *)

(* Mutant: addFile() works on the tables as they were before killFile().   *)
AfterKill_skipped(name) == {[fat |-> fat, dir |-> dir]}

(* The tables after killFile(): the one result, whether or not the name is *)
(* found.                                                                  *)
AfterKill(name) ==
  IF DirEntryPtr(dir, name) = {}
    THEN {[fat |-> fat, dir |-> dir]}
    ELSE {[fat |-> Freed(fat, dir[i].first), dir |-> [dir EXCEPT ![i] = Erased]] :
            i \in DirEntryPtr(dir, name)}

NewEntry(name, first, len) ==
  [kind |-> "live", name |-> name, first |-> first, lastBytes |-> BytesInLastSector(len)]

(* The one disk that addFile() makes; none when it runs out of space or of *)
(* directory entries.                                                      *)
AfterAdd(k, name, bytes) ==
  LET len == Len(bytes)
      n   == SizeInGranules(len)
  IN  {[fat  |-> Linked(k.fat, s, n, SectorsInLastGranule(len)),
        dir  |-> [k.dir EXCEPT ![i] = NewEntry(name, s[1], len)],
        data |-> Written(data, s, n, bytes)] :
          s \in Allocations(k.fat, n), i \in FirstFreeEntry(k.dir)}

-----------------------------------------------------------------------------
(* commit().                                                               *)

(* The image with the parts in F, D and G taken from r, the others old.    *)
Torn(r, F, D, G) ==
  [fat  |-> [g \in Granules   |-> IF g \in F THEN r.fat[g]  ELSE fat[g]],
   dir  |-> [i \in DirIndices |-> IF i \in D THEN r.dir[i]  ELSE dir[i]],
   data |-> [g \in Granules   |-> IF g \in G THEN r.data[g] ELSE data[g]]]

(* The order of the parts in the image: the directory track holds the      *)
(* table and then the directory, and lies between the granules.            *)
NumParts     == 2 * NumGranules + NumDirEntries
FatPlace(g)  == LowGranules + g
DirPlace(i)  == LowGranules + NumGranules + i
DataPlace(g) == IF g < LowGranules THEN g ELSE NumGranules + NumDirEntries + g

(* The first m parts of r, and of the old image the rest.                  *)
Cut(r, m) ==
  Torn(r, {g \in Granules : FatPlace(g) < m}, {i \in DirIndices : DirPlace(i) < m},
       {g \in Granules : DataPlace(g) < m})

Becomes(r) == fat' = r.fat /\ dir' = r.dir /\ data' = r.data

(* The image is rewritten in place, from its beginning.  When the host     *)
(* does not take all of it, the tool reports that the commit failed.       *)
Commit(r) ==
  \/ Becomes(r) /\ status' = "ok"
  \/ /\ \E m \in 0 .. NumParts - 1 : Becomes(Cut(r, m))
     /\ status' = "commit failed"

-----------------------------------------------------------------------------
(* The invocations.                                                        *)

Nothing         == [op |-> "none"]
Writing(n, c)   == [op |-> "write", name |-> n, bytes |-> c]
Killing(n)      == [op |-> "kill", name |-> n]
Misreading(n)   == [op |-> "unreadable", name |-> n]

Init ==
  /\ fat    = [g \in Granules |-> FREE_FAT_ENTRY]
  /\ dir    = [i \in DirIndices |-> EndOfDir]
  /\ data   = [g \in Granules |-> [b \in 0 .. BytesPerGranule - 1 |-> BlankByte]]
  /\ status = "none"
  /\ asked  = Nothing

(* The one image in memory after killFile().                               *)
Killed(n) == {[fat |-> k.fat, dir |-> k.dir, data |-> data] : k \in AfterKill(CoCoName[n])}

(* That after killFile() and addFile(); none when addFile() fails, for its *)
(* name or for lack of room.                                               *)
Replaced(n, bytes) ==
  IF n \in AddableNames
    THEN UNION {AfterAdd(k, CoCoName[n], bytes) : k \in AfterKill(CoCoName[n])}
    ELSE {}

(* Mutant: the image is written back after killFile() even when addFile()  *)
(* fails.                                                                  *)
WriteFile_early(n, bytes) ==
  /\ asked' = Writing(n, bytes)
  /\ \/ \E r \in Replaced(n, bytes) : Commit(r)
     \/ /\ Replaced(n, bytes) = {}
        /\ status' = "error"
        /\ \E r \in Killed(n) : Becomes(r)

(* writecocofile IMAGE NAME: a file of that name is killed first, then the *)
(* new one is added.  When addFile() fails the process exits before        *)
(* commit() and the image keeps the file.                                  *)
WriteFile(n, bytes) ==
  /\ asked' = Writing(n, bytes)
  /\ \/ \E r \in Replaced(n, bytes) : Commit(r)
     \/ /\ Replaced(n, bytes) = {}
        /\ status' = "error"
        /\ UNCHANGED <<fat, dir, data>>

(* The native file cannot be opened or, with --newlines, has a line that   *)
(* does not fit in the line buffer.                                        *)
RefuseFile(n) ==
  /\ asked' = Misreading(n)
  /\ status' = "error"
  /\ UNCHANGED <<fat, dir, data>>

(* writecocofile --kill IMAGE NAME.  A name that is not found is reported, *)
(* and the image is written back all the same.                             *)
KillOnly(n) ==
  /\ asked' = Killing(n)
  /\ \E r \in Killed(n) : Commit(r)

(* The last write-back was completed, or none was begun.                   *)
Intact == status \in {"none", "ok", "error"}

(* An image that a failed commit left is only looked at: killFile() could  *)
(* follow a chain of it through a free granule, out of the table.          *)
Look == ~ Intact /\ UNCHANGED vars

Next ==
  \/ Intact /\ \E n \in NativeNames :
       KillOnly(n) \/ RefuseFile(n) \/ \E bytes \in StoredFiles : WriteFile(n, bytes)
  \/ Look

Spec == Init /\ [][Next]_vars

-----------------------------------------------------------------------------
(* Properties.                                                             *)

DirEntries ==
  {EndOfDir, Erased} \union
    [kind : {"live"}, name : Names, first : Granules, lastBytes : 0 .. BytesPerSector]

Requests ==
  {Nothing} \union {Writing(n, c) : n \in NativeNames, c \in StoredFiles}
    \union {Killing(n) : n \in NativeNames} \union {Misreading(n) : n \in NativeNames}

(* Every table entry has a value that the code can decode, also after a    *)
(* failed commit.                                                          *)
TypeOK ==
  /\ fat \in [Granules -> FatValues]
  /\ dir \in [DirIndices -> DirEntries]
  /\ DOMAIN data = Granules
  /\ status \in {"none", "ok", "error", "commit failed"}
  /\ asked \in Requests

LiveEntries == {i \in DirIndices : Live(dir, i)}
FileChain(i) == Chain(fat, dir[i].first)

(* getDirEntryPtr() gives up at the first $FF entry: no file may ever be   *)
(* listed after one, or it could be neither read nor killed nor replaced.  *)
NoEntryPastEnd ==
  \A i, j \in DirIndices : i < j /\ dir[i] = EndOfDir => ~ Live(dir, j)

(* killFile() kills one entry only: writing a file relies on there being   *)
(* at most one entry of each name.                                         *)
OneEntryPerName ==
  Intact => \A i, j \in LiveEntries : dir[i].name = dir[j].name => i = j

(* No granule belongs to two files: killing or rewriting one file never    *)
(* touches another.                                                        *)
NoCrossLinks ==
  Intact => \A i, j \in LiveEntries : i # j => FileChain(i) \intersect FileChain(j) = {}

(* What the --dir listing calls LOST GRANULES never appears: every granule *)
(* that is not free is in the chain of some entry.                         *)
NoLostGranules ==
  Intact =>
    \A g \in Granules : fat[g] # FREE_FAT_ENTRY => \E i \in LiveEntries : g \in FileChain(i)

(* Following the table from a directory entry meets a last-granule mark,   *)
(* and no free granule: the loops of killFile(), extractFile() and         *)
(* getGranuleList(), which have no other way out, terminate.               *)
ChainsEnd ==
  Intact =>
    \A i \in LiveEntries :
      /\ \A g \in FileChain(i) : fat[g] # FREE_FAT_ENTRY
      /\ \E g \in FileChain(i) : fat[g] \in LastMarks

(* The loop that follows a chain from a directory entry meets the granules *)
(* of that file, each of them once, and stops at its last mark.            *)
WalkVisitsChain ==
  Intact =>
    \A i \in LiveEntries :
      LET w == Walk(fat, dir[i].first)
      IN  /\ FileGranules(fat, dir[i].first) = {w}
          /\ {w[k] : k \in DOMAIN w} = FileChain(i)
          /\ Len(w) = Cardinality(FileChain(i))

(* An invocation touches the file of the name it was given, also when its  *)
(* commit fails.  Every other entry stays where it was with the same       *)
(* description, and the granules of its file keep their links and their    *)
(* bytes: a granule freed by killFile() is not mistaken for one of theirs, *)
(* nor one of theirs for a free one.                                       *)
OnlyOneFileTouched ==
  [][\A i \in LiveEntries :
       dir[i].name # CoCoName[asked'.name] =>
         /\ dir'[i] = dir[i]
         /\ \A g \in FileChain(i) : fat'[g] = fat[g] /\ data'[g] = data[g]]_vars

(* The length that --dir prints for a name.                                *)
Listed(name) ==
  IF DirEntryPtr(dir, name) = {} THEN Absent
  ELSE LET i == CHOOSE i \in DirEntryPtr(dir, name) : TRUE
       IN  ListedLength(fat, Walk(fat, dir[i].first), dir[i].lastBytes)

(* The length that --dir prints is the length of what was stored: that of  *)
(* the bytes that the last successful write for a name was given, none     *)
(* when the name was killed since, and no other name's ever changes.       *)
ListingAgrees ==
  [][Intact' =>
       \A name \in Names :
         Listed(name)' =
           IF status' # "ok" \/ name # CoCoName[asked'.name] THEN Listed(name)
           ELSE IF asked'.op = "write" THEN Len(asked'.bytes) ELSE Absent]_vars

(* What a read by name delivers in an image: readFile() finds the entry    *)
(* and extractFile() copies its granules.  No file comes of a chain that a *)
(* failed commit left without an end.                                      *)
ReadIn(f, d, dt, name) ==
  IF DirEntryPtr(d, name) = {} THEN Absent
  ELSE LET i == CHOOSE i \in DirEntryPtr(d, name) : TRUE
       IN  IF FileGranules(f, d[i].first) = {} THEN Absent ELSE Extracted(f, dt, d[i])

ReadBack(name) == ReadIn(fat, dir, data, name)

Store == INSTANCE FileStore WITH
           Contents <- StoredFiles,
           store    <- [name \in Names |-> ReadBack(name)],
           request  <- IF asked = Nothing THEN asked
                       ELSE [asked EXCEPT !.name = CoCoName[asked.name]],
           outcome  <- status

(* The tool implements a map from names to contents: a write that succeeds *)
(* makes a read under its name deliver the bytes it was given, byte for    *)
(* byte, whatever was written, replaced and killed before; one that is     *)
(* refused leaves every file as it was, the old one of its name too; and a *)
(* commit that fails spoils at most the file of its name.                  *)
StoreSpec == Store!Spec

(* A file is refused only for its name or for lack of room, and the room   *)
(* is all that the files of other names leave: granules of the old version *)
(* count as free, none is lost, and so with the directory entries.         *)
RefusedOnlyWhenFull ==
  [][asked'.op = "write" /\ asked'.name \in AddableNames /\ status' = "error" =>
       LET others == {name \in Names \ {CoCoName[asked'.name]} : ReadBack(name) # Absent}
           used   == UNION {{name} \X (1 .. SizeInGranules(Len(ReadBack(name)))) : name \in others}
       IN  \/ Cardinality(used) + SizeInGranules(Len(asked'.bytes)) > NumGranules
           \/ Cardinality(others) = NumDirEntries]_vars

(* A name that cannot be given to a file designates no file: killing it    *)
(* kills nothing.                                                          *)
KillsDesignatedFile ==
  [][asked'.op = "kill" /\ asked'.name \notin AddableNames => UNCHANGED dir]_vars

(* --newlines converts the newlines and prepends an empty line: the file   *)
(* on the disk has one byte more than the native file.                     *)
NewlinesKeepText ==
  [][\A n \in NativeNames, file \in NativeFiles :
       WriteFile(n, Converted(file, "newlines")) /\ status' = "ok" =>
         Listed(CoCoName[n])' = Len(file) + 1]_vars
=============================================================================
