---------------------------- MODULE ReadOnlyFile ----------------------------
(***************************************************************************)
(* What disk.h promises of an open file: a sequence of bytes and a         *)
(* position in it.  A read delivers the bytes that follow the position, as *)
(* many as were asked for unless the file ends; a seek moves the position  *)
(* anywhere from the start to the end of the file.                         *)
(*                                                                         *)
(* The position may be lost: then nothing is promised of what is delivered *)
(* until the next call that sets it.                                       *)
(***************************************************************************)
EXTENDS Integers, Sequences

VARIABLES
  flawed, \* whether the medium may refuse to deliver a sector of the file
  file,   \* the bytes of the open file
  pos,    \* number of bytes before the position
  left,   \* what a read in progress has still to deliver; 0 between calls
  got,    \* what the last read has delivered
  known   \* whether the position is known

vars == <<flawed, file, pos, left, got, known>>

Init == pos = 0 /\ left = 0 /\ got = <<>> /\ known = TRUE

(* A file, this one or another one, is opened at its start.                *)
Open ==
  /\ left = 0
  /\ pos' = 0 /\ left' = 0 /\ got' = <<>> /\ known' = TRUE

Move ==
  /\ left = 0
  /\ pos' \in 0 .. Len(file)
  /\ got' = <<>> /\ known' = TRUE
  /\ UNCHANGED <<flawed, file, left>>

Ask ==
  /\ left = 0
  /\ left' > 0
  /\ got' = <<>>
  /\ UNCHANGED <<flawed, file, pos, known>>

(* Some bytes are delivered, perhaps none; the read ends when all of them  *)
(* are, or at the end of the file, or when the medium fails.               *)
Deliver ==
  /\ left > 0 /\ known
  /\ \E n \in 0 .. left :
       /\ pos + n <= Len(file)
       /\ got' = got \o SubSeq(file, pos + 1, pos + n)
       /\ pos' = pos + n
       /\ \/ left' = left - n
          \/ left' = 0 /\ (pos' = Len(file) \/ flawed)
  /\ UNCHANGED <<flawed, file, known>>

(* The position is lost, or was lost before.                               *)
Lose == known' = FALSE

Next == Open \/ Move \/ Ask \/ Deliver \/ Lose

Spec == Init /\ [][Next]_vars
=============================================================================
