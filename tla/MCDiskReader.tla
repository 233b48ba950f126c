---------------------------- MODULE MCDiskReader ----------------------------
(***************************************************************************)
(* DiskReader on files of up to two granules of two sectors of two bytes.  *)
(* The granules of the longest one are not in increasing order, so that a  *)
(* step to the next granule is not an increment.                           *)
(***************************************************************************)
EXTENDS DiskReader

(* No byte, a full sector, a full granule, and a granule followed by one   *)
(* that ends in a sector that is neither full nor its first.               *)
SomeLayouts ==
  {[granules |-> <<1>>,    length |-> 0],
   [granules |-> <<1>>,    length |-> 2],
   [granules |-> <<1>>,    length |-> 4],
   [granules |-> <<2, 0>>, length |-> 7]}
=============================================================================
