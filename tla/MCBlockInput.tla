---------------------------- MODULE MCBlockInput ----------------------------
(***************************************************************************)
(* Two threads and a file of two blocks of two bytes and a half.           *)
(***************************************************************************)
EXTENDS BlockInput

MCRequests ==
  {[lba |-> 0, n |-> 2], [lba |-> 1, n |-> 2],
   [lba |-> 3, n |-> 1], [lba |-> 0, n |-> 0], [lba |-> 0, n |-> -1]}
=============================================================================
