------------------------------ MODULE MCHandle ------------------------------
(***************************************************************************)
(* Two threads, one stream of a directory of two entries, and the default  *)
(* logger beside one of the program's (see the configurations).            *)
(***************************************************************************)
EXTENDS Handle
=============================================================================
