--------------------------- MODULE DirCacheRefines ---------------------------
(***************************************************************************)
(* The lock-free cache of DirCache implements SharedTree.                  *)
(*                                                                         *)
(* Only what is published counts: private objects, arrays and the steps    *)
(* that build, lose or free them are invisible, and so is the teardown     *)
(* that follows the call of udfread_close.                                 *)
(***************************************************************************)
EXTENDS DirCache

Open == vol = "open"

EntriesMap == [d \in DirObj |-> IF Open /\ d \in Shared THEN content[d] ELSE <<>>]

ChildMap ==
  [d \in DirObj |->
     IF Open /\ subdirs[d] # NULL THEN slots[subdirs[d]] ELSE [i \in Index |-> NULL]]

Tree == INSTANCE SharedTree
          WITH open <- Open, entries <- EntriesMap, child <- ChildMap,
               at <- cur, handle <- stream

(* Whatever the threads do, their calls look as if they all walked one     *)
(* tree into which every directory is put once, complete, and stays.       *)
ImplementsSharedTree == Tree!Spec
=============================================================================
