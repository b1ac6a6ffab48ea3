----------------------------- MODULE SharedTree -----------------------------
(***************************************************************************)
(* What the directory cache of an open volume promises its users: one tree *)
(* of directories, the same for every thread, that only grows.             *)
(*                                                                         *)
(* A directory comes into the tree at once, complete, as the child of one  *)
(* entry, and never changes while the volume is open.  A call descends     *)
(* from directory to child; UDFDIRs refer to directories of the tree.      *)
(* There are no arrays, no races and no failed or abandoned reads here:    *)
(* DirCacheRefines.tla shows that the lock-free cache looks like this.     *)
(***************************************************************************)
EXTENDS Naturals, Sequences

CONSTANTS Thread, Stream, DirObj, Root, NULL, RootIcb, MaxEntries, Readings

VARIABLES
  open,     \* udfread_close has not been called
  entries,  \* entries[d]: the entries of directory d; <<>> outside the tree
  child,    \* child[d][i]: the directory entry i of d leads to, or NULL
  at,       \* at[t]: the directory thread t has reached, or NULL
  handle    \* handle[s]: the directory UDFDIR s refers to, or NULL

vars == <<open, entries, child, at, handle>>

Index == 1 .. MaxEntries

(* The directories of the tree.                                            *)
InTree(d) == d = Root \/ \E e \in DirObj, i \in Index : child[e][i] = d

Init ==
  /\ open = TRUE
  /\ \E r \in Readings[RootIcb] :
       entries = [d \in DirObj |-> IF d = Root THEN r ELSE <<>>]
  /\ child = [d \in DirObj |-> [i \in Index |-> NULL]]
  /\ at = [t \in Thread |-> NULL]
  /\ handle = [s \in Stream |-> NULL]

(* A directory read from the medium becomes the child of its entry.        *)
Load(d, i, x) ==
  /\ open
  /\ i \in DOMAIN entries[d]
  /\ entries[d][i].dir
  /\ child[d][i] = NULL
  /\ child' = [child EXCEPT ![d] = [@ EXCEPT ![i] = x]]
  /\ InTree(d)
  /\ ~InTree(x)
  /\ \E r \in Readings[entries[d][i].icb] : entries' = [entries EXCEPT ![x] = r]
  /\ UNCHANGED <<open, at, handle>>

(* A call starts at the root, or at the directory of a UDFDIR.             *)
Start(t, d) ==
  /\ open
  /\ at[t] = NULL
  /\ at' = [at EXCEPT ![t] = d]
  /\ d = Root \/ \E s \in Stream : handle[s] = d
  /\ UNCHANGED <<open, entries, child, handle>>

Descend(t, i) ==
  /\ open
  /\ at[t] # NULL
  /\ child[at[t]][i] # NULL
  /\ at' = [at EXCEPT ![t] = child[at[t]][i]]
  /\ UNCHANGED <<open, entries, child, handle>>

(* The call found a file, failed or returned.                              *)
Leave(t) ==
  /\ open
  /\ at' = [at EXCEPT ![t] = NULL]
  /\ UNCHANGED <<open, entries, child, handle>>

OpenDir(t, s) ==
  /\ open
  /\ at[t] # NULL
  /\ handle[s] = NULL
  /\ handle' = [handle EXCEPT ![s] = at[t]]
  /\ UNCHANGED <<open, entries, child, at>>

CloseDir(s) ==
  /\ handle' = [handle EXCEPT ![s] = NULL]
  /\ UNCHANGED <<open, entries, child, at>>

(* Nobody is inside a call when the volume is closed.                      *)
Close ==
  /\ open
  /\ \A t \in Thread : at[t] = NULL
  /\ open' = FALSE
  /\ child' = [d \in DirObj |-> [i \in Index |-> NULL]]
  /\ entries' = [d \in DirObj |-> <<>>]
  /\ UNCHANGED <<at, handle>>

Next ==
  \/ \E d, x \in DirObj, i \in Index : Load(d, i, x)
  \/ \E t \in Thread :
       \/ \E d \in DirObj : Start(t, d)
       \/ \E i \in Index : Descend(t, i)
       \/ Leave(t)
       \/ \E s \in Stream : OpenDir(t, s)
  \/ \E s \in Stream : CloseDir(s)
  \/ Close

Spec == Init /\ [][Next]_vars
=============================================================================
