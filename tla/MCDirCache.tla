----------------------------- MODULE MCDirCache -----------------------------
(***************************************************************************)
(* Small volumes for DirCache.                                             *)
(*                                                                         *)
(*   /          f (file)   a (directory)   c (directory)                   *)
(*   /a         c (the same directory as /c)   f (file)                    *)
(*   /c         empty                                                      *)
(*                                                                         *)
(* Reading /a can deliver a shorter list: an entry whose name cannot be    *)
(* converted for want of memory is dropped without failing the call.       *)
(***************************************************************************)
EXTENDS DirCacheRefines, TLC

CONSTANTS a, c, f, iRoot, iA, iC, iF, t1, t2, r, o1, o2, o3, o4, s1, b1, b2, b3

File(n, l) == [name |-> n, dir |-> FALSE, icb |-> l]
Dir(n, l)  == [name |-> n, dir |-> TRUE, icb |-> l]

MCReadings ==
  (iRoot :> {<<File(f, iF), Dir(a, iA), Dir(c, iC)>>}) @@
  (iA    :> {<<Dir(c, iC), File(f, iF)>>, <<Dir(c, iC)>>}) @@
  (iC    :> {<<>>}) @@
  (iF    :> {})

MCPath == {<<>>, <<a, c>>, <<f, c>>}

(* One path, for the instance that costs more per state.                   *)
DeepPath == {<<a, c>>}

Symmetry ==
  Permutations(Thread) \cup Permutations(DirObj \ {Root}) \cup
  Permutations(ArrObj) \cup Permutations(Stream)

(* Only t1 is known to be scheduled, and the thread that closes the volume. *)
(* Wait-freedom of the calls t1 makes.                                     *)
LoneSpec == Spec /\ WF_vars(Work(t1)) /\ WF_vars(Clean)
LoneCallReturns == CallReturns(t1)
=============================================================================
