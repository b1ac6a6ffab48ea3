---------------------------- MODULE BlockDevice ----------------------------
(***************************************************************************)
(* What a block input promises those who read through it: each call is     *)
(* answered with a beginning of the blocks it asked for, all of them that  *)
(* the medium has unless the medium failed during the call, and nobody     *)
(* else's call makes a difference.                                         *)
(***************************************************************************)
EXTENDS Integers, Sequences, FiniteSetsExt

CONSTANTS
  Thread,
  Requests,   \* what is asked for: [lba, n]
  Blocks,     \* the content of the whole blocks of the medium, from block 0
  NoRequest

VARIABLES
  asked,   \* asked[t]: the request of t's call, or NoRequest
  broken,  \* broken[t]: the medium has failed during t's call
  answer   \* answer[t]: the blocks that t's last call delivered

bdvars == <<asked, broken, answer>>

Init ==
  /\ asked = [t \in Thread |-> NoRequest]
  /\ broken = [t \in Thread |-> FALSE]
  /\ answer = [t \in Thread |-> <<>>]

Ask(t) ==
  /\ asked[t] = NoRequest
  /\ \E r \in Requests : asked' = [asked EXCEPT ![t] = r]
  /\ answer' = [answer EXCEPT ![t] = <<>>]
  /\ UNCHANGED broken

Break(t) ==
  /\ asked[t] # NoRequest
  /\ broken' = [broken EXCEPT ![t] = TRUE]
  /\ UNCHANGED <<asked, answer>>

(* The number of blocks a request can get.                                 *)
There(r) == Max({0, Min({r.n, Len(Blocks) - r.lba})})

Answer(t) ==
  /\ asked[t] # NoRequest
  /\ \E k \in 0 .. There(asked[t]) :
       /\ k = There(asked[t]) \/ broken[t]
       /\ answer' = [answer EXCEPT
            ![t] = SubSeq(Blocks, asked[t].lba + 1, asked[t].lba + k)]
  /\ asked' = [asked EXCEPT ![t] = NoRequest]
  /\ broken' = [broken EXCEPT ![t] = FALSE]

Next == \E t \in Thread : Ask(t) \/ Break(t) \/ Answer(t)

Spec == Init /\ [][Next]_bdvars
=============================================================================
