------------------------------ MODULE MCFiles ------------------------------
(* Small recorded files for FileEntry and DirRead.                         *)
EXTENDS Integers, Sequences, TLC

At(l, n) == [type |-> "normal", blocks |-> n, lba |-> l]
Hole(n) == [type |-> "unwritten", blocks |-> n, lba |-> 0]
More(l) == [type |-> "pointer", blocks |-> 1, lba |-> l]
File(ads) == [tag |-> "fe", valid |-> TRUE, inline |-> FALSE, ads |-> ads]
Aed(ads) == [File(ads) EXCEPT !.tag = "aed"]

Plain == [blocks |-> 3, entry |-> File(<<At(10, 2), At(20, 1)>>), part |-> <<>>]
(* Data inside the entry that looks like a pointer.                        *)
InEntry ==
  [blocks |-> 1, entry |-> [File(<<More(50)>>) EXCEPT !.inline = TRUE, !.tag = "efe"],
   part |-> <<>>]
(* Three parts and a hole; the second part is all in the third.            *)
Long ==
  [blocks |-> 7, entry |-> File(<<At(10, 1), Hole(1), More(50)>>),
   part |-> 50 :> Aed(<<At(20, 2), At(30, 1), More(60)>>) @@ 60 :> Aed(<<At(40, 2)>>)]
(* A chain of pointers only, to an empty part.                             *)
Chained ==
  [blocks |-> 3, entry |-> File(<<At(10, 2), More(50)>>),
   part |-> 50 :> Aed(<<More(60)>>) @@ 60 :> Aed(<<>>)]
(* The second part is something else; the entry cannot be decoded.         *)
Broken ==
  [blocks |-> 4, entry |-> File(<<At(10, 1), More(50)>>),
   part |-> 50 :> [File(<<At(20, 3)>>) EXCEPT !.tag = "other"]]
Invalid == [Plain EXCEPT !.entry.valid = FALSE]

(* Longer than its descriptors, which end with a hole.                     *)
Sparse ==
  [blocks |-> 8, entry |-> File(<<Hole(2), At(10, 1), More(50)>>),
   part |-> 50 :> Aed(<<At(20, 1), Hole(1)>>)]

MCMedia == {Plain, InEntry, Long, Chained, Broken, Sparse, Invalid}
=============================================================================
