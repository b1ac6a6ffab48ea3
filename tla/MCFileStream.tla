---------------------------- MODULE MCFileStream ----------------------------
(***************************************************************************)
(* Small files for FileStream.                                             *)
(***************************************************************************)
EXTENDS FileStream

Ext(length, normal, lba) == [length |-> length, normal |-> normal, lba |-> lba]

(* Two recorded extents, the first with a last block that is not full, a   *)
(* hole between them and a file that ends inside its last block.           *)
Sparse ==
  [length |-> 13, inline |-> FALSE, recorded |-> 0, first |-> <<0, 2, 3>>,
   ads |-> <<Ext(5, TRUE, 4), Ext(3, FALSE, 7), Ext(6, TRUE, 9)>>]

(* The extents end before the file does, with an unallocated one last.     *)
Short ==
  [length |-> 8, inline |-> FALSE, recorded |-> 0, first |-> <<0, 1>>,
   ads |-> <<Ext(3, TRUE, 3), Ext(3, TRUE, 0)>>]

(* One extent, for blocks of two bytes.                                    *)
Plain ==
  [length |-> 6, inline |-> FALSE, recorded |-> 0, first |-> <<0>>,
   ads |-> <<Ext(6, TRUE, 3)>>]

(* Inside the file entry, which records less than the size of the file.    *)
Inside ==
  [length |-> 5, inline |-> TRUE, recorded |-> 3, first |-> <<>>, ads |-> <<>>]

MCFiles == {Sparse, Short, Inside}
PlainFile == {Plain}
=============================================================================
