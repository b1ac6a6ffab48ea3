---------------------------- MODULE MCVolumeOpen ----------------------------
(* Small discs for VolumeOpen: blocks 1 to 3 are the recognition area, the *)
(* anchor is block 4.                                                      *)
EXTENDS VolumeOpen, TLC

At(l, n) == [lba |-> l, blocks |-> n]
Recognition == 1 :> [tag |-> "bea"] @@ 2 :> [tag |-> "nsr"] @@ 3 :> [tag |-> "tea"]
AnchorTo(main, reserve) == [tag |-> "avdp", main |-> main, reserve |-> reserve]
Pvd == [tag |-> "pvd", id |-> "disc"]
Pd(n, start) == [tag |-> "pd", number |-> n, start |-> start]
Lvd(p, maps) ==
  [tag |-> "lvd", valid |-> TRUE, maps |-> maps, fsd |-> [part |-> p, lba |-> 0, blocks |-> 2]]
Td == [tag |-> "td"]
Fsd(p) == [tag |-> "fsd", icb |-> [part |-> p, lba |-> 1]]
Dir == [tag |-> "fe", dir |-> TRUE, at |-> 2]
List(s) == [tag |-> "fid", names |-> s]
Type1(ref) == [type |-> "type1", ref |-> ref]
Type2(l, m) == [type |-> "type2", lba |-> l, mirror |-> m]
Efe(type, ad) == [tag |-> "efe", type |-> type, ad |-> ad]

(* Metadata partition with mirror, both sequences, a second anchor.        *)
Mirrored ==
  [size |-> 22,
   block |-> Recognition
     @@ 4 :> AnchorTo(At(5, 4), At(9, 3)) @@ 21 :> AnchorTo(At(5, 4), At(9, 3))
     @@ 5 :> Pvd @@ 6 :> Pd(0, 12) @@ 7 :> Lvd(1, <<Type1(0), Type2(0, 1)>>) @@ 8 :> Td
     @@ 9 :> Pvd @@ 10 :> Pd(0, 12) @@ 11 :> Lvd(1, <<Type1(0), Type2(0, 1)>>)
     @@ 12 :> Efe("metadata", 2) @@ 13 :> Efe("mirror", 5)
     @@ 14 :> Fsd(1) @@ 15 :> Dir @@ 16 :> List(<<"a", "b">>)
     @@ 17 :> Fsd(1) @@ 18 :> Dir @@ 19 :> List(<<"a", "b">>)]

(* Two partitions, a pointer between the extents of the main sequence.     *)
Pointed ==
  [size |-> 0,
   block |-> Recognition
     @@ 4 :> AnchorTo(At(5, 3), At(11, 3))
     @@ 5 :> Pd(5, 14) @@ 6 :> [tag |-> "vdp", next |-> At(8, 3)]
     @@ 8 :> Pd(7, 17) @@ 9 :> Lvd(1, <<[type |-> "other"], Type1(5), Type1(7)>>) @@ 10 :> Pvd
     @@ 11 :> Pvd @@ 12 :> Pd(7, 17) @@ 13 :> Lvd(0, <<Type1(7), [type |-> "broken"]>>)
     @@ 14 :> Fsd(1) @@ 15 :> Dir @@ 16 :> List(<<"a">>)
     @@ 17 :> Fsd(0) @@ 18 :> Dir @@ 19 :> List(<<"c">>)]

(* A damaged root directory; no reserve sequence.                          *)
DamagedRoot ==
  [size |-> 13,
   block |-> Recognition
     @@ 12 :> AnchorTo(At(5, 4), At(0, 0))
     @@ 5 :> Lvd(0, <<Type1(0)>>) @@ 6 :> Pvd @@ 7 :> Pd(0, 9) @@ 8 :> Td
     @@ 9 :> Fsd(0) @@ 10 :> Dir @@ 11 :> List(<<"a", "junk", "b">>)]

(* As Mirrored, with the metadata files elsewhere and no root directory.   *)
Elsewhere ==
  [size |-> 0,
   block |-> Recognition
     @@ 4 :> AnchorTo(At(5, 3), At(0, 0))
     @@ 5 :> Pvd @@ 6 :> Pd(0, 8) @@ 7 :> Lvd(1, <<Type1(0), Type2(0, 1)>>)
     @@ 8 :> Efe("metadata", 22) @@ 9 :> Efe("mirror", 32)
     @@ 30 :> Fsd(1) @@ 40 :> Fsd(1)]

MCRequests == {-2, -1, 7}
FirstOnly == {-1}

MCContent ==
  [mirrored |-> Mirrored, pointed |-> Pointed, damaged |-> DamagedRoot,
   elsewhere |-> Elsewhere]
=============================================================================
