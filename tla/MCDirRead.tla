----------------------------- MODULE MCDirRead -----------------------------
(***************************************************************************)
(* Small directories for DirRead, beside the files of MCFiles.  With       *)
(* blocks of 8 bytes, 5 for an identifier and 3 for a tag, identifiers     *)
(* begin and end at, before and behind the border of a block.              *)
(***************************************************************************)
EXTENDS DirRead, MCFiles

AsFile(m) ==
  m @@ [dir |-> FALSE, mirror |-> FALSE, fids |-> <<>>, bytes |-> 0, at |-> 0, icb |-> 1]

Id(name) == [parent |-> FALSE, name |-> name, iu |-> 0, tag |-> TRUE]
Up == [Id(<<>>) EXCEPT !.parent = TRUE]
NA == <<8, 65>>
NNul == <<8, 0, 255>>
NWide == <<16, 7, 254, 8, 0>>
NOdd == <<16, 7, 255, 65>>
NEmpty == <<16>>
NOther == <<254, 65>>
MCDirNames == {<<>>, NA, NNul, NWide, NOdd, NEmpty, NOther}

Length(fids) ==
  LET n[k \in 0 .. Len(fids)] ==
        IF k = 0 THEN 0 ELSE n[k - 1] + 2 * ((6 + Len(fids[k].name) + fids[k].iu) \div 2)
  IN n[Len(fids)]
Dir(entry, part, fids) ==
  [blocks |-> 1, entry |-> entry, part |-> part, dir |-> TRUE, mirror |-> TRUE,
   fids |-> fids, bytes |-> Length(fids), at |-> 20, icb |-> 1]

Some == <<Up, Id(NA), [Id(NWide) EXCEPT !.iu = 1], Id(<<>>), Id(NNul)>>
Extent == File(<<At(20, 5)>>)
Inside == [Extent EXCEPT !.inline = TRUE, !.tag = "efe"]
Far == 50 :> Aed(<<At(20, 5)>>)

Flat == Dir(Extent, <<>>, Some)
Alone == [Flat EXCEPT !.mirror = FALSE]
Behind == Dir(File(<<More(50)>>), Far, <<Up, Id(NNul), Id(NA)>>)
Stuck == [Behind EXCEPT !.part[50].tag = "other"]
Names3 == Dir(Inside, <<>>, <<Id(NEmpty), Id(NOdd), Id(NOther), Id(NA)>>)
Cut == [Flat EXCEPT !.bytes = @ - 2]
Bad == Dir(Extent, <<>>, <<Id(NA), [Id(NA) EXCEPT !.tag = FALSE], Id(NNul)>>)
Nil == Dir(Extent, <<>>, <<>>)
Pieces == [Dir(File(<<At(20, 2), At(30, 2)>>), <<>>, <<Id(NA), Id(NNul), Up, Id(NA)>>) EXCEPT !.bytes = 16]

(* Every position of two identifiers against the borders of the blocks.    *)
Layouts ==
  {Dir(Extent, <<>>, <<Up, [Id(x) EXCEPT !.iu = i], [Id(y) EXCEPT !.iu = j]>>) :
     x \in {NA, NNul, NWide}, y \in {NA, NNul, NWide}, i \in 0 .. 2, j \in 0 .. 1}

MCDirs ==
  Layouts \cup {Flat, Alone, Behind, Stuck, Names3, Cut, Bad, Nil, Pieces} \cup {AsFile(m) : m \in MCMedia}

(* The decoders over lengths up to a word of 512, of which some wrap.      *)
Lengths == 0 .. 24 \cup {40, 100, 199, 200, 255, 256, 295, 296, 297, 335, 336, 337, 510, 511}
Sizes == {0, 23, 24, 25, 64, 176, 177, 216, 256, 300, 400, 512}
ASSUME EntriesCheck ==
  \A fixed \in Fixed, l_ea \in Lengths, l_ad \in Lengths, sz \in Sizes, t \in AdTypes :
    EntryAccepted(fixed, l_ea, l_ad, sz) =>
      /\ From(PAd(fixed, l_ea), l_ad) \subseteq From(0, sz)
      /\ AdsRead(t, PAd(fixed, l_ea), NumAd(t, l_ad)) \subseteq From(0, sz)
      /\ AdsStored(0, NumAd(t, l_ad)) \subseteq From(0, EntrySize(NumAd(t, l_ad), l_ad))
ASSUME ExtentsCheck ==
  \A l_ad \in Lengths, sz \in Sizes, t \in AdTypes, n \in 0 .. 3 :
    ExtentAccepted(l_ad, sz) =>
      /\ AdsRead(t, ExtentHead, NumAd(t, l_ad)) \subseteq From(0, sz)
      /\ AdsStored(n, NumAd(t, l_ad)) \subseteq From(0, ExtentSize(n, NumAd(t, l_ad)))
ASSUME MapsCheck ==
  \A label \in {0, 2, 3, 6, 70, 1608, 1609, 2048, 2049, 4000}, map \in {0, 1, 6, 64, 1605, 1984, 2044, 2046} :
    MapGoes(map, label) =>
      /\ MapHead(map) \subseteq From(0, Table)
      /\ \A type \in 1 .. 2, len \in {0, 1, 2, 6, 64, 255} :
           MapAccepted(map, len, label) => MapBody(map, type, len) \subseteq From(0, Table)
=============================================================================
