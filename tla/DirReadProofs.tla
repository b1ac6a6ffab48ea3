---------------------------- MODULE DirReadProofs ----------------------------
(***************************************************************************)
(* What udf_read_dir returns, for every directory, block size and pattern  *)
(* of unreadable blocks and failed allocations (DirRead.tla).              *)
(*                                                                         *)
(* The parser only ever stands at the border of two identifiers: DInv says *)
(* which of them it has passed, and that the entries are those of them     *)
(* that a listing shows.                                                   *)
(***************************************************************************)
EXTENDS DirRead, DirPartsProofs

-----------------------------------------------------------------------------
(* A directory as it is recorded: the borders of its identifiers, and its  *)
(* blocks.                                                                 *)
Count(m) == Len(m.fids)
Edges(m) == Sums([k \in DOMAIN m.fids |-> Occupies(m.fids[k])])
EndOf(m, k) == Edges(m)[k - 1] + Needs(m.fids[k])
Blocks(m) == (m.bytes + BS - 1) \div BS
IsShown(m, k) == ~m.fids[k].parent /\ UnitCount(m.fids[k].name) > 0
IsListed(m, k) == IsShown(m, k) /\ EndOf(m, k) <= m.bytes

LEMMA FidIs ==
  ASSUME NEW m \in Media, NEW k \in 1 .. Count(m)
  PROVE  /\ m.fids[k] \in Fid /\ m.fids[k].name \in Names /\ m.fids[k].name \in Seq(Byte)
         /\ Needs(m.fids[k]) \in Nat /\ TagSize < Needs(m.fids[k])
         /\ Occupies(m.fids[k]) \in Nat /\ Needs(m.fids[k]) <= Occupies(m.fids[k])
<1> DEFINE f == m.fids[k]
<1>1. m.fids \in Seq(Fid) /\ k \in DOMAIN m.fids /\ f \in Fid
  BY DirsAssumption DEF Count
<1>2. f.name \in Names /\ f.name \in Seq(Byte) /\ f.iu \in Nat
  BY <1>1, DirsAssumption DEF Fid
<1> HIDE DEF f
<1>3. Len(f.name) \in Nat /\ f.iu \in Nat
  BY <1>2
<1>4. /\ TagSize \in Nat /\ FidHead \in Nat /\ TagSize < FidHead /\ Pad \in Nat /\ Pad > 0
  BY LayoutAssumption, DecodeAssumption
<1>5. Needs(f) = FidHead + Len(f.name) + f.iu
  BY DEF Needs, FidNeeds
<1>6. Needs(f) \in Nat /\ TagSize < Needs(f)
  BY <1>3, <1>4, <1>5
<1>7. Occupies(f) = Pad * ((Needs(f) + Pad - 1) \div Pad)
  BY DEF Occupies, FidOccupies, Needs
<1>8. Needs(f) + Pad - 1 \in Nat
  BY <1>4, <1>6
<1>9. /\ Occupies(f) \in Nat /\ Needs(f) + Pad - 1 < Occupies(f) + Pad
  <2> DEFINE x == Needs(f) + Pad - 1
  <2> DEFINE o == Pad * (x \div Pad)
  <2>1. x \in Nat /\ o \in Nat /\ x < o + Pad
    BY <1>8, Rounded
  <2>2. Occupies(f) = o
    BY <1>7
  <2> QED
    BY <2>1, <2>2
<1>10. Needs(f) <= Occupies(f)
  BY <1>4, <1>6, <1>9
<1> QED
  BY <1>1, <1>2, <1>6, <1>9, <1>10 DEF f

LEMMA EdgesAre ==
  ASSUME NEW m \in Media
  PROVE  /\ Count(m) \in Nat
         /\ DOMAIN m.fids = 1 .. Count(m)
         /\ Edges(m) \in [0 .. Count(m) -> Nat]
         /\ Edges(m)[0] = 0
         /\ \A k \in 1 .. Count(m) : Edges(m)[k] = Edges(m)[k - 1] + Occupies(m.fids[k])
         /\ \A i, j \in 0 .. Count(m) : i <= j => Edges(m)[i] <= Edges(m)[j]
         /\ \A k \in 1 .. Count(m) : Edges(m)[k - 1] < EndOf(m, k) /\ EndOf(m, k) <= Edges(m)[k]
         /\ \A k \in 1 .. Count(m) : EndOf(m, k) \in Nat
<1> DEFINE w == [k \in 1 .. Count(m) |-> Occupies(m.fids[k])]
<1>1. m.fids \in Seq(Fid) /\ Count(m) \in Nat /\ DOMAIN m.fids = 1 .. Count(m)
  BY DirsAssumption DEF Count
<1>2. Edges(m) = Sums(w)
  BY <1>1 DEF Edges
<1>3. \A k \in 1 .. Count(m) : Occupies(m.fids[k]) \in Nat
  BY FidIs
<1>4. w \in Seq(Nat) /\ Len(w) = Count(m) /\ \A k \in 1 .. Count(m) : w[k] = Occupies(m.fids[k])
  BY <1>1, <1>3
<1> HIDE DEF w
<1>5. /\ Sums(w) \in [0 .. Len(w) -> Nat]
      /\ Sums(w)[0] = 0
      /\ \A i \in 1 .. Len(w) : Sums(w)[i] = Sums(w)[i - 1] + w[i]
  BY <1>4, SumsAre
<1>6. \A i, j \in 0 .. Len(w) : i <= j => Sums(w)[i] <= Sums(w)[j]
  BY <1>4, SumsGrow
<1>7. ASSUME NEW k \in 1 .. Count(m)
      PROVE  Edges(m)[k - 1] < EndOf(m, k) /\ EndOf(m, k) <= Edges(m)[k] /\ EndOf(m, k) \in Nat
  <2>1. k - 1 \in 0 .. Len(w) /\ Edges(m)[k - 1] \in Nat
    BY <1>1, <1>2, <1>4, <1>5
  <2>2. Edges(m)[k] = Edges(m)[k - 1] + Occupies(m.fids[k])
    BY <1>2, <1>4, <1>5
  <2>3. TagSize \in Nat
    BY LayoutAssumption
  <2> QED
    BY <2>1, <2>2, <2>3, FidIs DEF EndOf
<1> QED
  BY <1>1, <1>2, <1>4, <1>5, <1>6, <1>7

LEMMA DivMod ==
  ASSUME NEW x \in Nat
  PROVE  /\ x \div BS \in Nat
         /\ x % BS \in 0 .. BS - 1
         /\ x = BS * (x \div BS) + (x % BS)
  BY LayoutAssumption

(* A block of a directory that is not empty.                               *)
LEMMA BlockOf ==
  ASSUME NEW m \in Media, NEW p \in Nat, p < m.bytes
  PROVE  p \div BS \in Nat /\ p \div BS + 1 \in 1 .. Blocks(m)
<1>0. BS \in Nat /\ BS > 0 /\ m.bytes \in Nat
  BY LayoutAssumption, DirsAssumption
<1> DEFINE y == m.bytes + BS - 1
           q == p \div BS
           r == p % BS
           n == y \div BS
           s == y % BS
<1>1. y \in Nat
  BY <1>0
<1>2. q \in Nat /\ r \in 0 .. BS - 1 /\ p = BS * q + r
  BY <1>0
<1>3. n \in Nat /\ s \in 0 .. BS - 1 /\ y = BS * n + s
  BY <1>1, DivMod
<1>4. y = (m.bytes + BS) - 1
  BY <1>0
<1>5. Blocks(m) = n
  BY DEF Blocks
<1> HIDE DEF q, r, n, s, y
<1>6. BS * q \in Nat /\ BS * n \in Nat
  BY <1>0, <1>2, <1>3
<1>7. BS * q < BS * n
  BY <1>0, <1>2, <1>3, <1>4, <1>6
<1>8. q < n
  BY <1>0, <1>2, <1>3, <1>7
<1> QED
  BY <1>2, <1>3, <1>5, <1>8 DEF q

LEMMA BlocksNat == ASSUME NEW m \in Media PROVE Blocks(m) \in Nat
<1>0. BS \in Nat /\ BS > 0 /\ m.bytes \in Nat
  BY LayoutAssumption, DirsAssumption
<1>1. m.bytes + BS - 1 \in Nat
  BY <1>0
<1> QED
  BY <1>0, <1>1 DEF Blocks

-----------------------------------------------------------------------------
(* What the entries f say of the recorded directory m; and that they are   *)
(* complete ones of the first n identifiers and, if memory was not short,  *)
(* all that a listing shows of these.                                      *)
Right(m, f) ==
  /\ \A i \in DOMAIN f :
       /\ f[i].fid \in 1 .. Count(m) /\ IsShown(m, f[i].fid)
       /\ [k \in DOMAIN f[i].name |-> Decoded(f[i].name[k])] = Units(m.fids[f[i].fid].name)
  /\ \A i, j \in DOMAIN f : i < j => f[i].fid < f[j].fid
ListedTo(m, f, n, s) ==
  /\ \A i \in DOMAIN f : f[i].fid <= n /\ EndOf(m, f[i].fid) <= m.bytes
  /\ ~s => \A k \in 1 .. n : IsListed(m, k) => \E i \in DOMAIN f : f[i].fid = k

(* The buffer is filled from one place on.                                 *)
First(m, e) == IF e.inline THEN m.at ELSE e.ads[1].lba
Filled(m, e, d) == \A b \in DOMAIN d : d[b] = First(m, e) + (b - 1)

(* Both copies of a block are bad; a directory as it should be.            *)
Unreadable(m, b) ==
  \E place \in Places(m) : <<"main", place>> \in b /\ (m.mirror => <<"mirror", place>> \in b)
List(m) == Chain(m)[MaxParts].list
Proper(m) ==
  /\ m.dir /\ m.entry.tag \in {"fe", "efe"} /\ m.entry.valid
  /\ \A a \in DOMAIN m.part : m.part[a].tag = "aed" /\ m.part[a].valid
  /\ m.entry.inline \/ (m.bytes > 0 /\ List(m) # <<>> /\ List(m)[1].lba = m.at)
  /\ \A k \in 1 .. Count(m) : m.fids[k].tag
  /\ Count(m) > 0 => m.bytes <= EndOf(m, Count(m)) + TagSize
  /\ Count(m) = 0 => m.bytes <= TagSize

Entry(m) == [fid : 0 .. Count(m), name : Seq(Seq(Nat))]
DTypes ==
  /\ bad \in Faults(medium)
  /\ dpc \in {"none", "entry", "blocks", "parse", "name", "done"}
  /\ data \in Seq(Nat) /\ Len(data) <= Blocks(medium)
  /\ off \in Nat /\ cur \in 0 .. Count(medium)
  /\ files \in Seq(Entry(medium))
  /\ num \in Nat /\ result \in {0, -1} /\ short \in BOOLEAN

(* Before the parser runs.                                                 *)
Empty == off = 0 /\ files = <<>> /\ num = 0
Buffered == pc = "open" /\ (~fe.inline => fe.ads # <<>>) /\ Filled(medium, fe, data)
Full == Buffered /\ Len(data) = Blocks(medium) /\ num = Len(files)

(* Between two identifiers, and in the name of one.                        *)
Between == \E n \in 0 .. Count(medium) : off = Edges(medium)[n] /\ ListedTo(medium, files, n, short)
Naming ==
  /\ cur \in 1 .. Count(medium) /\ off = Edges(medium)[cur]
  /\ ListedTo(medium, files, cur - 1, short)
  /\ First(medium, fe) = medium.at
  /\ EndOf(medium, cur) <= medium.bytes /\ ~medium.fids[cur].parent
  /\ cs0 = medium.fids[cur].name /\ cs0 # <<>>
AllListed == num = Len(files) /\ ListedTo(medium, files, Count(medium), FALSE)

Stages ==
  /\ dpc \in {"none", "entry"} => Empty /\ data = <<>>
  /\ dpc = "blocks" => Empty /\ Buffered /\ ~fe.inline
  /\ dpc = "parse" => Full /\ Between
  /\ dpc = "name" => Full /\ Naming
  /\ dpc = "done" /\ result = 0 /\ ~short => AllListed

(* Nothing goes wrong as long as a copy of each block can be read.         *)
Readable ==
  Proper(medium) /\ ~short /\ ~Unreadable(medium, bad) =>
    /\ dpc = "entry" => pc # "closed"
    /\ dpc \in {"entry", "blocks", "parse", "name"} /\ pc = "open" /\ ~fe.inline => fe.ads = List(medium)
    /\ dpc = "done" => result = 0

DInv == FInv /\ CInv /\ DTypes /\ Right(medium, files) /\ Stages /\ Readable

-----------------------------------------------------------------------------
(* The properties of DirRead, in these terms.                              *)
LEMMA DirIs ==
  /\ medium \in Media =>
       /\ NumBlocks = Blocks(medium)
       /\ \A k \in 1 .. Count(medium) : Begins[k] = Edges(medium)[k - 1]
       /\ EntriesAreRight <=> Right(medium, files)
       /\ Listing = {k \in 1 .. Count(medium) : IsListed(medium, k)}
       /\ WellRecorded <=> Proper(medium)
<1> SUFFICES ASSUME medium \in Media
             PROVE  /\ NumBlocks = Blocks(medium)
                    /\ \A k \in 1 .. Count(medium) : Begins[k] = Edges(medium)[k - 1]
                    /\ EntriesAreRight <=> Right(medium, files)
                    /\ Listing = {k \in 1 .. Count(medium) : IsListed(medium, k)}
                    /\ WellRecorded <=> Proper(medium)
  OBVIOUS
<1>0. DOMAIN medium.fids = 1 .. Count(medium) /\ Count(medium) \in Nat
  BY EdgesAre
<1>1. NumBlocks = Blocks(medium)
  BY DEF NumBlocks, Blocks
<1>2. \A k \in 1 .. Count(medium) : Begins[k] = Edges(medium)[k - 1]
  BY <1>0 DEF Begins, Edges
<1>3. \A k \in 1 .. Count(medium) : Begins[k] + Needs(medium.fids[k]) = EndOf(medium, k)
  BY <1>2 DEF EndOf
<1>4. \A k : Shown(k) <=> IsShown(medium, k)
  BY DEF Shown, IsShown
<1>5. \A k \in 1 .. Count(medium) : Complete(k) <=> EndOf(medium, k) <= medium.bytes
  BY <1>3 DEF Complete
<1>6. EntriesAreRight <=> Right(medium, files)
  BY <1>0, <1>4 DEF EntriesAreRight, Right
<1>7. Listing = {k \in 1 .. Count(medium) : IsListed(medium, k)}
  BY <1>0, <1>4, <1>5 DEF Listing, IsListed
<1>8. Whole = List(medium)
  BY DEF Whole, List
<1>9. medium.fids = <<>> <=> Count(medium) = 0
  <2>1. medium.fids \in Seq(Fid)
    BY DirsAssumption
  <2> QED
    BY <2>1 DEF Count
<1>10. (\A k \in DOMAIN medium.fids :
          k = Len(medium.fids) => medium.bytes <= Begins[k] + Needs(medium.fids[k]) + TagSize)
       <=> (Count(medium) > 0 => medium.bytes <= EndOf(medium, Count(medium)) + TagSize)
  <2> DEFINE c == Count(medium)
  <2>1. \A k \in DOMAIN medium.fids : k = Len(medium.fids) <=> k = c
    BY DEF Count
  <2>2. c > 0 <=> c \in DOMAIN medium.fids
    BY <1>0
  <2>3. c \in DOMAIN medium.fids => (Begins[c] + Needs(medium.fids[c])) + TagSize = EndOf(medium, c) + TagSize
    BY <1>0, <1>3
  <2> QED
    BY <2>1, <2>2, <2>3
<1>11. WellRecorded <=> Proper(medium)
  BY <1>0, <1>8, <1>9, <1>10 DEF WellRecorded, Proper
<1> QED
  BY <1>1, <1>2, <1>6, <1>7, <1>11

LEMMA FaultsAre ==
  ASSUME NEW m \in Media
  PROVE  Faults(m) \subseteq SUBSET (Copies \X Nat)
<1>1. Places(m) \subseteq Nat
  <2>1. m.icb \in Nat /\ DOMAIN m.part \subseteq Nat /\ m.at \in Nat
    BY MediaAssumption, DirsAssumption
  <2> QED
    BY <2>1 DEF Places
<1> QED
  BY <1>1 DEF Faults, Copies

LEMMA DInvImplies ==
  DInv => DirTypeOK /\ ListIsWhole /\ NoWrongBlock /\ EntriesAreRight /\ DirIsWhole /\ OneCopyOfEach
<1> SUFFICES ASSUME DInv
             PROVE  DirTypeOK /\ ListIsWhole /\ NoWrongBlock /\ EntriesAreRight /\ DirIsWhole /\ OneCopyOfEach
  OBVIOUS
<1>1. TypeOK /\ ListIsWhole /\ NoWrongBlock /\ CTypeOK /\ medium \in Media
  BY FInvImplies DEF DInv, CInv, TypeOK
<1>2. /\ NumBlocks = Blocks(medium)
      /\ EntriesAreRight <=> Right(medium, files)
      /\ Listing = {k \in 1 .. Count(medium) : IsListed(medium, k)}
      /\ WellRecorded <=> Proper(medium)
  BY <1>1, DirIs
<1>3. DirTypeOK
  BY <1>1, <1>2, FaultsAre DEF DirTypeOK, DInv, DTypes, Entry, Count
<1>4. EntriesAreRight
  BY <1>2 DEF DInv
<1>5. DirIsWhole
  <2> SUFFICES ASSUME dpc = "done", result = 0, ~short
               PROVE  num = Len(files) /\ {files[i].fid : i \in DOMAIN files} = Listing
    BY DEF DirIsWhole
  <2>1. AllListed /\ Right(medium, files)
    BY DEF DInv, Stages
  <2>2. ASSUME NEW i \in DOMAIN files PROVE files[i].fid \in Listing
    <3>1. files[i].fid \in 1 .. Count(medium) /\ IsShown(medium, files[i].fid)
      BY <2>1 DEF Right
    <3> QED
      BY <1>2, <2>1, <3>1 DEF AllListed, ListedTo, IsListed
  <2>3. ASSUME NEW k \in Listing PROVE \E i \in DOMAIN files : files[i].fid = k
    BY <1>2, <2>1 DEF AllListed, ListedTo
  <2> QED
    BY <2>1, <2>2, <2>3 DEF AllListed
<1>6. OneCopyOfEach
  BY <1>2 DEF OneCopyOfEach, DInv, Readable, Unreadable
<1> QED
  BY <1>1, <1>3, <1>4, <1>5, <1>6

-----------------------------------------------------------------------------
(* The steps.  First what they do to the parts.                            *)
LEMMA DInvInit == DirInit => DInv
<1> SUFFICES ASSUME DirInit PROVE DInv
  OBVIOUS
<1>1. FInv /\ CInv /\ medium \in Media
  BY FInvInit, CInvInit DEF DirInit, FInv, TypeOK
<1>2. Count(medium) \in Nat /\ Blocks(medium) \in Nat
  BY <1>1, EdgesAre, BlocksNat
<1>3. DTypes
  <2>1. <<>> \in Seq(Entry(medium)) /\ <<>> \in Seq(Nat) /\ Len(<<>>) <= Blocks(medium) /\ 0 \in 0 .. Count(medium)
    BY <1>2
  <2> QED
    BY <2>1 DEF DirInit, DTypes
<1> QED
  BY <1>1, <1>3 DEF DirInit, DInv, Right, Stages, Empty, Readable

LEMMA PartsNext ==
  ASSUME DInv, [DirNext]_allvars
  PROVE  FInv' /\ CInv' /\ medium' = medium /\ bad' = bad
<1>0. FInv /\ CInv /\ medium \in Media
  BY DEF DInv, FInv, TypeOK
<1>1. [Next]_vars \/ FreeEntry => FInv'
  BY <1>0, FInvStep
<1>2. [CNext]_cvars => CInv'
  BY <1>0, CInvNext
<1>3. ASSUME UNCHANGED vars PROVE FInv' /\ medium' = medium
  BY <1>1, <1>3 DEF vars
<1>4. ASSUME UNCHANGED cvars PROVE CInv'
  BY <1>2, <1>4
<1>5. ASSUME NEW r, End(r) PROVE FInv' /\ medium' = medium /\ bad' = bad
  <2>1. FreeEntry
    BY <1>5 DEF End, FreeEntry
  <2> QED
    BY <1>1, <1>5, <2>1 DEF End
<1>6. ASSUME Work \/ Call PROVE FInv' /\ medium' = medium
  <2>1. Next
    BY <1>6 DEF Next
  <2>2. medium' = medium
    BY <1>6 DEF Call, Work, _file_open, ReadBlock, udfread_file_close,
           EntryFails, ReadEntry, ReadPart, PartFails, ChainEnd
  <2> QED
    BY <1>1, <2>1, <2>2
<1>7. CASE udf_read_dir
  <2>1. _file_open
    BY <1>7 DEF udf_read_dir, _file_open
  <2> QED
    BY <1>4, <1>6, <1>7, <2>1 DEF udf_read_dir, Call
<1>8. CASE Returned
  BY <1>3, <1>4, <1>8 DEF Returned
<1>9. CASE EntryOfDir
  <2>1. Work
    BY <1>9 DEF EntryOfDir, Work
  <2> QED
    BY <1>4, <1>6, <1>9, <2>1 DEF EntryOfDir
<1>10. CASE NoDirectory
  BY <1>4, <1>5, <1>10 DEF NoDirectory
<1>11. CASE Inline \/ FirstExtent
  BY <1>3, <1>4, <1>11 DEF Inline, FirstExtent
<1>12. CASE NoBuffer
  BY <1>4, <1>5, <1>12 DEF NoBuffer
<1>13. CASE ReadBlockOfDir \/ BlocksDone
  BY <1>3, <1>4, <1>13 DEF ReadBlockOfDir, BlocksDone
<1>14. CASE BlockFails
  BY <1>4, <1>5, <1>14 DEF BlockFails
<1>15. CASE ParseEnds \/ WrongTag \/ NoArray
  BY <1>4, <1>5, <1>15 DEF ParseEnds, WrongTag, NoArray
<1>16. ASSUME NEW k \in DOMAIN medium.fids, Skip(k) PROVE FInv' /\ CInv' /\ medium' = medium /\ bad' = bad
  BY <1>3, <1>4, <1>16 DEF Skip
<1>17. ASSUME NEW k \in DOMAIN medium.fids, NameBegins(k)
       PROVE  FInv' /\ CInv' /\ medium' = medium /\ bad' = bad
  <2>1. medium.fids[k].name \in Names
    BY <1>0, DirsAssumption
  <2>2. CInv'
    BY <1>0, <1>17, <2>1, BeginKeeps DEF NameBegins
  <2> QED
    BY <1>3, <1>17, <2>2 DEF NameBegins
<1>18. CASE NameConverts
  <2>1. CNext
    BY <1>18 DEF NameConverts, CNext
  <2>2. UNCHANGED vars /\ UNCHANGED dvars
    BY <1>18 DEF NameConverts
  <2>3. bad' = bad
    BY <2>2 DEF dvars
  <2> QED
    BY <1>2, <1>3, <2>1, <2>2, <2>3
<1>19. CASE NameEnds
  <2>1. CNext
    BY <1>19 DEF NameEnds, CNext
  <2> QED
    BY <1>2, <1>3, <1>19, <2>1 DEF NameEnds
<1>20. CASE FileWork \/ FileCall
  BY <1>4, <1>6, <1>20 DEF FileWork, FileCall, dvars
<1>21. CASE UNCHANGED allvars
  BY <1>3, <1>4, <1>21 DEF allvars, dvars
<1> QED
  BY <1>7, <1>8, <1>9, <1>10, <1>11, <1>12, <1>13, <1>14, <1>15, <1>16, <1>17, <1>18, <1>19,
     <1>20, <1>21 DEF DirNext, DirWork, Parse

(* udf_read_dir returns.                                                   *)
LEMMA EndKeeps ==
  ASSUME DInv, FInv', CInv', medium' = medium,
         NEW r \in {0, -1}, End(r), short' \in BOOLEAN,
         files' = files \/ files' = <<>>,
         r = 0 /\ ~short' => AllListed /\ files' = files,
         Proper(medium) /\ ~short' /\ ~Unreadable(medium, bad) => r = 0
  PROVE  DInv'
<1>1. /\ dpc' = "done" /\ result' = r
      /\ bad' = bad /\ data' = data /\ off' = off /\ cur' = cur /\ num' = num
  BY DEF End
<1>2. DTypes'
  <2>1. files' \in Seq(Entry(medium))
    <3>1. <<>> \in Seq(Entry(medium))
      OBVIOUS
    <3> QED
      BY <3>1 DEF DInv, DTypes
  <2> QED
    BY <1>1, <2>1 DEF DInv, DTypes
<1>3. Right(medium, files')
  BY DEF DInv, Right
<1>4. Stages'
  BY <1>1 DEF Stages, AllListed
<1>5. Readable'
  BY <1>1 DEF Readable
<1> QED
  BY <1>1, <1>2, <1>3, <1>4, <1>5 DEF DInv

LEMMA BeginsKeeps == ASSUME DInv, FInv', CInv', medium' = medium, udf_read_dir PROVE DInv'
<1>1. /\ dpc = "none" /\ dpc' = "entry" /\ pc' = "entry" /\ bad' = bad /\ data' = data /\ off' = off
      /\ cur' = cur /\ files' = files /\ num' = num /\ result' = result /\ short' = short
  BY DEF udf_read_dir
<1>2. DTypes' /\ Right(medium', files') /\ Stages' /\ Readable'
  BY <1>1 DEF DInv, DTypes, Stages, Empty, Readable
<1> QED
  BY <1>2 DEF DInv

LEMMA ReturnedKeeps == ASSUME DInv, FInv', CInv', medium' = medium, Returned PROVE DInv'
<1>1. /\ dpc' = "none" /\ bad' = bad /\ data' = <<>> /\ off' = 0
      /\ cur' = 0 /\ files' = <<>> /\ num' = 0 /\ result' = 0 /\ short' = FALSE
  BY DEF Returned
<1>2. medium \in Media
  BY DEF DInv, FInv, TypeOK
<1>3. Count(medium) \in Nat /\ Blocks(medium) \in Nat
  BY <1>2, EdgesAre, BlocksNat
<1>4. DTypes'
  <2>1. <<>> \in Seq(Entry(medium)) /\ <<>> \in Seq(Nat) /\ Len(<<>>) <= Blocks(medium) /\ 0 \in 0 .. Count(medium)
    BY <1>3
  <2>2. bad \in Faults(medium)
    BY DEF DInv, DTypes
  <2> QED
    BY <1>1, <2>1, <2>2 DEF DTypes
<1>5. Right(medium, <<>>)
  BY DEF Right
<1>6. Stages' /\ Readable'
  BY <1>1 DEF Stages, Empty, Readable
<1> QED
  BY <1>1, <1>4, <1>5, <1>6 DEF DInv

(* The same file entry as a file.                                          *)
LEMMA FileKeeps ==
  ASSUME DInv, FInv', CInv', medium' = medium, dpc = "none", UNCHANGED dvars PROVE DInv'
<1>1. /\ dpc' = "none" /\ bad' = bad /\ data' = data /\ off' = off
      /\ cur' = cur /\ files' = files /\ num' = num /\ result' = result /\ short' = short
  BY DEF dvars
<1>2. DTypes' /\ Right(medium', files') /\ Stages' /\ Readable'
  BY <1>1 DEF DInv, DTypes, Stages, Empty, Readable
<1> QED
  BY <1>2 DEF DInv

LEMMA SameKeeps == ASSUME DInv, FInv', CInv', UNCHANGED allvars PROVE DInv'
<1>1. /\ UNCHANGED vars /\ UNCHANGED cvars /\ UNCHANGED dvars
  BY DEF allvars
<1>2. /\ medium' = medium /\ pc' = pc /\ fe' = fe /\ cs0' = cs0
      /\ dpc' = dpc /\ bad' = bad /\ data' = data /\ off' = off
      /\ cur' = cur /\ files' = files /\ num' = num /\ result' = result /\ short' = short
  BY <1>1 DEF vars, cvars, dvars
<1>3. DTypes' /\ Right(medium', files') /\ Readable'
  BY <1>2 DEF DInv, DTypes, Readable
<1>4. Stages'
  BY <1>2 DEF DInv, Stages, Empty, Buffered, Full, Between, Naming, AllListed
<1> QED
  BY <1>3, <1>4 DEF DInv

(* A block without a copy.                                                 *)
LEMMA NoCopy ==
  ASSUME NEW place \in Places(medium), NEW i, ~HasCopy(place, i)
  PROVE  Unreadable(medium, bad)
BY DEF HasCopy, Tried, Copies, Unreadable

(* udf_read_file_entry.                                                    *)
LEMMA EntryKeeps == ASSUME DInv, FInv', CInv', medium' = medium, EntryOfDir PROVE DInv'
<1>0. FInv /\ DTypes /\ Stages /\ Readable /\ medium \in Media
  BY DEF DInv, FInv, TypeOK
<1>1. /\ dpc = "entry" /\ dpc' = dpc /\ bad' = bad /\ data' = data /\ off' = off
      /\ cur' = cur /\ files' = files /\ num' = num /\ result' = result
  BY DEF EntryOfDir
<1>2. short' \in BOOLEAN /\ (short => short')
  BY <1>0 DEF EntryOfDir, Unless, DTypes
<1>3. DTypes' /\ Right(medium', files') /\ Stages'
  BY <1>0, <1>1, <1>2 DEF DInv, DTypes, Stages, Empty
<1>4. ASSUME Proper(medium), ~short', ~Unreadable(medium, bad)
      PROVE  pc' # "closed" /\ (pc' = "open" /\ ~fe'.inline => fe'.ads = List(medium))
  <2>0. ~short
    BY <1>2, <1>4
  <2>1. CASE ReadEntry
    <3>1. /\ pc' = IF medium.entry.inline THEN "open" ELSE "chain"
          /\ fe' = [inline |-> medium.entry.inline, ads |-> medium.entry.ads]
      BY <2>1 DEF ReadEntry, AfterEntry
    <3> QED
      BY <3>1
  <2>2. CASE EntryFails /\ Unless(BrokenEntry)
    <3>1. BrokenEntry
      BY <1>4, <2>2 DEF Unless
    <3>2. ~HasCopy(medium.icb, 0)
      BY <1>4, <3>1 DEF BrokenEntry, Proper
    <3>3. medium.icb \in Places(medium)
      BY DEF Places
    <3> QED
      BY <1>4, <3>2, <3>3, NoCopy
  <2>3. CASE ReadPart
    BY <2>3 DEF ReadPart
  <2>4. CASE PartFails /\ Unless(BrokenPart)
    <3>1. /\ BrokenPart /\ pc = "chain" /\ Continued /\ pc' = "open"
          /\ fe' = [fe EXCEPT !.ads = Dropped]
      BY <1>4, <2>4 DEF Unless, PartFails, AfterLoss
    <3>2. fe \in [inline : BOOLEAN, ads : Seq(Ad)]
      BY <1>0 DEF FInv, TypeOK
    <3>3. fe'.ads = Dropped
      BY <3>1, <3>2
    <3>4. CASE Pointer.lba \notin DOMAIN medium.part
      BY <1>0, <3>1, <3>3, <3>4, ListNow DEF Whole, List
    <3>5. CASE Pointer.lba \in DOMAIN medium.part
      <4>1. ~HasCopy(Pointer.lba, 0)
        BY <1>4, <3>1, <3>5 DEF BrokenPart, Proper
      <4>2. Pointer.lba \in Places(medium)
        BY <3>5 DEF Places
      <4> QED
        BY <1>4, <4>1, <4>2, NoCopy
    <3> QED
      BY <3>1, <3>4, <3>5
  <2>5. CASE ChainEnd
    <3>1. pc = "chain" /\ ~Continued /\ pc' = "open" /\ fe' = fe
      BY <2>5 DEF ChainEnd
    <3> QED
      BY <1>0, <3>1, ListNow DEF Whole, List
  <2> QED
    BY <2>1, <2>2, <2>3, <2>4, <2>5 DEF EntryOfDir
<1>5. Readable'
  BY <1>1, <1>4 DEF Readable
<1> QED
  BY <1>3, <1>5 DEF DInv

LEMMA NoDirectoryKeeps == ASSUME DInv, FInv', CInv', medium' = medium, NoDirectory PROVE DInv'
<1>1. End(-1) /\ files' = files /\ short' = short
  BY DEF NoDirectory
<1>2. ASSUME Proper(medium), ~short, ~Unreadable(medium, bad) PROVE FALSE
  <2>1. Readable /\ FInv
    BY DEF DInv
  <2>2. dpc = "entry" /\ pc # "closed"
    BY <1>2, <2>1 DEF Readable, NoDirectory, HasEntry
  <2>3. pc = "open" /\ ~fe.inline /\ (fe.ads = <<>> \/ medium.bytes = 0)
    BY <1>2, <2>2 DEF Proper, NoDirectory, HasEntry
  <2>4. fe.ads = List(medium) /\ ~medium.entry.inline
    BY <1>2, <2>1, <2>2, <2>3 DEF Readable, FInv
  <2> QED
    BY <1>2, <2>3, <2>4 DEF Proper
<1>3. short \in BOOLEAN
  BY DEF DInv, DTypes
<1> QED
  BY <1>1, <1>2, <1>3, EndKeeps

LEMMA NoBufferKeeps == ASSUME DInv, FInv', CInv', medium' = medium, NoBuffer PROVE DInv'
<1>1. End(-1) /\ files' = files /\ short' = TRUE
  BY DEF NoBuffer
<1> QED
  BY <1>1, EndKeeps

LEMMA InlineKeeps == ASSUME DInv, FInv', CInv', medium' = medium, Inline PROVE DInv'
<1>0. /\ FInv /\ CInv /\ DTypes /\ Stages /\ Readable /\ Right(medium, files) /\ medium \in Media
  BY DEF DInv, FInv, TypeOK
<1>1. /\ dpc = "entry" /\ pc = "open" /\ fe.inline /\ dpc' = "parse"
      /\ data' = [b \in 1 .. NumBlocks |-> medium.at + b - 1]
      /\ UNCHANGED vars /\ bad' = bad /\ off' = off
      /\ cur' = cur /\ files' = files /\ num' = num /\ result' = result /\ short' = short
  BY DEF Inline, HasEntry
<1>2. pc' = pc /\ fe' = fe
  BY <1>1 DEF vars
<1>3. NumBlocks = Blocks(medium) /\ Blocks(medium) \in Nat /\ medium.at \in Nat /\ Count(medium) \in Nat
  BY <1>0, DirIs, BlocksNat, EdgesAre, DirsAssumption
<1>4. \A b \in 1 .. Blocks(medium) : medium.at + b - 1 \in Nat /\ medium.at + b - 1 = medium.at + (b - 1)
  BY <1>3
<1>5. data' \in Seq(Nat) /\ Len(data') = Blocks(medium) /\ DOMAIN data' = 1 .. Blocks(medium)
  BY <1>1, <1>3, <1>4
<1>6. First(medium, fe) = medium.at
  BY <1>1 DEF First
<1>7. Filled(medium, fe, data')
  BY <1>1, <1>3, <1>4, <1>5, <1>6 DEF Filled
<1>8. off = 0 /\ files = <<>> /\ num = 0
  BY <1>0, <1>1 DEF Stages, Empty
<1>9. Full'
  BY <1>1, <1>2, <1>5, <1>7, <1>8 DEF Full, Buffered
<1>10. ListedTo(medium, files, 0, short) /\ Edges(medium)[0] = 0 /\ 0 \in 0 .. Count(medium)
  BY <1>0, <1>3, <1>8, EdgesAre DEF ListedTo
<1>11. Between'
  BY <1>1, <1>8, <1>10 DEF Between
<1>12. DTypes'
  BY <1>0, <1>1, <1>5, <1>3 DEF DTypes
<1>13. Stages'
  BY <1>1, <1>9, <1>11 DEF Stages
<1>14. Readable'
  BY <1>1, <1>2 DEF Readable
<1> QED
  BY <1>0, <1>1, <1>12, <1>13, <1>14 DEF DInv

LEMMA FirstKeeps == ASSUME DInv, FInv', CInv', medium' = medium, FirstExtent PROVE DInv'
<1>0. /\ DTypes /\ Stages /\ Readable /\ Right(medium, files)
  BY DEF DInv
<1>1. /\ dpc = "entry" /\ pc = "open" /\ ~fe.inline /\ fe.ads # <<>> /\ dpc' = "blocks"
      /\ UNCHANGED vars /\ data' = data /\ bad' = bad /\ off' = off
      /\ cur' = cur /\ files' = files /\ num' = num /\ result' = result /\ short' = short
  BY DEF FirstExtent, HasEntry
<1>2. pc' = pc /\ fe' = fe
  BY <1>1 DEF vars
<1>3. data = <<>> /\ Empty
  BY <1>0, <1>1 DEF Stages
<1>4. Filled(medium, fe, data)
  BY <1>3 DEF Filled
<1>5. Stages'
  BY <1>1, <1>2, <1>3, <1>4 DEF Stages, Empty, Buffered
<1>6. DTypes' /\ Readable'
  BY <1>0, <1>1, <1>2 DEF DTypes, Readable
<1> QED
  BY <1>0, <1>1, <1>5, <1>6 DEF DInv

(* The address of the buffer's first block.                                *)
LEMMA FirstIs ==
  ASSUME FInv, Buffered
  PROVE  First(medium, fe) \in Nat /\ (~fe.inline => fe.ads[1].lba = First(medium, fe))
<1>1. medium \in Media /\ fe \in [inline : BOOLEAN, ads : Seq(Ad)] /\ medium.at \in Nat
  BY DirsAssumption DEF FInv, TypeOK
<1>2. ~fe.inline => fe.ads[1].lba \in Nat
  <2> SUFFICES ASSUME ~fe.inline PROVE fe.ads[1].lba \in Nat
    OBVIOUS
  <2>1. PICK a : a = fe.ads
    OBVIOUS
  <2>2. a \in Seq(Ad) /\ a # <<>>
    BY <1>1, <2>1 DEF Buffered
  <2>3. 1 \in 1 .. Len(a)
    BY <2>2
  <2> QED
    BY <2>1, <2>2, <2>3, AdAt
<1> QED
  BY <1>1, <1>2 DEF First

LEMMA ReadBlockKeeps == ASSUME DInv, FInv', CInv', medium' = medium, ReadBlockOfDir PROVE DInv'
<1>0. /\ FInv /\ DTypes /\ Stages /\ Readable /\ Right(medium, files) /\ medium \in Media
  BY DEF DInv, FInv, TypeOK
<1>1. /\ dpc = "blocks" /\ dpc' = "blocks" /\ Len(data) < NumBlocks
      /\ data' = Append(data, BlockLba(Len(data)))
      /\ UNCHANGED vars /\ bad' = bad /\ off' = off
      /\ cur' = cur /\ files' = files /\ num' = num /\ result' = result /\ short' = short
  BY DEF ReadBlockOfDir, NextBlock
<1>2. pc' = pc /\ fe' = fe
  BY <1>1 DEF vars
<1>3. NumBlocks = Blocks(medium) /\ Blocks(medium) \in Nat /\ data \in Seq(Nat) /\ Len(data) \in Nat
  BY <1>0, DirIs, BlocksNat DEF DTypes
<1>4. Empty /\ Buffered /\ ~fe.inline
  BY <1>0, <1>1 DEF Stages
<1>5. First(medium, fe) \in Nat /\ BlockLba(Len(data)) = First(medium, fe) + Len(data)
  BY <1>0, <1>4, FirstIs DEF BlockLba
<1>6. PICK l : l = BlockLba(Len(data))
  OBVIOUS
<1>7. data' = Append(data, l) /\ l = First(medium, fe) + Len(data) /\ l \in Nat
  BY <1>1, <1>3, <1>5, <1>6
<1>8. data' \in Seq(Nat) /\ Len(data') = Len(data) + 1 /\ DOMAIN data' = 1 .. Len(data) + 1
  BY <1>3, <1>7
<1>9. ASSUME NEW b \in DOMAIN data' PROVE data'[b] = First(medium, fe) + (b - 1)
  <2>1. b \in 1 .. Len(data) + 1
    BY <1>8
  <2>2. CASE b = Len(data) + 1
    <3>1. data'[b] = l /\ b - 1 = Len(data)
      BY <1>3, <1>7, <2>2
    <3> QED
      BY <1>7, <3>1
  <2>3. CASE b # Len(data) + 1
    <3>1. b \in 1 .. Len(data)
      BY <1>3, <2>1, <2>3
    <3>2. data'[b] = data[b] /\ b \in DOMAIN data
      BY <1>3, <1>7, <3>1
    <3> QED
      BY <1>4, <3>2 DEF Buffered, Filled
  <2> QED
    BY <2>2, <2>3
<1>10. Filled(medium, fe, data')
  BY <1>9 DEF Filled
<1>11. Stages'
  BY <1>1, <1>2, <1>4, <1>10 DEF Stages, Empty, Buffered
<1>12. DTypes'
  BY <1>0, <1>1, <1>3, <1>8 DEF DTypes
<1>13. Readable'
  BY <1>0, <1>1, <1>2 DEF Readable
<1> QED
  BY <1>0, <1>1, <1>11, <1>12, <1>13 DEF DInv

LEMMA BlockFailsKeeps == ASSUME DInv, FInv', CInv', medium' = medium, BlockFails PROVE DInv'
<1>1. End(-1) /\ files' = files /\ short' = short
  BY DEF BlockFails
<1>2. ASSUME Proper(medium), ~short, ~Unreadable(medium, bad) PROVE FALSE
  <2>1. Readable /\ FInv /\ medium \in Media /\ Stages /\ data \in Seq(Nat)
    BY DEF DInv, FInv, TypeOK, DTypes
  <2>2. dpc = "blocks" /\ Len(data) < NumBlocks /\ ~HasCopy(BlockLba(Len(data)), Len(data))
    BY DEF BlockFails, NextBlock
  <2>3. pc = "open" /\ ~fe.inline
    BY <2>1, <2>2 DEF Stages, Buffered
  <2>4. fe.ads = List(medium) /\ ~medium.entry.inline
    BY <1>2, <2>1, <2>2, <2>3 DEF Readable, FInv
  <2>5. fe.ads[1].lba = medium.at
    BY <1>2, <2>4 DEF Proper
  <2>6. BlockLba(Len(data)) = medium.at + Len(data)
    BY <2>5 DEF BlockLba
  <2>7. NumBlocks = Blocks(medium) /\ Blocks(medium) \in Nat /\ medium.at \in Nat /\ Len(data) \in Nat
    BY <2>1, DirIs, BlocksNat, DirsAssumption
  <2>8. medium.at + Len(data) \in medium.at .. medium.at + Blocks(medium) - 1
    BY <2>2, <2>7
  <2>9. medium.at + Len(data) \in Places(medium)
    BY <2>4, <2>8 DEF Places, Blocks
  <2> QED
    BY <1>2, <2>2, <2>6, <2>9, NoCopy
<1>3. short \in BOOLEAN
  BY DEF DInv, DTypes
<1> QED
  BY <1>1, <1>2, <1>3, EndKeeps

LEMMA BlocksDoneKeeps == ASSUME DInv, FInv', CInv', medium' = medium, BlocksDone PROVE DInv'
<1>0. /\ DTypes /\ Stages /\ Readable /\ Right(medium, files) /\ medium \in Media
  BY DEF DInv, FInv, TypeOK
<1>1. /\ dpc = "blocks" /\ dpc' = "parse" /\ Len(data) = NumBlocks
      /\ UNCHANGED vars /\ bad' = bad /\ off' = off /\ data' = data
      /\ cur' = cur /\ files' = files /\ num' = num /\ result' = result /\ short' = short
  BY DEF BlocksDone, NextBlock
<1>2. pc' = pc /\ fe' = fe
  BY <1>1 DEF vars
<1>3. Empty /\ Buffered /\ Len(data) = Blocks(medium) /\ Count(medium) \in Nat
  BY <1>0, <1>1, DirIs, EdgesAre DEF Stages
<1>4. ListedTo(medium, files, 0, short) /\ Edges(medium)[0] = 0 /\ 0 \in 0 .. Count(medium)
  BY <1>0, <1>3, EdgesAre DEF ListedTo, Empty
<1>5. Full' /\ Between'
  BY <1>1, <1>2, <1>3, <1>4 DEF Full, Buffered, Empty, Between
<1>6. DTypes' /\ Readable' /\ Stages'
  BY <1>0, <1>1, <1>2, <1>5 DEF DTypes, Readable, Stages
<1> QED
  BY <1>0, <1>1, <1>6 DEF DInv

-----------------------------------------------------------------------------
(* The parser.  It stands at the border of two identifiers; the one behind *)
(* it is what it meets, if the buffer is that of the directory.            *)
LEMMA HoldsIs ==
  ASSUME medium \in Media, FInv, Full, NEW p \in Nat, p < medium.bytes
  PROVE  Holds(p) <=> First(medium, fe) = medium.at
<1>1. p \div BS \in Nat /\ p \div BS + 1 \in 1 .. Blocks(medium)
  BY BlockOf
<1>2. Buffered /\ Len(data) = Blocks(medium) /\ First(medium, fe) \in Nat /\ medium.at \in Nat
  BY FirstIs, DirsAssumption DEF Full
<1>3. DOMAIN data = 1 .. Blocks(medium)
  <2>1. p \div BS + 1 \in 1 .. Len(data)
    BY <1>1, <1>2
  <2> QED
    BY <1>2 DEF FInv, TypeOK
<1> DEFINE q == p \div BS
<1>4. data[q + 1] = First(medium, fe) + ((q + 1) - 1)
  BY <1>1, <1>2, <1>3 DEF Buffered, Filled
<1>5. Holds(p) <=> data[q + 1] = medium.at + q
  BY DEF Holds
<1>6. q \in Nat
  BY <1>1
<1> HIDE DEF q
<1> QED
  BY <1>2, <1>4, <1>5, <1>6

LEMMA AtEdge ==
  ASSUME DInv, InLoop
  PROVE  \E n \in 0 .. Count(medium) :
           /\ off = Edges(medium)[n] /\ ListedTo(medium, files, n, short)
           /\ off < medium.bytes - TagSize
           /\ \A k \in Here : /\ k = n + 1 /\ k \in 1 .. Count(medium) /\ medium.fids[k].tag
                              /\ First(medium, fe) = medium.at
           /\ n < Count(medium) /\ medium.fids[n + 1].tag /\ First(medium, fe) = medium.at =>
                n + 1 \in Here
<1>0. medium \in Media /\ FInv /\ Full /\ Between /\ off \in Nat
  BY DEF DInv, FInv, TypeOK, Stages, InLoop, DTypes
<1>1. PICK n \in 0 .. Count(medium) : off = Edges(medium)[n] /\ ListedTo(medium, files, n, short)
  BY <1>0 DEF Between
<1>2. /\ Count(medium) \in Nat /\ DOMAIN medium.fids = 1 .. Count(medium)
      /\ Edges(medium) \in [0 .. Count(medium) -> Nat]
      /\ \A i, j \in 0 .. Count(medium) : i <= j => Edges(medium)[i] <= Edges(medium)[j]
      /\ \A k \in 1 .. Count(medium) : Edges(medium)[k - 1] < EndOf(medium, k) /\ EndOf(medium, k) <= Edges(medium)[k]
      /\ \A k \in 1 .. Count(medium) : EndOf(medium, k) \in Nat
  BY <1>0, EdgesAre
<1>3. off < medium.bytes - TagSize /\ medium.bytes \in Nat /\ TagSize \in Nat
  BY <1>0, DirsAssumption, LayoutAssumption DEF InLoop, Goes
<1>4. Holds(off) <=> First(medium, fe) = medium.at
  BY <1>0, <1>3, HoldsIs
<1>5. \A k \in 1 .. Count(medium) : Begins[k] = Edges(medium)[k - 1]
  BY <1>0, DirIs
<1>6. ASSUME NEW k \in Here
      PROVE  k = n + 1 /\ k \in 1 .. Count(medium) /\ medium.fids[k].tag /\ First(medium, fe) = medium.at
  <2>1. k \in 1 .. Count(medium) /\ Edges(medium)[k - 1] = Edges(medium)[n] /\ medium.fids[k].tag /\ Holds(off)
    BY <1>1, <1>2, <1>5, <1>6 DEF Here
  <2>2. EndOf(medium, k) \in Nat
    BY <1>0, <2>1, EdgesAre
  <2>3. ~(k <= n)
    <3>1. SUFFICES ASSUME k <= n PROVE FALSE
      OBVIOUS
    <3>2. Edges(medium)[k] <= Edges(medium)[n]
      BY <1>2, <2>1, <3>1
    <3>3. k \in 0 .. Count(medium) /\ n \in 0 .. Count(medium)
      BY <1>2, <2>1
    <3>4. Edges(medium)[k] \in Nat /\ Edges(medium)[n] \in Nat
      BY <1>2, <3>3
    <3> QED
      BY <1>2, <2>1, <2>2, <3>2, <3>4
  <2>4. ~(n + 1 < k)
    <3>1. SUFFICES ASSUME n + 1 < k PROVE FALSE
      OBVIOUS
    <3>2. n + 1 \in 1 .. Count(medium) /\ k - 1 \in 0 .. Count(medium) /\ n + 1 <= k - 1 /\ (n + 1) - 1 = n
      BY <1>2, <2>1, <3>1
    <3>3. Edges(medium)[n + 1] <= Edges(medium)[k - 1]
      BY <1>2, <3>2
    <3>4. Edges(medium)[n] < EndOf(medium, n + 1) /\ EndOf(medium, n + 1) <= Edges(medium)[n + 1]
      BY <1>2, <3>2
    <3>5. Edges(medium)[n + 1] \in Nat /\ Edges(medium)[n] \in Nat /\ EndOf(medium, n + 1) \in Nat
      BY <1>2, <3>2
    <3> QED
      BY <2>1, <3>3, <3>4, <3>5
  <2> QED
    BY <1>4, <2>1, <2>3, <2>4
<1>7. ASSUME n < Count(medium), medium.fids[n + 1].tag, First(medium, fe) = medium.at
      PROVE  n + 1 \in Here
  <2>1. n + 1 \in 1 .. Count(medium) /\ (n + 1) - 1 = n
    BY <1>2, <1>7
  <2>2. Begins[n + 1] = off
    BY <1>1, <1>5, <2>1
  <2> QED
    BY <1>2, <1>4, <1>7, <2>1, <2>2 DEF Here
<1> QED
  BY <1>1, <1>3, <1>6, <1>7

(* Nothing is listed behind the place where the parser ends.               *)
LEMMA NothingBehind ==
  ASSUME medium \in Media, NEW n \in 0 .. Count(medium), NEW f,
         ListedTo(medium, f, n, FALSE), DOMAIN f \subseteq Nat,
         \A i \in DOMAIN f : f[i].fid \in 1 .. Count(medium),
         \/ Edges(medium)[n] >= medium.bytes - TagSize
         \/ n < Count(medium) /\ EndOf(medium, n + 1) > medium.bytes
  PROVE  ListedTo(medium, f, Count(medium), FALSE)
<1>1. /\ Count(medium) \in Nat
      /\ Edges(medium) \in [0 .. Count(medium) -> Nat]
      /\ \A i, j \in 0 .. Count(medium) : i <= j => Edges(medium)[i] <= Edges(medium)[j]
      /\ \A k \in 1 .. Count(medium) : Edges(medium)[k - 1] < EndOf(medium, k) /\ EndOf(medium, k) <= Edges(medium)[k]
      /\ \A k \in 1 .. Count(medium) : EndOf(medium, k) \in Nat
  BY EdgesAre
<1>2. medium.bytes \in Nat /\ TagSize \in Nat
  BY DirsAssumption, LayoutAssumption
<1>3. ASSUME NEW k \in 1 .. Count(medium), n < k PROVE ~(EndOf(medium, k) <= medium.bytes)
  <2>1. /\ k - 1 \in 0 .. Count(medium) /\ n <= k - 1
        /\ Edges(medium)[n] <= Edges(medium)[k - 1] /\ Edges(medium)[k - 1] \in Nat /\ Edges(medium)[n] \in Nat
        /\ Needs(medium.fids[k]) \in Nat /\ TagSize < Needs(medium.fids[k])
        /\ EndOf(medium, k) = Edges(medium)[k - 1] + Needs(medium.fids[k])
    <3>1. k - 1 \in 0 .. Count(medium) /\ n <= k - 1
      BY <1>1, <1>3
    <3> QED
      BY <1>1, <3>1, FidIs DEF EndOf
  <2>2. CASE Edges(medium)[n] >= medium.bytes - TagSize
    BY <1>2, <2>1, <2>2
  <2>3. CASE n < Count(medium) /\ EndOf(medium, n + 1) > medium.bytes
    <3>1. CASE k = n + 1
      BY <1>2, <2>1, <2>3, <3>1
    <3>2. CASE k # n + 1
      <4>1. n + 1 \in 1 .. Count(medium) /\ (n + 1) - 1 = n /\ n + 1 <= k - 1
        BY <1>1, <1>3, <2>3, <3>2
      <4>2. EndOf(medium, n + 1) <= Edges(medium)[n + 1] /\ Edges(medium)[n + 1] <= Edges(medium)[k - 1]
        BY <1>1, <2>1, <4>1
      <4>3. Edges(medium)[n + 1] \in Nat /\ EndOf(medium, n + 1) \in Nat
        BY <1>1, <4>1
      <4> QED
        BY <1>2, <2>1, <2>3, <4>2, <4>3
    <3> QED
      BY <3>1, <3>2
  <2> QED
    BY <2>2, <2>3
<1>4. ASSUME NEW i \in DOMAIN f PROVE f[i].fid <= Count(medium) /\ EndOf(medium, f[i].fid) <= medium.bytes
  BY <1>1 DEF ListedTo
<1>5. ASSUME NEW k \in 1 .. Count(medium), IsListed(medium, k) PROVE \E i \in DOMAIN f : f[i].fid = k
  <2>1. k <= n
    BY <1>1, <1>3, <1>5 DEF IsListed
  <2>2. k \in 1 .. n
    BY <1>1, <2>1
  <2> QED
    BY <1>5, <2>2 DEF ListedTo
<1> QED
  BY <1>4, <1>5 DEF ListedTo

LEMMA ParseEndsKeeps == ASSUME DInv, FInv', CInv', medium' = medium, ParseEnds PROVE DInv'
<1>0. /\ medium \in Media /\ FInv /\ dpc = "parse" /\ Full /\ Between /\ Right(medium, files)
      /\ off \in Nat /\ short \in BOOLEAN /\ files \in Seq(Entry(medium))
  BY DEF DInv, FInv, TypeOK, Stages, ParseEnds, InLoop, DTypes
<1>1. End(0) /\ files' = files /\ short' = short
  BY DEF ParseEnds
<1>2. num = Len(files) /\ DOMAIN files \subseteq Nat /\ Count(medium) \in Nat
  BY <1>0, EdgesAre DEF Full
<1>3. medium.bytes \in Nat /\ TagSize \in Nat
  BY <1>0, DirsAssumption, LayoutAssumption
<1>4. \A i \in DOMAIN files : files[i].fid \in 1 .. Count(medium)
  BY <1>0 DEF Right
<1>5. ASSUME ~short PROVE ListedTo(medium, files, Count(medium), FALSE)
  <2>1. CASE ~Goes
    <3>1. PICK n \in 0 .. Count(medium) : off = Edges(medium)[n] /\ ListedTo(medium, files, n, short)
      BY <1>0 DEF Between
    <3>2. ListedTo(medium, files, n, FALSE)
      BY <1>5, <3>1 DEF ListedTo
    <3>3. Edges(medium)[n] >= medium.bytes - TagSize
      BY <1>0, <1>3, <2>1, <3>1 DEF Goes
    <3> QED
      BY <1>0, <1>2, <1>4, <3>2, <3>3, NothingBehind
  <2>2. CASE InLoop /\ \E k \in Here : ~Enough(k)
    <3>1. PICK k \in Here : ~Enough(k)
      BY <2>2
    <3>2. PICK n \in 0 .. Count(medium) :
           /\ off = Edges(medium)[n] /\ ListedTo(medium, files, n, short)
           /\ off < medium.bytes - TagSize
           /\ k = n + 1 /\ k \in 1 .. Count(medium)
      BY <2>2, <3>1, AtEdge
    <3>3. ListedTo(medium, files, n, FALSE)
      BY <1>5, <3>2 DEF ListedTo
    <3>4. n < Count(medium) /\ k - 1 = n
      BY <1>2, <3>2
    <3>5. EndOf(medium, k) = off + Needs(medium.fids[k]) /\ Needs(medium.fids[k]) \in Nat
      BY <1>0, <3>2, <3>4, FidIs DEF EndOf
    <3>6. EndOf(medium, k) > medium.bytes
      <4>1. FidHead <= Needs(medium.fids[k]) /\ FidHead \in Nat
        <5>1. medium.fids[k] \in Fid
          BY <1>0, <3>2, FidIs
        <5>2. medium.fids[k].iu \in Nat /\ Len(medium.fids[k].name) \in Nat
          BY <5>1 DEF Fid
        <5> QED
          BY <5>2, DecodeAssumption DEF Needs, FidNeeds
      <4>2. ~(medium.bytes - off >= FidHead /\ medium.bytes - off >= Needs(medium.fids[k]))
        BY <3>1 DEF Enough, FidAccepted, Needs
      <4> QED
        BY <1>0, <1>3, <3>5, <4>1, <4>2
    <3> QED
      BY <1>0, <1>2, <1>4, <3>2, <3>3, <3>4, <3>6, NothingBehind
  <2> QED
    BY <2>1, <2>2 DEF ParseEnds
<1>6. ~short => AllListed
  BY <1>2, <1>5 DEF AllListed
<1> QED
  BY <1>0, <1>1, <1>6, EndKeeps

LEMMA WrongTagKeeps == ASSUME DInv, FInv', CInv', medium' = medium, WrongTag PROVE DInv'
<1>1. End(-1) /\ files' = files /\ short' = short /\ InLoop /\ Here = {}
  BY DEF WrongTag
<1>2. ASSUME Proper(medium), ~short, ~Unreadable(medium, bad) PROVE FALSE
  <2>1. Readable /\ FInv /\ medium \in Media /\ Stages /\ dpc = "parse"
    BY <1>1 DEF DInv, FInv, TypeOK, InLoop
  <2>2. pc = "open"
    BY <2>1 DEF Stages, Full, Buffered
  <2>3. First(medium, fe) = medium.at
    <3>1. CASE fe.inline
      BY <3>1 DEF First
    <3>2. CASE ~fe.inline
      <4>1. fe.ads = List(medium) /\ ~medium.entry.inline
        BY <1>2, <2>1, <2>2, <3>2 DEF Readable, FInv
      <4> QED
        BY <1>2, <3>2, <4>1 DEF Proper, First
    <3> QED
      BY <3>1, <3>2
  <2>4. PICK n \in 0 .. Count(medium) :
          /\ off = Edges(medium)[n]
          /\ off < medium.bytes - TagSize
          /\ n < Count(medium) /\ medium.fids[n + 1].tag /\ First(medium, fe) = medium.at =>
               n + 1 \in Here
    BY <1>1, AtEdge
  <2>5. /\ Count(medium) \in Nat /\ medium.bytes \in Nat /\ TagSize \in Nat /\ Edges(medium)[n] \in Nat
        /\ \A k \in 1 .. Count(medium) : EndOf(medium, k) <= Edges(medium)[k]
    BY <2>1, EdgesAre, DirsAssumption, LayoutAssumption
  <2>6. n = Count(medium)
    <3>1. SUFFICES ASSUME n # Count(medium) PROVE FALSE
      OBVIOUS
    <3>2. n < Count(medium) /\ n + 1 \in 1 .. Count(medium)
      BY <2>5, <3>1
    <3>3. medium.fids[n + 1].tag
      BY <1>2, <3>2 DEF Proper
    <3> QED
      BY <1>1, <2>3, <2>4, <3>2, <3>3
  <2>7. CASE n = 0
    BY <1>2, <2>4, <2>5, <2>6, <2>7 DEF Proper
  <2>8. CASE n # 0
    <3>1. n \in 1 .. Count(medium) /\ EndOf(medium, n) <= Edges(medium)[n]
      BY <2>5, <2>6, <2>8
    <3>2. medium.bytes <= EndOf(medium, n) + TagSize
      BY <1>2, <2>5, <2>6, <2>8 DEF Proper
    <3>3. EndOf(medium, n) \in Nat
      BY <2>1, <3>1, EdgesAre
    <3> QED
      BY <2>4, <2>5, <3>1, <3>2, <3>3
  <2> QED
    BY <2>7, <2>8
<1>3. short \in BOOLEAN
  BY DEF DInv, DTypes
<1> QED
  BY <1>1, <1>2, <1>3, EndKeeps

LEMMA NoArrayKeeps == ASSUME DInv, FInv', CInv', medium' = medium, NoArray PROVE DInv'
<1>1. End(-1) /\ files' = <<>> /\ short' = TRUE
  BY DEF NoArray
<1> QED
  BY <1>1, EndKeeps

LEMMA FidsNat ==
  ASSUME NEW m \in Media, NEW f, Right(m, f)
  PROVE  \A i \in DOMAIN f : f[i].fid \in Nat
<1>1. \A i \in DOMAIN f : f[i].fid \in 1 .. Count(m)
  BY DEF Right
<1>2. Count(m) \in Nat
  BY EdgesAre
<1> QED
  BY <1>1, <1>2

(* The entries of the first n identifiers, with the next one that is not   *)
(* shown, and with one that is.                                            *)
LEMMA OneMore ==
  ASSUME NEW m, NEW f, NEW k \in Nat \ {0}, NEW s, ListedTo(m, f, k - 1, s),
         \A i \in DOMAIN f : f[i].fid \in Nat,
         ~s => ~IsListed(m, k)
  PROVE  ListedTo(m, f, k, s)
<1>1. \A i \in DOMAIN f : f[i].fid <= k /\ EndOf(m, f[i].fid) <= m.bytes
  BY DEF ListedTo
<1>2. ASSUME ~s, NEW j \in 1 .. k, IsListed(m, j) PROVE \E i \in DOMAIN f : f[i].fid = j
  <2>1. j \in 1 .. k - 1
    BY <1>2
  <2> QED
    BY <1>2, <2>1 DEF ListedTo
<1> QED
  BY <1>1, <1>2 DEF ListedTo

LEMMA OneListed ==
  ASSUME NEW m \in Media, NEW f \in Seq(Entry(m)), NEW k \in 1 .. Count(m), NEW s, NEW a \in Entry(m),
         ListedTo(m, f, k - 1, s), Right(m, f),
         a.fid = k, IsShown(m, k), EndOf(m, k) <= m.bytes,
         [i \in DOMAIN a.name |-> Decoded(a.name[i])] = Units(m.fids[k].name)
  PROVE  Right(m, Append(f, a)) /\ ListedTo(m, Append(f, a), k, s)
<1> DEFINE g == Append(f, a)
<1>1. /\ DOMAIN f = 1 .. Len(f) /\ DOMAIN g = 1 .. Len(f) + 1 /\ Len(f) \in Nat
      /\ \A i \in 1 .. Len(f) : g[i] = f[i]
      /\ g[Len(f) + 1] = a
  OBVIOUS
<1>2. \A i \in DOMAIN g : i \in DOMAIN f \/ i = Len(f) + 1
  BY <1>1
<1>3. Len(f) + 1 \in DOMAIN g /\ \A i \in DOMAIN f : i \in DOMAIN g /\ g[i] = f[i]
  BY <1>1
<1>4. k \in Nat /\ \A i \in DOMAIN f : f[i].fid \in Nat /\ f[i].fid <= k - 1
  <2>1. Count(m) \in Nat
    BY EdgesAre
  <2>2. k \in Nat
    BY <2>1
  <2>3. \A i \in DOMAIN f : f[i].fid <= k - 1
    BY DEF ListedTo
  <2> QED
    BY <2>2, <2>3, FidsNat
<1> HIDE DEF g
<1>5. ASSUME NEW i \in DOMAIN g
      PROVE  /\ g[i].fid \in 1 .. Count(m) /\ IsShown(m, g[i].fid)
             /\ [j \in DOMAIN g[i].name |-> Decoded(g[i].name[j])] = Units(m.fids[g[i].fid].name)
  <2>1. CASE i \in DOMAIN f
    <3>1. g[i] = f[i]
      BY <1>3, <2>1
    <3> QED
      BY <2>1, <3>1 DEF Right
  <2>2. CASE i = Len(f) + 1
    <3>1. g[i] = a
      BY <1>1, <2>2
    <3> QED
      BY <3>1
  <2> QED
    BY <1>2, <2>1, <2>2
<1>6. ASSUME NEW i \in DOMAIN g, NEW j \in DOMAIN g, i < j PROVE g[i].fid < g[j].fid
  <2>1. i \in DOMAIN f /\ g[i] = f[i]
    BY <1>1, <1>6
  <2>2. CASE j \in DOMAIN f
    BY <1>3, <1>6, <2>1, <2>2 DEF Right
  <2>3. CASE j = Len(f) + 1
    BY <1>1, <1>4, <2>1, <2>3
  <2> QED
    BY <1>2, <2>2, <2>3
<1>7. Right(m, g)
  BY <1>5, <1>6 DEF Right
<1>8. ASSUME NEW i \in DOMAIN g PROVE g[i].fid <= k /\ EndOf(m, g[i].fid) <= m.bytes
  <2>1. CASE i \in DOMAIN f
    <3>1. g[i] = f[i] /\ EndOf(m, f[i].fid) <= m.bytes
      BY <1>3, <2>1 DEF ListedTo
    <3> QED
      BY <1>4, <2>1, <3>1
  <2>2. CASE i = Len(f) + 1
    <3>1. g[i] = a
      BY <1>1, <2>2
    <3> QED
      BY <1>4, <3>1
  <2> QED
    BY <1>2, <2>1, <2>2
<1>9. ASSUME ~s, NEW j \in 1 .. k, IsListed(m, j) PROVE \E i \in DOMAIN g : g[i].fid = j
  <2>1. CASE j = k
    BY <1>1, <1>3, <2>1
  <2>2. CASE j # k
    <3>1. j \in 1 .. k - 1
      BY <1>4, <2>2
    <3>2. PICK i \in DOMAIN f : f[i].fid = j
      BY <1>9, <3>1 DEF ListedTo
    <3> QED
      BY <1>3, <3>2
  <2> QED
    BY <2>1, <2>2
<1>10. ListedTo(m, g, k, s)
  BY <1>8, <1>9 DEF ListedTo
<1> QED
  BY <1>7, <1>10 DEF g

(* An identifier that is met is the next one, and inside the directory.    *)
LEMMA Met ==
  ASSUME DInv, NEW k \in DOMAIN medium.fids, Parsing(k), Enough(k)
  PROVE  /\ k \in 1 .. Count(medium) /\ k \in Nat \ {0}
         /\ ListedTo(medium, files, k - 1, short)
         /\ off + Occupies(medium.fids[k]) = Edges(medium)[k]
         /\ EndOf(medium, k) <= medium.bytes
         /\ First(medium, fe) = medium.at
<1>0. medium \in Media /\ off \in Nat /\ InLoop /\ k \in Here
  BY DEF DInv, FInv, TypeOK, DTypes, Parsing
<1>1. PICK n \in 0 .. Count(medium) :
        /\ off = Edges(medium)[n] /\ ListedTo(medium, files, n, short)
        /\ k = n + 1 /\ k \in 1 .. Count(medium)
        /\ First(medium, fe) = medium.at
  BY <1>0, AtEdge
<1>2. Count(medium) \in Nat /\ medium.bytes \in Nat
  BY <1>0, EdgesAre, DirsAssumption
<1>3. n = k - 1 /\ k \in Nat \ {0}
  BY <1>1, <1>2
<1>4. Edges(medium)[k] = off + Occupies(medium.fids[k])
  BY <1>0, <1>1, <1>3, EdgesAre
<1>5. EndOf(medium, k) = off + Needs(medium.fids[k]) /\ Needs(medium.fids[k]) \in Nat
  BY <1>0, <1>1, <1>3, FidIs DEF EndOf
<1>6. medium.bytes - off >= Needs(medium.fids[k])
  BY DEF Enough, FidAccepted, Needs
<1>7. EndOf(medium, k) <= medium.bytes
  BY <1>0, <1>2, <1>5, <1>6
<1> QED
  BY <1>1, <1>3, <1>4, <1>7

LEMMA SkipKeeps ==
  ASSUME DInv, FInv', CInv', medium' = medium, NEW k \in DOMAIN medium.fids, Skip(k) PROVE DInv'
<1>0. /\ DTypes /\ Stages /\ Readable /\ Right(medium, files) /\ medium \in Media
  BY DEF DInv, FInv, TypeOK
<1>1. /\ dpc = "parse" /\ dpc' = "parse" /\ Parsing(k) /\ Enough(k) /\ Unnamed(k)
      /\ off' = off + Occupies(medium.fids[k])
      /\ UNCHANGED vars /\ bad' = bad /\ data' = data
      /\ cur' = cur /\ files' = files /\ num' = num /\ result' = result /\ short' = short
  BY DEF Skip, Parsing, InLoop
<1>2. pc' = pc /\ fe' = fe
  BY <1>1 DEF vars
<1>3. /\ k \in 1 .. Count(medium) /\ k \in Nat \ {0}
      /\ ListedTo(medium, files, k - 1, short) /\ off' = Edges(medium)[k]
  BY <1>1, Met
<1>4. ~IsListed(medium, k)
  <2>1. medium.fids[k].name = <<>> => UnitCount(medium.fids[k].name) = 0
    BY DEF UnitCount
  <2> QED
    BY <1>1, <2>1 DEF Unnamed, IsListed, IsShown
<1>5. Count(medium) \in Nat /\ Edges(medium) \in [0 .. Count(medium) -> Nat]
  BY <1>0, EdgesAre
<1>6. k \in 0 .. Count(medium)
  BY <1>3, <1>5
<1>7. \A i \in DOMAIN files : files[i].fid \in Nat
  BY <1>0, FidsNat
<1>8. ListedTo(medium, files, k, short)
  BY <1>3, <1>4, <1>7, OneMore
<1>9. Between' /\ off' \in Nat
  BY <1>1, <1>3, <1>5, <1>6, <1>8 DEF Between
<1>10. Full'
  BY <1>0, <1>1, <1>2 DEF Stages, Full, Buffered
<1>11. DTypes' /\ Readable' /\ Stages'
  BY <1>0, <1>1, <1>2, <1>9, <1>10 DEF DTypes, Readable, Stages
<1> QED
  BY <1>0, <1>1, <1>11 DEF DInv

LEMMA NameBeginsKeeps ==
  ASSUME DInv, FInv', CInv', medium' = medium, NEW k \in DOMAIN medium.fids, NameBegins(k) PROVE DInv'
<1>0. /\ DTypes /\ Stages /\ Readable /\ Right(medium, files) /\ medium \in Media
  BY DEF DInv, FInv, TypeOK
<1>1. /\ dpc = "parse" /\ dpc' = "name" /\ Parsing(k) /\ Enough(k) /\ ~Unnamed(k)
      /\ off' = off + Occupies(medium.fids[k]) /\ cur' = k
      /\ Begin(medium.fids[k].name) \/ Refuse(medium.fids[k].name)
      /\ UNCHANGED vars /\ bad' = bad /\ data' = data
      /\ files' = files /\ num' = num /\ result' = result /\ short' = short
  BY DEF NameBegins, Parsing, InLoop
<1>2. pc' = pc /\ fe' = fe /\ cs0' = medium.fids[k].name
  BY <1>1 DEF vars, Begin, Refuse
<1>3. /\ k \in 1 .. Count(medium)
      /\ ListedTo(medium, files, k - 1, short) /\ off' = Edges(medium)[k]
      /\ EndOf(medium, k) <= medium.bytes /\ First(medium, fe) = medium.at
  BY <1>1, Met
<1>4. Count(medium) \in Nat /\ Edges(medium) \in [0 .. Count(medium) -> Nat]
  BY <1>0, EdgesAre
<1>5. k \in 0 .. Count(medium) /\ off' \in Nat
  BY <1>3, <1>4
<1>6. ~medium.fids[k].parent /\ medium.fids[k].name # <<>>
  BY <1>1 DEF Unnamed
<1>7. Naming'
  BY <1>1, <1>2, <1>3, <1>6 DEF Naming
<1>8. Full'
  BY <1>0, <1>1, <1>2 DEF Stages, Full, Buffered
<1>9. DTypes' /\ Readable' /\ Stages'
  BY <1>0, <1>1, <1>2, <1>5, <1>7, <1>8 DEF DTypes, Readable, Stages
<1> QED
  BY <1>0, <1>1, <1>9 DEF DInv

LEMMA NameConvertsKeeps == ASSUME DInv, FInv', CInv', NameConverts PROVE DInv'
<1>1. UNCHANGED vars /\ UNCHANGED dvars /\ cs0' = cs0
  BY DEF NameConverts, Convert, Put, GrowFails, Terminate
<1>2. /\ medium' = medium /\ pc' = pc /\ fe' = fe
      /\ dpc' = dpc /\ bad' = bad /\ data' = data /\ off' = off
      /\ cur' = cur /\ files' = files /\ num' = num /\ result' = result /\ short' = short
  BY <1>1 DEF vars, dvars
<1>3. DTypes' /\ Right(medium', files') /\ Readable'
  BY <1>2 DEF DInv, DTypes, Readable
<1>4. Stages'
  BY <1>1, <1>2 DEF DInv, Stages, Empty, Buffered, Full, Between, Naming, AllListed
<1> QED
  BY <1>3, <1>4 DEF DInv

LEMMA NameEndsKeeps == ASSUME DInv, FInv', CInv', medium' = medium, NameEnds PROVE DInv'
<1>0. /\ DTypes /\ Stages /\ Readable /\ Right(medium, files) /\ medium \in Media /\ FInv /\ CInv
  BY DEF DInv, FInv, TypeOK
<1>1. /\ dpc = "name" /\ dpc' = "parse" /\ conv \in {"done", "null"}
      /\ short' = (short \/ (conv = "null" /\ cs0[1] \in {8, 16}))
      /\ UNCHANGED vars /\ bad' = bad /\ data' = data
      /\ off' = off /\ cur' = cur /\ result' = result
  BY DEF NameEnds
<1>2. pc' = pc /\ fe' = fe
  BY <1>1 DEF vars
<1>3. /\ cur \in 1 .. Count(medium) /\ off = Edges(medium)[cur]
      /\ ListedTo(medium, files, cur - 1, short)
      /\ First(medium, fe) = medium.at
      /\ EndOf(medium, cur) <= medium.bytes /\ ~medium.fids[cur].parent
      /\ cs0 = medium.fids[cur].name /\ cs0 # <<>>
      /\ Full
  BY <1>0, <1>1 DEF Stages, Naming
<1>4. /\ Count(medium) \in Nat /\ cur \in Nat \ {0} /\ cur \in 0 .. Count(medium)
      /\ short \in BOOLEAN /\ short' \in BOOLEAN /\ (short => short')
      /\ files \in Seq(Entry(medium)) /\ num \in Nat /\ num = Len(files)
      /\ out \in Seq(Seq(Nat))
  <2>1. Count(medium) \in Nat
    BY <1>0, EdgesAre
  <2> QED
    BY <1>0, <1>1, <1>3, <2>1 DEF DTypes, Full, CInv, CTypeOK
<1>5. ListedTo(medium, files, cur - 1, short')
  BY <1>3, <1>4 DEF ListedTo
<1>6. conv = "done" => Len(out) = UnitCount(cs0) /\ [k \in DOMAIN out |-> Decoded(out[k])] = Units(cs0)
  BY <1>0, CInvImplies DEF CInv, Finished, NameDecodes
<1>7. /\ files' \in Seq(Entry(medium)) /\ num' \in Nat /\ num' = Len(files')
      /\ Right(medium, files') /\ ListedTo(medium, files', cur, short')
  <2>1. CASE Kept
    <3>1. /\ files' = Append(files, [fid |-> IF Intact(cur) THEN cur ELSE 0, name |-> out])
          /\ num' = num + 1 /\ conv = "done" /\ out # <<>>
      BY <2>1 DEF NameEnds, Kept
    <3>2. Intact(cur)
      <4> SUFFICES ASSUME NEW p \in Begins[cur] .. Begins[cur] + Needs(medium.fids[cur]) - 1 PROVE Holds(p)
        BY DEF Intact
      <4>1. Begins[cur] = Edges(medium)[cur - 1] /\ Edges(medium)[cur - 1] \in Nat
        <5>1. cur - 1 \in 0 .. Count(medium)
          BY <1>3, <1>4
        <5> QED
          BY <1>0, <1>3, <5>1, DirIs, EdgesAre
      <4>2. Needs(medium.fids[cur]) \in Nat /\ medium.bytes \in Nat
        BY <1>0, <1>3, FidIs, DirsAssumption
      <4>3. Begins[cur] + Needs(medium.fids[cur]) <= medium.bytes
        BY <1>3, <4>1 DEF EndOf
      <4>4. p \in Nat /\ p < medium.bytes
        BY <4>1, <4>2, <4>3
      <4> QED
        BY <1>0, <1>3, <4>4, HoldsIs
    <3> DEFINE a == [fid |-> cur, name |-> out]
    <3>3. files' = Append(files, a)
      BY <3>1, <3>2
    <3>4. a \in Entry(medium) /\ a.fid = cur /\ a.name = out
      BY <1>4 DEF Entry
    <3>5. Len(out) > 0
      BY <1>4, <3>1
    <3>6. IsShown(medium, cur)
      BY <1>3, <1>6, <3>1, <3>5 DEF IsShown
    <3>7. [i \in DOMAIN a.name |-> Decoded(a.name[i])] = Units(medium.fids[cur].name)
      BY <1>3, <1>6, <3>1, <3>4
    <3> HIDE DEF a
    <3>8. Right(medium, Append(files, a)) /\ ListedTo(medium, Append(files, a), cur, short')
      BY <1>0, <1>3, <1>4, <1>5, <3>4, <3>6, <3>7, OneListed
    <3>9. Append(files, a) \in Seq(Entry(medium)) /\ Len(Append(files, a)) = Len(files) + 1
      BY <1>4, <3>4
    <3> QED
      BY <1>4, <3>1, <3>3, <3>8, <3>9
  <2>2. CASE ~Kept
    <3>1. files' = files /\ num' = num
      BY <2>2 DEF NameEnds
    <3>2. ~short' => ~IsListed(medium, cur)
      <4> SUFFICES ASSUME ~short' PROVE UnitCount(cs0) = 0
        BY <1>3 DEF IsListed, IsShown
      <4>1. CASE conv = "done"
        BY <1>4, <1>6, <2>2, <4>1 DEF Kept
      <4>2. CASE conv = "null"
        BY <1>1, <4>2 DEF UnitCount
      <4> QED
        BY <1>1, <4>1, <4>2
    <3>3. \A i \in DOMAIN files : files[i].fid \in Nat
      BY <1>0, FidsNat
    <3>4. ListedTo(medium, files, cur, short')
      BY <1>4, <1>5, <3>2, <3>3, OneMore
    <3> QED
      BY <1>0, <1>4, <3>1, <3>4
  <2> QED
    BY <2>1, <2>2
<1>8. DTypes'
  BY <1>0, <1>1, <1>4, <1>7 DEF DTypes
<1>9. Between'
  BY <1>1, <1>3, <1>4, <1>7 DEF Between
<1>10. Full'
  BY <1>1, <1>2, <1>3, <1>7 DEF Full, Buffered
<1>11. Stages' /\ Readable'
  BY <1>0, <1>1, <1>2, <1>4, <1>9, <1>10 DEF Stages, Readable
<1> QED
  BY <1>7, <1>8, <1>11 DEF DInv

LEMMA DInvNext == DInv /\ [DirNext]_allvars => DInv'
<1> SUFFICES ASSUME DInv, [DirNext]_allvars PROVE DInv'
  OBVIOUS
<1>0. FInv' /\ CInv' /\ medium' = medium
  BY PartsNext
<1>1. CASE udf_read_dir
  BY <1>0, <1>1, BeginsKeeps
<1>2. CASE Returned
  BY <1>0, <1>2, ReturnedKeeps
<1>3. CASE EntryOfDir
  BY <1>0, <1>3, EntryKeeps
<1>4. CASE NoDirectory
  BY <1>0, <1>4, NoDirectoryKeeps
<1>5. CASE Inline
  BY <1>0, <1>5, InlineKeeps
<1>6. CASE FirstExtent
  BY <1>0, <1>6, FirstKeeps
<1>7. CASE NoBuffer
  BY <1>0, <1>7, NoBufferKeeps
<1>8. CASE ReadBlockOfDir
  BY <1>0, <1>8, ReadBlockKeeps
<1>9. CASE BlockFails
  BY <1>0, <1>9, BlockFailsKeeps
<1>10. CASE BlocksDone
  BY <1>0, <1>10, BlocksDoneKeeps
<1>11. CASE ParseEnds
  BY <1>0, <1>11, ParseEndsKeeps
<1>12. CASE WrongTag
  BY <1>0, <1>12, WrongTagKeeps
<1>13. CASE NoArray
  BY <1>0, <1>13, NoArrayKeeps
<1>14. CASE Parse
  BY <1>0, <1>14, SkipKeeps, NameBeginsKeeps DEF Parse
<1>15. CASE NameConverts
  BY <1>0, <1>15, NameConvertsKeeps
<1>16. CASE NameEnds
  BY <1>0, <1>16, NameEndsKeeps
<1>17. CASE FileWork \/ FileCall
  BY <1>0, <1>17, FileKeeps DEF FileWork, FileCall
<1>18. CASE UNCHANGED allvars
  BY <1>0, <1>18, SameKeeps
<1> QED
  BY <1>1, <1>2, <1>3, <1>4, <1>5, <1>6, <1>7, <1>8, <1>9, <1>10, <1>11, <1>12, <1>13, <1>14,
     <1>15, <1>16, <1>17, <1>18 DEF DirNext, DirWork

-----------------------------------------------------------------------------
LEMMA Throughout == DirSpec => []DInv
BY DInvInit, DInvNext, PTL DEF DirSpec

(* The buffer never holds more blocks than the directory has, an entry is  *)
(* one of its identifiers, and the parts stay what they are on their own.  *)
THEOREM DirTypes == DirSpec => []DirTypeOK
BY Throughout, DInvImplies, PTL

(* The address of a block and the list of a file entry are right also when *)
(* they are found in the course of udf_read_dir.                           *)
THEOREM FilesStayRight == DirSpec => []ListIsWhole /\ []NoWrongBlock
BY Throughout, DInvImplies, PTL

(* The entries are identifiers of the directory in their order, none of    *)
(* them twice or put together from the wrong blocks, under the name that   *)
(* is recorded; also while _parse_dir_file is still at work.               *)
THEOREM EntriesRight == DirSpec => []EntriesAreRight
BY Throughout, DInvImplies, PTL

(* If udf_read_dir returns a directory and no allocation has failed, then  *)
(* no identifier that a listing shows is missing.                          *)
THEOREM WholeDirectory == DirSpec => []DirIsWhole
BY Throughout, DInvImplies, PTL

(* udf_read_dir refuses a directory as it should be only if memory is      *)
(* short or if every copy of one of its blocks is unreadable.              *)
THEOREM OneCopy == DirSpec => []OneCopyOfEach
BY Throughout, DInvImplies, PTL

(* The conversion of names keeps inside its buffer and loses no unit when  *)
(* it is called by _parse_dir_file.                                        *)
THEOREM NamesStayRight == DirSpec => []NameFits /\ []NameDecodes
<1>1. DInv => NameFits /\ NameDecodes
  BY CInvImplies DEF DInv
<1> QED
  BY <1>1, Throughout, PTL
=============================================================================
