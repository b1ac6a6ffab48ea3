----------------------------- MODULE VolumeOpen -----------------------------
(***************************************************************************)
(* Opening and closing a volume: udfread_open and udfread_open_input of    *)
(* src/udfread.c, src/udf_volume.c and what they call of src/udf_fs.c.     *)
(*                                                                         *)
(* An open recognises the volume, finds an anchor, searches the main and   *)
(* the reserve volume descriptor sequence, reads the partition maps (one   *)
(* of which may name a metadata partition with a mirror), the file set     *)
(* descriptor and the root directory.  Any block may be unreadable; a      *)
(* failed open leaves things behind in the handle, and the caller may try  *)
(* again, with the same disc or another one.  Any allocation the code      *)
(* tests may fail.                                                         *)
(*                                                                         *)
(* Opening is done by one thread, so a step is one pass of a loop.  A      *)
(* block is what its decoder finds in it.                                  *)
(***************************************************************************)
EXTENDS Integers, Sequences, FiniteSets

CONSTANTS
  M32,          \* 2^32, the modulus of uint32_t
  RecFirst,     \* 16: first block of volume recognition
  Anchor,       \* 256: end of volume recognition, place of the anchor
  Discs,        \* the discs an input may show
  Content,      \* what is on each
  Names,        \* identifiers, and names of files
  NoDisc,       \* NULL in place of an input
  Requests,     \* what udfread_select_partition is called with
  MaxAttempts,  \* bound: calls of udfread_open or udfread_open_input
  MaxBad,       \* bound: blocks of a disc that cannot be read in the first
                \* attempt with a handle; one less in each further attempt
  MaxHops       \* bound: volume descriptor pointers in a row

First == -1     \* UDFREAD_PARTITION_FIRST
Last  == -2     \* UDFREAD_PARTITION_LAST

(* A block with something on it is a record with a tag.  A partition does  *)
(* not begin at block 0, where recognition has its place.  Addresses are   *)
(* numbers without a width: their sums do not wrap.  The blocks of fsd are *)
(* those that udf_find_root_dir searches, at least one.  "fe" stands for   *)
(* both kinds of file entry, with the place of a directory's identifiers;  *)
(* a structure is one block.  Names that no listing shows (of the parent,  *)
(* empty ones) are left out.                                               *)
Loc == [lba : Nat, blocks : Nat]
Icb == [part : Nat, lba : Nat]
Map ==
  [type : {"type1"}, ref : Nat] \cup [type : {"type2"}, lba : Nat, mirror : Nat]
  \cup [type : {"other", "broken"}]
Avdp == [tag : {"avdp"}, main : Loc, reserve : Loc]
PrimaryVd == [tag : {"pvd"}, id : Names \cup {"none"}]
PartitionVd == [tag : {"pd"}, number : Nat, start : Nat \ {0}]
LogicalVd ==
  [tag : {"lvd"}, valid : {FALSE}]
  \cup [tag : {"lvd"}, valid : {TRUE}, maps : Seq(Map),
        fsd : [part : Nat, lba : Nat, blocks : Nat \ {0}]]
Block ==
  [tag : {"bea", "nsr", "tea", "nul", "td"}]
  \cup Avdp \cup [tag : {"vdp"}, next : Loc]
  \cup PrimaryVd \cup PartitionVd \cup LogicalVd
  \cup [tag : {"fsd"}, icb : Icb]
  \cup [tag : {"efe"}, type : {"metadata", "mirror", "other"}, ad : Nat]
  \cup [tag : {"fe"}, dir : BOOLEAN, at : Nat]
  \cup [tag : {"fid"}, names : Seq(Names \cup {"junk"})]

(* A disc: its size in blocks (0: the input cannot tell), and the blocks   *)
(* with something on them.                                                 *)
ASSUME DiscAssumption ==
  \A d \in Discs :
    /\ Content[d].size \in Nat
    /\ DOMAIN Content[d].block \subseteq Nat
    /\ Content[d].block \in [DOMAIN Content[d].block -> Block]

(* Pointers do not lead in a circle: those in the extent that a pointer    *)
(* leads to are of a lower rank.                                           *)
Pointers(d) == {l \in DOMAIN Content[d].block : Content[d].block[l].tag = "vdp"}
Within(l, e) == e.lba <= l /\ l < e.lba + e.blocks
ASSUME PointerAssumption ==
  \A d \in Discs : \E rank \in [Pointers(d) -> 1 .. MaxHops] :
    \A l, k \in Pointers(d) : Within(k, Content[d].block[l].next) => rank[k] < rank[l]

ASSUME BoundAssumption ==
  /\ M32 \in Nat \ {0} /\ RecFirst \in Nat /\ Anchor \in Nat
  /\ NoDisc \notin Discs /\ Requests \subseteq Int
  /\ MaxAttempts \in Nat /\ MaxBad \in Nat /\ MaxHops \in Nat

(* decode_descriptor_tag failed, or the input did.                         *)
Unreadable == [tag |-> "unreadable"]

VARIABLES
  handle,   \* the udfread object exists
  request,  \* udf->partition_to_open
  input,    \* udf->fs.input
  part,     \* udf->fs.part
  volid,    \* udf->volume_identifier
  root,     \* names in udf->root_dir.entries
  pc,       \* "idle", or where the open is, or how it failed
  o,        \* the variables of the open in progress; short says where
            \* memory was: for a partition map, the identifier, the root
  attempt,  \* opens so far, of this handle
  held      \* inputs the library has to close

vars == <<handle, request, input, part, volid, root, pc, o, attempt, held>>

NoPart == [num |-> 0, p |-> [k \in {0, 1} |-> [number |-> 0, lba |-> 0, mirror |-> 0]]]
Zeroed == [pd |-> [tag |-> "pd", number |-> 0, start |-> 0],
           pvd |-> [tag |-> "pvd", id |-> "none"],
           lvd |-> [tag |-> "lvd", valid |-> FALSE]]
NoLoc  == [lba |-> 0, blocks |-> 0]
NoOpen == [disc |-> NoDisc, bad |-> {}, path |-> FALSE, lba |-> 0, bea |-> FALSE,
           avdp |-> Unreadable, area |-> "main", loc |-> NoLoc, vds |-> Zeroed,
           mask |-> {}, map |-> 0, type1 |-> FALSE, icb |-> NoLoc,
           next |-> 0, short |-> {}]

(* What udfread_init allocates.                                            *)
Init ==
  /\ handle = TRUE
  /\ request = First
  /\ input = NoDisc
  /\ part = NoPart
  /\ volid = "none"
  /\ root = <<>>
  /\ pc = "idle"
  /\ o = NoOpen
  /\ attempt = 0
  /\ held = 0

Kept == <<handle, request, part, volid, root, attempt, held>>

-----------------------------------------------------------------------------
(* The calls of the API.                                                   *)

udfread_init ==
  /\ ~handle
  /\ handle' = TRUE
  /\ UNCHANGED <<request, input, part, volid, root, pc, o, attempt, held>>

udfread_select_partition(q) ==
  /\ handle /\ pc = "idle"
  /\ input = NoDisc
  /\ q >= Last
  /\ request' = q
  /\ UNCHANGED <<handle, input, part, volid, root, pc, o, attempt, held>>

(* Mutant: an open volume is opened over.                                  *)
Start_Anyhow == "probe"
Start == IF input # NoDisc THEN "already_open" ELSE "probe"

(* path: the library makes the input itself.  bad is the set of blocks     *)
(* that cannot be read for the time of this attempt.                       *)
Open(path, d, bad) ==
  /\ handle /\ pc = "idle"
  /\ attempt < MaxAttempts
  /\ attempt' = attempt + 1
  /\ held' = IF path THEN held + 1 ELSE held
  /\ o' = [NoOpen EXCEPT !.disc = d, !.bad = bad, !.path = path, !.lba = RecFirst]
  /\ pc' = Start
  /\ UNCHANGED <<handle, request, input, part, volid, root>>

udfread_open_input(d, bad) == Open(FALSE, d, bad)
udfread_open(d, bad) == Open(TRUE, d, bad)

(* Mutants: only an input that was used is closed; the caller's is, too.   *)
Discarded_Always == 1
Discarded_NotUsed == IF o.path /\ pc # "already_open" THEN 1 ELSE 0
Discarded == IF o.path THEN 1 ELSE 0

Failures == {"already_open", "not_recognized", "no_anchor", "no_vds", "bad_lvd",
             "no_type1", "no_fsd", "no_root"}

OpenFailed ==
  /\ pc \in Failures
  /\ pc' = "idle"
  /\ o' = NoOpen
  /\ held' = held - Discarded
  /\ UNCHANGED <<handle, request, input, part, volid, root, attempt>>

OpenDone ==
  /\ pc = "opened"
  /\ pc' = "idle"
  /\ o' = NoOpen
  /\ held' = IF o.path THEN held ELSE held + 1
  /\ UNCHANGED <<handle, request, input, part, volid, root, attempt>>

(* Freed memory is described as a new one will be.                         *)
udfread_close ==
  /\ handle /\ pc = "idle"
  /\ handle' = FALSE
  /\ held' = IF input # NoDisc THEN held - 1 ELSE held
  /\ request' = First
  /\ input' = NoDisc
  /\ part' = NoPart
  /\ volid' = "none"
  /\ root' = <<>>
  /\ attempt' = 0
  /\ UNCHANGED <<pc, o>>

-----------------------------------------------------------------------------
(* Volume recognition.                                                     *)

(* The blocks of a disc that can be read.                                  *)
View(d, bad) == [l \in DOMAIN Content[d].block \ bad |-> Content[d].block[l]]
BlockAt(v, l) == IF l \in DOMAIN v THEN v[l] ELSE Unreadable
Read(l) == BlockAt(View(o.disc, o.bad), l)

(* Mutant: a block that cannot be read is tried again.                     *)
ProbeNext_Retry == IF Read(o.lba) = Unreadable THEN o.lba ELSE o.lba + 1
ProbeNext == o.lba + 1

udf_probe_volume ==
  /\ pc = "probe"
  /\ LET b == Read(o.lba).tag IN
     \/ /\ o.lba >= Anchor \/ b \in {"tea", "nul"}
        /\ pc' = "not_recognized"
        /\ o' = o
     \/ /\ o.lba < Anchor
        /\ o.bea /\ b = "nsr"
        /\ pc' = "anchor"
        /\ o' = [o EXCEPT !.lba = Anchor]
     \/ /\ o.lba < Anchor
        /\ b \notin {"tea", "nul"} /\ ~(o.bea /\ b = "nsr")
        /\ pc' = "probe"
        /\ o' = [o EXCEPT !.lba = ProbeNext, !.bea = @ \/ b = "bea"]
  /\ UNCHANGED <<Kept, input>>

(* The anchor is in block 256, the last block or 256 blocks before it.     *)
Anchors(d) ==
  LET size == Content[d].size
  IN IF size = 0 THEN <<Anchor>> ELSE <<Anchor, size - 1, (size - 1 - Anchor) % M32>>

(* Before the main sequence is searched the descriptors are cleared.       *)
FoundAnchor(a) ==
  [o EXCEPT !.avdp = a, !.area = "main", !.loc = a.main, !.lba = a.main.lba,
            !.vds = Zeroed, !.mask = {}]

_read_avdp ==
  /\ pc = "anchor"
  /\ LET found == {i \in DOMAIN Anchors(o.disc) : Read(Anchors(o.disc)[i]).tag = "avdp"}
     IN IF found = {}
          THEN pc' = "no_anchor" /\ o' = o
          ELSE LET i == CHOOSE i \in found : \A j \in found : i <= j
               IN pc' = "search" /\ o' = FoundAnchor(Read(Anchors(o.disc)[i]))
  /\ UNCHANGED <<Kept, input>>

-----------------------------------------------------------------------------
(* The volume descriptor sequences.                                        *)

All      == {"part", "pvd", "lvd"}  \* VDS_HAVE_ALL
Required == {"part", "pvd"}         \* VDS_HAVE_REQUIRED

(* A partition descriptor is decoded until the one asked for is found; for *)
(* the last partition every one is.  Mutant: the first is kept.            *)
Decoded_First == "part" \notin o.mask
Decoded == "part" \notin o.mask \/ request = Last

Take(b) ==
  CASE b.tag = "pvd" -> [o EXCEPT !.vds.pvd = b, !.mask = @ \cup {"pvd"}]
    [] b.tag = "lvd" -> [o EXCEPT !.vds.lvd = b, !.mask = @ \cup {"lvd"}]
    [] b.tag = "pd" /\ Decoded ->
         [o EXCEPT !.vds.pd = b,
                   !.mask = IF request < 0 \/ request = b.number THEN @ \cup {"part"} ELSE @]
    [] OTHER -> o

(* _search_vds returns: to the reserve sequence, or to udf_read_vds' end.  *)
SearchReturns(s) ==
  LET reserve == s.avdp.reserve IN
  IF s.area = "main" /\ ~(All \subseteq s.mask)
    THEN /\ pc' = "search"
         /\ o' = [s EXCEPT !.area = "reserve", !.loc = reserve, !.lba = reserve.lba]
    ELSE /\ pc' = IF Required \subseteq s.mask THEN "validate" ELSE "no_vds"
         /\ o' = s

SearchEnd ==
  /\ pc = "search"
  /\ \/ o.lba >= o.loc.lba + o.loc.blocks
     \/ Read(o.lba).tag = "td"
  /\ SearchReturns(o)
  /\ UNCHANGED <<Kept, input>>

SearchPointer ==
  /\ pc = "search"
  /\ o.lba < o.loc.lba + o.loc.blocks
  /\ LET b == Read(o.lba) IN
     /\ b.tag = "vdp"
     /\ o' = [o EXCEPT !.loc = b.next, !.lba = b.next.lba]
  /\ UNCHANGED <<Kept, input, pc>>

SearchBlock ==
  /\ pc = "search"
  /\ o.lba < o.loc.lba + o.loc.blocks
  /\ Read(o.lba).tag \notin {"td", "vdp"}
  /\ LET s == Take(Read(o.lba)) IN
     IF All \subseteq s.mask /\ request # Last
       THEN SearchReturns(s)
       ELSE o' = [s EXCEPT !.lba = @ + 1] /\ pc' = pc
  /\ UNCHANGED <<Kept, input>>

(* The volume identifier goes into the handle.  NULL, for want of memory,  *)
(* is as good as any.                                                      *)
Identifier(short) == IF short = {} THEN o.vds.pvd.id ELSE "none"

udf_validate_logical_volume ==
  /\ pc = "validate"
  /\ IF o.vds.lvd.valid
       THEN /\ pc' = "maps"
            /\ \E short \in SUBSET {"volid"} :
                 /\ volid' = Identifier(short)
                 /\ o' = [o EXCEPT !.map = 1, !.type1 = FALSE, !.short = short]
       ELSE pc' = "bad_lvd" /\ UNCHANGED <<volid, o>>
  /\ UNCHANGED <<handle, request, input, part, root, attempt, held>>

-----------------------------------------------------------------------------
(* Partition maps.  A map is of type 1, of type 2 (a metadata partition),  *)
(* another one ("other"), or so malformed that the loop ends ("broken").   *)

Maps == o.vds.lvd.maps

MapType1 ==
  /\ pc = "maps"
  /\ o.map <= Len(Maps)
  /\ Maps[o.map].type = "type1"
  /\ IF o.type1 \/ Maps[o.map].ref # o.vds.pd.number
       THEN part' = part /\ o' = [o EXCEPT !.map = @ + 1]
       ELSE /\ part' = [num |-> 1, p |-> [part.p EXCEPT
                          ![0] = [number |-> o.map - 1, lba |-> o.vds.pd.start, mirror |-> 0]]]
            /\ o' = [o EXCEPT !.map = @ + 1, !.type1 = TRUE]
  /\ UNCHANGED <<handle, request, input, volid, root, pc, attempt, held>>

(* _map_metadata_partition: what the file entry of a metadata file says of *)
(* the partition.  One that cannot be used says nothing.                   *)
Placed(p, b) ==
  CASE b.tag = "efe" /\ b.type = "metadata" -> [p EXCEPT !.lba = o.vds.pd.start + b.ad]
    [] b.tag = "efe" /\ b.type = "mirror" -> [p EXCEPT !.mirror = o.vds.pd.start + b.ad]
    [] OTHER -> p

Promoted(p) ==
  IF p.lba = 0 THEN [number |-> p.number, lba |-> p.mirror, mirror |-> 0] ELSE p

(* The entries of the main file (1) and of the mirror (2); one that is     *)
(* lost, for want of memory to decode it, is as good as none.              *)
EntryOf(m, i, lost) ==
  IF i \in lost THEN Unreadable
  ELSE Read(o.vds.pd.start + IF i = 1 THEN m.lba ELSE m.mirror)
Resolved(p, m, lost) == Promoted(Placed(Placed(p, EntryOf(m, 1, lost)), EntryOf(m, 2, lost)))

MapType2 ==
  /\ pc = "maps"
  /\ o.map <= Len(Maps)
  /\ Maps[o.map].type = "type2"
  /\ \E lost \in SUBSET {i \in {1, 2} : EntryOf(Maps[o.map], i, {}).tag = "efe"} :
       LET p == Resolved(part.p[1], Maps[o.map], lost) IN
       /\ part' = IF p.lba = 0 THEN [part EXCEPT !.p[1] = p]
                  ELSE [num |-> 2, p |-> [part.p EXCEPT ![1] = [p EXCEPT !.number = o.map - 1]]]
       /\ o' = [o EXCEPT !.map = @ + 1, !.short = IF lost = {} THEN @ ELSE @ \cup {"map"}]
  /\ UNCHANGED <<handle, request, input, volid, root, pc, attempt, held>>

MapOther ==
  /\ pc = "maps"
  /\ o.map <= Len(Maps)
  /\ Maps[o.map].type = "other"
  /\ o' = [o EXCEPT !.map = @ + 1]
  /\ UNCHANGED <<Kept, input, pc>>

(* The input goes into the handle when a type 1 partition was found.       *)
MapsEnd ==
  /\ pc = "maps"
  /\ o.map <= Len(Maps) => Maps[o.map].type = "broken"
  /\ IF o.type1
       THEN /\ pc' = "fsd"
            /\ input' = o.disc
            /\ o' = [o EXCEPT !.lba = o.vds.lvd.fsd.lba]
       ELSE pc' = "no_type1" /\ UNCHANGED <<input, o>>
  /\ UNCHANGED Kept

-----------------------------------------------------------------------------
(* The file set descriptor and the root directory.                         *)

(* _partition_index, as a set of at most one.                              *)
Index(number) ==
  IF number = part.p[0].number THEN {0}
  ELSE IF part.num > 1 /\ number = part.p[1].number THEN {1} ELSE {}

(* _read_metadata_blocks: one block, from the mirror when the primary      *)
(* cannot be read.  Mutant: no mirror.                                     *)
MetadataBlock_Once(number, l) ==
  IF Index(number) = {} THEN Unreadable
  ELSE LET p == part.p[CHOOSE k \in Index(number) : TRUE] IN Read(p.lba + l)
MetadataBlock(number, l) ==
  IF Index(number) = {} THEN Unreadable
  ELSE LET p == part.p[CHOOSE k \in Index(number) : TRUE]
           b == Read(p.lba + l)
       IN IF b = Unreadable /\ p.mirror # 0 THEN Read(p.mirror + l) ELSE b

(* udf_find_root_dir: one block of the File Set Descriptor area.           *)
FindFsd ==
  /\ pc = "fsd"
  /\ LET fsd == o.vds.lvd.fsd
         b == MetadataBlock(fsd.part, o.lba)
     IN CASE o.lba < fsd.lba + fsd.blocks /\ b.tag = "fsd" ->
               pc' = "root" /\ o' = [o EXCEPT !.icb = b.icb] /\ input' = input
          [] o.lba < fsd.lba + fsd.blocks /\ b.tag \notin {"fsd", "td"} ->
               pc' = "fsd" /\ o' = [o EXCEPT !.lba = @ + 1] /\ input' = input
          [] OTHER ->
               pc' = "no_fsd" /\ input' = NoDisc /\ o' = o
  /\ UNCHANGED Kept

(* udf_read_dir: the identifiers in the block that the file entry of the   *)
(* root directory names, "junk" one with a wrong tag.  The buffer keeps    *)
(* what was read: nothing that RootData depends on changes meanwhile.      *)
RootEntry == MetadataBlock(o.icb.part, o.icb.lba)
RootList ==
  IF RootEntry.tag = "fe" /\ RootEntry.dir THEN MetadataBlock(o.icb.part, RootEntry.at)
  ELSE Unreadable
RootData == IF RootList.tag = "fid" THEN RootList.names ELSE <<"junk">>

RootFails(short) ==
  /\ pc' = "no_root"
  /\ input' = NoDisc
  /\ o' = [o EXCEPT !.short = @ \cup short]

(* The file entry and the identifiers are read, each into memory of its    *)
(* own, and the former is decoded into more.                               *)
ReadRoot ==
  /\ pc = "root"
  /\ \/ RootFails({"root"})
     \/ RootList.tag # "fid" /\ RootFails({})
     \/ RootList.tag = "fid" /\ pc' = "names" /\ o' = [o EXCEPT !.next = 0] /\ input' = input
  /\ UNCHANGED <<handle, request, part, volid, root, attempt, held>>

(* _parse_dir_file: an identifier goes to the root directory of the        *)
(* handle, unless there is no memory to convert its name.  Mutant: a       *)
(* damaged directory is good for the entries before the damage.            *)
Damage_Ends == o' = [o EXCEPT !.next = Len(RootData)] /\ UNCHANGED <<pc, input>>
Damage == RootFails({})

ReadName ==
  /\ pc = "names" /\ o.next < Len(RootData)
  /\ LET name == RootData[o.next + 1] IN
     \/ name = "junk" /\ Damage /\ root' = root
     \/ /\ name # "junk"
        /\ root' = Append(root, name)
        /\ o' = [o EXCEPT !.next = @ + 1] /\ UNCHANGED <<pc, input>>
     \/ /\ name # "junk"
        /\ root' = root
        /\ o' = [o EXCEPT !.next = @ + 1, !.short = @ \cup {"root"}] /\ UNCHANGED <<pc, input>>
  /\ UNCHANGED <<handle, request, part, volid, attempt, held>>

(* The array cannot grow for one more identifier, shown or not: it is      *)
(* freed, but not the count of its entries.                                *)
ArrayLost ==
  /\ pc = "names"
  /\ root' = [i \in DOMAIN root |-> "gone"]
  /\ RootFails({"root"})
  /\ UNCHANGED <<handle, request, part, volid, attempt, held>>

RootDone ==
  /\ pc = "names" /\ o.next = Len(RootData)
  /\ pc' = "opened"
  /\ UNCHANGED <<Kept, input, o>>

-----------------------------------------------------------------------------
(* The sets of blocks that may be unreadable.                              *)
Faults ==
  LET f[n \in 0 .. MaxBad] ==
        [d \in Discs |->
           IF n = 0 THEN {{}}
           ELSE f[n - 1][d] \cup
                {s \cup {b} : s \in f[n - 1][d], b \in DOMAIN Content[d].block}]
  IN f

Call ==
  \/ udfread_init
  \/ \E q \in Requests : udfread_select_partition(q)
  \/ \E d \in Discs, n \in 0 .. MaxBad :
       /\ n = MaxBad - attempt
       /\ \E bad \in Faults[n][d] : udfread_open_input(d, bad) \/ udfread_open(d, bad)
  \/ udfread_close

Work ==
  \/ udf_probe_volume
  \/ _read_avdp
  \/ SearchEnd
  \/ SearchPointer
  \/ SearchBlock
  \/ udf_validate_logical_volume
  \/ MapType1
  \/ MapType2
  \/ MapOther
  \/ MapsEnd
  \/ FindFsd
  \/ ReadRoot
  \/ ReadName
  \/ ArrayLost
  \/ RootDone
  \/ OpenFailed
  \/ OpenDone

Next == Call \/ Work
Spec == Init /\ [][Next]_vars

(* The thread that opens runs on.                                          *)
FairSpec == Spec /\ WF_vars(Work)

-----------------------------------------------------------------------------
(* What a disc holds, as the standard puts it: a reference for the search. *)
(* v stands for the blocks that can be read.                               *)

(* The blocks of an extent before the descriptor that ends it.             *)
EndsAt(v, e, k) == BlockAt(v, e.lba + k).tag \in {"td", "vdp"}
Reach(v, e) ==
  CHOOSE k \in 0 .. e.blocks :
    (k = e.blocks \/ EndsAt(v, e, k)) /\ \A i \in 0 .. k - 1 : ~EndsAt(v, e, i)

(* The extents of a sequence: each may end with a pointer to the next one. *)
Following(v, e) ==
  LET b == BlockAt(v, e.lba + Reach(v, e))
  IN IF Reach(v, e) < e.blocks /\ b.tag = "vdp" THEN b.next ELSE NoLoc
Extents(v, loc) ==
  LET e[n \in 0 .. MaxHops] == IF n = 0 THEN loc ELSE Following(v, e[n - 1]) IN e

(* The descriptors of a sequence, each with its place in the reading order *)
(* (area 0 is the main one).                                               *)
Sequence(v, area, loc) ==
  LET e == Extents(v, loc) IN
  UNION {{[at |-> <<area, n, i>>, is |-> BlockAt(v, e[n].lba + i)] : i \in 0 .. Reach(v, e[n]) - 1} :
         n \in 0 .. MaxHops}
Before(p, q) ==
  \/ p[1] < q[1]
  \/ p[1] = q[1] /\ p[2] < q[2]
  \/ p[1] = q[1] /\ p[2] = q[2] /\ p[3] < q[3]

Tagged(S, t) == {x \in S : x.is.tag = t}
Wanted(S, q) == {x \in Tagged(S, "pd") : q < 0 \/ x.is.number = q}

(* The reserve sequence counts when the main one is incomplete.            *)
Found(v, q, avdp) ==
  LET main == Sequence(v, 0, avdp.main)
  IN IF Wanted(main, q) # {} /\ Tagged(main, "pvd") # {} /\ Tagged(main, "lvd") # {}
       THEN main ELSE main \cup Sequence(v, 1, avdp.reserve)
Chosen(S, q) ==
  CHOOSE x \in Wanted(S, q) : \A y \in Wanted(S, q) \ {x} :
    IF q = Last THEN Before(y.at, x.at) ELSE Before(x.at, y.at)
Descriptors == Found(View(o.disc, o.bad), request, o.avdp)

(* Where a partition begins: at one place, or for a metadata partition at  *)
(* every one a readable file entry names.                                  *)
Entry(m) == {b \in {Read(o.vds.pd.start + m.lba), Read(o.vds.pd.start + m.mirror)} :
               b.tag = "efe" /\ b.type \in {"metadata", "mirror"}}
Starts(m) ==
  CASE m.type = "type1" /\ m.ref = o.vds.pd.number -> {o.vds.pd.start}
    [] m.type = "type2" -> {o.vds.pd.start + b.ad : b \in Entry(m)}
    [] OTHER -> {}
Copies(number) == IF number + 1 \in DOMAIN Maps THEN Starts(Maps[number + 1]) ELSE {}
AnyCopy(number, l) == {Read(c + l) : c \in Copies(number)} \ {Unreadable}

(* A block that can be read and is what it should be, in all its copies.   *)
IsFsd(b) == b.tag = "fsd"
IsDir(b) == b.tag = "fe" /\ b.dir
IsList(b) == b.tag = "fid" /\ \A i \in DOMAIN b.names : b.names[i] # "junk"
Sound(number, l, Is(_)) == AnyCopy(number, l) # {} /\ \A b \in AnyCopy(number, l) : Is(b)

(* Partition maps as they should be: one for the partition, and behind it  *)
(* at most one for its metadata, whose two files are of the right types.   *)
WellMapped ==
  /\ \A i, j \in DOMAIN Maps :
       /\ Maps[i].type = "type1" /\ Maps[j].type = "type1" => i = j \/ Maps[i].ref # Maps[j].ref
       /\ Maps[i].type = "type2" /\ Maps[j].type = "type2" => i = j
       /\ Maps[i].type = "type1" /\ Maps[j].type = "type2" => i < j
       /\ Maps[i].type = "broken" => j <= i
  /\ \A i \in DOMAIN Maps :
       Maps[i].type = "type2" =>
         LET b == Read(o.vds.pd.start + Maps[i].lba)
             c == Read(o.vds.pd.start + Maps[i].mirror)
         IN (b.tag = "efe" => b.type = "metadata") /\ (c.tag = "efe" => c.type = "mirror")

-----------------------------------------------------------------------------
TypeOK ==
  /\ handle \in BOOLEAN
  /\ request \in Requests \cup {First}
  /\ input \in Discs \cup {NoDisc}
  /\ part \in [num : 0 .. 2, p : [{0, 1} -> [number : Nat, lba : Nat, mirror : Nat]]]
  /\ volid \in Names \cup {"none"} /\ root \in Seq(Names \cup {"gone"})
  /\ pc \in {"idle", "probe", "anchor", "search", "validate", "maps", "fsd", "root",
             "names", "opened"} \cup Failures
  /\ o.disc \in Discs \cup {NoDisc} /\ o.path \in BOOLEAN
  /\ o.lba \in Nat /\ o.loc \in Loc /\ o.map \in Nat
  /\ o.avdp \in Avdp \cup {Unreadable}
  /\ o.vds.pd \in PartitionVd \cup {Zeroed.pd}
  /\ o.vds.pvd \in PrimaryVd \cup {Zeroed.pvd} /\ o.vds.lvd \in LogicalVd
  /\ o.mask \in SUBSET All
  /\ o.icb \in Icb \cup {NoLoc}
  /\ o.next \in Nat /\ o.short \in SUBSET {"map", "volid", "root"}
  /\ attempt \in 0 .. MaxAttempts
  /\ held \in Nat

(* Between calls the library is responsible for the input of an open       *)
(* volume and for no other: what udfread_open made for an open that failed *)
(* is closed again, what the caller made is left to the caller.            *)
InputsHeld == pc = "idle" => held = IF input = NoDisc THEN 0 ELSE 1

(* The search ends with the partition descriptor that was asked for, as    *)
(* the readable descriptors say, and with volume descriptors that are      *)
(* among them, when any are: early end, reserve sequence, pointers and     *)
(* unreadable blocks make no difference.  It fails only when one of the    *)
(* three descriptors is not there; which ones are needed is another matter.*)
SearchIsRight ==
  /\ pc = "validate" =>
       /\ Wanted(Descriptors, request) # {}
       /\ o.vds.pd = Chosen(Descriptors, request).is
       /\ \A t \in {"pvd", "lvd"} :
            \/ \E x \in Tagged(Descriptors, t) : o.vds[t] = x.is
            \/ Tagged(Descriptors, t) = {} /\ o.vds[t] = Zeroed[t]
  /\ pc = "no_vds" =>
       Wanted(Descriptors, request) = {} \/ \E t \in {"pvd", "lvd"} : Tagged(Descriptors, t) = {}

(* udf_volume.c:269: "all strictly needed data found (PVD may still be     *)
(* missing)".  The search fails only without the partition asked for or    *)
(* without a logical volume descriptor.                                    *)
PvdMayBeMissing ==
  pc = "no_vds" => Wanted(Descriptors, request) = {} \/ Tagged(Descriptors, "lvd") = {}

(* A handle used for the first time, with memory enough, fails to find the *)
(* File Set Descriptor or the root directory only when no copy of one of   *)
(* the blocks it needs can be read, or one is not what it should be: each  *)
(* block may come from the main or from the mirror file.                   *)
OneCopyIsEnough ==
  attempt = 1 =>
    /\ pc = "no_fsd" /\ "map" \notin o.short /\ WellMapped =>
         LET fsd == o.vds.lvd.fsd IN
         \A l \in fsd.lba .. fsd.lba + fsd.blocks - 1 :
           Sound(fsd.part, l, IsFsd) =>
             \E k \in fsd.lba .. l - 1 : \E b \in AnyCopy(fsd.part, k) : b.tag = "td"
    /\ pc = "no_root" /\ {"map", "root"} \cap o.short = {} /\ WellMapped =>
         ~ /\ Sound(o.icb.part, o.icb.lba, IsDir)
           /\ \A b \in AnyCopy(o.icb.part, o.icb.lba) : Sound(o.icb.part, b.at, IsList)

(* The names of s are names of t, in their order.                          *)
Sublist(s, t) ==
  \E f \in [DOMAIN s -> DOMAIN t] :
    /\ \A i, j \in DOMAIN s : i < j => f[i] < f[j]
    /\ \A i \in DOMAIN s : s[i] = t[f[i]]

(* A volume that opens at the first attempt shows the root directory of a  *)
(* readable copy and the identifier of the disc.  The directory lacks      *)
(* names, and the identifier is missing, only when memory was short for    *)
(* them; names are never out of order or not of this directory.            *)
OpenedIsComplete ==
  pc = "opened" /\ attempt = 1 =>
    /\ WellMapped =>
         \E b \in AnyCopy(o.icb.part, o.icb.lba) : \E x \in AnyCopy(o.icb.part, b.at) :
           /\ IsDir(b) /\ IsList(x)
           /\ Sublist(root, x.names)
           /\ "root" \in o.short \/ root = x.names
    /\ \/ \E x \in Tagged(Descriptors, "pvd") : volid = x.is.id
       \/ "volid" \in o.short /\ volid = "none"

(* Once the partitions are in place nothing changes them but closing: not  *)
(* another open, not another selection.                                    *)
StaysOpen ==
  [][input # NoDisc /\ input' = input =>
       /\ UNCHANGED <<part, volid, request>>
       /\ root' # root => pc = "names"]_vars

(* Opening comes to an end, whatever can be read.                          *)
OpenReturns == pc = "probe" ~> pc = "idle"

(* udf_volume.c:362: "failed reading primary location, must use mirror".   *)
(* The metadata partition is where the disc's own file entries place it.   *)
MetadataOfThisDisc ==
  pc = "fsd" /\ part.num = 2 => part.p[1].lba \in Copies(part.p[1].number)
=============================================================================
