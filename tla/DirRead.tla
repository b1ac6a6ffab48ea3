------------------------------ MODULE DirRead ------------------------------
(***************************************************************************)
(* Reading a directory: udf_read_dir of src/udf_fs.c, which composes       *)
(*   FileEntry   udf_read_file_entry, that finds the directory file        *)
(*   Decode      the lengths in a file identifier                          *)
(*   Cs0         udf_cs0_to_mutf8, that converts each name                 *)
(* with the reading of its blocks (_read_metadata, each block from the     *)
(* main or the mirror copy) and the parser (_parse_dir_file).              *)
(*                                                                         *)
(* A directory is a list of file identifiers, cut into blocks without      *)
(* regard to their borders.  Any copy of a block may be unreadable and     *)
(* memory may be short at any allocation.                                  *)
(***************************************************************************)
EXTENDS FileEntry, Cs0, Decode

CONSTANTS
  BS,       \* UDF_BLOCK_SIZE
  TagSize   \* the size of a descriptor tag (16 bytes)

ASSUME LayoutAssumption ==
  /\ BS \in Nat \ {0}
  /\ TagSize \in Nat /\ TagSize < FidHead

(* A directory is a file of FileEntry with the identifiers recorded in it, *)
(* the bytes its first extent (or its entry) holds, the address of that    *)
(* extent and of the entry, and whether its partition has a mirror.        *)
Fid == [parent : BOOLEAN, name : Seq(Byte), iu : Nat, tag : BOOLEAN]
ASSUME DirsAssumption ==
  \A m \in Media :
    /\ m.dir \in BOOLEAN /\ m.mirror \in BOOLEAN
    /\ m.fids \in Seq(Fid) /\ \A k \in DOMAIN m.fids : m.fids[k].name \in Names
    /\ m.bytes \in Nat /\ m.at \in Nat /\ m.icb \in Nat

VARIABLES
  bad,     \* the copies of blocks that cannot be read
  dpc,     \* "none", "entry" (udf_read_file_entry), "blocks" (loop of
           \* _read_metadata_blocks), "parse" (loop of _parse_dir_file),
           \* "name" (udf_cs0_to_mutf8), "done"
  data,    \* the buffer: the address each of its blocks was read from
  off,     \* p - data
  cur,     \* the file identifier that is being converted
  files,   \* dir->files
  num,     \* dir->num_entries
  result,  \* what udf_read_dir returns
  short    \* memory was short (history)

dvars == <<bad, dpc, data, off, cur, files, num, result, short>>
allvars == <<vars, cvars, dvars>>

Copies == {"main", "mirror"}
NumBlocks == (medium.bytes + BS - 1) \div BS

(* The places a directory is read from; at most two copies are bad.        *)
Places(m) ==
  {m.icb} \cup DOMAIN m.part \cup
  (IF m.entry.inline THEN {} ELSE m.at .. m.at + (m.bytes + BS - 1) \div BS - 1)
Faults(m) ==
  LET copies == (IF m.mirror THEN Copies ELSE {"main"}) \X Places(m)
  IN IF m.dir THEN {{x, y} : x \in copies, y \in copies} \cup {{}} ELSE {{}}

DirInit ==
  /\ Init /\ Idle
  /\ bad \in Faults(medium)
  /\ dpc = "none"
  /\ data = <<>> /\ off = 0 /\ cur = 0
  /\ files = <<>> /\ num = 0
  /\ result = 0
  /\ short = FALSE

-----------------------------------------------------------------------------
(* _read_metadata_blocks.  The first block of a structure counts as        *)
(* unreadable without a descriptor tag as well.  Mutant: the mirror is     *)
(* tried for the first block only.                                         *)
Tried_First(i) == IF i = 0 THEN Copies ELSE {"main"}
Tried(i) == Copies
HasCopy(place, i) ==
  \E c \in Tried(i) : (c = "mirror" => medium.mirror) /\ <<c, place>> \notin bad

(* Block i of the directory file.  Mutant: the loop does not advance.      *)
BlockLba_First(i) == fe.ads[1].lba
BlockLba(i) == fe.ads[1].lba + i

(* udf_read_dir returns; free_file_entry.                                  *)
End(res) ==
  /\ dpc' = "done"
  /\ result' = res
  /\ pc' = "closed"
  /\ fe' = NoFe
  /\ lost' = FALSE
  /\ UNCHANGED <<medium, asked, got, bad, data, off, cur, num>>

udf_read_dir ==
  /\ dpc = "none" /\ pc = "closed"
  /\ dpc' = "entry"
  /\ pc' = "entry"
  /\ UNCHANGED <<medium, fe, lost, asked, got, cvars, bad, data, off, cur, files, num, result, short>>

(* udf_read_file_entry, its blocks read like all metadata.  What fails     *)
(* there is unreadable, not what was expected, or short of memory.         *)
Unless(broken) == short' = (short \/ ~broken)
BrokenEntry == ~HasCopy(medium.icb, 0) \/ medium.entry.tag \notin {"fe", "efe"} \/ ~medium.entry.valid
BrokenPart ==
  \/ Pointer.lba \notin DOMAIN medium.part
  \/ ~HasCopy(Pointer.lba, 0)
  \/ medium.part[Pointer.lba].tag # "aed"
  \/ ~medium.part[Pointer.lba].valid

EntryOfDir ==
  /\ dpc = "entry"
  /\ \/ ReadEntry /\ ~BrokenEntry /\ short' = short
     \/ EntryFails /\ Unless(BrokenEntry)
     \/ ReadPart /\ ~BrokenPart /\ short' = short
     \/ PartFails /\ Unless(BrokenPart)
     \/ ChainEnd /\ short' = short
  /\ UNCHANGED <<cvars, bad, dpc, data, off, cur, files, num, result>>

HasEntry == dpc = "entry" /\ pc = "open"

NoDirectory ==
  /\ \/ dpc = "entry" /\ pc = "closed"
     \/ HasEntry /\ ~medium.dir
     \/ HasEntry /\ ~fe.inline /\ (fe.ads = <<>> \/ medium.bytes = 0)
  /\ End(-1)
  /\ UNCHANGED <<cvars, files, short>>

(* The data is in the entry itself.                                        *)
Inline ==
  /\ HasEntry /\ medium.dir /\ fe.inline
  /\ dpc' = "parse"
  /\ data' = [b \in 1 .. NumBlocks |-> medium.at + b - 1]
  /\ UNCHANGED <<vars, cvars, bad, off, cur, files, num, result, short>>

(* _read_dir_file of the first extent, whatever follows it.                *)
FirstExtent ==
  /\ HasEntry /\ medium.dir /\ ~fe.inline /\ fe.ads # <<>> /\ medium.bytes > 0
  /\ dpc' = "blocks"
  /\ UNCHANGED <<vars, cvars, bad, data, off, cur, files, num, result, short>>

(* malloc of the buffer fails.                                             *)
NoBuffer ==
  /\ HasEntry /\ medium.dir /\ ~fe.inline /\ fe.ads # <<>> /\ medium.bytes > 0
  /\ End(-1)
  /\ short' = TRUE
  /\ UNCHANGED <<cvars, files>>

NextBlock == Len(data)

ReadBlockOfDir ==
  /\ dpc = "blocks" /\ NextBlock < NumBlocks
  /\ HasCopy(BlockLba(NextBlock), NextBlock)
  /\ data' = Append(data, BlockLba(NextBlock))
  /\ UNCHANGED <<vars, cvars, bad, dpc, off, cur, files, num, result, short>>

BlockFails ==
  /\ dpc = "blocks" /\ NextBlock < NumBlocks
  /\ ~HasCopy(BlockLba(NextBlock), NextBlock)
  /\ End(-1)
  /\ UNCHANGED <<cvars, files, short>>

BlocksDone ==
  /\ dpc = "blocks" /\ NextBlock = NumBlocks
  /\ dpc' = "parse"
  /\ UNCHANGED <<vars, cvars, bad, data, off, cur, files, num, result, short>>

-----------------------------------------------------------------------------
(* decode_file_identifier.                                                 *)
Needs(f) == FidNeeds(Len(f.name), f.iu)
Occupies(f) == FidOccupies(Len(f.name), f.iu)

(* Where the identifiers of the directory begin as they are recorded.      *)
Begins ==
  LET s == Sums([k \in DOMAIN medium.fids |-> Occupies(medium.fids[k])])
  IN [k \in DOMAIN medium.fids |-> s[k - 1]]

(* What the parser meets at an offset, provided that the buffer holds the  *)
(* right block there; and whether it holds all blocks of the identifier.   *)
Holds(p) == data[p \div BS + 1] = medium.at + p \div BS
Here == {k \in DOMAIN medium.fids : Begins[k] = off /\ medium.fids[k].tag /\ Holds(off)}
Intact(k) == \A p \in Begins[k] .. Begins[k] + Needs(medium.fids[k]) - 1 : Holds(p)

(* The head of the loop.  Mutant: the last identifier is not looked at.    *)
Goes_Short == off + FidHead + TagSize < medium.bytes
Goes == off < medium.bytes - TagSize

InLoop == dpc = "parse" /\ Goes
Parsing(k) == InLoop /\ k \in Here
Enough(k) ==
  FidAccepted(Len(medium.fids[k].name), medium.fids[k].iu, medium.bytes - off)
Unnamed(k) == medium.fids[k].parent \/ medium.fids[k].name = <<>>

(* The last identifier has been read, or what is left is not one.          *)
ParseEnds ==
  /\ \/ dpc = "parse" /\ ~Goes
     \/ InLoop /\ \E k \in Here : ~Enough(k)
  /\ End(0)
  /\ UNCHANGED <<cvars, files, short>>

WrongTag ==
  /\ InLoop /\ Here = {}
  /\ End(-1)
  /\ UNCHANGED <<cvars, files, short>>

(* realloc of dir->files fails and has freed the array.                    *)
NoArray ==
  /\ InLoop /\ Here # {}
  /\ files' = <<>>
  /\ short' = TRUE
  /\ End(-1)
  /\ UNCHANGED cvars

Skip(k) ==
  /\ Parsing(k) /\ Enough(k) /\ Unnamed(k)
  /\ off' = off + Occupies(medium.fids[k])
  /\ UNCHANGED <<vars, cvars, bad, dpc, data, cur, files, num, result, short>>

NameBegins(k) ==
  /\ Parsing(k) /\ Enough(k) /\ ~Unnamed(k)
  /\ Begin(medium.fids[k].name) \/ Refuse(medium.fids[k].name)
  /\ off' = off + Occupies(medium.fids[k])
  /\ cur' = k
  /\ dpc' = "name"
  /\ UNCHANGED <<vars, bad, data, files, num, result, short>>

NameConverts ==
  /\ dpc = "name" /\ Convert
  /\ UNCHANGED <<vars, dvars>>

(* The array is extended, or the name is dropped: it could not be          *)
(* converted, or is empty.                                                 *)
Kept == conv = "done" /\ out # <<>>

NameEnds ==
  /\ dpc = "name" /\ conv \in {"done", "null"}
  /\ \/ /\ Kept
        /\ files' = Append(files, [fid |-> IF Intact(cur) THEN cur ELSE 0, name |-> out])
        /\ num' = num + 1
     \/ ~Kept /\ UNCHANGED <<files, num>>
  /\ short' = (short \/ (conv = "null" /\ cs0[1] \in {8, 16}))
  /\ dpc' = "parse"
  /\ HandOver
  /\ UNCHANGED <<vars, bad, data, off, cur, result>>

(* The caller publishes the directory, or frees what there is of it.       *)
Returned ==
  /\ dpc = "done"
  /\ dpc' = "none"
  /\ data' = <<>> /\ off' = 0 /\ cur' = 0
  /\ files' = <<>> /\ num' = 0
  /\ result' = 0
  /\ short' = FALSE
  /\ UNCHANGED <<vars, cvars, bad>>

Parse == \E k \in DOMAIN medium.fids : Skip(k) \/ NameBegins(k)
DirWork ==
  \/ EntryOfDir \/ NoDirectory \/ Inline \/ FirstExtent \/ NoBuffer
  \/ ReadBlockOfDir \/ BlockFails \/ BlocksDone
  \/ ParseEnds \/ WrongTag \/ NoArray \/ Parse \/ NameConverts \/ NameEnds

(* The same file entry opened as a file.                                   *)
FileWork == dpc = "none" /\ Work /\ UNCHANGED <<cvars, dvars>>
FileCall == dpc = "none" /\ ~medium.dir /\ Call /\ UNCHANGED <<cvars, dvars>>

DirNext == udf_read_dir \/ Returned \/ DirWork \/ FileWork \/ FileCall
(* The thread that reads runs on.                                          *)
DirSpec == DirInit /\ [][DirNext]_allvars /\ WF_allvars(DirWork) /\ WF_allvars(FileWork)

-----------------------------------------------------------------------------
DirTypeOK ==
  /\ TypeOK /\ CTypeOK
  /\ bad \in SUBSET (Copies \X Nat)
  /\ dpc \in {"none", "entry", "blocks", "parse", "name", "done"}
  /\ data \in Seq(Nat) /\ Len(data) <= NumBlocks
  /\ off \in Nat
  /\ cur \in 0 .. Len(medium.fids)
  /\ files \in Seq([fid : 0 .. Len(medium.fids), name : Seq(Seq(Nat))])
  /\ num \in Nat /\ result \in {0, -1} /\ short \in BOOLEAN

(* The identifiers that a listing shows: complete, no parent, and with a   *)
(* name that has a unit in one of the two encodings.                       *)
Shown(k) == ~medium.fids[k].parent /\ UnitCount(medium.fids[k].name) > 0
Complete(k) == Begins[k] + Needs(medium.fids[k]) <= medium.bytes
Listing == {k \in DOMAIN medium.fids : Shown(k) /\ Complete(k)}

(* At any time the entries are identifiers of this directory, in their     *)
(* order and none twice, each made of the right blocks and with the name   *)
(* that is recorded.                                                       *)
EntriesAreRight ==
  /\ \A i \in DOMAIN files :
       /\ files[i].fid \in DOMAIN medium.fids /\ Shown(files[i].fid)
       /\ [k \in DOMAIN files[i].name |-> Decoded(files[i].name[k])]
            = Units(medium.fids[files[i].fid].name)
  /\ \A i, j \in DOMAIN files : i < j => files[i].fid < files[j].fid

(* A directory that has been read shows all of them, each once by the      *)
(* above, unless memory was short: no unreadable block and no border of a  *)
(* block costs an entry.                                                   *)
DirIsWhole ==
  dpc = "done" /\ result = 0 /\ ~short =>
    /\ num = Len(files)
    /\ {files[i].fid : i \in DOMAIN files} = Listing

(* A directory as it should be: a chain of descriptors that begins with    *)
(* its extent, and identifiers up to its end.                              *)
WellRecorded ==
  /\ medium.dir /\ medium.entry.tag \in {"fe", "efe"} /\ medium.entry.valid
  /\ \A a \in DOMAIN medium.part : medium.part[a].tag = "aed" /\ medium.part[a].valid
  /\ medium.entry.inline \/ (medium.bytes > 0 /\ Whole # <<>> /\ Whole[1].lba = medium.at)
  /\ \A k \in DOMAIN medium.fids : medium.fids[k].tag
  /\ \A k \in DOMAIN medium.fids :
       k = Len(medium.fids) => medium.bytes <= Begins[k] + Needs(medium.fids[k]) + TagSize
  /\ medium.fids = <<>> => medium.bytes <= TagSize

(* One readable copy of each block is enough to read a directory.          *)
OneCopyOfEach ==
  WellRecorded /\ dpc = "done" /\ ~short /\ result = -1 =>
    \E place \in Places(medium) :
      <<"main", place>> \in bad /\ (medium.mirror => <<"mirror", place>> \in bad)

(* The call returns, and so does the opening of a file.                    *)
DirReturns ==
  /\ dpc = "entry" ~> dpc = "done"
  /\ OpenReturns
=============================================================================
