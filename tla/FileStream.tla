----------------------------- MODULE FileStream -----------------------------
(***************************************************************************)
(* An open UDFFILE: the byte stream and the block access of src/udfread.c. *)
(*                                                                         *)
(* A file is a list of extents on the medium (or a few bytes inside its    *)
(* file entry).  udfread_file_read cuts a request into chunks: parts of a  *)
(* block go through the one-block buffer of the UDFFILE, whole blocks      *)
(* straight into the caller's memory.  The block input may deliver fewer   *)
(* blocks than asked for, or fail, at any call.                            *)
(*                                                                         *)
(* A UDFFILE is used by one thread at a time (udfread.h), so a step is one *)
(* pass of a loop: a chunk of _read or a block run of udfread_read_blocks. *)
(***************************************************************************)
EXTENDS Integers, Sequences

CONSTANTS
  BS,       \* UDF_BLOCK_SIZE
  M32,      \* 2^32, the modulus of uint32_t
  Files,    \* the files that may be opened
  PartLba,  \* first block of the partition
  MaxRead,  \* bound: bytes the caller's buffer holds
  MaxPos    \* bound: the farthest the caller seeks

Offset == 0 .. BS - 1
Slot   == 0 .. MaxRead - 1

(* A byte is known by where it comes from.                                 *)
Fill            == [from |-> "fill",   lba |-> 0, at |-> 0]
Junk            == [from |-> "junk",   lba |-> 0, at |-> 0]
InEntry(k)      == [from |-> "entry",  lba |-> 0, at |-> k]
OnMedium(lba, k) == [from |-> "medium", lba |-> lba, at |-> k]
Byte == [from : {"fill", "junk", "entry", "medium"}, lba : Nat, at : Nat]

(* struct file_entry: the length of the file; the bytes recorded inside    *)
(* the entry, when content_inline; the allocation descriptors.  first[i]   *)
(* is the number of blocks before extent i: what the loop of _file_lba has *)
(* subtracted when it comes to i.                                          *)
Extent == [length : Nat, normal : BOOLEAN, lba : Nat]
Blocks(e) == (e.length + BS - 1) \div BS
FileEntry == [length : Nat, inline : BOOLEAN, recorded : Nat,
              ads : Seq(Extent), first : Seq(Nat)]

(* The first numbers are the sums of the block counts, and no file is      *)
(* larger than "2^32 * block size" (udfread.c:800).                        *)
IsFile(f) ==
  /\ f \in FileEntry
  /\ f.length <= (M32 - 1) * BS
  /\ Len(f.first) = Len(f.ads)
  /\ \A i \in 1 .. Len(f.ads) :
       /\ f.first[i] + Blocks(f.ads[i]) <= M32
       /\ i = 1 => f.first[i] = 0
       /\ i > 1 => f.first[i] = f.first[i - 1] + Blocks(f.ads[i - 1])

ASSUME SizeAssumption ==
  /\ BS \in Nat \ {0} /\ M32 \in Nat \ {0} /\ M32 % BS = 0
  /\ PartLba \in Nat /\ MaxRead \in Nat \ {0} /\ MaxPos \in Nat
ASSUME FilesAssumption == \A f \in Files : IsFile(f)

VARIABLES
  fe,     \* p->fe: the file
  pos,    \* p->pos
  block,  \* p->block: the bytes in the block buffer
  alloc,  \* p->block has been allocated
  valid,  \* p->block_valid
  pc,     \* "idle", "chunk" (loop of file_read), "blocks" (loop of
          \* read_blocks), "chunk_end" (back in _read), "return"
  call,   \* the call the caller is in: "none", "read" or "blocks"
  buf,    \* the caller's memory
  from,   \* pos when the call was made
  done,   \* bufpt - buf: bytes delivered so far
  left,   \* bytes: what is still to be delivered
  rb,     \* arguments and counter of udfread_read_blocks
  ret     \* the value the call returns

vars == <<fe, pos, block, alloc, valid, pc, call, buf, from, done, left, rb, ret>>
pvars == <<fe, pos, block, alloc, valid>>

NoBlocks == [to |-> "buf", fb |-> 0, num |-> 0, i |-> 0]
Empty == [k \in Slot |-> Junk]

Init ==
  /\ fe \in Files
  /\ pos = 0
  /\ block = [k \in Offset |-> Junk]
  /\ alloc = FALSE
  /\ valid = FALSE
  /\ pc = "idle"
  /\ call = "none"
  /\ buf = Empty
  /\ from = 0 /\ done = 0 /\ left = 0
  /\ rb = NoBlocks
  /\ ret = 0

-----------------------------------------------------------------------------
(* Block access.                                                           *)

(* The extent of a file block, as a singleton; empty behind the last one.  *)
Hit(f, fb) ==
  {i \in 1 .. Len(f.ads) : f.first[i] <= fb /\ fb < f.first[i] + Blocks(f.ads[i])}

(* _file_lba delivers a block address only for a recorded extent.  Mutant: *)
(* that of the extent's first block.                                       *)
Mapped(f, fb) == \E i \in Hit(f, fb) : f.ads[i].normal /\ f.ads[i].lba # 0
FileLba_Start(f, fb) ==
  LET i == CHOOSE i \in Hit(f, fb) : TRUE
  IN PartLba + f.ads[i].lba
FileLba(f, fb) ==
  LET i == CHOOSE i \in Hit(f, fb) : TRUE
  IN PartLba + f.ads[i].lba + (fb - f.first[i])
(* Mutant of Run: one block more than the extent has left.                 *)
Run_OneMore(f, fb) ==
  LET i == CHOOSE i \in Hit(f, fb) : TRUE
  IN f.first[i] + Blocks(f.ads[i]) - fb + 1
Run(f, fb) ==
  LET i == CHOOSE i \in Hit(f, fb) : TRUE
  IN f.first[i] + Blocks(f.ads[i]) - fb

(* udfread_file_size in blocks.  Mutant: rounded down.                     *)
FileBlocks_Down(f) == (f.length \div BS) % M32
FileBlocks(f) == ((f.length + BS - 1) \div BS) % M32

(* The block the loop is at; byte k of the j-th block from there on.       *)
FileBlock == (rb.fb + rb.i) % M32
Source(j, k) ==
  IF Mapped(fe, FileBlock) THEN OnMedium(FileLba(fe, FileBlock) + j, k) ELSE Fill

(* Storing n blocks in the destination: the caller's memory from bufpt on, *)
(* or the block buffer.                                                    *)
Store(n) ==
  LET o(k) == k - (done + BS * rb.i)
  IN /\ buf' = [k \in Slot |->
                  IF rb.to = "buf" /\ 0 <= o(k) /\ o(k) < BS * n
                    THEN Source(o(k) \div BS, o(k) % BS) ELSE buf[k]]
     /\ block' = [k \in Offset |-> IF rb.to = "block" THEN Source(0, k) ELSE block[k]]
     /\ rb' = [rb EXCEPT !.i = @ + n]

(* The API function, for a caller that asks for n blocks from fb.  A file  *)
(* inside its entry has no blocks.                                         *)
udfread_read_blocks(fb, n) ==
  /\ pc = "idle"
  /\ call' = "blocks"
  /\ BS * n <= MaxRead
  /\ from' = pos
  /\ rb' = [to |-> "buf", fb |-> fb, num |-> IF fe.inline THEN 0 ELSE n, i |-> 0]
  /\ pc' = "blocks"
  /\ UNCHANGED <<pvars, buf, done, left, ret>>

(* Unallocated or unwritten: one block of zeros.                           *)
BlocksFill ==
  /\ pc = "blocks"
  /\ rb.i < rb.num
  /\ ~Mapped(fe, FileBlock)
  /\ FileBlock < FileBlocks(fe)
  /\ Store(1)
  /\ UNCHANGED <<fe, pos, alloc, valid, pc, call, from, done, left, ret>>

(* The input delivers n blocks, at most the rest of the extent.            *)
BlocksRead ==
  /\ pc = "blocks"
  /\ rb.i < rb.num
  /\ Mapped(fe, FileBlock)
  /\ \E n \in 1 .. rb.num - rb.i :
       /\ n <= Run(fe, FileBlock)
       /\ Store(n)
  /\ UNCHANGED <<fe, pos, alloc, valid, pc, call, from, done, left, ret>>

BlocksBack ==
  /\ pc' = IF call = "read" THEN "chunk_end" ELSE "return"
  /\ ret' = IF call = "read" THEN ret ELSE rb.i
  /\ UNCHANGED <<fe, pos, alloc, valid, call, buf, from, done, left, rb>>

(* The input fails, and may have spoilt the block buffer.                  *)
BlocksFail ==
  /\ pc = "blocks"
  /\ rb.i < rb.num
  /\ Mapped(fe, FileBlock)
  /\ \/ UNCHANGED block
     \/ rb.to = "block" /\ block' = [k \in Offset |-> Junk]
  /\ BlocksBack

(* The loop ends: everything is read, or the block is outside of the file. *)
BlocksEnd ==
  /\ pc = "blocks"
  /\ \/ rb.i = rb.num
     \/ ~Mapped(fe, FileBlock) /\ FileBlock >= FileBlocks(fe)
  /\ BlocksBack
  /\ UNCHANGED block

-----------------------------------------------------------------------------
(* Reading bytes.                                                          *)

(* udfread_file_read up to its loop.                                       *)
Clipped(n) == IF pos + n > fe.length THEN fe.length - pos ELSE n

ReadNothing(n) ==
  /\ pc = "idle"
  /\ \/ pos >= fe.length /\ ret' = 0
     \/ pos < fe.length /\ ~fe.inline /\ ~alloc /\ ret' = -1  \* no memory
  /\ pc' = "return"
  /\ call' = "read"
  /\ from' = pos
  /\ UNCHANGED <<pvars, buf, done, left, rb>>

(* _read_inline: what the entry does not record is padding.                *)
ReadInline(n) ==
  /\ pc = "idle"
  /\ pos < fe.length
  /\ fe.inline
  /\ buf' = [k \in Slot |->
               IF k >= Clipped(n) THEN buf[k]
               ELSE IF pos + k < fe.recorded THEN InEntry(pos + k) ELSE Fill]
  /\ pos' = pos + Clipped(n)
  /\ done' = Clipped(n)
  /\ ret' = Clipped(n)
  /\ pc' = "return"
  /\ call' = "read"
  /\ from' = pos
  /\ UNCHANGED <<fe, block, alloc, valid, left, rb>>

ReadLoop(n) ==
  /\ pc = "idle"
  /\ pos < fe.length
  /\ ~fe.inline
  /\ alloc' = TRUE
  /\ left' = Clipped(n)
  /\ pc' = "chunk"
  /\ call' = "read"
  /\ from' = pos
  /\ UNCHANGED <<fe, pos, block, valid, buf, done, rb, ret>>

udfread_file_read(n) == ReadNothing(n) \/ ReadInline(n) \/ ReadLoop(n)

PosBlock == (pos \div BS) % M32
PosOff   == pos % BS

(* One pass of the loop is one _read.  It copies from the block buffer ... *)
Copied(n) ==
  /\ buf' = [k \in Slot |->
               IF done <= k /\ k < done + n THEN block[PosOff + (k - done)] ELSE buf[k]]
  /\ pos' = pos + n
  /\ done' = done + n
  /\ left' = left - n
  /\ pc' = "chunk"

(* Mutant: the rest of the block, even if the caller wants less.           *)
ChunkSize_Whole == BS - PosOff
ChunkSize == IF BS - PosOff > left THEN left ELSE BS - PosOff

ChunkBuffered ==
  /\ pc = "chunk"
  /\ left > 0
  /\ PosOff # 0
  /\ valid
  /\ Copied(ChunkSize)
  /\ UNCHANGED <<fe, block, alloc, valid, call, from, rb, ret>>

(* ... or first reads a block into the buffer, or whole blocks directly.   *)
ChunkBlocks(to, n) ==
  /\ rb' = [to |-> to, fb |-> PosBlock, num |-> n, i |-> 0]
  /\ pc' = "blocks"
  /\ UNCHANGED <<pvars, call, buf, from, done, left, ret>>

ChunkPart ==
  /\ pc = "chunk"
  /\ left > 0
  /\ IF PosOff # 0 THEN ~valid ELSE left < BS
  /\ ChunkBlocks("block", 1)

ChunkWhole ==
  /\ pc = "chunk"
  /\ PosOff = 0
  /\ left >= BS
  /\ ChunkBlocks("buf", (left \div BS) % M32)

(* _read goes on after udfread_read_blocks: num_blocks * UDF_BLOCK_SIZE is *)
(* computed in 32 bits.                                                    *)
Whole == (rb.i * BS) % M32

ChunkEndPart ==
  /\ pc = "chunk_end"
  /\ rb.to = "block"
  /\ rb.i = 1
  /\ valid' = TRUE
  /\ Copied(ChunkSize)
  /\ rb' = NoBlocks
  /\ UNCHANGED <<fe, block, alloc, call, from, ret>>

ChunkEndWhole ==
  /\ pc = "chunk_end"
  /\ rb.to = "buf"
  /\ rb.i >= 1
  /\ pos' = pos + Whole
  /\ done' = done + Whole
  /\ left' = left - Whole
  /\ pc' = "chunk"
  /\ rb' = NoBlocks
  /\ UNCHANGED <<fe, block, alloc, valid, call, buf, from, ret>>

(* _read fails: the caller gets what has been delivered before, if any.    *)
(* Mutants: an error all the same; another try.                            *)
Partial_Error == -1
Partial == IF done > 0 THEN done ELSE -1
AfterFailure_Retry == "chunk"
AfterFailure == "return"

ChunkEndFailed ==
  /\ pc = "chunk_end"
  /\ rb.i < 1
  /\ ret' = Partial
  /\ pc' = AfterFailure
  /\ rb' = NoBlocks
  /\ UNCHANGED <<pvars, call, buf, from, done, left>>

ChunkLoopEnd ==
  /\ pc = "chunk"
  /\ left = 0
  /\ ret' = done
  /\ pc' = "return"
  /\ UNCHANGED <<pvars, call, buf, from, done, left, rb>>

-----------------------------------------------------------------------------
(* Back in the caller, whose memory is used for something else.            *)
Return ==
  /\ pc = "return"
  /\ pc' = "idle"
  /\ call' = "none"
  /\ buf' = Empty
  /\ from' = 0 /\ done' = 0 /\ left' = 0
  /\ rb' = NoBlocks
  /\ ret' = 0
  /\ UNCHANGED pvars

(* Mutant: the buffered block outlives the move.                           *)
StillValid_Kept == valid
StillValid == FALSE

(* base is 0, the position or the size: UDF_SEEK_SET, CUR and END.  A      *)
(* target before the beginning changes nothing.                            *)
udfread_file_seek(base, offset) ==
  /\ pc = "idle"
  /\ 0 <= base + offset /\ base + offset <= MaxPos
  /\ pos' = base + offset
  /\ valid' = StillValid
  /\ UNCHANGED <<fe, block, alloc, pc, call, buf, from, done, left, rb, ret>>

Begin ==
  \/ \E n \in 0 .. MaxRead : udfread_file_read(n)
  \/ \E fb \in 0 .. MaxPos, n \in 1 .. MaxRead : udfread_read_blocks(fb, n)
  \/ \E base \in {0, pos, fe.length}, offset \in -MaxPos .. MaxPos :
       udfread_file_seek(base, offset)

Work ==
  \/ BlocksFill
  \/ BlocksRead
  \/ BlocksFail
  \/ BlocksEnd
  \/ ChunkBuffered
  \/ ChunkPart
  \/ ChunkWhole
  \/ ChunkEndPart
  \/ ChunkEndWhole
  \/ ChunkEndFailed
  \/ ChunkLoopEnd
  \/ Return

Next == Begin \/ Work
Spec == Init /\ [][Next]_vars

(* The thread that made the call runs on.                                  *)
FairSpec == Spec /\ WF_vars(Work)

-----------------------------------------------------------------------------
(* The file as its extents define it: byte k of block fb, byte q.          *)
BlockByte(f, fb, k) ==
  IF Mapped(f, fb) THEN OnMedium(FileLba(f, fb), k) ELSE Fill
FileByte(f, q) ==
  IF f.inline THEN IF q < f.recorded THEN InEntry(q) ELSE Fill
  ELSE BlockByte(f, q \div BS, q % BS)

TypeOK ==
  /\ fe \in Files
  /\ pos \in Nat
  /\ block \in [Offset -> Byte]
  /\ alloc \in BOOLEAN
  /\ valid \in BOOLEAN
  /\ pc \in {"idle", "chunk", "blocks", "chunk_end", "return"}
  /\ call \in {"none", "read", "blocks"}
  /\ buf \in [Slot -> Byte]
  /\ from \in Nat /\ done \in Nat /\ left \in Nat
  /\ rb \in [to : {"buf", "block"}, fb : Nat, num : Nat, i : Nat]
  /\ ret \in Int

(* Whatever was read or sought before, a block buffer that will be used    *)
(* again holds the block the position is in.                               *)
BlockCoherent ==
  valid /\ PosOff # 0 =>
    \A k \in Offset : block[k] = FileByte(fe, (pos - PosOff) + k)

(* The caller's memory holds the bytes of the file from the position at    *)
(* the call on, however the request was cut into chunks and however many   *)
(* blocks each call of the input delivered; behind the blocks being read   *)
(* nothing is written.                                                     *)
ReadIsRight ==
  call = "read" =>
    \A k \in Slot :
      /\ k < done => buf[k] = FileByte(fe, from + k)
      /\ k >= done + left => buf[k] = Junk

(* So does udfread_read_blocks deliver the blocks of the file.             *)
BlocksAreRight ==
  call = "blocks" =>
    \A k \in Slot :
      buf[k] = IF k < BS * rb.i THEN BlockByte(fe, (rb.fb + k \div BS) % M32, k % BS)
               ELSE Junk

(* The position moves with what is delivered: -1 is returned only when     *)
(* nothing was, and then the position is where it was before the call.     *)
PositionFollows ==
  /\ call = "read" => pos = from + done
  /\ call = "read" /\ pc = "return" => ret \in {done, -1}
  /\ call = "read" /\ ret = -1 => done = 0

(* A read that was cut to the size of the file never asks for a block      *)
(* outside of it: it ends early only when the input fails.                 *)
InsideFile ==
  call = "read" /\ pc = "blocks" /\ rb.i < rb.num =>
    Mapped(fe, FileBlock) \/ FileBlock < FileBlocks(fe)

(* A call comes back (as long as the calling thread runs).                 *)
ReadReturns == call = "read" ~> call = "none"
=============================================================================
