-------------------------- MODULE FileStreamProofs --------------------------
(***************************************************************************)
(* What the byte stream delivers, proved for every block size, every file  *)
(* and every request (FileStream.tla).                                     *)
(*                                                                         *)
(* The safety invariants of FileStream are not inductive: what is in the   *)
(* caller's memory while blocks are being read, and why the request stays  *)
(* inside the file, is said by Calls and Reading below.                    *)
(***************************************************************************)
EXTENDS FileStream, TLAPS, WellFoundedInduction

-----------------------------------------------------------------------------
(* Arithmetic of blocks.                                                   *)

LEMMA Sizes ==
  /\ BS \in Nat \ {0} /\ M32 \in Nat \ {0}
  /\ PartLba \in Nat /\ MaxRead \in Nat \ {0} /\ MaxPos \in Nat
  BY SizeAssumption

(* A byte position is a block and an offset, in one way.                   *)
LEMMA DivMod ==
  ASSUME NEW x \in Nat
  PROVE  /\ x \div BS \in Nat
         /\ x % BS \in Offset
         /\ x = BS * (x \div BS) + (x % BS)
  BY Sizes DEF Offset

LEMMA DivModOnly ==
  ASSUME NEW q \in Nat, NEW r \in Offset
  PROVE  (BS * q + r) \div BS = q /\ (BS * q + r) % BS = r
  BY Sizes DEF Offset

LEMMA Product == ASSUME NEW a \in Nat PROVE BS * a \in Nat
  BY Sizes

LEMMA Cancel ==
  ASSUME NEW a \in Nat, NEW b \in Nat
  PROVE  /\ BS * a < BS * b => a < b
         /\ a < b => BS * a + BS <= BS * b
         /\ a <= b => BS * a <= BS * b
  BY Sizes

(* Counting on from a block boundary.                                      *)
LEMMA BlockShift ==
  ASSUME NEW a \in Nat, NEW o \in Nat
  PROVE  /\ (BS * a + o) \div BS = a + (o \div BS)
         /\ (BS * a + o) % BS = o % BS
<1> DEFINE q == o \div BS
           r == o % BS
<1>1. q \in Nat /\ r \in Offset /\ o = BS * q + r
  BY DivMod
<1> HIDE DEF q, r
<1>2. BS * a + o = BS * (a + q) + r /\ a + q \in Nat
  BY <1>1, Sizes DEF Offset
<1>3. (BS * (a + q) + r) \div BS = a + q /\ (BS * (a + q) + r) % BS = r
  BY <1>1, <1>2, DivModOnly
<1> QED
  BY <1>2, <1>3 DEF q, r

LEMMA InBlocks ==
  ASSUME NEW o \in Nat, NEW n \in Nat, o < BS * n
  PROVE  o \div BS < n
<1> DEFINE q == o \div BS
           r == o % BS
<1>1. q \in Nat /\ r \in Offset /\ o = BS * q + r
  BY DivMod
<1> HIDE DEF q, r
<1>2. BS * q < BS * n
  BY <1>1, Product, Sizes DEF Offset
<1> QED
  BY <1>1, <1>2, Cancel DEF q

LEMMA Mod32 ==
  ASSUME NEW x \in Nat
  PROVE  /\ x % M32 \in Nat
         /\ x % M32 < M32
         /\ x < M32 => x % M32 = x
         /\ \A j \in Nat : (x % M32) + j < M32 => (x + j) % M32 = (x % M32) + j
  BY Sizes

(* Rounding up to whole blocks.                                            *)
LEMMA RoundUp ==
  ASSUME NEW x \in Nat, NEW a \in Nat
  PROVE  /\ BS * a < x => a < (x + BS - 1) \div BS
         /\ x <= a * BS => (x + BS - 1) \div BS <= a
<1> DEFINE y == x + BS - 1
           q == y \div BS
           r == y % BS
<1>1. y \in Nat
  BY Sizes
<1>2. q \in Nat /\ r \in Offset /\ y = BS * q + r
  BY <1>1, DivMod
<1>3. ASSUME BS * a < x PROVE a < q
  <2>1. BS * (a + 1) <= y
    BY <1>3, Sizes
  <2>2. BS * (a + 1) < BS * (q + 1)
    BY <2>1, <1>2, Sizes DEF Offset
  <2> QED
    BY <2>2, <1>2, Cancel
<1>4. ASSUME x <= a * BS PROVE q <= a
  <2>1. BS * q < BS * (a + 1)
    BY <1>4, <1>2, Sizes DEF Offset
  <2> QED
    BY <2>1, <1>2, Cancel
<1> QED
  BY <1>3, <1>4

-----------------------------------------------------------------------------
(* The extents of a file.                                                  *)

(* Induction on the naturals, as the existence of a least element.         *)
LEMMA NatLess == IsWellFoundedOn({p \in Nat \X Nat : p[1] < p[2]}, Nat)
  BY NatLessThanWellFounded, Zenon DEF OpToRel

LEMMA Least ==
  ASSUME NEW S \in SUBSET Nat, S # {}
  PROVE  \E n \in S : \A m \in S : n <= m
<1>1. PICK x \in S : \A y \in S : <<y, x>> \notin {p \in Nat \X Nat : p[1] < p[2]}
  BY NatLess, WFMin
<1>2. ASSUME NEW y \in S PROVE x <= y
  <2>1. y < x => <<y, x>> \in {p \in Nat \X Nat : p[1] < p[2]}
    OBVIOUS
  <2> QED
    BY <1>1, <2>1
<1> QED
  BY <1>2

LEMMA FileTypes ==
  ASSUME NEW f \in Files
  PROVE  /\ IsFile(f)
         /\ f.length \in Nat
         /\ f.inline \in BOOLEAN
         /\ f.recorded \in Nat
         /\ Len(f.ads) \in Nat
         /\ \A i \in 1 .. Len(f.ads) :
              /\ f.ads[i] \in Extent
              /\ Blocks(f.ads[i]) \in Nat
              /\ f.first[i] \in Nat
<1>1. IsFile(f) /\ f \in FileEntry
  BY FilesAssumption DEF IsFile
<1>2. f.ads \in Seq(Extent) /\ f.first \in Seq(Nat) /\ Len(f.first) = Len(f.ads)
  BY <1>1 DEF IsFile, FileEntry
<1>3. ASSUME NEW i \in 1 .. Len(f.ads)
      PROVE  f.ads[i] \in Extent /\ Blocks(f.ads[i]) \in Nat /\ f.first[i] \in Nat
  <2>1. f.ads[i] \in Extent /\ f.first[i] \in Nat
    BY <1>2
  <2>2. f.ads[i].length + BS - 1 \in Nat
    BY <2>1, Sizes DEF Extent
  <2>3. Blocks(f.ads[i]) \in Nat
    BY <2>2, DivMod DEF Blocks
  <2> QED
    BY <2>1, <2>3
<1> QED
  BY <1>1, <1>2, <1>3 DEF FileEntry

(* An extent begins behind all extents before it.                          *)
LEMMA FirstGrows ==
  ASSUME NEW f \in Files, NEW i \in 1 .. Len(f.ads), NEW j \in 1 .. Len(f.ads), i < j
  PROVE  f.first[i] + Blocks(f.ads[i]) <= f.first[j]
<1> DEFINE Bad == {n \in Nat : /\ i < n /\ n <= Len(f.ads)
                               /\ ~(f.first[i] + Blocks(f.ads[i]) <= f.first[n])}
<1>1. SUFFICES ASSUME Bad # {} PROVE FALSE
  OBVIOUS
<1>2. PICK n \in Bad : \A m \in Bad : n <= m
  BY <1>1, Least
<1>3. /\ n \in Nat /\ i < n /\ n <= Len(f.ads)
      /\ ~(f.first[i] + Blocks(f.ads[i]) <= f.first[n])
      /\ n - 1 \notin Bad
  BY <1>2, FileTypes
<1>4. f.first[n] = f.first[n - 1] + Blocks(f.ads[n - 1])
  BY <1>3, FileTypes DEF IsFile
<1>a. /\ n - 1 \in 1 .. Len(f.ads) /\ n \in 1 .. Len(f.ads)
      /\ f.first[i] \in Nat /\ f.first[n] \in Nat /\ f.first[n - 1] \in Nat
      /\ Blocks(f.ads[i]) \in Nat /\ Blocks(f.ads[n - 1]) \in Nat
  BY <1>3, FileTypes
<1>5. CASE n - 1 = i
  BY <1>3, <1>4, <1>5, <1>a
<1>6. CASE n - 1 # i
  <2>1. f.first[i] + Blocks(f.ads[i]) <= f.first[n - 1]
    BY <1>3, <1>6, <1>a, FileTypes
  <2> QED
    BY <1>3, <1>4, <1>a, <2>1
<1> QED
  BY <1>5, <1>6

(* A file block lies in one extent at most.                                *)
LEMMA HitOnce ==
  ASSUME NEW f \in Files, NEW fb \in Nat, NEW i \in Hit(f, fb), NEW j \in Hit(f, fb)
  PROVE  i = j
<1>1. ASSUME NEW k \in Hit(f, fb), NEW l \in Hit(f, fb), k < l PROVE FALSE
  <2>1. /\ k \in 1 .. Len(f.ads) /\ fb < f.first[k] + Blocks(f.ads[k])
        /\ l \in 1 .. Len(f.ads) /\ f.first[l] <= fb
    BY DEF Hit
  <2>2. f.first[k] + Blocks(f.ads[k]) <= f.first[l]
    BY <1>1, <2>1, FirstGrows
  <2>3. f.first[k] \in Nat /\ Blocks(f.ads[k]) \in Nat /\ f.first[l] \in Nat
    BY <2>1, FileTypes
  <2> QED
    BY <2>1, <2>2, <2>3
<1>2. i \in Int /\ j \in Int
  BY FileTypes DEF Hit
<1> QED
  BY <1>1, <1>2

(* The address and the run of a file block in extent i.                    *)
LEMMA InExtent ==
  ASSUME NEW f \in Files, NEW b \in Nat, NEW i \in Hit(f, b)
  PROVE  /\ FileLba(f, b) = PartLba + f.ads[i].lba + (b - f.first[i])
         /\ Run(f, b) = f.first[i] + Blocks(f.ads[i]) - b
         /\ f.first[i] <= b /\ b < f.first[i] + Blocks(f.ads[i])
         /\ f.first[i] + Blocks(f.ads[i]) <= M32
         /\ i \in 1 .. Len(f.ads) /\ f.ads[i].lba \in Nat
         /\ f.first[i] \in Nat /\ Blocks(f.ads[i]) \in Nat
<1>1. (CHOOSE x \in Hit(f, b) : TRUE) = i
  BY HitOnce
<1>2. /\ FileLba(f, b) = PartLba + f.ads[i].lba + (b - f.first[i])
      /\ Run(f, b) = f.first[i] + Blocks(f.ads[i]) - b
  BY <1>1 DEF FileLba, Run
<1>3. i \in 1 .. Len(f.ads) /\ f.first[i] <= b /\ b < f.first[i] + Blocks(f.ads[i])
  BY DEF Hit
<1>4. f.ads[i].lba \in Nat /\ f.first[i] \in Nat /\ Blocks(f.ads[i]) \in Nat
  BY <1>3, FileTypes DEF Extent
<1>5. f.first[i] + Blocks(f.ads[i]) <= M32
  BY <1>3, FileTypes DEF IsFile
<1> QED
  BY <1>2, <1>3, <1>4, <1>5

(* The run a block address is good for: the blocks up to the end of the    *)
(* extent follow one another on the medium, and none has a number that     *)
(* wraps.                                                                  *)
LEMMA RunOn ==
  ASSUME NEW f \in Files, NEW fb \in Nat, Mapped(f, fb)
  PROVE  /\ FileLba(f, fb) \in Nat
         /\ Run(f, fb) \in Nat \ {0}
         /\ \A d \in Nat : d < Run(f, fb) =>
              /\ Mapped(f, fb + d)
              /\ FileLba(f, fb + d) = FileLba(f, fb) + d
              /\ fb + d < M32
<1>1. PICK i \in Hit(f, fb) : f.ads[i].normal /\ f.ads[i].lba # 0
  BY DEF Mapped
<1> DEFINE size == Blocks(f.ads[i])
           start == f.first[i]
           lba == f.ads[i].lba
<1>2. /\ FileLba(f, fb) = PartLba + lba + (fb - start)
      /\ Run(f, fb) = start + size - fb
      /\ start <= fb /\ fb < start + size /\ start + size <= M32
      /\ start \in Nat /\ size \in Nat /\ lba \in Nat /\ i \in 1 .. Len(f.ads)
  BY InExtent
<1> HIDE DEF size, start, lba
<1>3. PartLba \in Nat /\ M32 \in Nat
  BY Sizes
<1>4. ASSUME NEW d \in Nat, d < Run(f, fb)
      PROVE  /\ Mapped(f, fb + d)
             /\ FileLba(f, fb + d) = FileLba(f, fb) + d
             /\ fb + d < M32
  <2> DEFINE b == fb + d
  <2>1. b \in Nat /\ b < M32 /\ start <= b /\ b < start + size
    BY <1>2, <1>3, <1>4
  <2> HIDE DEF b
  <2>2. i \in Hit(f, b)
    BY <1>2, <2>1 DEF Hit, size, start
  <2>3. FileLba(f, b) = PartLba + lba + (b - start)
    BY <2>1, <2>2, InExtent DEF start, lba
  <2>4. Mapped(f, b)
    BY <1>1, <2>2 DEF Mapped
  <2>5. FileLba(f, b) = FileLba(f, fb) + d
    BY <1>2, <1>3, <2>3 DEF b
  <2> QED
    BY <2>1, <2>4, <2>5 DEF b
<1>5. FileLba(f, fb) \in Nat /\ Run(f, fb) \in Nat \ {0}
  BY <1>2, <1>3
<1> QED
  BY <1>4, <1>5

-----------------------------------------------------------------------------
(* The inductive invariant.                                                *)

(* The call the caller is in and how far it is.                            *)
Calls ==
  /\ pc = "idle" <=> call = "none"
  /\ fe.inline => ~valid
  /\ pc \in {"chunk", "chunk_end"} => call = "read"
  /\ call = "none" => buf = Empty /\ done = 0 /\ left = 0 /\ ret = 0
  /\ call = "blocks" =>
       /\ done = 0 /\ left = 0 /\ ret >= 0
       /\ rb.to = "buf" /\ rb.i <= rb.num /\ BS * rb.num <= MaxRead
  /\ call = "read" => done + left <= MaxRead
  /\ call = "read" /\ pc # "return" =>
       ~fe.inline /\ ret = 0 /\ pos + left <= fe.length

(* Blocks being read for a chunk: where they are and what has been stored. *)
Reading ==
  call = "read" /\ pc \in {"blocks", "chunk_end"} =>
    /\ left > 0
    /\ rb.fb = pos \div BS
    /\ rb.i <= rb.num
    /\ rb.to = "block" =>
         /\ rb.num = 1
         /\ valid => PosOff = 0
         /\ rb.i = 1 => \A k \in Offset : block[k] = BlockByte(fe, rb.fb, k)
    /\ rb.to = "buf" =>
         /\ PosOff = 0
         /\ BS * rb.num <= left
         /\ \A k \in Slot : done <= k /\ k < done + BS * rb.i => buf[k] = FileByte(fe, from + k)

Inv ==
  /\ TypeOK
  /\ BlockCoherent
  /\ ReadIsRight
  /\ BlocksAreRight
  /\ PositionFollows
  /\ Calls
  /\ Reading

LEMMA InvParts ==
  Inv => /\ TypeOK /\ BlockCoherent /\ ReadIsRight /\ BlocksAreRight
         /\ PositionFollows /\ Calls /\ Reading
  BY DEF Inv

LEMMA Bytes ==
  /\ Fill \in Byte /\ Junk \in Byte
  /\ \A k \in Nat : InEntry(k) \in Byte
  /\ \A l, k \in Nat : OnMedium(l, k) \in Byte
  /\ Offset \subseteq Nat /\ Slot \subseteq Nat
  BY Sizes DEF Fill, Junk, InEntry, OnMedium, Byte, Offset, Slot

LEMMA InitInv == Init => Inv
<1> SUFFICES ASSUME Init PROVE Inv
  OBVIOUS
<1>1. TypeOK
  <2>1. block \in [Offset -> Byte] /\ buf \in [Slot -> Byte]
    BY Bytes DEF Init, Empty
  <2>2. rb \in [to : {"buf", "block"}, fb : Nat, num : Nat, i : Nat]
    BY DEF Init, NoBlocks
  <2>3. alloc \in BOOLEAN /\ valid \in BOOLEAN
    BY Zenon DEF Init
  <2>4. pos \in Nat /\ from \in Nat /\ done \in Nat /\ left \in Nat /\ ret \in Int
    BY DEF Init
  <2>5. fe \in Files /\ call \in {"none", "read", "blocks"}
        /\ pc \in {"idle", "chunk", "blocks", "chunk_end", "return"}
    BY DEF Init
  <2> QED
    BY <2>1, <2>2, <2>3, <2>4, <2>5 DEF TypeOK
<1>2. BlockCoherent /\ ReadIsRight /\ BlocksAreRight /\ PositionFollows
  BY DEF Init, BlockCoherent, ReadIsRight, BlocksAreRight, PositionFollows
<1>3. Calls /\ Reading
  BY DEF Init, Calls, Reading
<1> QED
  BY <1>1, <1>2, <1>3 DEF Inv

-----------------------------------------------------------------------------
(* Where a byte of the file comes from.                                    *)

LEMMA BlockOfPos ==
  ASSUME NEW a \in Nat, NEW o \in Nat, ~fe.inline
  PROVE  FileByte(fe, BS * a + o) = BlockByte(fe, a + (o \div BS), o % BS)
<1>1. (BS * a + o) \div BS = a + (o \div BS) /\ (BS * a + o) % BS = o % BS
  BY BlockShift
<1> QED
  BY <1>1 DEF FileByte

(* The file block udfread_read_blocks is at, and what it stores for the    *)
(* blocks of the run that begins there.                                    *)
LEMMA SourceIs ==
  ASSUME TypeOK, NEW n \in Nat \ {0}, NEW j \in Nat, NEW k, j < n,
         IF Mapped(fe, FileBlock) THEN n <= Run(fe, FileBlock) ELSE n = 1
  PROVE  /\ FileBlock \in Nat
         /\ FileBlock + j < M32
         /\ Source(j, k) = BlockByte(fe, FileBlock + j, k)
<1>1. fe \in Files /\ rb.fb + rb.i \in Nat
  BY DEF TypeOK
<1>2. FileBlock \in Nat /\ FileBlock < M32
  BY <1>1, Mod32 DEF FileBlock
<1>3. CASE Mapped(fe, FileBlock)
  <2>1. /\ Mapped(fe, FileBlock + j) /\ FileBlock + j < M32
        /\ FileLba(fe, FileBlock + j) = FileLba(fe, FileBlock) + j
    BY <1>1, <1>2, <1>3, RunOn
  <2> QED
    BY <2>1, <1>2, <1>3 DEF Source, BlockByte
<1>4. CASE ~Mapped(fe, FileBlock)
  <2>1. j = 0 /\ FileBlock + j = FileBlock
    BY <1>2, <1>4
  <2> QED
    BY <2>1, <1>2, <1>4 DEF Source, BlockByte
<1> QED
  BY <1>3, <1>4

LEMMA SourceType ==
  ASSUME TypeOK, NEW j \in Nat, NEW k \in Nat
  PROVE  Source(j, k) \in Byte
<1>1. fe \in Files /\ FileBlock \in Nat
  BY Mod32 DEF TypeOK, FileBlock
<1>2. Mapped(fe, FileBlock) => FileLba(fe, FileBlock) + j \in Nat
  BY <1>1, RunOn
<1> QED
  BY <1>2, Bytes DEF Source

LEMMA Stored ==
  ASSUME TypeOK, NEW n \in Nat \ {0}, NEW o \in Nat, o < BS * n,
         IF Mapped(fe, FileBlock) THEN n <= Run(fe, FileBlock) ELSE n = 1
  PROVE  /\ Source(o \div BS, o % BS) \in Byte
         /\ Source(o \div BS, o % BS) = BlockByte(fe, FileBlock + (o \div BS), o % BS)
         /\ FileBlock + (o \div BS) < M32
         /\ o \div BS \in Nat
<1>1. o \div BS \in Nat /\ o % BS \in Nat
  BY DivMod, Bytes
<1>2. o \div BS < n
  BY InBlocks
<1> QED
  BY <1>1, <1>2, SourceIs, SourceType

(* A chunk reads blocks inside the file, and their numbers do not wrap.    *)
LEMMA ReadPlace ==
  ASSUME Inv, call = "read", pc = "blocks", rb.i < rb.num
  PROVE  /\ rb.fb + rb.i \in Nat
         /\ BS * (rb.fb + rb.i) < fe.length
         /\ rb.fb + rb.i < M32
         /\ FileBlock = rb.fb + rb.i
<1>1. /\ fe \in Files /\ fe.length \in Nat /\ fe.length <= (M32 - 1) * BS
      /\ pos \in Nat /\ left \in Nat /\ left > 0 /\ pos + left <= fe.length
      /\ rb.fb \in Nat /\ rb.i \in Nat /\ rb.num \in Nat /\ rb.to \in {"buf", "block"}
      /\ rb.fb = pos \div BS
  BY InvParts, FileTypes DEF TypeOK, Calls, Reading, IsFile
<1>2. pos = BS * rb.fb + PosOff /\ PosOff \in Offset
  BY <1>1, DivMod DEF PosOff
<1>3. BS * (rb.fb + rb.i) = BS * rb.fb + BS * rb.i /\ BS * rb.fb \in Nat /\ BS * rb.i \in Nat
  BY <1>1, Sizes
<1>4. BS * (rb.fb + rb.i) < fe.length
  <2>1. CASE rb.to = "block"
    <3>1. rb.i = 0 /\ BS * rb.i = 0
      BY <1>1, <2>1, InvParts, Sizes DEF Reading
    <3> QED
      BY <1>1, <1>2, <1>3, <3>1, Sizes DEF Offset
  <2>2. CASE rb.to = "buf"
    <3>1. PosOff = 0 /\ BS * rb.num <= left
      BY <2>2, InvParts DEF Reading
    <3>2. BS * rb.i + BS <= BS * rb.num /\ BS * rb.num \in Nat
      BY <1>1, Cancel, Product
    <3> QED
      BY <1>1, <1>2, <1>3, <3>1, <3>2, Sizes
  <2> QED
    BY <1>1, <2>1, <2>2
<1>5. rb.fb + rb.i < M32
  <2>1. BS * (rb.fb + rb.i) < BS * M32
    BY <1>1, <1>3, <1>4, Sizes
  <2> QED
    BY <1>1, <2>1, Cancel, Sizes
<1> QED
  BY <1>1, <1>4, <1>5, Mod32 DEF FileBlock

LEMMA KeepStore ==
  ASSUME Inv, NEW n \in Nat \ {0}, pc = "blocks", rb.i + n <= rb.num,
         IF Mapped(fe, FileBlock) THEN n <= Run(fe, FileBlock) ELSE n = 1,
         Store(n),
         UNCHANGED <<fe, pos, alloc, valid, pc, call, from, done, left, ret>>
  PROVE  Inv'
<1> DEFINE at(k) == k - (done + BS * rb.i)
           hit(k) == rb.to = "buf" /\ 0 <= at(k) /\ at(k) < BS * n
<1>1. /\ fe \in Files /\ pos \in Nat /\ from \in Nat /\ done \in Nat /\ left \in Nat
      /\ block \in [Offset -> Byte] /\ buf \in [Slot -> Byte]
      /\ rb \in [to : {"buf", "block"}, fb : Nat, num : Nat, i : Nat]
  BY InvParts DEF TypeOK
<1>2. /\ rb.to \in {"buf", "block"} /\ rb.fb \in Nat /\ rb.num \in Nat /\ rb.i \in Nat
      /\ rb' = [rb EXCEPT !.i = rb.i + n]
      /\ rb'.to = rb.to /\ rb'.fb = rb.fb /\ rb'.num = rb.num /\ rb'.i = rb.i + n
      /\ rb' \in [to : {"buf", "block"}, fb : Nat, num : Nat, i : Nat]
  BY <1>1 DEF Store
<1>3. call \in {"read", "blocks"}
  BY InvParts DEF Calls, TypeOK
<1>4. /\ BS * rb.i \in Nat /\ BS * n \in Nat /\ BS * rb.num \in Nat
      /\ BS * (rb.i + n) = BS * rb.i + BS * n
      /\ BS * (rb.i + n) <= BS * rb.num
  BY <1>2, Product, Cancel, Sizes
<1>5. ASSUME NEW k \in Slot
      PROVE  /\ k \in Nat /\ at(k) \in Int
             /\ hit(k) => buf'[k] = Source(at(k) \div BS, at(k) % BS)
             /\ ~hit(k) => buf'[k] = buf[k]
  BY <1>1, <1>4, Bytes DEF Store
<1>6. ASSUME NEW k \in Slot, hit(k)
      PROVE  /\ buf'[k] \in Byte
             /\ buf'[k] = BlockByte(fe, FileBlock + (at(k) \div BS), at(k) % BS)
             /\ FileBlock + (at(k) \div BS) < M32
             /\ at(k) \div BS \in Nat
  <2>1. at(k) \in Nat /\ at(k) < BS * n
    BY <1>5, <1>6
  <2> HIDE DEF at
  <2> QED
    BY <1>5, <1>6, <2>1, Stored, InvParts
<1>7. /\ rb.to = "buf" => block' = block
      /\ rb.to = "block" => block' \in [Offset -> Byte] /\ \A k \in Offset : block'[k] = Source(0, k)
  BY <1>1, SourceType, InvParts, Bytes DEF Store
<1> HIDE DEF at, hit
<1>8. TypeOK'
  <2>1. buf' \in [Slot -> Byte]
    <3>1. buf' = [k \in Slot |-> buf'[k]]
      BY DEF Store
    <3>2. ASSUME NEW k \in Slot PROVE buf'[k] \in Byte
      BY <1>1, <1>5, <1>6
    <3> QED
      BY <3>1, <3>2
  <2>2. block' \in [Offset -> Byte]
    BY <1>1, <1>2, <1>7
  <2> QED
    BY <2>1, <2>2, <1>2, InvParts DEF TypeOK
<1>9. BlockCoherent'
  <2>1. rb.to = "block" => (valid => PosOff = 0)
    BY <1>3, InvParts DEF Calls, Reading
  <2>2. valid /\ PosOff # 0 => block' = block
    BY <2>1, <1>2, <1>7
  <2> QED
    BY <2>2, InvParts DEF BlockCoherent, PosOff
<1>10. ReadIsRight'
  <2> SUFFICES ASSUME call = "read", NEW k \in Slot, k < done \/ k >= done + left
               PROVE  ~hit(k)
    BY <1>5, InvParts DEF ReadIsRight
  <2>1. rb.to = "buf" => BS * rb.num <= left
    BY InvParts DEF Reading
  <2> QED
    BY <2>1, <1>1, <1>4, <1>5 DEF hit, at
<1>11. BlocksAreRight'
  <2> SUFFICES ASSUME call = "blocks", NEW k \in Slot
               PROVE  buf'[k] = IF k < BS * (rb.i + n)
                                  THEN BlockByte(fe, (rb.fb + (k \div BS)) % M32, k % BS)
                                  ELSE Junk
    BY <1>2 DEF BlocksAreRight
  <2>1. done = 0 /\ rb.to = "buf" /\ k \in Nat /\ at(k) = k - BS * rb.i /\ at(k) \in Int
    BY <1>4, <1>5, InvParts DEF Calls, at
  <2>2. buf[k] = IF k < BS * rb.i THEN BlockByte(fe, (rb.fb + (k \div BS)) % M32, k % BS) ELSE Junk
    BY InvParts DEF BlocksAreRight
  <2>3. CASE hit(k)
    <3> DEFINE o == at(k)
    <3>1. o \in Nat /\ k = BS * rb.i + o /\ k < BS * (rb.i + n)
      BY <2>1, <2>3, <1>4 DEF hit
    <3> HIDE DEF o
    <3>2. k \div BS = rb.i + (o \div BS) /\ k % BS = o % BS
      BY <3>1, <1>2, BlockShift
    <3>3. o \div BS \in Nat /\ FileBlock + (o \div BS) < M32
          /\ buf'[k] = BlockByte(fe, FileBlock + (o \div BS), o % BS)
      BY <1>6, <2>3 DEF o
    <3>4. (rb.fb + rb.i + (o \div BS)) % M32 = FileBlock + (o \div BS)
      BY <3>3, <1>2, Mod32 DEF FileBlock
    <3>5. rb.fb + (k \div BS) = rb.fb + rb.i + (o \div BS)
      BY <3>2, <3>3, <1>2
    <3> QED
      BY <3>1, <3>2, <3>3, <3>4, <3>5
  <2>4. CASE ~hit(k)
    <3>1. buf'[k] = buf[k] /\ (k < BS * rb.i \/ k >= BS * (rb.i + n))
      BY <2>1, <2>4, <1>4, <1>5 DEF hit
    <3>2. k < BS * rb.i => k < BS * (rb.i + n)
      BY <2>1, <1>4
    <3>3. k >= BS * (rb.i + n) => ~(k < BS * rb.i) /\ ~(k < BS * (rb.i + n))
      BY <2>1, <1>4
    <3> QED
      BY <2>2, <3>1, <3>2, <3>3
  <2> QED
    BY <2>3, <2>4
<1>12. PositionFollows'
  BY InvParts DEF PositionFollows
<1>13. Calls'
  BY <1>2, <1>3, InvParts DEF Calls
<1>14. Reading'
  <2> SUFFICES ASSUME call = "read"
               PROVE  /\ left > 0
                      /\ rb.fb = pos \div BS
                      /\ rb.to = "block" =>
                           /\ rb.num = 1
                           /\ valid => PosOff = 0
                           /\ rb.i + n = 1 => \A k \in Offset : block'[k] = BlockByte(fe, rb.fb, k)
                      /\ rb.to = "buf" =>
                           /\ PosOff = 0
                           /\ BS * rb.num <= left
                           /\ \A k \in Slot : done <= k /\ k < done + BS * (rb.i + n)
                                => buf'[k] = FileByte(fe, from + k)
    BY <1>2 DEF Reading, PosOff
  <2>1. rb.i < rb.num
    BY <1>2
  <2>2. FileBlock = rb.fb + rb.i /\ FileBlock \in Nat
    BY <2>1, ReadPlace
  <2>3. ASSUME rb.to = "block", rb.i + n = 1, NEW k \in Offset
        PROVE  block'[k] = BlockByte(fe, rb.fb, k)
    <3>1. rb.i = 0 /\ FileBlock + 0 = rb.fb
      BY <1>2, <2>2, <2>3
    <3>2. Source(0, k) = BlockByte(fe, FileBlock + 0, k)
      BY SourceIs, InvParts
    <3> QED
      BY <3>1, <3>2, <1>7, <2>3
  <2>4. ASSUME rb.to = "buf", NEW k \in Slot, done <= k, k < done + BS * (rb.i + n)
        PROVE  buf'[k] = FileByte(fe, from + k)
    <3>1. CASE hit(k)
      <4> DEFINE o == at(k)
      <4>1. o \in Nat /\ k = done + BS * rb.i + o
        BY <3>1, <1>1, <1>4, <1>5 DEF hit, at
      <4> HIDE DEF o
      <4>2. PosOff = 0 /\ rb.fb = pos \div BS /\ pos = from + done
        BY <2>4, InvParts DEF Reading, PositionFollows
      <4>3. pos = BS * rb.fb
        BY <4>2, <1>1, DivMod, Product DEF PosOff
      <4>4. from + k = BS * (rb.fb + rb.i) + o
        <5>1. BS * (rb.fb + rb.i) = BS * rb.fb + BS * rb.i /\ BS * rb.fb \in Nat
          BY <1>2, Sizes
        <5>2. from + k = pos + BS * rb.i + o
          BY <4>1, <4>2, <1>1, <1>4
        <5> QED
          BY <5>1, <5>2, <4>1, <4>3, <1>4
      <4>5. FileByte(fe, from + k) = BlockByte(fe, rb.fb + rb.i + (o \div BS), o % BS)
        BY <4>1, <4>4, <1>2, BlockOfPos, InvParts DEF Calls
      <4>6. buf'[k] = BlockByte(fe, FileBlock + (o \div BS), o % BS)
        BY <3>1, <1>6 DEF o
      <4> QED
        BY <4>5, <4>6, <2>2
    <3>2. CASE ~hit(k)
      <4>1. k < done + BS * rb.i
        BY <2>4, <3>2, <1>1, <1>4, <1>5 DEF hit, at
      <4> QED
        BY <4>1, <2>4, <3>2, <1>5, InvParts DEF Reading
    <3> QED
      BY <3>1, <3>2
  <2>5. /\ left > 0
        /\ rb.fb = pos \div BS
        /\ rb.to = "block" => rb.num = 1 /\ (valid => PosOff = 0)
        /\ rb.to = "buf" => PosOff = 0 /\ BS * rb.num <= left
    BY InvParts DEF Reading
  <2> QED
    BY <2>3, <2>4, <2>5
<1> QED
  BY <1>8, <1>9, <1>10, <1>11, <1>12, <1>13, <1>14 DEF Inv

-----------------------------------------------------------------------------
(* Each action keeps the invariant.                                        *)

LEMMA KeepBlocksRead == ASSUME Inv, BlocksRead PROVE Inv'
<1>1. PICK n \in 1 .. rb.num - rb.i : n <= Run(fe, FileBlock) /\ Store(n)
  BY DEF BlocksRead
<1>2. rb.num \in Nat /\ rb.i \in Nat
  BY InvParts DEF TypeOK
<1>3. n \in Nat \ {0} /\ rb.i + n <= rb.num
  BY <1>2
<1>4. /\ pc = "blocks" /\ Mapped(fe, FileBlock)
      /\ UNCHANGED <<fe, pos, alloc, valid, pc, call, from, done, left, ret>>
  BY DEF BlocksRead
<1> QED
  BY <1>1, <1>3, <1>4, KeepStore

LEMMA KeepBlocksFill == ASSUME Inv, BlocksFill PROVE Inv'
<1>1. rb.num \in Nat /\ rb.i \in Nat
  BY InvParts DEF TypeOK
<1>2. /\ pc = "blocks" /\ ~Mapped(fe, FileBlock) /\ Store(1) /\ rb.i < rb.num
      /\ UNCHANGED <<fe, pos, alloc, valid, pc, call, from, done, left, ret>>
  BY DEF BlocksFill
<1>3. 1 \in Nat \ {0} /\ rb.i + 1 <= rb.num
  BY <1>1, <1>2
<1> QED
  BY <1>2, <1>3, KeepStore

(* The end of udfread_read_blocks: only the block buffer may have changed. *)
LEMMA KeepBack ==
  ASSUME Inv, pc = "blocks", BlocksBack,
         \/ block' = block
         \/ rb.i < rb.num /\ rb.to = "block" /\ block' = [k \in Offset |-> Junk]
  PROVE  Inv'
<1>1. /\ fe' = fe /\ pos' = pos /\ alloc' = alloc /\ valid' = valid /\ call' = call
      /\ buf' = buf /\ from' = from /\ done' = done /\ left' = left /\ rb' = rb
      /\ pc' = (IF call = "read" THEN "chunk_end" ELSE "return")
      /\ ret' = (IF call = "read" THEN ret ELSE rb.i)
  BY DEF BlocksBack
<1>2. /\ call \in {"read", "blocks"}
      /\ rb.i \in Nat /\ rb.num \in Nat /\ block \in [Offset -> Byte] /\ ret \in Int
  BY InvParts DEF TypeOK, Calls
<1>3. TypeOK'
  <2>1. block' \in [Offset -> Byte]
    BY <1>2, Bytes
  <2> QED
    BY <2>1, <1>1, <1>2, InvParts DEF TypeOK
<1>4. BlockCoherent'
  <2>1. CASE block' = block
    BY <2>1, <1>1, InvParts DEF BlockCoherent, PosOff
  <2>2. CASE rb.i < rb.num /\ rb.to = "block"
    <3>1. call = "read" /\ (valid => PosOff = 0)
      BY <1>2, <2>2, InvParts DEF Calls, Reading
    <3> QED
      BY <3>1, <1>1 DEF BlockCoherent, PosOff
  <2> QED
    BY <2>1, <2>2
<1>5. ReadIsRight' /\ BlocksAreRight'
  BY <1>1, InvParts DEF ReadIsRight, BlocksAreRight
<1>6. PositionFollows' /\ Calls'
  BY <1>1, <1>2, InvParts DEF PositionFollows, Calls
<1>7. Reading'
  <2>1. CASE block' = block
    BY <2>1, <1>1, InvParts DEF Reading, PosOff
  <2>2. CASE rb.i < rb.num /\ rb.to = "block"
    <3>1. call = "read" /\ rb.num = 1 /\ rb.i # 1
      BY <1>2, <2>2, InvParts DEF Calls, Reading
    <3> QED
      BY <2>2, <3>1, <1>1, InvParts DEF Reading, PosOff
  <2> QED
    BY <2>1, <2>2
<1> QED
  BY <1>3, <1>4, <1>5, <1>6, <1>7 DEF Inv

(* Nothing has been delivered when a call begins.                          *)
LEMMA Idle ==
  ASSUME Inv, pc = "idle"
  PROVE  /\ call = "none" /\ done = 0 /\ left = 0 /\ ret = 0
         /\ \A k \in Slot : buf[k] = Junk
         /\ fe \in Files /\ fe.length \in Nat /\ pos \in Nat
         /\ fe.inline => ~valid
  BY InvParts, FileTypes DEF Calls, Empty, TypeOK

LEMMA KeepReadBlocks ==
  ASSUME Inv, NEW fb \in 0 .. MaxPos, NEW n \in 1 .. MaxRead, udfread_read_blocks(fb, n)
  PROVE  Inv'
<1>1. /\ pc = "idle" /\ call' = "blocks" /\ BS * n <= MaxRead /\ from' = pos
      /\ rb' = [to |-> "buf", fb |-> fb, num |-> IF fe.inline THEN 0 ELSE n, i |-> 0]
      /\ pc' = "blocks" /\ buf' = buf /\ done' = done /\ left' = left /\ ret' = ret
      /\ fe' = fe /\ pos' = pos /\ block' = block /\ alloc' = alloc /\ valid' = valid
  BY DEF udfread_read_blocks, pvars
<1>2. /\ fb \in Nat /\ n \in Nat
      /\ rb' \in [to : {"buf", "block"}, fb : Nat, num : Nat, i : Nat]
      /\ rb'.to = "buf" /\ rb'.num \in {0, n} /\ rb'.i = 0
  BY <1>1, Sizes
<1>3. TypeOK'
  BY <1>1, <1>2, InvParts DEF TypeOK
<1>4. BlockCoherent' /\ ReadIsRight' /\ PositionFollows' /\ Reading'
  BY <1>1, InvParts DEF BlockCoherent, ReadIsRight, PositionFollows, Reading, PosOff
<1>5. BlocksAreRight'
  <2>1. BS * rb'.i = 0
    BY <1>2, Sizes
  <2>2. \A k \in Slot : ~(k < BS * rb'.i) /\ buf'[k] = Junk
    BY <2>1, <1>1, Idle, Bytes
  <2> QED
    BY <2>2 DEF BlocksAreRight
<1>6. Calls'
  <2>1. BS * rb'.num <= MaxRead /\ rb'.i <= rb'.num
    BY <1>1, <1>2, Sizes
  <2> QED
    BY <2>1, <1>1, <1>2, Idle DEF Calls
<1> QED
  BY <1>3, <1>4, <1>5, <1>6 DEF Inv

LEMMA KeepSeek ==
  ASSUME Inv, NEW base \in Nat, NEW offset \in Int, udfread_file_seek(base, offset)
  PROVE  Inv'
<1>1. /\ pc = "idle" /\ pos' = base + offset /\ 0 <= base + offset /\ valid' = FALSE
      /\ fe' = fe /\ block' = block /\ alloc' = alloc /\ pc' = pc /\ call' = call
      /\ buf' = buf /\ from' = from /\ done' = done /\ left' = left /\ rb' = rb /\ ret' = ret
  BY DEF udfread_file_seek, StillValid
<1>2. TypeOK'
  <2>1. valid' \in BOOLEAN
    BY <1>1, Zenon
  <2>2. pos' \in Nat
    BY <1>1
  <2> QED
    BY <2>1, <2>2, <1>1, InvParts DEF TypeOK
<1>3. call = "none"
  BY <1>1, Idle
<1>4. /\ BlockCoherent' /\ ReadIsRight' /\ BlocksAreRight' /\ PositionFollows'
      /\ Calls' /\ Reading'
  BY <1>1, <1>3, InvParts
     DEF BlockCoherent, ReadIsRight, BlocksAreRight, PositionFollows, Calls, Reading
<1> QED
  BY <1>2, <1>4 DEF Inv

LEMMA ClippedIs ==
  ASSUME Inv, pc = "idle", pos < fe.length, NEW n \in 0 .. MaxRead
  PROVE  /\ Clipped(n) \in Nat /\ Clipped(n) <= MaxRead
         /\ pos + Clipped(n) <= fe.length
  BY Idle, Sizes DEF Clipped

LEMMA KeepReadNothing ==
  ASSUME Inv, NEW n \in 0 .. MaxRead, ReadNothing(n)
  PROVE  Inv'
<1>1. /\ pc = "idle" /\ pc' = "return" /\ call' = "read" /\ from' = pos
      /\ fe' = fe /\ pos' = pos /\ block' = block /\ alloc' = alloc /\ valid' = valid
      /\ buf' = buf /\ done' = done /\ left' = left /\ rb' = rb /\ ret' \in {0, -1}
  BY DEF ReadNothing, pvars
<1>2. TypeOK'
  BY <1>1, InvParts DEF TypeOK
<1>3. BlockCoherent' /\ BlocksAreRight' /\ Reading'
  BY <1>1, InvParts DEF BlockCoherent, BlocksAreRight, Reading, PosOff
<1>4. ReadIsRight'
  <2>1. \A k \in Slot : ~(k < done') /\ buf'[k] = Junk
    BY <1>1, Idle, Bytes
  <2> QED
    BY <2>1 DEF ReadIsRight
<1>5. PositionFollows' /\ Calls'
  BY <1>1, Idle, Sizes DEF PositionFollows, Calls
<1> QED
  BY <1>2, <1>3, <1>4, <1>5 DEF Inv

LEMMA KeepReadInline ==
  ASSUME Inv, NEW n \in 0 .. MaxRead, ReadInline(n)
  PROVE  Inv'
<1> DEFINE c == Clipped(n)
<1>1. /\ pc = "idle" /\ pos < fe.length /\ fe.inline
      /\ buf' = [k \in Slot |-> IF k >= c THEN buf[k]
                                ELSE IF pos + k < fe.recorded THEN InEntry(pos + k) ELSE Fill]
      /\ pos' = pos + c /\ done' = c /\ ret' = c /\ pc' = "return" /\ call' = "read"
      /\ from' = pos /\ fe' = fe /\ block' = block /\ alloc' = alloc /\ valid' = valid
      /\ left' = left /\ rb' = rb
  BY DEF ReadInline
<1>2. c \in Nat /\ c <= MaxRead
  BY <1>1, ClippedIs
<1> HIDE DEF c
<1>3. ASSUME NEW k \in Slot
      PROVE  /\ k \in Nat
             /\ k < c => buf'[k] \in Byte /\ buf'[k] = FileByte(fe, pos + k)
             /\ k >= c => buf'[k] = Junk
  <2>1. k \in Nat /\ pos \in Nat /\ pos + k \in Nat /\ buf[k] = Junk
    BY <1>1, Idle, Bytes
  <2>2. ASSUME k < c PROVE buf'[k] = IF pos + k < fe.recorded THEN InEntry(pos + k) ELSE Fill
    BY <1>1, <1>2, <2>1, <2>2
  <2>3. ASSUME k >= c PROVE buf'[k] = Junk
    BY <1>1, <1>2, <2>1, <2>3
  <2> QED
    BY <2>1, <2>2, <2>3, <1>1, <1>2, Bytes DEF FileByte
<1>4. TypeOK'
  <2>1. buf' = [k \in Slot |-> buf'[k]]
    BY <1>1
  <2>2. \A k \in Slot : buf'[k] \in Byte
    BY <1>2, <1>3, Bytes
  <2>3. buf' \in [Slot -> Byte]
    BY <2>1, <2>2
  <2>4. pos' \in Nat /\ done' \in Nat /\ ret' \in Int
    BY <1>1, <1>2, Idle
  <2> QED
    BY <2>3, <2>4, <1>1, InvParts DEF TypeOK
<1>5. BlockCoherent' /\ BlocksAreRight' /\ Reading'
  BY <1>1, Idle DEF BlockCoherent, BlocksAreRight, Reading
<1>6. ReadIsRight'
  <2>1. left' = 0 /\ done' = c /\ fe' = fe /\ from' = pos
    BY <1>1, Idle
  <2> QED
    BY <2>1, <1>2, <1>3 DEF ReadIsRight
<1>7. PositionFollows' /\ Calls'
  BY <1>1, <1>2, Idle DEF PositionFollows, Calls
<1> QED
  BY <1>4, <1>5, <1>6, <1>7 DEF Inv

LEMMA KeepReadLoop ==
  ASSUME Inv, NEW n \in 0 .. MaxRead, ReadLoop(n)
  PROVE  Inv'
<1>1. /\ pc = "idle" /\ pos < fe.length /\ ~fe.inline /\ alloc' = TRUE
      /\ left' = Clipped(n) /\ pc' = "chunk" /\ call' = "read" /\ from' = pos
      /\ fe' = fe /\ pos' = pos /\ block' = block /\ valid' = valid /\ buf' = buf
      /\ done' = done /\ rb' = rb /\ ret' = ret
  BY DEF ReadLoop
<1>2. left' \in Nat /\ left' <= MaxRead /\ pos + left' <= fe.length
  BY <1>1, ClippedIs
<1>3. TypeOK'
  <2>1. alloc' \in BOOLEAN
    BY <1>1, Zenon
  <2> QED
    BY <2>1, <1>1, <1>2, InvParts DEF TypeOK
<1>4. BlockCoherent' /\ BlocksAreRight' /\ Reading'
  BY <1>1, InvParts DEF BlockCoherent, BlocksAreRight, Reading, PosOff
<1>5. ReadIsRight'
  <2>1. \A k \in Slot : ~(k < done') /\ buf'[k] = Junk
    BY <1>1, Idle, Bytes
  <2> QED
    BY <2>1 DEF ReadIsRight
<1>6. PositionFollows' /\ Calls'
  BY <1>1, <1>2, Idle DEF PositionFollows, Calls
<1> QED
  BY <1>3, <1>4, <1>5, <1>6 DEF Inv

-----------------------------------------------------------------------------
(* The chunks.                                                             *)

(* The loop of udfread_file_read.                                          *)
LEMMA InLoop ==
  ASSUME Inv, call = "read", pc # "return"
  PROVE  /\ fe \in Files /\ fe.length \in Nat /\ ~fe.inline
         /\ pos \in Nat /\ from \in Nat /\ done \in Nat /\ left \in Nat /\ ret = 0
         /\ pos = from + done /\ pos + left <= fe.length /\ done + left <= MaxRead
         /\ pos \div BS \in Nat /\ PosOff \in Offset /\ pos = BS * (pos \div BS) + PosOff
         /\ rb.fb \in Nat /\ rb.i \in Nat /\ rb.num \in Nat
         /\ block \in [Offset -> Byte] /\ buf \in [Slot -> Byte]
<1>1. /\ fe \in Files /\ fe.length \in Nat /\ pos \in Nat /\ from \in Nat /\ done \in Nat
      /\ left \in Nat /\ rb.fb \in Nat /\ rb.i \in Nat /\ rb.num \in Nat
      /\ block \in [Offset -> Byte] /\ buf \in [Slot -> Byte]
  BY InvParts, FileTypes DEF TypeOK
<1>2. pos \div BS \in Nat /\ PosOff \in Offset /\ pos = BS * (pos \div BS) + PosOff
  BY <1>1, DivMod DEF PosOff
<1> QED
  BY <1>1, <1>2, InvParts DEF Calls, PositionFollows

LEMMA PosBlockIs ==
  ASSUME Inv, call = "read", pc # "return", left > 0
  PROVE  PosBlock = pos \div BS
<1> DEFINE q == pos \div BS
<1>1. q \in Nat /\ PosOff \in Offset /\ pos = BS * q + PosOff /\ pos < fe.length /\ fe \in Files
      /\ fe.length \in Nat
  BY InLoop
<1>2. fe.length <= (M32 - 1) * BS
  BY <1>1, FileTypes DEF IsFile
<1> HIDE DEF q
<1>3. BS * q < BS * M32
  BY <1>1, <1>2, Sizes DEF Offset
<1>4. q < M32
  BY <1>1, <1>3, Cancel, Sizes
<1> QED
  BY <1>1, <1>4, Mod32 DEF PosBlock, q

LEMMA KeepChunkBlocks ==
  ASSUME Inv, pc = "chunk", left > 0, NEW to \in {"block", "buf"}, NEW n \in Nat,
         ChunkBlocks(to, n),
         to = "block" => n = 1 /\ (valid => PosOff = 0),
         to = "buf" => PosOff = 0 /\ BS * n <= left
  PROVE  Inv'
<1>1. /\ rb' = [to |-> to, fb |-> PosBlock, num |-> n, i |-> 0] /\ pc' = "blocks"
      /\ fe' = fe /\ pos' = pos /\ block' = block /\ alloc' = alloc /\ valid' = valid
      /\ call' = call /\ buf' = buf /\ from' = from /\ done' = done /\ left' = left /\ ret' = ret
  BY DEF ChunkBlocks, pvars
<1>2. call = "read"
  BY InvParts DEF Calls
<1>3. PosBlock = pos \div BS /\ PosBlock \in Nat
  BY <1>2, PosBlockIs, InLoop
<1>4. /\ rb' \in [to : {"buf", "block"}, fb : Nat, num : Nat, i : Nat]
      /\ rb'.to = to /\ rb'.fb = pos \div BS /\ rb'.num = n /\ rb'.i = 0
  BY <1>1, <1>3
<1>5. TypeOK'
  BY <1>1, <1>4, InvParts DEF TypeOK
<1>6. /\ BlockCoherent' /\ ReadIsRight' /\ BlocksAreRight' /\ PositionFollows' /\ Calls'
  BY <1>1, <1>2, InvParts
     DEF BlockCoherent, ReadIsRight, BlocksAreRight, PositionFollows, Calls, PosOff
<1>7. Reading'
  <2>1. BS * rb'.i = 0
    BY <1>4, Sizes
  <2>2. \A k \in Slot : ~(done' <= k /\ k < done' + BS * rb'.i)
    BY <2>1, <1>1, <1>2, InLoop, Bytes
  <2> QED
    BY <2>2, <1>1, <1>4 DEF Reading, PosOff
<1> QED
  BY <1>5, <1>6, <1>7 DEF Inv

LEMMA KeepChunkPart == ASSUME Inv, ChunkPart PROVE Inv'
<1>1. pc = "chunk" /\ left > 0 /\ ChunkBlocks("block", 1) /\ (valid => PosOff = 0)
  BY DEF ChunkPart
<1> QED
  BY <1>1, KeepChunkBlocks

LEMMA KeepChunkWhole == ASSUME Inv, ChunkWhole PROVE Inv'
<1> DEFINE q == left \div BS
<1>1. /\ pc = "chunk" /\ PosOff = 0 /\ left >= BS /\ ChunkBlocks("buf", q % M32)
  BY DEF ChunkWhole
<1>2. left \in Nat /\ left > 0
  BY <1>1, Sizes, InvParts DEF TypeOK
<1>3. q \in Nat /\ left % BS \in Offset /\ left = BS * q + (left % BS)
  BY <1>2, DivMod
<1> HIDE DEF q
<1>4. q % M32 \in Nat /\ q % M32 <= q
  BY <1>3, Mod32, Sizes
<1>5. BS * (q % M32) <= BS * q /\ BS * q \in Nat /\ BS * (q % M32) \in Nat
  BY <1>3, <1>4, Cancel, Product
<1>6. BS * (q % M32) <= left
  BY <1>2, <1>3, <1>5 DEF Offset
<1> QED
  BY <1>1, <1>2, <1>4, <1>6, KeepChunkBlocks

LEMMA KeepBlocksFail == ASSUME Inv, BlocksFail PROVE Inv'
  BY KeepBack DEF BlocksFail

LEMMA KeepBlocksEnd == ASSUME Inv, BlocksEnd PROVE Inv'
  BY KeepBack DEF BlocksEnd

(* A chunk ends with its block or with the request.                        *)
LEMMA ChunkIs ==
  ASSUME Inv, call = "read", pc # "return", left > 0
  PROVE  /\ ChunkSize \in Nat /\ ChunkSize <= left /\ PosOff + ChunkSize <= BS
<1> DEFINE o == PosOff
<1>1. o \in 0 .. BS - 1 /\ left \in Nat /\ BS \in Nat \ {0}
  BY InLoop, Sizes DEF Offset
<1>2. ChunkSize = IF BS - o > left THEN left ELSE BS - o
  BY DEF ChunkSize
<1> HIDE DEF o
<1>3. ChunkSize \in Nat /\ ChunkSize <= left /\ o + ChunkSize <= BS
  BY <1>1, <1>2
<1> QED
  BY <1>3 DEF o

(* Copying the rest of the block, or of the request, from the buffer.      *)
LEMMA KeepCopied ==
  ASSUME Inv, call = "read", pc # "return", left > 0,
         \A k \in Offset : block[k] = FileByte(fe, (pos - PosOff) + k),
         Copied(ChunkSize), valid' = TRUE,
         rb' \in [to : {"buf", "block"}, fb : Nat, num : Nat, i : Nat],
         UNCHANGED <<fe, block, alloc, call, from, ret>>
  PROVE  Inv'
<1> DEFINE c == ChunkSize
           o == PosOff
           q == pos \div BS
<1>1. c \in Nat /\ c <= left /\ o + c <= BS
  BY ChunkIs
<1>2. /\ fe \in Files /\ fe.length \in Nat /\ ~fe.inline
      /\ pos \in Nat /\ from \in Nat /\ done \in Nat /\ left \in Nat /\ ret = 0
      /\ pos = from + done /\ pos + left <= fe.length /\ done + left <= MaxRead
      /\ pos \div BS \in Nat /\ o \in Offset /\ pos = BS * (pos \div BS) + o
      /\ block \in [Offset -> Byte] /\ buf \in [Slot -> Byte]
  BY InLoop
<1>3. /\ buf' = [k \in Slot |-> IF done <= k /\ k < done + c THEN block[o + (k - done)] ELSE buf[k]]
      /\ pos' = pos + c /\ done' = done + c /\ left' = left - c /\ pc' = "chunk"
      /\ fe' = fe /\ block' = block /\ alloc' = alloc /\ call' = call /\ from' = from /\ ret' = ret
  BY DEF Copied
<1>4. \A k \in Offset : block[k] = FileByte(fe, (pos - o) + k)
  OBVIOUS
<1>5. PosOff' = pos' % BS
  BY DEF PosOff
<1>0. q \in Nat /\ o \in Offset /\ pos = BS * q + o /\ c \in Nat /\ BS * q \in Nat
  BY <1>1, <1>2, Product
<1> HIDE DEF c, o, q
<1>6. ASSUME NEW k \in Slot, done <= k, k < done + c
      PROVE  o + (k - done) \in Offset /\ block[o + (k - done)] = FileByte(fe, from + k)
  <2>1. k \in Nat
    BY Bytes
  <2>2. o + (k - done) \in Offset
    BY <2>1, <1>1, <1>2, <1>6, Sizes DEF Offset
  <2>3. (pos - o) + (o + (k - done)) = from + k
    BY <2>1, <1>2, Sizes DEF Offset
  <2> QED
    BY <2>2, <2>3, <1>4
<1>7. TypeOK'
  <2>1. \A k \in Slot : (IF done <= k /\ k < done + c THEN block[o + (k - done)] ELSE buf[k]) \in Byte
    BY <1>2, <1>6
  <2>2. buf' \in [Slot -> Byte]
    BY <2>1, <1>3
  <2>3. pos' \in Nat /\ done' \in Nat /\ left' \in Nat
    BY <1>1, <1>2, <1>3
  <2>4. valid' \in BOOLEAN
    BY Zenon
  <2> QED
    BY <2>2, <2>3, <2>4, <1>3, InvParts DEF TypeOK
<1>8. BlockCoherent'
  <2>1. CASE o + c = BS
    <3>1. pos' = BS * (q + 1) + 0 /\ q + 1 \in Nat
      BY <2>1, <1>1, <1>3, <1>0, Sizes DEF Offset
    <3>2. 0 \in Offset
      BY Sizes DEF Offset
    <3>3. PosOff' = 0
      BY <3>1, <3>2, <1>5, DivModOnly
    <3> QED
      BY <3>3 DEF BlockCoherent
  <2>2. CASE o + c # BS
    <3>1. o + c \in Offset /\ pos' = BS * q + (o + c)
      BY <2>2, <1>1, <1>3, <1>0, Sizes DEF Offset
    <3>2. PosOff' = o + c
      BY <3>1, <1>0, <1>5, DivModOnly
    <3>3. pos' - PosOff' = pos - o
      BY <3>2, <1>1, <1>2, <1>3 DEF Offset
    <3>4. \A k \in Offset : block'[k] = FileByte(fe', (pos' - PosOff') + k)
      BY <3>3, <1>3, <1>4
    <3> QED
      BY <3>4 DEF BlockCoherent
  <2> QED
    BY <2>1, <2>2
<1>9. ReadIsRight'
  <2> SUFFICES ASSUME NEW k \in Slot
               PROVE  /\ k < done' => buf'[k] = FileByte(fe, from + k)
                      /\ k >= done' + left' => buf'[k] = Junk
    BY <1>3 DEF ReadIsRight
  <2>1. k \in Nat /\ done' + left' = done + left
    BY <1>1, <1>2, <1>3, Bytes
  <2>2. CASE done <= k /\ k < done + c
    BY <2>1, <2>2, <1>1, <1>2, <1>3, <1>6
  <2>3. CASE ~(done <= k /\ k < done + c)
    <3>1. buf'[k] = buf[k]
      BY <2>3, <1>3
    <3>2. k < done' => k < done
      BY <2>1, <2>3, <1>1, <1>2, <1>3
    <3> QED
      BY <3>1, <3>2, <2>1, InvParts DEF ReadIsRight
  <2> QED
    BY <2>2, <2>3
<1>10. BlocksAreRight' /\ Reading'
  BY <1>3 DEF BlocksAreRight, Reading
<1>11. PositionFollows'
  BY <1>1, <1>2, <1>3 DEF PositionFollows
<1>12. Calls'
  BY <1>1, <1>2, <1>3 DEF Calls
<1> QED
  BY <1>7, <1>8, <1>9, <1>10, <1>11, <1>12 DEF Inv

LEMMA KeepChunkBuffered == ASSUME Inv, ChunkBuffered PROVE Inv'
<1>1. /\ pc = "chunk" /\ left > 0 /\ PosOff # 0 /\ valid = TRUE /\ Copied(ChunkSize)
      /\ valid' = valid /\ rb' = rb
      /\ UNCHANGED <<fe, block, alloc, call, from, ret>>
  BY InvParts DEF ChunkBuffered, TypeOK
<1>2. call = "read"
  BY <1>1, InvParts DEF Calls
<1>3. \A k \in Offset : block[k] = FileByte(fe, (pos - PosOff) + k)
  BY <1>1, InvParts DEF BlockCoherent
<1>4. rb' \in [to : {"buf", "block"}, fb : Nat, num : Nat, i : Nat]
  BY <1>1, InvParts DEF TypeOK
<1> QED
  BY <1>1, <1>2, <1>3, <1>4, KeepCopied

LEMMA KeepChunkEndPart == ASSUME Inv, ChunkEndPart PROVE Inv'
<1>1. /\ pc = "chunk_end" /\ rb.to = "block" /\ rb.i = 1 /\ valid' = TRUE
      /\ Copied(ChunkSize) /\ rb' = NoBlocks
      /\ UNCHANGED <<fe, block, alloc, call, from, ret>>
  BY DEF ChunkEndPart
<1>2. call = "read"
  BY <1>1, InvParts DEF Calls
<1>3. /\ left > 0 /\ rb.fb = pos \div BS
      /\ \A k \in Offset : block[k] = BlockByte(fe, rb.fb, k)
  BY <1>1, <1>2, InvParts DEF Reading
<1> DEFINE q == pos \div BS
<1>4. q \in Nat /\ PosOff \in Offset /\ pos = BS * q + PosOff /\ ~fe.inline
  BY <1>1, <1>2, InLoop
<1>5. ASSUME NEW k \in Offset
      PROVE  block[k] = FileByte(fe, (pos - PosOff) + k)
  <2> HIDE DEF q
  <2>1. (pos - PosOff) + k = BS * q + k
    BY <1>4, Product DEF Offset
  <2>2. (BS * q + k) \div BS = q /\ (BS * q + k) % BS = k
    BY <1>4, DivModOnly
  <2>3. FileByte(fe, (pos - PosOff) + k) = BlockByte(fe, q, k)
    BY <2>1, <2>2, <1>4 DEF FileByte
  <2> QED
    BY <2>3, <1>3 DEF q
<1>6. rb' \in [to : {"buf", "block"}, fb : Nat, num : Nat, i : Nat]
  BY <1>1 DEF NoBlocks
<1> QED
  BY <1>1, <1>2, <1>3, <1>5, <1>6, KeepCopied

(* Counting whole blocks in 32 bits gives whole blocks, no more than read. *)
LEMMA WholeIs ==
  ASSUME NEW i \in Nat
  PROVE  \E w \in Nat : (i * BS) % M32 = BS * w /\ w <= i
<1> DEFINE d == (i * BS) \div M32
           r == (i * BS) % M32
           m == M32 \div BS
<1>1. m \in Nat /\ M32 = BS * m
  <2>1. M32 \in Nat /\ M32 % BS = 0
    BY SizeAssumption
  <2>2. m \in Nat /\ M32 = BS * m + (M32 % BS)
    BY <2>1, DivMod
  <2> QED
    BY <2>1, <2>2, Sizes
<1>2. i * BS \in Nat /\ d \in Nat /\ r \in Nat /\ i * BS = M32 * d + r
  BY Sizes
<1> HIDE DEF d, r, m
<1>3. r = BS * (i - m * d)
  BY <1>1, <1>2, Sizes
<1>4. i - m * d \in Int
  BY <1>1, <1>2, Sizes
<1>5. i - m * d >= 0
  BY <1>2, <1>3, <1>4, Sizes
<1>6. m * d \in Nat
  BY <1>1, <1>2
<1>7. i - m * d \in Nat /\ i - m * d <= i
  BY <1>4, <1>5, <1>6
<1> QED
  BY <1>3, <1>7 DEF r

LEMMA KeepChunkEndWhole == ASSUME Inv, ChunkEndWhole PROVE Inv'
<1>1. /\ pc = "chunk_end" /\ rb.to = "buf" /\ rb.i >= 1
      /\ pos' = pos + Whole /\ done' = done + Whole /\ left' = left - Whole
      /\ pc' = "chunk" /\ rb' = NoBlocks
      /\ fe' = fe /\ block' = block /\ alloc' = alloc /\ valid' = valid /\ call' = call
      /\ buf' = buf /\ from' = from /\ ret' = ret
  BY DEF ChunkEndWhole
<1>2. call = "read"
  BY <1>1, InvParts DEF Calls
<1>3. /\ fe \in Files /\ fe.length \in Nat /\ ~fe.inline
      /\ pos \in Nat /\ from \in Nat /\ done \in Nat /\ left \in Nat /\ ret = 0
      /\ pos = from + done /\ pos + left <= fe.length /\ done + left <= MaxRead
      /\ pos \div BS \in Nat /\ pos = BS * (pos \div BS) + PosOff
      /\ rb.i \in Nat /\ rb.num \in Nat
  BY <1>1, <1>2, InLoop
<1>4. /\ PosOff = 0 /\ BS * rb.num <= left /\ rb.i <= rb.num
      /\ \A k \in Slot : done <= k /\ k < done + BS * rb.i => buf[k] = FileByte(fe, from + k)
  BY <1>1, <1>2, InvParts DEF Reading
<1>5. PICK w \in Nat : (rb.i * BS) % M32 = BS * w /\ w <= rb.i
  BY <1>3, WholeIs
<1>6. Whole = BS * w /\ Whole \in Nat
  BY <1>5, Product DEF Whole
<1>7. BS * w <= BS * rb.i /\ BS * rb.i <= BS * rb.num /\ BS * rb.i \in Nat /\ BS * rb.num \in Nat
  BY <1>3, <1>4, <1>5, Cancel, Product
<1>8. Whole <= BS * rb.i /\ Whole <= left
  BY <1>3, <1>4, <1>6, <1>7
<1>9. TypeOK'
  <2>1. rb' \in [to : {"buf", "block"}, fb : Nat, num : Nat, i : Nat]
    BY <1>1 DEF NoBlocks
  <2>2. pos' \in Nat /\ done' \in Nat /\ left' \in Nat
    BY <1>1, <1>3, <1>6, <1>8
  <2> QED
    BY <2>1, <2>2, <1>1, InvParts DEF TypeOK
<1>10. BlockCoherent'
  <2> DEFINE q == pos \div BS
  <2>1. pos' = BS * (q + w) + 0 /\ q + w \in Nat
    <3>1. q \in Nat /\ pos = BS * q + PosOff
      BY <1>3
    <3> HIDE DEF q
    <3>2. pos = BS * q
      BY <3>1, <1>4, Sizes
    <3> QED
      BY <3>1, <3>2, <1>1, <1>6, Sizes
  <2> HIDE DEF q
  <2>2. pos' % BS = 0
    BY <2>1, DivModOnly, Sizes DEF Offset
  <2> QED
    BY <2>2 DEF BlockCoherent, PosOff
<1>11. ReadIsRight'
  <2> SUFFICES ASSUME NEW k \in Slot
               PROVE  /\ k < done' => buf[k] = FileByte(fe, from + k)
                      /\ k >= done' + left' => buf[k] = Junk
    BY <1>1 DEF ReadIsRight
  <2>1. k \in Nat /\ done' + left' = done + left
    BY <1>1, <1>3, <1>6, Bytes
  <2>2. k < done' => k < done \/ (done <= k /\ k < done + BS * rb.i)
    BY <2>1, <1>1, <1>3, <1>6, <1>7, <1>8
  <2> QED
    BY <2>1, <2>2, <1>2, <1>4, InvParts DEF ReadIsRight
<1>12. BlocksAreRight' /\ Reading'
  BY <1>1, <1>2 DEF BlocksAreRight, Reading
<1>13. PositionFollows'
  BY <1>1, <1>2, <1>3, <1>6 DEF PositionFollows
<1>14. Calls'
  BY <1>1, <1>2, <1>3, <1>6, <1>8, InvParts DEF Calls
<1> QED
  BY <1>9, <1>10, <1>11, <1>12, <1>13, <1>14 DEF Inv

(* The chunk failed, or nothing is left: the call is about to return.      *)
LEMMA KeepReturning ==
  ASSUME Inv, call = "read", pc \in {"chunk", "chunk_end"},
         pc' = "return", ret' \in {done, -1}, ret' = -1 => done = 0,
         rb' \in [to : {"buf", "block"}, fb : Nat, num : Nat, i : Nat],
         UNCHANGED <<pvars, call, buf, from, done, left>>
  PROVE  Inv'
<1>1. /\ fe' = fe /\ pos' = pos /\ block' = block /\ alloc' = alloc /\ valid' = valid
      /\ call' = call /\ buf' = buf /\ from' = from /\ done' = done /\ left' = left
  BY DEF pvars
<1>2. done \in Nat /\ left \in Nat /\ pos = from + done /\ done + left <= MaxRead
  BY InLoop
<1>3. TypeOK'
  BY <1>1, <1>2, InvParts DEF TypeOK
<1>4. BlockCoherent' /\ ReadIsRight' /\ BlocksAreRight' /\ Reading'
  BY <1>1, InvParts DEF BlockCoherent, ReadIsRight, BlocksAreRight, Reading, PosOff
<1>5. PositionFollows' /\ Calls'
  BY <1>1, <1>2, InvParts DEF PositionFollows, Calls
<1> QED
  BY <1>3, <1>4, <1>5 DEF Inv

LEMMA KeepChunkEndFailed == ASSUME Inv, ChunkEndFailed PROVE Inv'
<1>1. /\ pc = "chunk_end" /\ ret' = Partial /\ pc' = "return" /\ rb' = NoBlocks
      /\ UNCHANGED <<pvars, call, buf, from, done, left>>
  BY DEF ChunkEndFailed, AfterFailure
<1>2. call = "read"
  BY <1>1, InvParts DEF Calls
<1>3. ret' \in {done, -1} /\ (ret' = -1 => done = 0)
  BY <1>1, <1>2, InLoop DEF Partial
<1>4. rb' \in [to : {"buf", "block"}, fb : Nat, num : Nat, i : Nat]
  BY <1>1 DEF NoBlocks
<1> QED
  BY <1>1, <1>2, <1>3, <1>4, KeepReturning

LEMMA KeepChunkLoopEnd == ASSUME Inv, ChunkLoopEnd PROVE Inv'
<1>1. /\ pc = "chunk" /\ ret' = done /\ pc' = "return" /\ rb' = rb
      /\ UNCHANGED <<pvars, call, buf, from, done, left>>
  BY DEF ChunkLoopEnd
<1>2. call = "read"
  BY <1>1, InvParts DEF Calls
<1>3. ret' \in {done, -1} /\ (ret' = -1 => done = 0)
  BY <1>1, <1>2, InLoop
<1>4. rb' \in [to : {"buf", "block"}, fb : Nat, num : Nat, i : Nat]
  BY <1>1, InvParts DEF TypeOK
<1> QED
  BY <1>1, <1>2, <1>3, <1>4, KeepReturning

LEMMA KeepReturn == ASSUME Inv, Return PROVE Inv'
<1>1. /\ pc' = "idle" /\ call' = "none" /\ buf' = Empty /\ from' = 0 /\ done' = 0
      /\ left' = 0 /\ rb' = NoBlocks /\ ret' = 0
      /\ fe' = fe /\ pos' = pos /\ block' = block /\ alloc' = alloc /\ valid' = valid
  BY DEF Return, pvars
<1>2. TypeOK'
  <2>1. buf' \in [Slot -> Byte]
    BY <1>1, Bytes DEF Empty
  <2>2. rb' \in [to : {"buf", "block"}, fb : Nat, num : Nat, i : Nat]
    BY <1>1 DEF NoBlocks
  <2> QED
    BY <2>1, <2>2, <1>1, InvParts DEF TypeOK
<1>3. /\ BlockCoherent' /\ ReadIsRight' /\ BlocksAreRight' /\ PositionFollows' /\ Reading'
  BY <1>1, InvParts
     DEF BlockCoherent, ReadIsRight, BlocksAreRight, PositionFollows, Reading, PosOff
<1>4. Calls'
  BY <1>1, InvParts DEF Calls
<1> QED
  BY <1>2, <1>3, <1>4 DEF Inv

LEMMA KeepStutter == ASSUME Inv, UNCHANGED vars PROVE Inv'
<1>1. /\ fe' = fe /\ pos' = pos /\ block' = block /\ alloc' = alloc /\ valid' = valid
      /\ pc' = pc /\ call' = call /\ buf' = buf /\ from' = from /\ done' = done
      /\ left' = left /\ rb' = rb /\ ret' = ret
  BY DEF vars
<1> QED
  BY <1>1, InvParts DEF Inv, TypeOK, BlockCoherent, ReadIsRight, BlocksAreRight,
     PositionFollows, Calls, Reading, PosOff

LEMMA KeepBegin == ASSUME Inv, Begin PROVE Inv'
<1>1. CASE \E n \in 0 .. MaxRead : udfread_file_read(n)
  BY <1>1, KeepReadNothing, KeepReadInline, KeepReadLoop DEF udfread_file_read
<1>2. CASE \E fb \in 0 .. MaxPos, n \in 1 .. MaxRead : udfread_read_blocks(fb, n)
  BY <1>2, KeepReadBlocks
<1>3. ASSUME NEW base \in {0, pos, fe.length}, NEW offset \in -MaxPos .. MaxPos,
             udfread_file_seek(base, offset)
      PROVE  Inv'
  <2>1. pos \in Nat /\ fe.length \in Nat
    BY InvParts, FileTypes DEF TypeOK
  <2>2. base \in Nat /\ offset \in Int
    BY <2>1, <1>3, Sizes
  <2> QED
    BY <2>2, <1>3, KeepSeek
<1> QED
  BY <1>1, <1>2, <1>3 DEF Begin

LEMMA NextInv == Inv /\ [Next]_vars => Inv'
<1> SUFFICES ASSUME Inv, [Next]_vars PROVE Inv'
  OBVIOUS
<1>1. CASE Begin
  BY <1>1, KeepBegin
<1>2. CASE Work
  BY <1>2, KeepBlocksFill, KeepBlocksRead, KeepBlocksFail, KeepBlocksEnd,
     KeepChunkBuffered, KeepChunkPart, KeepChunkWhole, KeepChunkEndPart,
     KeepChunkEndWhole, KeepChunkEndFailed, KeepChunkLoopEnd, KeepReturn DEF Work
<1>3. CASE UNCHANGED vars
  BY <1>3, KeepStutter
<1> QED
  BY <1>1, <1>2, <1>3 DEF Next

(* The invariant of the byte stream of udfread.c:685-956.                  *)
THEOREM Invariance == Spec => []Inv
  BY InitInv, NextInv, PTL DEF Spec

(* Every variable keeps its type.                                          *)
THEOREM StreamTypes == Spec => []TypeOK
<1>1. Inv => TypeOK
  BY DEF Inv
<1> QED
  BY <1>1, Invariance, PTL

(* A block buffer that _read will use again (udfread.c:803) holds the      *)
(* block the position is in, whatever reads, failures and seeks came       *)
(* before.                                                                 *)
THEOREM BufferIsCoherent == Spec => []BlockCoherent
<1>1. Inv => BlockCoherent
  BY DEF Inv
<1> QED
  BY <1>1, Invariance, PTL

(* udfread_file_read delivers the bytes of the file from the position at   *)
(* the call on, and writes nothing behind what was asked for, for every    *)
(* block size, file, request and short or failing input.                   *)
THEOREM ReadDeliversTheFile == Spec => []ReadIsRight
<1>1. Inv => ReadIsRight
  BY DEF Inv
<1> QED
  BY <1>1, Invariance, PTL

(* udfread_read_blocks delivers the blocks of the file, zeros where the    *)
(* medium records none, and nothing behind them.                           *)
THEOREM BlocksDeliverTheFile == Spec => []BlocksAreRight
<1>1. Inv => BlocksAreRight
  BY DEF Inv
<1> QED
  BY <1>1, Invariance, PTL

(* The position moves by exactly what was delivered, and a read that gave  *)
(* something never returns -1 (udfread.c:908-912).                         *)
THEOREM PositionIsHonest == Spec => []PositionFollows
<1>1. Inv => PositionFollows
  BY DEF Inv
<1> QED
  BY <1>1, Invariance, PTL

(* A read cut to the size of the file asks for blocks of the file only:    *)
(* the error path of udfread.c:762-766 is taken for the block access of    *)
(* the API, never for a read.                                              *)
THEOREM ReadStaysInside == Spec => []InsideFile
<1>1. Inv => InsideFile
  <2> SUFFICES ASSUME Inv, call = "read", pc = "blocks", rb.i < rb.num
               PROVE  FileBlock < FileBlocks(fe)
    BY DEF InsideFile
  <2> DEFINE b == rb.fb + rb.i
             l == fe.length
             n == (l + BS - 1) \div BS
  <2>1. b \in Nat /\ BS * b < l /\ FileBlock = b
    BY ReadPlace
  <2>2. l \in Nat /\ fe \in Files
    BY InLoop
  <2>3. l <= (M32 - 1) * BS
    BY <2>2, FileTypes DEF IsFile
  <2>4. FileBlocks(fe) = n % M32
    BY DEF FileBlocks
  <2>5. n \in Nat
    BY <2>2, DivMod, Sizes
  <2> HIDE DEF b, l
  <2>6. b < n /\ n <= M32 - 1
    BY <2>1, <2>2, <2>3, RoundUp, Sizes
  <2> HIDE DEF n
  <2>7. n % M32 = n
    BY <2>5, <2>6, Mod32, Sizes
  <2> QED
    BY <2>1, <2>4, <2>6, <2>7
<1> QED
  BY <1>1, Invariance, PTL
=============================================================================
