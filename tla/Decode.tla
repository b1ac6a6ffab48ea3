------------------------------- MODULE Decode -------------------------------
(***************************************************************************)
(* The arithmetic of the descriptor decoders of src/ecma167.c: which       *)
(* lengths they accept, and from these where they read in the block and    *)
(* where they write in what they have allocated.  The lengths come from    *)
(* the disc and are 32 bits wide.                                          *)
(*                                                                         *)
(* A place is a set of byte offsets: From(a, n) is n bytes at a.           *)
(***************************************************************************)
EXTENDS Integers

CONSTANTS
  M32,        \* 2^32
  FidHead,    \* the fixed part of a file identifier (38 bytes)
  Pad,        \* a file identifier is padded to multiples of this (4 bytes)
  SizeFe,     \* sizeof(struct file_entry), of which
  OffAds,     \*   u.ads.ad begins here, and
  OffContent, \*   u.data.content here
  SizeAd      \* sizeof(struct long_ad)

ASSUME DecodeAssumption ==
  /\ M32 \in Nat /\ M32 > 216
  /\ FidHead \in Nat \ {0} /\ Pad \in Nat \ {0}
  /\ SizeFe \in Nat /\ OffAds \in Nat /\ OffContent \in Nat /\ SizeAd \in Nat
  /\ OffAds + SizeAd <= SizeFe /\ OffContent < SizeFe

U32 == 0 .. M32 - 1
From(a, n) == a .. a + n - 1

-----------------------------------------------------------------------------
(* Allocation descriptors: the stride of each type (short, long, extended) *)
(* and how much of it is looked at.                                        *)
AdTypes == 0 .. 2
Stride(t) == IF t = 0 THEN 8 ELSE IF t = 1 THEN 16 ELSE 20
Touched(t) == IF t = 0 THEN 8 ELSE IF t = 1 THEN 10 ELSE 18
NumAd(t, l_ad) == l_ad \div Stride(t)

(* _decode_file_ads of num descriptors at p, stored from the n-th on.      *)
AdsRead(t, p, num) == UNION {From(p + i * Stride(t), Touched(t)) : i \in 0 .. num - 1}
AdsStored(n, num) == UNION {From(OffAds + (n + i) * SizeAd, SizeAd) : i \in 0 .. num - 1}

(* File entry and extended file entry: the attributes of l_ea bytes follow *)
(* the fixed part, then the descriptors.  The first test is made in 64     *)
(* bits, the second in 32.                                                 *)
Fixed == {176, 216}
TooLong(fixed, l_ea, l_ad) == l_ea + l_ad + fixed >= M32
PAd(fixed, l_ea) == (fixed + l_ea) % M32
EntryAccepted(fixed, l_ea, l_ad, size) ==
  ~TooLong(fixed, l_ea, l_ad) /\ (PAd(fixed, l_ea) + l_ad) % M32 <= size

(* What calloc is asked for, with the number of descriptors or with the    *)
(* data inside the entry.                                                  *)
EntrySize(num, l_ad) == IF num < 1 THEN SizeFe + l_ad ELSE SizeFe + SizeAd * (num - 1)
InlineStored(l_ad) == From(OffContent, l_ad)

(* An allocation extent: its descriptors follow the n that there are.      *)
ExtentHead == 24
ExtentAccepted(l_ad, size) == size >= ExtentHead /\ size - ExtentHead >= l_ad
ExtentSize(n, num) == SizeFe + SizeAd * ((n + num) % M32)

-----------------------------------------------------------------------------
(* File identifiers.  What one needs, with a name of l_fi bytes behind     *)
(* l_iu bytes of implementation use, and what it occupies.                 *)
FidNeeds(l_fi, l_iu) == FidHead + l_fi + l_iu
FidAccepted(l_fi, l_iu, size) == size >= FidHead /\ size >= FidNeeds(l_fi, l_iu)
FidOccupies(l_fi, l_iu) == Pad * ((FidNeeds(l_fi, l_iu) + Pad - 1) \div Pad)
FidName(l_fi, l_iu) == From(FidHead + l_iu, l_fi)

(* A dstring ends with its length, which may be too large.                 *)
DstringLength(field, length) ==
  IF field < 1 THEN 0 ELSE IF length > field - 1 THEN field - 1 ELSE length

-----------------------------------------------------------------------------
(* The partition maps of a logical volume descriptor: a table of Table     *)
(* bytes, filled from a block with MapsInBlock bytes behind the fixed part *)
(* and walked by udf_parse_partition_maps.                                 *)
Table == 2048
MapsAt == 440
MapsInBlock == 2048 - MapsAt
AtMost(n, limit) == IF n > limit THEN limit ELSE n
MapsCopied(label) == AtMost(AtMost(label, Table), MapsInBlock)
MapsEnd(label) == IF label > Table THEN label - (label - Table) ELSE label

(* What is read of the map at an offset: its type and length, then what    *)
(* maps of these have.                                                     *)
MapGoes(map, label) == map + 2 < MapsEnd(label)
MapHead(map) == From(map, 2)
MapAccepted(map, len, label) == len >= 2 /\ map + len <= MapsEnd(label)
MapBody(map, type, len) ==
  IF type = 1 /\ len = 6 THEN From(map + 4, 2)
  ELSE IF type = 2 /\ len = 64 THEN From(map + 4 + 1, 31) \cup From(map + 38, 10)
  ELSE {}
=============================================================================
