-------------------------------- MODULE Cs0 --------------------------------
(***************************************************************************)
(* udf_cs0_to_mutf8 of src/udf_fs.c: file names and volume identifiers are *)
(* recorded as CS0, a compression id and one or two bytes for each unit,   *)
(* and handed out as modified UTF-8.                                       *)
(*                                                                         *)
(* The output starts as large as the input and grows with every unit that  *)
(* takes more than one byte; nothing checks an index, so that the sum of   *)
(* the growth has to be right.                                             *)
(***************************************************************************)
EXTENDS Integers, Sequences

CONSTANT Names  \* the recorded strings: a compression id and bytes

Byte == {x \in Nat : x < 256}
ASSUME NamesAssumption == Names \subseteq Seq(Byte)

VARIABLES
  cs0,   \* the string that is converted
  next,  \* i: the byte of cs0 that comes next, counted from 0
  out,   \* what has been written: the bytes of each unit
  used,  \* out_pos
  size,  \* out_size
  conv   \* "idle", "loop", "done" (converted) or "null" (NULL)

cvars == <<cs0, next, out, used, size, conv>>

Idle ==
  /\ cs0 = <<>> /\ next = 0
  /\ out = <<>> /\ used = 0 /\ size = 0
  /\ conv = "idle"

(* The bytes that a unit takes in the input, and what is still to come.    *)
Width == IF cs0[1] = 8 THEN 1 ELSE 2
MoreUnits == next + Width <= Len(cs0)

(* The k-th unit of a string.                                              *)
UnitOf(s, k) == IF s[1] = 8 THEN s[k + 1] ELSE 256 * s[2 * k] + s[2 * k + 1]
Unit == IF cs0[1] = 8 THEN cs0[next + 1] ELSE 256 * cs0[next + 1] + cs0[next + 2]

(* utf16_to_mutf8, which is utf16lo_to_mutf8 for every byte.  Mutants: a   *)
(* null byte stays one; 8 bits of the unit are kept where 6 are.           *)
One(ch) == <<ch>>
Two(ch) == <<192 + (ch \div 64), 128 + (ch % 64)>>
Three(ch) == <<224 + (ch \div 4096), 128 + ((ch \div 64) % 64), 128 + (ch % 64)>>
Encoded_Nul(ch) ==
  IF ch < 128 THEN One(ch) ELSE IF ch < 2047 THEN Two(ch) ELSE Three(ch)
Encoded(ch) ==
  IF ch # 0 /\ ch < 128 THEN One(ch) ELSE IF ch < 2047 THEN Two(ch) ELSE Three(ch)

(* What out_size grows by for a unit.  Mutant: nothing.                    *)
Grown_Not(bytes) == 0
Grown(bytes) == Len(bytes) - 1

(* The call.  A string without a byte is empty whatever its encoding.      *)
Begin(s) ==
  /\ cs0' = s
  /\ out' = <<>> /\ used' = 0
  /\ IF s = <<>> THEN next' = 0 /\ size' = 1 /\ conv' = "done"
                 ELSE next' = 1 /\ size' = Len(s) /\ s[1] \in {8, 16} /\ conv' = "loop"

(* malloc (or calloc) fails, or the compression id is another one.         *)
Refuse(s) ==
  /\ cs0' = s
  /\ next' = 0
  /\ out' = <<>> /\ used' = 0 /\ size' = 0
  /\ conv' = "null"

Put ==
  /\ conv = "loop" /\ MoreUnits
  /\ LET bytes == Encoded(Unit) IN
     /\ out' = Append(out, bytes)
     /\ used' = used + Len(bytes)
     /\ size' = size + Grown(bytes)
  /\ next' = next + Width
  /\ UNCHANGED <<cs0, conv>>

(* _safe_realloc has freed the output.                                     *)
GrowFails ==
  /\ conv = "loop" /\ MoreUnits
  /\ Len(Encoded(Unit)) > 1
  /\ out' = <<>> /\ used' = 0 /\ size' = 0
  /\ conv' = "null"
  /\ UNCHANGED <<cs0, next>>

(* out[out_pos] = 0.                                                       *)
Terminate ==
  /\ conv = "loop" /\ ~MoreUnits
  /\ conv' = "done"
  /\ UNCHANGED <<cs0, next, out, used, size>>

(* The caller has the string.                                              *)
HandOver ==
  /\ cs0' = <<>> /\ next' = 0
  /\ out' = <<>> /\ used' = 0 /\ size' = 0
  /\ conv' = "idle"

Convert == Put \/ GrowFails \/ Terminate
udf_cs0_to_mutf8 == conv = "idle" /\ \E s \in Names : Begin(s) \/ Refuse(s)
CNext == udf_cs0_to_mutf8 \/ Convert \/ (conv \in {"done", "null"} /\ HandOver)
CSpec == Idle /\ [][CNext]_cvars

-----------------------------------------------------------------------------
(* The units of a string; a second byte that is missing is left out.       *)
UnitCount(s) ==
  IF s = <<>> \/ s[1] \notin {8, 16} THEN 0
  ELSE IF s[1] = 8 THEN Len(s) - 1 ELSE (Len(s) - 1) \div 2
Units(s) == [k \in 1 .. UnitCount(s) |-> UnitOf(s, k)]

(* A reader of modified UTF-8: what a lead byte announces and the unit.    *)
Announced(lead) == IF lead < 128 THEN 1 ELSE IF lead < 224 THEN 2 ELSE 3
Tail6(byte) == byte - 128
Decoded(b) ==
  IF Len(b) = 1 THEN b[1]
  ELSE IF Len(b) = 2 THEN (b[1] - 192) * 64 + Tail6(b[2])
  ELSE (b[1] - 224) * 4096 + Tail6(b[2]) * 64 + Tail6(b[3])
WellFormed(b) ==
  /\ Len(b) \in 1 .. 3
  /\ (0 < b[1] /\ b[1] < 128) \/ (192 <= b[1] /\ b[1] < 240)
  /\ Announced(b[1]) = Len(b)
  /\ \A j \in 2 .. Len(b) : 128 <= b[j] /\ b[j] < 192

(* The bytes that modified UTF-8 has for a unit of 16 bits, the encoding   *)
(* that udfread.h names: two for zero and up to 0x7ff, three from there.   *)
FormLength(ch) == IF ch \in 1 .. 127 THEN 1 ELSE IF ch < 2048 THEN 2 ELSE 3

CTypeOK ==
  /\ cs0 \in Seq(Byte)
  /\ next \in Nat /\ used \in Nat /\ size \in Nat
  /\ out \in Seq(Seq(Nat))
  /\ conv \in {"idle", "loop", "done", "null"}

(* There is always room for the terminating zero, and so for the bytes of  *)
(* each unit after the growth: no write of udf_cs0_to_mutf8 is outside the *)
(* buffer, however the lengths of the units mix.                           *)
NameFits == conv \in {"loop", "done"} => used < size

(* A reader of the output finds the units of the name, in order and none   *)
(* missing: no zero byte ends it early, no byte of one unit is taken for   *)
(* another's.                                                              *)
NameDecodes ==
  /\ conv \in {"loop", "done"} => \A k \in DOMAIN out : WellFormed(out[k])
  /\ conv = "loop" => \A k \in DOMAIN out : Decoded(out[k]) = UnitOf(cs0, k)
  /\ conv = "done" => [k \in DOMAIN out |-> Decoded(out[k])] = Units(cs0)
=============================================================================
