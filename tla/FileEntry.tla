------------------------------ MODULE FileEntry ------------------------------
(***************************************************************************)
(* The file entry of an open file: udf_read_file_entry of src/udf_fs.c     *)
(* with the decoders of src/ecma167.c, called by _file_open; and what the  *)
(* allocation descriptors it has gathered say of a block of the file       *)
(* (_file_lba and the zero filling of udfread_read_blocks).                *)
(*                                                                         *)
(* The descriptors of a large file continue in allocation extents: the     *)
(* last descriptor of a list points to the next part.  Reading any part    *)
(* may fail; the file is opened with what has been gathered until then.    *)
(***************************************************************************)
EXTENDS Integers, Sequences

CONSTANTS
  Media,     \* the recorded files that may be opened
  MaxParts,  \* bound: allocation extents of a file
  MaxBlocks  \* bound: the blocks of a file that are asked for

(* An allocation descriptor; its length in blocks.  A part of the list is  *)
(* an allocation extent ("aed") if it is what the pointer promises.        *)
Ad   == [type : {"normal", "unwritten", "pointer"}, blocks : Nat, lba : Nat]
Part == [tag : {"fe", "efe", "aed", "other"}, valid : BOOLEAN, inline : BOOLEAN, ads : Seq(Ad)]

(* A part goes on in another one if a pointer ends it; what is in front of *)
(* the pointer is data.                                                    *)
IsData(ad) == ad.type # "pointer"
Ends(p) == p.ads = <<>> \/ IsData(p.ads[Len(p.ads)])
Data(p) == IF Ends(p) THEN p.ads ELSE SubSeq(p.ads, 1, Len(p.ads) - 1)

(* A recorded file m is its size in blocks, its file entry, and the        *)
(* allocation extents by address.  The n-th part of its list, and the list *)
(* up to there, as the standard defines it: the parts one after the other, *)
(* without the pointers.                                                   *)
NoPart == [tag |-> "other", valid |-> FALSE, inline |-> FALSE, ads |-> <<>>]
Following(m, p) ==
  IF ~Ends(p) /\ p.ads[Len(p.ads)].lba \in DOMAIN m.part
    THEN m.part[p.ads[Len(p.ads)].lba] ELSE NoPart
Chain(m) ==
  LET c[n \in 0 .. MaxParts] ==
        IF n = 0 THEN [part |-> m.entry, list |-> Data(m.entry)]
        ELSE LET p == Following(m, c[n - 1].part)
             IN [part |-> p, list |-> c[n - 1].list \o Data(p)]
  IN c

(* Nothing follows a pointer in its part, and every chain has an end.      *)
Formed(p) == p \in Part /\ \A i \in DOMAIN p.ads : IsData(p.ads[i]) \/ i = Len(p.ads)
ASSUME MediaAssumption ==
  \A m \in Media :
    /\ m.blocks \in Nat
    /\ Formed(m.entry)
    /\ DOMAIN m.part \subseteq Nat
    /\ \A a \in DOMAIN m.part : Formed(m.part[a])
    /\ Ends(Chain(m)[MaxParts].part)
ASSUME BoundAssumption == MaxParts \in Nat /\ MaxBlocks \in Nat

VARIABLES
  medium,  \* the file as it is recorded
  pc,      \* "closed", "entry", "chain" (the loop), "open"
  fe,      \* the struct file_entry
  lost,    \* a part of the list could not be read (history)
  asked,   \* the block of the file that was asked for last
  got      \* what came: a block of the medium, zeros or an error

vars == <<medium, pc, fe, lost, asked, got>>

Nothing == [what |-> "nothing", lba |-> 0]
NoFe == [inline |-> FALSE, ads |-> <<>>]

Init ==
  /\ medium \in Media
  /\ pc = "closed"
  /\ fe = NoFe
  /\ lost = FALSE
  /\ asked = 0
  /\ got = Nothing

(* _file_open, for an entry that is not a directory.                       *)
_file_open ==
  /\ pc = "closed"
  /\ pc' = "entry"
  /\ UNCHANGED <<medium, fe, lost, asked, got>>

(* The file entry cannot be read, has another tag or cannot be decoded.    *)
EntryFails ==
  /\ pc = "entry"
  /\ pc' = "closed"
  /\ UNCHANGED <<medium, fe, lost, asked, got>>

(* Data inside the entry is not a list of descriptors, although it is kept *)
(* in the same place.  Mutant: it is taken for one.                        *)
AfterEntry_Chain == "chain"
AfterEntry == IF medium.entry.inline THEN "open" ELSE "chain"

ReadEntry ==
  /\ pc = "entry"
  /\ medium.entry.tag \in {"fe", "efe"} /\ medium.entry.valid
  /\ fe' = [inline |-> medium.entry.inline, ads |-> medium.entry.ads]
  /\ pc' = AfterEntry
  /\ UNCHANGED <<medium, lost, asked, got>>

(* The list goes on: the last descriptor, which is dropped.  Mutant: it is *)
(* kept in front of what it points to.                                     *)
Continued == Len(fe.ads) > 0 /\ fe.ads[Len(fe.ads)].type = "pointer"
Pointer == fe.ads[Len(fe.ads)]
Dropped_Not == fe.ads
Dropped == SubSeq(fe.ads, 1, Len(fe.ads) - 1)

(* decode_allocation_extent.  An extent without descriptors is no error.   *)
ReadPart ==
  /\ pc = "chain"
  /\ Continued
  /\ Pointer.lba \in DOMAIN medium.part
  /\ LET p == medium.part[Pointer.lba] IN
     /\ p.tag = "aed" /\ p.valid
     /\ fe' = [fe EXCEPT !.ads = Dropped \o p.ads]
  /\ UNCHANGED <<medium, pc, lost, asked, got>>

(* The input fails, the tag is another one, or memory is short.  Mutant:   *)
(* the part is asked for again.                                            *)
AfterLoss_Retry == [pc |-> "chain", ads |-> fe.ads]
AfterLoss == [pc |-> "open", ads |-> Dropped]

PartFails ==
  /\ pc = "chain"
  /\ Continued
  /\ fe' = [fe EXCEPT !.ads = AfterLoss.ads]
  /\ pc' = AfterLoss.pc
  /\ lost' = TRUE
  /\ UNCHANGED <<medium, asked, got>>

ChainEnd ==
  /\ pc = "chain"
  /\ ~Continued
  /\ pc' = "open"
  /\ UNCHANGED <<medium, fe, lost, asked, got>>

(* The number of blocks before each descriptor of a list.                  *)
Sums(w) == LET s[i \in 0 .. Len(w)] == IF i = 0 THEN 0 ELSE s[i - 1] + w[i] IN s
Start(ads) ==
  LET s == Sums([i \in DOMAIN ads |-> ads[i].blocks])
  IN [i \in DOMAIN ads |-> s[i - 1]]
Hit(ads, fb) ==
  {i \in DOMAIN ads : Start(ads)[i] <= fb /\ fb < Start(ads)[i] + ads[i].blocks}

(* Where _file_lba finds a block; 0 for nowhere.                           *)
FileLba(ads, fb) ==
  IF \E i \in Hit(ads, fb) : ads[i].type = "normal" /\ ads[i].lba # 0
    THEN LET i == CHOOSE i \in Hit(ads, fb) : TRUE
         IN ads[i].lba + (fb - Start(ads)[i])
    ELSE 0

(* udfread_read_blocks, inline and otherwise, for one block that the input *)
(* can deliver.                                                            *)
Delivered(fb) ==
  LET l == FileLba(fe.ads, fb)
  IN [what |-> IF l # 0 THEN "data" ELSE IF fb < medium.blocks THEN "zeros" ELSE "error",
      lba |-> l]

ReadBlock(fb) ==
  /\ pc = "open"
  /\ asked' = fb
  /\ got' = IF fe.inline THEN [what |-> "error", lba |-> 0] ELSE Delivered(fb)
  /\ UNCHANGED <<medium, pc, fe, lost>>

udfread_file_close ==
  /\ pc = "open"
  /\ pc' = "closed"
  /\ fe' = NoFe
  /\ lost' = FALSE
  /\ asked' = 0
  /\ got' = Nothing
  /\ UNCHANGED medium

Work == EntryFails \/ ReadEntry \/ ReadPart \/ PartFails \/ ChainEnd
Call == _file_open \/ (\E fb \in 0 .. MaxBlocks : ReadBlock(fb)) \/ udfread_file_close
Next == Call \/ Work
Spec == Init /\ [][Next]_vars

(* The thread that opens runs on.                                          *)
FairSpec == Spec /\ WF_vars(Work)

-----------------------------------------------------------------------------
(* The whole list of the file.                                             *)
Whole == Chain(medium)[MaxParts].list

(* The data of a file inside its entry stays as it is.                     *)
TypeOK ==
  /\ medium \in Media
  /\ pc \in {"closed", "entry", "chain", "open"}
  /\ fe \in [inline : BOOLEAN, ads : Seq(Ad)]
  /\ fe.inline => fe.ads = medium.entry.ads
  /\ lost \in BOOLEAN
  /\ asked \in Nat
  /\ got \in [what : {"nothing", "data", "zeros", "error"}, lba : Nat]

(* A file that is open without a loss has the whole list, and every block  *)
(* is read from where it is recorded.                                      *)
ListIsWhole == pc = "open" /\ ~lost /\ ~fe.inline => fe.ads = Whole

(* What a loss leaves is the beginning of the list: a block is read from   *)
(* where it is recorded or not at all, never from another place.           *)
NoWrongBlock ==
  got.what = "data" => got.lba = FileLba(Whole, asked)

(* Gathering the list ends.                                                *)
OpenReturns == pc = "entry" ~> pc \in {"open", "closed"}

(* udf_fs.c:351: "failure before this point will cause an error when       *)
(* reading the file past extent point."  A recorded block is delivered or  *)
(* an error is; it is never taken for a hole.                              *)
LossIsAnError ==
  got.what = "zeros" => FileLba(Whole, asked) = 0
=============================================================================
