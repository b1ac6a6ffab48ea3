--------------------------- MODULE VolumeOpenProofs ---------------------------
(***************************************************************************)
(* Opening a volume, for any discs, any number of attempts and any blocks  *)
(* that cannot be read.                                                    *)
(*                                                                         *)
(* Who closes the input: the count of inputs says nothing in the middle of *)
(* an open.  Inv says it for each stage: until MapsEnd the handle has no   *)
(* input, after it the handle has one, and all the time what udfread_open  *)
(* has made is counted on top of what the handle had before.               *)
(*                                                                         *)
(* Types: Typed adds to the type invariant what later stages know (an      *)
(* anchor was found, the logical volume descriptor is a valid one).        *)
(*                                                                         *)
(* The search: Searched relates what has been collected to the descriptors *)
(* that the search has passed, place by place; at the end of a sequence    *)
(* these are all there are.                                                *)
(*                                                                         *)
(* Partitions and root directory: Opening says which maps have been seen   *)
(* and what became of them, and so where a partition may be read; and      *)
(* which names of the root directory have been taken.  Where memory was    *)
(* short it says less, and o.short remembers where.                        *)
(***************************************************************************)
EXTENDS VolumeOpen, TLAPS, WellFoundedInduction

-----------------------------------------------------------------------------
(* Induction on the naturals, as the existence of a least element.         *)
LEMMA NatLess == IsWellFoundedOn({p \in Nat \X Nat : p[1] < p[2]}, Nat)
  BY NatLessThanWellFounded, Zenon DEF OpToRel

LEMMA Least ==
  ASSUME NEW S \in SUBSET Nat, S # {}
  PROVE  \E n \in S : \A m \in S : n <= m
<1>1. PICK x \in S : \A y \in S : <<y, x>> \notin {p \in Nat \X Nat : p[1] < p[2]}
  BY NatLess, WFMin
<1>2. ASSUME NEW y \in S PROVE x <= y
  <2>1. y < x => <<y, x>> \in {p \in Nat \X Nat : p[1] < p[2]}
    OBVIOUS
  <2> QED
    BY <1>1, <2>1
<1> QED
  BY <1>2

(* Whatever holds of 0 and goes on from one number to the next holds of    *)
(* all up to N.                                                            *)
LEMMA UpTo ==
  ASSUME NEW N \in Nat, NEW S, 0 \in S, \A n \in 0 .. N - 1 : n \in S => n + 1 \in S
  PROVE  \A n \in 0 .. N : n \in S
<1> DEFINE T == {n \in 0 .. N : n \notin S}
<1>1. SUFFICES ASSUME T # {} PROVE FALSE
  OBVIOUS
<1>2. T \in SUBSET Nat
  OBVIOUS
<1>3. PICK n \in T : \A k \in T : n <= k
  BY <1>1, <1>2, Least
<1>4. n \in Nat /\ n # 0 /\ n <= N
  OBVIOUS
<1>5. n - 1 \in 0 .. N - 1 /\ n - 1 \in 0 .. N /\ (n - 1) + 1 = n /\ ~(n <= n - 1)
  BY <1>4
<1>6. n - 1 \in S
  BY <1>3, <1>5
<1> QED
  BY <1>5, <1>6

-----------------------------------------------------------------------------
(* Who closes the input.  The stages without one and with one.             *)
Without == {"probe", "anchor", "search", "validate", "maps"} \cup (Failures \ {"already_open"})
With    == {"fsd", "root", "names", "opened"}

(* What the open in progress keeps from its call.                          *)
OpenKnown == {"path", "disc"} \subseteq DOMAIN o
DiscGiven == pc # "idle" => o.disc \in Discs

(* A handle that does not exist has no input; no call runs on it.          *)
HandleGone == ~handle => input = NoDisc /\ pc = "idle"

StagesKnown == pc \in {"idle", "already_open"} \cup Without \cup With

HeldBetween == pc = "idle" => held = IF input = NoDisc THEN 0 ELSE 1
HeldAlready == pc = "already_open" => input # NoDisc /\ held = 1 + Discarded
HeldWithout == pc \in Without => input = NoDisc /\ held = Discarded
HeldWith    == pc \in With => input # NoDisc /\ held = Discarded

Inv == /\ OpenKnown /\ DiscGiven /\ HandleGone /\ StagesKnown
       /\ HeldBetween /\ HeldAlready /\ HeldWithout /\ HeldWith

(* A block of the volume descriptor sequence changes the descriptors and   *)
(* the mask of an open, not its disc nor who made the input.               *)
LEMMA TakeKeeps ==
  ASSUME OpenKnown, NEW b
  PROVE  /\ {"path", "disc"} \subseteq DOMAIN Take(b)
         /\ Take(b).path = o.path /\ Take(b).disc = o.disc
<1>1. ASSUME NEW v, NEW m
      PROVE  /\ LET s == [o EXCEPT !.vds.pvd = v, !.mask = m]
                IN {"path", "disc"} \subseteq DOMAIN s /\ s.path = o.path /\ s.disc = o.disc
             /\ LET s == [o EXCEPT !.vds.lvd = v, !.mask = m]
                IN {"path", "disc"} \subseteq DOMAIN s /\ s.path = o.path /\ s.disc = o.disc
             /\ LET s == [o EXCEPT !.vds.pd = v, !.mask = m]
                IN {"path", "disc"} \subseteq DOMAIN s /\ s.path = o.path /\ s.disc = o.disc
  BY SMT DEF OpenKnown
<1>2. \/ \E m : Take(b) = [o EXCEPT !.vds.pvd = b, !.mask = m]
      \/ \E m : Take(b) = [o EXCEPT !.vds.lvd = b, !.mask = m]
      \/ \E m : Take(b) = [o EXCEPT !.vds.pd = b, !.mask = m]
      \/ Take(b) = o
  BY Zenon DEF Take
<1>3. CASE Take(b) = o
  BY <1>3 DEF OpenKnown
<1> QED BY <1>1, <1>2, <1>3

(* A step of an open from one stage without an input to another one.       *)
LEMMA StillWithout ==
  ASSUME Inv, pc \in Without, pc' \in Without,
         UNCHANGED <<handle, input, held>>,
         {"path", "disc"} \subseteq DOMAIN o', o'.path = o.path, o'.disc = o.disc
  PROVE  Inv'
<1>1. pc # "idle" /\ pc' # "idle" /\ pc' # "already_open" /\ pc' \notin With
  BY DEF Without, With, Failures
<1>2. OpenKnown' /\ DiscGiven' /\ StagesKnown' /\ HandleGone'
  BY <1>1 DEF Inv, OpenKnown, DiscGiven, StagesKnown, HandleGone
<1>3. HeldWithout'
  BY DEF Inv, HeldWithout, Discarded
<1> QED BY <1>1, <1>2, <1>3 DEF Inv, HeldBetween, HeldAlready, HeldWith

(* Where the search goes when a sequence has been read.                    *)
LEMMA ReturnsWithout ==
  ASSUME NEW s, SearchReturns(s), {"path", "disc"} \subseteq DOMAIN s
  PROVE  /\ pc' \in Without
         /\ {"path", "disc"} \subseteq DOMAIN o' /\ o'.path = s.path /\ o'.disc = s.disc
<1>1. CASE s.area = "main" /\ ~(All \subseteq s.mask)
  BY <1>1 DEF SearchReturns, Without
<1>2. CASE ~(s.area = "main" /\ ~(All \subseteq s.mask))
  BY <1>2 DEF SearchReturns, Without, Failures
<1> QED BY <1>1, <1>2

LEMMA InitInv == Init => Inv
BY DEF Init, Inv, OpenKnown, DiscGiven, HandleGone, StagesKnown, HeldBetween, HeldAlready,
       HeldWithout, HeldWith, Without, With, NoOpen, Failures

(* Each call keeps the invariant.                                          *)
LEMMA CallInv ==
  ASSUME Inv, Call
  PROVE  Inv'
<1> USE DEF Without, With, Failures
<1>1. CASE udfread_init
  BY <1>1 DEF udfread_init, Inv, OpenKnown, DiscGiven, HandleGone, StagesKnown, HeldBetween,
     HeldAlready, HeldWithout, HeldWith, Discarded
<1>2. CASE \E q \in Requests : udfread_select_partition(q)
  BY <1>2 DEF udfread_select_partition, Inv, OpenKnown, DiscGiven, HandleGone, StagesKnown,
     HeldBetween, HeldAlready, HeldWithout, HeldWith, Discarded
<1>3. ASSUME NEW path \in BOOLEAN, NEW d \in Discs, NEW bad, Open(path, d, bad)
      PROVE  Inv'
  <2>1. /\ o' = [NoOpen EXCEPT !.disc = d, !.bad = bad, !.path = path, !.lba = RecFirst]
        /\ pc = "idle" /\ handle
        /\ UNCHANGED <<handle, input>>
    BY <1>3 DEF Open
  <2>2. {"path", "disc"} \subseteq DOMAIN o' /\ o'.path = path /\ o'.disc = d
    BY <2>1 DEF NoOpen
  <2>3. held' = (IF input = NoDisc THEN 0 ELSE 1) + Discarded'
    BY <1>3, <2>2 DEF Open, Inv, HeldBetween, Discarded
  <2>4. pc' = IF input # NoDisc THEN "already_open" ELSE "probe"
    BY <1>3 DEF Open, Start
  <2>5. Discarded' \in {0, 1}
    BY DEF Discarded
  <2>6. OpenKnown' /\ DiscGiven' /\ HandleGone' /\ StagesKnown'
    BY <2>1, <2>2, <2>4 DEF OpenKnown, DiscGiven, HandleGone, StagesKnown
  <2>7. HeldBetween' /\ HeldAlready' /\ HeldWithout' /\ HeldWith'
    BY <2>1, <2>3, <2>4, <2>5 DEF HeldBetween, HeldAlready, HeldWithout, HeldWith
  <2> QED BY <2>6, <2>7 DEF Inv
<1>4. CASE udfread_close
  BY <1>4 DEF udfread_close, Inv, OpenKnown, DiscGiven, HandleGone, StagesKnown, HeldBetween,
     HeldAlready, HeldWithout, HeldWith, Discarded
<1> QED BY <1>1, <1>2, <1>3, <1>4 DEF Call, udfread_open, udfread_open_input

(* A map takes the open one map further.                                   *)
LEMMA MapStepIs ==
  ASSUME MapType1 \/ MapType2 \/ MapOther
  PROVE  \/ o' = [o EXCEPT !.map = o.map + 1]
         \/ o' = [o EXCEPT !.map = o.map + 1, !.type1 = TRUE]
         \/ \E t \in {o.short, o.short \cup {"map"}} :
              o' = [o EXCEPT !.map = o.map + 1, !.short = t]
<1>1. CASE MapType1
  BY <1>1 DEF MapType1
<1>2. CASE MapType2
  <2>1. PICK lost : o' = [o EXCEPT !.map = @ + 1,
                                   !.short = IF lost = {} THEN @ ELSE @ \cup {"map"}]
    BY <1>2, Zenon DEF MapType2
  <2> DEFINE t == IF lost = {} THEN o.short ELSE o.short \cup {"map"}
  <2>2. o' = [o EXCEPT !.map = o.map + 1, !.short = t]
    BY <2>1
  <2>3. t \in {o.short, o.short \cup {"map"}}
    OBVIOUS
  <2> HIDE DEF t
  <2> QED
    BY <2>2, <2>3
<1>3. CASE MapOther
  BY <1>3 DEF MapOther
<1> QED
  BY <1>1, <1>2, <1>3

(* Each step of an open, up to the partition maps, keeps the invariant.    *)
LEMMA SearchInv ==
  ASSUME Inv, \/ udf_probe_volume \/ _read_avdp \/ SearchEnd \/ SearchPointer \/ SearchBlock
              \/ udf_validate_logical_volume \/ MapType1 \/ MapType2 \/ MapOther
  PROVE  Inv'
<1>0. OpenKnown
  BY DEF Inv
<1> USE DEF Kept
<1>1. CASE udf_probe_volume
  <2>1. pc \in Without /\ pc' \in Without /\ UNCHANGED <<handle, input, held>>
    BY <1>1 DEF udf_probe_volume, Without, Failures
  <2>2. {"path", "disc"} \subseteq DOMAIN o' /\ o'.path = o.path /\ o'.disc = o.disc
    BY <1>0, <1>1 DEF udf_probe_volume, OpenKnown
  <2> QED BY <2>1, <2>2, StillWithout
<1>2. CASE _read_avdp
  <2>1. pc \in Without /\ pc' \in Without /\ UNCHANGED <<handle, input, held>>
    BY <1>2 DEF _read_avdp, Without, Failures
  <2>2. o' = o \/ \E a : o' = FoundAnchor(a)
    BY <1>2 DEF _read_avdp
  <2>3. {"path", "disc"} \subseteq DOMAIN o' /\ o'.path = o.path /\ o'.disc = o.disc
    BY <1>0, <2>2 DEF FoundAnchor, OpenKnown
  <2> QED BY <2>1, <2>3, StillWithout
<1>3. CASE SearchEnd
  <2>1. pc \in Without /\ UNCHANGED <<handle, input, held>>
    BY <1>3 DEF SearchEnd, Without
  <2>2. /\ pc' \in Without
        /\ {"path", "disc"} \subseteq DOMAIN o' /\ o'.path = o.path /\ o'.disc = o.disc
    BY <1>0, <1>3, ReturnsWithout DEF SearchEnd, OpenKnown
  <2> QED BY <2>1, <2>2, StillWithout
<1>4. CASE SearchPointer
  <2>1. pc \in Without /\ pc' \in Without /\ UNCHANGED <<handle, input, held>>
    BY <1>4 DEF SearchPointer, Without
  <2>2. {"path", "disc"} \subseteq DOMAIN o' /\ o'.path = o.path /\ o'.disc = o.disc
    BY <1>0, <1>4 DEF SearchPointer, OpenKnown
  <2> QED BY <2>1, <2>2, StillWithout
<1>5. CASE SearchBlock
  <2>1. pc \in Without /\ UNCHANGED <<handle, input, held>>
    BY <1>5 DEF SearchBlock, Without
  <2> DEFINE s == Take(Read(o.lba))
  <2>2. {"path", "disc"} \subseteq DOMAIN s /\ s.path = o.path /\ s.disc = o.disc
    BY <1>0, TakeKeeps
  <2>3. SearchReturns(s) \/ (o' = [s EXCEPT !.lba = @ + 1] /\ pc' = pc)
    BY <1>5 DEF SearchBlock
  <2> HIDE DEF s
  <2>4. /\ pc' \in Without
        /\ {"path", "disc"} \subseteq DOMAIN o' /\ o'.path = s.path /\ o'.disc = s.disc
    BY <2>1, <2>2, <2>3, ReturnsWithout
  <2> QED BY <2>1, <2>2, <2>4, StillWithout
<1>6. CASE udf_validate_logical_volume
  <2>1. pc \in Without /\ pc' \in Without /\ UNCHANGED <<handle, input, held>>
    BY <1>6 DEF udf_validate_logical_volume, Without, Failures
  <2>2. {"path", "disc"} \subseteq DOMAIN o' /\ o'.path = o.path /\ o'.disc = o.disc
    BY <1>0, <1>6 DEF udf_validate_logical_volume, OpenKnown
  <2> QED BY <2>1, <2>2, StillWithout
<1>7. CASE MapType1 \/ MapType2 \/ MapOther
  <2>1. pc \in Without /\ pc' \in Without /\ UNCHANGED <<handle, input, held>>
    BY <1>7 DEF MapType1, MapType2, MapOther, Without
  <2>3. {"path", "disc"} \subseteq DOMAIN o' /\ o'.path = o.path /\ o'.disc = o.disc
    BY <1>0, <1>7, MapStepIs DEF OpenKnown
  <2> QED BY <2>1, <2>3, StillWithout
<1> QED BY <1>1, <1>2, <1>3, <1>4, <1>5, <1>6, <1>7

(* Reading the root directory: what it changes of the handle and the open. *)
RootStep == ReadRoot \/ ReadName \/ ArrayLost \/ RootDone

LEMMA RootStepIs ==
  ASSUME RootStep
  PROVE  /\ pc \in {"root", "names"}
         /\ \/ pc' = "names" /\ input' = input
            \/ pc' = "opened" /\ input' = input
            \/ pc' = "no_root" /\ input' = NoDisc
         /\ pc = "root" => root' = root
         /\ UNCHANGED <<handle, request, part, volid, attempt, held>>
         /\ \/ o' = o
            \/ o' = [o EXCEPT !.next = 0]
            \/ o' = [o EXCEPT !.next = o.next + 1]
            \/ o' = [o EXCEPT !.short = o.short \cup {"root"}]
            \/ o' = [o EXCEPT !.short = o.short \cup {}]
            \/ o' = [o EXCEPT !.next = o.next + 1, !.short = o.short \cup {"root"}]
<1>1. CASE ReadRoot
  BY <1>1 DEF ReadRoot, RootFails
<1>2. CASE ReadName
  <2> DEFINE name == RootData[o.next + 1]
  <2>1. \/ name = "junk" /\ RootFails({}) /\ root' = root
        \/ o' = [o EXCEPT !.next = @ + 1] /\ UNCHANGED <<pc, input>>
        \/ /\ o' = [o EXCEPT !.next = @ + 1, !.short = @ \cup {"root"}]
           /\ UNCHANGED <<pc, input>>
    BY <1>2, Zenon DEF ReadName, Damage
  <2>2. pc = "names" /\ UNCHANGED <<handle, request, part, volid, attempt, held>>
    BY <1>2 DEF ReadName
  <2> QED
    BY <2>1, <2>2 DEF RootFails
<1>3. CASE ArrayLost
  BY <1>3 DEF ArrayLost, RootFails
<1>4. CASE RootDone
  BY <1>4 DEF RootDone, Kept
<1> QED
  BY <1>1, <1>2, <1>3, <1>4 DEF RootStep

(* Where the input goes into the handle, and where it is taken out again.  *)
LEMMA InstallInv ==
  ASSUME Inv, MapsEnd \/ FindFsd \/ RootStep \/ OpenFailed \/ OpenDone
  PROVE  Inv'
<1> USE DEF Without, With, Failures
<1>1. CASE MapsEnd /\ o.type1
  <2>1. /\ pc = "maps" /\ pc' = "fsd" /\ input' = o.disc
        /\ o' = [o EXCEPT !.lba = o.vds.lvd.fsd.lba] /\ UNCHANGED <<handle, held>>
    BY <1>1 DEF MapsEnd, Kept
  <2>2. {"path", "disc"} \subseteq DOMAIN o' /\ o'.path = o.path /\ o'.disc = o.disc
    BY <2>1 DEF Inv, OpenKnown
  <2>3. o.disc \in Discs /\ o.disc # NoDisc /\ handle
    BY <2>1, BoundAssumption DEF Inv, DiscGiven, HandleGone
  <2> QED BY <2>1, <2>2, <2>3 DEF Inv, OpenKnown, DiscGiven, HandleGone, StagesKnown,
          HeldBetween, HeldAlready, HeldWithout, HeldWith, Discarded
<1>2. CASE MapsEnd /\ ~o.type1
  <2>1. pc = "maps" /\ pc' = "no_type1" /\ UNCHANGED <<handle, input, held, o>>
    BY <1>2 DEF MapsEnd, Kept
  <2> QED BY <2>1, StillWithout DEF Inv, OpenKnown
<1>3. CASE FindFsd
  <2>1. /\ pc = "fsd" /\ UNCHANGED <<handle, held>>
        /\ \/ pc' \in {"root", "fsd"} /\ input' = input
           \/ pc' = "no_fsd" /\ input' = NoDisc
    BY <1>3 DEF FindFsd, Kept
  <2>2. {"path", "disc"} \subseteq DOMAIN o' /\ o'.path = o.path /\ o'.disc = o.disc
    BY <1>3 DEF FindFsd, Inv, OpenKnown
  <2> QED BY <2>1, <2>2 DEF Inv, OpenKnown, DiscGiven, HandleGone, StagesKnown, HeldBetween,
          HeldAlready, HeldWithout, HeldWith, Discarded
<1>4. CASE RootStep
  <2>1. /\ pc \in {"root", "names"} /\ UNCHANGED <<handle, held>>
        /\ \/ pc' \in {"names", "opened"} /\ input' = input
           \/ pc' = "no_root" /\ input' = NoDisc
    BY <1>4, RootStepIs
  <2>2. {"path", "disc"} \subseteq DOMAIN o' /\ o'.path = o.path /\ o'.disc = o.disc
    BY <1>4, RootStepIs DEF Inv, OpenKnown
  <2> QED BY <2>1, <2>2 DEF Inv, OpenKnown, DiscGiven, HandleGone, StagesKnown, HeldBetween,
          HeldAlready, HeldWithout, HeldWith, Discarded
<1>5. CASE OpenFailed
  <2>1. /\ pc \in Failures /\ pc' = "idle" /\ o' = NoOpen /\ held' = held - Discarded
        /\ UNCHANGED <<handle, input>>
    BY <1>5 DEF OpenFailed
  <2>2. Discarded \in {0, 1} /\ held = (IF input = NoDisc THEN 0 ELSE 1) + Discarded
    BY <2>1 DEF Inv, HeldAlready, HeldWithout, Discarded
  <2>3. held' = IF input = NoDisc THEN 0 ELSE 1
    BY <2>1, <2>2
  <2> QED BY <2>1, <2>3 DEF Inv, OpenKnown, DiscGiven, HandleGone, StagesKnown, HeldBetween,
          HeldAlready, HeldWithout, HeldWith, NoOpen
<1>6. CASE OpenDone
  <2>1. /\ pc = "opened" /\ pc' = "idle" /\ o' = NoOpen /\ UNCHANGED <<handle, input>>
        /\ held' = IF o.path THEN held ELSE held + 1
    BY <1>6 DEF OpenDone
  <2>2. input # NoDisc /\ held' = 1
    BY <2>1 DEF Inv, HeldWith, Discarded
  <2> QED BY <2>1, <2>2 DEF Inv, OpenKnown, DiscGiven, HandleGone, StagesKnown, HeldBetween,
          HeldAlready, HeldWithout, HeldWith, NoOpen
<1> QED BY <1>1, <1>2, <1>3, <1>4, <1>5, <1>6

(* A step that changes nothing.                                            *)
LEMMA StutterInv ==
  ASSUME Inv, UNCHANGED vars
  PROVE  Inv'
BY DEF vars, Inv, OpenKnown, DiscGiven, HandleGone, StagesKnown, HeldBetween, HeldAlready,
       HeldWithout, HeldWith, Discarded

THEOREM Invariance == Spec => []Inv
<1>1. Inv /\ [Next]_vars => Inv'
  BY CallInv, SearchInv, InstallInv, StutterInv DEF Next, Work, RootStep
<1> QED BY <1>1, InitInv, PTL DEF Spec

(* What udfread_open made for an open that failed is closed, the input of  *)
(* an open volume is held once, and the caller's stays the caller's.       *)
THEOREM InputsAreHeld == Spec => []InputsHeld
<1>1. Inv => InputsHeld
  BY DEF Inv, HeldBetween, InputsHeld
<1> QED BY <1>1, Invariance, PTL

(* An open volume keeps its partitions, its identifier and the partition   *)
(* asked for until it is closed, whatever else is called on the handle.    *)
THEOREM OpenVolumeStays == Spec => StaysOpen
<1>1. Inv /\ [Next]_vars =>
        [ input # NoDisc /\ input' = input =>
            /\ UNCHANGED <<part, volid, request>>
            /\ root' # root => pc = "names" ]_vars
  <2> SUFFICES ASSUME Inv, Next, input # NoDisc, input' = input
               PROVE  UNCHANGED <<part, volid, request>> /\ (root' # root => pc = "names")
    OBVIOUS
  <2>1. pc \notin Without
    BY DEF Inv, HeldWithout
  <2>2. CASE Call
    <3>1. \/ udfread_init \/ udfread_close
          \/ \E q \in Requests : udfread_select_partition(q)
          \/ \E path, d, bad : Open(path, d, bad)
      BY <2>2 DEF Call, udfread_open, udfread_open_input
    <3> QED BY <3>1 DEF udfread_init, udfread_close, udfread_select_partition, Open
  <2>3. CASE Work
    <3>1. MapsEnd \/ FindFsd \/ RootStep \/ OpenFailed \/ OpenDone
      BY <2>1, <2>3 DEF Work, RootStep, Without, udf_probe_volume, _read_avdp, SearchEnd, SearchPointer,
         SearchBlock, udf_validate_logical_volume, MapType1, MapType2, MapOther
    <3> QED BY <3>1, RootStepIs DEF MapsEnd, FindFsd, OpenFailed, OpenDone, Kept
  <2> QED BY <2>2, <2>3 DEF Next
<1> QED BY <1>1, Invariance, PTL DEF Spec, StaysOpen

-----------------------------------------------------------------------------
(* Types.  What is read is a block of the disc or nothing; what a block    *)
(* with a given tag has is what its decoder says.                          *)
Any == Block \cup {Unreadable}
ViewTypes(v) == \A l : BlockAt(v, l) \in Any

LEMMA ViewTyped ==
  ASSUME NEW d \in Discs, NEW bad
  PROVE  ViewTypes(View(d, bad))
<1> SUFFICES ASSUME NEW l PROVE BlockAt(View(d, bad), l) \in Any
  BY DEF ViewTypes
<1> DEFINE c == Content[d].block
<1>1. c \in [DOMAIN c -> Block]
  BY DiscAssumption
<1> HIDE DEF c
<1>2. View(d, bad) = [k \in DOMAIN c \ bad |-> c[k]]
  BY DEF View, c
<1>3. CASE l \in DOMAIN c \ bad
  <2>1. BlockAt(View(d, bad), l) = c[l]
    BY <1>2, <1>3 DEF BlockAt
  <2> QED
    BY <1>1, <1>3, <2>1 DEF Any
<1>4. CASE l \notin DOMAIN c \ bad
  <2>1. BlockAt(View(d, bad), l) = Unreadable
    BY <1>2, <1>4 DEF BlockAt
  <2> QED
    BY <2>1 DEF Any
<1> QED
  BY <1>3, <1>4

LEMMA Tags ==
  ASSUME NEW b \in Any
  PROVE  /\ b.tag = "avdp" => b \in Avdp
         /\ b.tag = "vdp" => b.next \in Loc
         /\ b.tag = "pvd" => b \in PrimaryVd
         /\ b.tag = "pd" => b \in PartitionVd
         /\ b.tag = "lvd" => b \in LogicalVd
         /\ b.tag = "fsd" => b.icb \in Icb
         /\ b.tag = "efe" => b.ad \in Nat
         /\ b.tag = "fe" => b.at \in Nat /\ b.dir \in BOOLEAN
         /\ b.tag = "fid" => b.names \in Seq(Names \cup {"junk"})
         /\ b = Unreadable <=> b.tag = "unreadable"
<1>1. b \in Avdp => b.tag = "avdp"
  BY DEF Avdp
<1>2. b \in PrimaryVd => b.tag = "pvd"
  BY DEF PrimaryVd
<1>3. b \in PartitionVd => b.tag = "pd"
  BY DEF PartitionVd
<1>4. b \in LogicalVd => b.tag = "lvd"
  BY DEF LogicalVd
<1>5. b \in [tag : {"vdp"}, next : Loc] => b.tag = "vdp" /\ b.next \in Loc
  OBVIOUS
<1>6. b \in [tag : {"fsd"}, icb : Icb] => b.tag = "fsd" /\ b.icb \in Icb
  OBVIOUS
<1>7. b \in [tag : {"efe"}, type : {"metadata", "mirror", "other"}, ad : Nat] =>
        b.tag = "efe" /\ b.ad \in Nat
  OBVIOUS
<1>8. b \in [tag : {"fe"}, dir : BOOLEAN, at : Nat] =>
        b.tag = "fe" /\ b.at \in Nat /\ b.dir \in BOOLEAN
  OBVIOUS
<1>9. b \in [tag : {"fid"}, names : Seq(Names \cup {"junk"})] =>
        b.tag = "fid" /\ b.names \in Seq(Names \cup {"junk"})
  OBVIOUS
<1>10. b \in [tag : {"bea", "nsr", "tea", "nul", "td"}] =>
         b.tag \in {"bea", "nsr", "tea", "nul", "td"}
  OBVIOUS
<1>11. b = Unreadable => b.tag = "unreadable"
  BY DEF Unreadable
<1> QED
  BY <1>1, <1>2, <1>3, <1>4, <1>5, <1>6, <1>7, <1>8, <1>9, <1>10, <1>11 DEF Any, Block

(* The variables of an open, all of them.                                  *)
Vds ==
  [pd : PartitionVd \cup {Zeroed.pd}, pvd : PrimaryVd \cup {Zeroed.pvd}, lvd : LogicalVd]
OpenRec(bad) ==
  [disc : Discs \cup {NoDisc}, bad : {bad}, path : BOOLEAN, lba : Nat, bea : BOOLEAN,
   avdp : Avdp \cup {Unreadable}, area : {"main", "reserve"}, loc : Loc,
   vds : Vds, mask : SUBSET All, map : Nat, type1 : BOOLEAN, icb : Icb \cup {NoLoc},
   next : Nat, short : SUBSET {"map", "volid", "root"}]
OpenTyped == o \in OpenRec(o.bad)
Parts == [num : 0 .. 2, p : [{0, 1} -> [number : Nat, lba : Nat, mirror : Nat]]]
Working ==
  {"probe", "anchor", "search", "validate", "maps", "fsd", "root", "names", "opened"}

(* What holds from a stage on: an anchor was found, the loop over the      *)
(* partition maps is past its first one, there are partition maps.         *)
AnchorKnown == pc \in {"search", "validate", "maps", "fsd", "root"} => o.avdp \in Avdp
MapsCounted == pc = "maps" => o.map \in Nat \ {0}
Validated == {"maps", "fsd", "root", "names", "opened", "no_type1", "no_fsd", "no_root"}
MapsKnown == pc \in Validated => o.vds.lvd.valid

Typed ==
  /\ OpenTyped /\ AnchorKnown /\ MapsCounted /\ MapsKnown
  /\ handle \in BOOLEAN
  /\ request \in Requests \cup {First} /\ request >= Last
  /\ input \in Discs \cup {NoDisc}
  /\ part \in Parts
  /\ volid \in Names \cup {"none"} /\ root \in Seq(Names \cup {"gone"})
  /\ pc \in {"idle"} \cup Working \cup Failures
  /\ attempt \in 0 .. MaxAttempts

LEMMA ZeroedTyped ==
  /\ Zeroed \in Vds
  /\ NoLoc \in Loc
  /\ NoOpen \in OpenRec({})
  /\ NoPart \in Parts
<1>1. Zeroed \in Vds
  <2>1. Zeroed.lvd \in LogicalVd
    BY DEF Zeroed, LogicalVd
  <2>2. Zeroed = [pd |-> Zeroed.pd, pvd |-> Zeroed.pvd, lvd |-> Zeroed.lvd]
    BY DEF Zeroed
  <2> QED
    BY <2>1, <2>2 DEF Vds
<1>2. NoLoc \in Loc
  BY DEF NoLoc, Loc
<1>3. NoOpen \in OpenRec({})
  BY <1>1, <1>2 DEF NoOpen, OpenRec, All
<1>4. NoPart \in Parts
  BY DEF NoPart, Parts
<1> QED
  BY <1>1, <1>2, <1>3, <1>4

(* An open that changes in one field is an open.                           *)
LEMMA Fields ==
  ASSUME NEW bad, NEW r \in OpenRec(bad)
  PROVE  /\ \A x \in Nat : [r EXCEPT !.lba = x] \in OpenRec(bad)
         /\ \A x \in BOOLEAN : [r EXCEPT !.bea = x] \in OpenRec(bad)
         /\ \A x \in Loc, y \in Nat : [r EXCEPT !.loc = x, !.lba = y] \in OpenRec(bad)
         /\ \A x \in Loc, y \in Nat :
              [r EXCEPT !.area = "reserve", !.loc = x, !.lba = y] \in OpenRec(bad)
         /\ \A x \in Nat, y \in BOOLEAN, t \in SUBSET {"map", "volid", "root"} :
              [r EXCEPT !.map = x, !.type1 = y, !.short = t] \in OpenRec(bad)
         /\ \A x \in Nat : [r EXCEPT !.map = x] \in OpenRec(bad)
         /\ \A x \in Icb : [r EXCEPT !.icb = x] \in OpenRec(bad)
<1>1. /\ \A x \in Nat : [r EXCEPT !.lba = x] \in OpenRec(bad)
      /\ \A x \in BOOLEAN : [r EXCEPT !.bea = x] \in OpenRec(bad)
  BY DEF OpenRec
<1>2. /\ \A x \in Loc, y \in Nat : [r EXCEPT !.loc = x, !.lba = y] \in OpenRec(bad)
      /\ \A x \in Loc, y \in Nat :
              [r EXCEPT !.area = "reserve", !.loc = x, !.lba = y] \in OpenRec(bad)
  BY DEF OpenRec
<1>3. /\ \A x \in Nat, y \in BOOLEAN, t \in SUBSET {"map", "volid", "root"} :
              [r EXCEPT !.map = x, !.type1 = y, !.short = t] \in OpenRec(bad)
      /\ \A x \in Nat : [r EXCEPT !.map = x] \in OpenRec(bad)
      /\ \A x \in Icb : [r EXCEPT !.icb = x] \in OpenRec(bad)
  BY DEF OpenRec
<1> QED
  BY <1>1, <1>2, <1>3

(* What the open in progress reads is typed.                               *)
LEMMA ReadTyped ==
  ASSUME Inv, pc # "idle"
  PROVE  /\ ViewTypes(View(o.disc, o.bad))
         /\ \A l : Read(l) \in Any
<1>1. o.disc \in Discs
  BY DEF Inv, DiscGiven
<1>2. ViewTypes(View(o.disc, o.bad))
  BY <1>1, ViewTyped
<1> QED
  BY <1>2 DEF ViewTypes, Read

LEMMA BlocksTyped ==
  ASSUME Inv, pc # "idle"
  PROVE  \A n, l : MetadataBlock(n, l) \in Any
<1>1. Unreadable \in Any
  BY DEF Any
<1>2. \A l : Read(l) \in Any
  BY ReadTyped
<1> QED
  BY <1>1, <1>2, Zenon DEF MetadataBlock

LEMMA RootDataTyped ==
  ASSUME Inv, pc # "idle"
  PROVE  RootData \in Seq(Names \cup {"junk"})
<1>1. \A n, l : MetadataBlock(n, l) \in Any
  BY BlocksTyped
<1>2. <<"junk">> \in Seq(Names \cup {"junk"})
  OBVIOUS
<1>3. RootList \in Any
  BY <1>1, Zenon DEF RootList, Any
<1>4. RootList.tag = "fid" => RootList.names \in Seq(Names \cup {"junk"})
  BY <1>3, Tags
<1> QED
  BY <1>2, <1>4 DEF RootData

LEMMA InitTyped == Init => Typed
BY ZeroedTyped, BoundAssumption
   DEF Init, Typed, OpenTyped, NoOpen, AnchorKnown, MapsCounted, MapsKnown, Validated, First, Last

LEMMA CallTyped ==
  ASSUME Typed, Inv, Call
  PROVE  Typed'
<1> USE DEF Working, Failures, Validated
<1>1. CASE udfread_init
  BY <1>1 DEF udfread_init, Typed, OpenTyped, AnchorKnown, MapsCounted, MapsKnown
<1>2. ASSUME NEW q \in Requests, udfread_select_partition(q) PROVE Typed'
  BY <1>2 DEF udfread_select_partition, Typed, OpenTyped, AnchorKnown, MapsCounted, MapsKnown
<1>3. ASSUME NEW path \in BOOLEAN, NEW d \in Discs, NEW bad, Open(path, d, bad)
      PROVE  Typed'
  <2>1. o' = [NoOpen EXCEPT !.disc = d, !.bad = bad, !.path = path, !.lba = RecFirst]
    BY <1>3 DEF Open
  <2>2. o' \in OpenRec(bad) /\ o'.bad = bad
    BY <2>1, ZeroedTyped, BoundAssumption DEF OpenRec, NoOpen
  <2>3. attempt' \in 0 .. MaxAttempts
    BY <1>3, BoundAssumption DEF Open, Typed
  <2>4. pc' \in {"probe", "already_open"}
    BY <1>3 DEF Open, Start
  <2> QED
    BY <1>3, <2>2, <2>3, <2>4 DEF Open, Typed, OpenTyped, AnchorKnown, MapsCounted, MapsKnown
<1>4. CASE udfread_close
  <2>1. <<>> \in Seq(Names \cup {"gone"}) /\ 0 \in 0 .. MaxAttempts
    BY BoundAssumption
  <2>2. OpenTyped' /\ AnchorKnown' /\ MapsCounted' /\ MapsKnown'
    BY <1>4 DEF udfread_close, Typed, OpenTyped, AnchorKnown, MapsCounted, MapsKnown
  <2>3. First >= Last
    BY DEF First, Last
  <2> QED
    BY <1>4, <2>1, <2>2, <2>3, ZeroedTyped DEF udfread_close, Typed
<1> QED
  BY <1>1, <1>2, <1>3, <1>4 DEF Call, udfread_open, udfread_open_input

LEMMA ProbeTyped ==
  ASSUME Typed, udf_probe_volume
  PROVE  Typed'
<1>1. o \in OpenRec(o.bad) /\ o.lba \in Nat /\ o.bea \in BOOLEAN
  BY DEF Typed, OpenTyped, OpenRec
<1>2. pc' \in {"not_recognized", "anchor", "probe"} /\ UNCHANGED <<Kept, input>>
  BY DEF udf_probe_volume
<1>3. \/ o' = o \/ o' = [o EXCEPT !.lba = Anchor]
      \/ \E x \in BOOLEAN : o' = [o EXCEPT !.lba = o.lba + 1, !.bea = x]
  BY <1>1 DEF udf_probe_volume, ProbeNext
<1>4. o' \in OpenRec(o.bad) /\ o'.bad = o.bad
  <2>1. Anchor \in Nat /\ o.lba + 1 \in Nat
    BY <1>1, BoundAssumption
  <2>2. CASE o' = o \/ o' = [o EXCEPT !.lba = Anchor]
    BY <1>1, <2>1, <2>2 DEF OpenRec
  <2>3. ASSUME NEW x \in BOOLEAN, o' = [o EXCEPT !.lba = o.lba + 1, !.bea = x]
        PROVE  o' \in OpenRec(o.bad) /\ o'.bad = o.bad
    BY <1>1, <2>1, <2>3 DEF OpenRec
  <2> QED
    BY <1>3, <2>2, <2>3
<1> QED
  BY <1>2, <1>4 DEF Typed, OpenTyped, AnchorKnown, MapsCounted, MapsKnown, Kept, Working,
     Failures, Validated

LEMMA AnchorTyped ==
  ASSUME Typed, Inv, _read_avdp
  PROVE  Typed'
<1>1. o \in OpenRec(o.bad) /\ pc = "anchor"
  BY DEF Typed, OpenTyped, _read_avdp
<1>2. \/ pc' = "no_anchor" /\ o' = o
      \/ /\ pc' = "search"
         /\ \E a \in Avdp : o' = FoundAnchor(a)
  <2> DEFINE At == Anchors(o.disc)
             found == {i \in DOMAIN At : Read(At[i]).tag = "avdp"}
             i == CHOOSE i \in found : \A j \in found : i <= j
  <2>1. CASE found = {}
    BY <2>1 DEF _read_avdp
  <2>2. CASE found # {}
    <3>1. found \in SUBSET Nat
      BY DEF Anchors
    <3>2. i \in found
      BY <2>2, <3>1, Least
    <3>3. Read(At[i]).tag = "avdp" /\ Read(At[i]) \in Any
      BY <1>1, <3>2, ReadTyped
    <3>4. Read(At[i]) \in Avdp
      BY <3>3, Tags
    <3>5. pc' = "search" /\ o' = FoundAnchor(Read(At[i]))
      BY <2>2 DEF _read_avdp
    <3> HIDE DEF At, i
    <3> QED
      BY <3>4, <3>5
  <2> QED
    BY <2>1, <2>2
<1>3. ASSUME NEW a \in Avdp, o' = FoundAnchor(a)
      PROVE  o' \in OpenRec(o.bad) /\ o'.bad = o.bad /\ o'.avdp = a
  <2>1. a.main \in Loc /\ a.main.lba \in Nat
    BY DEF Avdp, Loc
  <2>2. Zeroed \in Vds
    BY ZeroedTyped
  <2>3. {} \in SUBSET All
    OBVIOUS
  <2> QED
    BY <1>1, <1>3, <2>1, <2>2, <2>3 DEF FoundAnchor, OpenRec
<1>4. o' \in OpenRec(o.bad) /\ o'.bad = o.bad /\ (pc' = "search" => o'.avdp \in Avdp)
  BY <1>1, <1>2, <1>3
<1>5. UNCHANGED <<Kept, input>> /\ pc' \in {"no_anchor", "search"}
  BY <1>2 DEF _read_avdp
<1> QED
  BY <1>4, <1>5 DEF Typed, OpenTyped, AnchorKnown, MapsCounted, MapsKnown, Kept, Working,
     Failures, Validated

LEMMA TakeTyped ==
  ASSUME OpenTyped, NEW b \in Any
  PROVE  /\ Take(b) \in OpenRec(o.bad)
         /\ Take(b).disc = o.disc /\ Take(b).bad = o.bad /\ Take(b).avdp = o.avdp
         /\ Take(b).area = o.area /\ Take(b).loc = o.loc /\ Take(b).lba = o.lba
<1>0. o \in OpenRec(o.bad) /\ o.mask \in SUBSET All /\ o.vds \in Vds
  BY DEF OpenTyped, OpenRec
<1>1. CASE b.tag = "pvd"
  <2>1. b \in PrimaryVd /\ o.mask \cup {"pvd"} \in SUBSET All
    BY <1>0, <1>1, Tags DEF All
  <2>2. [o.vds EXCEPT !.pvd = b] \in Vds
    BY <1>0, <2>1 DEF Vds
  <2>3. Take(b) = [o EXCEPT !.vds = [o.vds EXCEPT !.pvd = b], !.mask = o.mask \cup {"pvd"}]
    BY <1>0, <1>1 DEF Take, OpenRec
  <2>4. Take(b) \in OpenRec(o.bad)
    BY <1>0, <2>1, <2>2, <2>3 DEF OpenRec
  <2> QED
    BY <1>0, <2>3, <2>4 DEF OpenRec
<1>2. CASE b.tag = "lvd"
  <2>1. b \in LogicalVd /\ o.mask \cup {"lvd"} \in SUBSET All
    BY <1>0, <1>2, Tags DEF All
  <2>2. [o.vds EXCEPT !.lvd = b] \in Vds
    BY <1>0, <2>1 DEF Vds
  <2>3. Take(b) = [o EXCEPT !.vds = [o.vds EXCEPT !.lvd = b], !.mask = o.mask \cup {"lvd"}]
    BY <1>0, <1>2 DEF Take, OpenRec
  <2>4. Take(b) \in OpenRec(o.bad)
    BY <1>0, <2>1, <2>2, <2>3 DEF OpenRec
  <2> QED
    BY <1>0, <2>3, <2>4 DEF OpenRec
<1>3. CASE b.tag = "pd" /\ Decoded
  <2> DEFINE m == IF request < 0 \/ request = b.number THEN o.mask \cup {"part"} ELSE o.mask
  <2>1. b \in PartitionVd /\ m \in SUBSET All
    BY <1>0, <1>3, Tags DEF All
  <2>2. [o.vds EXCEPT !.pd = b] \in Vds
    BY <1>0, <2>1 DEF Vds
  <2>3. Take(b) = [o EXCEPT !.vds = [o.vds EXCEPT !.pd = b], !.mask = m]
    BY <1>0, <1>3 DEF Take, OpenRec
  <2> HIDE DEF m
  <2>4. Take(b) \in OpenRec(o.bad)
    BY <1>0, <2>1, <2>2, <2>3 DEF OpenRec
  <2> QED
    BY <1>0, <2>3, <2>4 DEF OpenRec
<1>4. CASE Take(b) = o
  BY <1>0, <1>4
<1>5. b.tag = "pvd" \/ b.tag = "lvd" \/ (b.tag = "pd" /\ Decoded) \/ Take(b) = o
  BY Zenon DEF Take
<1> QED
  BY <1>1, <1>2, <1>3, <1>4, <1>5

(* The steps between which only the open, and where it is, changes.        *)
LEMMA StepTyped ==
  ASSUME Typed, UNCHANGED <<Kept, input>>, o' \in OpenRec(o.bad), o'.bad = o.bad,
         o'.avdp = o.avdp, pc' \in Working \cup Failures,
         pc \notin {"idle", "probe", "anchor"},
         pc' \in {"search", "validate", "maps", "fsd", "root"} => o.avdp \in Avdp,
         MapsCounted', MapsKnown'
  PROVE  Typed'
BY DEF Typed, OpenTyped, AnchorKnown, Kept

LEMMA ReturnsTyped ==
  ASSUME Typed, UNCHANGED <<Kept, input>>, pc = "search",
         NEW s \in OpenRec(o.bad), s.avdp = o.avdp, SearchReturns(s)
  PROVE  Typed'
<1>0. o.avdp \in Avdp /\ s.bad = o.bad
  BY DEF Typed, AnchorKnown, OpenRec
<1>1. CASE s.area = "main" /\ ~(All \subseteq s.mask)
  <2> DEFINE r == s.avdp.reserve
  <2>1. r \in Loc /\ r.lba \in Nat
    BY <1>0 DEF Avdp, Loc
  <2>2. o' = [s EXCEPT !.area = "reserve", !.loc = r, !.lba = r.lba] /\ pc' = "search"
    BY <1>1 DEF SearchReturns
  <2> HIDE DEF r
  <2>3. o' \in OpenRec(o.bad)
    BY <2>1, <2>2, Fields
  <2>4. o'.bad = o.bad /\ o'.avdp = o.avdp
    BY <1>0, <2>2 DEF OpenRec
  <2> QED
    BY <1>0, <2>2, <2>3, <2>4, StepTyped DEF Working, MapsCounted, MapsKnown, Validated
<1>2. CASE ~(s.area = "main" /\ ~(All \subseteq s.mask))
  <2>1. o' = s /\ pc' \in {"validate", "no_vds"}
    BY <1>2 DEF SearchReturns
  <2> QED
    BY <1>0, <2>1, StepTyped DEF Working, Failures, MapsCounted, MapsKnown, Validated
<1> QED
  BY <1>1, <1>2

LEMMA SearchTyped ==
  ASSUME Typed, Inv, SearchEnd \/ SearchPointer \/ SearchBlock
  PROVE  Typed'
<1>0. /\ o \in OpenRec(o.bad) /\ OpenTyped /\ pc = "search" /\ o.avdp \in Avdp
      /\ UNCHANGED <<Kept, input>>
  BY DEF Typed, OpenTyped, AnchorKnown, SearchEnd, SearchPointer, SearchBlock
<1>1. CASE SearchEnd
  BY <1>0, <1>1, ReturnsTyped DEF SearchEnd
<1>2. CASE SearchPointer
  <2> DEFINE b == Read(o.lba)
  <2>1. b.tag = "vdp" /\ o' = [o EXCEPT !.loc = b.next, !.lba = b.next.lba] /\ pc' = pc
    BY <1>2 DEF SearchPointer
  <2>2. b \in Any
    BY <1>0, ReadTyped
  <2> HIDE DEF b
  <2>3. b.next \in Loc /\ b.next.lba \in Nat
    BY <2>1, <2>2, Tags DEF Loc
  <2>4. o' \in OpenRec(o.bad)
    BY <1>0, <2>1, <2>3, Fields
  <2>5. o'.bad = o.bad /\ o'.avdp = o.avdp
    BY <1>0, <2>1 DEF OpenRec
  <2> QED
    BY <1>0, <2>1, <2>4, <2>5, StepTyped DEF Working, MapsCounted, MapsKnown, Validated
<1>3. CASE SearchBlock
  <2> DEFINE s == Take(Read(o.lba))
  <2>1. /\ s \in OpenRec(o.bad) /\ s.bad = o.bad /\ s.avdp = o.avdp /\ s.lba = o.lba
    BY <1>0, ReadTyped, TakeTyped
  <2>2. SearchReturns(s) \/ (o' = [s EXCEPT !.lba = s.lba + 1] /\ pc' = pc)
    BY <1>3, <2>1 DEF SearchBlock, OpenRec
  <2> HIDE DEF s
  <2>3. CASE SearchReturns(s)
    BY <1>0, <2>1, <2>3, ReturnsTyped
  <2>4. CASE o' = [s EXCEPT !.lba = s.lba + 1] /\ pc' = pc
    <3>1. s.lba + 1 \in Nat
      BY <1>0, <2>1 DEF OpenRec
    <3>2. o' \in OpenRec(o.bad)
      BY <2>1, <2>4, <3>1, Fields
    <3>3. o'.bad = o.bad /\ o'.avdp = o.avdp
      BY <2>1, <2>4 DEF OpenRec
    <3> QED
      BY <1>0, <2>4, <3>2, <3>3, StepTyped DEF Working, MapsCounted, MapsKnown, Validated
  <2> QED
    BY <2>2, <2>3, <2>4
<1> QED
  BY <1>1, <1>2, <1>3

(* What the descriptors say of the partitions and of the file set.         *)
LEMMA LogicalTyped ==
  ASSUME OpenTyped, o.vds.lvd.valid
  PROVE  /\ Maps \in Seq(Map)
         /\ o.vds.lvd.fsd \in [part : Nat, lba : Nat, blocks : Nat \ {0}]
         /\ o.vds.pd.start \in Nat
<1>1. o.vds \in Vds
  BY DEF OpenTyped, OpenRec
<1>2. o.vds.lvd \in LogicalVd /\ o.vds.pd \in PartitionVd \cup {Zeroed.pd}
  BY <1>1 DEF Vds
<1>3. Zeroed.pd.start = 0
  BY DEF Zeroed
<1>4. o.vds.pd.start \in Nat
  BY <1>2, <1>3 DEF PartitionVd
<1> DEFINE L == o.vds.lvd
<1>5. L \in LogicalVd /\ L.valid
  BY <1>2
<1> HIDE DEF L
<1>6. L \in [tag : {"lvd"}, valid : {TRUE}, maps : Seq(Map),
             fsd : [part : Nat, lba : Nat, blocks : Nat \ {0}]]
  BY <1>5 DEF LogicalVd
<1>7. L.maps \in Seq(Map) /\ L.fsd \in [part : Nat, lba : Nat, blocks : Nat \ {0}]
  BY <1>6
<1> QED
  BY <1>4, <1>7 DEF Maps, L

LEMMA PlacedTyped ==
  ASSUME NEW p \in [number : Nat, lba : Nat, mirror : Nat], NEW b \in Any, o.vds.pd.start \in Nat
  PROVE  /\ Placed(p, b) \in [number : Nat, lba : Nat, mirror : Nat]
         /\ Promoted(p) \in [number : Nat, lba : Nat, mirror : Nat]
<1>1. b.tag = "efe" => b.ad \in Nat /\ o.vds.pd.start + b.ad \in Nat
  BY Tags
<1> QED
  BY <1>1 DEF Placed, Promoted

LEMMA PartsWith ==
  ASSUME NEW q \in Parts, NEW x \in [number : Nat, lba : Nat, mirror : Nat]
  PROVE  /\ [num |-> 1, p |-> [q.p EXCEPT ![0] = x]] \in Parts
         /\ [num |-> 2, p |-> [q.p EXCEPT ![1] = x]] \in Parts
         /\ [q EXCEPT !.p[1] = x] \in Parts
<1>1. q.p \in [{0, 1} -> [number : Nat, lba : Nat, mirror : Nat]] /\ q.num \in 0 .. 2
  BY DEF Parts
<1>2. /\ [q.p EXCEPT ![0] = x] \in [{0, 1} -> [number : Nat, lba : Nat, mirror : Nat]]
      /\ [q.p EXCEPT ![1] = x] \in [{0, 1} -> [number : Nat, lba : Nat, mirror : Nat]]
  BY <1>1
<1>3. [q EXCEPT !.p[1] = x] = [num |-> q.num, p |-> [q.p EXCEPT ![1] = x]]
  BY DEF Parts
<1>4. \A n \in 0 .. 2, f \in [{0, 1} -> [number : Nat, lba : Nat, mirror : Nat]] :
        [num |-> n, p |-> f] \in Parts
  BY DEF Parts
<1> QED
  BY <1>1, <1>2, <1>3, <1>4

LEMMA ValidateTyped ==
  ASSUME Typed, udf_validate_logical_volume
  PROVE  Typed'
<1>0. o \in OpenRec(o.bad) /\ pc = "validate" /\ o.avdp \in Avdp /\ o.vds \in Vds
  BY DEF Typed, OpenTyped, AnchorKnown, OpenRec, udf_validate_logical_volume
<1>1. CASE o.vds.lvd.valid
  <2>1. PICK short \in SUBSET {"volid"} :
          /\ volid' = IF short = {} THEN o.vds.pvd.id ELSE "none"
          /\ o' = [o EXCEPT !.map = 1, !.type1 = FALSE, !.short = short]
    BY <1>1 DEF udf_validate_logical_volume, Identifier
  <2>1a. pc' = "maps" /\ UNCHANGED <<handle, request, input, part, root, attempt>>
    BY <1>1 DEF udf_validate_logical_volume
  <2>2. o' \in OpenRec(o.bad)
    <3>1. short \in SUBSET {"map", "volid", "root"}
      OBVIOUS
    <3> QED
      BY <1>0, <2>1, <3>1, Fields
  <2>3. o'.bad = o.bad /\ o'.avdp = o.avdp /\ o'.vds = o.vds /\ o'.map = 1
    BY <1>0, <2>1 DEF OpenRec
  <2>4. o.vds.pvd.id \in Names \cup {"none"} /\ volid' \in Names \cup {"none"}
    BY <1>0, <2>1 DEF Vds, PrimaryVd, Zeroed
  <2> QED
    BY <1>0, <1>1, <2>1a, <2>2, <2>3, <2>4 DEF Typed, OpenTyped, AnchorKnown, MapsCounted,
       MapsKnown, Working, Validated
<1>2. CASE ~o.vds.lvd.valid
  <2>1. pc' = "bad_lvd" /\ UNCHANGED <<Kept, input, o>>
    BY <1>2 DEF udf_validate_logical_volume, Kept
  <2> QED
    BY <1>0, <2>1, StepTyped DEF Working, Failures, MapsCounted, MapsKnown, Validated
<1> QED
  BY <1>1, <1>2

LEMMA EntryTyped ==
  ASSUME Inv, pc # "idle"
  PROVE  \A m, i, lost : EntryOf(m, i, lost) \in Any
<1>1. \A l : Read(l) \in Any
  BY ReadTyped
<1>2. Unreadable \in Any
  BY DEF Any
<1> QED
  BY <1>1, <1>2, Zenon DEF EntryOf

LEMMA MapsTyped ==
  ASSUME Typed, Inv, MapType1 \/ MapType2 \/ MapOther
  PROVE  Typed'
<1>0. /\ o \in OpenRec(o.bad) /\ OpenTyped /\ pc = "maps" /\ o.avdp \in Avdp
      /\ o.vds.lvd.valid /\ part \in Parts /\ o.map \in Nat \ {0} /\ o.map + 1 \in Nat \ {0}
  <2>1. pc = "maps"
    <3>1. CASE MapType1
      BY <3>1 DEF MapType1
    <3>2. CASE MapType2
      BY <3>2, Zenon DEF MapType2
    <3>3. CASE MapOther
      BY <3>3 DEF MapOther
    <3> QED
      BY <3>1, <3>2, <3>3
  <2> QED
    BY <2>1 DEF Typed, OpenTyped, AnchorKnown, MapsCounted, MapsKnown, Validated
<1>1. Maps \in Seq(Map) /\ o.vds.pd.start \in Nat
  BY <1>0, LogicalTyped
<1>2. \/ o' = [o EXCEPT !.map = o.map + 1]
      \/ o' = [o EXCEPT !.map = o.map + 1, !.type1 = TRUE]
      \/ \E t \in {o.short, o.short \cup {"map"}} : o' = [o EXCEPT !.map = o.map + 1, !.short = t]
  BY MapStepIs
<1>3. o' \in OpenRec(o.bad)
  <2>1. CASE o' = [o EXCEPT !.map = o.map + 1]
    BY <1>0, <2>1 DEF OpenRec
  <2>2. CASE o' = [o EXCEPT !.map = o.map + 1, !.type1 = TRUE]
    BY <1>0, <2>2 DEF OpenRec
  <2>3. ASSUME NEW t \in {o.short, o.short \cup {"map"}}, o' = [o EXCEPT !.map = o.map + 1, !.short = t]
        PROVE  o' \in OpenRec(o.bad)
    <3>1. o.short \in SUBSET {"map", "volid", "root"}
      BY <1>0 DEF OpenRec
    <3>2. t \in SUBSET {"map", "volid", "root"}
      BY <3>1
    <3> QED
      BY <1>0, <2>3, <3>2 DEF OpenRec
  <2> QED
    BY <1>2, <2>1, <2>2, <2>3
<1>4. o'.bad = o.bad /\ o'.avdp = o.avdp /\ o'.vds = o.vds /\ o'.map = o.map + 1
  BY <1>0, <1>2 DEF OpenRec
<1>5. UNCHANGED <<handle, request, input, volid, root, pc, attempt>>
  BY DEF MapType1, MapType2, MapOther, Kept
<1>6. part' \in Parts
  <2>1. CASE MapType1
    <3>1. \/ part' = part
          \/ part' = [num |-> 1, p |-> [part.p EXCEPT
                          ![0] = [number |-> o.map - 1, lba |-> o.vds.pd.start, mirror |-> 0]]]
      BY <2>1 DEF MapType1
    <3>2. [number |-> o.map - 1, lba |-> o.vds.pd.start, mirror |-> 0]
            \in [number : Nat, lba : Nat, mirror : Nat]
      BY <1>0, <1>1
    <3> QED
      BY <1>0, <3>1, <3>2, PartsWith
  <2>2. CASE MapType2
    <3>0. PICK lost : LET p == Resolved(part.p[1], Maps[o.map], lost) IN
             part' = IF p.lba = 0 THEN [part EXCEPT !.p[1] = p]
                     ELSE [num |-> 2, p |-> [part.p EXCEPT ![1] = [p EXCEPT !.number = o.map - 1]]]
      BY <2>2, Zenon DEF MapType2
    <3> DEFINE m == Maps[o.map]
               p == Resolved(part.p[1], m, lost)
    <3>1. part.p[1] \in [number : Nat, lba : Nat, mirror : Nat]
      BY <1>0 DEF Parts
    <3>2. EntryOf(m, 1, lost) \in Any /\ EntryOf(m, 2, lost) \in Any
      BY <1>0, EntryTyped
    <3>3. p \in [number : Nat, lba : Nat, mirror : Nat]
      BY <1>1, <3>1, <3>2, PlacedTyped DEF Resolved
    <3>4. part' = IF p.lba = 0 THEN [part EXCEPT !.p[1] = p]
                  ELSE [num |-> 2, p |-> [part.p EXCEPT ![1] = [p EXCEPT !.number = o.map - 1]]]
      BY <3>0
    <3> HIDE DEF p
    <3>5. [p EXCEPT !.number = o.map - 1] \in [number : Nat, lba : Nat, mirror : Nat]
      BY <1>0, <3>3
    <3> QED
      BY <1>0, <3>3, <3>4, <3>5, PartsWith
  <2>3. CASE MapOther
    BY <1>0, <2>3 DEF MapOther, Kept
  <2> QED
    BY <2>1, <2>2, <2>3
<1> QED
  BY <1>0, <1>3, <1>4, <1>5, <1>6 DEF Typed, OpenTyped, AnchorKnown, MapsCounted, MapsKnown

LEMMA NamesTyped ==
  ASSUME Typed, Inv, RootStep
  PROVE  root' \in Seq(Names \cup {"gone"})
<1>0. root \in Seq(Names \cup {"gone"})
  BY DEF Typed
<1>1. CASE ReadRoot \/ RootDone
  BY <1>0, <1>1 DEF ReadRoot, RootDone, Kept
<1>2. CASE ReadName
  <2> DEFINE name == RootData[o.next + 1]
  <2>1. RootData \in Seq(Names \cup {"junk"}) /\ o.next < Len(RootData) /\ o.next \in Nat
    BY <1>2, RootDataTyped DEF ReadName, Typed, OpenTyped, OpenRec
  <2>2. Len(RootData) \in Nat
    BY <2>1
  <2>3. o.next + 1 \in 1 .. Len(RootData)
    BY <2>1, <2>2
  <2>4. name \in Names \cup {"junk"}
    BY <2>1, <2>3
  <2>5. root' = root \/ (name # "junk" /\ root' = Append(root, name))
    BY <1>2, Zenon DEF ReadName
  <2> HIDE DEF name
  <2> QED
    BY <1>0, <2>4, <2>5
<1>3. CASE ArrayLost
  <2>1. root' = [i \in DOMAIN root |-> "gone"]
    BY <1>3 DEF ArrayLost
  <2>2. DOMAIN root = 1 .. Len(root)
    BY <1>0
  <2>3. Len(root) \in Nat
    BY <1>0
  <2>4. root' \in [1 .. Len(root) -> Names \cup {"gone"}]
    BY <2>1, <2>2
  <2> QED
    BY <2>3, <2>4
<1> QED
  BY <1>1, <1>2, <1>3 DEF RootStep

LEMMA RootTyped ==
  ASSUME Typed, Inv, MapsEnd \/ FindFsd \/ RootStep \/ OpenFailed \/ OpenDone
  PROVE  Typed'
<1> USE DEF Working, Failures, Validated
<1>0. o \in OpenRec(o.bad) /\ OpenTyped
  BY DEF Typed, OpenTyped
<1>1. CASE MapsEnd
  <2>0. pc = "maps" /\ o.avdp \in Avdp /\ o.vds.lvd.valid /\ UNCHANGED Kept
    BY <1>1 DEF MapsEnd, Typed, AnchorKnown, MapsKnown
  <2>1. CASE o.type1
    <3>1. pc' = "fsd" /\ input' = o.disc /\ o' = [o EXCEPT !.lba = o.vds.lvd.fsd.lba]
      BY <1>1, <2>1 DEF MapsEnd
    <3>2. o.vds.lvd.fsd.lba \in Nat
      BY <1>0, <2>0, LogicalTyped
    <3>3. o' \in OpenRec(o.bad) /\ o'.bad = o.bad /\ o'.avdp = o.avdp /\ o'.vds = o.vds
      BY <1>0, <3>1, <3>2 DEF OpenRec
    <3>4. o.disc \in Discs \cup {NoDisc}
      BY <1>0 DEF OpenRec
    <3> QED
      BY <2>0, <3>1, <3>3, <3>4 DEF Typed, OpenTyped, AnchorKnown, MapsCounted, MapsKnown, Kept
  <2>2. CASE ~o.type1
    <3>1. pc' = "no_type1" /\ UNCHANGED <<input, o>>
      BY <1>1, <2>2 DEF MapsEnd
    <3> QED
      BY <1>0, <2>0, <3>1 DEF Typed, OpenTyped, AnchorKnown, MapsCounted, MapsKnown, Kept
  <2> QED
    BY <2>1, <2>2
<1>2. CASE FindFsd
  <2>0. pc = "fsd" /\ o.avdp \in Avdp /\ o.vds.lvd.valid /\ UNCHANGED Kept
    BY <1>2 DEF FindFsd, Typed, AnchorKnown, MapsKnown
  <2> DEFINE b == MetadataBlock(o.vds.lvd.fsd.part, o.lba)
  <2>1. b \in Any
    BY <2>0, BlocksTyped
  <2>2. \/ b.tag = "fsd" /\ pc' = "root" /\ o' = [o EXCEPT !.icb = b.icb] /\ input' = input
        \/ pc' = "fsd" /\ o' = [o EXCEPT !.lba = o.lba + 1] /\ input' = input
        \/ pc' = "no_fsd" /\ input' = NoDisc /\ o' = o
    BY <1>2 DEF FindFsd
  <2> HIDE DEF b
  <2>3. /\ o' \in OpenRec(o.bad) /\ o'.bad = o.bad /\ o'.avdp = o.avdp /\ o'.vds = o.vds
        /\ pc' \in {"root", "fsd", "no_fsd"} /\ input' \in {input, NoDisc}
    <3>1. CASE b.tag = "fsd" /\ pc' = "root" /\ o' = [o EXCEPT !.icb = b.icb] /\ input' = input
      <4>1. b.icb \in Icb
        BY <2>1, <3>1, Tags
      <4> QED
        BY <1>0, <3>1, <4>1 DEF OpenRec
    <3>2. CASE pc' = "fsd" /\ o' = [o EXCEPT !.lba = o.lba + 1] /\ input' = input
      <4>1. o.lba + 1 \in Nat
        BY <1>0 DEF OpenRec
      <4> QED
        BY <1>0, <3>2, <4>1 DEF OpenRec
    <3> QED
      BY <1>0, <2>2, <3>1, <3>2
  <2> QED
    BY <2>0, <2>3 DEF Typed, OpenTyped, AnchorKnown, MapsCounted, MapsKnown, Kept
<1>3. CASE RootStep
  <2>1. root' \in Seq(Names \cup {"gone"})
    BY <1>3, NamesTyped
  <2>2. /\ pc \in {"root", "names"} /\ pc' \in {"names", "opened", "no_root"}
        /\ input' \in {input, NoDisc}
        /\ UNCHANGED <<handle, request, part, volid, attempt>>
    BY <1>3, RootStepIs
  <2>3. o.next \in Nat /\ o.short \in SUBSET {"map", "volid", "root"}
    BY <1>0 DEF OpenRec
  <2>4. /\ 0 \in Nat /\ o.next + 1 \in Nat
        /\ o.short \cup {} \in SUBSET {"map", "volid", "root"}
        /\ o.short \cup {"root"} \in SUBSET {"map", "volid", "root"}
    BY <2>3
  <2>5. /\ \A x \in Nat : [o EXCEPT !.next = x] \in OpenRec(o.bad)
        /\ \A t \in SUBSET {"map", "volid", "root"} : [o EXCEPT !.short = t] \in OpenRec(o.bad)
        /\ \A x \in Nat, t \in SUBSET {"map", "volid", "root"} :
             [o EXCEPT !.next = x, !.short = t] \in OpenRec(o.bad)
    BY <1>0 DEF OpenRec
  <2>6. o' \in OpenRec(o.bad)
    BY <1>0, <1>3, <2>4, <2>5, RootStepIs
  <2>7. o'.bad = o.bad /\ o'.vds = o.vds
    BY <1>0, <1>3, RootStepIs DEF OpenRec
  <2> QED
    BY <2>1, <2>2, <2>6, <2>7 DEF Typed, OpenTyped, AnchorKnown, MapsCounted, MapsKnown
<1>4. CASE OpenFailed \/ OpenDone
  <2>1. /\ pc' = "idle" /\ o' = NoOpen
        /\ UNCHANGED <<handle, request, input, part, volid, root, attempt>>
    BY <1>4 DEF OpenFailed, OpenDone
  <2>2. NoOpen \in OpenRec({}) /\ NoOpen.bad = {}
    BY ZeroedTyped DEF NoOpen
  <2> QED
    BY <2>1, <2>2 DEF Typed, OpenTyped, AnchorKnown, MapsCounted, MapsKnown
<1> QED
  BY <1>1, <1>2, <1>3, <1>4

LEMMA StutterTyped ==
  ASSUME Typed, UNCHANGED vars
  PROVE  Typed'
BY DEF vars, Typed, OpenTyped, AnchorKnown, MapsCounted, MapsKnown

LEMMA TypedStep ==
  ASSUME Typed, Inv, [Next]_vars
  PROVE  Typed'
BY CallTyped, ProbeTyped, AnchorTyped, SearchTyped, ValidateTyped, MapsTyped, RootTyped,
   StutterTyped DEF Next, Work, RootStep

(* Every variable of the handle and of an open in progress has its type,   *)
(* whatever the discs hold and whichever blocks cannot be read.            *)
THEOREM OpenTypes == Spec => []TypeOK
<1>1. Typed /\ Inv /\ [Next]_vars => Typed'
  BY TypedStep
<1>2. Typed /\ Inv => TypeOK
  <2> SUFFICES ASSUME Typed, Inv PROVE TypeOK
    OBVIOUS
  <2>1. o \in OpenRec(o.bad)
    BY DEF Typed, OpenTyped
  <2>2. /\ o.disc \in Discs \cup {NoDisc} /\ o.path \in BOOLEAN
        /\ o.lba \in Nat /\ o.loc \in Loc /\ o.map \in Nat
        /\ o.avdp \in Avdp \cup {Unreadable}
        /\ o.vds \in Vds /\ o.mask \in SUBSET All /\ o.icb \in Icb \cup {NoLoc}
        /\ o.next \in Nat /\ o.short \in SUBSET {"map", "volid", "root"}
    BY <2>1 DEF OpenRec
  <2>3. held \in Nat
    BY DEF Inv, StagesKnown, HeldBetween, HeldAlready, HeldWithout, HeldWith, Discarded
  <2> QED
    BY <2>2, <2>3 DEF TypeOK, Typed, Parts, Vds, Working
<1> QED
  BY <1>1, <1>2, InitTyped, Invariance, PTL DEF Spec

-----------------------------------------------------------------------------
(* The extents of a volume descriptor sequence.                            *)
LEMMA ReachIs ==
  ASSUME NEW v, NEW e \in Loc
  PROVE  /\ Reach(v, e) \in Nat /\ Reach(v, e) <= e.blocks
         /\ Reach(v, e) = e.blocks \/ EndsAt(v, e, Reach(v, e))
         /\ \A i \in 0 .. Reach(v, e) - 1 : ~EndsAt(v, e, i)
<1> DEFINE Fit(k) == (k = e.blocks \/ EndsAt(v, e, k)) /\ \A i \in 0 .. k - 1 : ~EndsAt(v, e, i)
           S == {k \in 0 .. e.blocks : k = e.blocks \/ EndsAt(v, e, k)}
<1>1. e.blocks \in Nat
  BY DEF Loc
<1>2. \E k \in 0 .. e.blocks : Fit(k)
  <2>1. S \in SUBSET Nat /\ e.blocks \in S
    BY <1>1
  <2>2. PICK k \in S : \A m \in S : k <= m
    BY <2>1, Least
  <2>3. ASSUME NEW i \in 0 .. k - 1 PROVE ~EndsAt(v, e, i)
    <3>1. i \in 0 .. e.blocks /\ ~(k <= i)
      BY <1>1, <2>2
    <3> QED
      BY <2>2, <3>1
  <2> QED
    BY <2>2, <2>3
<1> DEFINE k == Reach(v, e)
<1>3. k \in 0 .. e.blocks /\ Fit(k)
  BY <1>2 DEF Reach
<1> HIDE DEF k
<1>4. k \in Nat /\ k <= e.blocks
  BY <1>1, <1>3
<1> QED
  BY <1>3, <1>4 DEF k

LEMMA FollowingTyped ==
  ASSUME NEW v, ViewTypes(v), NEW e \in Loc
  PROVE  Following(v, e) \in Loc
<1>1. BlockAt(v, e.lba + Reach(v, e)) \in Any
  BY DEF ViewTypes
<1>2. NoLoc \in Loc
  BY ZeroedTyped
<1> QED
  BY <1>1, <1>2, Tags DEF Following

(* The recursion that follows the pointers defines something.              *)
Chained(f, v, loc, m) ==
  f = [n \in 0 .. m |-> IF n = 0 THEN loc ELSE Following(v, f[n - 1])]

LEMMA ChainExists ==
  ASSUME NEW v, NEW loc
  PROVE  \A m \in Nat : \E f : Chained(f, v, loc, m)
<1> DEFINE S == {m \in Nat : ~\E f : Chained(f, v, loc, m)}
<1>1. SUFFICES ASSUME S # {} PROVE FALSE
  OBVIOUS
<1>2. PICK m \in S : \A k \in S : m <= k
  BY <1>1, Least, Zenon
<1>3. CASE m = 0
  <2>1. Chained([n \in 0 .. 0 |-> loc], v, loc, 0)
    BY DEF Chained
  <2> QED
    BY <1>2, <1>3, <2>1
<1>4. CASE m # 0
  <2>1. m - 1 \in Nat /\ m \in Nat /\ ~(m <= m - 1)
    BY <1>4
  <2>2. PICK f : Chained(f, v, loc, m - 1)
    BY <1>2, <2>1
  <2> DEFINE g == [n \in 0 .. m |-> IF n = m THEN Following(v, f[m - 1]) ELSE f[n]]
  <2>3. \A n \in 0 .. m : g[n] = IF n = 0 THEN loc ELSE Following(v, g[n - 1])
    <3> SUFFICES ASSUME NEW n \in 0 .. m
                 PROVE  g[n] = IF n = 0 THEN loc ELSE Following(v, g[n - 1])
      OBVIOUS
    <3>1. CASE n = m
      <4>1. g[n - 1] = f[m - 1] /\ g[n] = Following(v, f[m - 1])
        BY <2>1, <3>1
      <4> QED
        BY <1>4, <3>1, <4>1
    <3>2. CASE n # m
      <4>1. n \in 0 .. m - 1 /\ (n # 0 => n - 1 \in 0 .. m - 1)
        BY <2>1, <3>2
      <4>2. g[n] = f[n] /\ (n # 0 => g[n - 1] = f[n - 1])
        BY <2>1, <3>2, <4>1
      <4>3. f[n] = IF n = 0 THEN loc ELSE Following(v, f[n - 1])
        BY <2>2, <4>1 DEF Chained
      <4> QED
        BY <4>1, <4>2, <4>3
    <3> QED
      BY <3>1, <3>2
  <2>4. Chained(g, v, loc, m)
    <3>1. g = [n \in 0 .. m |-> g[n]]
      OBVIOUS
    <3> HIDE DEF g
    <3> QED
      BY <2>3, <3>1 DEF Chained
  <2> QED
    BY <1>2, <2>4
<1> QED
  BY <1>3, <1>4

LEMMA ExtentsAre ==
  ASSUME NEW v, ViewTypes(v), NEW loc \in Loc
  PROVE  /\ Extents(v, loc)[0] = loc
         /\ \A n \in 0 .. MaxHops : Extents(v, loc)[n] \in Loc
         /\ \A n \in 0 .. MaxHops - 1 : Extents(v, loc)[n + 1] = Following(v, Extents(v, loc)[n])
<1>0. MaxHops \in Nat
  BY BoundAssumption
<1> DEFINE e == Extents(v, loc)
<1>1. Chained(e, v, loc, MaxHops)
  <2>1. e = CHOOSE f : Chained(f, v, loc, MaxHops)
    BY DEF Extents, Chained
  <2>2. \E f : Chained(f, v, loc, MaxHops)
    BY <1>0, ChainExists
  <2> QED
    BY <2>1, <2>2
<1> HIDE DEF e
<1>2. e = [n \in 0 .. MaxHops |-> IF n = 0 THEN loc ELSE Following(v, e[n - 1])]
  BY <1>1 DEF Chained
<1>3. e[0] = loc
  BY <1>0, <1>2
<1>4. \A n \in 0 .. MaxHops - 1 : e[n + 1] = Following(v, e[n])
  <2> SUFFICES ASSUME NEW n \in 0 .. MaxHops - 1 PROVE e[n + 1] = Following(v, e[n])
    OBVIOUS
  <2>1. n + 1 \in 0 .. MaxHops /\ n + 1 # 0 /\ (n + 1) - 1 = n
    BY <1>0
  <2> QED
    BY <1>2, <2>1
<1> DEFINE S == {n \in 0 .. MaxHops : e[n] \in Loc}
<1>5. 0 \in S
  BY <1>0, <1>3
<1>6. ASSUME NEW n \in 0 .. MaxHops - 1, n \in S PROVE n + 1 \in S
  <2>1. e[n] \in Loc /\ n + 1 \in 0 .. MaxHops
    BY <1>0, <1>6
  <2>2. Following(v, e[n]) \in Loc
    BY <2>1, FollowingTyped
  <2> QED
    BY <1>4, <2>1, <2>2
<1> HIDE DEF S
<1>7. \A n \in 0 .. MaxHops : n \in S
  BY <1>0, <1>5, <1>6, UpTo
<1> QED
  BY <1>3, <1>4, <1>7 DEF S, e

(* A pointer in the n-th extent has n pointers of higher ranks behind it.  *)
LEMMA PointerIs ==
  ASSUME NEW d, NEW bad, NEW l, BlockAt(View(d, bad), l).tag = "vdp"
  PROVE  l \in Pointers(d) /\ BlockAt(View(d, bad), l) = Content[d].block[l]
<1> DEFINE c == Content[d].block
<1>1. View(d, bad) = [k \in DOMAIN c \ bad |-> c[k]]
  BY DEF View
<1> HIDE DEF c
<1>2. l \in DOMAIN c \ bad
  BY <1>1 DEF BlockAt, Unreadable
<1>3. BlockAt(View(d, bad), l) = c[l]
  BY <1>1, <1>2 DEF BlockAt
<1> QED
  BY <1>2, <1>3 DEF c, Pointers

LEMMA PointersEnd ==
  ASSUME NEW d \in Discs, NEW bad, NEW loc \in Loc, NEW n \in 0 .. MaxHops, NEW i \in Nat,
         i < Extents(View(d, bad), loc)[n].blocks,
         BlockAt(View(d, bad), Extents(View(d, bad), loc)[n].lba + i).tag = "vdp"
  PROVE  n < MaxHops
<1> DEFINE v == View(d, bad)
           e == Extents(v, loc)
<1>0. MaxHops \in Nat
  BY BoundAssumption
<1>1. ViewTypes(v)
  BY ViewTyped
<1>2. PICK rank \in [Pointers(d) -> 1 .. MaxHops] :
        \A l, k \in Pointers(d) : Within(k, Content[d].block[l].next) => rank[k] < rank[l]
  BY PointerAssumption
<1>3. \A k \in Pointers(d) : rank[k] \in Nat /\ 1 <= rank[k] /\ rank[k] <= MaxHops
  BY <1>0, <1>2
<1>4. /\ e[0] = loc /\ \A m \in 0 .. MaxHops : e[m] \in Loc
      /\ \A m \in 0 .. MaxHops - 1 : e[m + 1] = Following(v, e[m])
  BY <1>1, ExtentsAre
<1>5. BlockAt(v, e[n].lba + i).tag = "vdp" /\ i < e[n].blocks
  OBVIOUS
<1> HIDE DEF e
<1> DEFINE S == {m \in 0 .. MaxHops :
                   \A k \in Pointers(d) : Within(k, e[m]) => rank[k] <= MaxHops - m}
<1>6. 0 \in S
  BY <1>0, <1>3
<1>7. ASSUME NEW m \in 0 .. MaxHops - 1, m \in S PROVE m + 1 \in S
  <2>1. m \in 0 .. MaxHops /\ m + 1 \in 0 .. MaxHops /\ m \in Nat
    BY <1>0
  <2>2. e[m] \in Loc /\ e[m + 1] = Following(v, e[m])
    BY <1>4, <2>1
  <2> DEFINE l == e[m].lba + Reach(v, e[m])
             b == BlockAt(v, l)
  <2>3. CASE Reach(v, e[m]) < e[m].blocks /\ b.tag = "vdp"
    <3>1. e[m + 1] = b.next
      BY <2>2, <2>3 DEF Following
    <3>2. l \in Pointers(d) /\ b = Content[d].block[l]
      BY <2>3, PointerIs
    <3>3. Within(l, e[m])
      <4>1. Reach(v, e[m]) \in Nat
        BY <2>2, ReachIs
      <4>2. e[m].lba \in Nat /\ e[m].blocks \in Nat
        BY <2>2 DEF Loc
      <4> QED
        BY <2>3, <4>1, <4>2 DEF Within
    <3> HIDE DEF l, b
    <3>4. rank[l] <= MaxHops - m
      BY <1>7, <3>2, <3>3
    <3>5. ASSUME NEW k \in Pointers(d), Within(k, e[m + 1]) PROVE rank[k] <= MaxHops - (m + 1)
      <4>1. rank[k] < rank[l]
        BY <1>2, <3>1, <3>2, <3>5
      <4> QED
        BY <1>0, <1>3, <2>1, <3>2, <3>4, <4>1
    <3> QED
      BY <2>1, <3>5
  <2>4. CASE ~(Reach(v, e[m]) < e[m].blocks /\ b.tag = "vdp")
    <3>1. e[m + 1] = NoLoc
      BY <2>2, <2>4 DEF Following
    <3>2. ASSUME NEW k \in Pointers(d) PROVE ~Within(k, e[m + 1])
      <4>1. k \in Nat
        BY DiscAssumption DEF Pointers
      <4> QED
        BY <3>1, <4>1 DEF Within, NoLoc
    <3> QED
      BY <2>1, <3>2
  <2> QED
    BY <2>3, <2>4
<1> HIDE DEF S
<1>8. n \in S
  BY <1>0, <1>6, <1>7, UpTo
<1> DEFINE l == e[n].lba + i
<1>9. l \in Pointers(d)
  BY <1>5, PointerIs
<1>10. Within(l, e[n])
  <2>1. e[n].lba \in Nat /\ e[n].blocks \in Nat
    BY <1>4 DEF Loc
  <2> QED
    BY <1>5, <2>1 DEF Within
<1> HIDE DEF l
<1>11. rank[l] <= MaxHops - n /\ rank[l] \in Nat /\ 1 <= rank[l]
  BY <1>3, <1>8, <1>9, <1>10 DEF S
<1> QED
  BY <1>0, <1>11

(* An extent that ends without a pointer is the last one.                  *)
LEMMA NothingAfter ==
  ASSUME NEW v, ViewTypes(v), NEW loc \in Loc, NEW n \in 0 .. MaxHops,
         Following(v, Extents(v, loc)[n]) = NoLoc
  PROVE  \A m \in 0 .. MaxHops : n < m => Reach(v, Extents(v, loc)[m]) = 0
<1> DEFINE e == Extents(v, loc)
           S == {m \in 0 .. MaxHops : n < m => e[m] = NoLoc}
<1>0. MaxHops \in Nat /\ n \in Nat
  BY BoundAssumption
<1>1. \A m \in 0 .. MaxHops - 1 : e[m + 1] = Following(v, e[m])
  BY ExtentsAre
<1>2. Reach(v, NoLoc) = 0 /\ Following(v, NoLoc) = NoLoc
  <2>1. NoLoc \in Loc /\ NoLoc.blocks = 0
    BY ZeroedTyped DEF NoLoc
  <2>2. Reach(v, NoLoc) \in Nat /\ Reach(v, NoLoc) <= 0
    BY <2>1, ReachIs
  <2>3. ~(Reach(v, NoLoc) < NoLoc.blocks)
    BY <2>1, <2>2
  <2> QED
    BY <2>2, <2>3 DEF Following
<1>3. Following(v, e[n]) = NoLoc
  OBVIOUS
<1> HIDE DEF e
<1>4. 0 \in S
  BY <1>0
<1>5. ASSUME NEW m \in 0 .. MaxHops - 1, m \in S PROVE m + 1 \in S
  <2>1. m + 1 \in 0 .. MaxHops /\ e[m + 1] = Following(v, e[m])
    BY <1>0, <1>1
  <2>2. n < m + 1 => n = m \/ n < m
    BY <1>0
  <2> QED
    BY <1>2, <1>3, <1>5, <2>1, <2>2
<1> HIDE DEF S
<1>6. \A m \in 0 .. MaxHops : m \in S
  BY <1>0, <1>4, <1>5, UpTo
<1> QED
  BY <1>2, <1>6 DEF S, e

(* The descriptors of a sequence, and those before a place in it.          *)
ItemAt(v, a, loc, n, i) == [at |-> <<a, n, i>>, is |-> BlockAt(v, Extents(v, loc)[n].lba + i)]
Seen(v, a, loc, n, i) == {x \in Sequence(v, a, loc) : Before(x.at, <<a, n, i>>)}

LEMMA SequenceIs ==
  ASSUME NEW v, NEW a, NEW loc
  PROVE  /\ \A x \in Sequence(v, a, loc) :
              \E n \in 0 .. MaxHops : \E i \in 0 .. Reach(v, Extents(v, loc)[n]) - 1 :
                x = ItemAt(v, a, loc, n, i)
         /\ \A n \in 0 .. MaxHops : \A i \in 0 .. Reach(v, Extents(v, loc)[n]) - 1 :
              ItemAt(v, a, loc, n, i) \in Sequence(v, a, loc)
BY DEF Sequence, ItemAt

(* The places are triples of numbers, and what is there is typed.          *)
LEMMA PlacesAre ==
  ASSUME NEW v, ViewTypes(v), NEW a \in {0, 1}, NEW loc \in Loc, NEW x \in Sequence(v, a, loc)
  PROVE  /\ x.is \in Any
         /\ x.at \in {a} \X Nat \X Nat
<1>1. PICK n \in 0 .. MaxHops : \E i \in 0 .. Reach(v, Extents(v, loc)[n]) - 1 :
        x = ItemAt(v, a, loc, n, i)
  BY SequenceIs
<1>2. PICK i \in 0 .. Reach(v, Extents(v, loc)[n]) - 1 : x = ItemAt(v, a, loc, n, i)
  BY <1>1
<1>3. Extents(v, loc)[n] \in Loc
  BY ExtentsAre
<1>4. Reach(v, Extents(v, loc)[n]) \in Nat
  BY <1>3, ReachIs
<1>5. n \in Nat /\ i \in Nat
  BY <1>4, BoundAssumption
<1>6. x.at = <<a, n, i>> /\ x.is = BlockAt(v, Extents(v, loc)[n].lba + i)
  BY <1>2 DEF ItemAt
<1> QED
  BY <1>5, <1>6 DEF ViewTypes

LEMMA SeenNone ==
  ASSUME NEW v, ViewTypes(v), NEW a \in {0, 1}, NEW loc \in Loc
  PROVE  Seen(v, a, loc, 0, 0) = {}
<1> SUFFICES ASSUME NEW x \in Sequence(v, a, loc), Before(x.at, <<a, 0, 0>>) PROVE FALSE
  BY DEF Seen
<1>1. x.at \in {a} \X Nat \X Nat
  BY PlacesAre
<1> QED
  BY <1>1 DEF Before

LEMMA SeenMore ==
  ASSUME NEW v, ViewTypes(v), NEW a \in {0, 1}, NEW loc \in Loc,
         NEW n \in 0 .. MaxHops, NEW i \in Nat,
         i < Reach(v, Extents(v, loc)[n])
  PROVE  Seen(v, a, loc, n, i + 1) = Seen(v, a, loc, n, i) \cup {ItemAt(v, a, loc, n, i)}
<1> DEFINE y == ItemAt(v, a, loc, n, i)
<1>0. n \in Nat
  BY BoundAssumption
<1>1. Reach(v, Extents(v, loc)[n]) \in Nat
  BY ExtentsAre, ReachIs
<1>2. i \in 0 .. Reach(v, Extents(v, loc)[n]) - 1
  BY <1>1
<1>3. y \in Sequence(v, a, loc) /\ y.at = <<a, n, i>>
  BY <1>2, SequenceIs DEF ItemAt
<1>4. y \in Seen(v, a, loc, n, i + 1)
  BY <1>0, <1>3 DEF Seen, Before
<1>5. ASSUME NEW x \in Sequence(v, a, loc)
      PROVE  Before(x.at, <<a, n, i + 1>>) <=> Before(x.at, <<a, n, i>>) \/ x = y
  <2>1. PICK m \in 0 .. MaxHops : \E j \in 0 .. Reach(v, Extents(v, loc)[m]) - 1 :
          x = ItemAt(v, a, loc, m, j)
    BY SequenceIs
  <2>2. PICK j \in 0 .. Reach(v, Extents(v, loc)[m]) - 1 : x = ItemAt(v, a, loc, m, j)
    BY <2>1
  <2>3. x.at = <<a, m, j>>
    BY <2>2 DEF ItemAt
  <2>4. Reach(v, Extents(v, loc)[m]) \in Nat
    BY ExtentsAre, ReachIs
  <2>5. m \in Nat /\ j \in Nat
    BY <2>4, BoundAssumption
  <2>6. (m < n \/ (m = n /\ j < i + 1)) <=> (m < n \/ (m = n /\ j < i)) \/ (m = n /\ j = i)
    BY <1>0, <2>5
  <2>7. x = y <=> m = n /\ j = i
    <3>1. m = n /\ j = i => x = y
      BY <2>2
    <3>2. x = y => <<a, m, j>> = <<a, n, i>>
      BY <1>3, <2>3
    <3> QED
      BY <3>1, <3>2
  <2>8. /\ Before(x.at, <<a, n, i + 1>>) <=> (m < n \/ (m = n /\ j < i + 1))
        /\ Before(x.at, <<a, n, i>>) <=> (m < n \/ (m = n /\ j < i))
    BY <1>0, <2>3, <2>5 DEF Before
  <2> QED
    BY <2>6, <2>7, <2>8
<1> HIDE DEF y
<1> QED
  BY <1>3, <1>4, <1>5 DEF Seen, y

LEMMA SeenOn ==
  ASSUME NEW v, ViewTypes(v), NEW a \in {0, 1}, NEW loc \in Loc, NEW n \in 0 .. MaxHops, n < MaxHops
  PROVE  Seen(v, a, loc, n + 1, 0) = Seen(v, a, loc, n, Reach(v, Extents(v, loc)[n]))
<1>0. n \in Nat
  BY BoundAssumption
<1>1. ASSUME NEW x \in Sequence(v, a, loc)
      PROVE  Before(x.at, <<a, n + 1, 0>>) <=> Before(x.at, <<a, n, Reach(v, Extents(v, loc)[n])>>)
  <2>1. PICK m \in 0 .. MaxHops : \E j \in 0 .. Reach(v, Extents(v, loc)[m]) - 1 :
          x = ItemAt(v, a, loc, m, j)
    BY SequenceIs
  <2>2. PICK j \in 0 .. Reach(v, Extents(v, loc)[m]) - 1 : x = ItemAt(v, a, loc, m, j)
    BY <2>1
  <2>3. x.at = <<a, m, j>>
    BY <2>2 DEF ItemAt
  <2>4. Reach(v, Extents(v, loc)[m]) \in Nat /\ Reach(v, Extents(v, loc)[n]) \in Nat
    BY ExtentsAre, ReachIs
  <2>5. m \in Nat /\ j \in Nat /\ j < Reach(v, Extents(v, loc)[m])
    BY <2>4, BoundAssumption
  <2>6. Before(x.at, <<a, n + 1, 0>>) <=> m < n + 1
    BY <1>0, <2>3, <2>5 DEF Before
  <2>7. Before(x.at, <<a, n, Reach(v, Extents(v, loc)[n])>>)
          <=> m < n \/ (m = n /\ j < Reach(v, Extents(v, loc)[n]))
    BY <1>0, <2>3, <2>4, <2>5 DEF Before
  <2>8. m = n => j < Reach(v, Extents(v, loc)[n])
    BY <2>5
  <2>9. m < n + 1 <=> m < n \/ m = n
    BY <1>0, <2>5
  <2> QED
    BY <2>6, <2>7, <2>8, <2>9
<1> QED
  BY <1>1 DEF Seen

LEMMA SeenAll ==
  ASSUME NEW v, ViewTypes(v), NEW a \in {0, 1}, NEW loc \in Loc, NEW n \in 0 .. MaxHops,
         Following(v, Extents(v, loc)[n]) = NoLoc
  PROVE  Seen(v, a, loc, n, Reach(v, Extents(v, loc)[n])) = Sequence(v, a, loc)
<1>0. n \in Nat
  BY BoundAssumption
<1>1. ASSUME NEW x \in Sequence(v, a, loc)
      PROVE  Before(x.at, <<a, n, Reach(v, Extents(v, loc)[n])>>)
  <2>1. PICK m \in 0 .. MaxHops : \E j \in 0 .. Reach(v, Extents(v, loc)[m]) - 1 :
          x = ItemAt(v, a, loc, m, j)
    BY SequenceIs
  <2>2. PICK j \in 0 .. Reach(v, Extents(v, loc)[m]) - 1 : x = ItemAt(v, a, loc, m, j)
    BY <2>1
  <2>3. x.at = <<a, m, j>>
    BY <2>2 DEF ItemAt
  <2>4. Reach(v, Extents(v, loc)[m]) \in Nat /\ Reach(v, Extents(v, loc)[n]) \in Nat
    BY ExtentsAre, ReachIs
  <2>5. m \in Nat /\ j \in Nat /\ j < Reach(v, Extents(v, loc)[m])
    BY <2>4, BoundAssumption
  <2>6. ~(n < m)
    <3>1. n < m => Reach(v, Extents(v, loc)[m]) = 0
      BY NothingAfter
    <3> QED
      BY <2>5, <3>1
  <2>7. m < n \/ (m = n /\ j < Reach(v, Extents(v, loc)[n]))
    BY <1>0, <2>5, <2>6
  <2> QED
    BY <2>3, <2>7 DEF Before
<1> QED
  BY <1>1 DEF Seen

-----------------------------------------------------------------------------
(* What has been collected after the descriptors S: the partition that     *)
(* was asked for, a primary and a logical volume descriptor, and the mask  *)
(* says which of them there are.                                           *)
Extreme(x, S, q) ==
  \A y \in Wanted(S, q) \ {x} : IF q = Last THEN Before(y.at, x.at) ELSE Before(x.at, y.at)
PartCollected(S, q, s) ==
  /\ "part" \in s.mask <=> Wanted(S, q) # {}
  /\ "part" \in s.mask => \E x \in Wanted(S, q) : s.vds.pd = x.is /\ Extreme(x, S, q)
PvdCollected(S, s) ==
  /\ "pvd" \in s.mask <=> Tagged(S, "pvd") # {}
  /\ "pvd" \in s.mask => \E x \in Tagged(S, "pvd") : s.vds.pvd = x.is
LvdCollected(S, s) ==
  /\ "lvd" \in s.mask <=> Tagged(S, "lvd") # {}
  /\ \/ \E x \in Tagged(S, "lvd") : s.vds.lvd = x.is
     \/ Tagged(S, "lvd") = {} /\ s.vds.lvd = Zeroed.lvd
Collected(S, q, s) == PartCollected(S, q, s) /\ PvdCollected(S, s) /\ LvdCollected(S, s)

(* What a descriptor changes.                                              *)
LEMMA TakeIs ==
  ASSUME OpenTyped, NEW b
  PROVE  /\ Take(b).vds.pvd = IF b.tag = "pvd" THEN b ELSE o.vds.pvd
         /\ Take(b).vds.lvd = IF b.tag = "lvd" THEN b ELSE o.vds.lvd
         /\ Take(b).vds.pd = IF b.tag = "pd" /\ Decoded THEN b ELSE o.vds.pd
         /\ "pvd" \in Take(b).mask <=> "pvd" \in o.mask \/ b.tag = "pvd"
         /\ "lvd" \in Take(b).mask <=> "lvd" \in o.mask \/ b.tag = "lvd"
         /\ "part" \in Take(b).mask <=>
              \/ "part" \in o.mask
              \/ b.tag = "pd" /\ Decoded /\ (request < 0 \/ request = b.number)
<1>0. o \in OpenRec(o.bad) /\ o.vds \in Vds
  BY DEF OpenTyped, OpenRec
<1>1. CASE b.tag = "pvd"
  <2>1. Take(b) = [o EXCEPT !.vds.pvd = b, !.mask = o.mask \cup {"pvd"}]
    BY <1>0, <1>1 DEF Take
  <2>2. Take(b).vds = [o.vds EXCEPT !.pvd = b] /\ Take(b).mask = o.mask \cup {"pvd"}
    BY <1>0, <2>1 DEF OpenRec
  <2> QED
    BY <1>0, <1>1, <2>2 DEF Vds
<1>2. CASE b.tag = "lvd"
  <2>1. Take(b) = [o EXCEPT !.vds.lvd = b, !.mask = o.mask \cup {"lvd"}]
    BY <1>0, <1>2 DEF Take
  <2>2. Take(b).vds = [o.vds EXCEPT !.lvd = b] /\ Take(b).mask = o.mask \cup {"lvd"}
    BY <1>0, <2>1 DEF OpenRec
  <2> QED
    BY <1>0, <1>2, <2>2 DEF Vds
<1>3. CASE b.tag = "pd" /\ Decoded
  <2> DEFINE m == IF request < 0 \/ request = b.number THEN o.mask \cup {"part"} ELSE o.mask
  <2>1. Take(b) = [o EXCEPT !.vds.pd = b, !.mask = m]
    BY <1>0, <1>3 DEF Take
  <2>2. /\ "part" \in m <=> "part" \in o.mask \/ request < 0 \/ request = b.number
        /\ "pvd" \in m <=> "pvd" \in o.mask
        /\ "lvd" \in m <=> "lvd" \in o.mask
    OBVIOUS
  <2> HIDE DEF m
  <2>3. Take(b).vds = [o.vds EXCEPT !.pd = b] /\ Take(b).mask = m
    BY <1>0, <2>1 DEF OpenRec
  <2> QED
    BY <1>0, <1>3, <2>2, <2>3 DEF Vds
<1>4. CASE b.tag \notin {"pvd", "lvd"} /\ ~(b.tag = "pd" /\ Decoded)
  <2>1. Take(b) = o
    BY <1>4 DEF Take
  <2> QED
    BY <1>4, <2>1
<1> QED
  BY <1>1, <1>2, <1>3, <1>4

LEMMA TakeCollects ==
  ASSUME OpenTyped, NEW S, Collected(S, request, o), NEW x, \A y \in S : Before(y.at, x.at)
  PROVE  Collected(S \cup {x}, request, Take(x.is))
<1> DEFINE T == S \cup {x}
           t == Take(x.is)
           Asked == request < 0 \/ x.is.number = request
<1>0. /\ t.vds.pvd = IF x.is.tag = "pvd" THEN x.is ELSE o.vds.pvd
      /\ t.vds.lvd = IF x.is.tag = "lvd" THEN x.is ELSE o.vds.lvd
      /\ t.vds.pd = IF x.is.tag = "pd" /\ Decoded THEN x.is ELSE o.vds.pd
      /\ "pvd" \in t.mask <=> "pvd" \in o.mask \/ x.is.tag = "pvd"
      /\ "lvd" \in t.mask <=> "lvd" \in o.mask \/ x.is.tag = "lvd"
      /\ "part" \in t.mask <=> "part" \in o.mask \/ (x.is.tag = "pd" /\ Decoded /\ Asked)
  BY TakeIs
<1> HIDE DEF t
<1>1. \A z : Tagged(T, z) = Tagged(S, z) \cup (IF x.is.tag = z THEN {x} ELSE {})
  BY DEF Tagged
<1>2. /\ x.is.tag = "pd" /\ Asked => Wanted(T, request) = Wanted(S, request) \cup {x}
      /\ ~(x.is.tag = "pd" /\ Asked) => Wanted(T, request) = Wanted(S, request)
  BY DEF Wanted, Tagged
<1>3. PvdCollected(T, t)
  BY <1>0, <1>1 DEF Collected, PvdCollected
<1>4. LvdCollected(T, t)
  BY <1>0, <1>1 DEF Collected, LvdCollected
<1>5. PartCollected(T, request, t)
  <2>0. Wanted(S, request) \subseteq S
    BY DEF Wanted, Tagged
  <2>1. CASE x.is.tag = "pd" /\ Asked /\ Decoded
    <3>1. x \in Wanted(T, request) /\ "part" \in t.mask /\ t.vds.pd = x.is
      BY <1>0, <1>2, <2>1
    <3>2. CASE request = Last
      <4>1. Extreme(x, T, request)
        BY <1>2, <2>0, <2>1, <3>2 DEF Extreme
      <4> QED
        BY <3>1, <4>1 DEF PartCollected
    <3>3. CASE request # Last
      <4>1. Wanted(S, request) = {}
        BY <2>1, <3>3 DEF Decoded, Collected, PartCollected
      <4>2. Extreme(x, T, request)
        BY <1>2, <2>1, <4>1 DEF Extreme
      <4> QED
        BY <3>1, <4>2 DEF PartCollected
    <3> QED
      BY <3>2, <3>3
  <2>2. CASE x.is.tag = "pd" /\ Asked /\ ~Decoded
    <3>1. "part" \in o.mask /\ request # Last /\ "part" \in t.mask /\ t.vds.pd = o.vds.pd
      BY <1>0, <2>2 DEF Decoded
    <3>2. PICK w \in Wanted(S, request) : o.vds.pd = w.is /\ Extreme(w, S, request)
      BY <3>1 DEF Collected, PartCollected
    <3>3. Before(w.at, x.at) /\ w \in Wanted(T, request)
      BY <1>2, <2>0, <2>2
    <3>4. Extreme(w, T, request)
      BY <1>2, <2>2, <3>1, <3>2, <3>3 DEF Extreme
    <3> QED
      BY <3>1, <3>2, <3>3, <3>4 DEF PartCollected
  <2>3. CASE ~(x.is.tag = "pd" /\ Asked)
    <3>1. Wanted(T, request) = Wanted(S, request) /\ ("part" \in t.mask <=> "part" \in o.mask)
      BY <1>0, <1>2, <2>3
    <3>2. "part" \in o.mask => t.vds.pd = o.vds.pd
      <4>1. CASE x.is.tag = "pd"
        <5>1. request # Last
          BY <2>3, <4>1 DEF Last
        <5> QED
          BY <1>0, <5>1 DEF Decoded
      <4>2. CASE x.is.tag # "pd"
        BY <1>0, <4>2
      <4> QED
        BY <4>1, <4>2
    <3> QED
      BY <3>1, <3>2 DEF Collected, PartCollected, Extreme
  <2> QED
    BY <2>1, <2>2, <2>3
<1> QED
  BY <1>3, <1>4, <1>5 DEF Collected, t

(* A search that has found everything may leave out the rest.              *)
LEMMA RestIsLeftOut ==
  ASSUME NEW S, NEW T, NEW q, NEW s, Collected(S, q, s), All \subseteq s.mask, q # Last,
         S \subseteq T, \A x \in S, y \in T \ S : Before(x.at, y.at)
  PROVE  Collected(T, q, s)
<1>0. "part" \in s.mask /\ "pvd" \in s.mask /\ "lvd" \in s.mask
  BY DEF All
<1>1. /\ Wanted(S, q) = Wanted(T, q) \cap S /\ Wanted(S, q) \subseteq Wanted(T, q)
      /\ \A z : Tagged(S, z) \subseteq Tagged(T, z)
  BY DEF Wanted, Tagged
<1>2. PICK x \in Wanted(S, q) : s.vds.pd = x.is /\ Extreme(x, S, q)
  BY <1>0 DEF Collected, PartCollected
<1>3. Extreme(x, T, q)
  <2> SUFFICES ASSUME NEW y \in Wanted(T, q) \ {x} PROVE Before(x.at, y.at)
    BY DEF Extreme
  <2>1. CASE y \in S
    BY <1>1, <1>2, <2>1 DEF Extreme
  <2>2. CASE y \notin S
    <3>1. x \in S /\ y \in T
      BY DEF Wanted, Tagged
    <3> QED
      BY <2>2, <3>1
  <2> QED
    BY <2>1, <2>2
<1>4. PartCollected(T, q, s)
  BY <1>0, <1>1, <1>2, <1>3 DEF PartCollected
<1>5. PvdCollected(T, s) /\ LvdCollected(T, s)
  BY <1>0, <1>1 DEF Collected, PvdCollected, LvdCollected
<1> QED
  BY <1>4, <1>5 DEF Collected

-----------------------------------------------------------------------------
(* The search.  It is at a place in a sequence and has collected what is   *)
(* before it: behind the main sequence, when that one was incomplete, the  *)
(* reserve sequence.                                                       *)
Complete(S, q) == Wanted(S, q) # {} /\ Tagged(S, "pvd") # {} /\ Tagged(S, "lvd") # {}
Area(s)  == IF s.area = "main" THEN 0 ELSE 1
Begin(s) == IF s.area = "main" THEN s.avdp.main ELSE s.avdp.reserve
Prior(v, s) == IF s.area = "main" THEN {} ELSE Sequence(v, 0, s.avdp.main)
OnlyThen(v, q, s) == s.area # "main" => ~Complete(Sequence(v, 0, s.avdp.main), q)
Place(v, s, n, i) ==
  /\ n \in 0 .. MaxHops /\ i \in Nat /\ i <= Reach(v, s.loc)
  /\ s.loc = Extents(v, Begin(s))[n]
  /\ s.lba = s.loc.lba + i
SearchAt(v, q, s, n, i) ==
  Place(v, s, n, i) /\ Collected(Prior(v, s) \cup Seen(v, Area(s), Begin(s), n, i), q, s)
SearchState(v, q, s) == OnlyThen(v, q, s) /\ \E n, i : SearchAt(v, q, s, n, i)

AfterSearch == {"validate", "bad_lvd"} \cup Validated
SearchStage  == pc = "search" => SearchState(View(o.disc, o.bad), request, o)
SearchDone   == pc \in AfterSearch => Collected(Descriptors, request, o) /\ Required \subseteq o.mask
SearchFailed == pc = "no_vds" => Collected(Descriptors, request, o) /\ ~(Required \subseteq o.mask)
Searched == SearchStage /\ SearchDone /\ SearchFailed

LEMMA CollectedSame ==
  ASSUME NEW S, NEW q, NEW s, NEW t, s.mask = t.mask, s.vds = t.vds, Collected(S, q, s)
  PROVE  Collected(S, q, t)
BY DEF Collected, PartCollected, PvdCollected, LvdCollected

LEMMA BeforeCut ==
  ASSUME NEW p \in Nat \X Nat \X Nat, NEW x \in Nat \X Nat \X Nat, NEW y \in Nat \X Nat \X Nat,
         Before(x, p), ~Before(y, p)
  PROVE  Before(x, y)
BY DEF Before

(* What the search has of an open that has found an anchor.                *)
LEMMA SearchTypes ==
  ASSUME Typed, Inv, pc = "search"
  PROVE  /\ o \in OpenRec(o.bad) /\ o.avdp \in Avdp /\ o.disc \in Discs /\ o.lba \in Nat
         /\ ViewTypes(View(o.disc, o.bad))
         /\ Begin(o) \in Loc /\ Area(o) \in {0, 1}
         /\ o.avdp.main \in Loc /\ o.avdp.reserve \in Loc
<1>1. o \in OpenRec(o.bad) /\ o.avdp \in Avdp /\ o.disc \in Discs
  BY DEF Typed, OpenTyped, AnchorKnown, Inv, DiscGiven
<1>2. o.avdp.main \in Loc /\ o.avdp.reserve \in Loc
  BY <1>1 DEF Avdp
<1> QED
  BY <1>1, <1>2, ViewTyped DEF Begin, Area, OpenRec

(* At the end of a sequence: the search goes on, or has found what counts. *)
LEMMA ReturnsCollected ==
  ASSUME NEW v, ViewTypes(v), NEW s, s.avdp.main \in Loc, s.avdp.reserve \in Loc,
         s.area \in {"main", "reserve"}, NEW bad, s \in OpenRec(bad),
         v = View(s.disc, s.bad), request' = request,
         OnlyThen(v, request, s),
         Collected(Prior(v, s) \cup Sequence(v, Area(s), Begin(s)), request, s),
         SearchReturns(s)
  PROVE  Searched'
<1> DEFINE q == request
           main == Sequence(v, 0, s.avdp.main)
<1>1. CASE s.area = "main" /\ ~(All \subseteq s.mask)
  <2> DEFINE r == s.avdp.reserve
  <2>1. pc' = "search" /\ o' = [s EXCEPT !.area = "reserve", !.loc = r, !.lba = r.lba]
    BY <1>1 DEF SearchReturns
  <2>2. Collected(main, q, s)
    BY <1>1 DEF Prior, Area, Begin
  <2>3. ~Complete(main, q)
    BY <1>1, <2>2 DEF Complete, Collected, PartCollected, PvdCollected, LvdCollected, All
  <2>4. /\ o'.area = "reserve" /\ o'.loc = r /\ o'.lba = r.lba /\ o'.avdp = s.avdp
        /\ o'.disc = s.disc /\ o'.bad = s.bad /\ o'.mask = s.mask /\ o'.vds = s.vds
    BY <2>1 DEF OpenRec
  <2>5. Seen(v, 1, r, 0, 0) = {}
    BY SeenNone
  <2>6. Extents(v, r)[0] = r /\ Reach(v, r) \in Nat /\ 0 \in 0 .. MaxHops /\ r.lba \in Nat
    BY ExtentsAre, ReachIs, BoundAssumption DEF Loc
  <2>7. Begin(o') = r /\ Area(o') = 1 /\ Prior(v, o') = main
    BY <2>4 DEF Begin, Area, Prior
  <2>8. Place(v, o', 0, 0)
    BY <2>4, <2>6, <2>7 DEF Place
  <2>9. Collected(main \cup {}, q, o')
    BY <2>2, <2>4, CollectedSame
  <2>10. OnlyThen(v, q, o')
    BY <2>3, <2>4 DEF OnlyThen
  <2>11. SearchAt(v, q, o', 0, 0)
    BY <2>5, <2>7, <2>8, <2>9 DEF SearchAt
  <2>12. SearchState(v, q, o')
    BY <2>10, <2>11 DEF SearchState
  <2> QED
    BY <2>1, <2>4, <2>12 DEF Searched, SearchStage, SearchDone, SearchFailed, AfterSearch,
       Validated
<1>2. CASE ~(s.area = "main" /\ ~(All \subseteq s.mask))
  <2>1. o' = s /\ pc' = IF Required \subseteq s.mask THEN "validate" ELSE "no_vds"
    BY <1>2 DEF SearchReturns
  <2>2. Found(v, q, s.avdp) = Prior(v, s) \cup Sequence(v, Area(s), Begin(s))
    <3>1. CASE s.area = "main"
      <4>1. Prior(v, s) \cup Sequence(v, Area(s), Begin(s)) = main
        BY <3>1 DEF Prior, Area, Begin
      <4>2. Complete(main, q)
        BY <1>2, <3>1, <4>1 DEF Complete, Collected, PartCollected, PvdCollected, LvdCollected, All
      <4> QED
        BY <4>1, <4>2 DEF Found, Complete
    <3>2. CASE s.area = "reserve"
      BY <3>2 DEF Prior, Area, Begin, OnlyThen, Found, Complete
    <3> QED
      BY <3>1, <3>2
  <2>3. Descriptors' = Found(v, q, s.avdp)
    BY <2>1 DEF Descriptors
  <2> QED
    BY <2>1, <2>2, <2>3 DEF Searched, SearchStage, SearchDone, SearchFailed, AfterSearch,
       Validated
<1> QED
  BY <1>1, <1>2

LEMMA EndCollected ==
  ASSUME Typed, Inv, Searched, SearchEnd
  PROVE  Searched'
<1> DEFINE v == View(o.disc, o.bad)
           e == Extents(v, Begin(o))
<1>0. /\ pc = "search" /\ request' = request /\ SearchReturns(o)
      /\ o.lba >= o.loc.lba + o.loc.blocks \/ Read(o.lba).tag = "td"
  BY DEF SearchEnd, Kept
<1>1. /\ o \in OpenRec(o.bad) /\ ViewTypes(v) /\ Begin(o) \in Loc /\ Area(o) \in {0, 1}
      /\ o.avdp.main \in Loc /\ o.avdp.reserve \in Loc /\ o.area \in {"main", "reserve"}
  BY <1>0, SearchTypes DEF OpenRec
<1>2. SearchState(v, request, o)
  BY <1>0 DEF Searched, SearchStage
<1>3. PICK n, i : SearchAt(v, request, o, n, i)
  BY <1>2 DEF SearchState
<1>4. /\ n \in 0 .. MaxHops /\ i \in Nat /\ i <= Reach(v, o.loc)
      /\ o.loc = e[n] /\ o.lba = o.loc.lba + i
  BY <1>3 DEF SearchAt, Place
<1>5. o.loc \in Loc /\ o.loc.lba \in Nat /\ o.loc.blocks \in Nat
  BY <1>1 DEF OpenRec, Loc
<1>6. /\ Reach(v, o.loc) \in Nat /\ Reach(v, o.loc) <= o.loc.blocks
      /\ \A j \in 0 .. Reach(v, o.loc) - 1 : ~EndsAt(v, o.loc, j)
  BY <1>5, ReachIs
<1>7. i = Reach(v, o.loc) /\ Following(v, o.loc) = NoLoc
  <2>1. CASE o.lba >= o.loc.lba + o.loc.blocks
    <3>1. i = Reach(v, o.loc) /\ ~(Reach(v, o.loc) < o.loc.blocks)
      BY <1>4, <1>5, <1>6, <2>1
    <3> QED
      BY <3>1 DEF Following
  <2>2. CASE Read(o.lba).tag = "td"
    <3>1. BlockAt(v, o.loc.lba + i).tag = "td"
      BY <1>4, <2>2 DEF Read
    <3>2. EndsAt(v, o.loc, i)
      BY <3>1 DEF EndsAt
    <3>3. i = Reach(v, o.loc)
      BY <1>4, <1>6, <3>2
    <3> QED
      BY <3>1, <3>3 DEF Following
  <2> QED
    BY <1>0, <2>1, <2>2
<1>8. Seen(v, Area(o), Begin(o), n, i) = Sequence(v, Area(o), Begin(o))
  BY <1>1, <1>4, <1>7, SeenAll
<1>9. Collected(Prior(v, o) \cup Sequence(v, Area(o), Begin(o)), request, o)
  BY <1>3, <1>8 DEF SearchAt
<1>10. OnlyThen(v, request, o)
  BY <1>2 DEF SearchState
<1> HIDE DEF v
<1> QED
  BY <1>0, <1>1, <1>9, <1>10, ReturnsCollected DEF v

LEMMA PointerCollected ==
  ASSUME Typed, Inv, Searched, SearchPointer
  PROVE  Searched'
<1> DEFINE v == View(o.disc, o.bad)
           e == Extents(v, Begin(o))
           b == Read(o.lba)
<1>0. /\ pc = "search" /\ pc' = pc /\ request' = request /\ b.tag = "vdp"
      /\ o.lba < o.loc.lba + o.loc.blocks
      /\ o' = [o EXCEPT !.loc = b.next, !.lba = b.next.lba]
  BY DEF SearchPointer, Kept
<1>1. /\ o \in OpenRec(o.bad) /\ o.disc \in Discs /\ ViewTypes(v) /\ Begin(o) \in Loc
      /\ Area(o) \in {0, 1}
  BY <1>0, SearchTypes
<1>2. SearchState(v, request, o)
  BY <1>0 DEF Searched, SearchStage
<1>3. PICK n, i : SearchAt(v, request, o, n, i)
  BY <1>2 DEF SearchState
<1>4. /\ n \in 0 .. MaxHops /\ i \in Nat /\ i <= Reach(v, o.loc)
      /\ o.loc = e[n] /\ o.lba = o.loc.lba + i
  BY <1>3 DEF SearchAt, Place
<1>5. o.loc \in Loc /\ o.loc.lba \in Nat /\ o.loc.blocks \in Nat
  BY <1>1 DEF OpenRec, Loc
<1>6. /\ Reach(v, o.loc) \in Nat
      /\ \A j \in 0 .. Reach(v, o.loc) - 1 : ~EndsAt(v, o.loc, j)
  BY <1>5, ReachIs
<1>7. BlockAt(v, o.loc.lba + i) = b /\ i < o.loc.blocks
  BY <1>0, <1>4, <1>5 DEF Read
<1>8. i = Reach(v, o.loc)
  <2>1. EndsAt(v, o.loc, i)
    BY <1>0, <1>7 DEF EndsAt
  <2> QED
    BY <1>4, <1>6, <2>1
<1>9. Following(v, o.loc) = b.next
  BY <1>0, <1>7, <1>8 DEF Following
<1>10. n < MaxHops
  BY <1>0, <1>1, <1>4, <1>7, PointersEnd
<1>11. n \in Nat /\ n \in 0 .. MaxHops - 1 /\ n + 1 \in 0 .. MaxHops
  BY <1>4, <1>10, BoundAssumption
<1>12. e[n + 1] = b.next /\ e[n + 1] \in Loc
  BY <1>1, <1>4, <1>9, <1>11, ExtentsAre
<1>13. /\ o'.loc = b.next /\ o'.lba = b.next.lba
       /\ o'.disc = o.disc /\ o'.bad = o.bad /\ o'.avdp = o.avdp /\ o'.area = o.area
       /\ o'.mask = o.mask /\ o'.vds = o.vds
  BY <1>0, <1>1 DEF OpenRec
<1>14. Begin(o') = Begin(o) /\ Area(o') = Area(o) /\ Prior(v, o') = Prior(v, o)
  BY <1>13 DEF Begin, Area, Prior
<1>15. Place(v, o', n + 1, 0)
  <2>1. b.next \in Loc /\ b.next.lba \in Nat /\ Reach(v, b.next) \in Nat
    BY <1>12, ReachIs DEF Loc
  <2> QED
    BY <1>11, <1>12, <1>13, <1>14, <2>1 DEF Place
<1>16. Seen(v, Area(o), Begin(o), n + 1, 0) = Seen(v, Area(o), Begin(o), n, i)
  BY <1>1, <1>4, <1>8, <1>10, SeenOn
<1> HIDE DEF v, e, b
<1>17. SearchAt(v, request, o', n + 1, 0)
  BY <1>3, <1>13, <1>14, <1>15, <1>16, CollectedSame DEF SearchAt
<1>18. OnlyThen(v, request, o')
  BY <1>2, <1>13 DEF SearchState, OnlyThen
<1>19. SearchState(v, request, o')
  BY <1>17, <1>18 DEF SearchState
<1> QED
  BY <1>0, <1>13, <1>19 DEF v, Searched, SearchStage, SearchDone, SearchFailed, AfterSearch,
     Validated

LEMMA BlockCollected ==
  ASSUME Typed, Inv, Searched, SearchBlock
  PROVE  Searched'
<1> DEFINE v == View(o.disc, o.bad)
           e == Extents(v, Begin(o))
           b == Read(o.lba)
           s == Take(b)
<1>0. /\ pc = "search" /\ request' = request /\ b.tag \notin {"td", "vdp"}
      /\ o.lba < o.loc.lba + o.loc.blocks
      /\ IF All \subseteq s.mask /\ request # Last
           THEN SearchReturns(s)
           ELSE o' = [s EXCEPT !.lba = @ + 1] /\ pc' = pc
  BY DEF SearchBlock, Kept
<1>1. /\ o \in OpenRec(o.bad) /\ OpenTyped /\ ViewTypes(v) /\ Begin(o) \in Loc /\ Area(o) \in {0, 1}
      /\ o.avdp.main \in Loc /\ o.avdp.reserve \in Loc /\ o.area \in {"main", "reserve"}
  BY <1>0, SearchTypes DEF OpenRec, Typed
<1>2. SearchState(v, request, o)
  BY <1>0 DEF Searched, SearchStage
<1>3. PICK n, i : SearchAt(v, request, o, n, i)
  BY <1>2 DEF SearchState
<1>4. /\ n \in 0 .. MaxHops /\ i \in Nat /\ i <= Reach(v, o.loc)
      /\ o.loc = e[n] /\ o.lba = o.loc.lba + i
  BY <1>3 DEF SearchAt, Place
<1>5. o.loc \in Loc /\ o.loc.lba \in Nat /\ o.loc.blocks \in Nat
  BY <1>1 DEF OpenRec, Loc
<1>6. /\ Reach(v, o.loc) \in Nat
      /\ Reach(v, o.loc) = o.loc.blocks \/ EndsAt(v, o.loc, Reach(v, o.loc))
  BY <1>5, ReachIs
<1>7. BlockAt(v, o.loc.lba + i) = b /\ i < o.loc.blocks
  BY <1>0, <1>4, <1>5 DEF Read
<1>8. i < Reach(v, o.loc)
  <2>1. ~EndsAt(v, o.loc, i)
    BY <1>0, <1>7 DEF EndsAt
  <2> QED
    BY <1>4, <1>6, <1>7, <2>1
<1> DEFINE x == ItemAt(v, Area(o), Begin(o), n, i)
           S == Prior(v, o) \cup Seen(v, Area(o), Begin(o), n, i)
           T == Prior(v, o) \cup Seen(v, Area(o), Begin(o), n, i + 1)
           W == Prior(v, o) \cup Sequence(v, Area(o), Begin(o))
<1>9. x.is = b /\ x.at = <<Area(o), n, i>>
  BY <1>4, <1>7 DEF ItemAt
<1>10. T = S \cup {x}
  <2>1. Seen(v, Area(o), Begin(o), n, i + 1) = Seen(v, Area(o), Begin(o), n, i) \cup {x}
    BY <1>1, <1>4, <1>8, SeenMore
  <2> QED
    BY <2>1
<1>11. \A y \in Prior(v, o) : y.at \in {0} \X Nat \X Nat /\ Area(o) = 1
  BY <1>1, PlacesAre DEF Prior, Area
<1>12. n \in Nat /\ i + 1 \in Nat
  BY <1>4, BoundAssumption
<1>13. \A y \in S : Before(y.at, x.at)
  <2>1. \A y \in Seen(v, Area(o), Begin(o), n, i) : Before(y.at, x.at)
    BY <1>9 DEF Seen
  <2>2. \A y \in Prior(v, o) : Before(y.at, x.at)
    BY <1>4, <1>9, <1>11, <1>12 DEF Before
  <2> QED
    BY <2>1, <2>2
<1>14. Collected(S, request, o)
  BY <1>3 DEF SearchAt
<1>15. Collected(T, request, s)
  <2> HIDE DEF S, T, x, b
  <2>1. Collected(S \cup {x}, request, Take(x.is))
    BY <1>1, <1>13, <1>14, TakeCollects
  <2> QED
    BY <1>9, <1>10, <2>1
<1>16. /\ s \in OpenRec(o.bad) /\ s.disc = o.disc /\ s.bad = o.bad /\ s.avdp = o.avdp
       /\ s.area = o.area /\ s.loc = o.loc /\ s.lba = o.lba
  <2>1. b \in Any
    BY <1>1 DEF ViewTypes, Read
  <2> QED
    BY <1>1, <2>1, TakeTyped
<1>17. OnlyThen(v, request, o)
  BY <1>2 DEF SearchState
<1> HIDE DEF v, e, b, s, x
<1>18. /\ Begin(s) = Begin(o) /\ Area(s) = Area(o) /\ Prior(v, s) = Prior(v, o)
       /\ OnlyThen(v, request, s)
  BY <1>16, <1>17 DEF Begin, Area, Prior, OnlyThen
<1>19. CASE All \subseteq s.mask /\ request # Last
  <2>1. SearchReturns(s)
    BY <1>0, <1>19
  <2>2. T \subseteq W
    BY DEF Seen
  <2>3. \A y \in T, z \in W \ T : Before(y.at, z.at)
    <3> SUFFICES ASSUME NEW y \in T, NEW z \in W \ T PROVE Before(y.at, z.at)
      OBVIOUS
    <3>1. /\ z \in Sequence(v, Area(o), Begin(o)) /\ ~Before(z.at, <<Area(o), n, i + 1>>)
          /\ z.at \in {Area(o)} \X Nat \X Nat
      BY <1>1, PlacesAre DEF Seen
    <3>2. CASE y \in Prior(v, o)
      <4>1. y.at \in {0} \X Nat \X Nat /\ Area(o) = 1
        BY <1>11, <3>2
      <4> QED
        BY <3>1, <4>1 DEF Before
    <3>3. CASE y \in Seen(v, Area(o), Begin(o), n, i + 1)
      <4>1. y \in Sequence(v, Area(o), Begin(o)) /\ Before(y.at, <<Area(o), n, i + 1>>)
        BY <3>3 DEF Seen
      <4>2. y.at \in {Area(o)} \X Nat \X Nat
        BY <1>1, <4>1, PlacesAre
      <4>3. /\ <<Area(o), n, i + 1>> \in Nat \X Nat \X Nat /\ y.at \in Nat \X Nat \X Nat
            /\ z.at \in Nat \X Nat \X Nat
        BY <1>1, <1>12, <3>1, <4>2
      <4> QED
        BY <3>1, <4>1, <4>3, BeforeCut
    <3> QED
      BY <3>2, <3>3
  <2> HIDE DEF T, W
  <2>4. Collected(W, request, s)
    BY <1>15, <1>19, <2>2, <2>3, RestIsLeftOut
  <2>5. Collected(Prior(v, s) \cup Sequence(v, Area(s), Begin(s)), request, s)
    BY <1>18, <2>4 DEF W
  <2>6. v = View(s.disc, s.bad)
    BY <1>16 DEF v
  <2> QED
    BY <1>0, <1>1, <1>16, <1>18, <2>1, <2>5, <2>6, ReturnsCollected
<1>20. CASE ~(All \subseteq s.mask /\ request # Last)
  <2>1. o' = [s EXCEPT !.lba = s.lba + 1] /\ pc' = "search"
    BY <1>0, <1>16, <1>20 DEF OpenRec
  <2>2. /\ o'.loc = o.loc /\ o'.lba = o.lba + 1
        /\ o'.disc = o.disc /\ o'.bad = o.bad /\ o'.avdp = o.avdp /\ o'.area = o.area
        /\ o'.mask = s.mask /\ o'.vds = s.vds
    BY <1>16, <2>1 DEF OpenRec
  <2>3. /\ Begin(o') = Begin(o) /\ Area(o') = Area(o) /\ Prior(v, o') = Prior(v, o)
        /\ OnlyThen(v, request, o')
    BY <1>17, <2>2 DEF Begin, Area, Prior, OnlyThen
  <2>4. Place(v, o', n, i + 1)
    <3>1. o.lba + 1 = o.loc.lba + (i + 1) /\ i + 1 <= Reach(v, o.loc)
      BY <1>4, <1>5, <1>6, <1>8
    <3> QED
      BY <1>4, <1>12, <2>2, <2>3, <3>1 DEF Place, e
  <2>5. Collected(T, request, o')
    BY <1>15, <2>2, CollectedSame
  <2>6. SearchAt(v, request, o', n, i + 1)
    BY <2>3, <2>4, <2>5 DEF SearchAt
  <2>7. SearchState(v, request, o')
    BY <2>3, <2>6 DEF SearchState
  <2> QED
    BY <1>0, <2>1, <2>2, <2>7 DEF v, Searched, SearchStage, SearchDone, SearchFailed, AfterSearch,
       Validated
<1> QED
  BY <1>19, <1>20

(* Before the search there is nothing to say, after it nothing changes.    *)
LEMMA SearchedKept ==
  ASSUME Searched, UNCHANGED request, o'.disc = o.disc, o'.bad = o.bad, o'.avdp = o.avdp,
         o'.mask = o.mask, o'.vds = o.vds, pc \in AfterSearch, pc' \in AfterSearch
  PROVE  Searched'
<1>1. Collected(Descriptors, request, o) /\ Required \subseteq o.mask
  BY DEF Searched, SearchDone
<1>2. Descriptors' = Descriptors
  BY DEF Descriptors
<1>3. Collected(Descriptors', request', o')
  BY <1>1, <1>2, CollectedSame
<1>4. pc' # "search" /\ pc' # "no_vds"
  BY DEF AfterSearch, Validated
<1> QED
  BY <1>1, <1>3, <1>4 DEF Searched, SearchStage, SearchDone, SearchFailed

LEMMA AnchorCollected ==
  ASSUME Typed, Inv, _read_avdp
  PROVE  Searched'
<1>1. Typed'
  BY AnchorTyped
<1>2. pc' \in {"no_anchor", "search"} /\ pc = "anchor"
  BY DEF _read_avdp
<1>3. CASE pc' = "search"
  <2>1. PICK a : o' = FoundAnchor(a)
    BY <1>3 DEF _read_avdp
  <2>2. /\ o \in OpenRec(o.bad) /\ o' \in OpenRec(o'.bad) /\ o'.avdp \in Avdp
    BY <1>1, <1>3 DEF Typed, OpenTyped, AnchorKnown
  <2>3. /\ o'.avdp = a /\ o'.area = "main" /\ o'.loc = a.main /\ o'.lba = a.main.lba
        /\ o'.vds = Zeroed /\ o'.mask = {} /\ o'.disc = o.disc /\ o'.bad = o.bad
    BY <2>1, <2>2 DEF FoundAnchor, OpenRec
  <2> DEFINE v == View(o.disc, o.bad)
             r == a.main
  <2>4. ViewTypes(v) /\ r \in Loc /\ r.lba \in Nat
    BY <1>2, <2>2, <2>3, ReadTyped DEF Avdp, Loc
  <2>5. Begin(o') = r /\ Area(o') = 0 /\ Prior(v, o') = {} /\ OnlyThen(v, request, o')
    BY <2>3 DEF Begin, Area, Prior, OnlyThen
  <2>6. Seen(v, 0, r, 0, 0) = {}
    BY <2>4, SeenNone
  <2>7. Extents(v, r)[0] = r /\ Reach(v, r) \in Nat /\ 0 \in 0 .. MaxHops
    BY <2>4, ExtentsAre, ReachIs, BoundAssumption
  <2>8. Place(v, o', 0, 0)
    BY <2>3, <2>4, <2>5, <2>7 DEF Place
  <2>9. Collected({} \cup {}, request, o')
    BY <2>3 DEF Collected, PartCollected, PvdCollected, LvdCollected, Wanted, Tagged
  <2>10. SearchAt(v, request, o', 0, 0)
    BY <2>5, <2>6, <2>8, <2>9 DEF SearchAt
  <2>11. SearchState(v, request, o')
    BY <2>5, <2>10 DEF SearchState
  <2>12. request' = request
    BY DEF _read_avdp, Kept
  <2> QED
    BY <1>3, <2>3, <2>11, <2>12 DEF Searched, SearchStage, SearchDone, SearchFailed, AfterSearch,
       Validated
<1>4. CASE pc' = "no_anchor"
  BY <1>4 DEF Searched, SearchStage, SearchDone, SearchFailed, AfterSearch, Validated
<1> QED
  BY <1>2, <1>3, <1>4

LEMMA SearchedStep ==
  ASSUME Typed, Inv, Searched, [Next]_vars
  PROVE  Searched'
<1>1. CASE pc' \in {"idle", "probe", "anchor", "already_open", "not_recognized", "no_anchor"}
  BY <1>1 DEF Searched, SearchStage, SearchDone, SearchFailed, AfterSearch, Validated
<1>2. CASE Call \/ OpenFailed \/ OpenDone
  <2>1. pc' \in {"idle", "probe", "already_open"} \/ UNCHANGED <<pc, o, request>>
    BY <1>2 DEF Call, OpenFailed, OpenDone, udfread_init, udfread_select_partition,
       udfread_open_input, udfread_open, Open, Start, udfread_close
  <2> QED
    BY <1>1, <2>1 DEF Searched, SearchStage, SearchDone, SearchFailed, Descriptors
<1>3. CASE udf_probe_volume
  <2>1. pc' \in {"probe", "anchor", "not_recognized"}
    BY <1>3 DEF udf_probe_volume
  <2> QED
    BY <1>1, <2>1
<1>4. CASE SearchEnd \/ SearchPointer \/ SearchBlock
  BY <1>4, EndCollected, PointerCollected, BlockCollected
<1>5. CASE \/ udf_validate_logical_volume \/ MapType1 \/ MapType2 \/ MapOther \/ MapsEnd
           \/ FindFsd \/ RootStep
  <2>1. o \in OpenRec(o.bad)
    BY DEF Typed, OpenTyped
  <2>2. pc \in AfterSearch /\ pc' \in AfterSearch /\ UNCHANGED request
    BY <1>5, RootStepIs DEF udf_validate_logical_volume, MapType1, MapType2, MapOther, MapsEnd,
       FindFsd, Kept, AfterSearch, Validated
  <2>4. /\ o'.disc = o.disc /\ o'.bad = o.bad /\ o'.avdp = o.avdp
        /\ o'.mask = o.mask /\ o'.vds = o.vds
    <3>1. CASE udf_validate_logical_volume
      <4>1. o' = o \/ (\E t : o' = [o EXCEPT !.map = 1, !.type1 = FALSE, !.short = t])
        BY <3>1, Zenon DEF udf_validate_logical_volume
      <4> QED
        BY <2>1, <4>1 DEF OpenRec
    <3>2. CASE MapType1 \/ MapType2 \/ MapOther
      BY <2>1, <3>2, MapStepIs DEF OpenRec
    <3>3. CASE MapsEnd \/ FindFsd
      <4>1. \/ o' = o \/ (\E x : o' = [o EXCEPT !.lba = x]) \/ (\E x : o' = [o EXCEPT !.icb = x])
        BY <3>3, Zenon DEF MapsEnd, FindFsd
      <4> QED
        BY <2>1, <4>1 DEF OpenRec
    <3>4. CASE RootStep
      BY <2>1, <3>4, RootStepIs DEF OpenRec
    <3> QED
      BY <1>5, <3>1, <3>2, <3>3, <3>4
  <2> QED
    BY <2>2, <2>4, SearchedKept
<1>6. CASE UNCHANGED vars
  BY <1>6 DEF vars, Searched, SearchStage, SearchDone, SearchFailed, Descriptors
<1> QED
  BY <1>2, <1>3, <1>4, <1>5, <1>6, AnchorCollected DEF Next, Work,
     RootStep

LEMMA InitSearched == Init => Searched
BY DEF Init, Searched, SearchStage, SearchDone, SearchFailed, AfterSearch, Validated

(* Two descriptors at the same end of the order are one.                   *)
LEMMA ChosenIs ==
  ASSUME NEW S, NEW q, NEW x \in Wanted(S, q), Extreme(x, S, q),
         \A y \in S : y.at \in Nat \X Nat \X Nat
  PROVE  Chosen(S, q) = x
<1> DEFINE c == Chosen(S, q)
<1>1. c \in Wanted(S, q) /\ Extreme(c, S, q)
  BY DEF Chosen, Extreme
<1> HIDE DEF c
<1>2. c.at \in Nat \X Nat \X Nat /\ x.at \in Nat \X Nat \X Nat
  BY <1>1 DEF Wanted, Tagged
<1>3. ~(Before(c.at, x.at) /\ Before(x.at, c.at))
  BY <1>2 DEF Before
<1>4. c # x => Before(c.at, x.at) /\ Before(x.at, c.at)
  BY <1>1 DEF Extreme
<1> QED
  BY <1>3, <1>4 DEF c

(* The search ends with the partition descriptor that was asked for, and   *)
(* volume descriptors that are among the readable ones; it fails only when *)
(* one of the three is not there: early end, reserve sequence, pointers    *)
(* and unreadable blocks do not matter.                                    *)
THEOREM SearchesAreRight == Spec => []SearchIsRight
<1>1. Typed /\ Inv /\ Searched /\ [Next]_vars => Typed' /\ Searched'
  BY TypedStep, SearchedStep
<1>2. Typed /\ Inv /\ Searched => SearchIsRight
  <2> SUFFICES ASSUME Typed, Inv, Searched PROVE SearchIsRight
    OBVIOUS
  <2> DEFINE D == Descriptors
  <2>1. ASSUME pc = "validate"
        PROVE  /\ Wanted(D, request) # {}
               /\ o.vds.pd = Chosen(D, request).is
               /\ \A t \in {"pvd", "lvd"} :
                    \/ \E x \in Tagged(D, t) : o.vds[t] = x.is
                    \/ Tagged(D, t) = {} /\ o.vds[t] = Zeroed[t]
    <3>1. Collected(D, request, o) /\ "part" \in o.mask /\ "pvd" \in o.mask
      BY <2>1 DEF Searched, SearchDone, AfterSearch, Required
    <3>2. PICK x \in Wanted(D, request) : o.vds.pd = x.is /\ Extreme(x, D, request)
      BY <3>1 DEF Collected, PartCollected
    <3>3. o.avdp \in Avdp /\ o.disc \in Discs
      BY <2>1 DEF Typed, AnchorKnown, Inv, DiscGiven
    <3>4. \A y \in D : y.at \in Nat \X Nat \X Nat
      <4> DEFINE v == View(o.disc, o.bad)
      <4>1. ViewTypes(v) /\ o.avdp.main \in Loc /\ o.avdp.reserve \in Loc
        BY <3>3, ViewTyped DEF Avdp
      <4>2. D \subseteq Sequence(v, 0, o.avdp.main) \cup Sequence(v, 1, o.avdp.reserve)
        BY DEF Descriptors, Found
      <4>3. /\ \A y \in Sequence(v, 0, o.avdp.main) : y.at \in {0} \X Nat \X Nat
            /\ \A y \in Sequence(v, 1, o.avdp.reserve) : y.at \in {1} \X Nat \X Nat
        BY <4>1, PlacesAre
      <4> HIDE DEF v, D
      <4> QED
        BY <4>2, <4>3
    <3> HIDE DEF D
    <3>5. Chosen(D, request) = x
      BY <3>2, <3>4, ChosenIs
    <3> QED
      BY <3>1, <3>2, <3>5 DEF Collected, PartCollected, PvdCollected, LvdCollected
  <2>2. ASSUME pc = "no_vds" PROVE Wanted(D, request) = {} \/ Tagged(D, "pvd") = {}
    BY <2>2 DEF Searched, SearchFailed, Collected, PartCollected, PvdCollected, Required
  <2> HIDE DEF D
  <2>3. pc = "no_vds" =>
          Wanted(D, request) = {} \/ \E t \in {"pvd", "lvd"} : Tagged(D, t) = {}
    BY <2>2
  <2> QED
    BY <2>1, <2>3 DEF SearchIsRight, D
<1> QED
  BY <1>1, <1>2, InitTyped, InitSearched, Invariance, PTL DEF Spec

-----------------------------------------------------------------------------
(* The first attempt with a handle: what it finds in the handle is what    *)
(* udfread_init has put there.                                             *)
Untouched ==
  attempt = 0 \/ (attempt = 1 /\ pc \in {"probe", "anchor", "search", "validate"}) =>
    part = NoPart /\ root = <<>>
NotYet == attempt = 0 => pc = "idle"
NoEntries == attempt = 1 /\ pc \in {"maps", "fsd", "root"} => root = <<>>

(* The partition maps that have been seen, and what became of them.        *)
ItsOwn(m) == m.type = "type1" /\ m.ref = o.vds.pd.number
Meta(m, lost) == Resolved(NoPart.p[1], m, lost)
MetaPlaced(j, q, short) ==
  \E lost \in SUBSET {1, 2} :
    /\ lost # {} => "map" \in short
    /\ LET z == Meta(Maps[j], lost)
       IN IF z.lba = 0 THEN q.num <= 1 ELSE q.num = 2 /\ q.p[1] = [z EXCEPT !.number = j - 1]
MapsSeen ==
  /\ \A i \in 1 .. o.map - 1 : i \in DOMAIN Maps /\ Maps[i].type # "broken"
  /\ \A i \in 1 .. o.map - 1 : ItsOwn(Maps[i]) => o.type1
  /\ o.type1 => \E i \in 1 .. o.map - 1 :
       /\ ItsOwn(Maps[i])
       /\ part.p[0] = [number |-> i - 1, lba |-> o.vds.pd.start, mirror |-> 0]
  /\ (\A j \in 1 .. o.map - 1 : Maps[j].type # "type2") =>
       part.num <= 1 /\ part.p[1] = NoPart.p[1]
  /\ \A j \in 1 .. o.map - 1 : Maps[j].type = "type2" => MetaPlaced(j, part, o.short)

(* A partition is known at the places where the maps put it, or not at all *)
(* when they put it nowhere; when memory was short it may be known at some *)
(* of them only.                                                           *)
Places(p) == {p.lba} \cup (IF p.mirror # 0 THEN {p.mirror} ELSE {})
PlacedRight ==
  \A number \in Nat :
    \/ Index(number) = {} /\ ("map" \in o.short \/ Copies(number) = {})
    \/ \E k \in {0, 1} :
         /\ Index(number) = {k} /\ Places(part.p[k]) \subseteq Copies(number)
         /\ "map" \in o.short \/ Copies(number) = Places(part.p[k])

AfterMaps == {"fsd", "root", "names", "opened", "no_fsd", "no_root"}
LoopStage  == pc = "maps" /\ attempt = 1 /\ WellMapped => MapsSeen
PlaceStage == pc \in AfterMaps /\ attempt = 1 /\ WellMapped => PlacedRight

(* The blocks of the file set descriptor area that have been passed over.  *)
FsdBlock(l) == MetadataBlock(o.vds.lvd.fsd.part, l)
FsdPassed ==
  pc \in {"fsd", "no_fsd"} =>
    /\ o.vds.lvd.fsd.lba <= o.lba
    /\ \A l \in o.vds.lvd.fsd.lba .. o.lba - 1 : FsdBlock(l).tag \notin {"fsd", "td"}
FsdMissed ==
  pc = "no_fsd" =>
    o.lba >= o.vds.lvd.fsd.lba + o.vds.lvd.fsd.blocks \/ FsdBlock(o.lba).tag = "td"

(* What of the root directory has been read, and which of it is shown.     *)
Damaged(names) == \E i \in DOMAIN names : names[i] = "junk"
Sub(s, t, n) ==
  \E f \in [1 .. Len(s) -> 1 .. n] :
    /\ \A i, j \in 1 .. Len(s) : i < j => f[i] < f[j]
    /\ \A i \in 1 .. Len(s) : s[i] = t[f[i]]
RootShown ==
  pc \in {"names", "opened"} =>
    /\ RootList.tag = "fid"
    /\ o.next <= Len(RootData)
    /\ \A i \in 1 .. o.next : RootData[i] # "junk"
    /\ attempt = 1 => Sub(root, RootData, o.next)
    /\ attempt = 1 /\ "root" \notin o.short =>
         Len(root) = o.next /\ \A i \in 1 .. o.next : root[i] = RootData[i]
RootWhole  == pc = "opened" => o.next = Len(RootData)
RootMissed == pc = "no_root" => "root" \in o.short \/ Damaged(RootData)
RootRead   == RootShown /\ RootWhole /\ RootMissed

Identified ==
  pc \in Validated => volid = o.vds.pvd.id \/ ("volid" \in o.short /\ volid = "none")
RootKnown == pc \in {"root", "names", "opened", "no_root"} => o.icb \in Icb

FirstAttempt == Untouched /\ NotYet /\ NoEntries
Passed == FsdPassed /\ FsdMissed /\ RootRead /\ Identified /\ RootKnown
Opening == FirstAttempt /\ LoopStage /\ PlaceStage /\ Passed

(* What is read, and what is made of it, as long as the open has the same  *)
(* disc, descriptors and partitions.                                       *)
LEMMA SameBlocks ==
  ASSUME o'.disc = o.disc, o'.bad = o.bad, o'.vds = o.vds
  PROVE  /\ \A l : Read(l)' = Read(l)
         /\ Maps' = Maps
         /\ WellMapped' <=> WellMapped
         /\ \A n : Copies(n)' = Copies(n)
<1>1. \A l : Read(l)' = Read(l)
  BY DEF Read
<1>2. Maps' = Maps
  BY DEF Maps
<1>3. WellMapped' <=> WellMapped
  BY DEF WellMapped, Maps, Read
<1>4. \A n : Copies(n)' = Copies(n)
  BY DEF Copies, Starts, Entry, Maps, Read
<1> QED
  BY <1>1, <1>2, <1>3, <1>4

LEMMA SameParts ==
  ASSUME o'.disc = o.disc, o'.bad = o.bad, o'.vds = o.vds, part' = part
  PROVE  /\ \A n : Index(n)' = Index(n)
         /\ \A n, l : MetadataBlock(n, l)' = MetadataBlock(n, l)
         /\ \A n, l : AnyCopy(n, l)' = AnyCopy(n, l)
<1>1. \A n : Index(n)' = Index(n)
  BY DEF Index
<1>2. \A n, l : MetadataBlock(n, l)' = MetadataBlock(n, l)
  BY DEF MetadataBlock, Index, Read
<1>3. \A n, l : AnyCopy(n, l)' = AnyCopy(n, l)
  BY DEF AnyCopy, Copies, Starts, Entry, Maps, Read
<1> QED
  BY <1>1, <1>2, <1>3

(* The partition that was found begins somewhere behind block 0.           *)
LEMMA StartIs ==
  ASSUME Typed, Inv, Searched, pc \in AfterSearch
  PROVE  o.vds.pd.start \in Nat \ {0} /\ o.vds.pd \in PartitionVd
<1>1. Collected(Descriptors, request, o) /\ "part" \in o.mask
  BY DEF Searched, SearchDone, Required
<1>2. PICK x \in Wanted(Descriptors, request) : o.vds.pd = x.is
  BY <1>1 DEF Collected, PartCollected
<1>3. x \in Descriptors /\ x.is.tag = "pd"
  BY DEF Wanted, Tagged
<1>4. x.is \in Any
  <2> DEFINE v == View(o.disc, o.bad)
  <2>1. pc # "idle"
    BY DEF AfterSearch, Validated
  <2>2. ViewTypes(v)
    BY <2>1, ReadTyped
  <2>3. \/ \E n, i : x.is = BlockAt(v, Extents(v, o.avdp.main)[n].lba + i)
        \/ \E n, i : x.is = BlockAt(v, Extents(v, o.avdp.reserve)[n].lba + i)
    <3>1. x \in Sequence(v, 0, o.avdp.main) \/ x \in Sequence(v, 1, o.avdp.reserve)
      BY <1>3 DEF Descriptors, Found
    <3> QED
      BY <3>1, SequenceIs DEF ItemAt
  <2> QED
    BY <2>2, <2>3 DEF ViewTypes
<1>5. o.vds.pd \in PartitionVd
  BY <1>2, <1>3, <1>4, Tags
<1> QED
  BY <1>5 DEF PartitionVd

LEMMA FirstStep ==
  ASSUME Typed, FirstAttempt, [Next]_vars
  PROVE  FirstAttempt'
<1> USE DEF FirstAttempt, Untouched, NotYet, NoEntries
<1>0. attempt \in Nat
  BY BoundAssumption DEF Typed
<1>1. CASE udfread_init \/ (\E q \in Requests : udfread_select_partition(q)) \/ udfread_close
  BY <1>1 DEF udfread_init, udfread_select_partition, udfread_close
<1>2. ASSUME NEW path, NEW d, NEW bad, Open(path, d, bad) PROVE FirstAttempt'
  BY <1>0, <1>2 DEF Open, Start
<1>3. CASE udf_probe_volume
  BY <1>3 DEF udf_probe_volume, Kept
<1>4. CASE _read_avdp
  <2>1. pc = "anchor" /\ pc' \in {"no_anchor", "search"} /\ UNCHANGED <<part, root, attempt>>
    BY <1>4 DEF _read_avdp, Kept
  <2> QED
    BY <2>1
<1>5. CASE SearchEnd \/ SearchPointer \/ SearchBlock
  <2>1. /\ pc = "search" /\ pc' \in {"search", "validate", "no_vds"}
        /\ UNCHANGED <<part, root, attempt>>
    BY <1>5 DEF SearchEnd, SearchPointer, SearchBlock, SearchReturns, Kept
  <2> QED
    BY <2>1
<1>6. CASE udf_validate_logical_volume
  <2>1. /\ pc = "validate" /\ pc' \in {"maps", "bad_lvd"} /\ UNCHANGED <<part, root, attempt>>
    BY <1>6 DEF udf_validate_logical_volume
  <2> QED
    BY <2>1
<1>7. CASE MapType1 \/ MapType2 \/ MapOther
  <2>1. pc = "maps" /\ pc' = "maps" /\ UNCHANGED <<root, attempt>>
    BY <1>7 DEF MapType1, MapType2, MapOther, Kept
  <2> QED
    BY <2>1
<1>8. CASE MapsEnd \/ FindFsd
  <2>1. /\ pc \in {"maps", "fsd"} /\ pc' \in {"fsd", "no_type1", "root", "no_fsd"}
        /\ UNCHANGED <<root, attempt>>
    BY <1>8 DEF MapsEnd, FindFsd, Kept
  <2> QED
    BY <2>1
<1>9. CASE RootStep \/ OpenFailed \/ OpenDone
  <2>1. /\ pc # "idle" /\ pc' \in {"names", "opened", "no_root", "idle"} /\ UNCHANGED attempt
    BY <1>9, RootStepIs DEF OpenFailed, OpenDone, Failures
  <2> QED
    BY <2>1
<1>10. CASE UNCHANGED vars
  BY <1>10 DEF vars
<1> QED
  BY <1>1, <1>2, <1>3, <1>4, <1>5, <1>6, <1>7, <1>8, <1>9, <1>10
     DEF Next, Call, Work, RootStep, udfread_open, udfread_open_input

(* What of the file entry of a metadata file a partition takes over.       *)
LEMMA MetaIs ==
  ASSUME Typed, Inv, Searched, pc = "maps", NEW j \in DOMAIN Maps, Maps[j].type = "type2",
         NEW lost \in SUBSET {1, 2},
         LET b == Read(o.vds.pd.start + Maps[j].lba)
             c == Read(o.vds.pd.start + Maps[j].mirror)
         IN (b.tag = "efe" => b.type = "metadata") /\ (c.tag = "efe" => c.type = "mirror")
  PROVE  /\ Meta(Maps[j], lost) \in [number : Nat, lba : Nat, mirror : Nat]
         /\ Meta(Maps[j], lost).lba = 0 => (lost = {} => Starts(Maps[j]) = {})
         /\ Meta(Maps[j], lost).lba # 0 =>
              /\ Places(Meta(Maps[j], lost)) \subseteq Starts(Maps[j])
              /\ lost = {} => Starts(Maps[j]) = Places(Meta(Maps[j], lost))
<1> DEFINE start == o.vds.pd.start
           b0 == Read(start + Maps[j].lba)
           c0 == Read(start + Maps[j].mirror)
           b == EntryOf(Maps[j], 1, lost)
           c == EntryOf(Maps[j], 2, lost)
           p == Placed(NoPart.p[1], b)
           q == Placed(p, c)
           z == Meta(Maps[j], lost)
           Used == {start + x.ad : x \in {y \in {b, c} :
                      y.tag = "efe" /\ y.type \in {"metadata", "mirror"}}}
<1>0. /\ b = IF 1 \in lost THEN Unreadable ELSE b0
      /\ c = IF 2 \in lost THEN Unreadable ELSE c0
  BY DEF EntryOf
<1>1. start \in Nat \ {0}
  BY StartIs DEF AfterSearch, Validated
<1>2. b \in Any /\ c \in Any
  BY EntryTyped
<1>3. (b.tag = "efe" => b.ad \in Nat) /\ (c.tag = "efe" => c.ad \in Nat)
  BY <1>2, Tags
<1>3a. /\ b.tag = "efe" => start + b.ad \in Nat \ {0}
       /\ c.tag = "efe" => start + c.ad \in Nat \ {0}
  <2> HIDE DEF start, b, c
  <2> QED
    BY <1>1, <1>3
<1>4. (b.tag = "efe" => b.type = "metadata") /\ (c.tag = "efe" => c.type = "mirror")
  <2>1. (b0.tag = "efe" => b0.type = "metadata") /\ (c0.tag = "efe" => c0.type = "mirror")
    OBVIOUS
  <2>2. Unreadable.tag # "efe"
    BY DEF Unreadable
  <2> HIDE DEF b, c, b0, c0
  <2> QED
    BY <1>0, <2>1, <2>2
<1>5. /\ Used \subseteq Starts(Maps[j])
      /\ lost = {} => Used = Starts(Maps[j])
  <2>1. Starts(Maps[j]) = {start + x.ad : x \in {y \in {b0, c0} :
                             y.tag = "efe" /\ y.type \in {"metadata", "mirror"}}}
    BY DEF Starts, Entry
  <2>2. Unreadable.tag # "efe"
    BY DEF Unreadable
  <2> HIDE DEF b, c, b0, c0, start
  <2> QED
    BY <1>0, <2>1, <2>2
<1>6. z = Promoted(q)
  BY DEF Meta, Resolved
<1>7. NoPart.p[1] = [number |-> 0, lba |-> 0, mirror |-> 0]
  BY DEF NoPart
<1>8. p = [number |-> 0, lba |-> IF b.tag = "efe" THEN start + b.ad ELSE 0, mirror |-> 0]
  BY <1>4, <1>7 DEF Placed
<1> HIDE DEF p, b, c
<1>9. q = [number |-> 0, lba |-> p.lba, mirror |-> IF c.tag = "efe" THEN start + c.ad ELSE 0]
  BY <1>4, <1>8 DEF Placed
<1> HIDE DEF q, z
<1>10. z = IF q.lba = 0 THEN [number |-> 0, lba |-> q.mirror, mirror |-> 0] ELSE q
  <2>1. \A x, y :
          Promoted([number |-> 0, lba |-> x, mirror |-> y])
            = IF x = 0 THEN [number |-> 0, lba |-> y, mirror |-> 0]
              ELSE [number |-> 0, lba |-> x, mirror |-> y]
    BY DEF Promoted
  <2> QED
    BY <1>6, <1>9, <2>1
<1>11. CASE b.tag = "efe" /\ c.tag = "efe"
  <2>1. Used = {start + b.ad, start + c.ad}
    BY <1>4, <1>11
  <2>2. z = [number |-> 0, lba |-> start + b.ad, mirror |-> start + c.ad]
    BY <1>1, <1>3, <1>3a, <1>8, <1>9, <1>10, <1>11
  <2>3. start + b.ad \in Nat \ {0} /\ start + c.ad \in Nat \ {0}
    BY <1>3a, <1>11
  <2> HIDE DEF start, Used
  <2>4. z.lba # 0 /\ Places(z) = Used /\ z \in [number : Nat, lba : Nat, mirror : Nat]
    BY <2>1, <2>2, <2>3 DEF Places
  <2> QED
    BY <1>5, <2>4 DEF z
<1>12. CASE b.tag = "efe" /\ c.tag # "efe"
  <2>1. Used = {start + b.ad}
    BY <1>4, <1>12
  <2>2. z = [number |-> 0, lba |-> start + b.ad, mirror |-> 0]
    BY <1>1, <1>3, <1>3a, <1>8, <1>9, <1>10, <1>12
  <2>3. start + b.ad \in Nat \ {0}
    BY <1>3a, <1>12
  <2> HIDE DEF start, Used
  <2>4. z.lba # 0 /\ Places(z) = Used /\ z \in [number : Nat, lba : Nat, mirror : Nat]
    BY <2>1, <2>2, <2>3 DEF Places
  <2> QED
    BY <1>5, <2>4 DEF z
<1>13. CASE b.tag # "efe" /\ c.tag = "efe"
  <2>1. Used = {start + c.ad}
    BY <1>4, <1>13
  <2>2. z = [number |-> 0, lba |-> start + c.ad, mirror |-> 0]
    BY <1>1, <1>3, <1>3a, <1>8, <1>9, <1>10, <1>13
  <2>3. start + c.ad \in Nat \ {0}
    BY <1>3a, <1>13
  <2> HIDE DEF start, Used
  <2>4. z.lba # 0 /\ Places(z) = Used /\ z \in [number : Nat, lba : Nat, mirror : Nat]
    BY <2>1, <2>2, <2>3 DEF Places
  <2> QED
    BY <1>5, <2>4 DEF z
<1>14. CASE b.tag # "efe" /\ c.tag # "efe"
  <2>1. Used = {}
    BY <1>14
  <2>2. z = [number |-> 0, lba |-> 0, mirror |-> 0]
    BY <1>8, <1>9, <1>10, <1>14
  <2> HIDE DEF Used
  <2> QED
    BY <1>5, <2>1, <2>2 DEF z
<1> QED
  BY <1>11, <1>12, <1>13, <1>14

LEMMA SameMaps ==
  ASSUME o'.disc = o.disc, o'.bad = o.bad, o'.vds = o.vds
  PROVE  /\ \A m : ItsOwn(m)' <=> ItsOwn(m)
         /\ \A m, i, lost : EntryOf(m, i, lost)' = EntryOf(m, i, lost)
         /\ \A m, lost : Meta(m, lost)' = Meta(m, lost)
<1>1. \A m : ItsOwn(m)' <=> ItsOwn(m)
  BY DEF ItsOwn
<1>2. \A m, i, lost : EntryOf(m, i, lost)' = EntryOf(m, i, lost)
  BY DEF EntryOf, Read
<1>3. \A m, lost : Meta(m, lost)' = Meta(m, lost)
  BY DEF Meta, Resolved, Promoted, Placed, EntryOf, Read
<1> QED
  BY <1>1, <1>2, <1>3

(* One more map has been seen.                                             *)
LEMMA OneMore ==
  ASSUME pc = "maps", attempt = 1, WellMapped, MapsSeen,
         o.map \in DOMAIN Maps, Maps[o.map].type # "broken", o.map \in Nat \ {0},
         o'.disc = o.disc, o'.bad = o.bad, o'.vds = o.vds, o'.map = o.map + 1,
         \/ /\ ~ItsOwn(Maps[o.map]) \/ o.type1
            /\ Maps[o.map].type # "type2"
            /\ part' = part /\ o'.type1 = o.type1 /\ o'.short = o.short
         \/ /\ ItsOwn(Maps[o.map]) /\ ~o.type1 /\ o'.type1
            /\ part'.num = 1 /\ part'.p[1] = part.p[1]
            /\ part'.p[0] = [number |-> o.map - 1, lba |-> o.vds.pd.start, mirror |-> 0]
         \/ /\ Maps[o.map].type = "type2" /\ o'.type1 = o.type1 /\ part'.p[0] = part.p[0]
            /\ part.p[1] = NoPart.p[1] /\ part.num <= 1 => MetaPlaced(o.map, part', o'.short)
  PROVE  MapsSeen'
<1> DEFINE k == o.map
<1>1. /\ Maps' = Maps
      /\ \A m : ItsOwn(m)' <=> ItsOwn(m)
      /\ \A m, lost : Meta(m, lost)' = Meta(m, lost)
  BY SameBlocks, SameMaps
<1>2. k \in Nat \ {0} /\ o'.map = k + 1 /\ k \in DOMAIN Maps
  OBVIOUS
<1> HIDE DEF k
<1>3. \A i : i \in 1 .. o'.map - 1 <=> i \in 1 .. k - 1 \/ i = k
  BY <1>2
<1>4. \A i \in 1 .. k - 1 : i \in DOMAIN Maps /\ Maps[i].type # "broken" /\ i # k /\ i < k /\ ~(k < i)
  BY <1>2 DEF MapsSeen, k
<1>5. \A i, j \in DOMAIN Maps :
        /\ Maps[i].type = "type1" /\ Maps[j].type = "type1" => i = j \/ Maps[i].ref # Maps[j].ref
        /\ Maps[i].type = "type2" /\ Maps[j].type = "type2" => i = j
        /\ Maps[i].type = "type1" /\ Maps[j].type = "type2" => i < j
  BY DEF WellMapped
<1>6. MapsSeen' <=>
        /\ \A i \in 1 .. o'.map - 1 : i \in DOMAIN Maps /\ Maps[i].type # "broken"
        /\ \A i \in 1 .. o'.map - 1 : ItsOwn(Maps[i]) => o'.type1
        /\ o'.type1 => \E i \in 1 .. o'.map - 1 :
             /\ ItsOwn(Maps[i])
             /\ part'.p[0] = [number |-> i - 1, lba |-> o.vds.pd.start, mirror |-> 0]
        /\ (\A j \in 1 .. o'.map - 1 : Maps[j].type # "type2") =>
             part'.num <= 1 /\ part'.p[1] = NoPart.p[1]
        /\ \A j \in 1 .. o'.map - 1 : Maps[j].type = "type2" =>
             MetaPlaced(j, part', o'.short)
  <2>1. \A j : MetaPlaced(j, part, o.short)' <=> MetaPlaced(j, part', o'.short)
    BY <1>1 DEF MetaPlaced
  <2> QED
    BY <1>1, <2>1 DEF MapsSeen
<1>7. \A i \in 1 .. o'.map - 1 : i \in DOMAIN Maps /\ Maps[i].type # "broken"
  BY <1>2, <1>3, <1>4 DEF k
<1>8. /\ \A i \in 1 .. k - 1 : ItsOwn(Maps[i]) => o.type1
      /\ o.type1 => \E i \in 1 .. k - 1 :
           /\ ItsOwn(Maps[i])
           /\ part.p[0] = [number |-> i - 1, lba |-> o.vds.pd.start, mirror |-> 0]
      /\ (\A j \in 1 .. k - 1 : Maps[j].type # "type2") => part.num <= 1 /\ part.p[1] = NoPart.p[1]
      /\ \A j \in 1 .. k - 1 : Maps[j].type = "type2" =>
           MetaPlaced(j, part, o.short)
  BY DEF MapsSeen, k
<1>9. CASE /\ ~ItsOwn(Maps[k]) \/ o.type1
           /\ Maps[k].type # "type2"
           /\ part' = part /\ o'.type1 = o.type1 /\ o'.short = o.short
  <2>1. \A i \in 1 .. o'.map - 1 : ItsOwn(Maps[i]) => o'.type1
    BY <1>3, <1>8, <1>9
  <2>2. o'.type1 => \E i \in 1 .. o'.map - 1 :
          /\ ItsOwn(Maps[i])
          /\ part'.p[0] = [number |-> i - 1, lba |-> o.vds.pd.start, mirror |-> 0]
    BY <1>3, <1>8, <1>9
  <2>3. (\A j \in 1 .. o'.map - 1 : Maps[j].type # "type2") =>
          part'.num <= 1 /\ part'.p[1] = NoPart.p[1]
    BY <1>3, <1>8, <1>9
  <2>4. \A j \in 1 .. o'.map - 1 : Maps[j].type = "type2" =>
          MetaPlaced(j, part', o'.short)
    BY <1>3, <1>8, <1>9
  <2> QED
    BY <1>6, <1>7, <2>1, <2>2, <2>3, <2>4
<1>10. CASE /\ ItsOwn(Maps[k]) /\ ~o.type1 /\ o'.type1
            /\ part'.num = 1 /\ part'.p[1] = part.p[1]
            /\ part'.p[0] = [number |-> k - 1, lba |-> o.vds.pd.start, mirror |-> 0]
  <2>1. \A j \in 1 .. k - 1 : Maps[j].type # "type2"
    BY <1>2, <1>4, <1>5, <1>10 DEF ItsOwn
  <2>2. Maps[k].type # "type2"
    BY <1>10 DEF ItsOwn
  <2>3. part'.num <= 1 /\ part'.p[1] = NoPart.p[1]
    BY <1>8, <1>10, <2>1
  <2>4. \A j \in 1 .. o'.map - 1 : Maps[j].type # "type2"
    BY <1>3, <2>1, <2>2
  <2>5. \E i \in 1 .. o'.map - 1 :
          /\ ItsOwn(Maps[i])
          /\ part'.p[0] = [number |-> i - 1, lba |-> o.vds.pd.start, mirror |-> 0]
    BY <1>3, <1>10
  <2> QED
    BY <1>6, <1>7, <1>10, <2>3, <2>4, <2>5
<1>11. CASE /\ Maps[k].type = "type2" /\ o'.type1 = o.type1 /\ part'.p[0] = part.p[0]
            /\ part.p[1] = NoPart.p[1] /\ part.num <= 1 => MetaPlaced(k, part', o'.short)
  <2>1. \A j \in 1 .. k - 1 : Maps[j].type # "type2"
    BY <1>2, <1>4, <1>5, <1>11
  <2>2. part.num <= 1 /\ part.p[1] = NoPart.p[1]
    BY <1>8, <2>1
  <2>3. ~ItsOwn(Maps[k])
    BY <1>11 DEF ItsOwn
  <2>4. \A i \in 1 .. o'.map - 1 : ItsOwn(Maps[i]) => o'.type1
    BY <1>3, <1>8, <1>11, <2>3
  <2>5. o'.type1 => \E i \in 1 .. o'.map - 1 :
          /\ ItsOwn(Maps[i])
          /\ part'.p[0] = [number |-> i - 1, lba |-> o.vds.pd.start, mirror |-> 0]
    BY <1>3, <1>8, <1>11
  <2>6. ~(\A j \in 1 .. o'.map - 1 : Maps[j].type # "type2")
    BY <1>3, <1>11
  <2>7. \A j \in 1 .. o'.map - 1 : Maps[j].type = "type2" =>
          MetaPlaced(j, part', o'.short)
    BY <1>3, <1>11, <2>1, <2>2
  <2> QED
    BY <1>6, <1>7, <2>4, <2>5, <2>6, <2>7
<1> QED
  BY <1>9, <1>10, <1>11 DEF k

(* When all maps have been seen every partition is where it should be.     *)
LEMMA AllPlaced ==
  ASSUME Typed, Inv, Searched, pc = "maps", MapsSeen, WellMapped, o.type1,
         o.map <= Len(Maps) => Maps[o.map].type = "broken"
  PROVE  PlacedRight
<1> DEFINE start == o.vds.pd.start
<1>0. Maps \in Seq(Map) /\ o.map \in Nat \ {0} /\ start \in Nat \ {0}
  BY LogicalTyped, StartIs DEF Typed, MapsKnown, MapsCounted, AfterSearch, Validated
<1>1. DOMAIN Maps = 1 .. Len(Maps) /\ Len(Maps) \in Nat
  BY <1>0
<1>2. PICK i \in 1 .. o.map - 1 :
        /\ ItsOwn(Maps[i])
        /\ part.p[0] = [number |-> i - 1, lba |-> start, mirror |-> 0]
  BY DEF MapsSeen
<1>3. \A j \in 1 .. o.map - 1 : j \in DOMAIN Maps /\ j \in Nat
  BY <1>0 DEF MapsSeen
<1>4. \A j \in 1 .. o.map - 1 : Maps[j].type = "type2" =>
        MetaPlaced(j, part, o.short)
  BY DEF MapsSeen
<1>5. (\A j \in 1 .. o.map - 1 : Maps[j].type # "type2") => part.num <= 1
  BY DEF MapsSeen
<1>6. \A j \in 1 .. o.map - 1, lost \in SUBSET {1, 2} : Maps[j].type = "type2" =>
        /\ Meta(Maps[j], lost) \in [number : Nat, lba : Nat, mirror : Nat]
        /\ Meta(Maps[j], lost).lba = 0 => (lost = {} => Starts(Maps[j]) = {})
        /\ Meta(Maps[j], lost).lba # 0 =>
             /\ Places(Meta(Maps[j], lost)) \subseteq Starts(Maps[j])
             /\ lost = {} => Starts(Maps[j]) = Places(Meta(Maps[j], lost))
  <2> SUFFICES ASSUME NEW j \in 1 .. o.map - 1, NEW lost \in SUBSET {1, 2},
                      Maps[j].type = "type2"
               PROVE  /\ Meta(Maps[j], lost) \in [number : Nat, lba : Nat, mirror : Nat]
                      /\ Meta(Maps[j], lost).lba = 0 => (lost = {} => Starts(Maps[j]) = {})
                      /\ Meta(Maps[j], lost).lba # 0 =>
                           /\ Places(Meta(Maps[j], lost)) \subseteq Starts(Maps[j])
                           /\ lost = {} => Starts(Maps[j]) = Places(Meta(Maps[j], lost))
    OBVIOUS
  <2>1. j \in DOMAIN Maps
    BY <1>3
  <2>2. LET b == Read(o.vds.pd.start + Maps[j].lba)
            c == Read(o.vds.pd.start + Maps[j].mirror)
        IN (b.tag = "efe" => b.type = "metadata") /\ (c.tag = "efe" => c.type = "mirror")
    BY <2>1 DEF WellMapped
  <2> QED
    BY <2>1, <2>2, MetaIs
<1>7. \A j, k \in DOMAIN Maps :
        /\ ItsOwn(Maps[j]) /\ ItsOwn(Maps[k]) => j = k
        /\ Maps[j].type = "type2" /\ Maps[k].type = "type2" => j = k
        /\ Maps[j].type = "broken" => k <= j
  BY DEF WellMapped, ItsOwn
<1>8. \A j \in DOMAIN Maps : j \notin 1 .. o.map - 1 => Maps[j].type = "broken"
  <2> SUFFICES ASSUME NEW j \in DOMAIN Maps, j \notin 1 .. o.map - 1 PROVE Maps[j].type = "broken"
    OBVIOUS
  <2>1. o.map <= j /\ o.map <= Len(Maps) /\ o.map \in DOMAIN Maps /\ j \in Nat
    BY <1>0, <1>1
  <2>2. j <= o.map
    BY <1>7, <2>1
  <2>3. j = o.map
    BY <1>0, <2>1, <2>2
  <2> QED
    BY <2>1, <2>3
<1> HIDE DEF start
<1> SUFFICES ASSUME NEW number \in Nat
             PROVE  \/ Index(number) = {} /\ ("map" \in o.short \/ Copies(number) = {})
                    \/ \E k \in {0, 1} :
                         /\ Index(number) = {k} /\ Places(part.p[k]) \subseteq Copies(number)
                         /\ "map" \in o.short \/ Copies(number) = Places(part.p[k])
  BY DEF PlacedRight
<1>9. part.p[0].number = i - 1 /\ part.p[0].lba = start /\ part.p[0].mirror = 0
  BY <1>2
<1>10. i \in DOMAIN Maps /\ i \in Nat /\ number + 1 \in Nat
  BY <1>3
<1>11. CASE number + 1 = i
  <2>1. number = i - 1
    BY <1>10, <1>11
  <2>2. Index(number) = {0}
    BY <1>9, <2>1 DEF Index
  <2>3. Copies(number) = Starts(Maps[i])
    BY <1>10, <1>11 DEF Copies
  <2>4. Starts(Maps[i]) = {start}
    BY <1>2 DEF Starts, ItsOwn, start
  <2>5. Places(part.p[0]) = {start}
    BY <1>9 DEF Places
  <2> QED
    BY <2>2, <2>3, <2>4, <2>5
<1>12. CASE number + 1 # i /\ number + 1 \in 1 .. o.map - 1 /\ Maps[number + 1].type = "type2"
  <2> DEFINE j == number + 1
  <2>1. j \in 1 .. o.map - 1 /\ Maps[j].type = "type2" /\ j \in DOMAIN Maps /\ j - 1 = number
    BY <1>3, <1>12
  <2>2. Copies(number) = Starts(Maps[j])
    BY <2>1 DEF Copies
  <2>3. number # i - 1
    BY <1>10, <1>12
  <2>3a. PICK lost \in SUBSET {1, 2} :
          /\ lost # {} => "map" \in o.short
          /\ IF Meta(Maps[j], lost).lba = 0 THEN part.num <= 1
             ELSE part.num = 2 /\ part.p[1] = [Meta(Maps[j], lost) EXCEPT !.number = j - 1]
    BY <1>4, <2>1 DEF MetaPlaced
  <2> DEFINE z == Meta(Maps[j], lost)
  <2>3b. /\ z \in [number : Nat, lba : Nat, mirror : Nat]
         /\ z.lba = 0 => (lost = {} => Starts(Maps[j]) = {})
         /\ z.lba # 0 =>
              /\ Places(z) \subseteq Starts(Maps[j])
              /\ lost = {} => Starts(Maps[j]) = Places(z)
    BY <1>6, <2>1
  <2>3c. /\ lost # {} => "map" \in o.short
         /\ IF z.lba = 0 THEN part.num <= 1
            ELSE part.num = 2 /\ part.p[1] = [z EXCEPT !.number = j - 1]
    BY <2>3a
  <2> HIDE DEF z
  <2>4. CASE z.lba = 0
    <3>1. part.num \in Nat
      BY DEF Typed, Parts
    <3>2. part.num <= 1
      BY <2>3c, <2>4
    <3>3. Index(number) = {}
      BY <1>9, <2>3, <3>1, <3>2 DEF Index
    <3> QED
      BY <2>2, <2>3b, <2>3c, <2>4, <3>3
  <2>5. CASE z.lba # 0
    <3>1. part.num = 2 /\ part.p[1] = [z EXCEPT !.number = j - 1]
      BY <2>3c, <2>5
    <3>3. /\ part.p[1].number = number /\ part.p[1].lba = z.lba
          /\ part.p[1].mirror = z.mirror
      BY <2>1, <2>3b, <3>1
    <3>4. Index(number) = {1}
      BY <1>9, <2>3, <3>1, <3>3 DEF Index
    <3>5. Places(part.p[1]) = Places(z)
      BY <3>3 DEF Places
    <3> QED
      BY <2>2, <2>3b, <2>3c, <2>5, <3>4, <3>5
  <2> QED
    BY <2>4, <2>5
<1>13. CASE /\ number + 1 # i
            /\ ~(number + 1 \in 1 .. o.map - 1 /\ Maps[number + 1].type = "type2")
  <2>1. Copies(number) = {}
    <3>1. CASE number + 1 \in DOMAIN Maps
      <4> DEFINE m == Maps[number + 1]
      <4>1. m \in Map
        BY <1>0, <3>1
      <4>2. ~ItsOwn(m)
        BY <1>2, <1>7, <1>10, <1>13, <3>1
      <4>3. m.type # "type2"
        BY <1>8, <1>13, <3>1
      <4>4. Starts(m) = {}
        BY <4>2, <4>3 DEF Starts, ItsOwn
      <4> QED
        BY <3>1, <4>4 DEF Copies
    <3>2. CASE number + 1 \notin DOMAIN Maps
      BY <3>2 DEF Copies
    <3> QED
      BY <3>1, <3>2
  <2>2. number # i - 1
    BY <1>10, <1>13
  <2>3. ~(part.num > 1 /\ number = part.p[1].number)
    <3> SUFFICES ASSUME part.num > 1, number = part.p[1].number PROVE FALSE
      OBVIOUS
    <3>1. part.num \in Nat /\ ~(part.num <= 1)
      BY DEF Typed, Parts
    <3>2. PICK j \in 1 .. o.map - 1 : Maps[j].type = "type2"
      BY <1>5, <3>1
    <3>2a. PICK lost \in SUBSET {1, 2} :
             IF Meta(Maps[j], lost).lba = 0 THEN part.num <= 1
             ELSE part.num = 2 /\ part.p[1] = [Meta(Maps[j], lost) EXCEPT !.number = j - 1]
      BY <1>4, <3>2 DEF MetaPlaced
    <3>3. /\ part.p[1] = [Meta(Maps[j], lost) EXCEPT !.number = j - 1]
          /\ Meta(Maps[j], lost) \in [number : Nat, lba : Nat, mirror : Nat]
      BY <1>6, <3>1, <3>2, <3>2a
    <3>4. number = j - 1
      BY <3>3
    <3>5. number + 1 = j
      BY <1>3, <3>2, <3>4
    <3> QED
      BY <1>13, <3>2, <3>5
  <2>4. Index(number) = {}
    BY <1>9, <2>2, <2>3 DEF Index
  <2> QED
    BY <2>1, <2>4
<1> QED
  BY <1>11, <1>12, <1>13

LEMMA CallStage ==
  ASSUME Inv, Call
  PROVE  pc' \in {"idle", "probe", "already_open"}
BY DEF Call, udfread_init, udfread_select_partition, udfread_close, udfread_open,
   udfread_open_input, Open, Start, Inv, HandleGone

LEMMA LoopStep ==
  ASSUME Typed, Inv, FirstAttempt, LoopStage, Next
  PROVE  LoopStage'
<1> SUFFICES ASSUME pc' = "maps", attempt' = 1, WellMapped' PROVE MapsSeen'
  BY DEF LoopStage
<1>0. o \in OpenRec(o.bad) /\ OpenTyped
  BY DEF Typed, OpenTyped
<1>1. CASE udf_validate_logical_volume
  <2>0. /\ pc = "validate" /\ attempt = 1 /\ part' = part
    BY <1>1 DEF udf_validate_logical_volume
  <2>1. PICK t : o' = [o EXCEPT !.map = 1, !.type1 = FALSE, !.short = t]
    BY <1>1, Zenon DEF udf_validate_logical_volume
  <2>2. part = NoPart
    BY <2>0 DEF FirstAttempt, Untouched
  <2>3. o'.map = 1 /\ o'.type1 = FALSE
    BY <1>0, <2>1 DEF OpenRec
  <2>4. \A i : i \notin 1 .. o'.map - 1
    BY <2>3
  <2>5. part'.num <= 1 /\ part'.p[1] = NoPart.p[1]
    BY <2>0, <2>2 DEF NoPart
  <2> QED
    BY <2>3, <2>4, <2>5 DEF MapsSeen
<1>2. CASE MapType1 \/ MapType2 \/ MapOther
  <2>0. /\ pc = "maps" /\ attempt = 1 /\ o.map <= Len(Maps) /\ o.map \in Nat \ {0}
        /\ o.vds.lvd.valid /\ part \in Parts
    BY <1>2 DEF MapType1, MapType2, MapOther, Kept, Typed, MapsCounted, MapsKnown, Validated
  <2>1. o.map \in DOMAIN Maps
    BY <1>0, <2>0, LogicalTyped
  <2>3. o'.disc = o.disc /\ o'.bad = o.bad /\ o'.vds = o.vds /\ o'.map = o.map + 1
    BY <1>0, <1>2, MapStepIs DEF OpenRec
  <2>4. WellMapped /\ MapsSeen
    BY <2>0, <2>3, SameBlocks DEF LoopStage
  <2>5. CASE MapType1 /\ (o.type1 \/ Maps[o.map].ref # o.vds.pd.number)
    <3>1. /\ Maps[o.map].type = "type1" /\ part' = part /\ o' = [o EXCEPT !.map = @ + 1]
      BY <2>5 DEF MapType1
    <3>2. o'.type1 = o.type1 /\ o'.short = o.short /\ (~ItsOwn(Maps[o.map]) \/ o.type1)
      BY <1>0, <2>5, <3>1 DEF OpenRec, ItsOwn
    <3> QED
      BY <2>0, <2>1, <2>3, <2>4, <3>1, <3>2, OneMore
  <2>6. CASE MapType1 /\ ~(o.type1 \/ Maps[o.map].ref # o.vds.pd.number)
    <3> DEFINE x == [number |-> o.map - 1, lba |-> o.vds.pd.start, mirror |-> 0]
    <3>1. /\ Maps[o.map].type = "type1" /\ part' = [num |-> 1, p |-> [part.p EXCEPT ![0] = x]]
          /\ o' = [o EXCEPT !.map = @ + 1, !.type1 = TRUE]
      BY <2>6 DEF MapType1
    <3>2. o'.type1 = TRUE /\ ItsOwn(Maps[o.map]) /\ ~o.type1
      BY <1>0, <2>6, <3>1 DEF OpenRec, ItsOwn
    <3>3. part'.num = 1 /\ part'.p[1] = part.p[1] /\ part'.p[0] = x
      BY <2>0, <3>1 DEF Parts
    <3>4. Maps[o.map].type # "broken"
      BY <3>1
    <3> QED
      BY <2>0, <2>1, <2>3, <2>4, <3>2, <3>3, <3>4, OneMore
  <2>7. CASE MapType2
    <3>1. PICK lost \in SUBSET {i \in {1, 2} : EntryOf(Maps[o.map], i, {}).tag = "efe"} :
            LET p == Resolved(part.p[1], Maps[o.map], lost) IN
            /\ part' = IF p.lba = 0 THEN [part EXCEPT !.p[1] = p]
                       ELSE [num |-> 2, p |-> [part.p EXCEPT ![1] = [p EXCEPT !.number = o.map - 1]]]
            /\ o' = [o EXCEPT !.map = @ + 1, !.short = IF lost = {} THEN @ ELSE @ \cup {"map"}]
      BY <2>7, Zenon DEF MapType2
    <3> DEFINE m == Maps[o.map]
               p == Resolved(part.p[1], m, lost)
               x == [p EXCEPT !.number = o.map - 1]
               t == IF lost = {} THEN o.short ELSE o.short \cup {"map"}
    <3>2. part' = IF p.lba = 0 THEN [part EXCEPT !.p[1] = p]
                  ELSE [num |-> 2, p |-> [part.p EXCEPT ![1] = x]]
      BY <3>1
    <3>2a. o' = [o EXCEPT !.map = o.map + 1, !.short = t]
      BY <3>1
    <3>2b. m.type = "type2"
      BY <2>7 DEF MapType2
    <3>2c. lost \in SUBSET {1, 2} /\ (lost # {} => "map" \in t)
      BY <3>1
    <3> HIDE DEF t
    <3>3. o'.type1 = o.type1 /\ o'.short = t
      BY <1>0, <3>2a DEF OpenRec
    <3>4. part.p[1] = NoPart.p[1] => p = Meta(m, lost)
      BY DEF Meta
    <3> HIDE DEF p, x
    <3>5. part.p \in [{0, 1} -> [number : Nat, lba : Nat, mirror : Nat]]
      BY <2>0 DEF Parts
    <3>6. part'.p[0] = part.p[0]
      BY <2>0, <3>2, <3>5 DEF Parts
    <3>7. IF p.lba = 0 THEN part'.num = part.num ELSE part'.num = 2 /\ part'.p[1] = x
      BY <2>0, <3>2, <3>5 DEF Parts
    <3>8. part.p[1] = NoPart.p[1] /\ part.num <= 1 => MetaPlaced(o.map, part', o'.short)
      <4> SUFFICES ASSUME part.p[1] = NoPart.p[1], part.num <= 1
                   PROVE  MetaPlaced(o.map, part', o'.short)
        OBVIOUS
      <4>1. IF Meta(m, lost).lba = 0 THEN part'.num <= 1
            ELSE part'.num = 2 /\ part'.p[1] = [Meta(m, lost) EXCEPT !.number = o.map - 1]
        BY <3>4, <3>7 DEF x
      <4> QED
        BY <3>2c, <3>3, <4>1 DEF MetaPlaced
    <3>9. m.type # "broken"
      BY <3>2b
    <3> QED
      BY <2>0, <2>1, <2>3, <2>4, <3>2b, <3>3, <3>6, <3>8, <3>9, OneMore
  <2>8. CASE MapOther
    <3>1. /\ Maps[o.map].type = "other" /\ part' = part /\ o' = [o EXCEPT !.map = @ + 1]
      BY <2>8 DEF MapOther, Kept
    <3>2. o'.type1 = o.type1 /\ o'.short = o.short /\ ~ItsOwn(Maps[o.map])
      BY <1>0, <3>1 DEF OpenRec, ItsOwn
    <3> QED
      BY <2>0, <2>1, <2>3, <2>4, <3>1, <3>2, OneMore
  <2> QED
    BY <1>2, <2>5, <2>6, <2>7, <2>8
<1>3. CASE Call
  BY <1>3, CallStage
<1>4. CASE udf_probe_volume \/ _read_avdp
  BY <1>4 DEF udf_probe_volume, _read_avdp
<1>5. CASE SearchEnd \/ SearchPointer \/ SearchBlock
  BY <1>5 DEF SearchEnd, SearchPointer, SearchBlock, SearchReturns
<1>6. CASE MapsEnd \/ FindFsd \/ RootStep \/ OpenFailed \/ OpenDone
  BY <1>6, RootStepIs DEF MapsEnd, FindFsd, OpenFailed, OpenDone
<1> QED
  BY <1>1, <1>2, <1>3, <1>4, <1>5, <1>6 DEF Next, Work, RootStep

LEMMA SamePlaces ==
  ASSUME o'.disc = o.disc, o'.bad = o.bad, o'.vds = o.vds, part' = part
  PROVE  /\ PlacedRight /\ ("map" \in o.short <=> "map" \in o'.short) => PlacedRight'
         /\ \A l : FsdBlock(l)' = FsdBlock(l)
<1>1. PlacedRight /\ ("map" \in o.short <=> "map" \in o'.short) => PlacedRight'
  BY SameBlocks, SameParts DEF PlacedRight, Places
<1>2. \A l : FsdBlock(l)' = FsdBlock(l)
  BY DEF FsdBlock, MetadataBlock, Index, Read
<1> QED
  BY <1>1, <1>2

LEMMA SameRoot ==
  ASSUME o'.disc = o.disc, o'.bad = o.bad, o'.icb = o.icb, part' = part
  PROVE  RootData' = RootData /\ RootList' = RootList
BY DEF RootData, RootList, RootEntry, MetadataBlock, Index, Read

LEMMA RootStepKeeps ==
  ASSUME o \in OpenRec(o.bad), RootStep
  PROVE  /\ o'.disc = o.disc /\ o'.bad = o.bad /\ o'.vds = o.vds /\ o'.icb = o.icb
         /\ o'.short \in {o.short, o.short \cup {"root"}}
<1>1. /\ \A x : LET r == [o EXCEPT !.next = x]
              IN /\ r.disc = o.disc /\ r.bad = o.bad /\ r.vds = o.vds /\ r.icb = o.icb
                 /\ r.short = o.short
      /\ \A t : LET r == [o EXCEPT !.short = t]
              IN /\ r.disc = o.disc /\ r.bad = o.bad /\ r.vds = o.vds /\ r.icb = o.icb
                 /\ r.short = t
      /\ \A x, t : LET r == [o EXCEPT !.next = x, !.short = t]
                 IN /\ r.disc = o.disc /\ r.bad = o.bad /\ r.vds = o.vds /\ r.icb = o.icb
                    /\ r.short = t
  BY DEF OpenRec
<1>2. o.short \cup {} = o.short
  OBVIOUS
<1>3. CASE o' = o
  BY <1>3
<1>4. CASE o' = [o EXCEPT !.next = 0]
  BY <1>1, <1>4
<1>5. CASE o' = [o EXCEPT !.next = o.next + 1]
  BY <1>1, <1>5
<1>6. CASE o' = [o EXCEPT !.short = o.short \cup {"root"}]
  BY <1>1, <1>6
<1>7. CASE o' = [o EXCEPT !.short = o.short \cup {}]
  BY <1>1, <1>2, <1>7
<1>8. CASE o' = [o EXCEPT !.next = o.next + 1, !.short = o.short \cup {"root"}]
  BY <1>1, <1>8
<1> QED
  BY <1>3, <1>4, <1>5, <1>6, <1>7, <1>8, RootStepIs

LEMMA PlaceStep ==
  ASSUME Typed, Inv, Searched, LoopStage, PlaceStage, Next
  PROVE  PlaceStage'
<1> SUFFICES ASSUME pc' \in AfterMaps, attempt' = 1, WellMapped' PROVE PlacedRight'
  BY DEF PlaceStage
<1> USE DEF AfterMaps
<1>0. o \in OpenRec(o.bad)
  BY DEF Typed, OpenTyped
<1>1. CASE MapsEnd
  <2>1. /\ pc = "maps" /\ o.type1 /\ attempt = 1 /\ part' = part
        /\ o.map <= Len(Maps) => Maps[o.map].type = "broken"
        /\ o' = [o EXCEPT !.lba = o.vds.lvd.fsd.lba]
    BY <1>1 DEF MapsEnd, Kept
  <2>2. o'.disc = o.disc /\ o'.bad = o.bad /\ o'.vds = o.vds /\ o'.short = o.short
    BY <1>0, <2>1 DEF OpenRec
  <2>3. WellMapped
    BY <2>2, SameBlocks
  <2>4. MapsSeen
    BY <2>1, <2>3 DEF LoopStage
  <2>5. PlacedRight
    BY <2>1, <2>3, <2>4, AllPlaced
  <2> QED
    BY <2>1, <2>2, <2>5, SamePlaces
<1>2. CASE FindFsd \/ RootStep
  <2>1. pc \in {"fsd", "root", "names"} /\ attempt = 1 /\ part' = part
    BY <1>2, RootStepIs DEF FindFsd, Kept
  <2>3. /\ o'.disc = o.disc /\ o'.bad = o.bad /\ o'.vds = o.vds
        /\ "map" \in o.short <=> "map" \in o'.short
    <3>1. CASE FindFsd
      <4>1. o' = o \/ (\E x : o' = [o EXCEPT !.icb = x]) \/ o' = [o EXCEPT !.lba = o.lba + 1]
        BY <3>1, Zenon DEF FindFsd
      <4> QED
        BY <1>0, <4>1 DEF OpenRec
    <3>2. CASE RootStep
      <4>1. /\ o'.disc = o.disc /\ o'.bad = o.bad /\ o'.vds = o.vds
            /\ o'.short \in {o.short, o.short \cup {"root"}}
        BY <1>0, <3>2, RootStepKeeps
      <4> QED
        BY <4>1
    <3> QED
      BY <1>2, <3>1, <3>2
  <2>4. WellMapped
    BY <2>3, SameBlocks
  <2>5. PlacedRight
    BY <2>1, <2>4 DEF PlaceStage
  <2> QED
    BY <2>1, <2>3, <2>5, SamePlaces
<1>3. CASE Call
  BY <1>3, CallStage
<1>4. CASE udf_probe_volume \/ _read_avdp
  BY <1>4 DEF udf_probe_volume, _read_avdp
<1>5. CASE SearchEnd \/ SearchPointer \/ SearchBlock
  BY <1>5 DEF SearchEnd, SearchPointer, SearchBlock, SearchReturns
<1>6. CASE \/ udf_validate_logical_volume \/ MapType1 \/ MapType2 \/ MapOther
           \/ OpenFailed \/ OpenDone
  BY <1>6 DEF udf_validate_logical_volume, MapType1, MapType2, MapOther, OpenFailed, OpenDone, Kept
<1> QED
  BY <1>1, <1>2, <1>3, <1>4, <1>5, <1>6 DEF Next, Work, RootStep

(* Names that are shown stay in order when another one follows or is lost. *)
LEMMA SubGrows ==
  ASSUME NEW S, NEW s \in Seq(S), NEW t, NEW n \in Nat, Sub(s, t, n)
  PROVE  /\ Sub(s, t, n + 1)
         /\ t[n + 1] \in S => Sub(Append(s, t[n + 1]), t, n + 1)
<1>0. Len(s) \in Nat
  OBVIOUS
<1>1. PICK f \in [1 .. Len(s) -> 1 .. n] :
        /\ \A i, j \in 1 .. Len(s) : i < j => f[i] < f[j]
        /\ \A i \in 1 .. Len(s) : s[i] = t[f[i]]
  BY DEF Sub
<1>2. \A i \in 1 .. Len(s) : f[i] \in 1 .. n + 1 /\ f[i] < n + 1
  BY <1>1
<1>3. f \in [1 .. Len(s) -> 1 .. n + 1]
  BY <1>2
<1>4. Sub(s, t, n + 1)
  BY <1>1, <1>3 DEF Sub
<1>5. ASSUME t[n + 1] \in S PROVE Sub(Append(s, t[n + 1]), t, n + 1)
  <2> DEFINE m == Len(s)
             r == Append(s, t[n + 1])
             g == [i \in 1 .. m + 1 |-> IF i = m + 1 THEN n + 1 ELSE f[i]]
  <2>1. Len(r) = m + 1 /\ (\A i \in 1 .. m : r[i] = s[i]) /\ r[m + 1] = t[n + 1]
    BY <1>5
  <2> HIDE DEF r
  <2>2. \A i \in 1 .. m + 1 : i = m + 1 \/ (i \in 1 .. m /\ i # m + 1)
    BY <1>0
  <2>3. n + 1 \in 1 .. n + 1
    OBVIOUS
  <2>4. g \in [1 .. m + 1 -> 1 .. n + 1]
    BY <1>2, <2>2, <2>3
  <2>5. g[m + 1] = n + 1 /\ \A i \in 1 .. m : g[i] = f[i]
    BY <1>0
  <2> HIDE DEF g
  <2>6. \A i, j \in 1 .. m + 1 : i < j => i \in 1 .. m /\ (j = m + 1 \/ j \in 1 .. m)
    BY <1>0
  <2>7. \A i, j \in 1 .. m + 1 : i < j => g[i] < g[j]
    BY <1>1, <1>2, <2>5, <2>6
  <2>8. \A i \in 1 .. m + 1 : r[i] = t[g[i]]
    BY <1>1, <2>1, <2>2, <2>5
  <2> QED
    BY <2>1, <2>4, <2>7, <2>8 DEF Sub, r
<1> QED
  BY <1>4, <1>5

LEMMA RootReadStep ==
  ASSUME Typed, Inv, FirstAttempt, RootRead, RootStep
  PROVE  RootRead'
<1> USE DEF RootRead, RootShown, RootWhole, RootMissed
<1>0. /\ o \in OpenRec(o.bad) /\ o.next \in Nat /\ root \in Seq(Names \cup {"gone"})
  BY DEF Typed, OpenTyped, OpenRec
<1>1. /\ o'.disc = o.disc /\ o'.bad = o.bad /\ o'.icb = o.icb /\ part' = part
      /\ attempt' = attempt
  BY <1>0, RootStepIs DEF OpenRec
<1>2. RootData' = RootData /\ RootList' = RootList
  BY <1>1, SameRoot
<1>3. RootData \in Seq(Names \cup {"junk"})
  BY RootDataTyped, RootStepIs
<1>4. Len(RootData) \in Nat
  BY <1>3
<1>5. DOMAIN RootData = 1 .. Len(RootData)
  BY <1>3
<1>6. CASE RootFails({"root"})
  <2>1. pc' = "no_root" /\ o' = [o EXCEPT !.short = o.short \cup {"root"}]
    BY <1>6 DEF RootFails
  <2>2. "root" \in o'.short
    BY <1>0, <2>1 DEF OpenRec
  <2> QED
    BY <2>1, <2>2
<1>7. CASE RootFails({}) /\ Damaged(RootData)
  <2>1. pc' = "no_root"
    BY <1>7 DEF RootFails
  <2>2. Damaged(RootData)'
    BY <1>2, <1>7 DEF Damaged
  <2> QED
    BY <2>1, <2>2
<1>8. CASE ReadRoot
  <2>1. CASE RootList.tag # "fid" /\ RootFails({})
    <3>1. RootData = <<"junk">>
      BY <2>1 DEF RootData
    <3>2. Damaged(RootData)
      BY <3>1 DEF Damaged
    <3> QED
      BY <1>7, <2>1, <3>2
  <2>2. CASE RootList.tag = "fid" /\ pc' = "names" /\ o' = [o EXCEPT !.next = 0]
    <3>1. o'.next = 0 /\ root' = root /\ pc = "root"
      BY <1>0, <1>8, <2>2 DEF OpenRec, ReadRoot
    <3>2. attempt = 1 => root = <<>>
      BY <3>1 DEF FirstAttempt, NoEntries
    <3>3. Sub(<<>>, RootData, 0)
      <4> DEFINE f == [i \in 1 .. 0 |-> i]
      <4>1. Len(<<>>) = 0 /\ \A i : i \notin 1 .. 0
        OBVIOUS
      <4>2. f \in [1 .. 0 -> 1 .. 0]
        OBVIOUS
      <4> QED
        BY <4>1, <4>2 DEF Sub
    <3>4. Len(<<>>) = 0 /\ \A i : i \notin 1 .. 0
      OBVIOUS
    <3>5. attempt' = 1 => Sub(root', RootData', o'.next)
      BY <1>1, <1>2, <3>1, <3>2, <3>3
    <3>6. 0 <= Len(RootData)
      BY <1>4
    <3>7. attempt' = 1 => Len(root') = 0
      BY <1>1, <3>1, <3>2, <3>4
    <3> HIDE DEF RootRead
    <3>8. RootShown'
      BY <1>1, <1>2, <2>2, <3>1, <3>4, <3>5, <3>6, <3>7
    <3> QED
      BY <2>2, <3>8 DEF RootRead
  <2> QED
    BY <1>6, <1>8, <2>1, <2>2 DEF ReadRoot
<1>9. CASE ReadName
  <2> DEFINE n == o.next
             name == RootData[n + 1]
  <2>1. /\ pc = "names" /\ n < Len(RootData) /\ n \in Nat
    BY <1>0, <1>9 DEF ReadName
  <2>2. n + 1 \in 1 .. Len(RootData) /\ n + 1 <= Len(RootData)
    BY <1>4, <2>1
  <2>3. name \in Names \cup {"junk"}
    BY <1>3, <2>2
  <2>4. \/ name = "junk" /\ RootFails({})
        \/ /\ name # "junk" /\ root' = Append(root, name)
           /\ o' = [o EXCEPT !.next = n + 1] /\ pc' = pc
        \/ /\ name # "junk" /\ root' = root
           /\ o' = [o EXCEPT !.next = n + 1, !.short = o.short \cup {"root"}] /\ pc' = pc
    BY <1>9, Zenon DEF ReadName, Damage
  <2>5. CASE name = "junk" /\ RootFails({})
    <3>1. Damaged(RootData)
      BY <1>5, <2>2, <2>5 DEF Damaged
    <3> QED
      BY <1>7, <2>5, <3>1
  <2>6. \A i \in 1 .. n + 1 : i \in 1 .. n \/ i = n + 1
    BY <2>1
  <2>7. /\ RootList.tag = "fid"
        /\ \A i \in 1 .. n : RootData[i] # "junk"
        /\ attempt = 1 => Sub(root, RootData, n)
        /\ attempt = 1 /\ "root" \notin o.short =>
             Len(root) = n /\ \A i \in 1 .. n : root[i] = RootData[i]
    BY <2>1
  <2>8. CASE /\ name # "junk" /\ root' = Append(root, name)
             /\ o' = [o EXCEPT !.next = n + 1] /\ pc' = pc
    <3>1. o'.next = n + 1 /\ o'.short = o.short /\ pc' = "names"
      BY <1>0, <2>1, <2>8 DEF OpenRec
    <3>2. \A i \in 1 .. n + 1 : RootData[i] # "junk"
      BY <2>6, <2>7, <2>8
    <3>3. name \in Names \cup {"gone"}
      BY <2>3, <2>8
    <3>4. attempt = 1 => Sub(root', RootData, n + 1)
      BY <1>0, <2>1, <2>7, <2>8, <3>3, SubGrows
    <3>5. ASSUME attempt = 1, "root" \notin o.short
          PROVE  Len(root') = n + 1 /\ \A i \in 1 .. n + 1 : root'[i] = RootData[i]
      <4>1. Len(root) = n /\ \A i \in 1 .. n : root[i] = RootData[i]
        BY <2>7, <3>5
      <4>2. /\ Len(root') = Len(root) + 1 /\ root'[Len(root) + 1] = name
            /\ \A i \in 1 .. Len(root) : root'[i] = root[i]
        BY <1>0, <2>8, <3>3
      <4> QED
        BY <2>6, <4>1, <4>2
    <3> HIDE DEF n, name
    <3>6. RootShown'
      BY <1>1, <1>2, <2>2, <2>7, <3>1, <3>2, <3>4, <3>5
    <3> QED
      BY <3>1, <3>6
  <2>9. CASE /\ name # "junk" /\ root' = root
             /\ o' = [o EXCEPT !.next = n + 1, !.short = o.short \cup {"root"}] /\ pc' = pc
    <3>1. o'.next = n + 1 /\ "root" \in o'.short /\ pc' = "names"
      BY <1>0, <2>1, <2>9 DEF OpenRec
    <3>2. \A i \in 1 .. n + 1 : RootData[i] # "junk"
      BY <2>6, <2>7, <2>9
    <3>4. attempt = 1 => Sub(root', RootData, n + 1)
      BY <1>0, <2>1, <2>7, <2>9, SubGrows
    <3> HIDE DEF n, name
    <3>6. RootShown'
      BY <1>1, <1>2, <2>2, <2>7, <3>1, <3>2, <3>4
    <3> QED
      BY <3>1, <3>6
  <2> QED
    BY <2>4, <2>5, <2>8, <2>9
<1>10. CASE ArrayLost
  BY <1>6, <1>10 DEF ArrayLost
<1>11. CASE RootDone
  <2>1. pc = "names" /\ o.next = Len(RootData) /\ pc' = "opened" /\ UNCHANGED <<root, o, attempt>>
    BY <1>11 DEF RootDone, Kept
  <2> QED
    BY <1>1, <1>2, <2>1
<1> QED
  BY <1>8, <1>9, <1>10, <1>11 DEF RootStep

LEMMA PassedStep ==
  ASSUME Typed, Inv, FirstAttempt, Passed, Next
  PROVE  Passed'
<1> USE DEF Passed, FsdPassed, FsdMissed, RootRead, RootShown, RootWhole, RootMissed, Identified,
        RootKnown, Validated
<1>0. o \in OpenRec(o.bad) /\ o.lba \in Nat
  BY DEF Typed, OpenTyped, OpenRec
<1>1. CASE pc' \notin Validated
  BY <1>1
<1>2. CASE udf_validate_logical_volume
  <2>1. CASE pc' = "bad_lvd"
    BY <2>1
  <2>2. CASE pc' # "bad_lvd"
    <3>1. PICK short \in SUBSET {"volid"} :
            /\ volid' = IF short = {} THEN o.vds.pvd.id ELSE "none"
            /\ o' = [o EXCEPT !.map = 1, !.type1 = FALSE, !.short = short]
      BY <1>2, <2>2 DEF udf_validate_logical_volume, Identifier
    <3>2. pc' = "maps"
      BY <1>2, <2>2 DEF udf_validate_logical_volume
    <3>3. o'.vds = o.vds /\ o'.short = short
      BY <1>0, <3>1 DEF OpenRec
    <3>4. short = {} \/ "volid" \in short
      OBVIOUS
    <3> QED
      BY <3>1, <3>2, <3>3, <3>4
  <2> QED
    BY <2>1, <2>2
<1>3. CASE MapType1 \/ MapType2 \/ MapOther
  <2>1. pc = "maps" /\ pc' = "maps" /\ volid' = volid
    BY <1>3 DEF MapType1, MapType2, MapOther, Kept
  <2>2. o'.vds = o.vds /\ o'.short \in {o.short, o.short \cup {"map"}}
    <3>1. CASE \/ o' = [o EXCEPT !.map = o.map + 1]
               \/ o' = [o EXCEPT !.map = o.map + 1, !.type1 = TRUE]
      BY <1>0, <3>1 DEF OpenRec
    <3>2. ASSUME NEW t \in {o.short, o.short \cup {"map"}},
                 o' = [o EXCEPT !.map = o.map + 1, !.short = t]
          PROVE  o'.vds = o.vds /\ o'.short = t
      BY <1>0, <3>2 DEF OpenRec
    <3> QED
      BY <1>3, <3>1, <3>2, MapStepIs
  <2>3. o'.vds = o.vds /\ ("volid" \in o.short => "volid" \in o'.short)
    BY <2>2
  <2> QED
    BY <2>1, <2>3
<1>4. CASE MapsEnd
  <2>1. /\ pc = "maps" /\ volid' = volid
        /\ \/ pc' = "fsd" /\ o' = [o EXCEPT !.lba = o.vds.lvd.fsd.lba]
           \/ pc' = "no_type1" /\ o' = o
    BY <1>4 DEF MapsEnd, Kept
  <2>2. o'.vds = o.vds /\ o'.short = o.short /\ (pc' = "fsd" => o'.lba = o.vds.lvd.fsd.lba)
    BY <1>0, <2>1 DEF OpenRec
  <2>3. o.vds.lvd.fsd.lba \in Nat
    BY <2>1, LogicalTyped DEF Typed, MapsKnown
  <2>4. \A l : l \notin o.vds.lvd.fsd.lba .. o.vds.lvd.fsd.lba - 1
    BY <2>3
  <2> QED
    BY <2>1, <2>2, <2>3, <2>4
<1>5. CASE FindFsd
  <2> DEFINE f == o.vds.lvd.fsd
             b == FsdBlock(o.lba)
  <2>0. pc = "fsd" /\ volid' = volid /\ part' = part
    BY <1>5 DEF FindFsd, Kept
  <2>1. f.lba \in Nat /\ f.blocks \in Nat
    BY <2>0, LogicalTyped DEF Typed, MapsKnown
  <2>2. \/ /\ o.lba < f.lba + f.blocks
           /\ b.tag = "fsd" /\ pc' = "root" /\ o' = [o EXCEPT !.icb = b.icb]
        \/ b.tag \notin {"fsd", "td"} /\ pc' = "fsd" /\ o' = [o EXCEPT !.lba = o.lba + 1]
        \/ (~(o.lba < f.lba + f.blocks) \/ b.tag = "td") /\ pc' = "no_fsd" /\ o' = o
    BY <1>5 DEF FindFsd, FsdBlock
  <2>3. o'.disc = o.disc /\ o'.bad = o.bad /\ o'.vds = o.vds /\ o'.short = o.short
    BY <1>0, <2>2 DEF OpenRec
  <2>4. \A l : FsdBlock(l)' = FsdBlock(l)
    BY <2>0, <2>3, SamePlaces
  <2>5. f.lba <= o.lba /\ \A l \in f.lba .. o.lba - 1 : FsdBlock(l).tag \notin {"fsd", "td"}
    BY <2>0
  <2> HIDE DEF b
  <2>6. CASE b.tag = "fsd" /\ pc' = "root" /\ o' = [o EXCEPT !.icb = b.icb]
    <3>1. b \in Any
      BY <2>0, BlocksTyped DEF b, FsdBlock
    <3>2. o'.icb = b.icb /\ b.icb \in Icb
      BY <1>0, <2>6, <3>1, Tags DEF OpenRec
    <3> QED
      BY <2>0, <2>3, <2>6, <3>2
  <2>7. CASE b.tag \notin {"fsd", "td"} /\ pc' = "fsd" /\ o' = [o EXCEPT !.lba = o.lba + 1]
    <3>1. o'.lba = o.lba + 1
      BY <1>0, <2>7 DEF OpenRec
    <3>2. \A l \in f.lba .. (o.lba + 1) - 1 : l \in f.lba .. o.lba - 1 \/ l = o.lba
      BY <1>0, <2>1
    <3>3. \A l \in f.lba .. (o.lba + 1) - 1 : FsdBlock(l).tag \notin {"fsd", "td"}
      BY <2>5, <2>7, <3>2 DEF b
    <3>4. f.lba <= o.lba + 1
      BY <1>0, <2>1, <2>5
    <3> QED
      BY <2>0, <2>3, <2>4, <2>7, <3>1, <3>3, <3>4
  <2>8. CASE (~(o.lba < f.lba + f.blocks) \/ b.tag = "td") /\ pc' = "no_fsd" /\ o' = o
    <3>1. o.lba >= f.lba + f.blocks \/ b.tag = "td"
      BY <1>0, <2>1, <2>8
    <3> QED
      BY <2>0, <2>4, <2>5, <2>8, <3>1 DEF b
  <2> QED
    BY <2>2, <2>6, <2>7, <2>8
<1>6. CASE RootStep
  <2>1. Identified' /\ RootKnown' /\ FsdPassed' /\ FsdMissed'
    <3>0. /\ o'.vds = o.vds /\ o'.icb = o.icb
          /\ o'.short \in {o.short, o.short \cup {"root"}}
      BY <1>0, <1>6, RootStepKeeps
    <3>1. o'.vds = o.vds /\ o'.icb = o.icb /\ ("volid" \in o.short => "volid" \in o'.short)
      BY <3>0
    <3> QED
      BY <1>6, <3>1, RootStepIs
  <2>2. RootRead'
    BY <1>6, RootReadStep DEF Passed
  <2> QED
    BY <2>1, <2>2
<1>7. CASE Call \/ OpenFailed \/ OpenDone \/ udf_probe_volume \/ _read_avdp
  BY <1>1, <1>7, CallStage DEF OpenFailed, OpenDone, udf_probe_volume, _read_avdp
<1>8. CASE SearchEnd \/ SearchPointer \/ SearchBlock
  BY <1>1, <1>8 DEF SearchEnd, SearchPointer, SearchBlock, SearchReturns
<1> QED
  BY <1>2, <1>3, <1>4, <1>5, <1>6, <1>7, <1>8 DEF Next, Work, RootStep

LEMMA InitOpening == Init => Opening
BY DEF Init, Opening, FirstAttempt, Untouched, NotYet, NoEntries, LoopStage, PlaceStage, AfterMaps,
   Passed, FsdPassed, FsdMissed, RootRead, RootShown, RootWhole, RootMissed, Identified, RootKnown,
   Validated

LEMMA OpeningStep ==
  ASSUME Typed, Inv, Searched, Opening, [Next]_vars
  PROVE  Opening'
<1>1. FirstAttempt'
  BY FirstStep DEF Opening
<1>2. CASE Next
  BY <1>1, <1>2, LoopStep, PlaceStep, PassedStep DEF Opening
<1>3. CASE UNCHANGED vars
  <2>1. UNCHANGED <<part, volid, root, pc, o, attempt>>
    BY <1>3 DEF vars
  <2>2. LoopStage'
    <3>1. WellMapped' <=> WellMapped
      BY <2>1, SameBlocks
    <3>2. MapsSeen' <=> MapsSeen
      <4>1. \A j : MetaPlaced(j, part, o.short)' <=> MetaPlaced(j, part, o.short)
        BY <2>1, SameBlocks, SameMaps DEF MetaPlaced
      <4> QED
        BY <2>1, <4>1, SameBlocks, SameMaps DEF MapsSeen
    <3> QED
      BY <2>1, <3>1, <3>2 DEF Opening, LoopStage
  <2>3. PlaceStage'
    BY <2>1, SameBlocks, SamePlaces DEF Opening, PlaceStage
  <2>4. Passed'
    <3>1. RootData' = RootData /\ RootList' = RootList
      BY <2>1, SameRoot
    <3>2. Damaged(RootData)' <=> Damaged(RootData)
      BY <3>1 DEF Damaged
    <3>3. \A l : FsdBlock(l)' = FsdBlock(l)
      BY <2>1, SamePlaces
    <3>4. RootRead'
      BY <2>1, <3>1, <3>2 DEF Opening, Passed, RootRead, RootShown, RootWhole, RootMissed
    <3>5. FsdPassed' /\ FsdMissed'
      BY <2>1, <3>3 DEF Opening, Passed, FsdPassed, FsdMissed
    <3>6. Identified' /\ RootKnown'
      BY <2>1 DEF Opening, Passed, Identified, RootKnown
    <3> QED
      BY <3>4, <3>5, <3>6 DEF Passed
  <2> QED
    BY <1>1, <2>2, <2>3, <2>4 DEF Opening
<1> QED
  BY <1>2, <1>3

(* The block that is used is a readable copy; with memory enough for the   *)
(* partition maps, whenever there is one.                                  *)
LEMMA CopyIs ==
  ASSUME PlacedRight, NEW number \in Nat, NEW l
  PROVE  /\ MetadataBlock(number, l) # Unreadable => MetadataBlock(number, l) \in AnyCopy(number, l)
         /\ "map" \notin o.short /\ AnyCopy(number, l) # {} =>
              MetadataBlock(number, l) \in AnyCopy(number, l)
<1>1. CASE Index(number) = {} /\ ("map" \in o.short \/ Copies(number) = {})
  BY <1>1 DEF MetadataBlock, AnyCopy
<1>2. ASSUME NEW k \in {0, 1}, Index(number) = {k}, Places(part.p[k]) \subseteq Copies(number),
             "map" \in o.short \/ Copies(number) = Places(part.p[k])
      PROVE  /\ MetadataBlock(number, l) # Unreadable =>
                  MetadataBlock(number, l) \in AnyCopy(number, l)
             /\ "map" \notin o.short /\ AnyCopy(number, l) # {} =>
                  MetadataBlock(number, l) \in AnyCopy(number, l)
  <2> DEFINE p == part.p[k]
             b == Read(p.lba + l)
             c == Read(p.mirror + l)
  <2>1. MetadataBlock(number, l) = IF b = Unreadable /\ p.mirror # 0 THEN c ELSE b
    <3>1. (CHOOSE i \in Index(number) : TRUE) = k /\ Index(number) # {}
      BY <1>2
    <3> QED
      BY <3>1 DEF MetadataBlock
  <2>2. \A y : y \in AnyCopy(number, l) <=>
                 y # Unreadable /\ \E x \in Copies(number) : y = Read(x + l)
    BY DEF AnyCopy
  <2>3. \A x : x \in Places(p) <=> x = p.lba \/ (p.mirror # 0 /\ x = p.mirror)
    BY DEF Places
  <2>4. p.lba \in Copies(number) /\ (p.mirror # 0 => p.mirror \in Copies(number))
    BY <1>2, <2>3
  <2>5. \A y : y # Unreadable /\ (y = b \/ (p.mirror # 0 /\ y = c)) => y \in AnyCopy(number, l)
    BY <2>2, <2>4
  <2>6. "map" \notin o.short =>
          \A y \in AnyCopy(number, l) : y # Unreadable /\ (y = b \/ (p.mirror # 0 /\ y = c))
    <3> SUFFICES ASSUME "map" \notin o.short, NEW y \in AnyCopy(number, l)
                 PROVE  y # Unreadable /\ (y = b \/ (p.mirror # 0 /\ y = c))
      OBVIOUS
    <3>1. PICK x \in Places(p) : y = Read(x + l)
      BY <1>2, <2>2
    <3> QED
      BY <2>2, <2>3, <3>1
  <2> HIDE DEF b, c, p
  <2> QED
    BY <2>1, <2>5, <2>6
<1> QED
  BY <1>1, <1>2 DEF PlacedRight

LEMMA OpeningInvariance == Spec => [](Typed /\ Inv /\ Searched /\ Opening)
<1>1. Typed /\ Inv /\ Searched /\ Opening /\ [Next]_vars => Typed' /\ Searched' /\ Opening'
  BY TypedStep, SearchedStep, OpeningStep
<1> QED
  BY <1>1, InitTyped, InitSearched, InitOpening, Invariance, PTL DEF Spec

(* The first open with a handle fails at the file set descriptor or at the *)
(* root directory only for want of memory, or when no copy of a block it   *)
(* needs can be read, or a copy of one is not what it should be: for each  *)
(* block the main or the mirror file of the metadata partition is enough.  *)
THEOREM OneCopyEnough == Spec => []OneCopyIsEnough
<1>1. Typed /\ Inv /\ Searched /\ Opening => OneCopyIsEnough
  <2> SUFFICES ASSUME Typed, Inv, Searched, Opening, attempt = 1, WellMapped
               PROVE  /\ pc = "no_fsd" /\ "map" \notin o.short =>
                           LET fsd == o.vds.lvd.fsd IN
                           \A l \in fsd.lba .. fsd.lba + fsd.blocks - 1 :
                             Sound(fsd.part, l, IsFsd) =>
                               \E k \in fsd.lba .. l - 1 :
                                 \E b \in AnyCopy(fsd.part, k) : b.tag = "td"
                      /\ pc = "no_root" /\ {"map", "root"} \cap o.short = {} =>
                           ~ /\ Sound(o.icb.part, o.icb.lba, IsDir)
                             /\ \A b \in AnyCopy(o.icb.part, o.icb.lba) :
                                  Sound(o.icb.part, b.at, IsList)
    BY DEF OneCopyIsEnough
  <2>1. ASSUME pc = "no_fsd", "map" \notin o.short,
               NEW l \in o.vds.lvd.fsd.lba .. o.vds.lvd.fsd.lba + o.vds.lvd.fsd.blocks - 1,
               Sound(o.vds.lvd.fsd.part, l, IsFsd)
        PROVE  \E k \in o.vds.lvd.fsd.lba .. l - 1 :
                 \E b \in AnyCopy(o.vds.lvd.fsd.part, k) : b.tag = "td"
    <3> DEFINE f == o.vds.lvd.fsd
    <3>1. f.part \in Nat /\ f.lba \in Nat /\ f.blocks \in Nat /\ o.lba \in Nat
      BY <2>1, LogicalTyped DEF Typed, OpenTyped, OpenRec, MapsKnown, Validated, Failures
    <3>2. PlacedRight
      BY <2>1 DEF Opening, PlaceStage, AfterMaps
    <3>3. FsdBlock(l) \in AnyCopy(f.part, l)
      BY <2>1, <3>1, <3>2, CopyIs DEF Sound, FsdBlock
    <3>4. FsdBlock(l).tag = "fsd"
      BY <2>1, <3>3 DEF Sound, IsFsd
    <3>5. /\ f.lba <= o.lba
          /\ \A k \in f.lba .. o.lba - 1 : FsdBlock(k).tag \notin {"fsd", "td"}
          /\ o.lba >= f.lba + f.blocks \/ FsdBlock(o.lba).tag = "td"
      BY <2>1 DEF Opening, Passed, FsdPassed, FsdMissed
    <3> HIDE DEF f
    <3>6. l \in f.lba .. f.lba + f.blocks - 1
      BY <2>1 DEF f
    <3>7. ~(l <= o.lba - 1)
      BY <3>1, <3>4, <3>5, <3>6
    <3>8. FsdBlock(o.lba).tag = "td" /\ o.lba \in f.lba .. l - 1
      <4>1. o.lba <= l /\ ~(o.lba >= f.lba + f.blocks)
        BY <3>1, <3>6, <3>7
      <4>2. FsdBlock(o.lba).tag = "td" /\ o.lba # l
        BY <3>4, <3>5, <4>1
      <4> QED
        BY <3>1, <3>5, <3>6, <4>1, <4>2
    <3>9. FsdBlock(o.lba) # Unreadable
      BY <3>8 DEF Unreadable
    <3>10. FsdBlock(o.lba) \in AnyCopy(f.part, o.lba)
      BY <3>1, <3>2, <3>9, CopyIs DEF FsdBlock, f
    <3> QED
      BY <3>8, <3>10 DEF f
  <2>2. ASSUME pc = "no_root", {"map", "root"} \cap o.short = {},
               Sound(o.icb.part, o.icb.lba, IsDir),
               \A b \in AnyCopy(o.icb.part, o.icb.lba) : Sound(o.icb.part, b.at, IsList)
        PROVE  FALSE
    <3>1. /\ PlacedRight /\ Damaged(RootData) /\ o.icb.part \in Nat
          /\ "map" \notin o.short
      BY <2>2 DEF Opening, PlaceStage, AfterMaps, Passed, RootRead, RootMissed, RootKnown, Icb
    <3>2. RootEntry \in AnyCopy(o.icb.part, o.icb.lba)
      BY <2>2, <3>1, CopyIs DEF Sound, RootEntry
    <3>3. RootEntry.tag = "fe" /\ RootEntry.dir
      BY <2>2, <3>2 DEF Sound, IsDir
    <3> DEFINE b == MetadataBlock(o.icb.part, RootEntry.at)
    <3>4. Sound(o.icb.part, RootEntry.at, IsList)
      BY <2>2, <3>2
    <3>5. b \in AnyCopy(o.icb.part, RootEntry.at)
      BY <3>1, <3>4, CopyIs DEF Sound
    <3>6. b.tag = "fid" /\ \A i \in DOMAIN b.names : b.names[i] # "junk"
      BY <3>4, <3>5 DEF Sound, IsList
    <3>7. RootData = b.names
      BY <3>3, <3>6 DEF RootData, RootList
    <3> QED
      BY <3>1, <3>6, <3>7 DEF Damaged
  <2> QED
    BY <2>1, <2>2
<1> QED
  BY <1>1, OpeningInvariance, PTL

(* A volume that opens at the first attempt shows the root directory of a  *)
(* readable copy, in its order and whole unless memory was short for a     *)
(* name, and the identifier of the disc unless memory was short for it.    *)
THEOREM OpenedComplete == Spec => []OpenedIsComplete
<1>1. Typed /\ Inv /\ Searched /\ Opening => OpenedIsComplete
  <2> SUFFICES ASSUME Typed, Inv, Searched, Opening, pc = "opened", attempt = 1
               PROVE  /\ WellMapped =>
                           \E b \in AnyCopy(o.icb.part, o.icb.lba) :
                             \E x \in AnyCopy(o.icb.part, b.at) :
                               /\ IsDir(b) /\ IsList(x)
                               /\ Sublist(root, x.names)
                               /\ "root" \in o.short \/ root = x.names
                      /\ \/ \E x \in Tagged(Descriptors, "pvd") : volid = x.is.id
                         \/ "volid" \in o.short /\ volid = "none"
    BY DEF OpenedIsComplete
  <2>1. ASSUME WellMapped
        PROVE  \E b \in AnyCopy(o.icb.part, o.icb.lba) : \E x \in AnyCopy(o.icb.part, b.at) :
                 /\ IsDir(b) /\ IsList(x)
                 /\ Sublist(root, x.names)
                 /\ "root" \in o.short \/ root = x.names
    <3>1. PlacedRight /\ RootShown /\ RootWhole /\ o.icb.part \in Nat
      BY <2>1 DEF Opening, PlaceStage, AfterMaps, Passed, RootRead, RootKnown, Icb
    <3> DEFINE b == RootEntry
               x == MetadataBlock(o.icb.part, b.at)
    <3>2. RootList.tag = "fid"
      BY <3>1 DEF RootShown
    <3>3. b.tag = "fe" /\ b.dir /\ RootList = x
      BY <3>2 DEF RootList, Unreadable
    <3>4. RootData = x.names /\ x.tag = "fid"
      BY <3>2, <3>3 DEF RootData
    <3>5. b # Unreadable /\ x # Unreadable
      BY <3>3, <3>4 DEF Unreadable
    <3>6. b \in AnyCopy(o.icb.part, o.icb.lba)
      BY <3>1, <3>5, CopyIs DEF RootEntry
    <3>7. x \in AnyCopy(o.icb.part, b.at)
      BY <3>1, <3>5, CopyIs
    <3> HIDE DEF b, x
    <3>8. RootData \in Seq(Names \cup {"junk"}) /\ root \in Seq(Names \cup {"gone"})
      BY RootDataTyped DEF Typed
    <3>9. DOMAIN RootData = 1 .. Len(RootData) /\ DOMAIN root = 1 .. Len(root)
      BY <3>8
    <3>10. /\ \A i \in DOMAIN RootData : RootData[i] # "junk"
           /\ Sub(root, RootData, Len(RootData))
           /\ "root" \notin o.short =>
                Len(root) = Len(RootData) /\ \A i \in 1 .. Len(RootData) : root[i] = RootData[i]
      BY <3>1, <3>9 DEF RootShown, RootWhole
    <3>11. Sublist(root, RootData)
      BY <3>9, <3>10 DEF Sublist, Sub
    <3>12. "root" \notin o.short => root = RootData
      <4> SUFFICES ASSUME "root" \notin o.short PROVE root = RootData
        OBVIOUS
      <4> DEFINE n == Len(RootData)
      <4>1. Len(root) = n /\ \A i \in 1 .. n : root[i] = RootData[i]
        BY <3>10
      <4>2. root = [i \in DOMAIN root |-> root[i]] /\ RootData = [i \in DOMAIN RootData |-> RootData[i]]
        BY <3>8
      <4>3. DOMAIN root = 1 .. n /\ DOMAIN RootData = 1 .. n
        BY <3>9, <4>1
      <4> HIDE DEF n
      <4>4. [i \in 1 .. n |-> root[i]] = [i \in 1 .. n |-> RootData[i]]
        BY <4>1
      <4> QED
        BY <4>2, <4>3, <4>4, Zenon
    <3>13. IsDir(b) /\ IsList(x)
      BY <3>3, <3>4, <3>10 DEF IsDir, IsList
    <3> QED
      BY <3>4, <3>6, <3>7, <3>11, <3>12, <3>13
  <2>2. \/ \E x \in Tagged(Descriptors, "pvd") : volid = x.is.id
        \/ "volid" \in o.short /\ volid = "none"
    <3>1. Collected(Descriptors, request, o) /\ "pvd" \in o.mask
      BY DEF Searched, SearchDone, AfterSearch, Validated, Required
    <3>2. volid = o.vds.pvd.id \/ ("volid" \in o.short /\ volid = "none")
      BY DEF Opening, Passed, Identified, Validated
    <3> QED
      BY <3>1, <3>2 DEF Collected, PvdCollected
  <2> QED
    BY <2>1, <2>2
<1> QED
  BY <1>1, OpeningInvariance, PTL
=============================================================================
