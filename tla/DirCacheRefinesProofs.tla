------------------------ MODULE DirCacheRefinesProofs ------------------------
(***************************************************************************)
(* Proof that the lock-free directory cache implements SharedTree, for any *)
(* number of threads, streams and addresses and any volume.                *)
(***************************************************************************)
EXTENDS DirCacheRefines, DirCacheProofs

(* The directories of the abstract tree are the published ones.            *)
LEMMA Installed ==
  ASSUME Inv, NEW a \in ArrObj, NEW i \in Index, slots[a][i] # NULL
  PROVE  \E d \in DirObj : subdirs[d] = a
<1>1. a \in heap \cap ArrObj
  BY DEF Inv, NoDangling
<1>2. \A t \in Thread : arr[t] # a
  BY AddressAssumption DEF Inv, Private
<1> QED
  BY <1>1, <1>2 DEF Inv, NoLeak

LEMMA InTreeIs ==
  ASSUME Inv, Open, NEW d \in DirObj
  PROVE  Tree!InTree(d) <=> d \in Shared
<1>1. ASSUME NEW e \in DirObj, NEW i \in Index, ChildMap[e][i] = d
      PROVE  \E a \in ArrObj : slots[a][i] = d
  <2>1. subdirs[e] # NULL
    BY <1>1, AddressAssumption DEF ChildMap
  <2> QED
    BY <1>1, <2>1 DEF ChildMap, Open, Inv, TypeOK, ArrPtr
<1>2. ASSUME NEW a \in ArrObj, NEW i \in Index, slots[a][i] = d
      PROVE  \E e \in DirObj : ChildMap[e][i] = d
  <2>1. PICK e \in DirObj : subdirs[e] = a
    BY <1>2, Installed, AddressAssumption
  <2> QED
    BY <1>2, <2>1, AddressAssumption DEF ChildMap, Open
<1> QED
  BY <1>1, <1>2, SharedIs, AddressAssumption DEF Tree!InTree, Tree!Index, Index

(* The maps before and after a step, point by point.                       *)
LEMMA Maps ==
  /\ \A d \in DirObj :
       /\ EntriesMap[d] = IF Open /\ d \in Shared THEN content[d] ELSE <<>>
       /\ EntriesMap'[d] = IF Open' /\ d \in Shared' THEN content'[d] ELSE <<>>
       /\ ChildMap[d] = IF Open /\ subdirs[d] # NULL
                          THEN slots[subdirs[d]] ELSE [i \in Index |-> NULL]
       /\ ChildMap'[d] = IF Open' /\ subdirs'[d] # NULL
                          THEN slots'[subdirs'[d]] ELSE [i \in Index |-> NULL]
BY DEF EntriesMap, ChildMap

(* Steps that publish nothing are invisible in the maps: slots keep their  *)
(* values, and an array that appears is empty.                             *)
LEMMA Invisible ==
  ASSUME Inv, [Next]_vars, vol' = "open", vol = "open",
         \A a \in ArrObj, i \in Index : slots'[a][i] = slots[a][i],
         \A d \in DirObj :
           \/ subdirs'[d] = subdirs[d]
           \/ /\ subdirs[d] = NULL /\ subdirs'[d] \in ArrObj
              /\ \A i \in Index : slots[subdirs'[d]][i] = NULL
  PROVE  EntriesMap' = EntriesMap /\ ChildMap' = ChildMap
<1>1. TypeOK /\ TypeOK'
  BY NextInv DEF Inv
<1>2. Shared' = Shared
  BY SharedSame
<1>3. \A d \in DirObj : EntriesMap'[d] = EntriesMap[d]
  BY <1>2, Maps, KeptStep DEF Open, Kept
<1>4. ASSUME NEW a \in ArrObj PROVE slots'[a] = slots[a]
  <2>1. slots[a] \in [Index -> DirPtr] /\ slots'[a] \in [Index -> DirPtr]
    BY <1>1 DEF TypeOK
  <2> QED
    BY <2>1
<1>5. \A d \in DirObj : ChildMap'[d] = ChildMap[d]
  <2> SUFFICES ASSUME NEW d \in DirObj PROVE ChildMap'[d] = ChildMap[d]
    OBVIOUS
  <2>1. CASE subdirs[d] # NULL
    <3>1. subdirs[d] \in ArrObj
      BY <1>1, <2>1 DEF TypeOK, ArrPtr
    <3>2. subdirs'[d] = subdirs[d]
      BY <2>1
    <3> QED
      BY <1>4, <2>1, <3>1, <3>2, Maps DEF Open
  <2>2. CASE subdirs[d] = NULL /\ subdirs'[d] = NULL
    BY <2>2, Maps
  <2>3. CASE subdirs[d] = NULL /\ subdirs'[d] # NULL
    <3>1. subdirs'[d] \in ArrObj /\ \A i \in Index : slots'[subdirs'[d]][i] = NULL
      BY <2>3
    <3>2. slots'[subdirs'[d]] \in [Index -> DirPtr]
      BY <1>1, <3>1 DEF TypeOK
    <3>3. slots'[subdirs'[d]] = [i \in Index |-> NULL]
      BY <3>1, <3>2
    <3> QED
      BY <2>3, <3>3, Maps
  <2> QED
    BY <2>1, <2>2, <2>3
<1> QED
  BY <1>3, <1>5 DEF EntriesMap, ChildMap

-----------------------------------------------------------------------------
(* A step of the cache is a step of the tree, or invisible.                *)

LEMMA StartsAsTree == Init => Tree!Init
<1> SUFFICES ASSUME Init PROVE Tree!Init
  OBVIOUS
<1>1. Open = TRUE
  BY DEF Init, Open
<1>2. \A d : d \in Shared <=> d = Root
  BY SharedIs DEF Init
<1>3. PICK r \in Readings[RootIcb] : content = [d \in DirObj |-> IF d = Root THEN r ELSE <<>>]
  BY DEF Init
<1>4. EntriesMap = [d \in DirObj |-> IF d = Root THEN r ELSE <<>>]
  BY <1>1, <1>2, <1>3 DEF EntriesMap
<1>5. ChildMap = [d \in DirObj |-> [i \in Index |-> NULL]]
  BY DEF ChildMap, Init
<1> QED
  BY <1>1, <1>4, <1>5 DEF Tree!Init, Tree!Index, Index, Init

(* Calls that walk, and those that return.                                 *)
LEMMA WalkAsTree ==
  ASSUME Inv, Inv', NEW t \in Thread,
         \/ WalkNotFound(t) \/ WalkFound(t) \/ NewUdfdir(t)
         \/ FileOpen(t) \/ CacheGet(t) \/ Return(t)
  PROVE  [Tree!Next]_Tree!vars
<1>1. [Next]_vars
  BY DEF Next, Work
<1>2. vol = "open" /\ vol' = "open" /\ UNCHANGED <<vol, tree>>
  BY DEF WalkNotFound, WalkFound, NewUdfdir, FileOpen, CacheGet, Return, Inv, Calls, CallOK, Result
<1>3. Open /\ EntriesMap' = EntriesMap /\ ChildMap' = ChildMap /\ Open' = Open
  BY <1>1, <1>2, Invisible DEF Open, tree
<1>4. CASE WalkNotFound(t) \/ FileOpen(t)
  BY <1>3, <1>4 DEF WalkNotFound, FileOpen, Tree!vars
<1>5. CASE WalkFound(t) \/ Return(t)
  <2>1. UNCHANGED stream /\ (UNCHANGED cur \/ cur' = [cur EXCEPT ![t] = NULL])
    BY <1>5 DEF WalkFound, Return, Inv, TypeOK
  <2> QED
    BY <1>3, <2>1 DEF Tree!vars, Tree!Next, Tree!Leave
<1>6. CASE NewUdfdir(t)
  <2>1. CASE UNCHANGED stream
    BY <1>3, <1>6, <2>1 DEF NewUdfdir, Tree!vars
  <2>2. CASE ~UNCHANGED stream
    <3>1. PICK s \in Stream : /\ cur[t] # NULL /\ stream[s] = NULL
                              /\ stream' = [stream EXCEPT ![s] = cur[t]]
      BY <1>6, <2>2 DEF NewUdfdir
    <3>2. Tree!OpenDir(t, s)
      BY <1>3, <1>6, <3>1 DEF NewUdfdir, Tree!OpenDir
    <3> QED
      BY <3>2 DEF Tree!Next
  <2> QED
    BY <2>1, <2>2
<1>7. CASE CacheGet(t)
  <2>1. pc[t] \in Caching /\ pc[t] = "get" /\ cur[t] = fdir[t] /\ fdir[t] # NULL
    BY <1>7 DEF CacheGet, Caching, Inv, Calls, CallOK
  <2>2. /\ fdir[t] \in DirObj /\ fidx[t] \in Index /\ subdirs[fdir[t]] # NULL
        /\ Slot(t) # NULL
    BY <2>1, InSlots, FidType DEF Inv, HandlesLive
  <2>3. ChildMap[cur[t]][fidx[t]] = Slot(t)
    BY <1>3, <2>1, <2>2, Maps DEF Slot
  <2>4. Tree!Descend(t, fidx[t])
    BY <1>3, <1>7, <2>1, <2>2, <2>3 DEF CacheGet, Tree!Descend
  <2> QED
    BY <2>2, <2>4 DEF Tree!Next, Tree!Index, Index
<1> QED
  BY <1>4, <1>5, <1>6, <1>7

(* Steps that build, lose or free private objects.                         *)
LEMMA PrivateAsTree ==
  ASSUME Inv, Inv', NEW t \in Thread,
         \/ CacheTestArray(t) \/ CacheInstallArray(t) \/ CacheTestSlot(t)
         \/ CacheReadDir(t) \/ (CacheInstallDir(t) /\ Slot(t) # NULL)
  PROVE  [Tree!Next]_Tree!vars
<1>1. [Next]_vars
  BY DEF Next, Work
<1>2. vol = "open" /\ vol' = "open" /\ UNCHANGED <<cur, stream>>
  BY DEF CacheTestArray, CacheInstallArray, CacheTestSlot, CacheReadDir, CacheInstallDir,
     Inv, Calls, CallOK
<1>3. \A a \in ArrObj, i \in Index : slots'[a][i] = slots[a][i]
  <2>1. CASE UNCHANGED slots
    BY <2>1
  <2>2. CASE ~UNCHANGED slots
    <3>1. PICK a \in ArrObj \ heap : slots' = [slots EXCEPT ![a] = [i \in Index |-> NULL]]
      BY <2>2 DEF CacheTestArray, CacheInstallArray, CacheTestSlot, CacheReadDir,
         CacheInstallDir, Wins
    <3>2. \A i \in Index : slots[a][i] = NULL
      BY Fresh
    <3> QED
      BY <3>1, <3>2 DEF Inv, TypeOK
  <2> QED
    BY <2>1, <2>2
<1>4. \A d \in DirObj :
        \/ subdirs'[d] = subdirs[d]
        \/ /\ subdirs[d] = NULL /\ subdirs'[d] \in ArrObj
           /\ \A i \in Index : slots[subdirs'[d]][i] = NULL
  <2>1. CASE UNCHANGED subdirs
    BY <2>1
  <2>2. CASE CacheInstallArray(t) /\ ~UNCHANGED subdirs
    <3>1. subdirs[fdir[t]] = NULL /\ subdirs' = [subdirs EXCEPT ![fdir[t]] = arr[t]]
      BY <2>2 DEF CacheInstallArray, Wins
    <3>2. arr[t] # NULL /\ arr[t] \in ArrObj
      BY <2>2, InSlots DEF CacheInstallArray, Inv, Calls, CallOK
    <3> QED
      BY <3>1, <3>2 DEF Inv, TypeOK, Private
  <2>3. CASE CacheTestSlot(t) /\ ~UNCHANGED subdirs
    <3>1. PICK e \in DirObj \ heap : subdirs' = [subdirs EXCEPT ![e] = NULL]
      BY <2>3 DEF CacheTestSlot
    <3>2. subdirs[e] = NULL
      BY Fresh
    <3> QED
      BY <3>1, <3>2 DEF Inv, TypeOK
  <2> QED
    BY <2>1, <2>2, <2>3 DEF CacheTestArray, CacheReadDir, CacheInstallDir
<1>5. EntriesMap' = EntriesMap /\ ChildMap' = ChildMap
  BY <1>1, <1>2, <1>3, <1>4, Invisible
<1> QED
  BY <1>2, <1>5 DEF Open, Tree!vars

(* Winning the race for a slot is the moment a directory is loaded.        *)
LEMMA InstallAsTree ==
  ASSUME Inv, Inv', NEW t \in Thread, CacheInstallDir(t), Slot(t) = NULL
  PROVE  [Tree!Next]_Tree!vars
<1> DEFINE d == fdir[t]
           i == fidx[t]
           x == sub[t]
<1>1. pc[t] = "cas_dir" /\ pc[t] \in Caching /\ [Next]_vars
  BY DEF CacheInstallDir, Caching, Next, Work
<1>2. /\ vol = "open" /\ d \in DirObj /\ d \in Shared /\ i \in Index
      /\ i \in 1 .. Len(content[d]) /\ Fid(t).dir /\ subdirs[d] \in ArrObj
  <2>1. content[fdir[t]] \in Entries /\ fidx[t] \in Nat \ {0}
    BY <1>1, FidType DEF Inv, TypeOK
  <2> QED
    BY <1>1, <2>1, FidType, InSlots, EntryLists
<1>3. /\ x \in DirObj /\ x \notin Shared /\ x # NULL
      /\ subdirs[x] = NULL /\ content[x] \in Readings[Fid(t).icb]
  BY <1>1, InSlots DEF Inv, Calls, CallOK, Private
<1>4. /\ UNCHANGED <<vol, stream, content, subdirs, cur>>
      /\ slots' = [slots EXCEPT ![subdirs[d]] = [@ EXCEPT ![i] = x]]
  BY DEF CacheInstallDir, Wins
<1>5. subdirs[d] # NULL /\ slots[subdirs[d]][i] = NULL
  BY <1>2, AddressAssumption DEF Slot
<1> HIDE DEF d, i, x
<1>6. \A a \in ArrObj : slots'[a] = IF a = subdirs[d] THEN [slots[a] EXCEPT ![i] = x] ELSE slots[a]
  BY <1>2, <1>4 DEF Inv, TypeOK
<1>7. \A a \in ArrObj, j \in Index :
        slots'[a][j] = IF a = subdirs[d] /\ j = i THEN x ELSE slots[a][j]
  BY <1>2, <1>6 DEF Inv, TypeOK
<1>8. \A e : e \in Shared' <=> e \in Shared \/ e = x
  BY <1>2, <1>3, <1>5, <1>7, SharedIs
<1>9. Open /\ Open' = Open
  BY <1>2, <1>4 DEF Open
<1>10. EntriesMap' = [EntriesMap EXCEPT ![x] = content[x]]
  <2>1. \A e \in DirObj : EntriesMap'[e] = IF e = x THEN content[x] ELSE EntriesMap[e]
    BY <1>3, <1>4, <1>8, <1>9, Maps
  <2> QED
    BY <2>1 DEF EntriesMap
<1>11. ChildMap' = [ChildMap EXCEPT ![d] = [@ EXCEPT ![i] = x]]
  <2>1. \A e \in DirObj : e # d => ChildMap'[e] = ChildMap[e]
    <3> SUFFICES ASSUME NEW e \in DirObj, e # d PROVE ChildMap'[e] = ChildMap[e]
      OBVIOUS
    <3>1. CASE subdirs[e] = NULL
      BY <1>4, <3>1, Maps
    <3>2. CASE subdirs[e] # NULL
      <4>1. subdirs[e] \in ArrObj /\ subdirs[e] # subdirs[d]
        BY <1>2, <1>5, <3>2 DEF Inv, TypeOK, ArrPtr, OneOwner
      <4> QED
        BY <1>4, <1>6, <1>9, <3>2, <4>1, Maps
    <3> QED
      BY <3>1, <3>2
  <2>2. ChildMap[d] = slots[subdirs[d]] /\ ChildMap'[d] = slots'[subdirs[d]]
    BY <1>2, <1>4, <1>5, <1>9, Maps
  <2>3. ChildMap'[d] = [ChildMap[d] EXCEPT ![i] = x]
    BY <1>2, <1>6, <2>2
  <2>4. \A e \in DirObj :
          ChildMap'[e] = IF e = d THEN [ChildMap[d] EXCEPT ![i] = x] ELSE ChildMap[e]
    BY <2>1, <2>3
  <2> QED
    BY <2>4 DEF ChildMap
<1>12. EntriesMap[d] = content[d] /\ ChildMap[d][i] = NULL
  BY <1>2, <1>5, <1>9, Maps
<1>13. content[d][i] = Fid(t)
  BY DEF Fid, d, i
<1>14. DOMAIN content[d] = 1 .. Len(content[d])
  BY <1>2 DEF Inv, TypeOK, Entries
<1>15. Tree!Load(d, i, x)
  BY <1>2, <1>3, <1>4, <1>9, <1>10, <1>11, <1>12, <1>13, <1>14, InTreeIs DEF Tree!Load
<1> QED
  BY <1>2, <1>3, <1>15 DEF Tree!Next, Tree!Index, Index

LEMMA BeginAsTree ==
  ASSUME Inv, Inv', NEW t \in Thread, Begin(t)
  PROVE  [Tree!Next]_Tree!vars
<1>1. PICK api \in Api, start \in DirObj, path \in Seq(Name), next \in {"walk", "error"} :
        /\ Enter(t, api, start, path, next)
        /\ start = Root \/ \E s \in Stream : start = stream[s]
  BY BeginIsEnter
<1>2. /\ vol = "open" /\ vol' = "open" /\ cur[t] = NULL
      /\ cur' = [cur EXCEPT ![t] = start] /\ UNCHANGED <<tree, stream>>
  BY <1>1 DEF Enter, Inv, Calls, CallOK
<1>3. EntriesMap' = EntriesMap /\ ChildMap' = ChildMap
  BY <1>2, Invisible DEF tree, Next
<1>4. Tree!Start(t, start)
  BY <1>1, <1>2, <1>3 DEF Tree!Start, Open
<1> QED
  BY <1>4 DEF Tree!Next

(* From the call of udfread_close on the abstract tree is gone.            *)
LEMMA ClosedMaps ==
  /\ ~Open => /\ EntriesMap = [d \in DirObj |-> <<>>]
              /\ ChildMap = [d \in DirObj |-> [i \in Index |-> NULL]]
  /\ ~Open' => /\ EntriesMap' = [d \in DirObj |-> <<>>]
               /\ ChildMap' = [d \in DirObj |-> [i \in Index |-> NULL]]
BY DEF EntriesMap, ChildMap

LEMMA StepAsTree == Inv /\ Inv' /\ [Next]_vars => [Tree!Next]_Tree!vars
<1> SUFFICES ASSUME Inv, Inv', [Next]_vars PROVE [Tree!Next]_Tree!vars
  OBVIOUS
<1>1. ASSUME NEW t \in Thread, Begin(t) PROVE [Tree!Next]_Tree!vars
  BY <1>1, BeginAsTree
<1>2. ASSUME NEW t \in Thread, Work(t) PROVE [Tree!Next]_Tree!vars
  <2>1. CASE \/ WalkNotFound(t) \/ WalkFound(t) \/ NewUdfdir(t)
             \/ FileOpen(t) \/ CacheGet(t) \/ Return(t)
    BY <2>1, WalkAsTree
  <2>2. CASE \/ CacheTestArray(t) \/ CacheInstallArray(t) \/ CacheTestSlot(t)
             \/ CacheReadDir(t)
    BY <2>2, PrivateAsTree
  <2>3. CASE CacheInstallDir(t)
    BY <2>3, PrivateAsTree, InstallAsTree
  <2> QED
    BY <1>2, <2>1, <2>2, <2>3 DEF Work
<1>3. ASSUME NEW s \in Stream, udfread_closedir(s) PROVE [Tree!Next]_Tree!vars
  <2>1. /\ stream' = [stream EXCEPT ![s] = NULL]
        /\ UNCHANGED <<vol, tree, cur>>
    BY <1>3 DEF udfread_closedir, locals
  <2>2. EntriesMap' = EntriesMap /\ ChildMap' = ChildMap /\ Open' = Open
    BY <2>1 DEF EntriesMap, ChildMap, Open, Shared, tree
  <2> QED
    BY <2>1, <2>2 DEF Tree!Next, Tree!CloseDir
<1>4. CASE udfread_close
  <2>1. /\ Open /\ ~Open' /\ UNCHANGED <<cur, stream>>
        /\ \A t \in Thread : cur[t] = NULL
    BY <1>4 DEF udfread_close, Open, locals, Inv, Calls, CallOK
  <2>2. Tree!Close
    BY <2>1, ClosedMaps DEF Tree!Close, Tree!Index, Index, Open
  <2> QED
    BY <2>2 DEF Tree!Next
<1>5. CASE Clean
  <2>1. ~Open /\ ~Open' /\ UNCHANGED <<cur, stream>>
    BY <1>5 DEF Clean, CleanChild, CleanSkip, CleanArray, CleanEntries, Open, locals
  <2> QED
    BY <2>1, ClosedMaps DEF Tree!vars, Open
<1>6. CASE UNCHANGED vars
  <2>1. UNCHANGED <<vol, stream, cur, content, subdirs, slots>>
    BY <1>6 DEF vars, tree, locals
  <2>2. EntriesMap' = EntriesMap /\ ChildMap' = ChildMap /\ Open' = Open
    BY <2>1 DEF EntriesMap, ChildMap, Open, Shared
  <2> QED
    BY <2>1, <2>2 DEF Tree!vars
<1> QED
  BY <1>1, <1>2, <1>3, <1>4, <1>5, <1>6 DEF Next, Done

(* The lock-free directory cache implements the tree that only grows.      *)
THEOREM Refinement == Spec => ImplementsSharedTree
BY StartsAsTree, StepAsTree, Invariance, PTL DEF Spec, Tree!Spec, ImplementsSharedTree
=============================================================================
