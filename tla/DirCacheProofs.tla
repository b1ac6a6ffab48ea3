--------------------------- MODULE DirCacheProofs ---------------------------
(***************************************************************************)
(* Proofs about the lock-free directory cache, for any number of threads,  *)
(* streams and addresses and any volume.                                   *)
(*                                                                         *)
(* Inv is the inductive invariant.  To the properties of DirCache it adds  *)
(* what a private object looks like (Private), what a call knows between   *)
(* its steps (Calls) and how the recursion of _clean_tree is linked        *)
(* (StackOK).                                                              *)
(***************************************************************************)
EXTENDS DirCache, TLAPS, WellFoundedInduction

Caching == {"cache", "cas_array", "slot", "read", "cas_dir", "get"}

(* What a thread is building has no children yet.                          *)
Private ==
  /\ \A t \in Thread, i \in Index : arr[t] # NULL => slots[arr[t]][i] = NULL
  /\ \A t \in Thread : sub[t] # NULL => subdirs[sub[t]] = NULL

(* What a call can rely on between its steps.                              *)
CallOK(t) ==
  /\ pc[t] # "idle" => vol = "open"
  /\ pc[t] = "idle" => tok[t] = 1 /\ cur[t] = NULL
  /\ arr[t] # NULL <=> pc[t] = "cas_array"
  /\ sub[t] # NULL <=> pc[t] \in {"read", "cas_dir"}
  /\ pc[t] = "walk" /\ tok[t] <= Len(req[t].path) => cur[t] # NULL
  /\ pc[t] \in Caching =>
       /\ fdir[t] # NULL
       /\ cur[t] = fdir[t]
       /\ fidx[t] <= Len(content[fdir[t]])
       /\ Fid(t).dir
  /\ pc[t] = "cas_dir" => content[sub[t]] \in Readings[Fid(t).icb]
Calls == \A t \in Thread : CallOK(t)

(* The calls of _clean_tree in progress go from the root down the tree,    *)
(* each inside the child its caller's counter is at; no directory is being *)
(* cleaned twice, and the children a counter has passed are gone.          *)
StackOK ==
  /\ vol # "closed" => Root \in heap
  /\ vol = "closing" <=> Len(stack) > 0
  /\ Len(stack) > 0 => stack[1].dir = Root
  /\ \A j, k \in 1 .. Len(stack) : stack[j].dir = stack[k].dir => j = k
  /\ \A k \in 1 .. Len(stack) - 1 :
       /\ subdirs[stack[k].dir] # NULL
       /\ stack[k].i \in Index
       /\ slots[subdirs[stack[k].dir]][stack[k].i] = stack[k + 1].dir
  /\ \A k \in 1 .. Len(stack) : subdirs[stack[k].dir] # NULL =>
       \A j \in Index : j < stack[k].i => slots[subdirs[stack[k].dir]][j] = NULL

Inv ==
  /\ TypeOK
  /\ NoDangling
  /\ OneOwner
  /\ NoLeak
  /\ HandlesLive
  /\ Loaded
  /\ Private
  /\ Calls
  /\ StackOK

-----------------------------------------------------------------------------
(* Facts about entry lists.                                                *)

(* An entry list has at most MaxEntries elements, each of them an entry;   *)
(* what udf_read_dir delivers is an entry list, and so is the empty one.   *)
LEMMA EntryLists ==
  /\ MaxEntries \in Nat
  /\ <<>> \in Entries
  /\ \A l \in Icb : Readings[l] \subseteq Entries
  /\ \A r \in Entries :
       /\ Len(r) \in Nat
       /\ Len(r) <= MaxEntries
       /\ \A i \in 1 .. Len(r) : r[i] \in Entry /\ r[i].icb \in Icb
<1>1. \A r \in Entries : r \in Seq(Entry) /\ Len(r) <= MaxEntries
  BY DEF Entries
<1>2. \A r \in Seq(Entry) : Len(r) \in Nat /\ \A i \in 1 .. Len(r) : r[i] \in Entry
  OBVIOUS
<1>3. \A e \in Entry : e.icb \in Icb
  BY DEF Entry
<1>4. <<>> \in Entries
  BY ImageAssumption DEF Entries
<1>5. \A l \in Icb : Readings[l] \subseteq Entries
  BY ImageAssumption DEF Entries
<1> QED
  BY <1>1, <1>2, <1>3, <1>4, <1>5, ImageAssumption

-----------------------------------------------------------------------------
(* Types.                                                                  *)

LEMMA InitType == Init => TypeOK
BY AddressAssumption, ImageAssumption, EntryLists
DEF Init, TypeOK, NoCall, Call, Api, Busy, Result, DirPtr, ArrPtr

(* Where a call looks while it is in _cache_subdir.                        *)
LEMMA FidType ==
  ASSUME Inv, NEW t \in Thread, pc[t] \in Caching
  PROVE  /\ fdir[t] \in DirObj /\ fdir[t] \in Shared
         /\ fidx[t] \in Index /\ fidx[t] <= Len(content[fdir[t]])
         /\ Fid(t).dir /\ Fid(t).icb \in Icb
         /\ vol = "open"
<1>1. /\ fdir[t] \in DirObj /\ fidx[t] \in Nat \ {0}
      /\ fidx[t] <= Len(content[fdir[t]])
      /\ Fid(t).dir /\ vol = "open"
  BY DEF Inv, TypeOK, Calls, CallOK, Caching, DirPtr
<1>2. fdir[t] \in Shared
  BY <1>1, AddressAssumption DEF Inv, HandlesLive
<1>3. content[fdir[t]] \in Entries
  BY <1>1 DEF Inv, TypeOK
<1> QED
  BY <1>1, <1>2, <1>3, EntryLists DEF Index, Fid

LEMMA SlotType ==
  ASSUME Inv, NEW t \in Thread, pc[t] \in {"slot", "read", "cas_dir", "get"}
  PROVE  /\ subdirs[fdir[t]] \in ArrObj
         /\ Slot(t) \in DirPtr
         /\ pc[t] = "get" => Slot(t) # NULL
<1>1. pc[t] \in Caching
  BY DEF Caching
<1> QED
  BY <1>1, FidType DEF Inv, TypeOK, HandlesLive, Slot, ArrPtr

(* The steps of a call in progress.                                        *)
LEMMA TypeWork == ASSUME Inv, NEW t \in Thread, Work(t) PROVE TypeOK'
<1> USE DEF TypeOK, tree, DirPtr, ArrPtr, Busy, Result
<1>0. TypeOK
  BY DEF Inv
<1>1. CASE WalkNotFound(t)
  BY <1>0, <1>1 DEF WalkNotFound
<1>2. CASE WalkFound(t)
  <2>1. PICK i \in ScanDir(cur[t], req[t].path[tok[t]]) :
          /\ fdir' = [fdir EXCEPT ![t] = cur[t]]
          /\ fidx' = [fidx EXCEPT ![t] = i]
          /\ pc'[t] \in {"cache", "walk", "notfound"} /\ pc' = [pc EXCEPT ![t] = pc'[t]]
          /\ cur'[t] \in {cur[t], NULL} /\ cur' = [cur EXCEPT ![t] = cur'[t]]
    BY <1>0, <1>2 DEF WalkFound
  <2>2. i \in Nat \ {0}
    BY <2>1, EntryLists DEF ScanDir, Lowest, Matches, Index
  <2>3. \A u \in Thread : tok'[u] \in 1 .. Len(req'[u].path) + 1
    BY <1>0, <1>2 DEF WalkFound, Call
  <2> QED
    BY <1>0, <1>2, <2>1, <2>2, <2>3 DEF WalkFound
<1>3. CASE NewUdfdir(t)
  BY <1>0, <1>3 DEF NewUdfdir
<1>4. CASE FileOpen(t)
  <2>1. PICK v \in {"notfound", "ok", "error"} : pc' = [pc EXCEPT ![t] = v]
    BY <1>0, <1>4 DEF FileOpen
  <2> QED
    BY <1>0, <1>4, <2>1 DEF FileOpen
<1>5. CASE CacheTestArray(t)
  <2>1. CASE UNCHANGED <<heap, slots, arr>>
    BY <1>0, <1>5, <2>1 DEF CacheTestArray
  <2>2. CASE ~UNCHANGED <<heap, slots, arr>>
    <3>1. PICK a \in ArrObj :
            /\ heap' = heap \cup {a}
            /\ slots' = [slots EXCEPT ![a] = [i \in Index |-> NULL]]
            /\ arr' = [arr EXCEPT ![t] = a]
            /\ pc' = [pc EXCEPT ![t] = "cas_array"]
      BY <1>0, <1>5, <2>2 DEF CacheTestArray
    <3> QED
      BY <1>0, <1>5, <3>1 DEF CacheTestArray
  <2> QED
    BY <2>1, <2>2
<1>6. CASE CacheInstallArray(t)
  BY <1>0, <1>6 DEF CacheInstallArray, FreeArr
<1>7. CASE CacheTestSlot(t)
  <2>1. CASE UNCHANGED <<heap, content, subdirs, sub>>
    BY <1>0, <1>7, <2>1 DEF CacheTestSlot
  <2>2. CASE ~UNCHANGED <<heap, content, subdirs, sub>>
    <3>1. PICK d \in DirObj :
            /\ heap' = heap \cup {d}
            /\ content' = [content EXCEPT ![d] = <<>>]
            /\ subdirs' = [subdirs EXCEPT ![d] = NULL]
            /\ sub' = [sub EXCEPT ![t] = d]
            /\ pc' = [pc EXCEPT ![t] = "read"]
      BY <1>0, <1>7, <2>2 DEF CacheTestSlot
    <3> QED
      BY <1>0, <1>7, <3>1, EntryLists DEF CacheTestSlot
  <2> QED
    BY <2>1, <2>2
<1>8. CASE CacheReadDir(t)
  <2>1. Fid(t).icb \in Icb
    BY <1>0, <1>8, FidType DEF CacheReadDir, Caching
  <2>2. Readings[Fid(t).icb] \subseteq Entries
    BY <2>1, EntryLists
  <2>3. content' \in [DirObj -> Entries]
    BY <1>0, <1>8, <2>2 DEF CacheReadDir, Delivered
  <2>4. heap' \subseteq DirObj \cup ArrObj /\ sub' \in [Thread -> DirPtr]
    BY <1>0, <1>8 DEF CacheReadDir, FreeSub
  <2>5. pc' \in [Thread -> Busy \cup Result \cup {"idle"}]
    BY <1>0, <1>8 DEF CacheReadDir
  <2> QED
    BY <1>0, <1>8, <2>3, <2>4, <2>5 DEF CacheReadDir
<1>9. CASE CacheInstallDir(t)
  <2>1. pc[t] \in Caching /\ pc[t] \in {"slot", "read", "cas_dir", "get"}
    BY <1>9 DEF CacheInstallDir, Caching
  <2>2. subdirs[fdir[t]] \in ArrObj /\ fidx[t] \in Index
    BY <2>1, FidType, SlotType
  <2>3. [slots[subdirs[fdir[t]]] EXCEPT ![fidx[t]] = sub[t]] \in [Index -> DirPtr]
    BY <1>0, <2>2
  <2>4. slots' \in [ArrObj -> [Index -> DirPtr]]
    BY <1>0, <1>9, <2>3 DEF CacheInstallDir
  <2>5. heap' \subseteq DirObj \cup ArrObj
    BY <1>0, <1>9 DEF CacheInstallDir, FreeSub
  <2>6. /\ sub' = [sub EXCEPT ![t] = NULL]
        /\ pc' = [pc EXCEPT ![t] = "get"]
        /\ UNCHANGED <<vol, stream, stack, content, subdirs, req, tok, cur, fdir, fidx, arr>>
    BY <1>9 DEF CacheInstallDir
  <2> QED
    BY <1>0, <2>4, <2>5, <2>6
<1>10. CASE CacheGet(t)
  BY <1>0, <1>10, SlotType DEF CacheGet
<1>11. CASE Return(t)
  <2>1. NoCall \in Call /\ Len(NoCall.path) = 0
    BY AddressAssumption DEF NoCall, Call, Api
  <2> QED
    BY <1>0, <1>11, <2>1 DEF Return
<1> QED
  BY <1>1, <1>2, <1>3, <1>4, <1>5, <1>6, <1>7, <1>8, <1>9, <1>10, <1>11 DEF Work

(* A thread enters the library.                                            *)
LEMMA TypeEnter ==
  ASSUME Inv, NEW t \in Thread, NEW api \in Api, NEW start \in DirObj,
         NEW path \in Seq(Name), NEW next \in {"walk", "error"},
         Enter(t, api, start, path, next)
  PROVE  TypeOK'
<1>1. [api |-> api, start |-> start, path |-> path] \in Call
  BY DEF Call
<1>2. req' \in [Thread -> Call]
  BY <1>1 DEF Enter, Inv, TypeOK
<1>3. tok[t] = 1
  BY DEF Enter, Inv, Calls, CallOK
<1>4. \A u \in Thread : tok[u] <= Len(req'[u].path) + 1
  BY <1>3 DEF Enter, Inv, TypeOK
<1> QED
  BY <1>2, <1>4 DEF Enter, Inv, TypeOK, DirPtr, Busy, Result, tree

(* What starts a call is one of Enter's steps.                             *)
LEMMA BeginIsEnter ==
  ASSUME Inv, NEW t \in Thread, Begin(t)
  PROVE  \E api \in Api, start \in DirObj, path \in Seq(Name), next \in {"walk", "error"} :
           /\ Enter(t, api, start, path, next)
           /\ start = Root \/ \E s \in Stream : start = stream[s]
           /\ api \in {"opendir_at", "file_openat"} => Len(path) = 1
<1>1. CASE \E p \in Path : udfread_opendir(t, p)
  BY <1>1, AddressAssumption, ImageAssumption DEF udfread_opendir, Api
<1>2. CASE \E p \in Path : udfread_file_open(t, p)
  BY <1>2, AddressAssumption, ImageAssumption DEF udfread_file_open, Api
<1>3. CASE \E s \in Stream, n \in Name : udfread_opendir_at(t, s, n)
  <2>1. PICK s \in Stream, n \in Name : udfread_opendir_at(t, s, n)
    BY <1>3
  <2>2. stream[s] \in DirObj /\ <<n>> \in Seq(Name)
    BY <2>1 DEF udfread_opendir_at, Inv, TypeOK, DirPtr
  <2> QED
    BY <2>1, <2>2 DEF udfread_opendir_at, Api
<1>4. CASE \E s \in Stream, n \in Name : udfread_file_openat(t, s, n)
  <2>1. PICK s \in Stream, n \in Name : udfread_file_openat(t, s, n)
    BY <1>4
  <2>2. stream[s] \in DirObj /\ <<n>> \in Seq(Name)
    BY <2>1 DEF udfread_file_openat, Inv, TypeOK, DirPtr
  <2> QED
    BY <2>1, <2>2 DEF udfread_file_openat, Api
<1> QED
  BY <1>1, <1>2, <1>3, <1>4 DEF Begin

(* The steps of udfread_close and _clean_tree.                             *)
LEMMA StackType ==
  ASSUME Inv, vol = "closing"
  PROVE  /\ Len(stack) \in Nat \ {0}
         /\ \A k \in 1 .. Len(stack) : /\ stack[k] \in Frame
                                       /\ stack[k].dir \in DirObj
                                       /\ stack[k].i \in Nat \ {0}
         /\ Top = stack[Len(stack)].dir /\ Top \in DirObj
         /\ Turn = stack[Len(stack)].i /\ Turn \in Nat \ {0}
         /\ Len(stack) > 1 =>
              /\ Below = stack[Len(stack) - 1] /\ Below.dir \in DirObj
              /\ Below.i \in Index
              /\ subdirs[Below.dir] \in ArrObj
<1>1. stack \in Seq(Frame) /\ Len(stack) > 0
  BY DEF Inv, TypeOK, StackOK
<1>2. Len(stack) \in Nat \ {0} /\ \A k \in 1 .. Len(stack) : stack[k] \in Frame
  BY <1>1
<1>3. \A k \in 1 .. Len(stack) : stack[k].dir \in DirObj /\ stack[k].i \in Nat \ {0}
  BY <1>2 DEF Frame
<1>4. ASSUME Len(stack) > 1
      PROVE  Below.dir \in DirObj /\ Below.i \in Index /\ subdirs[Below.dir] \in ArrObj
  <2>1. Below = stack[Len(stack) - 1] /\ Len(stack) - 1 \in 1 .. Len(stack) - 1
    BY <1>2, <1>4 DEF Below
  <2>2. Below.dir \in DirObj
    BY <1>2, <1>3, <2>1
  <2>3. subdirs[Below.dir] # NULL /\ Below.i \in Index
    BY <2>1 DEF Inv, StackOK
  <2> QED
    BY <2>2, <2>3 DEF Inv, TypeOK, ArrPtr
<1> QED
  BY <1>2, <1>3, <1>4 DEF Top, Turn, Below

(* The end of a pass changes the counter of the innermost call.            *)
LEMMA AdvancedIs ==
  ASSUME NEW s \in Seq(Frame), Len(s) > 0
  PROVE  /\ Advanced(s) \in Seq(Frame)
         /\ Len(Advanced(s)) = Len(s)
         /\ \A k \in 1 .. Len(s) : Advanced(s)[k].dir = s[k].dir
         /\ \A k \in 1 .. Len(s) - 1 : Advanced(s)[k] = s[k]
         /\ Advanced(s)[Len(s)].i = s[Len(s)].i + 1
<1> DEFINE n == Len(s)
           f == [s[n] EXCEPT !.i = @ + 1]
<1>1. n \in Nat /\ n \in 1 .. n /\ DOMAIN s = 1 .. n
  OBVIOUS
<1>2. s[n] \in Frame
  BY <1>1
<1>3. f \in Frame /\ f.dir = s[n].dir /\ f.i = s[n].i + 1
  BY <1>2 DEF Frame
<1>4. Advanced(s) = [s EXCEPT ![n] = f]
  BY DEF Advanced
<1> HIDE DEF f
<1>5. [s EXCEPT ![n] = f] \in Seq(Frame)
  BY <1>1, <1>3
<1>6. Len([s EXCEPT ![n] = f]) = n
  BY <1>1
<1>7. \A k \in 1 .. n : [s EXCEPT ![n] = f][k] = IF k = n THEN f ELSE s[k]
  BY <1>1
<1> QED
  BY <1>1, <1>3, <1>4, <1>5, <1>6, <1>7

(* The calls that are left when the innermost one returns.                 *)
LEMMA CallersAre ==
  ASSUME NEW s \in Seq(Frame), Len(s) > 1
  PROVE  /\ SubSeq(s, 1, Len(s) - 1) \in Seq(Frame)
         /\ Len(SubSeq(s, 1, Len(s) - 1)) = Len(s) - 1
         /\ \A k \in 1 .. Len(s) - 1 : SubSeq(s, 1, Len(s) - 1)[k] = s[k]
<1>1. Len(s) \in Nat /\ Len(s) - 1 \in 0 .. Len(s)
  OBVIOUS
<1>2. \A m \in 0 .. Len(s) :
        /\ SubSeq(s, 1, m) \in Seq(Frame)
        /\ Len(SubSeq(s, 1, m)) = m
        /\ \A k \in 1 .. m : SubSeq(s, 1, m)[k] = s[k]
  OBVIOUS
<1> QED
  BY <1>1, <1>2

(* And what they look like when their innermost one has gone on.           *)
LEMMA ReturnedIs ==
  ASSUME Inv, CleanEntries, Len(stack) > 1
  PROVE  /\ stack' \in Seq(Frame)
         /\ Len(stack') = Len(stack) - 1
         /\ \A k \in 1 .. Len(stack) - 1 : stack'[k].dir = stack[k].dir
         /\ \A k \in 1 .. (Len(stack) - 1) - 1 : stack'[k] = stack[k]
         /\ stack'[Len(stack) - 1].i = Below.i + 1
<1> DEFINE s == SubSeq(stack, 1, Len(stack) - 1)
<1>1. stack \in Seq(Frame) /\ Len(stack) \in Nat
  BY DEF Inv, TypeOK
<1>2. /\ s \in Seq(Frame) /\ Len(s) = Len(stack) - 1
      /\ \A k \in 1 .. Len(stack) - 1 : s[k] = stack[k]
  BY <1>1, CallersAre
<1>3. stack' = Advanced(s)
  <2>1. Len(stack) # 1
    <3>1. \A m \in Nat : m > 1 => m # 1
      OBVIOUS
    <3> QED
      BY <1>1, <3>1
  <2> QED
    BY <2>1 DEF CleanEntries
<1> HIDE DEF s
<1>4. Len(s) > 0 /\ Len(stack) - 1 \in 1 .. Len(stack) - 1
  BY <1>1, <1>2
<1>5. /\ stack' \in Seq(Frame) /\ Len(stack') = Len(s)
      /\ \A k \in 1 .. Len(s) : stack'[k].dir = s[k].dir
      /\ \A k \in 1 .. Len(s) - 1 : stack'[k] = s[k]
      /\ stack'[Len(s)].i = s[Len(s)].i + 1
  BY <1>2, <1>3, <1>4, AdvancedIs
<1>6. \A k \in 1 .. (Len(stack) - 1) - 1 : k \in 1 .. Len(s) - 1 /\ k \in 1 .. Len(stack) - 1
  BY <1>1, <1>2
<1> QED
  BY <1>2, <1>4, <1>5, <1>6 DEF Below

(* The counter stays inside the directory and so inside the array.         *)
LEMMA TurnInIndex ==
  ASSUME Inv, vol = "closing", Turn \in Children
  PROVE  Turn \in Index
<1>1. content[Top] \in Entries
  BY StackType DEF Inv, TypeOK
<1>2. Len(content[Top]) \in Nat /\ Len(content[Top]) <= MaxEntries
  BY <1>1 DEF Entries
<1> QED
  BY <1>2, ImageAssumption DEF Children, Index

LEMMA TypeClean == ASSUME Inv, Clean PROVE TypeOK'
<1> USE DEF tree, locals
<1>0. vol = "closing"
  BY DEF Clean, CleanChild, CleanSkip, CleanArray, CleanEntries
<1>1. CASE CleanChild
  <2> DEFINE x == slots[subdirs[Top]][Turn]
  <2>1. stack' = Append(stack, [dir |-> x, i |-> 1]) /\ x # NULL
    BY <1>1 DEF CleanChild
  <2>2. Turn \in Index
    BY <1>0, <1>1, TurnInIndex DEF CleanChild
  <2>3. subdirs[Top] \in ArrObj
    BY <1>0, <1>1, StackType DEF CleanChild, Inv, TypeOK, ArrPtr
  <2>4. x \in DirObj
    BY <2>1, <2>2, <2>3 DEF Inv, TypeOK, DirPtr
  <2> HIDE DEF x
  <2>5. stack' \in Seq(Frame)
    BY <2>1, <2>4 DEF Inv, TypeOK, Frame
  <2> QED
    BY <1>1, <2>5 DEF CleanChild, Inv, TypeOK
<1>4. CASE CleanSkip
  <2>1. stack \in Seq(Frame) /\ Len(stack) > 0 /\ stack' = Advanced(stack)
    BY <1>0, <1>4 DEF CleanSkip, Inv, TypeOK, StackOK
  <2>2. stack' \in Seq(Frame)
    BY <2>1, AdvancedIs
  <2> QED
    BY <1>4, <2>2 DEF CleanSkip, Inv, TypeOK
<1>2. CASE CleanArray
  BY <1>2 DEF CleanArray, Inv, TypeOK, ArrPtr
<1>3. CASE CleanEntries
  <2>1. stack' \in Seq(Frame)
    <3>1. <<>> \in Seq(Frame)
      OBVIOUS
    <3> QED
      BY <1>3, <3>1, ReturnedIs DEF CleanEntries
  <2>2. content' \in [DirObj -> Entries]
    BY <1>3, EntryLists DEF CleanEntries, Inv, TypeOK
  <2>4. slots' \in [ArrObj -> [Index -> DirPtr]]
    <3>1. ASSUME Len(stack) > 1
          PROVE  [slots[subdirs[Below.dir]] EXCEPT ![Below.i] = NULL] \in [Index -> DirPtr]
      BY <1>0, <3>1, StackType DEF Inv, TypeOK, DirPtr
    <3> QED
      BY <1>3, <3>1 DEF CleanEntries, Inv, TypeOK
  <2> QED
    BY <1>3, <2>1, <2>2, <2>4 DEF CleanEntries, Inv, TypeOK
<1> QED
  BY <1>1, <1>2, <1>3, <1>4 DEF Clean

(* Every step of the volume.                                               *)
LEMMA TypeStep == Inv /\ [Next]_vars => TypeOK'
<1> SUFFICES ASSUME Inv, [Next]_vars PROVE TypeOK'
  OBVIOUS
<1> USE DEF tree, locals
<1>1. ASSUME NEW t \in Thread, Begin(t) PROVE TypeOK'
  BY <1>1, BeginIsEnter, TypeEnter
<1>2. ASSUME NEW t \in Thread, Work(t) PROVE TypeOK'
  BY <1>2, TypeWork
<1>3. ASSUME NEW s \in Stream, udfread_closedir(s) PROVE TypeOK'
  BY <1>3 DEF udfread_closedir, Inv, TypeOK, DirPtr
<1>4. CASE udfread_close
  <2>1. [dir |-> Root, i |-> 1] \in Frame
    BY AddressAssumption DEF Frame
  <2>2. <<[dir |-> Root, i |-> 1]>> \in Seq(Frame)
    BY <2>1
  <2> QED
    BY <1>4, <2>2 DEF udfread_close, Inv, TypeOK
<1>5. CASE Clean
  BY <1>5, TypeClean
<1>6. CASE Done \/ UNCHANGED vars
  BY <1>6 DEF Done, vars, Inv, TypeOK
<1> QED
  BY <1>1, <1>2, <1>3, <1>4, <1>5, <1>6 DEF Next

-----------------------------------------------------------------------------
(* Ownership and calls.                                                    *)

LEMMA InvParts ==
  Inv <=> /\ TypeOK /\ NoDangling /\ OneOwner /\ NoLeak /\ HandlesLive
          /\ Loaded /\ Private /\ Calls /\ StackOK
BY DEF Inv

(* What it means to be published, before and after a step.                 *)
LEMMA SharedIs ==
  /\ \A d : d \in Shared <=>
       d = Root \/ (d # NULL /\ \E a \in ArrObj, i \in Index : slots[a][i] = d)
  /\ \A d : d \in Shared' <=>
       d = Root \/ (d # NULL /\ \E a \in ArrObj, i \in Index : slots'[a][i] = d)
BY AddressAssumption DEF Shared

(* Slots that keep their value keep the set of published directories.      *)
LEMMA SharedSame ==
  ASSUME \A a \in ArrObj, i \in Index : slots'[a][i] = slots[a][i]
  PROVE  Shared' = Shared
<1>1. \A d : d \in Shared' <=> d \in Shared
  BY SharedIs
<1> QED
  BY <1>1

(* Published directories are allocated.                                    *)
LEMMA SharedLive ==
  ASSUME Inv, vol # "closed"
  PROVE  Shared \subseteq heap \cap DirObj
<1>1. Root \in heap \cap DirObj
  BY AddressAssumption DEF Inv, StackOK
<1>2. \A a \in ArrObj, i \in Index :
        slots[a][i] # NULL => slots[a][i] \in heap \cap DirObj
  BY DEF Inv, TypeOK, NoDangling, DirPtr
<1> QED
  BY <1>1, <1>2, SharedIs

(* Nothing refers to an address that is not allocated, nor does it refer   *)
(* to anything.                                                            *)
LEMMA Fresh ==
  ASSUME Inv, NEW x \in DirObj \cup ArrObj, x \notin heap
  PROVE  /\ \A d \in DirObj : subdirs[d] # x
         /\ \A a \in ArrObj, i \in Index : slots[a][i] # x
         /\ \A t \in Thread : arr[t] # x /\ sub[t] # x
         /\ x \in DirObj => subdirs[x] = NULL
         /\ x \in ArrObj => \A i \in Index : slots[x][i] = NULL
         /\ vol # "closed" => x \notin Shared
<1>1. x # NULL
  BY AddressAssumption
<1> QED
  BY <1>1, SharedIs DEF Inv, NoDangling, StackOK

(* Where the calls that have an array look, and what they have made.       *)
LEMMA InSlots ==
  ASSUME Inv
  PROVE  /\ \A u \in Thread : pc[u] \in {"slot", "read", "cas_dir", "get"} =>
              subdirs[fdir[u]] \in ArrObj /\ fidx[u] \in Index
         /\ \A u \in Thread : pc[u] \in Caching =>
              fdir[u] \in DirObj /\ fdir[u] \in Shared /\ fdir[u] \in heap
         /\ \A u \in Thread : arr[u] # NULL =>
              pc[u] = "cas_array" /\ arr[u] \in ArrObj /\ arr[u] \in heap
         /\ \A u \in Thread : sub[u] # NULL =>
              /\ pc[u] \in {"read", "cas_dir"} /\ sub[u] \in DirObj
              /\ sub[u] \in heap /\ sub[u] \notin Shared
<1>1. \A u \in Thread : pc[u] \in {"slot", "read", "cas_dir", "get"} => pc[u] \in Caching
  BY DEF Caching
<1>2. \A u \in Thread : pc[u] \in Caching =>
         fdir[u] \in DirObj /\ fdir[u] \in Shared /\ fdir[u] \in heap /\ fidx[u] \in Index
  BY FidType, SharedLive
<1>3. \A u \in Thread : arr[u] # NULL =>
              pc[u] = "cas_array" /\ arr[u] \in ArrObj /\ arr[u] \in heap
  BY DEF Inv, TypeOK, NoDangling, Calls, CallOK, ArrPtr
<1>4. \A u \in Thread : sub[u] # NULL =>
              /\ pc[u] \in {"read", "cas_dir"} /\ sub[u] \in DirObj
              /\ sub[u] \in heap /\ sub[u] \notin Shared
  BY DEF Inv, TypeOK, NoDangling, OneOwner, Calls, CallOK, DirPtr
<1> QED
  BY <1>1, <1>2, <1>3, <1>4, SlotType

(* Steps that only concern the call of a thread or a stream.               *)
LEMMA TreeFrame ==
  ASSUME Inv, UNCHANGED <<vol, stack, tree, arr, sub>>
  PROVE  /\ NoDangling' /\ OneOwner' /\ NoLeak' /\ Loaded' /\ Private' /\ StackOK'
         /\ Shared' = Shared
<1> USE DEF tree
<1>1. NoDangling' /\ NoLeak' /\ Private' /\ StackOK'
  BY DEF Inv, NoDangling, NoLeak, Private, StackOK, Shared
<1>2. OneOwner'
  BY DEF Inv, OneOwner, Shared
<1>3. Loaded'
  BY DEF Inv, Loaded
<1> QED
  BY <1>1, <1>2, <1>3 DEF Shared

(* CacheTestArray: an array nobody else knows comes into being.            *)
LEMMA KeepTestArray ==
  ASSUME Inv, NEW t \in Thread, CacheTestArray(t)
  PROVE  Inv'
<1> USE DEF tree
<1>1. TypeOK'
  BY TypeWork DEF Work
<1>2. pc[t] = "cache" /\ pc[t] \in Caching
  BY DEF CacheTestArray, Caching
<1>3. vol = "open" /\ fdir[t] \in DirObj /\ fidx[t] \in Index
  BY <1>2, FidType
<1>4. CASE UNCHANGED <<heap, slots, arr>>
  <2>1. /\ UNCHANGED <<vol, stack, tree, arr, sub>>
        /\ UNCHANGED <<req, tok, cur, fdir, fidx, stream>>
    BY <1>4 DEF CacheTestArray
  <2>2. \E v \in {"slot", "error"} :
          /\ pc' = [pc EXCEPT ![t] = v]
          /\ v = "slot" => subdirs[fdir[t]] # NULL
    BY <1>4, <1>2 DEF CacheTestArray, Inv, TypeOK, Calls, CallOK
  <2>3. HandlesLive'
    BY <2>1, <2>2, TreeFrame DEF Inv, HandlesLive, Slot, TypeOK
  <2>4. Calls'
    BY <2>1, <2>2, <1>2 DEF Inv, Calls, CallOK, Fid, TypeOK, Caching
  <2> QED
    BY <1>1, <2>1, <2>3, <2>4, TreeFrame DEF Inv
<1>5. CASE ~UNCHANGED <<heap, slots, arr>>
  <2>1. PICK a \in ArrObj :
          /\ a \notin heap
          /\ heap' = heap \cup {a}
          /\ slots' = [slots EXCEPT ![a] = [i \in Index |-> NULL]]
          /\ arr' = [arr EXCEPT ![t] = a]
          /\ pc' = [pc EXCEPT ![t] = "cas_array"]
    BY <1>5 DEF CacheTestArray
  <2>2. UNCHANGED <<vol, stream, stack, content, subdirs, req, tok, cur, fdir, fidx, sub>>
    BY DEF CacheTestArray
  <2>3. \A b \in ArrObj, i \in Index : slots'[b][i] = slots[b][i]
    BY <2>1, Fresh DEF Inv, TypeOK
  <2>4. Shared' = Shared
    BY <2>3, SharedSame
  <2>5. \A u \in Thread : arr'[u] = IF u = t THEN a ELSE arr[u]
    BY <2>1 DEF Inv, TypeOK
  <2>6. NoDangling'
    BY <2>1, <2>2, <2>3, <2>5 DEF Inv, NoDangling
  <2>7. OneOwner'
    BY <2>1, <2>2, <2>3, <2>4, <2>5, Fresh DEF Inv, OneOwner
  <2>8. NoLeak'
    BY <2>1, <2>2, <2>4, <2>5, AddressAssumption, <1>2 DEF Inv, NoLeak, Calls, CallOK
  <2>9. HandlesLive'
    BY <2>1, <2>2, <2>3, <2>4, <1>2, InSlots DEF Inv, HandlesLive, TypeOK, Slot
  <2>10. Loaded'
    BY <2>2, <2>3 DEF Inv, Loaded, TypeOK, ArrPtr
  <2>11. Private'
    BY <2>1, <2>2, <2>3, <2>5 DEF Inv, Private, TypeOK, ArrPtr
  <2>12. Calls'
    BY <2>1, <2>2, <2>5, <1>2, <1>3, AddressAssumption DEF Inv, Calls, CallOK, Fid, TypeOK, Caching
  <2>13. StackOK'
    BY <2>1, <2>2, <2>3, <1>3 DEF Inv, StackOK
  <2> QED
    BY <1>1, <2>6, <2>7, <2>8, <2>9, <2>10, <2>11, <2>12, <2>13 DEF Inv
<1> QED
  BY <1>4, <1>5

(* CacheInstallArray: the array is installed, or freed.                    *)
LEMMA KeepInstallArray ==
  ASSUME Inv, NEW t \in Thread, CacheInstallArray(t)
  PROVE  Inv'
<1> USE DEF tree
<1>1. TypeOK'
  BY TypeWork DEF Work
<1>2. pc[t] = "cas_array" /\ pc[t] \in Caching
  BY DEF CacheInstallArray, Caching
<1>3. vol = "open" /\ fdir[t] \in DirObj /\ fidx[t] \in Index /\ fdir[t] \in heap
  BY <1>2, FidType, InSlots
<1>4. arr[t] # NULL /\ arr[t] \in ArrObj /\ arr[t] \in heap
  BY <1>2, InSlots DEF Inv, Calls, CallOK
<1>5. /\ UNCHANGED <<vol, stream, stack, content, slots, req, tok, cur, fdir, fidx, sub>>
      /\ arr' = [arr EXCEPT ![t] = NULL]
      /\ pc' = [pc EXCEPT ![t] = "slot"]
  BY DEF CacheInstallArray
<1>6. \A u \in Thread : arr'[u] = IF u = t THEN NULL ELSE arr[u]
  BY <1>5 DEF Inv, TypeOK
<1>7. Shared' = Shared
  BY <1>5, SharedSame
<1>8. Calls'
  BY <1>2, <1>3, <1>5, <1>6 DEF Inv, Calls, CallOK, Fid, TypeOK, Caching
<1>9. CASE subdirs[fdir[t]] = NULL
  <2>1. heap' = heap /\ subdirs' = [subdirs EXCEPT ![fdir[t]] = arr[t]]
    BY <1>9 DEF CacheInstallArray, Wins
  <2>2. \A d \in DirObj : subdirs'[d] = IF d = fdir[t] THEN arr[t] ELSE subdirs[d]
    BY <2>1 DEF Inv, TypeOK
  <2>3. NoDangling'
    BY <1>3, <1>4, <1>5, <1>6, <2>1, <2>2 DEF Inv, NoDangling
  <2>4. OneOwner'
    BY <1>3, <1>4, <1>5, <1>6, <1>7, <2>2 DEF Inv, OneOwner
  <2>5. NoLeak'
    BY <1>3, <1>5, <1>6, <1>7, <1>9, <2>1, <2>2 DEF Inv, NoLeak
  <2>6. HandlesLive'
    <3>1. \A u \in Thread : pc'[u] \in {"slot", "read", "cas_dir", "get"} =>
            \/ u = t
            \/ u # t /\ pc[u] = pc'[u] /\ fdir[u] \in DirObj /\ subdirs[fdir[u]] # NULL
      BY <1>5, InSlots DEF Inv, HandlesLive, TypeOK, Caching
    <3>2. \A u \in Thread : pc'[u] \in {"slot", "read", "cas_dir", "get"} =>
            subdirs'[fdir'[u]] # NULL
      BY <1>3, <1>4, <1>5, <2>2, <3>1
    <3>3. \A u \in Thread : pc'[u] = "get" => Slot(u)' # NULL
      BY <1>5, <1>9, <2>2, <3>1 DEF Inv, HandlesLive, Slot, TypeOK
    <3> QED
      BY <1>5, <1>7, <3>2, <3>3 DEF Inv, HandlesLive
  <2>7. Loaded'
    BY <1>4, <1>5, <2>2 DEF Inv, Loaded, Private
  <2>8. Private'
    BY <1>2, <1>5, <1>6, <2>2, InSlots DEF Inv, Private
  <2>9. StackOK'
    BY <1>3, <1>5, <2>1 DEF Inv, StackOK
  <2> QED
    BY <1>1, <1>8, <2>3, <2>4, <2>5, <2>6, <2>7, <2>8, <2>9 DEF Inv
<1>10. CASE subdirs[fdir[t]] # NULL
  <2>1. heap' = heap \ {arr[t]} /\ subdirs' = subdirs
    BY <1>10 DEF CacheInstallArray, Wins, FreeArr
  <2>2. NoDangling'
    BY <1>4, <1>5, <1>6, <2>1, AddressAssumption, InSlots
    DEF Inv, NoDangling, OneOwner, Private, TypeOK, DirPtr
  <2>3. OneOwner'
    BY <1>5, <1>6, <1>7, <2>1 DEF Inv, OneOwner
  <2>4. NoLeak'
    BY <1>5, <1>6, <1>7, <2>1 DEF Inv, NoLeak
  <2>5. HandlesLive'
    BY <1>5, <1>7, <1>10, <2>1 DEF Inv, HandlesLive, TypeOK, Slot
  <2>6. Loaded' /\ Private'
    BY <1>5, <1>6, <2>1 DEF Inv, Loaded, Private
  <2>7. StackOK'
    BY <1>3, <1>4, <1>5, <2>1, AddressAssumption DEF Inv, StackOK
  <2> QED
    BY <1>1, <1>8, <2>2, <2>3, <2>4, <2>5, <2>6, <2>7 DEF Inv
<1> QED
  BY <1>9, <1>10

(* Freeing a private directory.                                            *)
LEMMA FreePrivateDir ==
  ASSUME Inv, TypeOK', NEW t \in Thread, sub[t] # NULL, vol = "open",
         NEW v \in {"error", "get"},
         heap' = heap \ {sub[t]},
         sub' = [sub EXCEPT ![t] = NULL],
         pc' = [pc EXCEPT ![t] = v],
         v = "get" => Slot(t) # NULL /\ pc[t] = "cas_dir",
         UNCHANGED <<vol, stream, stack, content, subdirs, slots>>,
         UNCHANGED <<req, tok, cur, fdir, fidx, arr>>
  PROVE  Inv'
<1>1. /\ sub[t] \in DirObj /\ sub[t] \in heap /\ sub[t] \notin Shared
      /\ subdirs[sub[t]] = NULL /\ pc[t] \in Caching
  BY InSlots DEF Inv, Private, Caching
<1>2. Shared' = Shared
  BY SharedSame
<1>3. \A u \in Thread : sub'[u] = IF u = t THEN NULL ELSE sub[u]
  BY DEF Inv, TypeOK
<1>4. NoDangling'
  BY <1>1, <1>3, SharedIs, AddressAssumption DEF Inv, NoDangling, OneOwner, TypeOK, ArrPtr
<1>5. OneOwner'
  <2>1. \A u \in Thread : sub'[u] \notin Shared'
    BY <1>2, <1>3, SharedIs, AddressAssumption DEF Inv, OneOwner
  <2> QED
    BY <1>3, <2>1 DEF Inv, OneOwner
<1>6. NoLeak'
  BY <1>1, <1>2, <1>3 DEF Inv, NoLeak
<1>7. HandlesLive'
  BY <1>2 DEF Inv, HandlesLive, Slot, TypeOK
<1>8. Loaded' /\ Private'
  BY <1>3 DEF Inv, Loaded, Private
<1>9. Calls'
  BY <1>1, <1>3 DEF Inv, Calls, CallOK, Fid, TypeOK, Caching
<1>10. StackOK'
  BY <1>1, SharedIs DEF Inv, StackOK
<1> QED
  BY <1>4, <1>5, <1>6, <1>7, <1>8, <1>9, <1>10 DEF Inv

(* CacheTestSlot: a directory nobody else knows comes into being.          *)
LEMMA KeepTestSlot ==
  ASSUME Inv, NEW t \in Thread, CacheTestSlot(t)
  PROVE  Inv'
<1> USE DEF tree
<1>1. TypeOK'
  BY TypeWork DEF Work
<1>2. pc[t] = "slot" /\ pc[t] \in Caching
  BY DEF CacheTestSlot, Caching
<1>3. vol = "open" /\ fdir[t] \in DirObj /\ fidx[t] \in Index
  BY <1>2, FidType
<1>4. CASE UNCHANGED <<heap, content, subdirs, sub>>
  <2>1. /\ UNCHANGED <<vol, stack, tree, arr, sub>>
        /\ UNCHANGED <<req, tok, cur, fdir, fidx, stream>>
    BY <1>4 DEF CacheTestSlot
  <2>2. \E v \in {"get", "error"} :
          /\ pc' = [pc EXCEPT ![t] = v]
          /\ v = "get" => Slot(t) # NULL
    BY <1>4, <1>2 DEF CacheTestSlot, Inv, TypeOK, Calls, CallOK
  <2>3. HandlesLive'
    BY <1>2, <2>1, <2>2, TreeFrame DEF Inv, HandlesLive, Slot, TypeOK
  <2>4. Calls'
    BY <2>1, <2>2, <1>2 DEF Inv, Calls, CallOK, Fid, TypeOK, Caching
  <2> QED
    BY <1>1, <2>1, <2>3, <2>4, TreeFrame DEF Inv
<1>5. CASE ~UNCHANGED <<heap, content, subdirs, sub>>
  <2>1. PICK d \in DirObj :
          /\ d \notin heap
          /\ heap' = heap \cup {d}
          /\ content' = [content EXCEPT ![d] = <<>>]
          /\ subdirs' = [subdirs EXCEPT ![d] = NULL]
          /\ sub' = [sub EXCEPT ![t] = d]
          /\ pc' = [pc EXCEPT ![t] = "read"]
    BY <1>5 DEF CacheTestSlot
  <2>2. UNCHANGED <<vol, stream, stack, slots, req, tok, cur, fdir, fidx, arr>>
    BY DEF CacheTestSlot
  <2>3. \A e \in DirObj : /\ subdirs'[e] = subdirs[e]
                          /\ e # d => content'[e] = content[e]
    BY <2>1, Fresh DEF Inv, TypeOK
  <2>4. Shared' = Shared /\ d \notin Shared
    BY <1>3, <2>1, <2>2, SharedSame, Fresh
  <2>5. \A u \in Thread : sub'[u] = IF u = t THEN d ELSE sub[u]
    BY <2>1 DEF Inv, TypeOK
  <2>6. NoDangling'
    BY <2>1, <2>2, <2>3, <2>5 DEF Inv, NoDangling
  <2>7. OneOwner'
    BY <2>1, <2>2, <2>3, <2>4, <2>5, Fresh DEF Inv, OneOwner
  <2>8. NoLeak'
    BY <1>2, <2>1, <2>2, <2>3, <2>4, <2>5, AddressAssumption DEF Inv, NoLeak, Calls, CallOK
  <2>9. HandlesLive'
    BY <1>2, <2>1, <2>2, <2>3, <2>4, InSlots DEF Inv, HandlesLive, TypeOK, Slot
  <2>10. Loaded'
    BY <2>1, <2>2, <2>3, Fresh, AddressAssumption DEF Inv, Loaded, TypeOK, ArrPtr, DirPtr
  <2>11. Private'
    BY <2>1, <2>2, <2>3, <2>5, Fresh, InSlots DEF Inv, Private
  <2>12. Calls'
    BY <1>2, <1>3, <2>1, <2>2, <2>3, <2>4, <2>5, InSlots, AddressAssumption
    DEF Inv, Calls, CallOK, Fid, TypeOK, Caching
  <2>13. StackOK'
    BY <1>3, <2>1, <2>2 DEF Inv, StackOK
  <2> QED
    BY <1>1, <2>6, <2>7, <2>8, <2>9, <2>10, <2>11, <2>12, <2>13 DEF Inv
<1> QED
  BY <1>4, <1>5

(* CacheReadDir: what is read, or freed, is still private.                 *)
LEMMA KeepReadDir ==
  ASSUME Inv, NEW t \in Thread, CacheReadDir(t)
  PROVE  Inv'
<1> USE DEF tree
<1>1. TypeOK'
  BY TypeWork DEF Work
<1>2. pc[t] = "read" /\ pc[t] \in Caching
  BY DEF CacheReadDir, Caching
<1>3. vol = "open" /\ fdir[t] \in DirObj /\ fidx[t] \in Index /\ fdir[t] \in Shared
  BY <1>2, FidType
<1>4. /\ sub[t] # NULL /\ sub[t] \in DirObj /\ sub[t] \in heap /\ sub[t] \notin Shared
      /\ subdirs[sub[t]] = NULL
  BY <1>2, InSlots DEF Inv, Calls, CallOK, Private
<1>5. UNCHANGED <<vol, stream, stack, subdirs, slots, req, tok, cur, fdir, fidx, arr>>
  BY DEF CacheReadDir
<1>6. Shared' = Shared
  BY <1>5, SharedSame
<1>7. CASE pc'[t] = "cas_dir"
  <2>1. PICK r \in Readings[Fid(t).icb] : content' = [content EXCEPT ![sub[t]] = r]
    BY <1>7 DEF CacheReadDir, Delivered, Inv, TypeOK
  <2>2. heap' = heap /\ sub' = sub /\ pc' = [pc EXCEPT ![t] = "cas_dir"]
    BY <1>7 DEF CacheReadDir, Inv, TypeOK
  <2>3. \A e \in DirObj : content'[e] = IF e = sub[t] THEN r ELSE content[e]
    BY <2>1 DEF Inv, TypeOK
  <2>4. NoDangling' /\ OneOwner' /\ NoLeak' /\ Private' /\ StackOK'
    BY <1>5, <1>6, <2>2 DEF Inv, NoDangling, OneOwner, NoLeak, Private, StackOK
  <2>5. HandlesLive'
    BY <1>2, <1>5, <1>6, <2>2 DEF Inv, HandlesLive, Slot, TypeOK
  <2>6. Loaded'
    <3>1. \A d \in DirObj, i \in Index :
            subdirs[d] # NULL /\ slots[subdirs[d]][i] # NULL =>
              /\ d # sub[t]
              /\ slots[subdirs[d]][i] # sub[t]
              /\ slots[subdirs[d]][i] \in DirObj
      BY <1>4, SharedIs DEF Inv, TypeOK, ArrPtr, DirPtr
    <3> QED
      BY <1>5, <2>3, <3>1 DEF Inv, Loaded
  <2>7. Calls'
    <3>1. \A u \in Thread : pc[u] \in Caching =>
            fdir[u] \in DirObj /\ content'[fdir[u]] = content[fdir[u]]
      BY <1>4, <2>3, InSlots
    <3>2. \A u \in Thread : pc[u] \in Caching => Fid(u)' = Fid(u)
      BY <1>5, <3>1 DEF Fid
    <3>3. CallOK(t)'
      BY <1>2, <1>3, <1>4, <1>5, <2>2, <2>3, <3>1, <3>2 DEF Inv, Calls, CallOK, TypeOK, Caching
    <3>4. ASSUME NEW u \in Thread, u # t PROVE CallOK(u)'
      <4>1. sub[u] # NULL => sub[u] \in DirObj /\ content'[sub[u]] = content[sub[u]]
        BY <1>4, <2>3, <3>4, InSlots DEF Inv, OneOwner
      <4>2. pc'[u] = pc[u]
        BY <2>2, <3>4 DEF Inv, TypeOK
      <4> QED
        BY <1>5, <2>2, <3>1, <3>2, <4>1, <4>2 DEF Inv, Calls, CallOK, Caching
    <3> QED
      BY <3>3, <3>4 DEF Calls
  <2> QED
    BY <1>1, <2>4, <2>5, <2>6, <2>7 DEF Inv
<1>8. CASE pc'[t] # "cas_dir"
  <2>1. /\ heap' = heap \ {sub[t]}
        /\ sub' = [sub EXCEPT ![t] = NULL]
        /\ pc' = [pc EXCEPT ![t] = "error"]
        /\ content' = content
    BY <1>8 DEF CacheReadDir, FreeSub, Inv, TypeOK
  <2> QED
    BY <1>1, <1>2, <1>3, <1>4, <1>5, <1>6, <2>1, FreePrivateDir
<1> QED
  BY <1>7, <1>8

(* CacheInstallDir: the directory is published, or freed.                  *)
LEMMA KeepInstallDir ==
  ASSUME Inv, NEW t \in Thread, CacheInstallDir(t)
  PROVE  Inv'
<1> USE DEF tree
<1>1. TypeOK'
  BY TypeWork DEF Work
<1>2. pc[t] = "cas_dir" /\ pc[t] \in Caching
  BY DEF CacheInstallDir, Caching
<1>3. /\ vol = "open" /\ fdir[t] \in DirObj /\ fdir[t] \in Shared /\ fdir[t] \in heap
      /\ fidx[t] \in Index /\ fidx[t] <= Len(content[fdir[t]]) /\ Fid(t).dir
      /\ subdirs[fdir[t]] \in ArrObj
  BY <1>2, FidType, InSlots
<1>4. /\ sub[t] # NULL /\ sub[t] \in DirObj /\ sub[t] \in heap /\ sub[t] \notin Shared
      /\ subdirs[sub[t]] = NULL /\ content[sub[t]] \in Readings[Fid(t).icb]
  BY <1>2, InSlots DEF Inv, Calls, CallOK, Private
<1>5. /\ UNCHANGED <<vol, stream, stack, content, subdirs, req, tok, cur, fdir, fidx, arr>>
      /\ sub' = [sub EXCEPT ![t] = NULL]
      /\ pc' = [pc EXCEPT ![t] = "get"]
  BY DEF CacheInstallDir
<1>6. CASE Slot(t) # NULL
  <2>1. heap' = heap \ {sub[t]} /\ slots' = slots
    BY <1>6 DEF CacheInstallDir, Wins, FreeSub
  <2> QED
    BY <1>1, <1>2, <1>3, <1>4, <1>5, <1>6, <2>1, FreePrivateDir
<1>7. CASE Slot(t) = NULL
  <2> DEFINE a == subdirs[fdir[t]]
  <2>1. /\ heap' = heap
        /\ slots' = [slots EXCEPT ![a] = [@ EXCEPT ![fidx[t]] = sub[t]]]
    BY <1>7 DEF CacheInstallDir, Wins
  <2>2. \A b \in ArrObj, i \in Index :
          slots'[b][i] = IF b = a /\ i = fidx[t] THEN sub[t] ELSE slots[b][i]
    BY <1>3, <2>1 DEF Inv, TypeOK
  <2>3. slots[a][fidx[t]] = NULL /\ a \in ArrObj /\ a \in heap
    BY <1>3, <1>7, AddressAssumption DEF Slot, Inv, NoDangling
  <2> HIDE DEF a
  <2>4. \A d : d \in Shared' <=> d \in Shared \/ d = sub[t]
    BY <1>3, <1>4, <2>2, <2>3, SharedIs
  <2>5. \A u \in Thread : sub'[u] = IF u = t THEN NULL ELSE sub[u]
    BY <1>5 DEF Inv, TypeOK
  <2>6. NoDangling'
    BY <1>3, <1>4, <1>5, <2>1, <2>2, <2>3, <2>5 DEF Inv, NoDangling
  <2>7. OneOwner'
    <3>1. \A b \in ArrObj, i \in Index : slots[b][i] # sub[t]
      BY <1>4, SharedIs
    <3>2. \A u \in Thread : sub'[u] \notin Shared'
      BY <1>4, <2>4, <2>5, SharedIs, AddressAssumption DEF Inv, OneOwner
    <3>3. sub[t] # Root
      BY <1>4, SharedIs
    <3> QED
      BY <1>5, <2>2, <2>3, <2>5, <3>1, <3>2, <3>3 DEF Inv, OneOwner
  <2>8. NoLeak'
    BY <1>5, <2>1, <2>4, <2>5 DEF Inv, NoLeak
  <2>9. HandlesLive'
    <3>1. \A u \in Thread : pc'[u] \in {"slot", "read", "cas_dir", "get"} =>
            /\ pc[u] \in {"slot", "read", "cas_dir", "get"}
            /\ u # t => pc[u] = pc'[u]
      BY <1>2, <1>5 DEF Inv, TypeOK
    <3>2. \A u \in Thread : pc'[u] \in {"slot", "read", "cas_dir", "get"} =>
            subdirs'[fdir'[u]] # NULL
      BY <1>5, <3>1 DEF Inv, HandlesLive
    <3>3. \A u \in Thread : pc'[u] = "get" => Slot(u)' # NULL
      <4>1. \A u \in Thread : pc'[u] = "get" =>
              Slot(u)' = slots'[subdirs[fdir[u]]][fidx[u]]
        BY <1>5 DEF Slot
      <4> QED
        BY <1>4, <2>2, <3>1, <4>1, InSlots DEF Inv, HandlesLive, Slot, a
    <3> QED
      BY <1>5, <2>4, <3>2, <3>3 DEF Inv, HandlesLive
  <2>10. Loaded'
    <3> SUFFICES ASSUME NEW d \in DirObj, NEW i \in Index,
                        subdirs[d] # NULL, slots'[subdirs[d]][i] # NULL
                 PROVE  /\ i <= Len(content[d])
                        /\ content[d][i].dir
                        /\ content[slots'[subdirs[d]][i]] \in Readings[content[d][i].icb]
      BY <1>5 DEF Loaded
    <3>1. CASE d = fdir[t] /\ i = fidx[t]
      BY <1>3, <1>4, <2>2, <2>3, <3>1 DEF Fid, a
    <3>2. CASE ~(d = fdir[t] /\ i = fidx[t])
      <4>1. slots'[subdirs[d]][i] = slots[subdirs[d]][i]
        BY <1>3, <2>2, <3>2 DEF Inv, OneOwner, TypeOK, ArrPtr, a
      <4> QED
        BY <4>1 DEF Inv, Loaded
    <3> QED
      BY <3>1, <3>2
  <2>11. Private'
    BY <1>3, <1>5, <2>2, <2>5, InSlots DEF Inv, Private, OneOwner, a
  <2>12. Calls'
    BY <1>2, <1>3, <1>5, <2>5 DEF Inv, Calls, CallOK, Fid, TypeOK, Caching
  <2>13. StackOK'
    BY <1>3, <1>5, <2>1 DEF Inv, StackOK
  <2> QED
    BY <1>1, <2>6, <2>7, <2>8, <2>9, <2>10, <2>11, <2>12, <2>13 DEF Inv
<1> QED
  BY <1>6, <1>7

(* The steps of a call that leave the tree alone.                          *)
LEMMA KeepWalk ==
  ASSUME Inv, NEW t \in Thread,
         \/ WalkNotFound(t) \/ WalkFound(t) \/ NewUdfdir(t)
         \/ FileOpen(t) \/ CacheGet(t) \/ Return(t)
  PROVE  Inv'
<1> USE DEF tree
<1>1. TypeOK'
  BY TypeWork DEF Work
<1>2. UNCHANGED <<vol, stack, tree, arr, sub>>
  BY DEF WalkNotFound, WalkFound, NewUdfdir, FileOpen, CacheGet, Return
<1> SUFFICES HandlesLive' /\ Calls'
  BY <1>1, <1>2, TreeFrame DEF Inv
<1>3. Shared' = Shared
  BY <1>2, TreeFrame
<1>4. CASE WalkNotFound(t)
  BY <1>3, <1>4 DEF WalkNotFound, Inv, HandlesLive, Calls, CallOK, Slot, Fid, TypeOK, Caching
<1>5. CASE WalkFound(t)
  <2>1. /\ vol = "open" /\ pc[t] = "walk" /\ cur[t] # NULL
        /\ cur[t] \in DirObj /\ cur[t] \in Shared
    BY <1>5 DEF WalkFound, Inv, HandlesLive, Calls, CallOK, TypeOK, DirPtr
  <2>2. PICK i \in ScanDir(cur[t], req[t].path[tok[t]]) :
          /\ fdir' = [fdir EXCEPT ![t] = cur[t]]
          /\ fidx' = [fidx EXCEPT ![t] = i]
          /\ cur' = [cur EXCEPT ![t] = cur'[t]] /\ cur'[t] \in {cur[t], NULL}
          /\ cur'[t] = NULL => tok[t] = Len(req[t].path)
          /\ pc' = [pc EXCEPT ![t] = pc'[t]] /\ pc'[t] \in {"cache", "walk", "notfound"}
          /\ pc'[t] = "cache" => content[cur[t]][i].dir /\ cur'[t] = cur[t]
    BY <1>5, <2>1 DEF WalkFound, Inv, TypeOK
  <2>3. i <= Len(content[cur[t]])
    BY <2>2 DEF ScanDir, Lowest, Matches
  <2>4. UNCHANGED <<vol, stream, stack, tree, req, arr, sub>> /\ tok' = [tok EXCEPT ![t] = @ + 1]
    BY <1>5 DEF WalkFound
  <2>5. HandlesLive'
    BY <1>3, <2>1, <2>2, <2>4 DEF Inv, HandlesLive, Slot, TypeOK
  <2>6. CallOK(t)'
    BY <2>1, <2>2, <2>3, <2>4 DEF Inv, Calls, CallOK, Fid, TypeOK, Caching
  <2>7. ASSUME NEW u \in Thread, u # t PROVE CallOK(u)'
    BY <2>2, <2>4, <2>7 DEF Inv, Calls, CallOK, Fid, TypeOK
  <2> QED
    BY <2>5, <2>6, <2>7 DEF Calls
<1>6. CASE NewUdfdir(t)
  <2>1. /\ vol = "open" /\ pc[t] = "walk"
        /\ UNCHANGED <<vol, tree, req, tok, cur, fdir, fidx, arr, sub>>
    BY <1>6 DEF NewUdfdir, Inv, Calls, CallOK
  <2>2. \E v \in Result : pc' = [pc EXCEPT ![t] = v]
    BY <1>6 DEF NewUdfdir, Result
  <2>3. \A s \in Stream : stream'[s] \in Shared \cup {NULL}
    BY <1>6, <2>1 DEF NewUdfdir, Inv, HandlesLive, TypeOK
  <2>4. HandlesLive'
    BY <1>3, <2>1, <2>2, <2>3 DEF Inv, HandlesLive, Slot, TypeOK, Result
  <2>5. Calls'
    BY <2>1, <2>2 DEF Inv, Calls, CallOK, Fid, TypeOK, Result, Caching
  <2> QED
    BY <2>4, <2>5
<1>7. CASE FileOpen(t)
  <2>1. /\ vol = "open" /\ pc[t] = "walk"
        /\ UNCHANGED <<vol, stream, tree, req, tok, cur, fdir, fidx, arr, sub>>
    BY <1>7 DEF FileOpen, Inv, Calls, CallOK
  <2>2. \E v \in Result : pc' = [pc EXCEPT ![t] = v]
    BY <1>7 DEF FileOpen, Result
  <2>3. HandlesLive'
    BY <1>3, <2>1, <2>2 DEF Inv, HandlesLive, Slot, TypeOK, Result
  <2>4. Calls'
    BY <2>1, <2>2 DEF Inv, Calls, CallOK, Fid, TypeOK, Result, Caching
  <2> QED
    BY <2>3, <2>4
<1>8. CASE CacheGet(t)
  <2>1. Slot(t) \in Shared /\ Slot(t) # NULL
    BY <1>8, SlotType, InSlots, SharedIs DEF CacheGet, Slot
  <2>2. /\ pc[t] = "get" /\ vol = "open"
        /\ cur' = [cur EXCEPT ![t] = Slot(t)]
        /\ pc' = [pc EXCEPT ![t] = "walk"]
        /\ UNCHANGED <<vol, stream, tree, req, tok, fdir, fidx, arr, sub>>
    BY <1>8 DEF CacheGet, Inv, Calls, CallOK
  <2>3. HandlesLive'
    BY <1>3, <2>1, <2>2 DEF Inv, HandlesLive, Slot, TypeOK
  <2>4. Calls'
    BY <2>1, <2>2 DEF Inv, Calls, CallOK, Fid, TypeOK, Caching
  <2> QED
    BY <2>3, <2>4
<1>9. CASE Return(t)
  <2>1. NoCall.start = Root /\ Root \in Shared
    BY SharedIs DEF NoCall
  <2>2. HandlesLive'
    BY <1>3, <1>9, <2>1 DEF Return, Inv, HandlesLive, Slot, TypeOK
  <2>3. Calls'
    BY <1>9 DEF Return, Inv, Calls, CallOK, Fid, TypeOK, Caching, Result
  <2> QED
    BY <2>2, <2>3
<1> QED
  BY <1>4, <1>5, <1>6, <1>7, <1>8, <1>9

(* A thread enters the library.                                            *)
LEMMA KeepBegin == ASSUME Inv, NEW t \in Thread, Begin(t) PROVE Inv'
<1> USE DEF tree
<1>1. PICK api \in Api, start \in DirObj, path \in Seq(Name), next \in {"walk", "error"} :
        /\ Enter(t, api, start, path, next)
        /\ start = Root \/ \E s \in Stream : start = stream[s]
  BY BeginIsEnter
<1>2. TypeOK'
  BY <1>1, TypeEnter
<1>3. /\ vol = "open" /\ pc[t] = "idle"
      /\ req' = [req EXCEPT ![t] = [api |-> api, start |-> start, path |-> path]]
      /\ cur' = [cur EXCEPT ![t] = start]
      /\ pc' = [pc EXCEPT ![t] = next]
      /\ UNCHANGED <<vol, stream, stack, tree, tok, fdir, fidx, arr, sub>>
  BY <1>1 DEF Enter
<1>4. Shared' = Shared
  BY <1>3, TreeFrame
<1>5. start \in Shared /\ start # NULL
  BY <1>1, <1>3, SharedIs, AddressAssumption DEF Inv, HandlesLive
<1>6. HandlesLive'
  BY <1>3, <1>4, <1>5 DEF Inv, HandlesLive, Slot, TypeOK
<1>7. Calls'
  BY <1>3, <1>5 DEF Inv, Calls, CallOK, Fid, TypeOK, Caching
<1> QED
  BY <1>2, <1>3, <1>6, <1>7, TreeFrame DEF Inv

(* udfread_close starts the recursion at the root.                         *)
LEMMA KeepClose == ASSUME Inv, udfread_close PROVE Inv'
<1> USE DEF tree, locals
<1>1. TypeOK'
  BY TypeStep DEF Next
<1>2. /\ vol = "open" /\ vol' = "closing" /\ stack' = <<[dir |-> Root, i |-> 1]>>
      /\ \A t \in Thread : pc[t] = "idle"
      /\ UNCHANGED <<stream, tree, locals>>
  BY DEF udfread_close
<1>3. Len(stack') = 1 /\ stack'[1].dir = Root /\ stack'[1].i = 1
  BY <1>2
<1>4. NoDangling' /\ OneOwner' /\ NoLeak' /\ Loaded' /\ Private'
  BY <1>2 DEF Inv, NoDangling, OneOwner, NoLeak, Loaded, Private, Shared
<1>5. HandlesLive' /\ Calls'
  BY <1>2 DEF Inv, HandlesLive, Calls, CallOK, Slot, Fid, Caching
<1>6. StackOK'
  BY <1>2, <1>3 DEF Inv, StackOK, Index
<1> QED
  BY <1>1, <1>4, <1>5, <1>6 DEF Inv

(* While the tree is torn down no call is in progress.                     *)
LEMMA NobodyCalls ==
  ASSUME Inv, vol = "closing"
  PROVE  \A t \in Thread : pc[t] = "idle" /\ arr[t] = NULL /\ sub[t] = NULL
BY DEF Inv, Calls, CallOK

LEMMA QuietCalls ==
  ASSUME Inv, vol = "closing", vol' # "open", UNCHANGED locals
  PROVE  HandlesLive' /\ Calls'
<1>1. \A t \in Thread : pc'[t] = "idle" /\ arr'[t] = NULL /\ sub'[t] = NULL
                          /\ tok'[t] = 1 /\ cur'[t] = NULL
  BY NobodyCalls DEF locals, Inv, Calls, CallOK
<1> QED
  BY <1>1 DEF HandlesLive, Calls, CallOK, Caching

(* _clean_tree goes on with a child that is not being cleaned yet.         *)
LEMMA KeepCleanChild == ASSUME Inv, CleanChild PROVE Inv'
<1> USE DEF tree, locals
<1>1. TypeOK'
  BY TypeClean DEF Clean
<1> DEFINE x == slots[subdirs[Top]][Turn]
           n == Len(stack)
<1>2. /\ vol = "closing" /\ subdirs[Top] # NULL /\ x # NULL
      /\ stack' = Append(stack, [dir |-> x, i |-> 1])
      /\ UNCHANGED <<vol, stream, tree, locals>>
  BY DEF CleanChild
<1>3. Turn \in Index
  BY <1>2, TurnInIndex DEF CleanChild
<1>4. /\ n \in Nat \ {0} /\ Top = stack[n].dir /\ Turn = stack[n].i /\ Top \in DirObj
      /\ \A k \in 1 .. n : stack[k].dir \in DirObj
      /\ subdirs[Top] \in ArrObj /\ x \in DirObj
  <2>1. /\ n \in Nat \ {0} /\ Top = stack[n].dir /\ Turn = stack[n].i /\ Top \in DirObj
        /\ \A k \in 1 .. n : stack[k].dir \in DirObj
    BY <1>2, StackType
  <2>2. subdirs[Top] \in ArrObj
    BY <1>2, <2>1 DEF Inv, TypeOK, ArrPtr
  <2>3. x \in DirObj
    BY <1>2, <1>3, <2>2 DEF Inv, TypeOK, DirPtr
  <2> QED
    BY <2>1, <2>2, <2>3
<1>5. /\ Len(stack') = n + 1
      /\ stack'[n + 1].dir = x /\ stack'[n + 1].i = 1
      /\ \A k \in 1 .. n : stack'[k] = stack[k]
  BY <1>2, <1>4 DEF Inv, TypeOK
<1>6. \A k \in 1 .. n : stack[k].dir # x
  <2> SUFFICES ASSUME NEW k \in 1 .. n, stack[k].dir = x PROVE FALSE
    OBVIOUS
  <2>1. k > 1
    BY <1>2, <1>3, <1>4 DEF Inv, StackOK, OneOwner
  <2>2. k - 1 \in 1 .. n - 1 /\ k - 1 \in 1 .. n /\ (k - 1) + 1 = k
    BY <1>4, <2>1
  <2> DEFINE e == stack[k - 1].dir
             j == stack[k - 1].i
  <2>3. subdirs[e] # NULL /\ j \in Index /\ slots[subdirs[e]][j] = x
    BY <1>4, <2>2 DEF Inv, StackOK
  <2>4. e \in DirObj
    BY <1>4, <2>2
  <2> HIDE DEF e, j
  <2>5. subdirs[e] \in ArrObj
    BY <2>3, <2>4 DEF Inv, TypeOK, ArrPtr
  <2>6. subdirs[e] = subdirs[Top]
    BY <1>2, <1>3, <1>4, <2>3, <2>5 DEF Inv, OneOwner
  <2>7. e = Top
    BY <1>2, <1>4, <2>4, <2>6 DEF Inv, OneOwner
  <2>8. k - 1 = n
    BY <1>4, <2>2, <2>7 DEF Inv, StackOK, e
  <2> QED
    BY <1>4, <2>2, <2>8
<1> HIDE DEF x, n
<1>7. StackOK'
  <2>1. \A j, k \in 1 .. n + 1 : stack'[j].dir = stack'[k].dir => j = k
    <3>1. \A k \in 1 .. n + 1 : k \in 1 .. n \/ k = n + 1
      BY <1>4
    <3> QED
      BY <1>4, <1>5, <1>6, <3>1 DEF Inv, StackOK, n
  <2>2. \A k \in 1 .. n : /\ subdirs[stack'[k].dir] # NULL
                          /\ stack'[k].i \in Index
                          /\ slots[subdirs[stack'[k].dir]][stack'[k].i] = stack'[k + 1].dir
    <3> SUFFICES ASSUME NEW k \in 1 .. n
                 PROVE  /\ subdirs[stack'[k].dir] # NULL
                        /\ stack'[k].i \in Index
                        /\ slots[subdirs[stack'[k].dir]][stack'[k].i] = stack'[k + 1].dir
      OBVIOUS
    <3>1. CASE k = n
      BY <1>2, <1>3, <1>4, <1>5, <3>1 DEF x
    <3>2. CASE k # n
      <4>1. k \in 1 .. n - 1 /\ k + 1 \in 1 .. n
        BY <1>4, <3>2
      <4> QED
        BY <1>5, <4>1 DEF Inv, StackOK, n
    <3> QED
      BY <3>1, <3>2
  <2>3. \A k \in 1 .. n + 1 : subdirs[stack'[k].dir] # NULL =>
          \A j \in Index : j < stack'[k].i => slots[subdirs[stack'[k].dir]][j] = NULL
    <3>1. \A k \in 1 .. n : subdirs[stack'[k].dir] # NULL =>
            \A j \in Index : j < stack'[k].i => slots[subdirs[stack'[k].dir]][j] = NULL
      BY <1>5 DEF Inv, StackOK, n
    <3>2. \A j \in Index : ~(j < stack'[n + 1].i)
      BY <1>5 DEF Index
    <3>3. \A k \in 1 .. n + 1 : k \in 1 .. n \/ k = n + 1
      BY <1>4
    <3> QED
      BY <3>1, <3>2, <3>3
  <2>4. /\ vol' # "closed" => Root \in heap'
        /\ vol' = "closing" <=> Len(stack') > 0
        /\ Len(stack') > 0 => stack'[1].dir = Root
    BY <1>2, <1>4, <1>5 DEF Inv, StackOK, n
  <2>5. Len(stack') - 1 = n /\ Len(stack') = n + 1
    BY <1>4, <1>5
  <2>6. subdirs' = subdirs /\ slots' = slots
    BY <1>2
  <2> QED
    BY <2>1, <2>2, <2>3, <2>4, <2>5, <2>6 DEF StackOK
<1>8. NoDangling' /\ OneOwner' /\ NoLeak' /\ Loaded' /\ Private'
  BY <1>2 DEF Inv, NoDangling, OneOwner, NoLeak, Loaded, Private, Shared
<1> QED
  BY <1>1, <1>2, <1>7, <1>8, QuietCalls DEF Inv

(* It goes past a child that was never loaded.                             *)
LEMMA KeepCleanSkip == ASSUME Inv, CleanSkip PROVE Inv'
<1> USE DEF tree, locals
<1>1. TypeOK'
  BY TypeClean DEF Clean
<1> DEFINE n == Len(stack)
<1>2. /\ vol = "closing" /\ subdirs[Top] # NULL
      /\ slots[subdirs[Top]][Turn] = NULL
      /\ stack' = Advanced(stack)
      /\ UNCHANGED <<vol, stream, tree, locals>>
  BY DEF CleanSkip
<1>3. /\ n \in Nat \ {0} /\ Top = stack[n].dir
      /\ Turn = stack[n].i /\ Turn \in Nat
  BY <1>2, StackType
<1>4. /\ Len(stack') = n
      /\ \A k \in 1 .. n : stack'[k].dir = stack[k].dir
      /\ \A k \in 1 .. n - 1 : stack'[k] = stack[k]
      /\ stack'[n].i = Turn + 1
  <2>1. stack \in Seq(Frame) /\ Len(stack) > 0
    BY <1>3 DEF Inv, TypeOK
  <2> QED
    BY <1>2, <1>3, <2>1, AdvancedIs
<1> HIDE DEF n
<1>5. StackOK'
  <2>1. \A k \in 1 .. n - 1 : k \in 1 .. n /\ k + 1 \in 1 .. n
    BY <1>3
  <2>2. \A j, k \in 1 .. n : stack'[j].dir = stack'[k].dir => j = k
    BY <1>4 DEF Inv, StackOK, n
  <2>3. \A k \in 1 .. n - 1 :
          /\ subdirs[stack'[k].dir] # NULL
          /\ stack'[k].i \in Index
          /\ slots[subdirs[stack'[k].dir]][stack'[k].i] = stack'[k + 1].dir
    BY <1>4, <2>1 DEF Inv, StackOK, n
  <2>4. \A k \in 1 .. n : subdirs[stack'[k].dir] # NULL =>
          \A j \in Index : j < stack'[k].i => slots[subdirs[stack'[k].dir]][j] = NULL
    <3> SUFFICES ASSUME NEW k \in 1 .. n, subdirs[stack'[k].dir] # NULL,
                        NEW j \in Index, j < stack'[k].i
                 PROVE  slots[subdirs[stack'[k].dir]][j] = NULL
      OBVIOUS
    <3>1. CASE k = n
      <4>1. j = Turn \/ j < Turn
        BY <1>3, <1>4, <3>1 DEF Index
      <4> QED
        BY <1>2, <1>3, <1>4, <3>1, <4>1 DEF Inv, StackOK, n
    <3>2. CASE k # n
      <4>1. k \in 1 .. n - 1
        BY <1>3, <3>2
      <4> QED
        BY <1>4, <4>1 DEF Inv, StackOK, n
    <3> QED
      BY <3>1, <3>2
  <2>5. /\ vol' # "closed" => Root \in heap'
        /\ vol' = "closing" <=> Len(stack') > 0
        /\ Len(stack') > 0 => stack'[1].dir = Root
    BY <1>2, <1>3, <1>4 DEF Inv, StackOK, n
  <2> QED
    BY <1>2, <1>4, <2>2, <2>3, <2>4, <2>5 DEF StackOK
<1>6. NoDangling' /\ OneOwner' /\ NoLeak' /\ Loaded' /\ Private'
  BY <1>2 DEF Inv, NoDangling, OneOwner, NoLeak, Loaded, Private, Shared
<1> QED
  BY <1>1, <1>2, <1>5, <1>6, QuietCalls DEF Inv

(* An array whose children are gone is freed.                              *)
LEMMA KeepCleanArray == ASSUME Inv, CleanArray PROVE Inv'
<1> USE DEF tree
<1>1. TypeOK'
  BY TypeClean DEF Clean
<1>2. /\ vol = "closing" /\ subdirs[Top] # NULL /\ Turn \notin Children
      /\ heap' = heap \ {subdirs[Top]}
      /\ subdirs' = [subdirs EXCEPT ![Top] = NULL]
      /\ UNCHANGED <<vol, stream, stack, content, slots, locals>>
  BY DEF CleanArray
<1> DEFINE a == subdirs[Top]
           n == Len(stack)
<1>3. /\ n \in Nat \ {0} /\ Top = stack[n].dir /\ Top \in DirObj
      /\ Turn = stack[n].i /\ Turn \in Nat \ {0}
      /\ \A k \in 1 .. n : stack[k].dir \in DirObj
      /\ a \in ArrObj
  BY <1>2, StackType DEF Inv, TypeOK, ArrPtr
<1>4. \A i \in Index : slots[a][i] = NULL
  <2>1. content[Top] \in Entries
    BY <1>3 DEF Inv, TypeOK
  <2>2. Len(content[Top]) \in Nat
    BY <2>1 DEF Entries
  <2>3. \A i \in Index : i < Turn => slots[a][i] = NULL
    BY <1>2, <1>3 DEF Inv, StackOK
  <2>4. \A i \in Index : slots[a][i] # NULL => i <= Len(content[Top])
    BY <1>2, <1>3 DEF Inv, Loaded
  <2>5. \A i \in Index : i \in Nat
    BY ImageAssumption DEF Index
  <2> QED
    BY <1>2, <1>3, <2>2, <2>3, <2>4, <2>5 DEF Children
<1>5. \A d \in DirObj : subdirs'[d] = IF d = Top THEN NULL ELSE subdirs[d]
  BY <1>2 DEF Inv, TypeOK
<1>6. \A t \in Thread : arr'[t] = NULL /\ sub'[t] = NULL /\ arr[t] = NULL /\ sub[t] = NULL
  BY <1>2, NobodyCalls DEF locals
<1>7. Shared' = Shared
  BY <1>2, SharedSame
<1>8. \A d \in DirObj : d # Top /\ subdirs[d] # NULL => subdirs[d] # a
  BY <1>3 DEF Inv, OneOwner
<1> HIDE DEF a, n
<1>9. NoDangling'
  <2>1. \A d \in DirObj : subdirs'[d] # NULL => {d, subdirs'[d]} \subseteq heap'
    BY <1>2, <1>3, <1>5, <1>8, AddressAssumption DEF Inv, NoDangling, a
  <2>2. \A b \in ArrObj, i \in Index : slots[b][i] # NULL => {b, slots[b][i]} \subseteq heap'
    BY <1>2, <1>3, <1>4, AddressAssumption DEF Inv, NoDangling, TypeOK, DirPtr, a
  <2> QED
    BY <1>2, <1>6, <2>1, <2>2 DEF NoDangling
<1>10. OneOwner'
  BY <1>2, <1>5, <1>6, <1>7, SharedIs, AddressAssumption DEF Inv, OneOwner
<1>11. NoLeak'
  BY <1>2, <1>5, <1>6, <1>7 DEF Inv, NoLeak
<1>12. Loaded' /\ Private'
  BY <1>2, <1>5, <1>6 DEF Inv, Loaded, Private
<1>13. StackOK'
  <2>1. \A k \in 1 .. n - 1 : stack[k].dir # Top
    BY <1>3 DEF Inv, StackOK, n
  <2>2. Root \in heap'
    BY <1>2, <1>3, AddressAssumption DEF Inv, StackOK, a
  <2>3. \A k \in 1 .. n : /\ stack[k].dir \in DirObj
                          /\ subdirs'[stack[k].dir] # NULL => subdirs'[stack[k].dir] = subdirs[stack[k].dir]
    BY <1>3, <1>5
  <2>4. \A k \in 1 .. n - 1 : subdirs'[stack[k].dir] = subdirs[stack[k].dir]
    BY <1>3, <1>5, <2>1
  <2> QED
    BY <1>2, <1>3, <2>2, <2>3, <2>4 DEF Inv, StackOK, n
<1> QED
  BY <1>1, <1>2, <1>9, <1>10, <1>11, <1>12, <1>13, QuietCalls DEF Inv

(* A directory without an array is freed, and the one slot that pointed to *)
(* it is cleared.                                                          *)
LEMMA KeepCleanEntries == ASSUME Inv, CleanEntries PROVE Inv'
<1> USE DEF tree
<1>1. TypeOK'
  BY TypeClean DEF Clean
<1>2. /\ vol = "closing" /\ subdirs[Top] = NULL
      /\ content' = [content EXCEPT ![Top] = <<>>]
      /\ heap' = heap \ {Top}
      /\ UNCHANGED <<stream, subdirs, locals>>
  BY DEF CleanEntries
<1> DEFINE n == Len(stack)
<1>0. n = 1 \/ n > 1
  <2>1. Len(stack) \in Nat \ {0}
    BY <1>2, StackType
  <2>2. \A m \in Nat \ {0} : m = 1 \/ m > 1
    OBVIOUS
  <2> QED
    BY <2>1, <2>2
<1>3. /\ n \in Nat \ {0} /\ Top = stack[n].dir /\ Top \in DirObj
      /\ \A k \in 1 .. n : /\ stack[k].dir \in DirObj
                           /\ stack[k].i \in Nat \ {0}
  BY <1>2, StackType
<1>4. /\ Len(stack') = n - 1
      /\ \A k \in 1 .. n - 1 : stack'[k].dir = stack[k].dir
      /\ \A k \in 1 .. (n - 1) - 1 : stack'[k] = stack[k]
      /\ n > 1 => stack'[n - 1].i = stack[n - 1].i + 1
  <2>1. CASE n = 1
    BY <1>3, <2>1 DEF CleanEntries
  <2>2. CASE n > 1
    BY <1>2, <1>3, <2>2, ReturnedIs, StackType
  <2> QED
    BY <1>0, <2>1, <2>2
<1>5. \A t \in Thread : arr'[t] = NULL /\ sub'[t] = NULL /\ arr[t] = NULL /\ sub[t] = NULL
  BY <1>2, NobodyCalls DEF locals
<1>6. \A a \in ArrObj, i \in Index :
        slots'[a][i] = IF slots[a][i] = Top THEN NULL ELSE slots[a][i]
  <2>1. CASE n = 1
    <3>1. Top = Root /\ slots' = slots
      BY <1>3, <2>1 DEF CleanEntries, Inv, StackOK
    <3> QED
      BY <3>1 DEF Inv, OneOwner
  <2>2. CASE n > 1
    <3> DEFINE b == subdirs[Below.dir]
    <3>1. /\ Below = stack[n - 1] /\ Below.i \in Index /\ b \in ArrObj
          /\ n - 1 \in 1 .. n - 1 /\ (n - 1) + 1 = n
      BY <1>2, <1>3, <2>2, StackType
    <3>2. slots[b][Below.i] = Top
      BY <1>3, <3>1 DEF Inv, StackOK
    <3>3. slots' = [slots EXCEPT ![b] = [@ EXCEPT ![Below.i] = NULL]]
      BY <1>3, <2>2 DEF CleanEntries
    <3> HIDE DEF b
    <3>4. \A a \in ArrObj, i \in Index : slots[a][i] = Top => a = b /\ i = Below.i
      BY <1>3, <3>1, <3>2, AddressAssumption DEF Inv, OneOwner
    <3>5. slots \in [ArrObj -> [Index -> DirPtr]]
      BY DEF Inv, TypeOK
    <3>6. \A a \in ArrObj, i \in Index :
            slots'[a][i] = IF a = b /\ i = Below.i THEN NULL ELSE slots[a][i]
      BY <3>1, <3>3, <3>5
    <3> QED
      BY <3>1, <3>2, <3>4, <3>6
  <2> QED
    BY <1>0, <2>1, <2>2
<1>7. \A d : d \in Shared' <=> d = Root \/ (d \in Shared /\ d # Top)
  BY <1>6, SharedIs
<1>8. \A d \in DirObj : d # Top => content'[d] = content[d]
  BY <1>2 DEF Inv, TypeOK
<1>9. vol' = IF n = 1 THEN "closed" ELSE "closing"
  BY <1>2, <1>3 DEF CleanEntries
<1> HIDE DEF n
<1>10. NoDangling'
  BY <1>2, <1>3, <1>5, <1>6, AddressAssumption DEF Inv, NoDangling, TypeOK, ArrPtr
<1>11. OneOwner'
  <2>1. \A t \in Thread : sub'[t] \notin Shared'
    BY <1>5, SharedIs, AddressAssumption
  <2>2. \A a \in ArrObj, i \in Index : slots'[a][i] # NULL => slots'[a][i] = slots[a][i]
    BY <1>6
  <2>3. \A a \in ArrObj, i \in Index : slots'[a][i] # Root
    BY <1>6, AddressAssumption DEF Inv, OneOwner
  <2> QED
    BY <1>2, <1>5, <2>1, <2>2, <2>3 DEF Inv, OneOwner
<1>12. NoLeak'
  BY <1>2, <1>3, <1>5, <1>7, AddressAssumption DEF Inv, NoLeak
<1>13. Loaded'
  <2> SUFFICES ASSUME NEW d \in DirObj, NEW i \in Index,
                      subdirs[d] # NULL, slots'[subdirs[d]][i] # NULL
               PROVE  /\ i <= Len(content'[d])
                      /\ content'[d][i].dir
                      /\ content'[slots'[subdirs[d]][i]] \in Readings[content'[d][i].icb]
    BY <1>2 DEF Loaded
  <2>1. d # Top /\ subdirs[d] \in ArrObj
    BY <1>2 DEF Inv, TypeOK, ArrPtr
  <2>2. /\ slots'[subdirs[d]][i] = slots[subdirs[d]][i]
        /\ slots[subdirs[d]][i] # NULL /\ slots[subdirs[d]][i] # Top
        /\ slots[subdirs[d]][i] \in DirObj
    BY <1>6, <2>1 DEF Inv, TypeOK, DirPtr
  <2> QED
    BY <1>8, <2>1, <2>2 DEF Inv, Loaded
<1>14. Private'
  BY <1>5 DEF Private
<1>15. StackOK'
  <2>1. \A k \in 1 .. n - 1 : /\ stack[k].dir # Top /\ stack[k].dir \in DirObj
                              /\ k \in 1 .. n
    BY <1>3 DEF Inv, StackOK, n
  <2>2. vol' # "closed" => Root \in heap'
    <3>1. n > 1 => 1 \in 1 .. n - 1 /\ stack[1].dir = Root
      BY <1>3 DEF Inv, StackOK, n
    <3> QED
      BY <1>2, <1>3, <1>9, <2>1, <3>1 DEF Inv, StackOK
  <2>3. \A k \in 1 .. (n - 1) - 1 :
          /\ subdirs'[stack'[k].dir] # NULL
          /\ stack'[k].i \in Index
          /\ slots'[subdirs'[stack'[k].dir]][stack'[k].i] = stack'[k + 1].dir
    <3> SUFFICES ASSUME NEW k \in 1 .. (n - 1) - 1
                 PROVE  /\ subdirs'[stack'[k].dir] # NULL
                        /\ stack'[k].i \in Index
                        /\ slots'[subdirs'[stack'[k].dir]][stack'[k].i] = stack'[k + 1].dir
      OBVIOUS
    <3>1. k \in 1 .. n - 1 /\ k + 1 \in 1 .. n - 1
      BY <1>3
    <3>2. /\ subdirs[stack[k].dir] # NULL
          /\ stack[k].i \in Index
          /\ slots[subdirs[stack[k].dir]][stack[k].i] = stack[k + 1].dir
      BY <3>1 DEF Inv, StackOK, n
    <3>3. subdirs[stack[k].dir] \in ArrObj
      BY <2>1, <3>1, <3>2 DEF Inv, TypeOK, ArrPtr
    <3>4. stack'[k] = stack[k] /\ stack'[k + 1].dir = stack[k + 1].dir
      BY <1>4, <3>1
    <3> QED
      BY <1>2, <1>6, <2>1, <3>1, <3>2, <3>3, <3>4
  <2>4. \A j, k \in 1 .. n - 1 : stack'[j].dir = stack'[k].dir => j = k
    BY <1>4, <2>1 DEF Inv, StackOK, n
  <2>5. n - 1 > 0 => stack'[1].dir = Root
    BY <1>3, <1>4 DEF Inv, StackOK, n
  <2>6. \A k \in 1 .. n - 1 : subdirs'[stack'[k].dir] # NULL =>
          \A j \in Index : j < stack'[k].i => slots'[subdirs'[stack'[k].dir]][j] = NULL
    <3> SUFFICES ASSUME NEW k \in 1 .. n - 1, subdirs[stack[k].dir] # NULL,
                        NEW j \in Index, j < stack'[k].i
                 PROVE  slots'[subdirs[stack[k].dir]][j] = NULL
      BY <1>2, <1>4
    <3>1. subdirs[stack[k].dir] \in ArrObj
      BY <2>1 DEF Inv, TypeOK, ArrPtr
    <3>2. j < stack[k].i => slots[subdirs[stack[k].dir]][j] = NULL
      BY <2>1 DEF Inv, StackOK, n
    <3>3. CASE j < stack[k].i
      BY <1>6, <3>1, <3>2, <3>3
    <3>4. CASE ~(j < stack[k].i)
      <4>1. k = n - 1
        BY <1>3, <1>4, <3>4
      <4>2. j = stack[k].i
        BY <1>3, <1>4, <2>1, <3>4, <4>1 DEF Index
      <4>3. slots[subdirs[stack[k].dir]][j] = Top
        BY <1>3, <4>1, <4>2 DEF Inv, StackOK, n
      <4> QED
        BY <1>6, <3>1, <4>3
    <3> QED
      BY <3>3, <3>4
  <2> QED
    BY <1>3, <1>4, <1>9, <2>2, <2>3, <2>4, <2>5, <2>6 DEF StackOK
<1>16. HandlesLive' /\ Calls'
  BY <1>2, <1>9, QuietCalls
<1> QED
  BY <1>1, <1>10, <1>11, <1>12, <1>13, <1>14, <1>15, <1>16 DEF Inv

-----------------------------------------------------------------------------
(* The theorems.                                                           *)

LEMMA InitInv == Init => Inv
<1> SUFFICES ASSUME Init PROVE Inv
  OBVIOUS
<1> USE AddressAssumption DEF Init
<1>1. TypeOK
  BY InitType
<1>2. \A d : d \in Shared <=> d = Root
  BY SharedIs
<1>3. NoDangling /\ OneOwner /\ NoLeak
  BY <1>2 DEF NoDangling, OneOwner, NoLeak
<1>4. HandlesLive /\ Calls
  BY <1>2 DEF HandlesLive, Calls, CallOK, NoCall, Caching
<1>5. Loaded /\ Private /\ StackOK
  BY DEF Loaded, Private, StackOK
<1> QED
  BY <1>1, <1>3, <1>4, <1>5 DEF Inv

LEMMA NextInv == Inv /\ [Next]_vars => Inv'
<1> SUFFICES ASSUME Inv, [Next]_vars PROVE Inv'
  OBVIOUS
<1> USE DEF tree, locals
<1>1. ASSUME NEW t \in Thread, Begin(t) PROVE Inv'
  BY <1>1, KeepBegin
<1>2. ASSUME NEW t \in Thread, Work(t) PROVE Inv'
  BY <1>2, KeepWalk, KeepTestArray, KeepInstallArray, KeepTestSlot, KeepReadDir,
     KeepInstallDir DEF Work
<1>3. ASSUME NEW s \in Stream, udfread_closedir(s) PROVE Inv'
  <2>1. UNCHANGED <<vol, stack, tree, arr, sub>> /\ UNCHANGED locals
    BY <1>3 DEF udfread_closedir
  <2>2. stream' = [stream EXCEPT ![s] = NULL]
    BY <1>3 DEF udfread_closedir
  <2>3. HandlesLive' /\ Calls'
    BY <2>1, <2>2, TreeFrame DEF Inv, HandlesLive, Calls, CallOK, Slot, Fid, TypeOK
  <2> QED
    BY <1>3, <2>1, <2>3, TreeFrame, TypeStep DEF Inv, Next
<1>4. CASE udfread_close
  BY <1>4, KeepClose
<1>5. CASE Clean
  BY <1>5, KeepCleanChild, KeepCleanSkip, KeepCleanArray, KeepCleanEntries DEF Clean
<1>6. CASE UNCHANGED vars
  <2>1. UNCHANGED <<vol, stack, tree, arr, sub>> /\ UNCHANGED <<stream, locals>>
    BY <1>6 DEF vars
  <2>2. HandlesLive' /\ Calls'
    BY <2>1, TreeFrame DEF Inv, HandlesLive, Calls, CallOK, Slot, Fid
  <2> QED
    BY <2>1, <2>2, TreeFrame, TypeStep DEF Inv
<1> QED
  BY <1>1, <1>2, <1>3, <1>4, <1>5, <1>6 DEF Next, Done

(* The inductive invariant holds in every reachable state.                 *)
THEOREM Invariance == Spec => []Inv
<1> QED
  BY InitInv, NextInv, PTL DEF Spec

(* What each step leaves as it is while the volume stays open: everything  *)
(* that is published.                                                      *)
Kept(d) ==
  /\ content'[d] = content[d]
  /\ subdirs[d] # NULL =>
       /\ subdirs'[d] = subdirs[d]
       /\ \A i \in Index : slots[subdirs[d]][i] # NULL =>
            slots'[subdirs[d]][i] = slots[subdirs[d]][i]

LEMMA KeptStep ==
  ASSUME Inv, [Next]_vars, vol' = "open"
  PROVE  \A d \in Shared : Kept(d)
<1> SUFFICES ASSUME NEW d \in Shared PROVE Kept(d)
  OBVIOUS
<1> USE DEF tree, locals
<1>1. CASE UNCHANGED tree
  BY <1>1 DEF Kept
<1>2. ASSUME NEW t \in Thread, Work(t), ~UNCHANGED tree
      PROVE  vol = "open" /\ d \in DirObj /\ d \in heap
  <2>1. vol = "open"
    BY <1>2 DEF Work, WalkNotFound, WalkFound, NewUdfdir, FileOpen, CacheGet, Return,
       CacheTestArray, CacheInstallArray, CacheTestSlot, CacheReadDir, CacheInstallDir
  <2> QED
    BY <2>1, SharedLive
<1>3. ASSUME NEW t \in Thread, CacheTestArray(t), ~UNCHANGED tree PROVE Kept(d)
  <2>1. PICK a \in ArrObj : /\ a \notin heap
                            /\ slots' = [slots EXCEPT ![a] = [i \in Index |-> NULL]]
    BY <1>3 DEF CacheTestArray
  <2>2. content' = content /\ subdirs' = subdirs
    BY <1>3 DEF CacheTestArray
  <2> QED
    BY <1>2, <1>3, <2>1, <2>2 DEF Work, Kept, Inv, TypeOK, NoDangling
<1>4. ASSUME NEW t \in Thread, CacheInstallArray(t), ~UNCHANGED tree PROVE Kept(d)
  <2>1. UNCHANGED <<content, slots>>
    BY <1>4 DEF CacheInstallArray
  <2>2. \/ UNCHANGED subdirs
        \/ subdirs[fdir[t]] = NULL /\ subdirs' = [subdirs EXCEPT ![fdir[t]] = arr[t]]
    BY <1>4 DEF CacheInstallArray, Wins
  <2> QED
    BY <1>2, <1>4, <2>1, <2>2 DEF Work, Kept, Inv, TypeOK
<1>5. ASSUME NEW t \in Thread, CacheTestSlot(t), ~UNCHANGED tree PROVE Kept(d)
  <2>1. PICK e \in DirObj : /\ e \notin heap
                            /\ content' = [content EXCEPT ![e] = <<>>]
                            /\ subdirs' = [subdirs EXCEPT ![e] = NULL]
    BY <1>5 DEF CacheTestSlot
  <2>2. slots' = slots
    BY <1>5 DEF CacheTestSlot
  <2> QED
    BY <1>2, <1>5, <2>1, <2>2 DEF Work, Kept, Inv, TypeOK
<1>6. ASSUME NEW t \in Thread, CacheReadDir(t), ~UNCHANGED tree PROVE Kept(d)
  <2>1. UNCHANGED <<subdirs, slots>>
    BY <1>6 DEF CacheReadDir
  <2>2. UNCHANGED content \/ \E r \in Entries : content' = [content EXCEPT ![sub[t]] = r]
    <3>1. pc[t] \in Caching
      BY <1>6 DEF CacheReadDir, Caching
    <3>2. Readings[Fid(t).icb] \subseteq Entries
      BY <3>1, FidType, EntryLists
    <3> QED
      BY <1>6, <3>2 DEF CacheReadDir, Delivered
  <2>3. pc[t] = "read" /\ sub[t] \notin Shared
    BY <1>6, InSlots DEF CacheReadDir, Inv, Calls, CallOK
  <2> QED
    BY <1>2, <1>6, <2>1, <2>2, <2>3 DEF Work, Kept, Inv, TypeOK
<1>7. ASSUME NEW t \in Thread, CacheInstallDir(t), ~UNCHANGED tree PROVE Kept(d)
  <2>1. UNCHANGED <<subdirs, content>>
    BY <1>7 DEF CacheInstallDir
  <2>2. pc[t] \in {"slot", "read", "cas_dir", "get"}
    BY <1>7 DEF CacheInstallDir
  <2>3. subdirs[fdir[t]] \in ArrObj /\ fidx[t] \in Index
    BY <2>2, InSlots
  <2>4. \/ UNCHANGED slots
        \/ /\ slots[subdirs[fdir[t]]][fidx[t]] = NULL
           /\ slots' = [slots EXCEPT ![subdirs[fdir[t]]] = [@ EXCEPT ![fidx[t]] = sub[t]]]
    BY <1>7 DEF CacheInstallDir, Wins, Slot
  <2>5. \A a \in ArrObj, i \in Index : slots[a][i] # NULL => slots'[a][i] = slots[a][i]
    <3>1. CASE UNCHANGED slots
      BY <3>1
    <3>2. CASE /\ slots[subdirs[fdir[t]]][fidx[t]] = NULL
               /\ slots' = [slots EXCEPT ![subdirs[fdir[t]]] = [@ EXCEPT ![fidx[t]] = sub[t]]]
      <4>1. \A a \in ArrObj, i \in Index :
              slots'[a][i] = IF a = subdirs[fdir[t]] /\ i = fidx[t] THEN sub[t] ELSE slots[a][i]
        BY <2>3, <3>2 DEF Inv, TypeOK
      <4> QED
        BY <3>2, <4>1
    <3> QED
      BY <2>4, <3>1, <3>2
  <2> QED
    BY <1>2, <1>7, <2>1, <2>5 DEF Work, Kept, Inv, TypeOK, ArrPtr
<1>8. ASSUME NEW t \in Thread, Work(t), ~UNCHANGED tree PROVE Kept(d)
  BY <1>3, <1>4, <1>5, <1>6, <1>7, <1>8
  DEF Work, WalkNotFound, WalkFound, NewUdfdir, FileOpen, CacheGet, Return
<1>9. \/ UNCHANGED tree
      \/ \E t \in Thread : Work(t)
  <2>1. ~Clean
    <3>1. ~CleanChild /\ ~CleanSkip /\ ~CleanArray
      BY DEF CleanChild, CleanSkip, CleanArray
    <3>2. ~CleanEntries
      BY DEF CleanEntries
    <3> QED
      BY <3>1, <3>2 DEF Clean
  <2>2. \A t \in Thread : Begin(t) => UNCHANGED tree
    BY BeginIsEnter DEF Enter
  <2>3. \A s \in Stream : udfread_closedir(s) => UNCHANGED tree
    BY DEF udfread_closedir
  <2>4. udfread_close \/ Done \/ UNCHANGED vars => UNCHANGED tree
    BY DEF udfread_close, Done, vars
  <2> QED
    BY <2>1, <2>2, <2>3, <2>4 DEF Next
<1> QED
  BY <1>1, <1>8, <1>9

(* Types, for every instance.                                              *)
THEOREM TypeCorrect == Spec => []TypeOK
<1>1. Inv => TypeOK
  BY DEF Inv
<1> QED
  BY Invariance, <1>1, PTL

(* The memory of the tree is managed correctly whatever the interleaving:  *)
(* no pointer the library follows dangles, no object has two owners, and   *)
(* none is without one.                                                    *)
THEOREM MemorySafe == Spec => [](NoDangling /\ OneOwner /\ NoLeak)
<1>1. Inv => NoDangling /\ OneOwner /\ NoLeak
  BY DEF Inv
<1> QED
  BY Invariance, <1>1, PTL

(* Directories are published completely read, in the slot of their entry.  *)
THEOREM LoadedBeforePublished == Spec => []Loaded
<1>1. Inv => Loaded
  BY DEF Inv
<1> QED
  BY Invariance, <1>1, PTL

(* Calls and UDFDIRs stay in the published tree, and a lost race never     *)
(* fails a call.                                                           *)
THEOREM HandlesStayLive == Spec => []HandlesLive
<1>1. Inv => HandlesLive
  BY DEF Inv
<1> QED
  BY Invariance, <1>1, PTL

(* What is published never changes before udfread_close.                   *)
THEOREM PublishedStays == Spec => Stable
<1>1. Inv /\ [Next]_vars =>
        [ vol' = "open" =>
            \A d \in Shared :
              /\ content'[d] = content[d]
              /\ subdirs[d] # NULL =>
                   /\ subdirs'[d] = subdirs[d]
                   /\ \A i \in Index : slots[subdirs[d]][i] # NULL =>
                        slots'[subdirs[d]][i] = slots[subdirs[d]][i] ]_vars
  BY KeptStep DEF Kept
<1> QED
  BY <1>1, Invariance, PTL DEF Spec, Stable

-----------------------------------------------------------------------------
(* The end of the volume.                                                  *)

(* Directory d is installed in a slot of directory e.                      *)
Edge(e, d) == subdirs[e] # NULL /\ \E i \in Index : slots[subdirs[e]][i] = d

(* The published directories are a tree that hangs on the root: in any set *)
(* of others one has its parent outside.  That every directory has one     *)
(* parent does not say it: a ring of directories has that, too, and        *)
(* _clean_tree would never reach it.                                       *)
Grounded ==
  \A S \in SUBSET (DirObj \ {Root}) :
    S # {} => \E d \in S : \A e \in S : ~Edge(e, d)

(* A step that adds no link, or only one to a directory without children,  *)
(* makes no ring.                                                          *)
LEMMA NewLeaf ==
  ASSUME Grounded, NEW x,
         \A e, d \in DirObj : Edge(e, d)' => Edge(e, d) \/ d = x,
         \A d \in DirObj : ~Edge(x, d)'
  PROVE  Grounded'
<1> SUFFICES ASSUME NEW S \in SUBSET (DirObj \ {Root}), S # {}
             PROVE  \E d \in S : \A e \in S : ~Edge(e, d)'
  BY DEF Grounded
<1>1. CASE S = {x}
  BY <1>1
<1>2. CASE S # {x}
  <2>1. S \ {x} \in SUBSET (DirObj \ {Root}) /\ S \ {x} # {}
    BY <1>2
  <2>2. PICK d \in S \ {x} : \A e \in S \ {x} : ~Edge(e, d)
    BY <2>1 DEF Grounded
  <2> QED
    BY <2>2
<1> QED
  BY <1>1, <1>2

LEMMA FewerLinks ==
  ASSUME Grounded, \A e, d \in DirObj : Edge(e, d)' => Edge(e, d)
  PROVE  Grounded'
BY DEF Grounded

LEMMA StaysGrounded == Inv /\ Grounded /\ [Next]_vars => Grounded'
<1> SUFFICES ASSUME Inv, Grounded, [Next]_vars PROVE Grounded'
  OBVIOUS
<1> USE DEF tree, locals
<1>0. /\ subdirs \in [DirObj -> ArrObj \cup {NULL}]
      /\ slots \in [ArrObj -> [Index -> DirObj \cup {NULL}]]
      /\ NULL \notin DirObj
  BY AddressAssumption DEF Inv, TypeOK, ArrPtr, DirPtr
<1>1. CASE UNCHANGED <<subdirs, slots>>
  BY <1>1, FewerLinks DEF Edge
<1>2. ASSUME NEW t \in Thread, CacheTestArray(t) PROVE Grounded'
  <2>1. \/ UNCHANGED slots
        \/ \E a \in ArrObj : slots' = [slots EXCEPT ![a] = [i \in Index |-> NULL]]
    BY <1>2 DEF CacheTestArray
  <2>2. UNCHANGED subdirs
    BY <1>2 DEF CacheTestArray
  <2>3. \A e, d \in DirObj : Edge(e, d)' => Edge(e, d)
    BY <1>0, <2>1, <2>2 DEF Edge
  <2> QED
    BY <2>3, FewerLinks
<1>3. ASSUME NEW t \in Thread, CacheInstallArray(t) PROVE Grounded'
  <2>1. UNCHANGED slots /\ (UNCHANGED subdirs \/ subdirs' = [subdirs EXCEPT ![fdir[t]] = arr[t]])
    BY <1>3 DEF CacheInstallArray
  <2>2. arr[t] # NULL /\ \A i \in Index : slots[arr[t]][i] = NULL
    BY <1>3 DEF CacheInstallArray, Inv, Calls, CallOK, Private
  <2>3. \A e, d \in DirObj : Edge(e, d)' => Edge(e, d)
    BY <1>0, <2>1, <2>2 DEF Edge
  <2> QED
    BY <2>3, FewerLinks
<1>4. ASSUME NEW t \in Thread, CacheTestSlot(t) PROVE Grounded'
  <2>1. \/ UNCHANGED subdirs
        \/ \E d \in DirObj : subdirs' = [subdirs EXCEPT ![d] = NULL]
    BY <1>4 DEF CacheTestSlot
  <2>2. UNCHANGED slots
    BY <1>4 DEF CacheTestSlot
  <2>3. \A e, d \in DirObj : Edge(e, d)' => Edge(e, d)
    BY <1>0, <2>1, <2>2 DEF Edge
  <2> QED
    BY <2>3, FewerLinks
<1>5. ASSUME NEW t \in Thread, CacheInstallDir(t) PROVE Grounded'
  <2>1. UNCHANGED subdirs
    BY <1>5 DEF CacheInstallDir
  <2>2. \/ UNCHANGED slots
        \/ slots' = [slots EXCEPT ![subdirs[fdir[t]]] = [@ EXCEPT ![fidx[t]] = sub[t]]]
    BY <1>5 DEF CacheInstallDir
  <2>3. subdirs[sub[t]] = NULL
    BY <1>5 DEF CacheInstallDir, Inv, Calls, CallOK, Private
  <2> PICK x : x = sub[t]
    OBVIOUS
  <2>4. \A e, d \in DirObj : Edge(e, d)' => Edge(e, d) \/ d = x
    BY <1>0, <2>1, <2>2 DEF Edge
  <2>5. \A d \in DirObj : ~Edge(x, d)'
    BY <2>1, <2>3 DEF Edge
  <2> QED
    BY <2>4, <2>5, NewLeaf
<1>6. CASE CleanArray
  <2>1. \A e, d \in DirObj : Edge(e, d)' => Edge(e, d)
    BY <1>0, <1>6 DEF CleanArray, Edge
  <2> QED
    BY <2>1, FewerLinks
<1>7. CASE CleanEntries
  <2>1. UNCHANGED subdirs
    BY <1>7 DEF CleanEntries
  <2>2. UNCHANGED slots \/ slots' = [slots EXCEPT ![subdirs[Below.dir]] =
                                                    [@ EXCEPT ![Below.i] = NULL]]
    BY <1>7 DEF CleanEntries
  <2>3. \A a \in ArrObj, i \in Index : slots'[a][i] # NULL => slots'[a][i] = slots[a][i]
    <3>1. slots \in [ArrObj -> [Index -> DirPtr]]
      BY <1>0 DEF Inv, TypeOK
    <3> DEFINE b == subdirs[Below.dir]
               j == Below.i
    <3>2. UNCHANGED slots \/ slots' = [slots EXCEPT ![b] = [@ EXCEPT ![j] = NULL]]
      BY <2>2
    <3> HIDE DEF b, j
    <3>3. ASSUME NEW a \in ArrObj, NEW i \in Index, slots'[a][i] # NULL
          PROVE  slots'[a][i] = slots[a][i]
      <4>1. CASE a = b /\ slots' # slots
        <5>1. slots'[a] = [slots[a] EXCEPT ![j] = NULL]
          BY <3>1, <3>2, <4>1
        <5> QED
          BY <3>1, <3>3, <5>1
      <4>2. CASE a # b \/ slots' = slots
        BY <3>1, <3>2, <4>2
      <4> QED
        BY <4>1, <4>2
    <3> QED
      BY <3>3
  <2>4. \A e, d \in DirObj : Edge(e, d)' => Edge(e, d)
    <3> SUFFICES ASSUME NEW e \in DirObj, NEW d \in DirObj, Edge(e, d)' PROVE Edge(e, d)
      OBVIOUS
    <3>1. PICK i \in Index : slots'[subdirs[e]][i] = d /\ subdirs[e] # NULL
      BY <2>1 DEF Edge
    <3>2. slots[subdirs[e]][i] = d
      BY <1>0, <2>2, <2>3, <3>1
    <3> QED
      BY <3>1, <3>2 DEF Edge
  <2> QED
    BY <2>4, FewerLinks
<1>8. \/ UNCHANGED <<subdirs, slots>>
      \/ \E t \in Thread : \/ CacheTestArray(t) \/ CacheInstallArray(t)
                           \/ CacheTestSlot(t) \/ CacheInstallDir(t)
      \/ CleanArray \/ CleanEntries
  <2>1. \A t \in Thread : Begin(t) => UNCHANGED tree
    BY BeginIsEnter DEF Enter
  <2>2. \A t \in Thread : Work(t) =>
          \/ UNCHANGED <<subdirs, slots>>
          \/ CacheTestArray(t) \/ CacheInstallArray(t) \/ CacheTestSlot(t) \/ CacheInstallDir(t)
    BY DEF Work, WalkNotFound, WalkFound, NewUdfdir, FileOpen, CacheReadDir, CacheGet, Return
  <2>3. \A s \in Stream : udfread_closedir(s) => UNCHANGED tree
    BY DEF udfread_closedir
  <2>4. udfread_close \/ CleanChild \/ CleanSkip \/ Done \/ UNCHANGED vars => UNCHANGED tree
    BY DEF udfread_close, CleanChild, CleanSkip, Done, vars
  <2> QED
    BY <2>1, <2>2, <2>3, <2>4 DEF Next, Clean
<1> QED
  BY <1>1, <1>2, <1>3, <1>4, <1>5, <1>6, <1>7, <1>8

(* The root is the last object to be freed: by then it has no children, so *)
(* that nothing else can hang on it.                                       *)
LEMMA LastObject ==
  ASSUME Inv, Grounded, CleanEntries, Len(stack) = 1
  PROVE  heap' = {}
<1>1. /\ vol = "closing" /\ Top = Root /\ subdirs[Root] = NULL
      /\ heap' = heap \ {Root}
  BY DEF CleanEntries, Top, Inv, StackOK
<1>2. \A t \in Thread : arr[t] = NULL /\ sub[t] = NULL
  BY <1>1 DEF Inv, Calls, CallOK
<1>3. \A a \in heap \cap ArrObj : \E d \in DirObj : subdirs[d] = a
  BY <1>2, AddressAssumption DEF Inv, NoLeak
<1> DEFINE S == (heap \cap DirObj) \ {Root}
<1>4. CASE S # {}
  <2>1. PICK d \in S : \A e \in S : ~Edge(e, d)
    BY <1>4 DEF Grounded
  <2>2. d \in Shared
    BY <1>2, <2>1, AddressAssumption DEF Inv, NoLeak
  <2>3. PICK a \in ArrObj, i \in Index : slots[a][i] = d /\ d # NULL
    BY <2>1, <2>2, SharedIs
  <2>4. a \in heap
    BY <2>3 DEF Inv, NoDangling
  <2>5. PICK e \in DirObj : subdirs[e] = a
    BY <1>3, <2>4
  <2>6. a # NULL
    BY AddressAssumption
  <2>7. e \in S
    BY <1>1, <2>5, <2>6 DEF Inv, NoDangling
  <2> QED
    BY <2>1, <2>3, <2>5, <2>6, <2>7 DEF Edge
<1>5. CASE S = {}
  <2>1. heap \cap ArrObj = {}
    <3> SUFFICES ASSUME NEW a \in heap \cap ArrObj PROVE FALSE
      OBVIOUS
    <3>1. PICK e \in DirObj : subdirs[e] = a
      BY <1>3
    <3>2. e \in heap
      BY <3>1, AddressAssumption DEF Inv, NoDangling
    <3> QED
      BY <1>1, <1>5, <3>1, <3>2, AddressAssumption
  <2>2. heap \subseteq DirObj \cup ArrObj
    BY DEF Inv, TypeOK
  <2> QED
    BY <1>1, <1>5, <2>1, <2>2
<1> QED
  BY <1>4, <1>5

(* What is allocated has an owner, in every state.                         *)
THEOREM NothingLeaks == Spec => []NoLeak
<1>1. Inv => NoLeak
  BY DEF Inv
<1> QED
  BY Invariance, <1>1, PTL

(* udfread_close gives back every directory and every array, whatever has  *)
(* been cached, in whatever order.                                         *)
THEOREM CloseFreesAll == Spec => []CleanClose
<1>1. Init => Grounded /\ CleanClose
  BY AddressAssumption DEF Init, Grounded, Edge, CleanClose
<1>2. Inv /\ Grounded /\ CleanClose /\ [Next]_vars => CleanClose'
  <2> SUFFICES ASSUME Inv, Grounded, CleanClose, [Next]_vars, vol' = "closed"
               PROVE  heap' = {}
    BY DEF CleanClose
  <2> USE DEF tree, locals
  <2>1. CASE vol = "closed"
    <3>1. \A t \in Thread : ~Begin(t) /\ ~Work(t)
      <4>1. \A t \in Thread : pc[t] = "idle"
        BY <2>1 DEF Inv, Calls, CallOK
      <4>2. \A t \in Thread : ~Begin(t)
        BY <2>1, BeginIsEnter DEF Enter
      <4>3. \A t \in Thread : ~Work(t)
        BY <4>1 DEF Work, WalkNotFound, WalkFound, NewUdfdir, FileOpen, CacheGet, Return, Result,
           CacheTestArray, CacheInstallArray, CacheTestSlot, CacheReadDir, CacheInstallDir
      <4> QED
        BY <4>2, <4>3
    <3>2. ~udfread_close /\ ~Clean
      BY <2>1 DEF udfread_close, Clean, CleanChild, CleanSkip, CleanArray, CleanEntries
    <3>3. UNCHANGED heap
      BY <3>1, <3>2 DEF Next, udfread_closedir, Done, vars
    <3> QED
      BY <2>1, <3>3 DEF CleanClose
  <2>2. CASE vol # "closed"
    <3>1. ASSUME NEW t \in Thread PROVE ~Begin(t) /\ ~Work(t)
      <4>1. ~Begin(t)
        BY <2>2, BeginIsEnter DEF Enter
      <4>2. ~Work(t)
        BY <2>2 DEF Work, WalkNotFound, WalkFound, NewUdfdir, FileOpen, CacheGet, Return,
           CacheTestArray, CacheInstallArray, CacheTestSlot, CacheReadDir, CacheInstallDir
      <4> QED
        BY <4>1, <4>2
    <3>2. CleanEntries
      BY <2>2, <3>1 DEF Next, udfread_closedir, Done, vars, udfread_close, Clean, CleanChild, CleanSkip, CleanArray
    <3>3. Len(stack) = 1
      BY <2>2, <3>2 DEF CleanEntries
    <3> QED
      BY <3>2, <3>3, LastObject
  <2> QED
    BY <2>1, <2>2
<1> QED
  BY <1>1, <1>2, Invariance, StaysGrounded, PTL DEF Spec

-----------------------------------------------------------------------------
(* What the calls of the threads find.                                     *)

(* Induction on the naturals, as the existence of a least element.         *)
LEMMA NatLess == IsWellFoundedOn({p \in Nat \X Nat : p[1] < p[2]}, Nat)
  BY NatLessThanWellFounded, Zenon DEF OpToRel

LEMMA Least ==
  ASSUME NEW S \in SUBSET Nat, S # {}
  PROVE  \E n \in S : \A m \in S : n <= m
<1>1. PICK x \in S : \A y \in S : <<y, x>> \notin {p \in Nat \X Nat : p[1] < p[2]}
  BY NatLess, WFMin
<1>2. ASSUME NEW y \in S PROVE x <= y
  <2>1. y < x => <<y, x>> \in {p \in Nat \X Nat : p[1] < p[2]}
    OBVIOUS
  <2> QED
    BY <1>1, <2>1
<1> QED
  BY <1>2

(* The definition of Along by recursion defines something.                 *)
LEMMA AlongIs ==
  \A d : \A path \in Seq(Name) :
    Along(d, path) =
      [n \in 0 .. Len(path) |-> IF n = 0 THEN d ELSE Child(Along(d, path)[n - 1], path[n])]
<1> SUFFICES ASSUME NEW d, NEW path \in Seq(Name)
             PROVE  Along(d, path) =
                      [n \in 0 .. Len(path) |->
                         IF n = 0 THEN d ELSE Child(Along(d, path)[n - 1], path[n])]
  OBVIOUS
<1> DEFINE Walked(f, m) ==
      f = [n \in 0 .. m |-> IF n = 0 THEN d ELSE Child(f[n - 1], path[n])]
<1> DEFINE S == {m \in Nat : ~\E f : Walked(f, m)}
<1>1. S = {}
  <2> SUFFICES ASSUME S # {} PROVE FALSE
    OBVIOUS
  <2>1. PICK m \in S : \A k \in S : m <= k
    BY Least, Zenon
  <2>2. CASE m = 0
    <3>1. Walked([n \in 0 .. 0 |-> d], 0)
      OBVIOUS
    <3> QED
      BY <2>1, <2>2, <3>1
  <2>3. CASE m # 0
    <3>1. m - 1 \in Nat /\ m \in Nat /\ ~(m <= m - 1)
      BY <2>3
    <3>2. PICK f : Walked(f, m - 1)
      BY <2>1, <3>1
    <3> DEFINE g == [n \in 0 .. m |-> IF n = m THEN Child(f[m - 1], path[m]) ELSE f[n]]
    <3>3. \A n \in 0 .. m : g[n] = IF n = 0 THEN d ELSE Child(g[n - 1], path[n])
      <4> SUFFICES ASSUME NEW n \in 0 .. m
                   PROVE  g[n] = IF n = 0 THEN d ELSE Child(g[n - 1], path[n])
        OBVIOUS
      <4>1. CASE n = m
        <5>1. g[n - 1] = f[m - 1] /\ g[n] = Child(f[m - 1], path[m])
          BY <3>1, <4>1
        <5> QED
          BY <2>3, <4>1, <5>1
      <4>2. CASE n # m
        <5>1. n \in 0 .. m - 1 /\ (n # 0 => n - 1 \in 0 .. m - 1)
          BY <3>1, <4>2
        <5>2. g[n] = f[n] /\ (n # 0 => g[n - 1] = f[n - 1])
          BY <3>1, <4>2, <5>1
        <5>3. f[n] = IF n = 0 THEN d ELSE Child(f[n - 1], path[n])
          BY <3>2, <5>1
        <5> QED
          BY <5>1, <5>2, <5>3
      <4> QED
        BY <4>1, <4>2
    <3>4. Walked(g, m)
      <4>1. g = [n \in 0 .. m |-> g[n]]
        OBVIOUS
      <4> HIDE DEF g
      <4> QED
        BY <3>3, <4>1
    <3> QED
      BY <2>1, <3>4
  <2> QED
    BY <2>2, <2>3
<1>2. \E f : Walked(f, Len(path))
  <2>1. Len(path) \in Nat
    OBVIOUS
  <2> QED
    BY <1>1, <2>1
<1>3. Along(d, path) = CHOOSE f : Walked(f, Len(path))
  BY DEF Along
<1>4. Walked(Along(d, path), Len(path))
  <2> HIDE DEF Walked
  <2> QED
    BY <1>2, <1>3
<1> QED
  BY <1>4

(* Following a path, before and after a step.                              *)
LEMMA FollowIs ==
  ASSUME NEW d, NEW path \in Seq(Name)
  PROVE  /\ Follow(d, path, 0) = d
         /\ \A n \in 1 .. Len(path) : Follow(d, path, n) = Child(Follow(d, path, n - 1), path[n])
<1>1. Len(path) \in Nat /\ 0 \in 0 .. Len(path) /\ \A n \in 1 .. Len(path) : n \in 0 .. Len(path) /\ n # 0
  OBVIOUS
<1>2. \A n \in 0 .. Len(path) :
        Along(d, path)[n] = IF n = 0 THEN d ELSE Child(Along(d, path)[n - 1], path[n])
  <2> DEFINE a == Along(d, path)
  <2>1. a = [n \in 0 .. Len(path) |-> IF n = 0 THEN d ELSE Child(a[n - 1], path[n])]
    BY AlongIs
  <2> HIDE DEF a
  <2>2. \A n \in 0 .. Len(path) : a[n] = IF n = 0 THEN d ELSE Child(a[n - 1], path[n])
    BY <2>1
  <2> QED
    BY <2>2 DEF a
<1> QED
  BY <1>1, <1>2 DEF Follow

LEMMA FollowLater ==
  (\A d : \A path \in Seq(Name) :
     /\ Follow(d, path, 0) = d
     /\ \A n \in 1 .. Len(path) : Follow(d, path, n) = Child(Follow(d, path, n - 1), path[n]))'
<1>1. \A d : \A path \in Seq(Name) :
     /\ Follow(d, path, 0) = d
     /\ \A n \in 1 .. Len(path) : Follow(d, path, n) = Child(Follow(d, path, n - 1), path[n])
  BY FollowIs
<1> QED BY <1>1, PTL

(* Where a call is in its path: fdir and fidx are the entry of the last    *)
(* token it has used, the first entry of that name.                        *)
PlaceOK(t) ==
  /\ req[t].api \in {"opendir_at", "file_openat"} => Len(req[t].path) = 1
  /\ tok[t] = 1 <=> fdir[t] = NULL
  /\ tok[t] > 1 =>
       /\ fdir[t] = Parent(t)
       /\ fidx[t] \in ScanDir(fdir[t], req[t].path[tok[t] - 1])

(* What it has found there.  Only a file, or what udfread_file_openat      *)
(* finds, ends the walk without a directory to stand in.                   *)
WalkOK(t) ==
  /\ PlaceOK(t)
  /\ pc[t] = "idle" => fdir[t] = NULL
  /\ pc[t] \in Caching => tok[t] > 1
  /\ pc[t] \in {"walk", "ok"} /\ cur[t] # NULL => cur[t] = Here(t)
  /\ pc[t] = "walk" /\ cur[t] = NULL =>
       /\ tok[t] > Len(req[t].path) /\ tok[t] > 1
       /\ ~(Fid(t).dir /\ req[t].api # "file_openat")
  /\ pc[t] = "notfound" /\ tok[t] <= Len(req[t].path) =>
       \/ /\ cur[t] # NULL /\ cur[t] = Here(t)
          /\ ScanDir(cur[t], req[t].path[tok[t]]) = {}
       \/ tok[t] > 1 /\ ~Fid(t).dir
  /\ pc[t] = "notfound" /\ tok[t] > Len(req[t].path) /\ tok[t] > 1
       => ~(Fid(t).dir <=> req[t].api \in DirApi)
Walks == \A t \in Thread : WalkOK(t)

(* In a published directory a name leads where it has led.                 *)
LEMMA ChildKept ==
  ASSUME Inv, [Next]_vars, vol' = "open", NEW d \in Shared, NEW n
  PROVE  /\ content'[d] = content[d]
         /\ ScanDir(d, n)' = ScanDir(d, n)
         /\ Child(d, n) # NULL => Child(d, n)' = Child(d, n) /\ Child(d, n) \in Shared
<1>1. /\ content'[d] = content[d]
      /\ subdirs[d] # NULL =>
           /\ subdirs'[d] = subdirs[d]
           /\ \A i \in Index : slots[subdirs[d]][i] # NULL =>
                slots'[subdirs[d]][i] = slots[subdirs[d]][i]
  BY KeptStep DEF Kept
<1>2. d \in DirObj
  BY AddressAssumption DEF Shared, Inv, TypeOK, DirPtr
<1>3. ScanDir(d, n)' = ScanDir(d, n)
  BY <1>1 DEF ScanDir, Matches, Lowest
<1>4. ASSUME Child(d, n) # NULL
      PROVE  Child(d, n)' = Child(d, n) /\ Child(d, n) \in Shared
  <2> DEFINE i == CHOOSE j \in ScanDir(d, n) : TRUE
  <2>1. /\ d # NULL /\ ScanDir(d, n) # {} /\ subdirs[d] # NULL
        /\ Child(d, n) = slots[subdirs[d]][i]
    BY <1>4 DEF Child
  <2>2. i \in Index
    BY <2>1 DEF ScanDir, Matches, Lowest
  <2> HIDE DEF i
  <2>3. slots'[subdirs'[d]][i] = Child(d, n)
    BY <1>1, <1>4, <2>1, <2>2
  <2>4. Child(d, n)' = slots'[subdirs'[d]][i]
    BY <1>1, <1>3, <2>1 DEF Child, i
  <2>5. subdirs[d] \in ArrObj
    BY <1>2, <2>1 DEF Inv, TypeOK, ArrPtr
  <2> QED
    BY <1>4, <2>1, <2>2, <2>3, <2>4, <2>5, SharedIs
<1> QED
  BY <1>1, <1>3, <1>4

(* And so does a path.                                                     *)
LEMMA FollowKept ==
  ASSUME Inv, [Next]_vars, vol' = "open", NEW d \in Shared, NEW path \in Seq(Name),
         NEW n \in 0 .. Len(path), Follow(d, path, n) # NULL
  PROVE  Follow(d, path, n)' = Follow(d, path, n) /\ Follow(d, path, n) \in Shared
<1> DEFINE Same(k) == Follow(d, path, k)' = Follow(d, path, k) /\ Follow(d, path, k) \in Shared
           S == {k \in 0 .. Len(path) : Follow(d, path, k) # NULL /\ ~Same(k)}
<1>1. S = {}
  <2> SUFFICES ASSUME S # {} PROVE FALSE
    OBVIOUS
  <2>0. Len(path) \in Nat /\ S \in SUBSET Nat
    OBVIOUS
  <2>1. PICK k \in S : \A j \in S : k <= j
    BY <2>0, Least, Zenon
  <2>2. CASE k = 0
    BY <2>1, <2>2, FollowIs, FollowLater
  <2>3. CASE k # 0
    <3>1. k \in 1 .. Len(path) /\ k - 1 \in 0 .. Len(path) /\ ~(k <= k - 1)
      BY <2>0, <2>3
    <3>2. Follow(d, path, k) = Child(Follow(d, path, k - 1), path[k])
      BY <3>1, FollowIs
    <3>3. Follow(d, path, k)' = Child(Follow(d, path, k - 1), path[k])'
      BY <3>1, FollowLater
    <3>4. Follow(d, path, k - 1) # NULL
      BY <2>1, <3>2 DEF Child
    <3>5. Same(k - 1)
      BY <2>1, <3>1, <3>4
    <3> PICK e : e = Follow(d, path, k - 1)
      OBVIOUS
    <3>6. /\ e \in Shared /\ Follow(d, path, k - 1)' = e
          /\ Child(e, path[k]) # NULL
      BY <2>1, <3>2, <3>5
    <3>7. Child(e, path[k])' = Child(e, path[k]) /\ Child(e, path[k]) \in Shared
      BY <3>6, ChildKept
    <3>8. Follow(d, path, k)' = Child(e, path[k])'
      BY <3>3, <3>6
    <3> QED
      BY <2>1, <3>2, <3>7, <3>8
  <2> QED
    BY <2>2, <2>3
<1> QED
  BY <1>1

(* Where a call in progress can be.                                        *)
LEMMA PlaceTypes ==
  ASSUME Inv, NEW t \in Thread, PlaceOK(t), pc[t] # "idle"
  PROVE  /\ vol = "open"
         /\ req[t].start \in Shared /\ req[t].start \in DirObj
         /\ req[t].path \in Seq(Name) /\ Len(req[t].path) \in Nat
         /\ tok[t] \in Nat \ {0} /\ tok[t] <= Len(req[t].path) + 1
         /\ cur[t] \in Shared \cup {NULL}
         /\ tok[t] > 1 =>
              /\ fdir[t] \in Shared /\ fdir[t] \in DirObj /\ fdir[t] # NULL
              /\ fidx[t] \in Index /\ Fid(t).dir \in BOOLEAN
<1>1. /\ vol = "open" /\ req[t] \in Call
      /\ tok[t] \in Nat \ {0} /\ tok[t] <= Len(req[t].path) + 1
      /\ fdir[t] \in DirObj \cup {NULL}
  BY DEF Inv, TypeOK, Calls, CallOK, DirPtr
<1>2. req[t].start \in DirObj /\ req[t].path \in Seq(Name)
  BY <1>1 DEF Call
<1>3. {cur[t], fdir[t], req[t].start} \subseteq Shared \cup {NULL}
  BY <1>1 DEF Inv, HandlesLive
<1>4. ASSUME tok[t] > 1
      PROVE  /\ fdir[t] \in Shared /\ fdir[t] \in DirObj /\ fdir[t] # NULL
             /\ fidx[t] \in Index /\ Fid(t).dir \in BOOLEAN
  <2>1. fdir[t] # NULL /\ fidx[t] \in ScanDir(fdir[t], req[t].path[tok[t] - 1])
    BY <1>1, <1>4 DEF PlaceOK
  <2>2. fidx[t] \in Index /\ fidx[t] <= Len(content[fdir[t]])
    BY <2>1 DEF ScanDir, Lowest, Matches
  <2>3. content[fdir[t]] \in Entries /\ fdir[t] \in DirObj
    BY <1>1, <2>1 DEF Inv, TypeOK
  <2>4. fidx[t] \in 1 .. Len(content[fdir[t]])
    BY <2>2, <2>3, EntryLists DEF Index
  <2>5. Fid(t) \in Entry
    BY <2>3, <2>4, EntryLists DEF Fid
  <2> QED
    BY <1>3, <2>1, <2>2, <2>3, <2>5 DEF Entry
<1> QED
  BY <1>1, <1>2, <1>3, <1>4, AddressAssumption

(* Whatever step is taken, a call that does not move in its path stays     *)
(* where the path leads.                                                   *)
LEMMA SamePlace ==
  ASSUME Inv, [Next]_vars, vol' = "open", NEW t \in Thread, PlaceOK(t), pc[t] # "idle",
         req'[t] = req[t], tok'[t] = tok[t], fdir'[t] = fdir[t], fidx'[t] = fidx[t]
  PROVE  /\ PlaceOK(t)'
         /\ tok[t] > 1 => Fid(t)' = Fid(t)
         /\ Here(t) # NULL => /\ Here(t)' = Here(t)
                              /\ \A n : ScanDir(Here(t), n)' = ScanDir(Here(t), n)
<1> PICK start, path, n, d, i :
      /\ start = req[t].start /\ path = req[t].path /\ n = tok[t]
      /\ d = fdir[t] /\ i = fidx[t]
  OBVIOUS
<1>1. /\ start = req'[t].start /\ path = req'[t].path /\ n = tok'[t]
      /\ d = fdir'[t] /\ i = fidx'[t]
  OBVIOUS
<1>2. /\ start \in Shared /\ path \in Seq(Name) /\ n - 1 \in 0 .. Len(path)
      /\ n > 1 => n - 2 \in 0 .. Len(path) /\ d \in Shared /\ d # NULL
  BY PlaceTypes
<1>3. Here(t) # NULL => /\ Here(t)' = Here(t)
                        /\ \A m : ScanDir(Here(t), m)' = ScanDir(Here(t), m)
  <2> SUFFICES ASSUME Here(t) # NULL
               PROVE  Here(t)' = Here(t) /\ \A m : ScanDir(Here(t), m)' = ScanDir(Here(t), m)
    OBVIOUS
  <2> PICK h : h = Here(t)
    OBVIOUS
  <2>1. h = Follow(start, path, n - 1) /\ Here(t)' = Follow(start, path, n - 1)'
    BY <1>1 DEF Here
  <2>2. Follow(start, path, n - 1)' = h /\ h \in Shared
    BY <1>2, <2>1, FollowKept
  <2>3. \A m : ScanDir(h, m)' = ScanDir(h, m)
    BY <2>2, ChildKept
  <2> QED
    BY <2>1, <2>2, <2>3
<1>4. ASSUME n > 1
      PROVE  /\ fdir'[t] = Parent(t)'
             /\ ScanDir(fdir[t], req[t].path[tok[t] - 1])' = ScanDir(fdir[t], req[t].path[tok[t] - 1])
             /\ Fid(t)' = Fid(t)
  <2>1. d = Follow(start, path, n - 2) /\ Parent(t)' = Follow(start, path, n - 2)'
    BY <1>1, <1>4 DEF PlaceOK, Parent
  <2>2. Follow(start, path, n - 2)' = d
    BY <1>2, <1>4, <2>1, FollowKept
  <2>3. content'[d] = content[d] /\ ScanDir(d, path[n - 1])' = ScanDir(d, path[n - 1])
    BY <1>2, <1>4, ChildKept
  <2> QED
    BY <1>1, <2>1, <2>2, <2>3 DEF Fid
<1> QED
  BY <1>1, <1>3, <1>4 DEF PlaceOK

(* A step of another thread, or of the volume.                             *)
LEMMA OtherWalk ==
  ASSUME Inv, Inv', [Next]_vars, NEW t \in Thread, WalkOK(t),
         pc'[t] = pc[t], req'[t] = req[t], tok'[t] = tok[t], cur'[t] = cur[t],
         fdir'[t] = fdir[t], fidx'[t] = fidx[t]
  PROVE  WalkOK(t)'
<1>1. CASE pc[t] = "idle"
  <2>1. tok[t] = 1
    BY <1>1 DEF Inv, Calls, CallOK
  <2> QED
    BY <1>1, <2>1 DEF WalkOK, PlaceOK, Caching
<1>2. CASE pc[t] # "idle"
  <2>1. vol' = "open"
    BY <1>2 DEF Inv, Calls, CallOK
  <2>2. PlaceOK(t)
    BY DEF WalkOK
  <2>3. /\ PlaceOK(t)'
        /\ tok[t] > 1 => Fid(t)' = Fid(t)
        /\ Here(t) # NULL => /\ Here(t)' = Here(t)
                             /\ \A n : ScanDir(Here(t), n)' = ScanDir(Here(t), n)
    BY <1>2, <2>1, <2>2, SamePlace
  <2>4. tok[t] \in Nat \ {0} /\ Len(req[t].path) \in Nat
    BY <1>2, <2>2, PlaceTypes
  <2>5. pc[t] \in {"walk", "ok"} /\ cur[t] # NULL => cur'[t] = Here(t)'
    BY <2>3 DEF WalkOK
  <2>6. pc[t] = "walk" /\ cur[t] = NULL =>
          /\ tok[t] > Len(req[t].path) /\ tok[t] > 1
          /\ ~(Fid(t)'.dir /\ req[t].api # "file_openat")
    BY <2>3 DEF WalkOK
  <2>7. ASSUME pc[t] = "notfound", tok[t] <= Len(req[t].path)
        PROVE  \/ /\ cur'[t] # NULL /\ cur'[t] = Here(t)'
                  /\ ScanDir(cur[t], req[t].path[tok[t]])' = {}
               \/ tok[t] > 1 /\ ~Fid(t)'.dir
    <3>1. CASE cur[t] # NULL /\ cur[t] = Here(t) /\ ScanDir(cur[t], req[t].path[tok[t]]) = {}
      <4> PICK h, n : h = Here(t) /\ n = req[t].path[tok[t]]
        OBVIOUS
      <4>1. Here(t)' = h /\ ScanDir(h, n)' = ScanDir(h, n)
        BY <2>3, <3>1
      <4> QED
        BY <3>1, <4>1
    <3>2. CASE tok[t] > 1 /\ ~Fid(t).dir
      BY <2>3, <3>2
    <3> QED
      BY <2>7, <3>1, <3>2 DEF WalkOK
  <2>8. pc[t] = "notfound" /\ tok[t] > Len(req[t].path) /\ tok[t] > 1
          => ~(Fid(t)'.dir <=> req[t].api \in DirApi)
    BY <2>3 DEF WalkOK
  <2>9. pc[t] \in Caching => tok[t] > 1
    BY DEF WalkOK
  <2> QED
    BY <1>2, <2>3, <2>5, <2>6, <2>7, <2>8, <2>9 DEF WalkOK
<1> QED
  BY <1>1, <1>2

(* A thread enters the library, or leaves it.                              *)
LEMMA WalkEnter ==
  ASSUME Inv, [Next]_vars, NEW t \in Thread, WalkOK(t), Begin(t)
  PROVE  WalkOK(t)'
<1>1. PICK api \in Api, start \in DirObj, path \in Seq(Name), next \in {"walk", "error"} :
        /\ Enter(t, api, start, path, next)
        /\ api \in {"opendir_at", "file_openat"} => Len(path) = 1
  BY BeginIsEnter
<1>2. /\ pc[t] = "idle" /\ tok[t] = 1 /\ fdir[t] = NULL
  BY <1>1 DEF Enter, WalkOK, Inv, Calls, CallOK
<1>3. /\ req'[t] = [api |-> api, start |-> start, path |-> path]
      /\ cur'[t] = start /\ pc'[t] = next /\ tok'[t] = 1 /\ fdir'[t] = NULL /\ start # NULL
  BY <1>1, <1>2, AddressAssumption DEF Enter, Inv, TypeOK
<1>4. Here(t)' = start
  <2>1. Here(t)' = Follow(start, path, 0)'
    BY <1>3 DEF Here
  <2> QED
    BY <2>1, FollowLater
<1>5. PlaceOK(t)'
  BY <1>1, <1>3 DEF PlaceOK
<1> QED
  BY <1>3, <1>4, <1>5 DEF WalkOK, Caching

LEMMA WalkReturn ==
  ASSUME Inv, NEW t \in Thread, Return(t)
  PROVE  WalkOK(t)'
<1>1. /\ pc'[t] = "idle" /\ tok'[t] = 1 /\ fdir'[t] = NULL
      /\ req'[t].api = "opendir"
  BY DEF Return, NoCall, Inv, TypeOK
<1> QED
  BY <1>1 DEF WalkOK, PlaceOK, Caching

(* A token is looked up.                                                   *)
LEMMA WalkToken ==
  ASSUME Inv, [Next]_vars, vol' = "open", NEW t \in Thread, WalkOK(t), WalkFound(t)
  PROVE  WalkOK(t)'
<1> PICK start, path, n, d, api :
      /\ start = req[t].start /\ path = req[t].path /\ n = tok[t] /\ d = cur[t]
      /\ api = req[t].api
  OBVIOUS
<1>1. PICK i \in ScanDir(d, path[n]) :
        LET into == content[d][i].dir /\ api # "file_openat"
            last == n = Len(path)
        IN /\ fdir'[t] = d /\ fidx'[t] = i
           /\ pc'[t] = IF into THEN "cache" ELSE IF last THEN "walk" ELSE "notfound"
           /\ cur'[t] = IF ~into /\ last THEN NULL ELSE d
  BY DEF WalkFound, Inv, TypeOK
<1>2. tok'[t] = n + 1 /\ req' = req /\ n <= Len(path) /\ pc[t] = "walk" /\ tree' = tree
  BY DEF WalkFound, Inv, TypeOK
<1>3. d # NULL
  BY <1>2 DEF Inv, Calls, CallOK
<1>4. PlaceOK(t)
  BY DEF WalkOK
<1>5. /\ start \in Shared /\ path \in Seq(Name) /\ n \in Nat \ {0} /\ Len(path) \in Nat
      /\ n - 1 \in 0 .. Len(path)
  BY <1>2, <1>4, PlaceTypes
<1>6. d = Follow(start, path, n - 1) /\ Follow(start, path, n - 1)' = d /\ d \in Shared
  <2>1. d = Follow(start, path, n - 1)
    BY <1>2, <1>3 DEF WalkOK, Here
  <2> QED
    BY <1>3, <1>5, <2>1, FollowKept
<1>7. Parent(t)' = d
  <2>1. (n + 1) - 2 = n - 1
    BY <1>5
  <2>2. Parent(t)' = Follow(start, path, (n + 1) - 2)'
    BY <1>2 DEF Parent
  <2> QED
    BY <1>6, <2>1, <2>2
<1>8. ScanDir(d, path[n])' = ScanDir(d, path[n]) /\ content' = content
  BY <1>2, <1>6, ChildKept DEF tree
<1>9. PlaceOK(t)'
  <2>1. (n + 1) - 1 = n /\ n + 1 > 1 /\ n + 1 # 1
    BY <1>5
  <2>2. api \in {"opendir_at", "file_openat"} => Len(path) = 1
    BY <1>4 DEF PlaceOK
  <2>3. req'[t].path[tok'[t] - 1] = path[n]
    BY <1>2, <2>1
  <2> QED
    BY <1>1, <1>2, <1>3, <1>7, <1>8, <2>1, <2>2, <2>3 DEF PlaceOK
<1>10. Fid(t)' = content[d][i]
  BY <1>1, <1>8 DEF Fid
<1>11. ASSUME pc'[t] = "notfound"
       PROVE  ~Fid(t)'.dir /\ n # Len(path) /\ n + 1 > 1
  <2>1. ~(content[d][i].dir /\ api # "file_openat") /\ n # Len(path)
    BY <1>1, <1>11
  <2>2. api = "file_openat" => Len(path) = 1
    BY <1>4 DEF PlaceOK
  <2>3. n + 1 > 1 /\ ~(Len(path) = 1 /\ n # Len(path))
    <3>1. n \in Nat \ {0} /\ Len(path) \in Nat /\ n <= Len(path)
      BY <1>2, <1>5
    <3>2. \A a, b \in Nat : a # 0 /\ a <= b => ~(b = 1 /\ a # b)
      OBVIOUS
    <3>3. n + 1 > 1
      BY <3>1
    <3> QED
      BY <3>1, <3>2, <3>3
  <2>4. api # "file_openat"
    BY <2>1, <2>2, <2>3
  <2> QED
    BY <1>10, <2>1, <2>3, <2>4
<1>12. ASSUME pc'[t] = "walk"
       PROVE  /\ cur'[t] = NULL /\ n + 1 > Len(path) /\ n + 1 > 1
              /\ ~(Fid(t)'.dir /\ req'[t].api # "file_openat")
  BY <1>1, <1>2, <1>5, <1>10, <1>12
<1>13. n + 1 <= Len(path) \/ n = Len(path)
  BY <1>2, <1>5
<1>14. n + 1 > 1
  BY <1>5
<1>15. pc'[t] \in {"cache", "walk", "notfound"}
  BY <1>1
<1> QED
  BY <1>2, <1>5, <1>9, <1>11, <1>12, <1>13, <1>14, <1>15 DEF WalkOK, Caching

(* All tokens are used, or one is not there.                               *)
LEMMA WalkEnds ==
  ASSUME Inv, [Next]_vars, vol' = "open", NEW t \in Thread, WalkOK(t),
         WalkNotFound(t) \/ NewUdfdir(t) \/ FileOpen(t)
  PROVE  WalkOK(t)'
<1>1. /\ pc[t] = "walk" /\ pc'[t] \in {"notfound", "error", "ok"}
      /\ req' = req /\ tok' = tok /\ cur' = cur /\ fdir' = fdir /\ fidx' = fidx
  BY DEF WalkNotFound, NewUdfdir, FileOpen, Inv, TypeOK
<1>2. PlaceOK(t)
  BY DEF WalkOK
<1>3. /\ PlaceOK(t)'
      /\ tok[t] > 1 => Fid(t)' = Fid(t)
      /\ Here(t) # NULL => /\ Here(t)' = Here(t)
                           /\ \A n : ScanDir(Here(t), n)' = ScanDir(Here(t), n)
  BY <1>1, <1>2, SamePlace
<1>4. cur[t] # NULL => cur[t] = Here(t) /\ cur'[t] = Here(t)'
  BY <1>1, <1>3 DEF WalkOK
<1>5. tok[t] \in Nat \ {0} /\ Len(req[t].path) \in Nat
  BY <1>1, <1>2, PlaceTypes
<1>6. ASSUME pc'[t] = "notfound", tok[t] <= Len(req[t].path)
      PROVE  cur[t] # NULL /\ ScanDir(cur[t], req[t].path[tok[t]])' = {}
  <2>1. WalkNotFound(t)
    BY <1>5, <1>6 DEF NewUdfdir, FileOpen
  <2>2. cur[t] # NULL
    BY <2>1 DEF WalkNotFound, Inv, Calls, CallOK
  <2> PICK h, n : h = cur[t] /\ n = req[t].path[tok[t]]
    OBVIOUS
  <2>3. ScanDir(h, n)' = ScanDir(h, n)
    BY <1>3, <1>4, <2>2
  <2> QED
    BY <1>1, <2>1, <2>2, <2>3 DEF WalkNotFound
<1>7. ASSUME pc'[t] = "notfound", tok[t] > Len(req[t].path), tok[t] > 1
      PROVE  ~(Fid(t)'.dir <=> req[t].api \in DirApi)
  <2>1. CASE NewUdfdir(t)
    <3>1. cur[t] = NULL /\ req[t].api \in DirApi
      BY <1>7, <2>1 DEF NewUdfdir, Inv, TypeOK
    <3>2. ~Fid(t).dir
      BY <1>1, <3>1 DEF WalkOK, DirApi
    <3> QED
      BY <1>3, <1>7, <3>1, <3>2
  <2>2. CASE FileOpen(t)
    <3>1. ~FoundFile(t) /\ req[t].api \notin DirApi
      BY <1>7, <2>2 DEF FileOpen, Inv, TypeOK
    <3>2. fdir[t] # NULL
      BY <1>1, <1>2, <1>7, PlaceTypes
    <3> QED
      BY <1>3, <1>7, <3>1, <3>2 DEF FoundFile
  <2>3. ~WalkNotFound(t)
    BY <1>5, <1>7 DEF WalkNotFound
  <2> QED
    BY <2>1, <2>2, <2>3
<1> QED
  BY <1>1, <1>3, <1>4, <1>6, <1>7 DEF WalkOK, Caching

(* The steps of _cache_subdir before the last one.                         *)
LEMMA WalkCaches ==
  ASSUME Inv, [Next]_vars, vol' = "open", NEW t \in Thread, WalkOK(t),
         \/ CacheTestArray(t) \/ CacheInstallArray(t) \/ CacheTestSlot(t)
         \/ CacheReadDir(t) \/ CacheInstallDir(t)
  PROVE  WalkOK(t)'
<1>1. /\ pc[t] \in Caching /\ pc'[t] \in Caching \cup {"error"}
      /\ req' = req /\ tok' = tok /\ cur' = cur /\ fdir' = fdir /\ fidx' = fidx
  BY DEF CacheTestArray, CacheInstallArray, CacheTestSlot, CacheReadDir, CacheInstallDir,
     Caching, Inv, TypeOK
<1>2. PlaceOK(t) /\ pc[t] # "idle"
  BY <1>1 DEF WalkOK, Caching
<1>3. PlaceOK(t)'
  BY <1>1, <1>2, SamePlace
<1> QED
  BY <1>1, <1>3 DEF WalkOK, Caching

(* And the last one: the slot it returns is where the token leads.         *)
LEMMA WalkGets ==
  ASSUME Inv, [Next]_vars, vol' = "open", NEW t \in Thread, WalkOK(t), CacheGet(t)
  PROVE  WalkOK(t)'
<1>1. /\ pc[t] = "get" /\ pc'[t] = "walk" /\ cur'[t] = Slot(t)
      /\ req' = req /\ tok' = tok /\ fdir' = fdir /\ fidx' = fidx /\ tree' = tree
  BY DEF CacheGet, Inv, TypeOK
<1>2. PlaceOK(t) /\ tok[t] > 1
  BY <1>1 DEF WalkOK, Caching
<1>3. PlaceOK(t)'
  BY <1>1, <1>2, SamePlace
<1>0. PICK start, path, n, d, i :
      /\ start = req[t].start /\ path = req[t].path /\ n = tok[t]
      /\ d = fdir[t] /\ i = fidx[t]
  OBVIOUS
<1>4. /\ start \in Shared /\ path \in Seq(Name) /\ n - 1 \in 1 .. Len(path)
      /\ (n - 1) - 1 = n - 2 /\ d \in Shared /\ d # NULL /\ n - 1 \in 0 .. Len(path)
  BY <1>0, <1>1, <1>2, PlaceTypes
<1>5. d = Follow(start, path, n - 2) /\ i \in ScanDir(d, path[n - 1])
  BY <1>0, <1>2 DEF PlaceOK, Parent
<1>6. Slot(t) # NULL /\ subdirs[d] # NULL /\ Slot(t) = slots[subdirs[d]][i]
  BY <1>0, <1>1 DEF Inv, HandlesLive, Slot
<1>7. (CHOOSE j \in ScanDir(d, path[n - 1]) : TRUE) = i
  <2>1. \A j, k \in ScanDir(d, path[n - 1]) : j = k
    <3>1. MaxEntries \in Nat
      BY EntryLists
    <3> QED
      BY <3>1 DEF ScanDir, Lowest, Matches, Index
  <2>2. (CHOOSE j \in ScanDir(d, path[n - 1]) : TRUE) \in ScanDir(d, path[n - 1])
    BY <1>5
  <2> QED
    BY <1>5, <2>1, <2>2
<1>8. Child(d, path[n - 1]) = Slot(t)
  BY <1>4, <1>5, <1>6, <1>7 DEF Child
<1>9. Follow(start, path, n - 1) = Slot(t)
  <2>1. path \in Seq(Name)
    BY <1>4
  <2>2. \A m \in 1 .. Len(path) : Follow(start, path, m) = Child(Follow(start, path, m - 1), path[m])
    BY <2>1, FollowIs
  <2> QED
    BY <1>4, <1>5, <1>8, <2>2
<1>10. Here(t)' = Follow(start, path, n - 1)' /\ Here(t) = Slot(t)
  BY <1>0, <1>1, <1>9 DEF Here
<1>11. Here(t)' = Here(t)
  BY <1>1, <1>2, <1>6, <1>10, SamePlace
<1> QED
  BY <1>1, <1>3, <1>6, <1>10, <1>11 DEF WalkOK, Caching

LEMMA WalksNext == Inv /\ Inv' /\ Walks /\ [Next]_vars => Walks'
<1> SUFFICES ASSUME Inv, Inv', Walks, [Next]_vars, NEW u \in Thread PROVE WalkOK(u)'
  BY DEF Walks
<1> USE DEF tree, locals
<1>1. WalkOK(u)
  BY DEF Walks
<1>2. ASSUME pc'[u] = pc[u], req'[u] = req[u], tok'[u] = tok[u], cur'[u] = cur[u],
             fdir'[u] = fdir[u], fidx'[u] = fidx[u]
      PROVE  WalkOK(u)'
  BY <1>1, <1>2, OtherWalk
<1>3. ASSUME NEW t \in Thread, t # u, Begin(t) PROVE WalkOK(u)'
  <2>1. PICK api \in Api, start \in DirObj, path \in Seq(Name), next \in {"walk", "error"} :
          Enter(t, api, start, path, next)
    BY <1>3, BeginIsEnter
  <2> QED
    BY <1>2, <1>3, <2>1 DEF Enter, Inv, TypeOK
<1>4. ASSUME NEW t \in Thread, t # u, Work(t) PROVE WalkOK(u)'
  <2>1. /\ pc'[u] = pc[u] /\ req'[u] = req[u] /\ tok'[u] = tok[u] /\ cur'[u] = cur[u]
        /\ fdir'[u] = fdir[u] /\ fidx'[u] = fidx[u]
    <3>1. /\ \E v : pc' = [pc EXCEPT ![t] = v]
          /\ req' = req \/ \E v : req' = [req EXCEPT ![t] = v]
          /\ tok' = tok \/ \E v : tok' = [tok EXCEPT ![t] = v]
          /\ cur' = cur \/ \E v : cur' = [cur EXCEPT ![t] = v]
          /\ fdir' = fdir \/ \E v : fdir' = [fdir EXCEPT ![t] = v]
          /\ fidx' = fidx \/ \E v : fidx' = [fidx EXCEPT ![t] = v]
      BY <1>4, Zenon DEF Work, WalkNotFound, WalkFound, NewUdfdir, FileOpen, CacheGet, Return,
         CacheTestArray, CacheInstallArray, CacheTestSlot, CacheReadDir, CacheInstallDir
    <3> QED
      BY <1>4, <3>1 DEF Inv, TypeOK
  <2> QED
    BY <1>2, <2>1
<1>5. CASE Begin(u)
  BY <1>1, <1>5, WalkEnter
<1>6. CASE Work(u)
  <2>1. CASE Return(u)
    BY <2>1, WalkReturn
  <2>2. CASE ~Return(u)
    <3>1. vol' = "open"
      <4>1. vol' = vol /\ pc[u] # "idle"
        BY <1>6, <2>2 DEF Work, WalkNotFound, WalkFound, NewUdfdir, FileOpen, CacheGet,
           CacheTestArray, CacheInstallArray, CacheTestSlot, CacheReadDir, CacheInstallDir
      <4> QED
        BY <4>1 DEF Inv, Calls, CallOK
    <3> QED
      BY <1>1, <1>6, <2>2, <3>1, WalkToken, WalkEnds, WalkCaches, WalkGets DEF Work
  <2> QED
    BY <2>1, <2>2
<1>7. ASSUME ~\E t \in Thread : Begin(t) \/ Work(t) PROVE WalkOK(u)'
  <2>1. UNCHANGED locals
    BY <1>7 DEF Next, udfread_closedir, udfread_close, Clean, CleanChild, CleanSkip, CleanArray,
       CleanEntries, Done, vars
  <2> QED
    BY <1>2, <2>1
<1> QED
  BY <1>3, <1>4, <1>5, <1>6, <1>7

(* However the calls of the threads interleave, a call ends where its path *)
(* leads in the tree they share, and nothing that is there is missed.      *)
THEOREM WalksAreRight == Spec => []WalkIsRight
<1>1. Init => Walks
  <2> SUFFICES ASSUME Init, NEW t \in Thread PROVE WalkOK(t)
    BY DEF Walks
  <2>1. pc[t] = "idle" /\ req[t].api = "opendir" /\ tok[t] = 1 /\ fdir[t] = NULL
    BY DEF Init, NoCall
  <2> QED
    BY <2>1 DEF WalkOK, PlaceOK, Caching
<1>2. Inv /\ Walks => WalkIsRight
  <2> SUFFICES ASSUME Inv, Walks, NEW t \in Thread
               PROVE
    /\ pc[t] \in {"walk", "ok"} /\ cur[t] # NULL => cur[t] = Here(t)
    /\ pc[t] \in Busy \cup {"ok"} /\ tok[t] > 1
         => fdir[t] = Parent(t) /\ Fid(t).name = req[t].path[tok[t] - 1]
    /\ pc[t] = "notfound" /\ tok[t] <= Len(req[t].path)
         => \/ Here(t) # NULL /\ ScanDir(Here(t), req[t].path[tok[t]]) = {}
            \/ /\ tok[t] > 1
               /\ \A i \in ScanDir(Parent(t), req[t].path[tok[t] - 1]) : ~content[Parent(t)][i].dir
    /\ pc[t] = "notfound" /\ tok[t] > Len(req[t].path) /\ tok[t] > 1
         => Fid(t).dir # (req[t].api \in DirApi)
    BY DEF WalkIsRight
  <2>1. WalkOK(t) /\ PlaceOK(t)
    BY DEF Walks, WalkOK
  <2>2. pc[t] # "idle" /\ tok[t] > 1 =>
          /\ fdir[t] = Parent(t) /\ Fid(t).dir \in BOOLEAN
          /\ Fid(t).name = req[t].path[tok[t] - 1]
          /\ \A i \in ScanDir(Parent(t), req[t].path[tok[t] - 1]) : i = fidx[t]
    <3> SUFFICES ASSUME pc[t] # "idle", tok[t] > 1
                 PROVE  /\ fdir[t] = Parent(t) /\ Fid(t).dir \in BOOLEAN
                        /\ Fid(t).name = req[t].path[tok[t] - 1]
                        /\ \A i \in ScanDir(Parent(t), req[t].path[tok[t] - 1]) : i = fidx[t]
      OBVIOUS
    <3>1. fdir[t] = Parent(t) /\ fidx[t] \in ScanDir(fdir[t], req[t].path[tok[t] - 1])
      BY <2>1 DEF PlaceOK
    <3>2. Fid(t).name = req[t].path[tok[t] - 1]
      BY <3>1 DEF ScanDir, Lowest, Matches, Fid
    <3>3. \A i \in ScanDir(fdir[t], req[t].path[tok[t] - 1]) : i = fidx[t]
      BY <3>1, EntryLists DEF ScanDir, Lowest, Matches, Index
    <3> QED
      BY <2>1, <3>1, <3>2, <3>3, PlaceTypes
  <2> QED
    BY <2>1, <2>2 DEF WalkOK, Busy, Fid
<1>3. Inv /\ Walks /\ [Next]_vars => Walks'
  BY NextInv, WalksNext
<1> QED
  BY <1>1, <1>2, <1>3, Invariance, PTL DEF Spec
=============================================================================
