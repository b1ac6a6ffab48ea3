------------------------------ MODULE DirCache ------------------------------
(***************************************************************************)
(* The lazily built directory tree of an open volume, shared by every      *)
(* thread that uses the same udfread handle (src/udfread.c).               *)
(*                                                                         *)
(* A struct udf_dir owns an array `subdirs' of child pointers; array and   *)
(* children are allocated on first use and installed with a pointer        *)
(* compare-and-exchange, without any lock.  A thread that loses the race   *)
(* frees what it built and uses the winner's object.  The tree is torn     *)
(* down by udfread_close.                                                  *)
(*                                                                         *)
(* Every access to a shared pointer is a step of its own; work on memory   *)
(* no other thread can reach yet (calloc, udf_read_dir into a private      *)
(* struct) is part of the step that starts or ends it.                     *)
(***************************************************************************)
EXTENDS Naturals, Sequences

CONSTANTS
  Thread,      \* threads calling the library
  Stream,      \* UDFDIR objects the callers can hold at one time
  DirObj,      \* addresses a struct udf_dir can have
  ArrObj,      \* addresses a `subdirs' array can have
  Root,        \* address of udf->root_dir, embedded in struct udfread
  NULL,
  Icb,         \* locations of file entries on the medium
  RootIcb,     \* location of the root directory
  Name,        \* file names
  MaxEntries,  \* most entries of a directory
  Readings,    \* Readings[l]: the entry lists udf_read_dir can deliver for l
  Path         \* the paths (token sequences) callers ask for

Index == 1 .. MaxEntries
Entry == [name : Name, dir : BOOLEAN, icb : Icb]

ASSUME AddressAssumption ==
  /\ Root \in DirObj
  /\ DirObj \cap ArrObj = {}
  /\ NULL \notin DirObj \cup ArrObj

ASSUME ImageAssumption ==
  /\ MaxEntries \in Nat
  /\ RootIcb \in Icb
  /\ Readings \in [Icb -> SUBSET Seq(Entry)]
  /\ \A l \in Icb : \A r \in Readings[l] : Len(r) <= MaxEntries
  /\ Path \subseteq Seq(Name)

VARIABLES
  vol,      \* "open", "closing" (inside udfread_close) or "closed"
  heap,     \* addresses that are allocated
  content,  \* content[d]: entries of directory object d
  subdirs,  \* subdirs[d]: d's array of children, or NULL
  slots,    \* slots[a][i]: child i of array a, or NULL
  stream,   \* stream[s]: the directory a UDFDIR refers to, or NULL
  stack,    \* calls of _clean_tree in progress, the innermost one last
  pc,       \* what each thread does next
  req,      \* req[t]: the call a thread is in: API function, start, path
  tok,      \* tok[t]: next token of the path (save_ptr of strtok_r)
  cur,      \* cur[t]: current_dir
  fdir,     \* fdir[t], fidx[t]: the entry `fid' points to, as the directory
  fidx,     \*   that owns it and its index
  arr,      \* arr[t]: array the thread has allocated but not installed
  sub       \* sub[t]: directory it has allocated but not installed

tree    == <<heap, content, subdirs, slots>>
locals  == <<pc, req, tok, cur, fdir, fidx, arr, sub>>
vars    == <<vol, stream, stack, tree, locals>>

Busy   == {"walk", "cache", "cas_array", "slot", "read", "cas_dir", "get"}
Result == {"ok", "notfound", "error"}
Api    == {"opendir", "opendir_at", "file_open", "file_openat"}
DirApi == {"opendir", "opendir_at"}
Call   == [api : Api, start : DirObj, path : Seq(Name)]
NoCall == [api |-> "opendir", start |-> Root, path |-> <<>>]

(* A call of _clean_tree: its directory and the counter of its loop.       *)
Frame == [dir : DirObj, i : Nat \ {0}]

(* The index _scan_dir delivers for a name, as a singleton: that of the    *)
(* first entry that has it.  Empty when there is none.                     *)
Lowest(S) == {i \in S : \A j \in S : i <= j}
Matches(d, n) == {i \in Index : i <= Len(content[d]) /\ content[d][i].name = n}
ScanDir(d, n) == Lowest(Matches(d, n))

(* The entry fid points to, and whether there is one that _file_open opens *)
Fid(t) == content[fdir[t]][fidx[t]]
FoundFile(t) == fdir[t] # NULL /\ ~Fid(t).dir

(* udfread_open_input has read the root directory; no child is cached.     *)
Init ==
  /\ vol = "open"
  /\ heap = {Root}
  /\ \E r \in Readings[RootIcb] :
       content = [d \in DirObj |-> IF d = Root THEN r ELSE <<>>]
  /\ subdirs = [d \in DirObj |-> NULL]
  /\ slots = [a \in ArrObj |-> [i \in Index |-> NULL]]
  /\ stream = [s \in Stream |-> NULL]
  /\ stack = <<>>
  /\ pc = [t \in Thread |-> "idle"]
  /\ req = [t \in Thread |-> NoCall]
  /\ tok = [t \in Thread |-> 1]
  /\ cur = [t \in Thread |-> NULL]
  /\ fdir = [t \in Thread |-> NULL]
  /\ fidx = [t \in Thread |-> 1]
  /\ arr = [t \in Thread |-> NULL]
  /\ sub = [t \in Thread |-> NULL]

-----------------------------------------------------------------------------
(* Entering the library.                                                   *)

Enter(t, api, start, path, next) ==
  /\ vol = "open"
  /\ pc[t] = "idle"
  /\ req' = [req EXCEPT ![t] = [api |-> api, start |-> start, path |-> path]]
  /\ cur' = [cur EXCEPT ![t] = start]
  /\ pc' = [pc EXCEPT ![t] = next]
  /\ UNCHANGED <<vol, stream, stack, tree, tok, fdir, fidx, arr, sub>>

(* A path is copied before it is split, and the copy can fail.             *)
udfread_opendir(t, path) ==
  \E next \in {"walk", "error"} : Enter(t, "opendir", Root, path, next)

udfread_file_open(t, path) ==
  \E next \in {"walk", "error"} : Enter(t, "file_open", Root, path, next)

(* The name is looked up in the directory of an open stream: the walk over *)
(* a path of one token that starts there.                                  *)
udfread_opendir_at(t, s, n) ==
  /\ stream[s] # NULL
  /\ Enter(t, "opendir_at", stream[s], <<n>>, "walk")

udfread_file_openat(t, s, n) ==
  /\ stream[s] # NULL
  /\ Enter(t, "file_openat", stream[s], <<n>>, "walk")

-----------------------------------------------------------------------------
(* The walk of _find_file, one token at a time.                            *)

WalkNotFound(t) ==
  /\ pc[t] = "walk"
  /\ tok[t] <= Len(req[t].path)
  /\ ScanDir(cur[t], req[t].path[tok[t]]) = {}
  /\ pc' = [pc EXCEPT ![t] = "notfound"]
  /\ UNCHANGED <<vol, stream, stack, tree, req, tok, cur, fdir, fidx, arr, sub>>

(* An entry with the name: a directory is looked up in the cache (only     *)
(* udfread_file_openat, which opens no directory, leaves it alone), a file *)
(* ends the walk and must be the last component.                           *)
WalkFound(t) ==
  /\ pc[t] = "walk"
  /\ tok[t] <= Len(req[t].path)
  /\ \E i \in ScanDir(cur[t], req[t].path[tok[t]]) :
       LET into == content[cur[t]][i].dir /\ req[t].api # "file_openat"
           last == tok[t] = Len(req[t].path)
       IN
        /\ fdir' = [fdir EXCEPT ![t] = cur[t]]
        /\ fidx' = [fidx EXCEPT ![t] = i]
        /\ pc' = [pc EXCEPT ![t] = IF into THEN "cache"
                                   ELSE IF last THEN "walk" ELSE "notfound"]
        /\ cur' = [cur EXCEPT ![t] = IF ~into /\ last THEN NULL ELSE @]
  /\ tok' = [tok EXCEPT ![t] = @ + 1]
  /\ UNCHANGED <<vol, stream, stack, tree, req, arr, sub>>

(* All tokens used: _new_udfdir.  calloc may fail.                         *)
NewUdfdir(t) ==
  /\ pc[t] = "walk"
  /\ tok[t] > Len(req[t].path)
  /\ req[t].api \in DirApi
  /\ \/ /\ cur[t] = NULL
        /\ pc' = [pc EXCEPT ![t] = "notfound"]
        /\ UNCHANGED stream
     \/ /\ cur[t] # NULL
        /\ pc' = [pc EXCEPT ![t] = "error"]
        /\ UNCHANGED stream
     \/ /\ cur[t] # NULL
        /\ \E s \in Stream :
             /\ stream[s] = NULL
             /\ stream' = [stream EXCEPT ![s] = cur[t]]
        /\ pc' = [pc EXCEPT ![t] = "ok"]
  /\ UNCHANGED <<vol, stack, tree, req, tok, cur, fdir, fidx, arr, sub>>

(* All tokens used: _file_open of the entry found, if it is a file.  The   *)
(* UDFFILE copies what it needs; FileStream.tla models it from there.      *)
FileOpen(t) ==
  /\ pc[t] = "walk"
  /\ tok[t] > Len(req[t].path)
  /\ req[t].api \notin DirApi
  /\ \/ /\ ~FoundFile(t)
        /\ pc' = [pc EXCEPT ![t] = "notfound"]
     \/ /\ FoundFile(t)
        /\ \E r \in {"ok", "error"} : pc' = [pc EXCEPT ![t] = r]
  /\ UNCHANGED <<vol, stream, stack, tree, req, tok, cur, fdir, fidx, arr, sub>>

(* Mutant of Return: the position in the path survives the call.           *)
Return_KeepsToken(t) ==
  /\ pc[t] \in Result
  /\ pc' = [pc EXCEPT ![t] = "idle"]
  /\ req' = [req EXCEPT ![t] = NoCall]
  /\ cur' = [cur EXCEPT ![t] = NULL]
  /\ fdir' = [fdir EXCEPT ![t] = NULL]
  /\ fidx' = [fidx EXCEPT ![t] = 1]
  /\ UNCHANGED <<vol, stream, stack, tree, tok, arr, sub>>

(* Back in the caller.                                                     *)
Return(t) ==
  /\ pc[t] \in Result
  /\ pc' = [pc EXCEPT ![t] = "idle"]
  /\ req' = [req EXCEPT ![t] = NoCall]
  /\ tok' = [tok EXCEPT ![t] = 1]
  /\ cur' = [cur EXCEPT ![t] = NULL]
  /\ fdir' = [fdir EXCEPT ![t] = NULL]
  /\ fidx' = [fidx EXCEPT ![t] = 1]
  /\ UNCHANGED <<vol, stream, stack, tree, arr, sub>>

-----------------------------------------------------------------------------
(* _cache_subdir(udf, fdir[t], fidx[t]).                                   *)

(* atomic_pointer_compare_and_exchange(ptr, NULL, new) stores `new' only   *)
(* while ptr is NULL.  Mutant: a plain store.                              *)
Wins_Always(ptr) == TRUE
Wins(ptr) == ptr = NULL

(* What is left of the heap when the loser has freed its array, or its     *)
(* directory.  Mutants: it frees the winner's; it frees nothing.           *)
FreeArr_Winner(t) == heap \ {subdirs[fdir[t]]}
FreeArr(t) == heap \ {arr[t]}
FreeSub_Nothing(t) == heap
FreeSub(t) == heap \ {sub[t]}

(* The child slot of the entry, read through the shared pointers.          *)
Slot(t) == slots[subdirs[fdir[t]]][fidx[t]]

(* The entry lists a successful udf_read_dir delivers.  Mutant: a failed   *)
(* read passes for an empty directory.                                     *)
Delivered_OrEmpty(l) == Readings[l] \cup {<<>>}
Delivered(l) == Readings[l]

(* `if (!dir->subdirs)': allocate an array, which may fail.                *)
CacheTestArray(t) ==
  /\ pc[t] = "cache"
  /\ \/ /\ subdirs[fdir[t]] # NULL
        /\ pc' = [pc EXCEPT ![t] = "slot"]
        /\ UNCHANGED <<heap, slots, arr>>
     \/ /\ subdirs[fdir[t]] = NULL
        /\ pc' = [pc EXCEPT ![t] = "error"]
        /\ UNCHANGED <<heap, slots, arr>>
     \/ /\ subdirs[fdir[t]] = NULL
        /\ \E a \in ArrObj \ heap :
             /\ heap' = heap \cup {a}
             /\ slots' = [slots EXCEPT ![a] = [i \in Index |-> NULL]]
             /\ arr' = [arr EXCEPT ![t] = a]
        /\ pc' = [pc EXCEPT ![t] = "cas_array"]
  /\ UNCHANGED <<vol, stream, stack, content, subdirs, req, tok, cur, fdir, fidx, sub>>

(* The compare-and-exchange on dir->subdirs: install the array or free it. *)
CacheInstallArray(t) ==
  /\ pc[t] = "cas_array"
  /\ IF Wins(subdirs[fdir[t]])
       THEN /\ subdirs' = [subdirs EXCEPT ![fdir[t]] = arr[t]]
            /\ UNCHANGED heap
       ELSE /\ heap' = FreeArr(t)
            /\ UNCHANGED subdirs
  /\ arr' = [arr EXCEPT ![t] = NULL]
  /\ pc' = [pc EXCEPT ![t] = "slot"]
  /\ UNCHANGED <<vol, stream, stack, content, slots, req, tok, cur, fdir, fidx, sub>>

(* `if (!dir->subdirs[index])': allocate a directory, which may fail.      *)
CacheTestSlot(t) ==
  /\ pc[t] = "slot"
  /\ \/ /\ Slot(t) # NULL
        /\ pc' = [pc EXCEPT ![t] = "get"]
        /\ UNCHANGED <<heap, content, subdirs, sub>>
     \/ /\ Slot(t) = NULL
        /\ pc' = [pc EXCEPT ![t] = "error"]
        /\ UNCHANGED <<heap, content, subdirs, sub>>
     \/ /\ Slot(t) = NULL
        /\ \E d \in DirObj \ heap :
             /\ heap' = heap \cup {d}
             /\ content' = [content EXCEPT ![d] = <<>>]
             /\ subdirs' = [subdirs EXCEPT ![d] = NULL]
             /\ sub' = [sub EXCEPT ![t] = d]
        /\ pc' = [pc EXCEPT ![t] = "read"]
  /\ UNCHANGED <<vol, stream, stack, slots, req, tok, cur, fdir, fidx, arr>>

(* udf_read_dir into the private object.  When it fails, whatever entries  *)
(* it delivered are freed with the object.                                 *)
CacheReadDir(t) ==
  /\ pc[t] = "read"
  /\ \/ /\ \E r \in Delivered(Fid(t).icb) :
             content' = [content EXCEPT ![sub[t]] = r]
        /\ pc' = [pc EXCEPT ![t] = "cas_dir"]
        /\ UNCHANGED <<heap, sub>>
     \/ /\ heap' = FreeSub(t)
        /\ sub' = [sub EXCEPT ![t] = NULL]
        /\ pc' = [pc EXCEPT ![t] = "error"]
        /\ UNCHANGED content
  /\ UNCHANGED <<vol, stream, stack, subdirs, slots, req, tok, cur, fdir, fidx, arr>>

(* The compare-and-exchange on dir->subdirs[index].                        *)
CacheInstallDir(t) ==
  /\ pc[t] = "cas_dir"
  /\ IF Wins(Slot(t))
       THEN /\ slots' = [slots EXCEPT ![subdirs[fdir[t]]] =
                                        [@ EXCEPT ![fidx[t]] = sub[t]]]
            /\ UNCHANGED heap
       ELSE /\ heap' = FreeSub(t)
            /\ UNCHANGED slots
  /\ sub' = [sub EXCEPT ![t] = NULL]
  /\ pc' = [pc EXCEPT ![t] = "get"]
  /\ UNCHANGED <<vol, stream, stack, content, subdirs, req, tok, cur, fdir, fidx, arr>>

(* Mutant of CacheGet: it waits until nobody is building a directory, as a *)
(* lock around _cache_subdir would make it.                                *)
CacheGet_Locked(t) ==
  /\ pc[t] = "get"
  /\ \A u \in Thread : sub[u] = NULL
  /\ cur' = [cur EXCEPT ![t] = Slot(t)]
  /\ pc' = [pc EXCEPT ![t] = "walk"]
  /\ UNCHANGED <<vol, stream, stack, tree, req, tok, fdir, fidx, arr, sub>>

(* `return dir->subdirs[index]': the walk continues in the child.          *)
CacheGet(t) ==
  /\ pc[t] = "get"
  /\ cur' = [cur EXCEPT ![t] = Slot(t)]
  /\ pc' = [pc EXCEPT ![t] = "walk"]
  /\ UNCHANGED <<vol, stream, stack, tree, req, tok, fdir, fidx, arr, sub>>

-----------------------------------------------------------------------------
(* Streams and the end of the volume.                                      *)

(* udfread_closedir only frees the UDFDIR, so it is legal after the volume *)
(* has been closed, too.                                                   *)
udfread_closedir(s) ==
  /\ stream[s] # NULL
  /\ stream' = [stream EXCEPT ![s] = NULL]
  /\ UNCHANGED <<vol, stack, tree, locals>>

(* udfread_close must not run concurrently with any other call on the      *)
(* handle (udfread.h).  It enters _clean_tree(&udf->root_dir).             *)
udfread_close ==
  /\ vol = "open"
  /\ \A t \in Thread : pc[t] = "idle"
  /\ vol' = "closing"
  /\ stack' = <<[dir |-> Root, i |-> 1]>>
  /\ UNCHANGED <<stream, tree, locals>>

Top   == stack[Len(stack)].dir
Turn  == stack[Len(stack)].i
Below == stack[Len(stack) - 1]

(* What the counter of the loop runs over.  Mutant: the last entry is left *)
(* out.                                                                    *)
Children_ButLast == 1 .. Len(content[Top]) - 1
Children == 1 .. Len(content[Top])

(* `i++' at the end of a pass, in the innermost of the calls s.  Mutant:   *)
(* the counter stays where it is.                                          *)
Advanced_Not(s) == s
Advanced(s) == [s EXCEPT ![Len(s)].i = @ + 1]

(* A pass of the loop over the num_entries children: recurse into it.      *)
CleanChild ==
  /\ vol = "closing"
  /\ subdirs[Top] # NULL
  /\ Turn \in Children
  /\ slots[subdirs[Top]][Turn] # NULL
  /\ stack' = Append(stack, [dir |-> slots[subdirs[Top]][Turn], i |-> 1])
  /\ UNCHANGED <<vol, stream, tree, locals>>

(* A pass over a child that was never loaded: _clean_tree(NULL).           *)
CleanSkip ==
  /\ vol = "closing"
  /\ subdirs[Top] # NULL
  /\ Turn \in Children
  /\ slots[subdirs[Top]][Turn] = NULL
  /\ stack' = Advanced(stack)
  /\ UNCHANGED <<vol, stream, tree, locals>>

(* The loop has ended: free the array.                                     *)
CleanArray ==
  /\ vol = "closing"
  /\ subdirs[Top] # NULL
  /\ Turn \notin Children
  /\ heap' = heap \ {subdirs[Top]}
  /\ subdirs' = [subdirs EXCEPT ![Top] = NULL]
  /\ UNCHANGED <<vol, stream, stack, content, slots, locals>>

(* No array: free the entries and return.  The caller, one level down,     *)
(* frees the object, clears its slot and goes on with the next one;        *)
(* udfread_close frees the handle.                                         *)
CleanEntries ==
  /\ vol = "closing"
  /\ subdirs[Top] = NULL
  /\ content' = [content EXCEPT ![Top] = <<>>]
  /\ heap' = heap \ {Top}
  /\ \/ /\ Len(stack) = 1
        /\ stack' = <<>>
        /\ vol' = "closed"
        /\ UNCHANGED slots
     \/ /\ Len(stack) > 1
        /\ stack' = Advanced(SubSeq(stack, 1, Len(stack) - 1))
        /\ slots' = [slots EXCEPT ![subdirs[Below.dir]] =
                                     [@ EXCEPT ![Below.i] = NULL]]
        /\ UNCHANGED vol
  /\ UNCHANGED <<stream, subdirs, locals>>

(* The program ends here: the volume is closed and no UDFDIR is left.      *)
Done ==
  /\ vol = "closed"
  /\ \A s \in Stream : stream[s] = NULL
  /\ UNCHANGED vars

Begin(t) ==
  \/ \E p \in Path : udfread_opendir(t, p)
  \/ \E p \in Path : udfread_file_open(t, p)
  \/ \E s \in Stream, n \in Name : udfread_opendir_at(t, s, n)
  \/ \E s \in Stream, n \in Name : udfread_file_openat(t, s, n)

Work(t) ==
  \/ WalkNotFound(t)
  \/ WalkFound(t)
  \/ NewUdfdir(t)
  \/ FileOpen(t)
  \/ CacheTestArray(t)
  \/ CacheInstallArray(t)
  \/ CacheTestSlot(t)
  \/ CacheReadDir(t)
  \/ CacheInstallDir(t)
  \/ CacheGet(t)
  \/ Return(t)

Clean == CleanChild \/ CleanSkip \/ CleanArray \/ CleanEntries

Next ==
  \/ \E t \in Thread : Begin(t) \/ Work(t)
  \/ \E s \in Stream : udfread_closedir(s)
  \/ udfread_close
  \/ Clean
  \/ Done

Spec == Init /\ [][Next]_vars

(* A thread that is inside the library is scheduled again and again; no    *)
(* caller has to call anything.                                            *)
FairSpec == Spec /\ (\A t \in Thread : WF_vars(Work(t))) /\ WF_vars(Clean)

-----------------------------------------------------------------------------
(* What must hold of every state.                                          *)

DirPtr == DirObj \cup {NULL}
ArrPtr == ArrObj \cup {NULL}
Entries == {r \in Seq(Entry) : Len(r) <= MaxEntries}

(* The variables have their types; strtok_r never runs past the end of the *)
(* path it splits.                                                         *)
TypeOK ==
  /\ vol \in {"open", "closing", "closed"}
  /\ heap \subseteq DirObj \cup ArrObj
  /\ content \in [DirObj -> Entries]
  /\ subdirs \in [DirObj -> ArrPtr]
  /\ slots \in [ArrObj -> [Index -> DirPtr]]
  /\ stream \in [Stream -> DirPtr]
  /\ stack \in Seq(Frame)
  /\ pc \in [Thread -> Busy \cup Result \cup {"idle"}]
  /\ req \in [Thread -> Call]
  /\ tok \in [Thread -> Nat \ {0}]
  /\ \A t \in Thread : tok[t] <= Len(req[t].path) + 1
  /\ cur \in [Thread -> DirPtr]
  /\ fdir \in [Thread -> DirPtr]
  /\ fidx \in [Thread -> Nat \ {0}]
  /\ arr \in [Thread -> ArrPtr]
  /\ sub \in [Thread -> DirPtr]

(* Directories another thread can reach: the root and what is installed.   *)
Shared == {Root} \cup ({slots[a][i] : a \in ArrObj, i \in Index} \ {NULL})

(* No pointer the library will follow again refers to freed memory: in     *)
(* particular the loser of an installation race frees its own object and   *)
(* not the one the winner has published.                                   *)
NoDangling ==
  /\ \A d \in DirObj : subdirs[d] # NULL => {d, subdirs[d]} \subseteq heap
  /\ \A a \in ArrObj, i \in Index :
       slots[a][i] # NULL => {a, slots[a][i]} \subseteq heap
  /\ \A t \in Thread : {arr[t], sub[t]} \subseteq heap \cup {NULL}

(* Every object has one owner, so that nothing is freed twice: an array    *)
(* belongs to one directory, a directory to one slot, and what a thread is *)
(* still building to nobody else.                                          *)
OneOwner ==
  /\ \A d, e \in DirObj : subdirs[d] # NULL /\ subdirs[d] = subdirs[e] => d = e
  /\ \A a, b \in ArrObj, i, j \in Index :
       slots[a][i] # NULL /\ slots[a][i] = slots[b][j] => a = b /\ i = j
  /\ \A a \in ArrObj, i \in Index : slots[a][i] # Root
  /\ \A t \in Thread : sub[t] \notin Shared
  /\ \A t \in Thread, d \in DirObj : arr[t] # NULL => arr[t] # subdirs[d]
  /\ \A t, u \in Thread : arr[t] # NULL /\ arr[t] = arr[u] => t = u
  /\ \A t, u \in Thread : sub[t] # NULL /\ sub[t] = sub[u] => t = u

(* What is allocated belongs to the tree or to a thread that is building   *)
(* it: losing a race or failing to read a directory leaks nothing.         *)
NoLeak ==
  /\ \A a \in heap \cap ArrObj :
       (\E d \in DirObj : subdirs[d] = a) \/ (\E t \in Thread : arr[t] = a)
  /\ \A d \in heap \cap DirObj : d \in Shared \/ (\E t \in Thread : sub[t] = d)

(* udfread_close returns every object to the heap.                         *)
CleanClose == vol = "closed" => heap = {}

(* While the volume is open, every directory a call or a UDFDIR is at has  *)
(* been published, and _cache_subdir never follows a NULL array nor        *)
(* returns the NULL of an empty slot: a lost race does not fail a call.    *)
HandlesLive ==
  /\ vol = "open" =>
       /\ \A t \in Thread : {cur[t], fdir[t], req[t].start} \subseteq Shared \cup {NULL}
       /\ \A s \in Stream : stream[s] \in Shared \cup {NULL}
  /\ \A t \in Thread :
       /\ pc[t] \in {"slot", "read", "cas_dir", "get"} => subdirs[fdir[t]] # NULL
       /\ pc[t] = "get" => Slot(t) # NULL

(* A directory becomes visible to other threads only once it has been read *)
(* completely, and only in the slot of an entry it was read for.           *)
Loaded ==
  \A d \in DirObj, i \in Index :
    subdirs[d] # NULL /\ slots[subdirs[d]][i] # NULL =>
      /\ i <= Len(content[d])
      /\ content[d][i].dir
      /\ content[slots[subdirs[d]][i]] \in Readings[content[d][i].icb]

(* Following the first n tokens of a path through the published tree.      *)
Child(d, n) ==
  IF d = NULL \/ ScanDir(d, n) = {} \/ subdirs[d] = NULL
    THEN NULL ELSE slots[subdirs[d]][CHOOSE i \in ScanDir(d, n) : TRUE]
Along(d, path) ==
  LET at[n \in 0 .. Len(path)] == IF n = 0 THEN d ELSE Child(at[n - 1], path[n])
  IN at
Follow(d, path, n) == Along(d, path)[n]

(* Where the tokens a call has used so far lead, and all but the last.     *)
Here(t)   == Follow(req[t].start, req[t].path, tok[t] - 1)
Parent(t) == Follow(req[t].start, req[t].path, tok[t] - 2)

(* However the calls of the threads interleave, a call ends where its path *)
(* leads in the one tree all of them share: it stands in the directory its *)
(* tokens lead to, with the entry of its last token; and a path is         *)
(* reported as missing only when the tree does not have it, or has the     *)
(* other kind of file there.                                               *)
WalkIsRight ==
  \A t \in Thread :
    /\ pc[t] \in {"walk", "ok"} /\ cur[t] # NULL
         => cur[t] = Here(t)
    /\ pc[t] \in Busy \cup {"ok"} /\ tok[t] > 1
         => /\ fdir[t] = Parent(t)
            /\ Fid(t).name = req[t].path[tok[t] - 1]
    /\ pc[t] = "notfound" /\ tok[t] <= Len(req[t].path)
         => LET d == Here(t)
                p == Parent(t)
            IN \/ d # NULL /\ ScanDir(d, req[t].path[tok[t]]) = {}
               \/ tok[t] > 1 /\ \A i \in ScanDir(p, req[t].path[tok[t] - 1]) : ~content[p][i].dir
    /\ pc[t] = "notfound" /\ tok[t] > Len(req[t].path) /\ tok[t] > 1
         => Fid(t).dir # (req[t].api \in DirApi)

(* What is published stays as it is until udfread_close: the strings and   *)
(* entries other calls and callers point to never move or change.          *)
Stable ==
  [][ vol' = "open" =>
        \A d \in Shared :
          /\ content'[d] = content[d]
          /\ subdirs[d] # NULL =>
               /\ subdirs'[d] = subdirs[d]
               /\ \A i \in Index : slots[subdirs[d]][i] # NULL =>
                    slots'[subdirs[d]][i] = slots[subdirs[d]][i] ]_vars

-----------------------------------------------------------------------------
(* What must happen.                                                       *)

(* Wait-freedom: a call made by t returns as long as t itself runs,        *)
(* whatever other threads do or stop doing.                                *)
CallReturns(t) == pc[t] \in Busy ~> pc[t] = "idle"

(* The loops and the recursion of udfread_close come to an end, whatever   *)
(* part of the tree has been loaded.                                       *)
CloseReturns == vol = "closing" ~> vol = "closed"
=============================================================================
