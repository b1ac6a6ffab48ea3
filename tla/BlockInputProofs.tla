-------------------------- MODULE BlockInputProofs --------------------------
(***************************************************************************)
(* The default block input, for any number of threads, any file and any    *)
(* requests: types and the mutex, and that every byte is read from its     *)
(* place into its place.                                                   *)
(***************************************************************************)
EXTENDS BlockInput, SequenceTheorems, TLAPS

Between == {"pread", "lock", "seek", "read"}  \* before a read
After == {"unlock", "check"}                  \* after it

(* What a call knows of its request and of the bytes it has.               *)
CallOK(t) ==
  /\ pc[t] = "idle" => req[t] = NoRequest
  /\ pc[t] # "idle" => req[t] \in Requests
  /\ pc[t] \in {"idle", "call"} => buf[t] = <<>>
  /\ pc[t] \notin {"idle", "call"} => req[t].n >= 1

(* got < bytes inside the loop.                                            *)
RoomOK(t) ==
  /\ pc[t] = "loop" => Len(buf[t]) <= Bytes(t)
  /\ pc[t] \in Between \cup After => Len(buf[t]) < Bytes(t)

(* What a read has returned goes where the next byte belongs.              *)
LastOK(t) ==
  pc[t] \in After =>
    /\ Len(last[t].bytes) <= Chunk(t)
    /\ \A j \in 1 .. Len(last[t].bytes) : last[t].bytes[j] = Pos(t) + j - 1

BufferOK(t) ==
  \A j \in 1 .. Len(buf[t]) : buf[t][j] = req[t].lba * BlockSize + j - 1

OffsetOK(t) == pc[t] = "read" => offset = Pos(t)

ThreadOK(t) == CallOK(t) /\ RoomOK(t) /\ LastOK(t) /\ BufferOK(t) /\ OffsetOK(t)
BInv == TypeOK /\ \A t \in Thread : ThreadOK(t)

-----------------------------------------------------------------------------
(* What the system answers is inside the request and comes from the place. *)
LEMMA ReadsRight ==
  ASSUME NEW place \in Nat, NEW count \in Nat \ {0}, NEW r \in Reads(place, count)
  PROVE  /\ r \in [bytes : Seq(Nat), errno : {"0", "EINTR", "EIO"}]
         /\ Len(r.bytes) <= count
         /\ \A j \in 1 .. Len(r.bytes) : r.bytes[j] = place + j - 1
<1>1. CASE place >= FileSize
  <2>1. r = Result(<<>>)  BY <1>1, BlockInputAssumption DEF Reads
  <2> QED  BY <2>1 DEF Result
<1>2. CASE ~(place >= FileSize)
  <2>1. PICK k \in 1 .. Min({count, FileSize - place}) : r = Result(FromFile(place, k))
    BY <1>2 DEF Reads
  <2>2. Min({count, FileSize - place}) \in Int /\ Min({count, FileSize - place}) <= count
    BY <1>2, BlockInputAssumption DEF Min
  <2>3. k \in Nat /\ k <= count  BY <2>1, <2>2
  <2>4. FromFile(place, k) \in Seq(Nat) /\ Len(FromFile(place, k)) = k
    BY <2>3 DEF FromFile
  <2>5. r.bytes = FromFile(place, k) /\ r.errno = "0"
    BY <2>1 DEF Result
  <2>6. \A j \in 1 .. k : FromFile(place, k)[j] = place + j - 1  BY DEF FromFile
  <2> QED  BY <2>1, <2>3, <2>4, <2>5, <2>6 DEF Result
<1> QED  BY <1>1, <1>2

LEMMA BInvInit == Init => BInv
BY BlockInputAssumption DEF Init, BInv, TypeOK, ThreadOK, CallOK, RoomOK, LastOK, BufferOK, OffsetOK,
   Result, Between, After

(* A step of one thread that leaves the variables of another alone, and    *)
(* the offset too while that one is between seek and read, leaves what is  *)
(* known of it alone.                                                      *)
LEMMA OthersKeep ==
  ASSUME NEW u \in Thread, ThreadOK(u),
         pc'[u] = pc[u], req'[u] = req[u], buf'[u] = buf[u], last'[u] = last[u],
         pc[u] = "read" => offset' = offset
  PROVE  ThreadOK(u)'
BY DEF ThreadOK, CallOK, RoomOK, LastOK, BufferOK, OffsetOK, Pos, Chunk, Bytes

(* The mutex: only its owner is between Lock and Unlock.                   *)
LEMMA OwnerOnly ==
  ASSUME BInv, NEW t \in Thread, NEW u \in Thread,
         pc[t] \in {"seek", "read", "unlock"}, pc[u] \in {"seek", "read", "unlock"}
  PROVE  t = u
BY DEF BInv, TypeOK

(* What the arithmetic of a call is about.                                 *)
LEMMA CallNumbers ==
  ASSUME BInv, NEW t \in Thread, pc[t] \notin {"idle", "call"}
  PROVE  /\ req[t] \in Requests /\ req[t].lba \in Nat /\ req[t].n \in Nat
         /\ Len(buf[t]) \in Nat /\ buf[t] \in Seq(Nat)
         /\ Bytes(t) \in Nat /\ Pos(t) \in Nat /\ Chunk(t) \in Int
         /\ pc[t] \in Between \cup After => Chunk(t) \in Nat \ {0}
<1>1. req[t] \in Requests /\ req[t].n >= 1 /\ buf[t] \in Seq(Nat)
  BY DEF BInv, ThreadOK, CallOK, TypeOK
<1>2. req[t].lba \in Nat /\ req[t].n \in Nat /\ BlockSize \in Nat
  BY <1>1, BlockInputAssumption
<1>3. req[t].n * BlockSize \in Nat /\ req[t].lba * BlockSize \in Nat
  BY <1>2
<1>4. Bytes(t) \in Nat /\ Pos(t) \in Nat /\ Chunk(t) \in Int
  BY <1>1, <1>3 DEF Bytes, Pos, Chunk
<1>5. pc[t] \in Between \cup After => Chunk(t) \in Nat \ {0}
  BY <1>1, <1>4 DEF BInv, ThreadOK, RoomOK, Chunk
<1> QED  BY <1>1, <1>2, <1>4, <1>5

(* The form of every step of a call: the calling thread comes out right,   *)
(* and the others have not been touched.                                   *)
LEMMA StepKeeps ==
  ASSUME BInv, TypeOK', NEW t \in Thread, ThreadOK(t)',
         \A u \in Thread \ {t} :
           /\ pc'[u] = pc[u] /\ req'[u] = req[u] /\ buf'[u] = buf[u] /\ last'[u] = last[u]
           /\ pc[u] = "read" => offset' = offset
  PROVE  BInv'
<1>1. ASSUME NEW u \in Thread PROVE ThreadOK(u)'
  <2>1. CASE u = t  BY <2>1
  <2>2. CASE u # t
    <3>1. ThreadOK(u)  BY DEF BInv
    <3> QED  BY <2>2, <3>1, OthersKeep
  <2> QED  BY <2>1, <2>2
<1> QED  BY <1>1 DEF BInv

-----------------------------------------------------------------------------
(* One lemma for each kind of step.                                        *)
LEMMA ReturnKeeps ==
  ASSUME BInv, NEW t \in Thread, pc[t] \in {"call", "loop", "check"},
         NEW result \in Seq(Seq(Nat)), Return(t, result)
  PROVE  BInv'
<1>1. TypeOK'
  <2>1. /\ native' \in BOOLEAN /\ phase' \in {"closed", "opening", "open"}
        /\ blocks' \in Nat /\ offset' \in Nat /\ lock' \in Thread \cup {None}
    BY DEF BInv, TypeOK, Return, filevars
  <2>2. pc' \in [Thread -> {"idle", "call", "loop", "pread", "lock", "seek", "read", "unlock", "check"}]
    BY DEF BInv, TypeOK, Return, Goto
  <2>3. req' \in [Thread -> Requests \cup {NoRequest}] /\ buf' \in [Thread -> Seq(Nat)]
    BY DEF BInv, TypeOK, Return
  <2>4. last' \in [Thread -> [bytes : Seq(Nat), errno : {"0", "EINTR", "EIO"}]]
    BY DEF BInv, TypeOK, Return, Result
  <2>5. signals' \in [Thread -> Nat] /\ answer' \in [Thread -> Seq(Seq(Nat))]
    BY DEF BInv, TypeOK, Return
  <2>6. \A u \in Thread : lock' = u <=> pc'[u] \in {"seek", "read", "unlock"}
    BY DEF BInv, TypeOK, Return, Goto
  <2> QED  BY <2>1, <2>2, <2>3, <2>4, <2>5, <2>6 DEF TypeOK
<1>2. ThreadOK(t)'
  BY DEF BInv, TypeOK, Return, Goto, Result, ThreadOK, CallOK, RoomOK, LastOK, BufferOK, OffsetOK,
         Between, After
<1>3. \A u \in Thread \ {t} :
        /\ pc'[u] = pc[u] /\ req'[u] = req[u] /\ buf'[u] = buf[u] /\ last'[u] = last[u]
        /\ pc[u] = "read" => offset' = offset
  BY DEF BInv, TypeOK, Return, Goto
<1> QED  BY <1>1, <1>2, <1>3, StepKeeps

(* The bytes of the whole blocks of a buffer.                              *)
LEMMA BlockBounds ==
  ASSUME NEW n \in Nat, NEW i \in 1 .. n \div BlockSize
  PROVE  /\ (i - 1) * BlockSize \in Nat
         /\ i * BlockSize = (i - 1) * BlockSize + BlockSize
         /\ i * BlockSize <= n
<1> DEFINE q == n \div BlockSize
<1>1. BlockSize \in Nat /\ BlockSize > 0  BY BlockInputAssumption
<1>2. q \in Nat /\ q * BlockSize <= n  BY <1>1
<1>3. i \in Nat /\ i >= 1 /\ i <= q  BY <1>2
<1> HIDE DEF q
<1>4. (i - 1) * BlockSize \in Nat /\ (q - i) * BlockSize \in Nat
  BY <1>1, <1>2, <1>3
<1>5. i * BlockSize = (i - 1) * BlockSize + BlockSize
  BY <1>1, <1>3
<1>6. i * BlockSize = q * BlockSize - (q - i) * BlockSize
  BY <1>1, <1>2, <1>3
<1>7. i * BlockSize <= n  BY <1>1, <1>2, <1>3, <1>4, <1>6
<1> QED  BY <1>4, <1>5, <1>7

LEMMA BlocksAre ==
  ASSUME NEW bytes \in Seq(Nat)
  PROVE  /\ BlocksOf(bytes) \in Seq(Seq(Nat))
         /\ Len(BlocksOf(bytes)) = Len(bytes) \div BlockSize
         /\ \A i \in 1 .. Len(bytes) \div BlockSize :
              /\ Len(BlocksOf(bytes)[i]) = BlockSize
              /\ \A j \in 1 .. BlockSize : BlocksOf(bytes)[i][j] = bytes[(i - 1) * BlockSize + j]
<1>1. Len(bytes) \in Nat /\ BlockSize \in Nat /\ BlockSize > 0 /\ Len(bytes) \div BlockSize \in Nat
  BY BlockInputAssumption
<1>2. ASSUME NEW i \in 1 .. Len(bytes) \div BlockSize
      PROVE  /\ SubSeq(bytes, (i - 1) * BlockSize + 1, i * BlockSize) \in Seq(Nat)
             /\ Len(SubSeq(bytes, (i - 1) * BlockSize + 1, i * BlockSize)) = BlockSize
             /\ \A j \in 1 .. BlockSize :
                  SubSeq(bytes, (i - 1) * BlockSize + 1, i * BlockSize)[j] = bytes[(i - 1) * BlockSize + j]
  <2> DEFINE a == (i - 1) * BlockSize
             z == i * BlockSize
  <2>1. a \in Nat /\ z = a + BlockSize /\ z <= Len(bytes)  BY <1>1, BlockBounds
  <2> HIDE DEF a, z
  <2>2. /\ SubSeq(bytes, a + 1, z) \in Seq(Nat)
        /\ Len(SubSeq(bytes, a + 1, z)) = BlockSize
        /\ \A j \in 1 .. BlockSize : SubSeq(bytes, a + 1, z)[j] = bytes[a + j]
    BY <1>1, <2>1
  <2> QED  BY <2>2 DEF a, z
<1>3. \A i \in 1 .. Len(bytes) \div BlockSize :
        BlocksOf(bytes)[i] = SubSeq(bytes, (i - 1) * BlockSize + 1, i * BlockSize)
  BY DEF BlocksOf
<1>4. BlocksOf(bytes) \in [1 .. Len(bytes) \div BlockSize -> Seq(Nat)]
  BY <1>2 DEF BlocksOf
<1>5. BlocksOf(bytes) \in Seq(Seq(Nat)) /\ Len(BlocksOf(bytes)) = Len(bytes) \div BlockSize
  BY <1>1, <1>4
<1> QED  BY <1>2, <1>3, <1>5

Owning == {"seek", "read", "unlock"}

(* Steps that move one thread on, with what they change beside.            *)
LEMMA MoveKeeps ==
  ASSUME BInv, NEW t \in Thread,
         NEW label \in {"call", "loop", "check"} \cup Between \cup After,
         Goto(t, label), UNCHANGED filevars,
         offset' \in Nat, lock' \in Thread \cup {None},
         \A u \in Thread : lock' = u <=> pc'[u] \in Owning,
         req' \in [Thread -> Requests \cup {NoRequest}], buf' \in [Thread -> Seq(Nat)],
         last' \in [Thread -> [bytes : Seq(Nat), errno : {"0", "EINTR", "EIO"}]],
         signals' \in [Thread -> Nat], answer' \in [Thread -> Seq(Seq(Nat))],
         ThreadOK(t)',
         \A u \in Thread \ {t} :
           /\ req'[u] = req[u] /\ buf'[u] = buf[u] /\ last'[u] = last[u]
           /\ pc[u] = "read" => offset' = offset
  PROVE  BInv'
<1>1. pc' = [pc EXCEPT ![t] = label] /\ pc \in [Thread -> {"idle", "call", "loop", "pread", "lock",
        "seek", "read", "unlock", "check"}]
  BY DEF BInv, TypeOK, Goto
<1>2. pc' \in [Thread -> {"idle", "call", "loop", "pread", "lock", "seek", "read", "unlock", "check"}]
  BY <1>1 DEF Between, After
<1>3. native' \in BOOLEAN /\ phase' \in {"closed", "opening", "open"} /\ blocks' \in Nat
  BY DEF BInv, TypeOK, filevars
<1>4. TypeOK'  BY <1>2, <1>3 DEF TypeOK, Owning
<1>5. \A u \in Thread \ {t} : pc'[u] = pc[u]  BY <1>1
<1> QED  BY <1>4, <1>5, StepKeeps

(* A step outside the mutex does not concern it.                           *)
LEMMA LockAsBefore ==
  ASSUME BInv, NEW t \in Thread, NEW label, Goto(t, label), lock' = lock,
         pc[t] \in Owning <=> label \in Owning
  PROVE  /\ \A u \in Thread : lock' = u <=> pc'[u] \in Owning
         /\ lock' \in Thread \cup {None}
         /\ pc'[t] = label
BY DEF BInv, TypeOK, Goto, Owning

LEMMA CallKeeps ==
  ASSUME BInv, NEW t \in Thread, Call(t)
  PROVE  BInv'
<1>1. PICK r \in Requests : req' = [req EXCEPT ![t] = r]  BY DEF Call
<1>2. /\ Goto(t, "call") /\ UNCHANGED filevars /\ pc[t] = "idle"
      /\ lock' = lock /\ offset' = offset /\ buf' = buf /\ last' = last /\ signals' = signals
      /\ answer' = [answer EXCEPT ![t] = <<>>]
  BY DEF Call
<1>3. /\ offset' \in Nat /\ buf' \in [Thread -> Seq(Nat)]
      /\ last' \in [Thread -> [bytes : Seq(Nat), errno : {"0", "EINTR", "EIO"}]]
      /\ signals' \in [Thread -> Nat] /\ answer' \in [Thread -> Seq(Seq(Nat))]
  BY <1>2 DEF BInv, TypeOK
<1>4. req' \in [Thread -> Requests \cup {NoRequest}] /\ req'[t] = r
  BY <1>1 DEF BInv, TypeOK
<1>5. \A u \in Thread \ {t} : req'[u] = req[u]  BY <1>1 DEF BInv, TypeOK
<1>6. (\A u \in Thread : lock' = u <=> pc'[u] \in Owning) /\ lock' \in Thread \cup {None} /\ pc'[t] = "call"
  BY <1>2, LockAsBefore DEF Owning
<1>7. buf[t] = <<>>  BY <1>2 DEF BInv, ThreadOK, CallOK
<1>8. ThreadOK(t)'
  BY <1>2, <1>4, <1>6, <1>7 DEF ThreadOK, CallOK, RoomOK, LastOK, BufferOK, OffsetOK, Between, After
<1> QED  BY <1>2, <1>3, <1>4, <1>5, <1>6, <1>8, MoveKeeps

(* Steps that change nothing else.                                         *)
Untouched == UNCHANGED <<filevars, req, buf, signals, answer>>

LEMMA UntouchedTypes ==
  ASSUME BInv, Untouched
  PROVE  /\ UNCHANGED filevars /\ req' = req /\ buf' = buf
         /\ req' \in [Thread -> Requests \cup {NoRequest}] /\ buf' \in [Thread -> Seq(Nat)]
         /\ signals' \in [Thread -> Nat] /\ answer' \in [Thread -> Seq(Seq(Nat))]
         /\ \A u \in Thread : Bytes(u)' = Bytes(u) /\ Pos(u)' = Pos(u) /\ Chunk(u)' = Chunk(u)
BY DEF BInv, TypeOK, Untouched, Bytes, Pos, Chunk

LEMMA JumpKeeps ==
  ASSUME BInv, NEW t \in Thread, NEW label \in {"loop", "pread", "lock", "check"},
         Goto(t, label), Untouched, UNCHANGED <<offset, lock, last>>,
         pc[t] \notin Owning \cup {"idle"},
         CallOK(t)', RoomOK(t)', LastOK(t)'
  PROVE  BInv'
<1>1. offset' = offset /\ lock' = lock /\ last' = last  OBVIOUS
<1>2. offset' \in Nat /\ last' \in [Thread -> [bytes : Seq(Nat), errno : {"0", "EINTR", "EIO"}]]
  BY <1>1 DEF BInv, TypeOK
<1>3. (\A u \in Thread : lock' = u <=> pc'[u] \in Owning) /\ lock' \in Thread \cup {None} /\ pc'[t] = label
  BY <1>1, LockAsBefore DEF Owning
<1>4. BufferOK(t)'
  <2>1. BufferOK(t)  BY DEF BInv, ThreadOK
  <2> QED  BY <2>1, UntouchedTypes DEF BufferOK
<1>5. OffsetOK(t)'  BY <1>3 DEF OffsetOK
<1>6. ThreadOK(t)'  BY <1>4, <1>5 DEF ThreadOK
<1>7. label \in {"call", "loop", "check"} \cup Between \cup After  BY DEF Between
<1> QED  BY <1>1, <1>2, <1>3, <1>6, <1>7, UntouchedTypes, MoveKeeps

LEMMA EnterKeeps ==
  ASSUME BInv, NEW t \in Thread, Enter(t)
  PROVE  BInv'
<1>1. /\ pc[t] = "call" /\ Goto(t, "loop") /\ Untouched /\ UNCHANGED <<offset, lock, last>>
      /\ req[t].n >= 1 /\ req' = req /\ buf' = buf
  BY DEF Enter, Untouched
<1>2. pc'[t] = "loop"  BY <1>1 DEF BInv, TypeOK, Goto
<1>3. req[t] \in Requests /\ buf[t] = <<>>  BY <1>1 DEF BInv, ThreadOK, CallOK
<1>4. CallOK(t)'  BY <1>1, <1>2, <1>3 DEF CallOK
<1>5. req[t].n \in Nat /\ BlockSize \in Nat  BY <1>1, <1>3, BlockInputAssumption
<1>6. Bytes(t) \in Nat  BY <1>5 DEF Bytes
<1>7. RoomOK(t)'
  BY <1>1, <1>2, <1>3, <1>6, UntouchedTypes DEF RoomOK, Between, After
<1>8. LastOK(t)'  BY <1>2 DEF LastOK, After
<1> QED  BY <1>1, <1>4, <1>7, <1>8, JumpKeeps DEF Owning

LEMMA LoopAgainKeeps ==
  ASSUME BInv, NEW t \in Thread, LoopAgain(t)
  PROVE  BInv'
<1> DEFINE label == IF native THEN "pread" ELSE "lock"
<1>1. /\ pc[t] = "loop" /\ Goto(t, label) /\ Untouched /\ UNCHANGED <<offset, lock, last>>
      /\ Len(buf[t]) < Bytes(t) /\ req' = req /\ buf' = buf
  BY DEF LoopAgain, Untouched
<1>2. pc'[t] = label /\ label \in {"pread", "lock"}  BY <1>1 DEF BInv, TypeOK, Goto
<1> HIDE DEF label
<1>3. CallOK(t)'  BY <1>1, <1>2 DEF BInv, ThreadOK, CallOK
<1>4. RoomOK(t)'  BY <1>1, <1>2, UntouchedTypes DEF RoomOK
<1>5. LastOK(t)'  BY <1>2 DEF LastOK, After
<1> QED  BY <1>1, <1>2, <1>3, <1>4, <1>5, JumpKeeps DEF Owning

LEMMA TryAgainKeeps ==
  ASSUME BInv, NEW t \in Thread, TryAgain(t)
  PROVE  BInv'
<1>1. /\ pc[t] = "check" /\ Goto(t, "loop") /\ Untouched /\ UNCHANGED <<offset, lock, last>>
      /\ req' = req /\ buf' = buf
  BY DEF TryAgain, Untouched
<1>2. pc'[t] = "loop"  BY <1>1 DEF BInv, TypeOK, Goto
<1>3. CallOK(t)'  BY <1>1, <1>2 DEF BInv, ThreadOK, CallOK
<1>4. Len(buf[t]) < Bytes(t)  BY <1>1 DEF BInv, ThreadOK, RoomOK, After
<1>5. Len(buf[t]) \in Nat /\ Bytes(t) \in Nat  BY <1>1, CallNumbers
<1>6. RoomOK(t)'  BY <1>1, <1>2, <1>4, <1>5, UntouchedTypes DEF RoomOK, Between, After
<1>7. LastOK(t)'  BY <1>2 DEF LastOK, After
<1> QED  BY <1>1, <1>3, <1>6, <1>7, JumpKeeps DEF Owning

-----------------------------------------------------------------------------
(* The mutex and the offset.                                               *)
LEMMA LockKeeps ==
  ASSUME BInv, NEW t \in Thread, Lock(t)
  PROVE  BInv'
<1>1. /\ pc[t] = "lock" /\ Goto(t, "seek") /\ Untouched /\ UNCHANGED <<offset, last>>
      /\ lock = None /\ lock' = t /\ req' = req /\ buf' = buf
  BY DEF Lock, Free, Untouched
<1>2. offset' \in Nat /\ last' \in [Thread -> [bytes : Seq(Nat), errno : {"0", "EINTR", "EIO"}]]
  BY <1>1 DEF BInv, TypeOK
<1>3. pc' = [pc EXCEPT ![t] = "seek"] /\ pc'[t] = "seek"  BY <1>1 DEF BInv, TypeOK, Goto
<1>4. \A u \in Thread : lock' = u <=> pc'[u] \in Owning
  BY <1>1, <1>3, BlockInputAssumption DEF BInv, TypeOK, Owning
<1>5. CallOK(t)'  BY <1>1, <1>3 DEF BInv, ThreadOK, CallOK
<1>6. RoomOK(t)'
  BY <1>1, <1>3, UntouchedTypes DEF BInv, ThreadOK, RoomOK, Between
<1>7. LastOK(t)' /\ OffsetOK(t)'  BY <1>3 DEF LastOK, After, OffsetOK
<1>8. BufferOK(t)'  BY <1>1 DEF BInv, ThreadOK, BufferOK
<1>9. ThreadOK(t)'  BY <1>5, <1>6, <1>7, <1>8 DEF ThreadOK
<1>10. "seek" \in {"call", "loop", "check"} \cup Between \cup After  BY DEF Between
<1> QED  BY <1>1, <1>2, <1>4, <1>9, <1>10, UntouchedTypes, MoveKeeps

(* The offset is moved by its owner only, so that no other thread is       *)
(* between its seek and its read.                                          *)
LEMMA SeekKeeps ==
  ASSUME BInv, NEW t \in Thread, Seek(t)
  PROVE  BInv'
<1>1. /\ pc[t] = "seek" /\ Goto(t, "read") /\ Untouched /\ lock' = lock /\ last' = last
      /\ offset' = Pos(t) /\ req' = req /\ buf' = buf
  BY DEF Seek, Untouched
<1>2. offset' \in Nat  BY <1>1, CallNumbers
<1>3. last' \in [Thread -> [bytes : Seq(Nat), errno : {"0", "EINTR", "EIO"}]]
  BY <1>1 DEF BInv, TypeOK
<1>4. (\A u \in Thread : lock' = u <=> pc'[u] \in Owning) /\ lock' \in Thread \cup {None} /\ pc'[t] = "read"
  BY <1>1, LockAsBefore DEF Owning
<1>5. CallOK(t)'  BY <1>1, <1>4 DEF BInv, ThreadOK, CallOK
<1>6. RoomOK(t)'
  BY <1>1, <1>4, UntouchedTypes DEF BInv, ThreadOK, RoomOK, Between
<1>7. LastOK(t)'  BY <1>4 DEF LastOK, After
<1>8. OffsetOK(t)'  BY <1>1, UntouchedTypes DEF OffsetOK
<1>9. BufferOK(t)'  BY <1>1 DEF BInv, ThreadOK, BufferOK
<1>10. ThreadOK(t)'  BY <1>5, <1>6, <1>7, <1>8, <1>9 DEF ThreadOK
<1>11. \A u \in Thread \ {t} : pc[u] # "read"  BY <1>1, OwnerOnly
<1>12. "read" \in {"call", "loop", "check"} \cup Between \cup After  BY DEF Between
<1> QED  BY <1>1, <1>2, <1>3, <1>4, <1>10, <1>11, <1>12, UntouchedTypes, MoveKeeps

LEMMA UnlockKeeps ==
  ASSUME BInv, NEW t \in Thread, Unlock(t)
  PROVE  BInv'
<1>1. /\ pc[t] = "unlock" /\ Goto(t, "check") /\ Untouched /\ UNCHANGED <<offset, last>>
      /\ lock' = None /\ req' = req /\ buf' = buf /\ last' = last
  BY DEF Unlock, Untouched
<1>2. offset' \in Nat /\ last' \in [Thread -> [bytes : Seq(Nat), errno : {"0", "EINTR", "EIO"}]]
  BY <1>1 DEF BInv, TypeOK
<1>3. pc' = [pc EXCEPT ![t] = "check"] /\ pc'[t] = "check"  BY <1>1 DEF BInv, TypeOK, Goto
<1>4. \A u \in Thread \ {t} : pc'[u] = pc[u] /\ pc[u] \notin Owning
  BY <1>1, <1>3, OwnerOnly DEF Owning
<1>5. \A u \in Thread : lock' = u <=> pc'[u] \in Owning
  BY <1>1, <1>3, <1>4, BlockInputAssumption DEF Owning
<1>6. CallOK(t)'  BY <1>1, <1>3 DEF BInv, ThreadOK, CallOK
<1>7. RoomOK(t)'
  BY <1>1, <1>3, UntouchedTypes DEF BInv, ThreadOK, RoomOK, After
<1>8. LastOK(t)'
  BY <1>1, <1>3, UntouchedTypes DEF BInv, ThreadOK, LastOK, After
<1>9. OffsetOK(t)'  BY <1>3 DEF OffsetOK
<1>10. BufferOK(t)'  BY <1>1 DEF BInv, ThreadOK, BufferOK
<1>11. ThreadOK(t)'  BY <1>6, <1>7, <1>8, <1>9, <1>10 DEF ThreadOK
<1>12. "check" \in {"call", "loop", "check"} \cup Between \cup After  OBVIOUS
<1> QED  BY <1>1, <1>2, <1>5, <1>11, <1>12, UntouchedTypes, MoveKeeps

-----------------------------------------------------------------------------
(* What reads leave behind.                                                *)
Fits(t, r) ==
  /\ r \in [bytes : Seq(Nat), errno : {"0", "EINTR", "EIO"}]
  /\ Len(r.bytes) <= Chunk(t)
  /\ \A j \in 1 .. Len(r.bytes) : r.bytes[j] = Pos(t) + j - 1

LEMMA GotKeeps ==
  ASSUME BInv, NEW t \in Thread, pc[t] \in Between,
         NEW label \in After, Goto(t, label), pc[t] \in Owning <=> label \in Owning,
         UNCHANGED <<filevars, lock, req, buf, answer>>,
         offset' \in Nat, signals' \in [Thread -> Nat],
         \A u \in Thread \ {t} : pc[u] = "read" => offset' = offset,
         NEW r, last' = [last EXCEPT ![t] = r], Fits(t, r)
  PROVE  BInv'
<1>1. /\ req' = req /\ buf' = buf /\ lock' = lock
      /\ req' \in [Thread -> Requests \cup {NoRequest}] /\ buf' \in [Thread -> Seq(Nat)]
      /\ answer' \in [Thread -> Seq(Seq(Nat))]
      /\ Bytes(t)' = Bytes(t) /\ Pos(t)' = Pos(t) /\ Chunk(t)' = Chunk(t)
  BY DEF BInv, TypeOK, Bytes, Pos, Chunk
<1>2. /\ last' \in [Thread -> [bytes : Seq(Nat), errno : {"0", "EINTR", "EIO"}]]
      /\ last'[t] = r /\ \A u \in Thread \ {t} : last'[u] = last[u]
  BY DEF BInv, TypeOK, Fits
<1>3. (\A u \in Thread : lock' = u <=> pc'[u] \in Owning) /\ lock' \in Thread \cup {None} /\ pc'[t] = label
  BY <1>1, LockAsBefore
<1>4. CallOK(t)'  BY <1>1, <1>3 DEF BInv, ThreadOK, CallOK, Between, After
<1>5. RoomOK(t)'
  <2>1. Len(buf[t]) < Bytes(t)  BY DEF BInv, ThreadOK, RoomOK
  <2> QED  BY <1>1, <1>3, <2>1 DEF RoomOK, After, Between
<1>6. LastOK(t)'  BY <1>1, <1>2 DEF LastOK, Fits
<1>7. OffsetOK(t)'  BY <1>3 DEF OffsetOK, After
<1>8. BufferOK(t)'  BY <1>1 DEF BInv, ThreadOK, BufferOK
<1>9. ThreadOK(t)'  BY <1>4, <1>5, <1>6, <1>7, <1>8 DEF ThreadOK
<1>10. label \in {"call", "loop", "check"} \cup Between \cup After  OBVIOUS
<1>11. UNCHANGED filevars  OBVIOUS
<1> QED  BY <1>1, <1>2, <1>3, <1>9, <1>10, <1>11, MoveKeeps

(* A call that failed has read nothing.                                    *)
LEMMA FailureFits ==
  ASSUME BInv, NEW t \in Thread, pc[t] \in Between, NEW errno \in {"EINTR", "EIO"}
  PROVE  Fits(t, Failed(errno))
<1>1. Chunk(t) \in Nat  BY CallNumbers DEF Between
<1> QED  BY <1>1 DEF Fits, Failed

LEMMA ResultFits ==
  ASSUME BInv, NEW t \in Thread, pc[t] \in Between, NEW r \in Reads(Pos(t), Chunk(t))
  PROVE  Fits(t, r)
<1>1. Chunk(t) \in Nat \ {0} /\ Pos(t) \in Nat  BY CallNumbers DEF Between
<1> QED  BY <1>1, ReadsRight DEF Fits

LEMMA SignalsKeep ==
  ASSUME BInv, NEW t \in Thread
  PROVE  /\ Interrupted(t) =>
              signals' \in [Thread -> Nat] /\ last' = [last EXCEPT ![t] = Failed("EINTR")]
         /\ Errs(t) => signals' \in [Thread -> Nat] /\ last' = [last EXCEPT ![t] = Failed("EIO")]
         /\ UNCHANGED signals => signals' \in [Thread -> Nat]
<1>1. signals \in [Thread -> Nat]  BY DEF BInv, TypeOK
<1> QED  BY <1>1 DEF Interrupted, Errs

LEMMA PreadKeeps ==
  ASSUME BInv, NEW t \in Thread, pread(t)
  PROVE  BInv'
<1>1. /\ pc[t] = "pread" /\ pc[t] \in Between /\ Goto(t, "check") /\ "check" \in After
      /\ pc[t] \in Owning <=> "check" \in Owning
      /\ UNCHANGED <<filevars, lock, req, buf, answer>> /\ offset' = offset
  BY DEF pread, Between, After, Owning
<1>2. offset' \in Nat  BY <1>1 DEF BInv, TypeOK
<1>3. PICK r : last' = [last EXCEPT ![t] = r] /\ Fits(t, r) /\ signals' \in [Thread -> Nat]
  <2>1. CASE Interrupted(t)  BY <1>1, <2>1, SignalsKeep, FailureFits
  <2>2. CASE Errs(t)  BY <1>1, <2>2, SignalsKeep, FailureFits
  <2>3. CASE (\E r \in Reads(Pos(t), Chunk(t)) : last' = [last EXCEPT ![t] = r]) /\ UNCHANGED signals
    BY <1>1, <2>3, SignalsKeep, ResultFits
  <2> QED  BY <2>1, <2>2, <2>3 DEF pread
<1> QED  BY <1>1, <1>2, <1>3, GotKeeps

LEMMA SeekFailsKeeps ==
  ASSUME BInv, NEW t \in Thread, SeekFails(t)
  PROVE  BInv'
<1>1. /\ pc[t] \in Between /\ Goto(t, "unlock") /\ "unlock" \in After
      /\ pc[t] \in Owning <=> "unlock" \in Owning
      /\ UNCHANGED <<filevars, lock, req, buf, answer>> /\ offset' = offset /\ Errs(t)
  BY DEF SeekFails, Between, After, Owning
<1>2. offset' \in Nat  BY <1>1 DEF BInv, TypeOK
<1>3. /\ last' = [last EXCEPT ![t] = Failed("EIO")] /\ signals' \in [Thread -> Nat]
      /\ Fits(t, Failed("EIO"))
  BY <1>1, SignalsKeep, FailureFits
<1> QED  BY <1>1, <1>2, <1>3, GotKeeps

LEMMA ReadKeeps ==
  ASSUME BInv, NEW t \in Thread, Read(t)
  PROVE  BInv'
<1>1. /\ pc[t] = "read" /\ pc[t] \in Between /\ Goto(t, "unlock") /\ "unlock" \in After
      /\ pc[t] \in Owning <=> "unlock" \in Owning
      /\ UNCHANGED <<filevars, lock, req, buf, answer>>
  BY DEF Read, Between, After, Owning
<1>2. \A u \in Thread \ {t} : pc[u] # "read"  BY <1>1, OwnerOnly
<1>3. offset \in Nat /\ offset = Pos(t)  BY <1>1 DEF BInv, TypeOK, ThreadOK, OffsetOK
<1>4. PICK r : /\ last' = [last EXCEPT ![t] = r] /\ Fits(t, r) /\ signals' \in [Thread -> Nat]
               /\ offset' \in Nat
  <2>1. CASE Interrupted(t) /\ UNCHANGED offset  BY <1>1, <1>3, <2>1, SignalsKeep, FailureFits
  <2>2. CASE Errs(t) /\ UNCHANGED offset  BY <1>1, <1>3, <2>2, SignalsKeep, FailureFits
  <2>3. ASSUME NEW r \in Reads(offset, Chunk(t)), last' = [last EXCEPT ![t] = r],
               offset' = offset + Len(r.bytes), UNCHANGED signals
        PROVE  /\ last' = [last EXCEPT ![t] = r] /\ Fits(t, r) /\ signals' \in [Thread -> Nat]
               /\ offset' \in Nat
    <3>1. Fits(t, r)  BY <1>1, <1>3, ResultFits
    <3>2. Len(r.bytes) \in Nat  BY <3>1 DEF Fits
    <3>3. signals' \in [Thread -> Nat]  BY <2>3, SignalsKeep
    <3> QED  BY <1>3, <2>3, <3>1, <3>2, <3>3
  <2> QED  BY <2>1, <2>2, <2>3 DEF Read
<1> QED  BY <1>1, <1>2, <1>4, GotKeeps

-----------------------------------------------------------------------------
(* The end of a pass of the loop, and of a call.                           *)
LEMMA ProgressKeeps ==
  ASSUME BInv, NEW t \in Thread, Progress(t)
  PROVE  BInv'
<1> DEFINE old == buf[t]
           new == last[t].bytes
<1>1. /\ pc[t] = "check" /\ Goto(t, "loop")
      /\ buf' = [buf EXCEPT ![t] = old \o new]
      /\ UNCHANGED <<filevars, offset, lock, req, last, signals, answer>>
      /\ req' = req /\ lock' = lock /\ offset' = offset /\ last' = last
  BY DEF Progress
<1>2. /\ offset' \in Nat /\ req' \in [Thread -> Requests \cup {NoRequest}]
      /\ last' \in [Thread -> [bytes : Seq(Nat), errno : {"0", "EINTR", "EIO"}]]
      /\ signals' \in [Thread -> Nat] /\ answer' \in [Thread -> Seq(Seq(Nat))]
  BY <1>1 DEF BInv, TypeOK
<1>3. /\ old \in Seq(Nat) /\ new \in Seq(Nat) /\ Len(new) <= Chunk(t)
      /\ \A j \in 1 .. Len(new) : new[j] = Pos(t) + j - 1
      /\ \A j \in 1 .. Len(old) : old[j] = req[t].lba * BlockSize + j - 1
  BY <1>1 DEF BInv, TypeOK, ThreadOK, LastOK, BufferOK, After
<1>4. req[t].lba * BlockSize \in Nat /\ Bytes(t) \in Nat /\ Chunk(t) = Bytes(t) - Len(old)
      /\ Pos(t) = req[t].lba * BlockSize + Len(old)
  <2>1. req[t].lba \in Nat /\ BlockSize \in Nat  BY <1>1, CallNumbers, BlockInputAssumption
  <2> QED  BY <1>1, <2>1, CallNumbers DEF Pos, Chunk
<1> DEFINE place == req[t].lba * BlockSize
           all == old \o new
<1>5. /\ all \in Seq(Nat) /\ Len(all) = Len(old) + Len(new)
      /\ \A j \in 1 .. Len(all) : all[j] = IF j <= Len(old) THEN old[j] ELSE new[j - Len(old)]
  <2>1. old \in Seq(Nat) /\ new \in Seq(Nat)  BY <1>3
  <2> HIDE DEF old, new
  <2> QED  BY <2>1, ConcatProperties
<1>6. \A j \in 1 .. Len(all) : all[j] = place + j - 1
  <2> HIDE DEF place, all, old, new
  <2>1. ASSUME NEW j \in 1 .. Len(all) PROVE all[j] = place + j - 1
    <3>1. Len(old) \in Nat /\ Len(new) \in Nat /\ place \in Nat /\ j \in Nat /\ j >= 1 /\ j <= Len(old) + Len(new)
      BY <1>3, <1>4, <1>5 DEF place
    <3>2. CASE j <= Len(old)
      <4>1. j \in 1 .. Len(old)  BY <3>1, <3>2
      <4> QED  BY <1>3, <1>5, <3>2, <4>1 DEF place
    <3>3. CASE ~(j <= Len(old))
      <4>1. j - Len(old) \in 1 .. Len(new)  BY <3>1, <3>3
      <4>2. all[j] = new[j - Len(old)]  BY <1>5, <3>3
      <4>3. new[j - Len(old)] = Pos(t) + (j - Len(old)) - 1  BY <1>3, <4>1
      <4>4. Pos(t) = place + Len(old)  BY <1>4 DEF place
      <4> QED  BY <3>1, <4>2, <4>3, <4>4
    <3> QED  BY <3>2, <3>3
  <2> QED  BY <2>1
<1>7. /\ buf' \in [Thread -> Seq(Nat)] /\ buf'[t] = all
      /\ \A u \in Thread \ {t} : buf'[u] = buf[u]
  BY <1>1, <1>5 DEF BInv, TypeOK
<1>8. (\A u \in Thread : lock' = u <=> pc'[u] \in Owning) /\ lock' \in Thread \cup {None} /\ pc'[t] = "loop"
  BY <1>1, LockAsBefore DEF Owning
<1>9. CallOK(t)'  BY <1>1, <1>8 DEF BInv, ThreadOK, CallOK
<1>10. RoomOK(t)'
  <2>1. Bytes(t)' = Bytes(t)  BY <1>1 DEF Bytes
  <2> HIDE DEF all, old, new
  <2>2. Len(all) <= Bytes(t)
    <3>1. Len(new) <= Chunk(t) /\ Chunk(t) = Bytes(t) - Len(old)  BY <1>3, <1>4
    <3>2. Len(new) \in Nat /\ Len(old) \in Nat /\ Bytes(t) \in Nat  BY <1>3, <1>4
    <3>3. Len(all) = Len(old) + Len(new)  BY <1>5
    <3> QED  BY <3>1, <3>2, <3>3
  <2> QED  BY <1>7, <1>8, <2>1, <2>2 DEF RoomOK, Between, After
<1>11. BufferOK(t)'
  <2> HIDE DEF all
  <2> QED  BY <1>1, <1>6, <1>7 DEF BufferOK
<1>12. LastOK(t)' /\ OffsetOK(t)'  BY <1>8 DEF LastOK, OffsetOK, After
<1>13. ThreadOK(t)'  BY <1>9, <1>10, <1>11, <1>12 DEF ThreadOK
<1>14. UNCHANGED filevars  BY <1>1
<1> HIDE DEF all, old, new, place
<1> QED  BY <1>1, <1>2, <1>7, <1>8, <1>13, <1>14, MoveKeeps

LEMMA NothingKeeps ==
  ASSUME BInv, NEW t \in Thread, Nothing(t)
  PROVE  BInv'
<1>1. pc[t] = "call" /\ Return(t, <<>>) /\ <<>> \in Seq(Seq(Nat))  BY DEF Nothing
<1> QED  BY <1>1, ReturnKeeps

LEMMA LoopEndKeeps ==
  ASSUME BInv, NEW t \in Thread, LoopEnd(t)
  PROVE  BInv'
<1>1. pc[t] = "loop" /\ Return(t, BlocksOf(buf[t]))  BY DEF LoopEnd
<1>2. buf[t] \in Seq(Nat)  BY DEF BInv, TypeOK
<1>3. BlocksOf(buf[t]) \in Seq(Seq(Nat))  BY <1>2, BlocksAre
<1> QED  BY <1>1, <1>3, ReturnKeeps

LEMMA GiveUpKeeps ==
  ASSUME BInv, NEW t \in Thread, GiveUp(t)
  PROVE  BInv'
<1>1. PICK result : /\ pc[t] = "check" /\ Return(t, result)
                    /\ result = <<>> \/ result = BlocksOf(buf[t])
  BY DEF GiveUp
<1>2. buf[t] \in Seq(Nat)  BY DEF BInv, TypeOK
<1>3. <<>> \in Seq(Seq(Nat)) /\ BlocksOf(buf[t]) \in Seq(Seq(Nat))  BY <1>2, BlocksAre
<1>4. result \in Seq(Seq(Nat))  BY <1>1, <1>3
<1> QED  BY <1>1, <1>4, ReturnKeeps

(* Nobody reads before there is an input, and the opener alone before the  *)
(* volume is open: _def_size moves the offset without the mutex.           *)
PhaseOK ==
  /\ phase = "closed" => Quiet
  /\ phase = "opening" => \A u \in Thread \ {Opener} : pc[u] = "idle"

LEMMA FileKeeps ==
  ASSUME BInv, PhaseOK, block_input_new \/ _def_size \/ Opened \/ _def_close
  PROVE  BInv' /\ PhaseOK'
<1>1. /\ UNCHANGED <<native, lock, pc, req, buf, last, signals, answer>>
      /\ phase' \in {"closed", "opening", "open"} /\ blocks' \in Nat /\ offset' \in Nat
  <2>1. CASE block_input_new  BY <2>1 DEF block_input_new, BInv, TypeOK
  <2>2. CASE _def_size
    <3>1. FileSize \div BlockSize \in Nat /\ FileSize \in Nat  BY BlockInputAssumption
    <3> QED  BY <2>2, <3>1 DEF _def_size, BInv, TypeOK
  <2>3. CASE Opened  BY <2>3 DEF Opened, BInv, TypeOK
  <2>4. CASE _def_close  BY <2>4 DEF _def_close, BInv, TypeOK
  <2> QED  BY <2>1, <2>2, <2>3, <2>4
<1>2. TypeOK'  BY <1>1 DEF BInv, TypeOK
<1>3. ASSUME NEW u \in Thread PROVE ThreadOK(u)'
  <2>1. ThreadOK(u)  BY DEF BInv
  <2>2. pc[u] = "read" => offset' = offset
    BY DEF PhaseOK, block_input_new, _def_size, Opened, _def_close, Quiet
  <2> QED  BY <1>1, <2>1, <2>2, OthersKeep
<1>4. PhaseOK'
  BY <1>1 DEF PhaseOK, block_input_new, _def_size, Opened, _def_close, Quiet
<1> QED  BY <1>2, <1>3, <1>4 DEF BInv

LEMMA CallPhase ==
  ASSUME BInv, PhaseOK, NEW t \in Thread, Call(t) \/ Step(t)
  PROVE  PhaseOK'
<1>1. phase' = phase
  BY DEF Call, Step, Nothing, Enter, LoopEnd, LoopAgain, pread, Lock, Seek, SeekFails, Read, Unlock,
         Progress, TryAgain, GiveUp, Return, filevars
<1>2. PICK label : pc' = [pc EXCEPT ![t] = label]
  BY DEF Call, Step, Nothing, Enter, LoopEnd, LoopAgain, pread, Lock, Seek, SeekFails, Read, Unlock,
         Progress, TryAgain, GiveUp, Return, Goto
<1>3. phase = "open" \/ (phase = "opening" /\ t = Opener) \/ pc[t] # "idle"
  BY DEF Call, Step, Nothing, Enter, LoopEnd, LoopAgain, pread, Lock, Seek, SeekFails, Read, Unlock,
         Progress, TryAgain, GiveUp
<1>4. pc \in [Thread -> {"idle", "call", "loop", "pread", "lock", "seek", "read", "unlock", "check"}]
  BY DEF BInv, TypeOK
<1> QED  BY <1>1, <1>2, <1>3, <1>4 DEF PhaseOK, Quiet

LEMMA BInvNext == BInv /\ PhaseOK /\ [Next]_vars => BInv' /\ PhaseOK'
<1> SUFFICES ASSUME BInv, PhaseOK, [Next]_vars PROVE BInv' /\ PhaseOK'  OBVIOUS
<1>1. CASE block_input_new \/ _def_size \/ Opened \/ _def_close  BY <1>1, FileKeeps
<1>2. ASSUME NEW t \in Thread, Call(t) PROVE BInv'  BY <1>2, CallKeeps
<1>3. ASSUME NEW t \in Thread, Step(t) PROVE BInv'
  <2>1. CASE Nothing(t)  BY <2>1, NothingKeeps
  <2>2. CASE Enter(t)  BY <2>2, EnterKeeps
  <2>3. CASE LoopEnd(t)  BY <2>3, LoopEndKeeps
  <2>4. CASE LoopAgain(t)  BY <2>4, LoopAgainKeeps
  <2>5. CASE pread(t)  BY <2>5, PreadKeeps
  <2>6. CASE Lock(t)  BY <2>6, LockKeeps
  <2>7. CASE Seek(t)  BY <2>7, SeekKeeps
  <2>8. CASE SeekFails(t)  BY <2>8, SeekFailsKeeps
  <2>9. CASE Read(t)  BY <2>9, ReadKeeps
  <2>10. CASE Unlock(t)  BY <2>10, UnlockKeeps
  <2>11. CASE Progress(t)  BY <2>11, ProgressKeeps
  <2>12. CASE TryAgain(t)  BY <2>12, TryAgainKeeps
  <2>13. CASE GiveUp(t)  BY <2>13, GiveUpKeeps
  <2> QED  BY <1>3, <2>1, <2>2, <2>3, <2>4, <2>5, <2>6, <2>7, <2>8, <2>9, <2>10, <2>11, <2>12, <2>13
           DEF Step
<1>4. CASE UNCHANGED vars
  <2>1. UNCHANGED <<native, phase, blocks, offset, lock, pc, req, buf, last, signals, answer>>
    BY <1>4 DEF vars, filevars
  <2>2. TypeOK' /\ PhaseOK'  BY <2>1 DEF BInv, TypeOK, PhaseOK, Quiet
  <2>3. \A u \in Thread : ThreadOK(u)'  BY <2>1, OthersKeep DEF BInv
  <2> QED  BY <2>2, <2>3 DEF BInv
<1> QED  BY <1>1, <1>2, <1>3, <1>4, CallPhase DEF Next

LEMMA Invariance == Spec => [](BInv /\ PhaseOK)
<1>1. Init => PhaseOK  BY DEF Init, PhaseOK, Quiet
<1> QED  BY <1>1, BInvInit, BInvNext, PTL DEF Spec

(* Types, and that the mutex is held exactly between Lock and Unlock.      *)
THEOREM TypeCorrect == Spec => []TypeOK
<1>1. BInv => TypeOK  BY DEF BInv
<1> QED  BY <1>1, Invariance, PTL

(* Every read is at its place in the file and in the buffer, whatever the  *)
(* other threads, the signals and the system do.                           *)
THEOREM ReadsInPlace == Spec => []PlaceIsRight
<1>1. BInv => PlaceIsRight
  <2> SUFFICES ASSUME BInv, NEW t \in Thread
               PROVE  /\ pc[t] = "read" => offset = Pos(t)
                      /\ \A j \in DOMAIN buf[t] : buf[t][j] = req[t].lba * BlockSize + j - 1
                      /\ pc[t] = "loop" => Len(buf[t]) <= Bytes(t)
                      /\ pc[t] = "check" => Len(buf[t]) + Len(last[t].bytes) <= Bytes(t)
    BY DEF PlaceIsRight
  <2>1. ThreadOK(t) /\ buf[t] \in Seq(Nat) /\ last[t].bytes \in Seq(Nat)  BY DEF BInv, TypeOK
  <2>2. \A j \in DOMAIN buf[t] : buf[t][j] = req[t].lba * BlockSize + j - 1
    BY <2>1 DEF ThreadOK, BufferOK
  <2>3. ASSUME pc[t] = "check" PROVE Len(buf[t]) + Len(last[t].bytes) <= Bytes(t)
    <3>1. Bytes(t) \in Nat  BY <2>3, CallNumbers
    <3>2. Len(last[t].bytes) <= Bytes(t) - Len(buf[t])
      BY <2>1, <2>3 DEF ThreadOK, LastOK, After, Chunk
    <3>3. Len(last[t].bytes) \in Nat /\ Len(buf[t]) \in Nat  BY <2>1
    <3>4. \A a, b, c \in Nat : a <= c - b => b + a <= c  OBVIOUS
    <3> QED  BY <3>1, <3>2, <3>3, <3>4
  <2> QED  BY <2>1, <2>2, <2>3 DEF ThreadOK, OffsetOK, RoomOK
<1> QED  BY <1>1, Invariance, PTL

-----------------------------------------------------------------------------
(* The block input is a BlockDevice.                                       *)

(* What a call knows of the end of the file and of errors: it is behind    *)
(* the end only without a byte, an empty result says that the end is       *)
(* reached, and an error is not forgotten before the call gives up.        *)
EndOK(t) ==
  /\ pc[t] \notin After => last[t].errno # "EIO"
  /\ buf[t] # <<>> => Pos(t) <= FileSize
  /\ pc[t] \in After =>
       /\ last[t] = Result(<<>>) => Pos(t) >= FileSize
       /\ last[t].bytes # <<>> => last[t].errno = "0" /\ Pos(t) + Len(last[t].bytes) <= FileSize
EndInv == \A t \in Thread : pc[t] # "idle" => EndOK(t)
NoError == \A t \in Thread : pc[t] = "idle" => last[t] = Result(<<>>)
RInv == BInv /\ PhaseOK /\ EndInv /\ NoError

(* A step of one thread leaves the variables of the others alone.          *)
LEMMA OthersSame ==
  ASSUME BInv, NEW t \in Thread, Call(t) \/ Step(t), NEW u \in Thread, u # t
  PROVE  /\ pc'[u] = pc[u] /\ req'[u] = req[u] /\ buf'[u] = buf[u] /\ last'[u] = last[u]
         /\ answer'[u] = answer[u]
<1>1. /\ pc' = pc \/ \E v : pc' = [pc EXCEPT ![t] = v]
      /\ req' = req \/ \E v : req' = [req EXCEPT ![t] = v]
      /\ buf' = buf \/ \E v : buf' = [buf EXCEPT ![t] = v]
      /\ last' = last \/ \E v : last' = [last EXCEPT ![t] = v]
      /\ answer' = answer \/ \E v : answer' = [answer EXCEPT ![t] = v]
  BY DEF Call, Step, Nothing, Enter, LoopEnd, LoopAgain, pread, Lock, Seek, SeekFails, Read, Unlock,
         Progress, TryAgain, GiveUp, Return, Goto, Interrupted, Errs
<1>2. /\ pc \in [Thread -> {"idle", "call", "loop", "pread", "lock", "seek", "read", "unlock", "check"}]
      /\ req \in [Thread -> Requests \cup {NoRequest}] /\ buf \in [Thread -> Seq(Nat)]
      /\ last \in [Thread -> [bytes : Seq(Nat), errno : {"0", "EINTR", "EIO"}]]
      /\ answer \in [Thread -> Seq(Seq(Nat))]
  BY DEF BInv, TypeOK
<1> QED  BY <1>1, <1>2

LEMMA ReadsEnd ==
  ASSUME NEW place \in Nat, NEW count \in Nat \ {0}, NEW r \in Reads(place, count)
  PROVE  /\ r.errno = "0"
         /\ r = Result(<<>>) => place >= FileSize
         /\ r.bytes # <<>> => place + Len(r.bytes) <= FileSize
<1>1. CASE place >= FileSize
  BY <1>1 DEF Reads, Result
<1>2. CASE ~(place >= FileSize)
  <2>1. PICK k \in 1 .. Min({count, FileSize - place}) : r = Result(FromFile(place, k))
    BY <1>2 DEF Reads
  <2>2. Min({count, FileSize - place}) \in Nat /\ Min({count, FileSize - place}) <= FileSize - place
    BY <1>2, BlockInputAssumption DEF Min
  <2>3. k \in Nat /\ k >= 1 /\ place + k <= FileSize
    BY <2>1, <2>2, BlockInputAssumption
  <2>4. r.bytes = FromFile(place, k) /\ r.errno = "0"  BY <2>1 DEF Result
  <2>5. FromFile(place, k) \in Seq(Nat) /\ Len(FromFile(place, k)) = k  BY <2>3 DEF FromFile
  <2>6. r # Result(<<>>)  BY <2>3, <2>4, <2>5 DEF Result
  <2> QED  BY <2>3, <2>4, <2>5, <2>6
<1> QED  BY <1>1, <1>2

(* What a read leaves behind.                                              *)
LEMMA GotEnd ==
  ASSUME RInv, NEW t \in Thread, pc[t] \in Between, EndOK(t), pc'[t] \in After,
         UNCHANGED <<req, buf>>,
         \/ Interrupted(t) \/ Errs(t)
         \/ \E r \in Reads(Pos(t), Chunk(t)) : last' = [last EXCEPT ![t] = r]
  PROVE  EndOK(t)'
<1>1. Pos(t)' = Pos(t) /\ buf' = buf  BY DEF Pos
<1>2. last \in [Thread -> [bytes : Seq(Nat), errno : {"0", "EINTR", "EIO"}]]
  BY DEF RInv, BInv, TypeOK
<1>3. CASE Interrupted(t) \/ Errs(t)
  <2>1. last'[t] = Failed("EINTR") \/ last'[t] = Failed("EIO")
    BY <1>2, <1>3 DEF Interrupted, Errs
  <2>2. last'[t] # Result(<<>>) /\ last'[t].bytes = <<>>
    BY <2>1 DEF Failed, Result
  <2> QED  BY <1>1, <2>2 DEF EndOK
<1>4. ASSUME NEW r \in Reads(Pos(t), Chunk(t)), last' = [last EXCEPT ![t] = r]
      PROVE  EndOK(t)'
  <2>1. last'[t] = r  BY <1>2, <1>4
  <2>2. Pos(t) \in Nat /\ Chunk(t) \in Nat \ {0}
    BY CallNumbers DEF RInv, Between
  <2>3. /\ r = Result(<<>>) => Pos(t) >= FileSize
        /\ r.bytes # <<>> => r.errno = "0" /\ Pos(t) + Len(r.bytes) <= FileSize
    BY <1>4, <2>2, ReadsEnd
  <2> QED  BY <1>1, <2>1, <2>3 DEF EndOK
<1> QED  BY <1>3, <1>4

(* A step of a call keeps what it knows of the end; a return leaves the    *)
(* thread without an error.                                                *)
LEMMA EndStep ==
  ASSUME RInv, NEW t \in Thread, Call(t) \/ Step(t)
  PROVE  /\ pc'[t] # "idle" => EndOK(t)'
         /\ pc'[t] = "idle" => last'[t] = Result(<<>>)
<1> DEFINE Goal == /\ pc'[t] # "idle" => EndOK(t)'
                   /\ pc'[t] = "idle" => last'[t] = Result(<<>>)
<1>0. /\ pc \in [Thread -> {"idle", "call", "loop", "pread", "lock", "seek", "read", "unlock", "check"}]
      /\ last \in [Thread -> [bytes : Seq(Nat), errno : {"0", "EINTR", "EIO"}]]
      /\ buf \in [Thread -> Seq(Nat)]
  BY DEF RInv, BInv, TypeOK
<1>1. pc[t] # "idle" => EndOK(t)  BY DEF RInv, EndInv
<1>2. CASE Call(t)
  <2>1. pc[t] = "idle" /\ pc'[t] = "call" /\ UNCHANGED <<buf, last>>
    BY <1>0, <1>2 DEF Call, Goto
  <2>2. buf'[t] = <<>>  BY <2>1 DEF RInv, BInv, ThreadOK, CallOK
  <2>3. last'[t].errno # "EIO"  BY <2>1 DEF RInv, NoError, Result
  <2> QED  BY <2>1, <2>2, <2>3 DEF EndOK, After
<1>3. CASE \E result : Return(t, result)
  BY <1>0, <1>3 DEF Return, Goto
<1>4. CASE Enter(t) \/ LoopAgain(t) \/ Lock(t) \/ Seek(t) \/ TryAgain(t)
  <2>1. /\ pc'[t] \in {"loop", "pread", "lock", "seek", "read"} /\ UNCHANGED <<req, buf, last>>
        /\ pc[t] # "idle"
        /\ pc[t] \in After => ~Ends(t)
    BY <1>0, <1>4 DEF Enter, LoopAgain, Lock, Seek, TryAgain, Goto, After
  <2>2. last'[t].errno # "EIO"
    BY <1>1, <2>1 DEF EndOK, Ends
  <2>3. Pos(t)' = Pos(t)  BY <2>1 DEF Pos
  <2> QED  BY <1>1, <2>1, <2>2, <2>3 DEF EndOK, After
<1>5. CASE pread(t) \/ SeekFails(t) \/ Read(t)
  <2>1. /\ pc[t] \in Between /\ pc'[t] \in After /\ UNCHANGED <<req, buf>> /\ pc[t] # "idle"
    BY <1>0, <1>5 DEF pread, SeekFails, Read, Goto, Between, After
  <2>2. \/ Interrupted(t) \/ Errs(t)
        \/ \E r \in Reads(Pos(t), Chunk(t)) : last' = [last EXCEPT ![t] = r]
    <3>1. pc[t] = "read" => offset = Pos(t)  BY DEF RInv, BInv, ThreadOK, OffsetOK
    <3> QED  BY <1>5, <3>1 DEF pread, SeekFails, Read
  <2>3. EndOK(t)'  BY <1>1, <2>1, <2>2, GotEnd
  <2> QED  BY <2>1, <2>3 DEF After
<1>6. CASE Unlock(t)
  <2>1. pc[t] \in After /\ pc'[t] \in After /\ UNCHANGED <<req, buf, last>> /\ pc[t] # "idle"
    BY <1>0, <1>6 DEF Unlock, Goto, After
  <2>2. Pos(t)' = Pos(t)  BY <2>1 DEF Pos
  <2> QED  BY <1>1, <2>1, <2>2 DEF EndOK, After
<1>7. CASE Progress(t)
  <2> DEFINE old == buf[t]
             new == last[t].bytes
  <2>1. /\ pc[t] = "check" /\ pc[t] \in After /\ pc'[t] = "loop" /\ UNCHANGED <<req, last>>
        /\ last[t].errno = "0" /\ new # <<>> /\ buf'[t] = old \o new
    BY <1>0, <1>7 DEF Progress, Goto, After
  <2>2. Pos(t) + Len(new) <= FileSize  BY <1>1, <2>1 DEF EndOK
  <2>3. req[t].lba * BlockSize \in Nat
    <3>1. req[t].lba \in Nat  BY <2>1, CallNumbers DEF RInv
    <3> QED  BY <3>1, BlockInputAssumption
  <2>4. old \in Seq(Nat) /\ new \in Seq(Nat)  BY <1>0
  <2>5. Len(old \o new) = Len(old) + Len(new)
    <3> HIDE DEF old, new
    <3> QED  BY <2>4, ConcatProperties
  <2>6. Pos(t)' = Pos(t) + Len(new)
    <3>1. Pos(t)' = req[t].lba * BlockSize + Len(old \o new)  BY <2>1 DEF Pos
    <3>2. Pos(t) = req[t].lba * BlockSize + Len(old)  BY DEF Pos
    <3>3. Len(old) \in Nat /\ Len(new) \in Nat  BY <2>4
    <3> HIDE DEF old, new
    <3> QED  BY <2>3, <2>5, <3>1, <3>2, <3>3
  <2> QED  BY <2>1, <2>2, <2>6 DEF EndOK, After
<1> QED
  BY <1>2, <1>3, <1>4, <1>5, <1>6, <1>7 DEF Step, Nothing, LoopEnd, GiveUp

LEMMA RInvNext == RInv /\ [Next]_vars => RInv'
<1> SUFFICES ASSUME RInv, [Next]_vars PROVE RInv'  OBVIOUS
<1>1. BInv' /\ PhaseOK'  BY BInvNext DEF RInv
<1>2. ASSUME NEW u \in Thread, pc'[u] = pc[u], req'[u] = req[u], buf'[u] = buf[u], last'[u] = last[u]
      PROVE  /\ pc'[u] # "idle" => EndOK(u)'
             /\ pc'[u] = "idle" => last'[u] = Result(<<>>)
  BY <1>2 DEF RInv, EndInv, NoError, EndOK, Pos
<1>3. ASSUME NEW t \in Thread, Call(t) \/ Step(t), NEW u \in Thread
      PROVE  /\ pc'[u] # "idle" => EndOK(u)'
             /\ pc'[u] = "idle" => last'[u] = Result(<<>>)
  <2>1. CASE u = t  BY <1>3, <2>1, EndStep
  <2>2. CASE u # t
    <3>1. pc'[u] = pc[u] /\ req'[u] = req[u] /\ buf'[u] = buf[u] /\ last'[u] = last[u]
      BY <1>3, <2>2, OthersSame DEF RInv
    <3> QED  BY <1>2, <3>1
  <2> QED  BY <2>1, <2>2
<1>4. CASE \/ block_input_new \/ _def_size \/ Opened \/ _def_close \/ UNCHANGED vars
  <2>1. UNCHANGED <<pc, req, buf, last>>
    BY <1>4 DEF block_input_new, _def_size, Opened, _def_close, vars
  <2> QED  BY <1>1, <1>2, <2>1 DEF RInv, EndInv, NoError
<1> QED  BY <1>1, <1>3, <1>4 DEF Next, RInv, EndInv, NoError

(* The blocks of the medium, as the mapping has them.                      *)
NumBlocks == FileSize \div BlockSize
Medium == [b \in 1 .. NumBlocks |-> FromFile((b - 1) * BlockSize, BlockSize)]

LEMMA Quotient ==
  ASSUME NEW n \in Nat, NEW b \in Nat, b > 0
  PROVE  n \div b \in Nat /\ (n \div b) * b <= n /\ n < (n \div b + 1) * b
OBVIOUS

LEMMA FewerBlocks ==
  ASSUME NEW k \in Nat, NEW n \in Nat, NEW l \in Nat, NEW b \in Nat, k * b <= l, l < n * b
  PROVE  k < n
<1> SUFFICES ASSUME k >= n PROVE FALSE  OBVIOUS
<1>1. PICK d \in Nat : k = n + d
  <2>1. k - n \in Nat /\ k = n + (k - n)  OBVIOUS
  <2> QED  BY <2>1
<1>2. k * b = n * b + d * b /\ d * b \in Nat /\ n * b \in Nat  BY <1>1
<1> QED  BY <1>2

LEMMA MediumIs ==
  /\ NumBlocks \in Nat /\ NumBlocks * BlockSize <= FileSize
  /\ \A n \in Nat : n * BlockSize <= FileSize => n <= NumBlocks
  /\ Medium \in Seq(Seq(Nat)) /\ Len(Medium) = NumBlocks
<1>1. FileSize \in Nat /\ BlockSize \in Nat /\ BlockSize > 0  BY BlockInputAssumption
<1>2. NumBlocks \in Nat /\ NumBlocks * BlockSize <= FileSize /\ FileSize < (NumBlocks + 1) * BlockSize
  BY <1>1 DEF NumBlocks
<1>3. ASSUME NEW n \in Nat, n * BlockSize <= FileSize PROVE n <= NumBlocks
  <2> SUFFICES ASSUME n > NumBlocks PROVE FALSE  BY <1>2
  <2>1. PICK d \in Nat : n = (NumBlocks + 1) + d
    <3>1. n - (NumBlocks + 1) \in Nat  BY <1>2
    <3> QED  BY <1>2, <3>1
  <2>2. n * BlockSize = (NumBlocks + 1) * BlockSize + d * BlockSize /\ d * BlockSize \in Nat
    BY <1>1, <1>2, <2>1
  <2> QED  BY <1>1, <1>2, <1>3, <2>2
<1>4. ASSUME NEW b \in 1 .. NumBlocks PROVE FromFile((b - 1) * BlockSize, BlockSize) \in Seq(Nat)
  <2>1. b - 1 \in Nat  BY <1>2
  <2>2. (b - 1) * BlockSize \in Nat  BY <1>1, <2>1
  <2> QED  BY <1>1, <2>2 DEF FromFile
<1>5. Medium \in [1 .. NumBlocks -> Seq(Nat)]  BY <1>4 DEF Medium
<1>6. Medium \in Seq(Seq(Nat)) /\ Len(Medium) = NumBlocks  BY <1>2, <1>5
<1> QED  BY <1>2, <1>3, <1>6

(* The number of blocks a request can get.                                 *)
LEMMA ThereIs ==
  ASSUME NEW r, r.lba \in Nat, r.n \in Int
  PROVE  Device!There(r) = IF r.n < 1 \/ r.lba >= NumBlocks THEN 0
                           ELSE IF r.n <= NumBlocks - r.lba THEN r.n ELSE NumBlocks - r.lba
<1> DEFINE m == Len(Medium) - r.lba
<1>1. Device!There(r) = Device!Max({0, Device!Min({r.n, m})})
  BY DEF Device!There, Medium, NumBlocks
<1>2. m = NumBlocks - r.lba /\ m \in Int  BY MediumIs
<1> HIDE DEF m
<1>3. Device!Min({r.n, m}) = IF r.n <= m THEN r.n ELSE m
  BY <1>2 DEF Device!Min
<1>4. \A x \in Int : Device!Max({0, x}) = IF x >= 0 THEN x ELSE 0
  BY DEF Device!Max
<1>5. NumBlocks \in Nat  BY MediumIs
<1>6. Device!There(r) = LET x == IF r.n <= m THEN r.n ELSE m IN IF x >= 0 THEN x ELSE 0
  BY <1>1, <1>2, <1>3, <1>4
<1> QED  BY <1>2, <1>5, <1>6

(* The whole blocks that a call has got are those of the medium.           *)
LEMMA GotBlocks ==
  ASSUME RInv, NEW t \in Thread, pc[t] \notin {"idle", "call"}
  PROVE  LET k == Len(buf[t]) \div BlockSize
             lba == req[t].lba
         IN /\ k \in Nat
            /\ k > 0 => lba + k <= NumBlocks
            /\ BlocksOf(buf[t]) = SubSeq(Medium, lba + 1, lba + k)
<1> DEFINE k == Len(buf[t]) \div BlockSize
           lba == req[t].lba
<1>1. /\ lba \in Nat /\ buf[t] \in Seq(Nat) /\ Len(buf[t]) \in Nat
      /\ BlockSize \in Nat /\ BlockSize > 0 /\ FileSize \in Nat
  BY CallNumbers, BlockInputAssumption DEF RInv
<1>2. k \in Nat /\ k * BlockSize <= Len(buf[t])  BY <1>1, Quotient
<1>3. ASSUME k > 0 PROVE lba + k <= NumBlocks
  <2>1. BlockSize <= k * BlockSize
    <3> HIDE DEF k
    <3>1. k - 1 \in Nat /\ k * BlockSize = (k - 1) * BlockSize + BlockSize  BY <1>1, <1>2, <1>3
    <3>2. (k - 1) * BlockSize \in Nat  BY <1>1, <3>1
    <3> QED  BY <1>1, <3>1, <3>2
  <2>2. Len(buf[t]) > 0
    <3> HIDE DEF k
    <3>1. k * BlockSize \in Nat  BY <1>1, <1>2
    <3> QED  BY <1>1, <1>2, <2>1, <3>1
  <2>3. Pos(t) <= FileSize  BY <2>2 DEF RInv, EndInv, EndOK
  <2>4. lba * BlockSize \in Nat /\ lba * BlockSize + Len(buf[t]) <= FileSize  BY <1>1, <2>3 DEF Pos
  <2>5. (lba + k) * BlockSize = lba * BlockSize + k * BlockSize
    <3> HIDE DEF k, lba
    <3> QED  BY <1>1, <1>2
  <2>6. (lba + k) * BlockSize <= FileSize
    <3> HIDE DEF k, lba
    <3>1. k * BlockSize \in Nat  BY <1>1, <1>2
    <3>2. \A x, y, z, f \in Int : y <= z /\ x + z <= f => x + y <= f  OBVIOUS
    <3> DEFINE x == lba * BlockSize
               y == k * BlockSize
    <3>3. x \in Nat /\ y \in Nat /\ y <= Len(buf[t]) /\ x + Len(buf[t]) <= FileSize
      BY <1>2, <2>4, <3>1
    <3>4. x + y <= FileSize
      <4> HIDE DEF x, y
      <4> QED  BY <1>1, <3>2, <3>3
    <3> QED  BY <2>5, <3>4
  <2>7. lba + k \in Nat
    <3> HIDE DEF k, lba
    <3> QED  BY <1>1, <1>2
  <2> QED  BY <2>6, <2>7, MediumIs
<1>4. /\ Len(BlocksOf(buf[t])) = k /\ BlocksOf(buf[t]) \in Seq(Seq(Nat))
      /\ \A i \in 1 .. k :
           /\ Len(BlocksOf(buf[t])[i]) = BlockSize
           /\ \A j \in 1 .. BlockSize : BlocksOf(buf[t])[i][j] = buf[t][(i - 1) * BlockSize + j]
  BY <1>1, BlocksAre
<1>5. /\ SubSeq(Medium, lba + 1, lba + k) \in Seq(Seq(Nat))
      /\ Len(SubSeq(Medium, lba + 1, lba + k)) = k
      /\ \A i \in 1 .. k : SubSeq(Medium, lba + 1, lba + k)[i] = Medium[lba + i]
  <2> HIDE DEF k, lba
  <2> QED  BY <1>1, <1>2, <1>3, MediumIs
<1>6. ASSUME NEW i \in 1 .. k PROVE BlocksOf(buf[t])[i] = Medium[lba + i]
  <2> DEFINE a == (i - 1) * BlockSize
             p == lba * BlockSize
  <2>1. a \in Nat /\ i * BlockSize = a + BlockSize /\ i * BlockSize <= Len(buf[t])
    BY <1>1, BlockBounds
  <2>2. i \in Nat /\ i >= 1 /\ i <= k /\ lba + i \in 1 .. NumBlocks
    <3> HIDE DEF k, lba
    <3> QED  BY <1>1, <1>2, <1>3, MediumIs
  <2>3. p \in Nat  BY <1>1
  <2>4. ((lba + i) - 1) * BlockSize = p + a
    <3> HIDE DEF k, lba
    <3>1. \A x, y, z \in Int : ((x + y) - 1) * z = x * z + (y - 1) * z  OBVIOUS
    <3>2. lba \in Int /\ i \in Int /\ BlockSize \in Int  BY <1>1, <2>2
    <3>3. ((lba + i) - 1) * BlockSize = lba * BlockSize + (i - 1) * BlockSize  BY <3>1, <3>2
    <3> QED  BY <3>3
  <2> HIDE DEF a, p, k, lba
  <2>5. Medium[lba + i] = FromFile(p + a, BlockSize)
    <3>1. \A q \in 1 .. NumBlocks : Medium[q] = FromFile((q - 1) * BlockSize, BlockSize)
      BY Zenon DEF Medium
    <3>2. Medium[lba + i] = FromFile(((lba + i) - 1) * BlockSize, BlockSize)  BY <2>2, <3>1, Zenon
    <3> QED  BY <2>4, <3>2, Zenon
  <2>6. FromFile(p + a, BlockSize) = [j \in 1 .. BlockSize |-> p + a + j - 1]
    BY DEF FromFile
  <2>7. ASSUME NEW j \in 1 .. BlockSize PROVE buf[t][a + j] = p + a + j - 1
    <3>1. a + j \in 1 .. Len(buf[t])  BY <1>1, <2>1, <2>3
    <3>2. buf[t][a + j] = p + (a + j) - 1  BY <3>1 DEF RInv, BInv, ThreadOK, BufferOK, p, lba
    <3> QED  BY <1>1, <2>1, <2>3, <3>2
  <2>8. /\ BlocksOf(buf[t])[i] \in Seq(Nat) /\ Len(BlocksOf(buf[t])[i]) = BlockSize
        /\ \A j \in 1 .. BlockSize : BlocksOf(buf[t])[i][j] = p + a + j - 1
    BY <1>4, <2>2, <2>7 DEF a
  <2> QED  BY <1>1, <2>5, <2>6, <2>8
<1>7. BlocksOf(buf[t]) = SubSeq(Medium, lba + 1, lba + k)
  <2> HIDE DEF k, lba
  <2>1. ASSUME NEW s \in Seq(Seq(Nat)), NEW z \in Seq(Seq(Nat)), Len(s) = k, Len(z) = k,
               \A i \in 1 .. k : s[i] = z[i]
        PROVE  s = z
    BY <2>1
  <2>2. \A i \in 1 .. k : BlocksOf(buf[t])[i] = SubSeq(Medium, lba + 1, lba + k)[i]
    BY <1>5, <1>6
  <2> QED  BY <1>4, <1>5, <2>1, <2>2
<1> QED  BY <1>2, <1>3, <1>7

Broken == [t \in Thread |-> last[t].errno = "EIO"]

(* What each action of the device is under the mapping.                    *)
LEMMA DeviceActions ==
  ASSUME NEW t \in Thread
  PROVE  /\ Device!Ask(t) <=> /\ req[t] = NoRequest
                              /\ \E r \in Requests : req' = [req EXCEPT ![t] = r]
                              /\ answer' = [answer EXCEPT ![t] = <<>>]
                              /\ Broken' = Broken
         /\ Device!Break(t) <=> /\ req[t] # NoRequest
                                /\ Broken' = [Broken EXCEPT ![t] = TRUE]
                                /\ req' = req /\ answer' = answer
         /\ Device!Answer(t) <=>
              /\ req[t] # NoRequest
              /\ \E k \in 0 .. Device!There(req[t]) :
                   /\ k = Device!There(req[t]) \/ Broken[t]
                   /\ answer' = [answer EXCEPT
                        ![t] = SubSeq(Medium, req[t].lba + 1, req[t].lba + k)]
              /\ req' = [req EXCEPT ![t] = NoRequest]
              /\ Broken' = [Broken EXCEPT ![t] = FALSE]
BY Zenon DEF Device!Ask, Device!Break, Device!Answer, Broken, Medium, NumBlocks

LEMMA StartsAsDevice == Init => Device!Init
<1> SUFFICES ASSUME Init PROVE Device!Init  OBVIOUS
<1>1. \A t \in Thread : (last[t].errno = "EIO") = FALSE  BY DEF Init, Result
<1>2. [t \in Thread |-> last[t].errno = "EIO"] = [t \in Thread |-> FALSE]  BY <1>1
<1> QED  BY <1>2 DEF Init, Device!Init

(* A call that returns what it has answers like the device: with all there *)
(* is, or with less of it after an error.                                  *)
LEMMA ReturnAnswers ==
  ASSUME RInv, NEW t \in Thread, pc[t] # "idle",
         NEW k \in 0 .. Device!There(req[t]), k = Device!There(req[t]) \/ Broken[t],
         NEW result, result = SubSeq(Medium, req[t].lba + 1, req[t].lba + k), Return(t, result)
  PROVE  Device!Answer(t)
<1>1. req[t] \in Requests  BY DEF RInv, BInv, ThreadOK, CallOK
<1>2. req[t] # NoRequest  BY <1>1, BlockInputAssumption
<1>3. Broken' = [Broken EXCEPT ![t] = FALSE]
  <2>1. last' = [last EXCEPT ![t] = Result(<<>>)]  BY DEF Return
  <2>2. last \in [Thread -> [bytes : Seq(Nat), errno : {"0", "EINTR", "EIO"}]]
    BY DEF RInv, BInv, TypeOK
  <2>3. \A u \in Thread : (last'[u].errno = "EIO") = (u # t /\ last[u].errno = "EIO")
    BY <2>1, <2>2 DEF Result
  <2> QED  BY <2>3 DEF Broken
<1>4. /\ answer' = [answer EXCEPT ![t] = SubSeq(Medium, req[t].lba + 1, req[t].lba + k)]
      /\ req' = [req EXCEPT ![t] = NoRequest]
  BY DEF Return
<1> QED  BY <1>2, <1>3, <1>4, DeviceActions

LEMMA NothingAnswers ==
  ASSUME RInv, NEW t \in Thread, Nothing(t)
  PROVE  Device!Answer(t)
<1>1. pc[t] = "call" /\ req[t].n < 1 /\ Return(t, <<>>)  BY DEF Nothing
<1>2. req[t] \in Requests  BY <1>1 DEF RInv, BInv, ThreadOK, CallOK
<1>3. req[t].lba \in Nat /\ req[t].n \in Int  BY <1>2, BlockInputAssumption
<1>4. Device!There(req[t]) = 0  BY <1>1, <1>3, ThereIs
<1>5. <<>> = SubSeq(Medium, req[t].lba + 1, req[t].lba + 0)  BY <1>3, MediumIs
<1>6. 0 \in 0 .. Device!There(req[t])  BY <1>4
<1> QED  BY <1>1, <1>4, <1>5, <1>6, ReturnAnswers

(* Everything that was asked for.                                          *)
LEMMA LoopEndAnswers ==
  ASSUME RInv, NEW t \in Thread, LoopEnd(t)
  PROVE  Device!Answer(t)
<1> DEFINE k == Len(buf[t]) \div BlockSize
           lba == req[t].lba
           n == req[t].n
<1>1. pc[t] = "loop" /\ Len(buf[t]) >= Bytes(t) /\ Return(t, BlocksOf(buf[t]))  BY DEF LoopEnd
<1>2. /\ lba \in Nat /\ n \in Nat /\ n >= 1 /\ Len(buf[t]) \in Nat /\ Bytes(t) \in Nat
      /\ Len(buf[t]) <= Bytes(t)
  BY <1>1, CallNumbers DEF RInv, BInv, ThreadOK, CallOK, RoomOK
<1>3. Len(buf[t]) = n * BlockSize  BY <1>1, <1>2 DEF Bytes
<1>4. k = n
  <2>1. \A b \in Nat \ {0}, x \in Nat : (x * b) \div b = x  OBVIOUS
  <2> QED  BY <1>2, <1>3, <2>1, BlockInputAssumption
<1>5. /\ k > 0 => lba + k <= NumBlocks
      /\ BlocksOf(buf[t]) = SubSeq(Medium, lba + 1, lba + k)
  BY <1>1, GotBlocks
<1> HIDE DEF k
<1>6. Device!There(req[t]) = n
  <2>1. Device!There(req[t]) = IF n < 1 \/ lba >= NumBlocks THEN 0
                               ELSE IF n <= NumBlocks - lba THEN n ELSE NumBlocks - lba
    BY <1>2, ThereIs
  <2>2. NumBlocks \in Nat  BY MediumIs
  <2> HIDE DEF lba, n
  <2> QED  BY <1>2, <1>4, <1>5, <2>1, <2>2
<1>7. n \in 0 .. Device!There(req[t])  BY <1>2, <1>6
<1>8. BlocksOf(buf[t]) = SubSeq(Medium, req[t].lba + 1, req[t].lba + n)  BY <1>4, <1>5
<1> HIDE DEF n
<1> QED  BY <1>1, <1>6, <1>7, <1>8, ReturnAnswers

(* The end of the file or an error.                                        *)
LEMMA GiveUpAnswers ==
  ASSUME RInv, NEW t \in Thread, GiveUp(t)
  PROVE  Device!Answer(t)
<1> DEFINE k == Len(buf[t]) \div BlockSize
           lba == req[t].lba
           n == req[t].n
<1>1. /\ pc[t] = "check" /\ Ends(t)
      /\ Return(t, IF Len(buf[t]) < BlockSize THEN <<>> ELSE BlocksOf(buf[t]))
  BY DEF GiveUp
<1>2. /\ lba \in Nat /\ n \in Nat /\ n >= 1 /\ Len(buf[t]) \in Nat /\ buf[t] \in Seq(Nat)
      /\ BlockSize \in Nat /\ BlockSize > 0 /\ FileSize \in Nat
      /\ Len(buf[t]) < Bytes(t)
  BY <1>1, CallNumbers, BlockInputAssumption DEF RInv, BInv, ThreadOK, CallOK, RoomOK, After
<1>3. /\ k \in Nat
      /\ k > 0 => lba + k <= NumBlocks
      /\ BlocksOf(buf[t]) = SubSeq(Medium, lba + 1, lba + k)
  BY <1>1, GotBlocks
<1>4. k < n
  <2>1. k * BlockSize <= Len(buf[t])  BY <1>2, Quotient
  <2>2. Len(buf[t]) < n * BlockSize  BY <1>2 DEF Bytes
  <2> HIDE DEF k, n
  <2> QED  BY <1>2, <1>3, <2>1, <2>2, FewerBlocks
<1>5. BlocksOf(buf[t]) = IF Len(buf[t]) < BlockSize THEN <<>> ELSE BlocksOf(buf[t])
  <2> SUFFICES ASSUME Len(buf[t]) < BlockSize PROVE BlocksOf(buf[t]) = <<>>  OBVIOUS
  <2>1. k = 0
    <3>1. k * BlockSize <= Len(buf[t])  BY <1>2, Quotient
    <3>2. Len(buf[t]) < 1 * BlockSize  BY <1>2
    <3> HIDE DEF k
    <3>3. k < 1  BY <1>2, <1>3, <3>1, <3>2, FewerBlocks
    <3> QED  BY <1>3, <3>3
  <2>2. SubSeq(Medium, lba + 1, lba + 0) = <<>>  BY <1>2, MediumIs
  <2> QED  BY <1>3, <2>1, <2>2
<1>6. /\ k <= Device!There(req[t]) /\ Device!There(req[t]) \in Nat
      /\ NumBlocks <= lba + k => Device!There(req[t]) = k
  <2>1. Device!There(req[t]) = IF n < 1 \/ lba >= NumBlocks THEN 0
                               ELSE IF n <= NumBlocks - lba THEN n ELSE NumBlocks - lba
    BY <1>2, ThereIs
  <2>2. NumBlocks \in Nat  BY MediumIs
  <2> HIDE DEF k, lba, n
  <2> QED  BY <1>2, <1>3, <1>4, <2>1, <2>2
<1>7. k = Device!There(req[t]) \/ Broken[t]
  <2>1. CASE last[t].errno = "EIO"  BY <2>1 DEF Broken
  <2>2. CASE last[t] = Result(<<>>)
    <3>1. Pos(t) >= FileSize  BY <1>1, <2>2 DEF RInv, EndInv, EndOK, After
    <3>2. lba * BlockSize \in Nat /\ lba * BlockSize + Len(buf[t]) >= FileSize
      BY <1>2, <3>1 DEF Pos
    <3>3. Len(buf[t]) < (k + 1) * BlockSize  BY <1>2, Quotient
    <3>4. FileSize < (lba + k + 1) * BlockSize
      <4> HIDE DEF k, lba
      <4>1. (lba + k + 1) * BlockSize = lba * BlockSize + (k + 1) * BlockSize
        BY <1>2, <1>3
      <4>2. (k + 1) * BlockSize \in Nat  BY <1>2, <1>3
      <4>3. \A x, y, z, f \in Int : y < z /\ x + y >= f => f < x + z  OBVIOUS
      <4>4. FileSize < lba * BlockSize + (k + 1) * BlockSize
        <5> DEFINE x == lba * BlockSize
                   z == (k + 1) * BlockSize
        <5>1. x \in Int /\ z \in Int /\ Len(buf[t]) < z /\ x + Len(buf[t]) >= FileSize
          BY <3>2, <3>3, <4>2
        <5> HIDE DEF x, z
        <5>2. FileSize < x + z  BY <1>2, <4>3, <5>1
        <5> QED  BY <5>2 DEF x, z
      <4> QED  BY <4>1, <4>4
    <3>5. NumBlocks <= lba + k
      <4> HIDE DEF k, lba
      <4> SUFFICES ASSUME NumBlocks > lba + k PROVE FALSE  BY <1>2, <1>3, MediumIs
      <4>1. PICK d \in Nat : NumBlocks = (lba + k + 1) + d
        <5>1. NumBlocks - (lba + k + 1) \in Nat /\ NumBlocks = (lba + k + 1) + (NumBlocks - (lba + k + 1))
          BY <1>2, <1>3, MediumIs
        <5> QED  BY <5>1
      <4>2. /\ NumBlocks * BlockSize = (lba + k + 1) * BlockSize + d * BlockSize
            /\ d * BlockSize \in Nat /\ (lba + k + 1) * BlockSize \in Nat
        BY <1>2, <1>3, <4>1
      <4>3. NumBlocks * BlockSize <= FileSize  BY MediumIs
      <4> QED  BY <1>2, <3>4, <4>2, <4>3
    <3> QED  BY <1>6, <3>5
  <2> QED  BY <1>1, <2>1, <2>2 DEF Ends
<1> HIDE DEF k
<1>8. k \in 0 .. Device!There(req[t])  BY <1>3, <1>6
<1>9. Return(t, SubSeq(Medium, lba + 1, lba + k))  BY <1>1, <1>3, <1>5
<1> QED  BY <1>1, <1>7, <1>8, <1>9, ReturnAnswers

(* A step inside a call is not to be seen, unless the medium fails.        *)
LEMMA InnerStep ==
  ASSUME RInv, NEW t \in Thread, Step(t), pc'[t] # "idle"
  PROVE  Device!Break(t) \/ (req' = req /\ Broken' = Broken /\ answer' = answer)
<1>0. /\ pc \in [Thread -> {"idle", "call", "loop", "pread", "lock", "seek", "read", "unlock", "check"}]
      /\ last \in [Thread -> [bytes : Seq(Nat), errno : {"0", "EINTR", "EIO"}]]
  BY DEF RInv, BInv, TypeOK
<1>1. ~\E result : Return(t, result)  BY <1>0 DEF Return, Goto
<1>2. req' = req /\ answer' = answer
  BY <1>1 DEF Step, Nothing, Enter, LoopEnd, LoopAgain, pread, Lock, Seek, SeekFails, Read, Unlock,
     Progress, TryAgain, GiveUp, Interrupted, Errs
<1>3. pc[t] # "idle"
  BY DEF Step, Nothing, Enter, LoopEnd, LoopAgain, pread, Lock, Seek, SeekFails, Read, Unlock,
     Progress, TryAgain, GiveUp
<1>4. req[t] # NoRequest
  BY <1>3, BlockInputAssumption DEF RInv, BInv, ThreadOK, CallOK
<1>5. last' = last \/ (pread(t) \/ SeekFails(t) \/ Read(t))
  BY <1>1 DEF Step, Nothing, Enter, LoopEnd, LoopAgain, Lock, Seek, Unlock, Progress, TryAgain, GiveUp
<1>6. CASE pread(t) \/ SeekFails(t) \/ Read(t)
  <2>1. pc[t] \in Between  BY <1>6 DEF pread, SeekFails, Read, Between
  <2>2. last[t].errno # "EIO"
    BY <1>3, <2>1 DEF RInv, EndInv, EndOK, Between, After
  <2>3. PICK r : last' = [last EXCEPT ![t] = r] /\ r.errno \in {"0", "EINTR", "EIO"}
    <3>1. \/ Interrupted(t) \/ Errs(t)
          \/ \E r \in Reads(Pos(t), Chunk(t)) : last' = [last EXCEPT ![t] = r]
      <4>1. pc[t] = "read" => offset = Pos(t)  BY DEF RInv, BInv, ThreadOK, OffsetOK
      <4> QED  BY <1>6, <4>1 DEF pread, SeekFails, Read
    <3>2. Pos(t) \in Nat /\ Chunk(t) \in Nat \ {0}
      BY <2>1, CallNumbers DEF RInv, Between
    <3>3. CASE Interrupted(t) \/ Errs(t)
      <4>1. Failed("EINTR").errno = "EINTR" /\ Failed("EIO").errno = "EIO"  BY DEF Failed
      <4>2. \/ last' = [last EXCEPT ![t] = Failed("EINTR")]
            \/ last' = [last EXCEPT ![t] = Failed("EIO")]
        BY <3>3 DEF Interrupted, Errs
      <4> QED  BY <4>1, <4>2
    <3>4. ASSUME NEW r \in Reads(Pos(t), Chunk(t)), last' = [last EXCEPT ![t] = r]
          PROVE  r.errno = "0"
      BY <3>2, <3>4, ReadsEnd
    <3> QED  BY <3>1, <3>3, <3>4
  <2>4. CASE r.errno = "EIO"
    <3>1. \A u \in Thread : (last'[u].errno = "EIO") = (u = t \/ last[u].errno = "EIO")
      BY <1>0, <2>3, <2>4
    <3>2. Broken' = [Broken EXCEPT ![t] = TRUE]  BY <3>1 DEF Broken
    <3> QED  BY <1>2, <1>4, <3>2, DeviceActions
  <2>5. CASE r.errno # "EIO"
    <3>1. \A u \in Thread : (last'[u].errno = "EIO") = (last[u].errno = "EIO")
      BY <1>0, <2>2, <2>3, <2>5
    <3>2. Broken' = Broken  BY <3>1 DEF Broken
    <3> QED  BY <1>2, <3>2
  <2> QED  BY <2>4, <2>5
<1> QED  BY <1>2, <1>5, <1>6 DEF Broken

LEMMA StepAsDevice == RInv /\ [Next]_vars => [Device!Next]_Device!bdvars
<1> SUFFICES ASSUME RInv, [Next]_vars PROVE Device!Next \/ UNCHANGED Device!bdvars  OBVIOUS
<1>0. req' = req /\ Broken' = Broken /\ answer' = answer => UNCHANGED Device!bdvars
  BY DEF Device!bdvars, Broken
<1>1. ASSUME NEW t \in Thread, Call(t)
      PROVE  Device!Ask(t)
  <2>1. /\ pc[t] = "idle" /\ last' = last /\ answer' = [answer EXCEPT ![t] = <<>>]
        /\ \E r \in Requests : req' = [req EXCEPT ![t] = r]
    BY <1>1 DEF Call
  <2>2. req[t] = NoRequest  BY <2>1 DEF RInv, BInv, ThreadOK, CallOK
  <2> QED  BY <2>1, <2>2, DeviceActions DEF Broken
<1>2. ASSUME NEW t \in Thread, Step(t)
      PROVE  Device!Answer(t) \/ Device!Break(t) \/ UNCHANGED Device!bdvars
  <2>1. CASE Nothing(t) \/ LoopEnd(t) \/ GiveUp(t)
    BY <2>1, NothingAnswers, LoopEndAnswers, GiveUpAnswers
  <2>2. CASE ~(Nothing(t) \/ LoopEnd(t) \/ GiveUp(t))
    <3>1. pc'[t] # "idle"
      <4>1. pc \in [Thread -> {"idle", "call", "loop", "pread", "lock", "seek", "read", "unlock", "check"}]
        BY DEF RInv, BInv, TypeOK
      <4> QED  BY <1>2, <2>2, <4>1 DEF Step, Enter, LoopAgain, pread, Lock, Seek, SeekFails, Read,
                  Unlock, Progress, TryAgain, Goto
    <3> QED  BY <1>0, <1>2, <3>1, InnerStep
  <2> QED  BY <2>1, <2>2
<1>3. CASE \/ block_input_new \/ _def_size \/ Opened \/ _def_close \/ UNCHANGED vars
  BY <1>0, <1>3 DEF block_input_new, _def_size, Opened, _def_close, vars, Broken
<1> QED  BY <1>1, <1>2, <1>3 DEF Next, Device!Next

(* The block input for files is a block device: short and interrupted      *)
(* reads, the offset all threads share and the bytes behind the last whole *)
(* block are not to be seen through it.                                    *)
THEOREM DeviceRefined == Spec => ImplementsDevice
<1>1. Init => RInv
  BY BInvInit DEF RInv, Init, PhaseOK, Quiet, EndInv, NoError
<1>2. Spec => []RInv  BY <1>1, RInvNext, PTL DEF Spec
<1>3. Spec => Device!Spec
  BY <1>2, StartsAsDevice, StepAsDevice, PTL DEF Spec, Device!Spec
<1> QED  BY <1>3 DEF ImplementsDevice
=============================================================================
