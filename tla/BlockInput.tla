----------------------------- MODULE BlockInput -----------------------------
(***************************************************************************)
(* The block input for local files, src/default_blockinput.c, under        *)
(* _read_blocks of src/udfread.c.                                          *)
(*                                                                         *)
(* All threads of a volume read through one file descriptor.  With pread   *)
(* every read names its place.  Where there is no pread, pread_impl seeks  *)
(* and reads, and the offset is one for all: a mutex makes the two one.    *)
(* A read may be short, interrupted or fail; _def_read goes on until it    *)
(* has everything, the end of the file or an error.                        *)
(*                                                                         *)
(* The content of byte p of the file is p itself.                          *)
(***************************************************************************)
EXTENDS Integers, Sequences, FiniteSetsExt

CONSTANTS
  Thread,
  Opener,         \* the thread that opens and closes the volume
  Requests,       \* what is asked for: [lba, n]; n < 0 stands for 2^31 or more
  BlockSize,      \* UDF_BLOCK_SIZE
  FileSize,       \* in bytes
  MaxInterrupts,  \* bound: calls that a signal interrupts, for each request
  NoRequest, None

ASSUME BlockInputAssumption ==
  /\ Opener \in Thread
  /\ \A r \in Requests : r.lba \in Nat /\ r.n \in Int
  /\ BlockSize \in Nat \ {0}
  /\ FileSize \in Nat
  /\ MaxInterrupts \in Nat
  /\ NoRequest \notin Requests
  /\ None \notin Thread

VARIABLES
  native,   \* the build has pread
  phase,    \* "closed", "opening" or "open"
  blocks,   \* what _def_size has said
  offset,   \* the offset of the file descriptor
  lock,     \* the owner of the mutex of pread_impl, or None
  pc,       \* pc[t]: where t is in _read_blocks
  req,      \* req[t]: its request
  buf,      \* buf[t]: the bytes it has; got is their number
  last,     \* last[t]: what the last pread returned: bytes and errno
  signals,  \* signals[t]: how often the call has been interrupted
  answer    \* answer[t]: the blocks that the last call delivered

filevars == <<native, phase, blocks>>
vars == <<filevars, offset, lock, pc, req, buf, last, signals, answer>>

Result(bytes) == [bytes |-> bytes, errno |-> "0"]
Failed(errno) == [bytes |-> <<>>, errno |-> errno]

Init ==
  /\ native \in BOOLEAN
  /\ phase = "closed"
  /\ blocks = 0
  /\ offset = 0
  /\ lock = None
  /\ pc = [t \in Thread |-> "idle"]
  /\ req = [t \in Thread |-> NoRequest]
  /\ buf = [t \in Thread |-> <<>>]
  /\ last = [t \in Thread |-> Result(<<>>)]
  /\ signals = [t \in Thread |-> 0]
  /\ answer = [t \in Thread |-> <<>>]

Quiet == \A t \in Thread : pc[t] = "idle"

-----------------------------------------------------------------------------
(* Opening and closing, by one thread.                                     *)

block_input_new ==
  /\ phase = "closed"
  /\ phase' = "opening"
  /\ offset' = 0
  /\ UNCHANGED <<native, blocks, lock, pc, req, buf, last, signals, answer>>

(* lseek to the end and nowhere back; of a pipe it fails.                  *)
_def_size ==
  /\ phase = "opening"
  /\ pc[Opener] = "idle"
  /\ \/ offset' = FileSize /\ blocks' = FileSize \div BlockSize
     \/ offset' = offset /\ blocks' = 0
  /\ UNCHANGED <<native, phase, lock, pc, req, buf, last, signals, answer>>

(* udfread_open returns, and the handle is given to the other threads.     *)
Opened ==
  /\ phase = "opening"
  /\ Quiet
  /\ phase' = "open"
  /\ UNCHANGED <<native, blocks, offset, lock, pc, req, buf, last, signals, answer>>

(* udfread_close, or udfread_open when opening fails.                      *)
_def_close ==
  /\ phase \in {"opening", "open"}
  /\ Quiet
  /\ phase' = "closed"
  /\ UNCHANGED <<native, blocks, offset, lock, pc, req, buf, last, signals, answer>>

-----------------------------------------------------------------------------
(* Calls.                                                                  *)

Goto(t, label) == pc' = [pc EXCEPT ![t] = label]

Bytes(t) == req[t].n * BlockSize
Pos(t) == req[t].lba * BlockSize + Len(buf[t])

(* What is still to be read.  Mutant: the whole request, again.            *)
Chunk_All(t) == Bytes(t)
Chunk(t) == Bytes(t) - Len(buf[t])

(* The blocks of the bytes that have been read.                            *)
BlocksOf(bytes) ==
  [i \in 1 .. Len(bytes) \div BlockSize |-> SubSeq(bytes, (i - 1) * BlockSize + 1, i * BlockSize)]

Return(t, result) ==
  /\ Goto(t, "idle")
  /\ answer' = [answer EXCEPT ![t] = result]
  /\ req' = [req EXCEPT ![t] = NoRequest]
  /\ buf' = [buf EXCEPT ![t] = <<>>]
  /\ last' = [last EXCEPT ![t] = Result(<<>>)]
  /\ signals' = [signals EXCEPT ![t] = 0]
  /\ UNCHANGED <<filevars, offset, lock>>

Call(t) ==
  /\ phase = "open" \/ (phase = "opening" /\ t = Opener)
  /\ pc[t] = "idle"
  /\ \E r \in Requests : req' = [req EXCEPT ![t] = r]
  /\ Goto(t, "call")
  /\ answer' = [answer EXCEPT ![t] = <<>>]
  /\ UNCHANGED <<filevars, offset, lock, buf, last, signals>>

(* (int)nblocks < 1                                                        *)
Nothing(t) ==
  /\ pc[t] = "call"
  /\ req[t].n < 1
  /\ Return(t, <<>>)

Enter(t) ==
  /\ pc[t] = "call"
  /\ req[t].n >= 1
  /\ Goto(t, "loop")
  /\ UNCHANGED <<filevars, offset, lock, req, buf, last, signals, answer>>

(* while (got < bytes)                                                     *)
LoopEnd(t) ==
  /\ pc[t] = "loop"
  /\ Len(buf[t]) >= Bytes(t)
  /\ Return(t, BlocksOf(buf[t]))

LoopAgain(t) ==
  /\ pc[t] = "loop"
  /\ Len(buf[t]) < Bytes(t)
  /\ Goto(t, IF native THEN "pread" ELSE "lock")
  /\ UNCHANGED <<filevars, offset, lock, req, buf, last, signals, answer>>

(* What the system may answer to a read of up to count bytes at a place.   *)
FromFile(place, k) == [j \in 1 .. k |-> place + j - 1]
Reads(place, count) ==
  IF place >= FileSize THEN {Result(<<>>)}
  ELSE {Result(FromFile(place, k)) : k \in 1 .. Min({count, FileSize - place})}

Interrupted(t) ==
  /\ signals[t] < MaxInterrupts
  /\ last' = [last EXCEPT ![t] = Failed("EINTR")]
  /\ signals' = [signals EXCEPT ![t] = @ + 1]
Errs(t) ==
  /\ last' = [last EXCEPT ![t] = Failed("EIO")]
  /\ UNCHANGED signals

pread(t) ==
  /\ pc[t] = "pread"
  /\ \/ Interrupted(t)
     \/ Errs(t)
     \/ /\ \E r \in Reads(Pos(t), Chunk(t)) : last' = [last EXCEPT ![t] = r]
        /\ UNCHANGED signals
  /\ Goto(t, "check")
  /\ UNCHANGED <<filevars, offset, lock, req, buf, answer>>

(* pread_impl.  Mutant: a mutex on the stack instead of a static one.      *)
Free_Anyway(t) == TRUE
Free(t) == lock = None

Lock(t) ==
  /\ pc[t] = "lock"
  /\ Free(t)
  /\ lock' = t
  /\ Goto(t, "seek")
  /\ UNCHANGED <<filevars, offset, req, buf, last, signals, answer>>

Seek(t) ==
  /\ pc[t] = "seek"
  /\ offset' = Pos(t)
  /\ Goto(t, "read")
  /\ UNCHANGED <<filevars, lock, req, buf, last, signals, answer>>

SeekFails(t) ==
  /\ pc[t] = "seek"
  /\ Errs(t)
  /\ Goto(t, "unlock")
  /\ UNCHANGED <<filevars, offset, lock, req, buf, answer>>

Read(t) ==
  /\ pc[t] = "read"
  /\ \/ (Interrupted(t) \/ Errs(t)) /\ UNCHANGED offset
     \/ /\ \E r \in Reads(offset, Chunk(t)) :
             /\ last' = [last EXCEPT ![t] = r]
             /\ offset' = offset + Len(r.bytes)
        /\ UNCHANGED signals
  /\ Goto(t, "unlock")
  /\ UNCHANGED <<filevars, lock, req, buf, answer>>

Unlock(t) ==
  /\ pc[t] = "unlock"
  /\ lock' = None
  /\ Goto(t, "check")
  /\ UNCHANGED <<filevars, offset, req, buf, last, signals, answer>>

(* got += ret                                                              *)
Progress(t) ==
  /\ pc[t] = "check"
  /\ last[t].errno = "0" /\ last[t].bytes # <<>>
  /\ buf' = [buf EXCEPT ![t] = @ \o last[t].bytes]
  /\ Goto(t, "loop")
  /\ UNCHANGED <<filevars, offset, lock, req, last, signals, answer>>

(* ret <= 0, unless ret < 0 && errno == EINTR.  Mutant: the end of the     *)
(* file is not told from an interruption.                                  *)
Ends_OnError(t) == last[t].errno = "EIO"
Ends(t) == last[t].errno = "EIO" \/ last[t] = Result(<<>>)

TryAgain(t) ==
  /\ pc[t] = "check"
  /\ last[t].bytes = <<>> /\ ~Ends(t)
  /\ Goto(t, "loop")
  /\ UNCHANGED <<filevars, offset, lock, req, buf, last, signals, answer>>

(* An error when there is not one block, the blocks otherwise.             *)
(* _read_blocks makes 0 of an error.                                       *)
GiveUp(t) ==
  /\ pc[t] = "check"
  /\ Ends(t)
  /\ Return(t, IF Len(buf[t]) < BlockSize THEN <<>> ELSE BlocksOf(buf[t]))

Step(t) ==
  \/ Nothing(t) \/ Enter(t) \/ LoopEnd(t) \/ LoopAgain(t)
  \/ pread(t)
  \/ Lock(t) \/ Seek(t) \/ SeekFails(t) \/ Read(t) \/ Unlock(t)
  \/ Progress(t) \/ TryAgain(t) \/ GiveUp(t)

Next ==
  \/ block_input_new \/ _def_size \/ Opened \/ _def_close
  \/ \E t \in Thread : Call(t) \/ Step(t)

Spec == Init /\ [][Next]_vars
(* A thread inside a call goes on when it can.                             *)
FairSpec == Spec /\ \A t \in Thread : WF_vars(Step(t))

-----------------------------------------------------------------------------
TypeOK ==
  /\ native \in BOOLEAN
  /\ phase \in {"closed", "opening", "open"}
  /\ blocks \in Nat /\ offset \in Nat
  /\ lock \in Thread \cup {None}
  /\ pc \in [Thread -> {"idle", "call", "loop", "pread", "lock", "seek", "read", "unlock", "check"}]
  /\ req \in [Thread -> Requests \cup {NoRequest}]
  /\ buf \in [Thread -> Seq(Nat)]
  /\ last \in [Thread -> [bytes : Seq(Nat), errno : {"0", "EINTR", "EIO"}]]
  /\ signals \in [Thread -> Nat]
  /\ answer \in [Thread -> Seq(Seq(Nat))]
  /\ \A t \in Thread : lock = t <=> pc[t] \in {"seek", "read", "unlock"}

(* Between the seek and the read of one thread nobody moves the offset,    *)
(* and every byte a call has is the one of its place in the file, and has  *)
(* a place in the caller's buffer, short reads, interruptions and other    *)
(* threads notwithstanding.                                                *)
PlaceIsRight ==
  \A t \in Thread :
    /\ pc[t] = "read" => offset = Pos(t)
    /\ \A j \in DOMAIN buf[t] : buf[t][j] = req[t].lba * BlockSize + j - 1
    /\ pc[t] = "loop" => Len(buf[t]) <= Bytes(t)
    /\ pc[t] = "check" => Len(buf[t]) + Len(last[t].bytes) <= Bytes(t)

(* The block input of a file is a BlockDevice: see there.  The offset, the *)
(* mutex, short and interrupted reads and the bytes behind the last whole  *)
(* block are not to be seen through it.                                    *)
Device ==
  INSTANCE BlockDevice WITH
    Blocks <- [b \in 1 .. FileSize \div BlockSize |-> FromFile((b - 1) * BlockSize, BlockSize)],
    asked  <- req,
    broken <- [t \in Thread |-> last[t].errno = "EIO"]
ImplementsDevice == Device!Spec

(* When the other threads stop calling, a call returns: nobody leaves the  *)
(* mutex locked behind, whatever fails, and every loop ends.               *)
LastCallReturns ==
  \A t \in Thread :
    <>[](\A u \in Thread \ {t} : pc[u] = "idle") => []<>(pc[t] = "idle")
=============================================================================
