------------------------------- MODULE Handle -------------------------------
(***************************************************************************)
(* What the threads that use an open volume share beside the directory     *)
(* cache: the log switch of the handle and the cursors of directory        *)
(* streams.                                                                *)
(*                                                                         *)
(* A handle has one udf_log, of level, ctx and logger, and a pointer lc to *)
(* it that is NULL while logging is off.  Nothing of it is locked or       *)
(* atomic.  udf_log_msg takes the pointer once; ecma_error reads it for    *)
(* the test, for the logger and for the ctx, and a build may or may not    *)
(* load it again each time.  udfread_readdir reads its cursor for the      *)
(* test, for the entry and for the increment in the same way.              *)
(***************************************************************************)
EXTENDS Naturals, Sequences

CONSTANTS
  Thread,
  Opener,      \* the thread that makes the handle and opens the volume
  Stream,      \* the UDFDIRs, all of one directory
  NumEntries,  \* of that directory
  Handler,     \* what udfread_set_log is given: a logger with its ctx
  Default,     \* that of udfread_init: fprintf with stderr
  Levels,      \* the levels in use: UDFREAD_LOG_NONE, 0, and others
  Closed       \* the cursor of a stream that is not open

ASSUME HandleAssumption ==
  /\ Opener \in Thread
  /\ Default \in Handler
  /\ NumEntries \in Nat
  /\ 0 \in Levels /\ Levels \subseteq 0 .. 3
  /\ Closed \notin Nat

VARIABLES
  phase,    \* "new", "open" or "crashed"
  lc,       \* udf->fs.ecma.lc: NULL or Storage
  level, ctx, logger,  \* lc_storage
  pc,       \* pc[t]: where thread t is
  arg,      \* arg[t]: the level, handler or stream of its call
  kept,     \* kept[t]: what it has read of lc or of a cursor
  called,   \* called[t]: the logger it is about to call
  said,     \* the loggers that were called and the ctx each was given
  cursor,   \* current_file of each stream; Closed of one that is not open
  listed,   \* listed[s]: the entries that s has delivered since rewinding
  shared    \* shared[s]: calls for s have overlapped since then

logvars == <<lc, level, ctx, logger>>
callvars == <<pc, arg, kept, called>>
dirvars == <<cursor, listed, shared>>
vars == <<phase, logvars, callvars, said, dirvars>>

NULL == 0
Storage == 1

(* udfread_init; the level is a matter of the environment.                 *)
Init ==
  /\ phase = "new"
  /\ lc = Storage /\ level \in Levels \ {0} /\ ctx = Default /\ logger = Default
  /\ pc = [t \in Thread |-> "idle"]
  /\ arg = [t \in Thread |-> 0]
  /\ kept = [t \in Thread |-> 0]
  /\ called = [t \in Thread |-> Default]
  /\ said = {}
  /\ cursor = [s \in Stream |-> Closed]
  /\ listed = [s \in Stream |-> <<>>]
  /\ shared = [s \in Stream |-> FALSE]

(* Before the volume is open the handle belongs to one thread.             *)
Idle(t) ==
  /\ phase = "open" \/ (phase = "new" /\ t = Opener)
  /\ pc[t] = "idle"
Goto(t, label) == pc' = [pc EXCEPT ![t] = label]
Keep(t, value) == kept' = [kept EXCEPT ![t] = value]
Done(t) ==
  /\ Goto(t, "idle")
  /\ arg' = [arg EXCEPT ![t] = 0]
  /\ Keep(t, 0)
  /\ called' = [called EXCEPT ![t] = Default]

udfread_open ==
  /\ phase = "new"
  /\ pc[Opener] = "idle"
  /\ phase' = "open"
  /\ UNCHANGED <<logvars, callvars, said, dirvars>>

-----------------------------------------------------------------------------
(* The log switch.                                                         *)

(* udf->fs.input is set.  Mutant: nobody asks.                             *)
Refused_Never == FALSE
Refused == phase = "open"

udfread_set_log(t, h) ==
  /\ Idle(t)
  /\ ~Refused
  /\ ctx' = h
  /\ arg' = [arg EXCEPT ![t] = h]
  /\ Goto(t, "set_logger")
  /\ UNCHANGED <<phase, lc, level, logger, kept, called, said, dirvars>>

(* The second store, and the call that says the version.                   *)
SetLogger(t) ==
  /\ pc[t] = "set_logger"
  /\ logger' = arg[t]
  /\ said' = said \cup {<<arg[t], ctx>>}
  /\ Done(t)
  /\ UNCHANGED <<phase, lc, level, ctx, dirvars>>

udfread_set_log_level(t, l) ==
  /\ Idle(t)
  /\ IF l = 0
     THEN /\ lc' = NULL
          /\ UNCHANGED <<level, callvars>>
     ELSE /\ level' = l
          /\ Goto(t, "set_lc")
          /\ UNCHANGED <<lc, arg, kept, called>>
  /\ UNCHANGED <<phase, ctx, logger, said, dirvars>>

SetLc(t) ==
  /\ pc[t] = "set_lc"
  /\ lc' = Storage
  /\ Done(t)
  /\ UNCHANGED <<phase, level, ctx, logger, said, dirvars>>

-----------------------------------------------------------------------------
(* Messages: udf_error, udf_log and udf_trace are udf_log_msg with a       *)
(* level, ecma_error has none.                                             *)

(* Any call for the volume may have something to say, at any time.         *)
udf_log_msg(t, l) ==
  /\ Idle(t)
  /\ lc # NULL
  /\ arg' = [arg EXCEPT ![t] = l]
  /\ Keep(t, lc)
  /\ Goto(t, "msg_level")
  /\ UNCHANGED <<phase, logvars, called, said, dirvars>>

ecma_error(t) ==
  /\ Idle(t)
  /\ lc # NULL
  /\ Keep(t, lc)
  /\ Goto(t, "ecma_logger")
  /\ UNCHANGED <<phase, logvars, arg, called, said, dirvars>>

(* What the uses after the test may find in the pointer: _lc is a variable *)
(* of udf_log_msg.  Mutant: its macro repeats its argument.                *)
MsgSees_Again(t) == {kept[t], lc}
MsgSees(t) == {kept[t]}
EcmaSees(t) == {kept[t], lc}

Crash ==
  /\ phase' = "crashed"
  /\ UNCHANGED <<logvars, callvars, said, dirvars>>

(* _lc->level >= lvl                                                       *)
MsgLevel(t) ==
  /\ pc[t] = "msg_level"
  /\ \/ NULL \in MsgSees(t) /\ Crash
     \/ /\ Storage \in MsgSees(t)
        /\ IF level >= arg[t] THEN Goto(t, "msg_logger") /\ UNCHANGED <<arg, kept, called>>
                              ELSE Done(t)
        /\ UNCHANGED <<phase, logvars, said, dirvars>>

TakeLogger(t, sees, next) ==
  \/ NULL \in sees /\ Crash
  \/ /\ Storage \in sees
     /\ called' = [called EXCEPT ![t] = logger]
     /\ Goto(t, next)
     /\ UNCHANGED <<phase, logvars, arg, kept, said, dirvars>>

CallLogger(t, sees) ==
  \/ NULL \in sees /\ Crash
  \/ /\ Storage \in sees
     /\ said' = said \cup {<<called[t], ctx>>}
     /\ Done(t)
     /\ UNCHANGED <<phase, logvars, dirvars>>

MsgLogger(t) == pc[t] = "msg_logger" /\ TakeLogger(t, MsgSees(t), "msg_ctx")
MsgCtx(t) == pc[t] = "msg_ctx" /\ CallLogger(t, MsgSees(t))
EcmaLogger(t) == pc[t] = "ecma_logger" /\ TakeLogger(t, EcmaSees(t), "ecma_ctx")
EcmaCtx(t) == pc[t] = "ecma_ctx" /\ CallLogger(t, EcmaSees(t))

-----------------------------------------------------------------------------
(* Directory streams.                                                      *)

Using(t, s) == pc[t] \in {"entry", "increment"} /\ arg[t] = s
InUse(s) == \E t \in Thread : Using(t, s)

(* udfread_opendir, udfread_opendir_at: calloc.                            *)
_new_udfdir(t, s) ==
  /\ phase = "open" /\ Idle(t)
  /\ cursor[s] = Closed
  /\ cursor' = [cursor EXCEPT ![s] = 0]
  /\ listed' = [listed EXCEPT ![s] = <<>>]
  /\ shared' = [shared EXCEPT ![s] = FALSE]
  /\ UNCHANGED <<phase, logvars, callvars, said>>

(* Mutant: the test lets one more pass.                                    *)
AtEnd_Late(i) == i > NumEntries
AtEnd(i) == i >= NumEntries

udfread_readdir(t, s) ==
  /\ Idle(t)
  /\ cursor[s] # Closed
  /\ ~AtEnd(cursor[s])
  /\ arg' = [arg EXCEPT ![t] = s]
  /\ Keep(t, cursor[s])
  /\ Goto(t, "entry")
  /\ shared' = [shared EXCEPT ![s] = @ \/ InUse(s)]
  /\ UNCHANGED <<phase, logvars, called, said, cursor, listed>>

(* fi = &files[current_file], and what the caller gets of it.  What a      *)
(* stream delivers is no longer noted once calls have overlapped.          *)
Entry(t) ==
  LET s == arg[t] IN
  /\ pc[t] = "entry"
  /\ \E i \in {kept[t], cursor[s]} :
       listed' = IF shared[s] THEN listed ELSE [listed EXCEPT ![s] = Append(@, i)]
  /\ Goto(t, "increment")
  /\ UNCHANGED <<phase, logvars, arg, kept, called, said, cursor, shared>>

Increment(t) ==
  LET s == arg[t] IN
  /\ pc[t] = "increment"
  /\ \E i \in {kept[t], cursor[s]} : cursor' = [cursor EXCEPT ![s] = i + 1]
  /\ Done(t)
  /\ UNCHANGED <<phase, logvars, said, listed, shared>>

udfread_rewinddir(t, s) ==
  /\ Idle(t)
  /\ cursor[s] # Closed
  /\ cursor' = [cursor EXCEPT ![s] = 0]
  /\ listed' = [listed EXCEPT ![s] = <<>>]
  /\ shared' = [shared EXCEPT ![s] = InUse(s)]
  /\ UNCHANGED <<phase, logvars, callvars, said>>

(* Nobody may use a stream that is freed.                                  *)
udfread_closedir(t, s) ==
  /\ Idle(t)
  /\ cursor[s] # Closed /\ ~InUse(s)
  /\ cursor' = [cursor EXCEPT ![s] = Closed]
  /\ listed' = [listed EXCEPT ![s] = <<>>]
  /\ shared' = [shared EXCEPT ![s] = FALSE]
  /\ UNCHANGED <<phase, logvars, callvars, said>>

(* After a crash the program is started again.                             *)
Restart ==
  /\ phase = "crashed"
  /\ phase' = "new"
  /\ lc' = Storage /\ level' \in Levels \ {0} /\ ctx' = Default /\ logger' = Default
  /\ pc' = [t \in Thread |-> "idle"]
  /\ arg' = [t \in Thread |-> 0]
  /\ kept' = [t \in Thread |-> 0]
  /\ called' = [t \in Thread |-> Default]
  /\ said' = {}
  /\ cursor' = [s \in Stream |-> Closed]
  /\ listed' = [s \in Stream |-> <<>>]
  /\ shared' = [s \in Stream |-> FALSE]

Next ==
  \/ udfread_open
  \/ Restart
  \/ /\ phase # "crashed"
     /\ \E t \in Thread :
          \/ \E h \in Handler : udfread_set_log(t, h)
          \/ \E l \in Levels : udfread_set_log_level(t, l)
          \/ SetLogger(t) \/ SetLc(t)
          \/ \E l \in Levels \ {0} : udf_log_msg(t, l)
          \/ ecma_error(t)
          \/ MsgLevel(t) \/ MsgLogger(t) \/ MsgCtx(t)
          \/ EcmaLogger(t) \/ EcmaCtx(t)
          \/ \E s \in Stream :
               \/ _new_udfdir(t, s) \/ udfread_readdir(t, s)
               \/ udfread_rewinddir(t, s) \/ udfread_closedir(t, s)
          \/ Entry(t) \/ Increment(t)

Spec == Init /\ [][Next]_vars

-----------------------------------------------------------------------------
TypeOK ==
  /\ phase \in {"new", "open", "crashed"}
  /\ lc \in {NULL, Storage}
  /\ level \in Levels /\ ctx \in Handler /\ logger \in Handler
  /\ pc \in [Thread -> {"idle", "set_logger", "set_lc", "msg_level", "msg_logger", "msg_ctx",
                        "ecma_logger", "ecma_ctx", "entry", "increment"}]
  /\ arg \in [Thread -> Levels \cup Handler \cup Stream \cup {0}]
  /\ kept \in [Thread -> Nat]
  /\ called \in [Thread -> Handler]
  /\ said \subseteq Handler \X Handler
  /\ cursor \in [Stream -> Nat \cup {Closed}]
  /\ listed \in [Stream -> Seq(Nat)]
  /\ shared \in [Stream -> BOOLEAN]

(* No logger is ever called with the ctx of another, although the two are  *)
(* stored and loaded one after the other and nothing is locked.            *)
LoggerPaired == \A call \in said : call[1] = call[2]

(* A thread may switch logging off in the middle of another one's message: *)
(* only ecma_error can follow the NULL then.                               *)
OnlyEcmaFollowsNull ==
  phase = "crashed" =>
    \E t \in Thread : pc[t] \in {"ecma_logger", "ecma_ctx"} /\ lc = NULL

(* A stream that is read by one call at a time, of whichever threads,      *)
(* delivers each entry once and in order, after it is rewound too, and     *)
(* nothing behind the last one.                                            *)
ReaddirInOrder ==
  \A s \in Stream : cursor[s] # Closed /\ ~shared[s] =>
    LET n == IF \E t \in Thread : pc[t] = "increment" /\ arg[t] = s
             THEN cursor[s] + 1 ELSE cursor[s]
    IN n <= NumEntries /\ listed[s] = [i \in 1 .. n |-> i - 1]

(* udfread.c:205: "Enabling/disabling logging is a single pointer update   *)
(* (ecma.lc) and therefore safe to do while the image is open".            *)
SwitchIsSafe == phase # "crashed"
=============================================================================
