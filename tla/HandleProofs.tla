----------------------------- MODULE HandleProofs -----------------------------
(***************************************************************************)
(* Proofs about the log switch and the directory streams, for any number   *)
(* of threads, streams, entries and loggers (Handle.tla).                  *)
(*                                                                         *)
(* The invariants of Handle are not inductive.  Logging adds what makes    *)
(* the two halves of a logger belong together although they are stored     *)
(* and loaded one after the other: they change only while the handle has   *)
(* one thread.  Listing adds what a stream that no two calls have used at  *)
(* a time has in common with the call that uses it.                        *)
(***************************************************************************)
EXTENDS Handle, TLAPS

Ctxs == {"msg_ctx", "ecma_ctx"}
Msgs == {"msg_level", "msg_logger", "msg_ctx"}

(* Who may be at which place, and what it knows there.                     *)
LogOK(t) ==
  /\ phase = "new" /\ t # Opener => pc[t] = "idle"
  /\ pc[t] = "set_logger" => phase = "new" /\ t = Opener /\ ctx = arg[t] /\ arg[t] \in Handler
  /\ pc[t] \in Ctxs => called[t] = ctx
  /\ pc[t] \in Msgs => kept[t] = Storage
  /\ pc[t] \in {"ecma_logger", "ecma_ctx"} => kept[t] = Storage
Logging ==
  /\ \A t \in Thread : LogOK(t)
  /\ (\A t \in Thread : pc[t] # "set_logger") => ctx = logger

(* The entries a stream has delivered up to the n-th.                      *)
FirstEntries(n) == [i \in 1 .. n |-> i - 1]

StreamOK(s) ==
  /\ cursor[s] = Closed => ~InUse(s)
  /\ cursor[s] # Closed /\ ~shared[s] =>
       /\ cursor[s] <= NumEntries
       /\ \A t, u \in Thread : Using(t, s) /\ Using(u, s) => t = u
       /\ \A t \in Thread : Using(t, s) => kept[t] = cursor[s] /\ cursor[s] < NumEntries
       /\ (\E t \in Thread : Using(t, s) /\ pc[t] = "increment")
            => listed[s] = FirstEntries(cursor[s] + 1)
       /\ (~\E t \in Thread : Using(t, s) /\ pc[t] = "increment")
            => listed[s] = FirstEntries(cursor[s])
Listing ==
  /\ \A s \in Stream : StreamOK(s)
  /\ \A t \in Thread : pc[t] \in {"entry", "increment"} => arg[t] \in Stream

HInv ==
  /\ TypeOK
  /\ LoggerPaired
  /\ OnlyEcmaFollowsNull
  /\ Logging
  /\ Listing

-----------------------------------------------------------------------------
(* Types.                                                                  *)

LEMMA Values ==
  /\ Opener \in Thread /\ Default \in Handler /\ NumEntries \in Nat
  /\ 0 \in Levels /\ Closed \notin Nat /\ NULL = 0 /\ Storage = 1
BY HandleAssumption DEF NULL, Storage

(* The steps of one thread, by what they are about.                        *)
LogStep(t) ==
  \/ \E h \in Handler : udfread_set_log(t, h)
  \/ \E l \in Levels : udfread_set_log_level(t, l)
  \/ SetLogger(t) \/ SetLc(t)
  \/ \E l \in Levels \ {0} : udf_log_msg(t, l)
  \/ ecma_error(t)
  \/ MsgLevel(t) \/ MsgLogger(t) \/ MsgCtx(t)
  \/ EcmaLogger(t) \/ EcmaCtx(t)
DirStep(t) ==
  \/ \E s \in Stream :
       \/ _new_udfdir(t, s) \/ udfread_readdir(t, s)
       \/ udfread_rewinddir(t, s) \/ udfread_closedir(t, s)
  \/ Entry(t) \/ Increment(t)

LEMMA NextIs ==
  Next <=> \/ udfread_open \/ Restart
           \/ phase # "crashed" /\ \E t \in Thread : LogStep(t) \/ DirStep(t)
BY DEF Next, LogStep, DirStep

LEMMA TypeInit == Init => TypeOK
BY Values DEF Init, TypeOK

LEMMA TypeLog ==
  ASSUME TypeOK, Logging, NEW t \in Thread, LogStep(t)
  PROVE  TypeOK'
<1> USE Values DEF TypeOK, logvars, callvars, dirvars, Goto, Keep, Done, Crash
<1>1. ASSUME NEW h \in Handler, udfread_set_log(t, h) PROVE TypeOK'
  BY <1>1 DEF udfread_set_log
<1>2. ASSUME NEW l \in Levels, udfread_set_log_level(t, l) PROVE TypeOK'
  BY <1>2 DEF udfread_set_log_level
<1>3. CASE SetLogger(t)
  <2>1. arg[t] \in Handler
    BY <1>3 DEF SetLogger, Logging, LogOK
  <2> QED
    BY <1>3, <2>1 DEF SetLogger
<1>4. CASE SetLc(t)
  BY <1>4 DEF SetLc
<1>5. ASSUME NEW l \in Levels \ {0}, udf_log_msg(t, l) PROVE TypeOK'
  BY <1>5 DEF udf_log_msg
<1>6. CASE ecma_error(t)
  BY <1>6 DEF ecma_error
<1>7. CASE MsgLevel(t)
  <2>1. \/ Crash
        \/ /\ UNCHANGED <<phase, logvars, said, dirvars>>
           /\ \/ Goto(t, "msg_logger") /\ UNCHANGED <<arg, kept, called>>
              \/ Done(t)
    BY <1>7, Zenon DEF MsgLevel
  <2>2. CASE Crash
    BY <2>2
  <2>3. ASSUME UNCHANGED <<phase, logvars, said, dirvars>>,
               Goto(t, "msg_logger"), UNCHANGED <<arg, kept, called>>
        PROVE  TypeOK'
    BY <2>3
  <2>4. ASSUME UNCHANGED <<phase, logvars, said, dirvars>>, Done(t) PROVE TypeOK'
    BY <2>4
  <2> QED
    BY <2>1, <2>2, <2>3, <2>4
<1>8. ASSUME NEW sees, NEW next \in {"msg_ctx", "ecma_ctx"}, TakeLogger(t, sees, next)
      PROVE  TypeOK'
  BY <1>8 DEF TakeLogger
<1>9. ASSUME NEW sees, CallLogger(t, sees) PROVE TypeOK'
  <2>1. CASE Crash
    BY <2>1
  <2>2. CASE ~Crash
    <3>1. said' = said \cup {<<called[t], ctx>>} /\ Done(t) /\ UNCHANGED <<phase, logvars, dirvars>>
      BY <1>9, <2>2, Zenon DEF CallLogger
    <3>2. <<called[t], ctx>> \in Handler \X Handler
      OBVIOUS
    <3>3. said' \subseteq Handler \X Handler
      BY <3>1, <3>2, Zenon
    <3> QED
      BY <3>1, <3>3
  <2> QED
    BY <2>1, <2>2
<1> QED
  BY <1>1, <1>2, <1>3, <1>4, <1>5, <1>6, <1>7, <1>8, <1>9
  DEF LogStep, MsgLogger, MsgCtx, EcmaLogger, EcmaCtx

LEMMA TypeDir ==
  ASSUME TypeOK, Listing, NEW t \in Thread, DirStep(t)
  PROVE  TypeOK'
<1> USE Values DEF TypeOK, logvars, callvars, dirvars, Goto, Keep, Done
<1>1. ASSUME NEW s \in Stream, _new_udfdir(t, s) PROVE TypeOK'
  BY <1>1 DEF _new_udfdir
<1>2. ASSUME NEW s \in Stream, udfread_readdir(t, s) PROVE TypeOK'
  BY <1>2 DEF udfread_readdir
<1>3. ASSUME NEW s \in Stream, udfread_rewinddir(t, s) PROVE TypeOK'
  BY <1>3 DEF udfread_rewinddir, InUse
<1>4. ASSUME NEW s \in Stream, udfread_closedir(t, s) PROVE TypeOK'
  BY <1>4 DEF udfread_closedir
<1>5. ASSUME pc[t] \in {"entry", "increment"} PROVE arg[t] \in Stream /\ cursor[arg[t]] \in Nat
  BY <1>5 DEF Listing, StreamOK, InUse, Using
<1>6. CASE Entry(t)
  <2>1. PICK i \in {kept[t], cursor[arg[t]]} :
          listed' = IF shared[arg[t]] THEN listed
                                      ELSE [listed EXCEPT ![arg[t]] = Append(@, i)]
    BY <1>6 DEF Entry
  <2>2. i \in Nat
    BY <1>5, <1>6 DEF Entry
  <2>3. Append(listed[arg[t]], i) \in Seq(Nat) /\ listed \in [Stream -> Seq(Nat)]
    BY <1>5, <1>6, <2>2 DEF Entry
  <2>4. listed' \in [Stream -> Seq(Nat)]
    BY <2>1, <2>3
  <2> QED
    BY <1>6, <2>4 DEF Entry
<1>7. CASE Increment(t)
  <2>1. PICK i \in {kept[t], cursor[arg[t]]} : cursor' = [cursor EXCEPT ![arg[t]] = i + 1]
    BY <1>7 DEF Increment
  <2>2. i \in Nat
    BY <1>5, <1>7 DEF Increment
  <2>3. i + 1 \in Nat \cup {Closed} /\ cursor \in [Stream -> Nat \cup {Closed}]
    BY <2>2
  <2>4. cursor' \in [Stream -> Nat \cup {Closed}]
    BY <2>1, <2>3
  <2> QED
    BY <1>7, <2>4 DEF Increment
<1> QED
  BY <1>1, <1>2, <1>3, <1>4, <1>6, <1>7 DEF DirStep

-----------------------------------------------------------------------------
(* The log switch.                                                         *)

LEMMA LoggingLog ==
  ASSUME TypeOK, Logging, LoggerPaired, phase # "crashed", NEW t \in Thread, LogStep(t)
  PROVE  Logging' /\ LoggerPaired' /\ OnlyEcmaFollowsNull'
<1> USE Values DEF logvars, callvars, dirvars, Goto, Keep, Done
<1>0. /\ pc \in [Thread -> {"idle", "set_logger", "set_lc", "msg_level", "msg_logger", "msg_ctx",
                            "ecma_logger", "ecma_ctx", "entry", "increment"}]
      /\ kept \in [Thread -> Nat] /\ called \in [Thread -> Handler] /\ DOMAIN arg = Thread
      /\ phase \in {"new", "open", "crashed"} /\ lc \in {NULL, Storage}
  BY DEF TypeOK
<1>1. \A u \in Thread : LogOK(u)
  BY DEF Logging
<1>2. phase = "new" => t = Opener \/ pc[t] = "idle"
  BY <1>1 DEF LogOK
(* The setter is alone, so that nobody is between logger and ctx.          *)
<1>3. ASSUME NEW h \in Handler, udfread_set_log(t, h)
      PROVE  Logging' /\ LoggerPaired' /\ OnlyEcmaFollowsNull'
  <2>1. phase = "new" /\ t = Opener /\ \A u \in Thread : pc[u] = "idle"
    BY <1>0, <1>1, <1>3 DEF udfread_set_log, Idle, Refused, LogOK
  <2>2. /\ ctx' = h /\ pc'[t] = "set_logger" /\ arg'[t] = h /\ phase' = phase /\ said' = said
        /\ \A u \in Thread : u # t => pc'[u] = "idle"
    BY <1>0, <1>3, <2>1 DEF udfread_set_log
  <2>3. \A u \in Thread : LogOK(u)'
    BY <2>1, <2>2 DEF LogOK, Ctxs, Msgs
  <2> QED
    BY <2>1, <2>2, <2>3 DEF Logging, LoggerPaired, OnlyEcmaFollowsNull
<1>4. CASE SetLogger(t)
  <2>1. /\ phase = "new" /\ t = Opener /\ ctx = arg[t] /\ arg[t] \in Handler
        /\ \A u \in Thread : u # t => pc[u] = "idle"
    BY <1>1, <1>4 DEF SetLogger, LogOK
  <2>2. /\ logger' = ctx /\ ctx' = ctx /\ phase' = phase
        /\ said' = said \cup {<<ctx, ctx>>}
        /\ \A u \in Thread : pc'[u] = "idle"
    BY <1>0, <1>4, <2>1 DEF SetLogger
  <2>3. \A u \in Thread : LogOK(u)'
    BY <2>2 DEF LogOK, Ctxs, Msgs
  <2> QED
    BY <2>1, <2>2, <2>3 DEF Logging, LoggerPaired, OnlyEcmaFollowsNull
(* What another step must leave alone, and what the thread must know.      *)
<1>5. ASSUME UNCHANGED <<phase, ctx, logger>>, said' = said,
             \A u \in Thread : u # t => /\ pc'[u] = pc[u] /\ arg'[u] = arg[u]
                                        /\ kept'[u] = kept[u] /\ called'[u] = called[u],
             pc[t] # "set_logger", LogOK(t)', pc'[t] # "set_logger"
      PROVE  Logging' /\ LoggerPaired' /\ OnlyEcmaFollowsNull'
  <2>1. \A u \in Thread : LogOK(u)'
    BY <1>1, <1>5 DEF LogOK
  <2>2. (\A u \in Thread : pc'[u] # "set_logger") => ctx' = logger'
    BY <1>5 DEF Logging
  <2> QED
    BY <1>5, <2>1, <2>2 DEF Logging, LoggerPaired, OnlyEcmaFollowsNull
<1>6. ASSUME NEW l \in Levels, udfread_set_log_level(t, l)
      PROVE  Logging' /\ LoggerPaired' /\ OnlyEcmaFollowsNull'
  <2>1. /\ UNCHANGED <<phase, ctx, logger>> /\ said' = said
        /\ \A u \in Thread : u # t => /\ pc'[u] = pc[u] /\ arg'[u] = arg[u]
                                      /\ kept'[u] = kept[u] /\ called'[u] = called[u]
        /\ pc[t] = "idle" /\ pc'[t] \in {"idle", "set_lc"}
        /\ phase = "new" => t = Opener
    BY <1>0, <1>6 DEF udfread_set_log_level, Idle
  <2>2. LogOK(t)'
    BY <2>1 DEF LogOK, Ctxs, Msgs
  <2> QED
    BY <1>5, <2>1, <2>2
<1>7. CASE SetLc(t)
  <2>1. /\ UNCHANGED <<phase, ctx, logger>> /\ said' = said
        /\ \A u \in Thread : u # t => /\ pc'[u] = pc[u] /\ arg'[u] = arg[u]
                                      /\ kept'[u] = kept[u] /\ called'[u] = called[u]
        /\ pc[t] = "set_lc" /\ pc'[t] = "idle"
    BY <1>0, <1>7 DEF SetLc
  <2>2. LogOK(t)'
    BY <2>1 DEF LogOK, Ctxs, Msgs
  <2> QED
    BY <1>5, <2>1, <2>2
<1>8. ASSUME \/ \E l \in Levels \ {0} : udf_log_msg(t, l)
             \/ ecma_error(t)
      PROVE  Logging' /\ LoggerPaired' /\ OnlyEcmaFollowsNull'
  <2>1. /\ UNCHANGED <<phase, ctx, logger>> /\ said' = said
        /\ \A u \in Thread : u # t => /\ pc'[u] = pc[u] /\ arg'[u] = arg[u]
                                      /\ kept'[u] = kept[u] /\ called'[u] = called[u]
        /\ pc[t] = "idle" /\ pc'[t] \in {"msg_level", "ecma_logger"} /\ kept'[t] = Storage
        /\ phase = "new" => t = Opener
    BY <1>0, <1>8 DEF udf_log_msg, ecma_error, Idle
  <2>2. LogOK(t)'
    BY <2>1 DEF LogOK, Ctxs, Msgs
  <2> QED
    BY <1>5, <2>1, <2>2
<1>9. ASSUME Crash, pc[t] \in {"ecma_logger", "ecma_ctx"}, lc = NULL
      PROVE  Logging' /\ LoggerPaired' /\ OnlyEcmaFollowsNull'
  <2>1. /\ phase' = "crashed" /\ UNCHANGED <<logvars, callvars, said>>
    BY <1>9 DEF Crash
  <2>2. \A u \in Thread : pc[u] # "set_logger"
    BY <1>1, <1>9 DEF LogOK
  <2>3. \A u \in Thread : LogOK(u)'
    BY <1>1, <2>1, <2>2 DEF LogOK
  <2> QED
    BY <1>9, <2>1, <2>2, <2>3 DEF Logging, LoggerPaired, OnlyEcmaFollowsNull
<1>10. CASE MsgLevel(t)
  <2>1. kept[t] = Storage /\ pc[t] = "msg_level"
    BY <1>1, <1>10 DEF MsgLevel, LogOK, Msgs
  <2>2. /\ UNCHANGED <<phase, ctx, logger>> /\ said' = said
        /\ \A u \in Thread : u # t => /\ pc'[u] = pc[u] /\ arg'[u] = arg[u]
                                      /\ kept'[u] = kept[u] /\ called'[u] = called[u]
        /\ pc'[t] = "idle" \/ (pc'[t] = "msg_logger" /\ kept'[t] = Storage)
    BY <1>0, <1>10, <2>1 DEF MsgLevel, MsgSees
  <2>3. LogOK(t)'
    BY <1>2, <2>1, <2>2 DEF LogOK, Ctxs, Msgs
  <2> QED
    BY <1>5, <2>1, <2>2, <2>3
<1>11. CASE MsgLogger(t) \/ EcmaLogger(t)
  <2> DEFINE next == IF pc[t] = "msg_logger" THEN "msg_ctx" ELSE "ecma_ctx"
  <2>1. kept[t] = Storage /\ pc[t] \in {"msg_logger", "ecma_logger"}
    BY <1>1, <1>11 DEF MsgLogger, EcmaLogger, LogOK, Msgs
  <2>2. CASE Crash
    <3>1. pc[t] = "ecma_logger" /\ lc = NULL
      BY <1>0, <1>11, <2>1, <2>2 DEF MsgLogger, EcmaLogger, TakeLogger, MsgSees, EcmaSees, Crash
    <3> QED
      BY <1>9, <2>2, <3>1
  <2>3. CASE ~Crash
    <3>1. /\ UNCHANGED <<phase, ctx, logger>> /\ said' = said
          /\ \A u \in Thread : u # t => /\ pc'[u] = pc[u] /\ arg'[u] = arg[u]
                                        /\ kept'[u] = kept[u] /\ called'[u] = called[u]
          /\ pc'[t] = next /\ called'[t] = logger /\ kept'[t] = kept[t]
      BY <1>0, <1>11, <2>1, <2>3 DEF MsgLogger, EcmaLogger, TakeLogger
    <3>2. \A u \in Thread : pc[u] # "set_logger"
      BY <1>1, <1>2, <2>1 DEF LogOK
    <3>3. logger = ctx
      BY <3>2 DEF Logging
    <3>4. LogOK(t)'
      BY <1>2, <2>1, <3>1, <3>3 DEF LogOK, Ctxs, Msgs
    <3> QED
      BY <1>5, <2>1, <3>1, <3>4
  <2> QED
    BY <2>2, <2>3
<1>12. CASE MsgCtx(t) \/ EcmaCtx(t)
  <2>1. kept[t] = Storage /\ pc[t] \in {"msg_ctx", "ecma_ctx"} /\ called[t] = ctx
    BY <1>1, <1>12 DEF MsgCtx, EcmaCtx, LogOK, Msgs, Ctxs
  <2>2. CASE Crash
    <3>1. pc[t] = "ecma_ctx" /\ lc = NULL
      BY <1>0, <1>12, <2>1, <2>2 DEF MsgCtx, EcmaCtx, CallLogger, MsgSees, EcmaSees, Crash
    <3> QED
      BY <1>9, <2>2, <3>1
  <2>3. CASE ~Crash
    <3>1. /\ UNCHANGED <<phase, ctx, logger>> /\ said' = said \cup {<<called[t], ctx>>}
          /\ Done(t)
      BY <1>12, <2>3, Zenon DEF MsgCtx, EcmaCtx, CallLogger
    <3>2. /\ \A u \in Thread : u # t => /\ pc'[u] = pc[u] /\ arg'[u] = arg[u]
                                        /\ kept'[u] = kept[u] /\ called'[u] = called[u]
          /\ pc'[t] = "idle"
      BY <1>0, <3>1
    <3>3. LoggerPaired'
      BY <2>1, <3>1 DEF LoggerPaired
    <3>4. \A u \in Thread : LogOK(u)'
      BY <1>1, <3>1, <3>2 DEF LogOK, Ctxs, Msgs
    <3>5. Logging'
      BY <2>1, <3>1, <3>2, <3>4 DEF Logging
    <3> QED
      BY <3>1, <3>3, <3>5 DEF OnlyEcmaFollowsNull
  <2> QED
    BY <2>2, <2>3
<1> QED
  BY <1>3, <1>4, <1>6, <1>7, <1>8, <1>10, <1>11, <1>12 DEF LogStep

LEMMA LoggingDir ==
  ASSUME TypeOK, Logging, LoggerPaired, phase # "crashed", NEW t \in Thread, DirStep(t)
  PROVE  Logging' /\ LoggerPaired' /\ OnlyEcmaFollowsNull'
<1>0. /\ pc \in [Thread -> {"idle", "set_logger", "set_lc", "msg_level", "msg_logger", "msg_ctx",
                            "ecma_logger", "ecma_ctx", "entry", "increment"}]
      /\ called \in [Thread -> Handler] /\ DOMAIN arg = Thread /\ DOMAIN kept = Thread
  BY DEF TypeOK
<1>1. /\ UNCHANGED <<phase, logvars, said>>
      /\ pc[t] \in {"idle", "entry", "increment"} /\ pc'[t] \in {"idle", "entry", "increment"}
      /\ phase = "new" /\ pc'[t] # "idle" => t = Opener \/ pc[t] # "idle"
      /\ \A u \in Thread : u # t => /\ pc'[u] = pc[u] /\ arg'[u] = arg[u]
                                    /\ kept'[u] = kept[u] /\ called'[u] = called[u]
  BY <1>0 DEF DirStep, _new_udfdir, udfread_readdir, udfread_rewinddir, udfread_closedir, Entry,
     Increment, Idle, Goto, Keep, Done, callvars, logvars
<1>2. \A u \in Thread : LogOK(u)'
  BY <1>1 DEF Logging, LogOK, Ctxs, Msgs, logvars
<1> QED
  BY <1>1, <1>2 DEF Logging, LoggerPaired, OnlyEcmaFollowsNull, logvars

-----------------------------------------------------------------------------
(* Directory streams.                                                      *)

LEMMA NoEntries == FirstEntries(0) = <<>>
BY DEF FirstEntries

LEMMA OneMoreEntry ==
  ASSUME NEW n \in Nat
  PROVE  Append(FirstEntries(n), n) = FirstEntries(n + 1)
<1>1. FirstEntries(n) \in Seq(Nat) /\ Len(FirstEntries(n)) = n
  BY DEF FirstEntries
<1>2. /\ Append(FirstEntries(n), n) \in Seq(Nat)
      /\ Len(Append(FirstEntries(n), n)) = n + 1
      /\ \A i \in 1 .. n + 1 :
           Append(FirstEntries(n), n)[i] = IF i <= n THEN FirstEntries(n)[i] ELSE n
  BY <1>1
<1>3. \A i \in 1 .. n + 1 : Append(FirstEntries(n), n)[i] = i - 1
  BY <1>2 DEF FirstEntries
<1>4. FirstEntries(n + 1) \in Seq(Nat) /\ Len(FirstEntries(n + 1)) = n + 1
      /\ \A i \in 1 .. n + 1 : FirstEntries(n + 1)[i] = i - 1
  BY DEF FirstEntries
<1> QED
  BY <1>2, <1>3, <1>4

(* A stream nobody touches.                                                *)
LEMMA StreamSame ==
  ASSUME NEW s \in Stream, StreamOK(s),
         cursor'[s] = cursor[s], listed'[s] = listed[s], shared'[s] = shared[s],
         \A t \in Thread : Using(t, s)' <=> Using(t, s),
         \A t \in Thread : Using(t, s) => kept'[t] = kept[t] /\ pc'[t] = pc[t]
  PROVE  StreamOK(s)'
BY DEF StreamOK, InUse

(* Logging has nothing to do with streams.                                 *)
LEMMA ListingLog ==
  ASSUME TypeOK, Listing, NEW t \in Thread, LogStep(t)
  PROVE  Listing'
<1>0. /\ pc \in [Thread -> {"idle", "set_logger", "set_lc", "msg_level", "msg_logger", "msg_ctx",
                            "ecma_logger", "ecma_ctx", "entry", "increment"}]
      /\ DOMAIN arg = Thread /\ DOMAIN kept = Thread
  BY DEF TypeOK
<1>1. /\ UNCHANGED dirvars
      /\ pc[t] \notin {"entry", "increment"} /\ pc'[t] \notin {"entry", "increment"}
      /\ \A u \in Thread : u # t => pc'[u] = pc[u] /\ arg'[u] = arg[u] /\ kept'[u] = kept[u]
  BY <1>0 DEF LogStep, udfread_set_log, udfread_set_log_level, SetLogger, SetLc, udf_log_msg,
     ecma_error, MsgLevel, MsgLogger, MsgCtx, EcmaLogger, EcmaCtx, TakeLogger, CallLogger, Crash,
     Idle, Goto, Keep, Done, callvars
<1>2. \A s \in Stream : StreamOK(s)'
  BY <1>1, StreamSame DEF Listing, Using, dirvars
<1> QED
  BY <1>1, <1>2 DEF Listing

LEMMA ListingDir ==
  ASSUME TypeOK, Listing, NEW t \in Thread, DirStep(t)
  PROVE  Listing'
<1> USE Values DEF callvars, Goto, Keep, Done
<1>0. /\ pc \in [Thread -> {"idle", "set_logger", "set_lc", "msg_level", "msg_logger", "msg_ctx",
                            "ecma_logger", "ecma_ctx", "entry", "increment"}]
      /\ arg \in [Thread -> Levels \cup Handler \cup Stream \cup {0}] /\ kept \in [Thread -> Nat]
      /\ cursor \in [Stream -> Nat \cup {Closed}] /\ listed \in [Stream -> Seq(Nat)]
      /\ shared \in [Stream -> BOOLEAN]
  BY DEF TypeOK
<1>1. (\A s \in Stream : StreamOK(s)) /\ \A u \in Thread : pc[u] \in {"entry", "increment"} => arg[u] \in Stream
  BY DEF Listing
(* Opening, rewinding and closing a stream start its list again.           *)
<1>2. ASSUME NEW s \in Stream, UNCHANGED callvars,
             \A r \in Stream : r # s =>
               cursor'[r] = cursor[r] /\ listed'[r] = listed[r] /\ shared'[r] = shared[r],
             StreamOK(s)'
      PROVE  Listing'
  <2>1. \A r \in Stream : StreamOK(r)'
    BY <1>1, <1>2, StreamSame DEF Using
  <2> QED
    BY <1>1, <1>2, <2>1 DEF Listing
<1>3. ASSUME NEW s \in Stream, _new_udfdir(t, s) PROVE Listing'
  <2>1. ~InUse(s)
    BY <1>1, <1>3 DEF _new_udfdir, StreamOK
  <2>2. /\ UNCHANGED callvars /\ cursor'[s] = 0 /\ listed'[s] = <<>> /\ shared'[s] = FALSE
        /\ \A r \in Stream : r # s =>
             cursor'[r] = cursor[r] /\ listed'[r] = listed[r] /\ shared'[r] = shared[r]
    BY <1>0, <1>3 DEF _new_udfdir
  <2>3. \A u \in Thread : ~Using(u, s)'
    BY <2>1, <2>2 DEF InUse, Using
  <2>4. StreamOK(s)'
    BY <2>2, <2>3, NoEntries DEF StreamOK
  <2> QED
    BY <1>2, <2>2, <2>4
<1>4. ASSUME NEW s \in Stream, udfread_rewinddir(t, s) PROVE Listing'
  <2>1. /\ UNCHANGED callvars /\ cursor'[s] = 0 /\ listed'[s] = <<>> /\ shared'[s] = InUse(s)
        /\ \A r \in Stream : r # s =>
             cursor'[r] = cursor[r] /\ listed'[r] = listed[r] /\ shared'[r] = shared[r]
    BY <1>0, <1>4 DEF udfread_rewinddir
  <2>2. ~shared'[s] => \A u \in Thread : ~Using(u, s)'
    BY <2>1 DEF InUse, Using
  <2>3. StreamOK(s)'
    BY <2>1, <2>2, NoEntries DEF StreamOK
  <2> QED
    BY <1>2, <2>1, <2>3
<1>5. ASSUME NEW s \in Stream, udfread_closedir(t, s) PROVE Listing'
  <2>1. /\ UNCHANGED callvars /\ cursor'[s] = Closed /\ ~InUse(s)
        /\ \A r \in Stream : r # s =>
             cursor'[r] = cursor[r] /\ listed'[r] = listed[r] /\ shared'[r] = shared[r]
    BY <1>0, <1>5 DEF udfread_closedir
  <2>2. \A u \in Thread : ~Using(u, s)'
    BY <2>1 DEF InUse, Using
  <2>3. StreamOK(s)'
    BY <2>1, <2>2 DEF StreamOK, InUse
  <2> QED
    BY <1>2, <2>1, <2>3
(* A call for s.                                                           *)
<1>6. ASSUME NEW s \in Stream, StreamOK(s)',
             \A r \in Stream : r # s =>
               cursor'[r] = cursor[r] /\ listed'[r] = listed[r] /\ shared'[r] = shared[r],
             \A u \in Thread : u # t => pc'[u] = pc[u] /\ arg'[u] = arg[u] /\ kept'[u] = kept[u],
             pc[t] \in {"entry", "increment"} => arg[t] = s,
             pc'[t] \in {"entry", "increment"} => arg'[t] = s
      PROVE  Listing'
  <2>1. ASSUME NEW r \in Stream, r # s PROVE StreamOK(r)'
    <3>1. \A u \in Thread : /\ Using(u, r)' <=> Using(u, r)
                            /\ Using(u, r) => kept'[u] = kept[u] /\ pc'[u] = pc[u]
      BY <1>6, <2>1 DEF Using
    <3> QED
      BY <1>1, <1>6, <2>1, <3>1, StreamSame
  <2> QED
    BY <1>1, <1>6, <2>1 DEF Listing
<1>7. ASSUME NEW s \in Stream, udfread_readdir(t, s) PROVE Listing'
  <2>1. /\ pc[t] = "idle" /\ pc'[t] = "entry" /\ arg'[t] = s /\ kept'[t] = cursor[s]
        /\ cursor' = cursor /\ listed' = listed /\ cursor[s] # Closed /\ cursor[s] \in Nat
        /\ cursor[s] < NumEntries /\ shared'[s] = (shared[s] \/ InUse(s))
        /\ \A u \in Thread : u # t => pc'[u] = pc[u] /\ arg'[u] = arg[u] /\ kept'[u] = kept[u]
        /\ \A r \in Stream : r # s => shared'[r] = shared[r]
    BY <1>0, <1>7 DEF udfread_readdir, AtEnd, Idle
  <2>2. StreamOK(s)'
    <3> SUFFICES ASSUME ~shared'[s] PROVE StreamOK(s)'
      BY <2>1 DEF StreamOK
    <3>1. ~shared[s] /\ \A u \in Thread : ~Using(u, s)
      BY <2>1 DEF InUse
    <3>2. \A u \in Thread : Using(u, s)' <=> u = t
      BY <2>1, <3>1 DEF Using
    <3>3. listed[s] = FirstEntries(cursor[s]) /\ cursor[s] <= NumEntries
      BY <1>1, <2>1, <3>1 DEF StreamOK
    <3> QED
      BY <2>1, <3>2, <3>3 DEF StreamOK
  <2> QED
    BY <1>6, <2>1, <2>2
<1>8. ASSUME pc[t] \in {"entry", "increment"}
      PROVE  \E s \in Stream : /\ s = arg[t] /\ Using(t, s) /\ cursor[s] \in Nat
                               /\ cursor[s] # Closed
  BY <1>0, <1>1, <1>8 DEF StreamOK, InUse, Using
<1>9. CASE Entry(t)
  <2>1. PICK s \in Stream : s = arg[t] /\ Using(t, s) /\ cursor[s] \in Nat /\ cursor[s] # Closed
    BY <1>8, <1>9 DEF Entry
  <2>2. PICK i \in {kept[t], cursor[s]} :
          listed' = IF shared[s] THEN listed ELSE [listed EXCEPT ![s] = Append(@, i)]
    BY <1>9, <2>1 DEF Entry
  <2>3. /\ pc[t] = "entry" /\ pc'[t] = "increment" /\ arg' = arg /\ kept' = kept
        /\ cursor' = cursor /\ shared' = shared /\ \A u \in Thread : u # t => pc'[u] = pc[u]
    BY <1>0, <1>9 DEF Entry
  <2>4. \A u \in Thread : Using(u, s)' <=> Using(u, s)
    BY <2>1, <2>3 DEF Using
  <2>5. \A r \in Stream : r # s => listed'[r] = listed[r]
    BY <1>0, <2>2
  <2>6. CASE shared[s]
    <3>1. StreamOK(s)'
      BY <2>1, <2>3, <2>6 DEF StreamOK
    <3> QED
      BY <1>6, <2>1, <2>3, <2>5, <3>1
  <2>7. CASE ~shared[s]
    <3>1. /\ \A u \in Thread : Using(u, s) => u = t
          /\ kept[t] = cursor[s] /\ cursor[s] < NumEntries /\ i = cursor[s]
      BY <1>1, <2>1, <2>2, <2>7 DEF StreamOK
    <3>2. listed[s] = FirstEntries(cursor[s])
      BY <1>1, <2>1, <2>3, <2>7, <3>1 DEF StreamOK
    <3>3. listed'[s] = FirstEntries(cursor[s] + 1)
      <4>1. listed'[s] = Append(FirstEntries(cursor[s]), cursor[s])
        BY <1>0, <2>1, <2>2, <2>7, <3>1, <3>2
      <4> QED
        BY <2>1, <4>1, OneMoreEntry
    <3>4. \A u \in Thread : Using(u, s)' <=> u = t
      BY <2>1, <2>4, <3>1
    <3>5. StreamOK(s)'
      BY <2>1, <2>3, <3>1, <3>3, <3>4 DEF StreamOK
    <3> QED
      BY <1>6, <2>1, <2>3, <2>5, <3>5
  <2> QED
    BY <2>6, <2>7
<1>10. CASE Increment(t)
  <2>1. PICK s \in Stream : s = arg[t] /\ Using(t, s) /\ cursor[s] \in Nat /\ cursor[s] # Closed
    BY <1>8, <1>10 DEF Increment
  <2>2. PICK i \in {kept[t], cursor[s]} : cursor' = [cursor EXCEPT ![s] = i + 1]
    BY <1>10, <2>1 DEF Increment
  <2>3. /\ pc[t] = "increment" /\ pc'[t] = "idle" /\ listed' = listed /\ shared' = shared
        /\ \A u \in Thread : u # t => pc'[u] = pc[u] /\ arg'[u] = arg[u] /\ kept'[u] = kept[u]
    BY <1>0, <1>10 DEF Increment
  <2>4. /\ \A u \in Thread : Using(u, s)' <=> Using(u, s) /\ u # t
    BY <2>1, <2>3 DEF Using
  <2>5. \A r \in Stream : r # s => cursor'[r] = cursor[r]
    BY <1>0, <2>2
  <2>6. cursor'[s] = i + 1 /\ i \in Nat /\ cursor'[s] # Closed
    BY <1>0, <2>1, <2>2
  <2>7. CASE shared[s]
    <3>1. StreamOK(s)'
      BY <2>3, <2>6, <2>7 DEF StreamOK
    <3> QED
      BY <1>6, <2>1, <2>3, <2>5, <3>1
  <2>8. CASE ~shared[s]
    <3>1. /\ \A u \in Thread : Using(u, s) => u = t
          /\ kept[t] = cursor[s] /\ cursor[s] < NumEntries /\ i = cursor[s]
      BY <1>1, <2>1, <2>2, <2>8 DEF StreamOK
    <3>2. listed[s] = FirstEntries(cursor[s] + 1)
      BY <1>1, <2>1, <2>3, <2>8, <3>1 DEF StreamOK
    <3>3. \A u \in Thread : ~Using(u, s)'
      BY <2>4, <3>1
    <3>4. cursor'[s] <= NumEntries
      BY <2>6, <3>1
    <3>5. StreamOK(s)'
      BY <2>3, <2>6, <3>1, <3>2, <3>3, <3>4 DEF StreamOK
    <3> QED
      BY <1>6, <2>1, <2>3, <2>5, <3>5
  <2> QED
    BY <2>7, <2>8
<1> QED
  BY <1>3, <1>4, <1>5, <1>7, <1>9, <1>10 DEF DirStep

-----------------------------------------------------------------------------
(* The theorems.                                                           *)

LEMMA HInvInit == Init => HInv
<1> SUFFICES ASSUME Init PROVE HInv
  OBVIOUS
<1>1. \A t \in Thread : pc[t] = "idle"
  BY DEF Init
<1>2. Logging
  BY <1>1 DEF Init, Logging, LogOK, Ctxs, Msgs
<1>3. Listing
  BY <1>1 DEF Init, Listing, StreamOK, InUse, Using
<1> QED
  BY <1>2, <1>3, TypeInit DEF Init, HInv, LoggerPaired, OnlyEcmaFollowsNull

LEMMA HInvNext == HInv /\ [Next]_vars => HInv'
<1> SUFFICES ASSUME HInv, [Next]_vars PROVE HInv'
  OBVIOUS
<1> USE DEF HInv, logvars, callvars, dirvars
<1>1. CASE udfread_open
  <2>1. /\ phase = "new" /\ phase' = "open" /\ UNCHANGED <<logvars, callvars, said, dirvars>>
        /\ pc[Opener] = "idle"
    BY <1>1 DEF udfread_open
  <2>2. \A t \in Thread : pc[t] = "idle"
    BY <2>1 DEF Logging, LogOK
  <2>3. TypeOK' /\ LoggerPaired' /\ OnlyEcmaFollowsNull'
    BY <2>1 DEF TypeOK, LoggerPaired, OnlyEcmaFollowsNull
  <2>4. Logging'
    BY <2>1, <2>2 DEF Logging, LogOK, Ctxs, Msgs
  <2>5. Listing'
    BY <2>1 DEF Listing, StreamOK, InUse, Using
  <2> QED
    BY <2>3, <2>4, <2>5
<1>2. CASE Restart
  <2>1. \A t \in Thread : pc'[t] = "idle"
    BY <1>2 DEF Restart
  <2>2. TypeOK'
    BY <1>2, Values DEF Restart, TypeOK
  <2>3. Logging'
    BY <1>2, <2>1 DEF Restart, Logging, LogOK, Ctxs, Msgs
  <2>4. Listing'
    BY <1>2, <2>1 DEF Restart, Listing, StreamOK, InUse, Using
  <2> QED
    BY <1>2, <2>2, <2>3, <2>4 DEF Restart, LoggerPaired, OnlyEcmaFollowsNull
<1>3. ASSUME phase # "crashed", NEW t \in Thread, LogStep(t) PROVE HInv'
  BY <1>3, TypeLog, LoggingLog, ListingLog
<1>4. ASSUME phase # "crashed", NEW t \in Thread, DirStep(t) PROVE HInv'
  BY <1>4, TypeDir, LoggingDir, ListingDir
<1>5. CASE UNCHANGED vars
  <2>1. TypeOK' /\ LoggerPaired' /\ OnlyEcmaFollowsNull'
    BY <1>5 DEF vars, TypeOK, LoggerPaired, OnlyEcmaFollowsNull
  <2>2. Logging'
    BY <1>5 DEF vars, Logging, LogOK
  <2>3. Listing'
    BY <1>5 DEF vars, Listing, StreamOK, InUse, Using
  <2> QED
    BY <2>1, <2>2, <2>3
<1> QED
  BY <1>1, <1>2, <1>3, <1>4, <1>5, NextIs

(* The inductive invariant, and with it the types.                         *)
THEOREM HandleInvariant == Spec => []HInv
<1> QED
  BY HInvInit, HInvNext, PTL DEF Spec

(* A logger is never called with the ctx of another one.                   *)
THEOREM LoggersArePaired == Spec => []LoggerPaired
<1>1. HInv => LoggerPaired
  BY DEF HInv
<1> QED
  BY HandleInvariant, <1>1, PTL

(* Whoever switches logging off in the middle of another one's message,    *)
(* only ecma_error follows the NULL.                                       *)
THEOREM OnlyEcmaCrashes == Spec => []OnlyEcmaFollowsNull
<1>1. HInv => OnlyEcmaFollowsNull
  BY DEF HInv
<1> QED
  BY HandleInvariant, <1>1, PTL

(* A stream whose calls do not overlap delivers every entry once, in       *)
(* order, and nothing behind the last one.                                 *)
THEOREM StreamsAreInOrder == Spec => []ReaddirInOrder
<1>1. HInv => ReaddirInOrder
  <2> SUFFICES ASSUME HInv, NEW s \in Stream, cursor[s] # Closed, ~shared[s]
               PROVE
    LET n == IF \E t \in Thread : pc[t] = "increment" /\ arg[t] = s
             THEN cursor[s] + 1 ELSE cursor[s]
    IN n <= NumEntries /\ listed[s] = [i \in 1 .. n |-> i - 1]
    BY DEF ReaddirInOrder
  <2>1. StreamOK(s) /\ cursor[s] \in Nat /\ NumEntries \in Nat
    BY Values DEF HInv, Listing, TypeOK
  <2>2. \A t \in Thread : pc[t] = "increment" /\ arg[t] = s <=> Using(t, s) /\ pc[t] = "increment"
    BY DEF Using
  <2>3. CASE \E t \in Thread : pc[t] = "increment" /\ arg[t] = s
    <3>1. cursor[s] < NumEntries /\ listed[s] = FirstEntries(cursor[s] + 1)
      BY <2>1, <2>2, <2>3 DEF StreamOK
    <3> QED
      BY <2>1, <2>3, <3>1 DEF FirstEntries
  <2>4. CASE ~\E t \in Thread : pc[t] = "increment" /\ arg[t] = s
    <3>1. cursor[s] <= NumEntries /\ listed[s] = FirstEntries(cursor[s])
      BY <2>1, <2>2, <2>4 DEF StreamOK
    <3> QED
      BY <2>1, <2>4, <3>1 DEF FirstEntries
  <2> QED
    BY <2>3, <2>4
<1> QED
  BY HandleInvariant, <1>1, PTL
=============================================================================
