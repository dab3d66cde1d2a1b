-------------------------- MODULE LogProcessProofs --------------------------
(***************************************************************************)
(* What holds of a process that crashes, for every set of threads, of      *)
(* which any may crash, at any label and more than once.                   *)
(*                                                                         *)
(* The invariant of LogProofs does not: a crash leaves guards alive whose  *)
(* scope is gone.  What remains of it is Held, locals and mutex, and Owned *)
(* the guards as far as the code that still runs relies on them.  On that  *)
(* rest the invariants of the lists, the resets and the counts, which are  *)
(* those of Log, and, of the programs the theorems name, what becomes of   *)
(* an incident and what the log files hold.                                *)
(***************************************************************************)
EXTENDS LogProcess, LogFileProofs

Held(t) == FrameFollowsCall(t) /\ MutexFollowsScope(t)

\* A guard the crash left behind keeps its thread from getting past the check of
\* log: so whatever runs behind the check owns each of its guards anew.
Owned(t) ==
    /\ InHandler(t) => <<t, "handler">> \in guards
    /\ InCall(t) => (<<t, "call">> \in guards <=>
                        pc[t] # "enter" /\ Guarded(frame[t].op))
    /\ pc[t] \in HandlerLabels => <<t, "call">> \notin guards
    /\ pc[t] \in BehindCheck => ~HasGuard(t)
    /\ mode[t] = "user" => /\ <<t, "handler">> \in guards => InHandler(t)
                           /\ <<t, "call">> \in guards => InCall(t)

\* After the crash of the owner of Mutex nobody else gets it.
PinnedHolds == pinned # NoThread => owner \in {NoThread, pinned}

CrashTypeOK ==
    /\ mode \in [Thread -> {"user", "terminate", "signal"}]
    /\ pinned \in Thread \union {NoThread}
    /\ leaked \in Nat
    /\ process \in {"running", "exited"}
    /\ denied \subseteq Entry

ThreadInv == LogTypeOK /\ \A t \in Thread : Held(t) /\ Owned(t)

ProcessInv == ThreadInv /\ CrashTypeOK /\ PinnedHolds /\ SLP!Counting

-----------------------------------------------------------------------------
(* A step of one thread                                                     *)

\* The labels at which a thread has neither locals nor the mutex.
Unheld == Label \ (CallLabels \union {"insert"})

\* The conclusion of every lemma on a step of t.
Keeps(t) ==
    /\ OthersUntouched(t)
    /\ NameKept
    /\ Held(t)' /\ Owned(t)'
    /\ SL!Next \/ UNCHANGED guardVars

LEMMA OthersKeep ==
    ASSUME ThreadInv, NEW t \in Thread, OthersUntouched(t), NameKept,
           NEW w \in Thread \ {t}, mode'[w] = mode[w]
    PROVE  Held(w)' /\ Owned(w)'
<1>1. Held(w)'
  BY DEF ThreadInv, Held, OthersUntouched, NameKept, FrameFollowsCall,
         MutexFollowsScope, InCall, Locked
<1>2. Owned(w)'
  BY DEF ThreadInv, Owned, OthersUntouched, InCall, InHandler, Guarded,
         HasGuard, Scope
<1> QED
  BY <1>1, <1>2

\* A step that only changes a label, where the thread holds nothing.
LEMMA MovesUnheld ==
    ASSUME ThreadInv, NEW t \in Thread, NEW from \in Unheld, NEW to \in Unheld,
           GoTo(t, from, to),
           UNCHANGED <<frame, owner, logFilename>>
    PROVE  /\ pc[t] = from /\ pc'[t] = to
           /\ \A w \in Thread \ {t} : pc'[w] = pc[w] /\ frame'[w] = frame[w]
           /\ NameKept /\ Held(t)'
<1>1. /\ pc[t] = from /\ pc'[t] = to
      /\ \A w \in Thread \ {t} : pc'[w] = pc[w]
  BY GoToMoves DEF ThreadInv
<1> QED
  BY <1>1 DEF ThreadInv, Held, NameKept, FrameFollowsCall, MutexFollowsScope,
              InCall, CallLabels, Unheld, Locked

\* An operation is called by a thread that holds nothing and has no guard of an
\* operation.
LEMMA CallKeeps ==
    ASSUME ThreadInv, NEW t \in Thread, NEW o \in Operation,
           NEW r \in {"idle", "hName", "hReset", "hResume"}, Call(t, o, r),
           UNCHANGED <<owner, mode>>, NameKept,
           pc[t] \in Unheld,
           r = "hReset" => o = "writeToFile" /\ logFilename' # NoFile,
           <<t, "call">> \notin guards',
           r \in HandlerLabels <=> <<t, "handler">> \in guards',
           \A w \in Thread \ {t}, s \in Scope :
               <<w, s>> \in guards' <=> <<w, s>> \in guards
    PROVE  OthersUntouched(t) /\ Held(t)' /\ Owned(t)'
<1>1. /\ pc'[t] = "enter"
      /\ frame'[t].op = o
      /\ frame'[t].ret = r
      /\ \A w \in Thread \ {t} : pc'[w] = pc[w] /\ frame'[w] = frame[w]
  BY CallMoves DEF ThreadInv
<1>2. OthersUntouched(t)
  BY <1>1 DEF OthersUntouched
<1>3. FrameFollowsCall(t)'
  BY <1>1 DEF FrameFollowsCall, InCall, CallLabels
<1>4. MutexFollowsScope(t)'
  BY <1>1 DEF ThreadInv, Held, MutexFollowsScope, Unheld, CallLabels
<1>5. Owned(t)'
  BY <1>1 DEF Owned, InCall, InHandler, CallLabels, HandlerLabels, BehindCheck
<1> QED
  BY <1>2, <1>3, <1>4, <1>5 DEF Held

LEMMA LoggingKeeps ==
    ASSUME ThreadInv, SLP!Counting, NEW t \in Thread, Logging(t), UNCHANGED mode
    PROVE  Keeps(t)
<1> USE DEF ThreadInv
<1>1. CASE LockMap(t)
  <2>1. /\ pc[t] = "lockMap" /\ pc'[t] = "insert"
        /\ \A w \in Thread \ {t} : pc'[w] = pc[w]
        /\ UNCHANGED <<frame, guards, guardVars, logFilename>>
        /\ owner \in {NoThread, t} /\ owner' = t
    BY <1>1, GoToMoves DEF LockMap, Acquire, guardVars, fileVars
  <2>2. OthersUntouched(t) /\ NameKept
    BY <2>1, LogAssumption DEF OthersUntouched, NameKept, NoThread
  <2>3. Held(t)'
    BY <2>1 DEF Held, FrameFollowsCall, MutexFollowsScope, InCall, CallLabels
  <2>4. Owned(t)'
    BY <2>1 DEF Owned, InCall, InHandler, CallLabels, HandlerLabels, BehindCheck
  <2> QED
    BY <2>1, <2>2, <2>3, <2>4 DEF Keeps
<1>2. CASE InsertList(t)
  <2>1. /\ pc[t] = "insert" /\ pc'[t] = "check"
        /\ \A w \in Thread \ {t} : pc'[w] = pc[w]
        /\ UNCHANGED <<frame, guards, guardVars, logFilename>>
        /\ owner' = NoThread
    BY <1>2, GoToMoves DEF InsertList, guardVars, fileVars
  <2>2. owner = t
    BY <2>1 DEF Held, MutexFollowsScope
  <2>3. OthersUntouched(t) /\ NameKept
    BY <2>1, <2>2, LogAssumption DEF OthersUntouched, NameKept, NoThread
  <2>4. Held(t)'
    BY <2>1, LogAssumption
       DEF Held, FrameFollowsCall, MutexFollowsScope, InCall, CallLabels, NoThread
  <2>5. Owned(t)'
    BY <2>1 DEF Owned, InCall, InHandler, CallLabels, HandlerLabels, BehindCheck
  <2> QED
    BY <2>1, <2>3, <2>4, <2>5 DEF Keeps
<1>3. CASE Check(t)
  <2>1. /\ GoTo(t, "check", IF SL!Suspended THEN "idle" ELSE "append")
        /\ UNCHANGED <<frame, owner, logFilename, guards, guardVars>>
    BY <1>3 DEF Check, guardVars, mapVars, fileVars
  <2>2. {"check", "idle", "append"} \subseteq Unheld
    BY LabelFacts DEF Unheld, CallLabels
  <2>3. /\ pc[t] = "check"
        /\ pc'[t] = IF SL!Suspended THEN "idle" ELSE "append"
        /\ \A w \in Thread \ {t} : pc'[w] = pc[w] /\ frame'[w] = frame[w]
        /\ NameKept /\ Held(t)'
    BY <2>1, <2>2, MovesUnheld
  <2>4. pc'[t] = "append" => guards = {}
    BY <2>3, CountingSuspends DEF SL!SuspendedIffGuarded
  <2>5. Owned(t)'
    BY <2>1, <2>3, <2>4
       DEF Owned, InCall, InHandler, CallLabels, HandlerLabels, BehindCheck,
           HasGuard
  <2> QED
    BY <2>1, <2>3, <2>5 DEF Keeps, OthersUntouched
<1>4. CASE EmplaceBack(t) \/ StreamCount(t) \/ StreamWrite(t) \/ CallbackCount(t)
  <2>1. /\ \E from \in BehindCheck \ {"hSuspend"},
              to \in BehindCheck \union {"idle", "terminate"} : GoTo(t, from, to)
        /\ UNCHANGED <<frame, owner, logFilename, guards, guardVars>>
    BY <1>4 DEF EmplaceBack, StreamCount, StreamWrite, CallbackCount,
                BehindCheck, guardVars, mapVars, fileVars
  <2>2. BehindCheck \union {"idle", "terminate"} \subseteq Unheld
    BY LabelFacts DEF Unheld, CallLabels, BehindCheck
  <2>3. /\ pc[t] \in BehindCheck \ {"hSuspend"}
        /\ pc'[t] \in BehindCheck \union {"idle", "terminate"}
        /\ \A w \in Thread \ {t} : pc'[w] = pc[w] /\ frame'[w] = frame[w]
        /\ NameKept /\ Held(t)'
    BY <2>1, <2>2, MovesUnheld
  <2>4. Owned(t)'
    BY <2>1, <2>3
       DEF Owned, InCall, InHandler, CallLabels, HandlerLabels, BehindCheck,
           HasGuard, Scope
  <2> QED
    BY <2>1, <2>3, <2>4 DEF Keeps, OthersUntouched
<1>5. CASE Invoke(t)
  <2>1. /\ pc[t] = "invoke"
        /\ UNCHANGED <<owner, logFilename, guards, guardVars>>
    BY <1>5 DEF Invoke, guardVars, mapVars, fileVars
  <2>2. NameKept /\ ~HasGuard(t)
    BY <2>1 DEF NameKept, Owned, BehindCheck
  <2>3. {"invoke", "idle", "hSuspend", "terminate"} \subseteq Unheld
    BY LabelFacts DEF Unheld, CallLabels
  <2>4. CASE \E o \in CallbackOps : Call(t, o, "idle")
    <3>1. PICK o \in Operation : Call(t, o, "idle")
      BY <2>4, LogAssumption
    <3>2. OthersUntouched(t) /\ Held(t)' /\ Owned(t)'
      BY <2>1, <2>2, <2>3, <3>1, CallKeeps DEF HasGuard, Scope, HandlerLabels
    <3> QED
      BY <2>1, <2>2, <3>2 DEF Keeps
  <2>5. CASE /\ \E to \in {"idle", "hSuspend", "terminate"} : GoTo(t, "invoke", to)
             /\ frame' = frame
    <3>1. /\ pc'[t] \in {"idle", "hSuspend", "terminate"}
          /\ \A w \in Thread \ {t} : pc'[w] = pc[w] /\ frame'[w] = frame[w]
          /\ Held(t)'
      BY <2>1, <2>3, <2>5, MovesUnheld
    <3>2. Owned(t)'
      BY <2>1, <2>2, <3>1
         DEF Owned, InCall, InHandler, CallLabels, HandlerLabels, BehindCheck,
             HasGuard, Scope
    <3> QED
      BY <2>1, <2>2, <3>1, <3>2 DEF Keeps, OthersUntouched
  <2> QED
    BY <1>5, <2>4, <2>5 DEF Invoke
<1> QED
  BY <1>1, <1>2, <1>3, <1>4, <1>5 DEF Logging

LEMMA LevelHandlerKeeps ==
    ASSUME ThreadInv, NEW t \in Thread, LevelHandler(t), UNCHANGED mode
    PROVE  Keeps(t)
<1> USE DEF ThreadInv
<1> HandlerLabels \subseteq Unheld
  BY DEF Unheld, CallLabels, HandlerLabels, Label
<1>1. CASE HSuspend(t)
  <2>1. /\ pc[t] = "hSuspend" /\ Call(t, "releaseLogs", "hName")
        /\ UNCHANGED <<owner, logFilename>>
        /\ SL!Construct(<<t, "handler">>)
    BY <1>1 DEF HSuspend, mapVars, fileVars
  <2>2. \A w \in Thread, x \in Scope : <<w, x>> \in guards' <=>
            <<w, x>> \in guards \/ (w = t /\ x = "handler")
    BY <2>1, GuardOfOne DEF Scope
  <2>3. ~HasGuard(t)
    BY <2>1 DEF Owned, BehindCheck
  <2>4. SL!Next
    BY <2>1, <2>3, ConstructFresh DEF HasGuard, Scope
  <2>5. NameKept
    BY <2>1 DEF NameKept
  <2>6. OthersUntouched(t) /\ Held(t)' /\ Owned(t)'
    <3>1. /\ <<t, "handler">> \in guards' /\ <<t, "call">> \notin guards'
          /\ \A w \in Thread \ {t}, x \in Scope :
                <<w, x>> \in guards' <=> <<w, x>> \in guards
      BY <2>2, <2>3 DEF HasGuard, Scope
    <3> QED
      BY <2>1, <2>5, <3>1, OperationFacts, CallKeeps DEF HandlerLabels
  <2> QED
    BY <2>4, <2>5, <2>6 DEF Keeps
<1>2. ASSUME pc[t] \in HandlerLabels \ {"hSuspend"},
             NEW o \in Operation, NEW r \in HandlerLabels \ {"hSuspend", "hStamp"},
             Call(t, o, r), NameKept,
             UNCHANGED <<owner, guardVars>>,
             r = "hReset" => o = "writeToFile" /\ logFilename' # NoFile
      PROVE  Keeps(t)
  <2>1. <<t, "handler">> \in guards /\ <<t, "call">> \notin guards
    BY <1>2 DEF Owned, InHandler
  <2>2. UNCHANGED guards
    BY <1>2 DEF guardVars
  <2>3. OthersUntouched(t) /\ Held(t)' /\ Owned(t)'
    BY <1>2, <2>1, <2>2, CallKeeps DEF HandlerLabels
  <2> QED
    BY <1>2, <2>3 DEF Keeps
<1>3. CASE HName(t)
  <2>1. pc[t] = "hName" /\ UNCHANGED <<guardVars, guards, owner, logFilename>>
    BY <1>3 DEF HName, guardVars, mapVars, fileVars
  <2>2. CASE logFilename = NoFile /\ GoTo(t, "hName", "hStamp") /\ frame' = frame
    <3>1. /\ pc'[t] = "hStamp" /\ NameKept /\ Held(t)'
          /\ \A w \in Thread \ {t} : pc'[w] = pc[w] /\ frame'[w] = frame[w]
      BY <2>1, <2>2, MovesUnheld DEF HandlerLabels
    <3>2. Owned(t)'
      BY <2>1, <3>1
         DEF Owned, InCall, InHandler, CallLabels, HandlerLabels, BehindCheck
    <3> QED
      BY <2>1, <3>1, <3>2 DEF Keeps, OthersUntouched
  <2>3. CASE logFilename # NoFile /\ Call(t, "writeToFile", "hReset")
    BY <1>2, <2>1, <2>3, OperationFacts DEF NameKept, HandlerLabels
  <2> QED
    BY <1>3, <2>2, <2>3 DEF HName
<1>4. CASE HStamp(t)
  <2>1. /\ pc[t] = "hStamp" /\ Call(t, "writeToFile", "hReset")
        /\ UNCHANGED <<guardVars, owner>>
        /\ logFilename' # NoFile
    BY <1>4 DEF HStamp, mapVars, LogFile, NoFile
  <2> QED
    BY <1>2, <2>1, OperationFacts DEF NameKept, HandlerLabels
<1>5. CASE HReset(t)
  <2>1. /\ pc[t] = "hReset" /\ Call(t, "reset", "hResume")
        /\ UNCHANGED <<guardVars, owner, logFilename>>
    BY <1>5 DEF HReset, mapVars, fileVars
  <2> QED
    BY <1>2, <2>1, OperationFacts DEF NameKept, HandlerLabels
<1>6. CASE HResume(t)
  <2>1. /\ GoTo(t, "hResume", "idle")
        /\ UNCHANGED <<frame, owner, logFilename>>
        /\ SL!Destroy(<<t, "handler">>)
    BY <1>6 DEF HResume, mapVars, fileVars
  <2>2. \A w \in Thread, x \in Scope : <<w, x>> \in guards' <=>
            <<w, x>> \in guards /\ ~(w = t /\ x = "handler")
    BY <2>1, GuardOfOne DEF Scope
  <2>3. "idle" \in Unheld /\ "hResume" \in Unheld
    BY LabelFacts DEF Unheld, CallLabels
  <2>4. /\ pc[t] = "hResume" /\ pc'[t] = "idle" /\ NameKept /\ Held(t)'
        /\ \A w \in Thread \ {t} : pc'[w] = pc[w] /\ frame'[w] = frame[w]
    BY <2>1, <2>3, MovesUnheld
  <2>5. <<t, "handler">> \in guards /\ <<t, "call">> \notin guards
    BY <2>4 DEF Owned, InHandler, HandlerLabels
  <2>6. SL!Next
    BY <2>1, <2>5, DestroyAlive DEF Scope
  <2>7. Owned(t)'
    BY <2>2, <2>4, <2>5
       DEF Owned, InCall, InHandler, CallLabels, HandlerLabels, BehindCheck, Scope
  <2> QED
    BY <2>1, <2>2, <2>4, <2>6, <2>7 DEF Keeps, OthersUntouched
<1> QED
  BY <1>1, <1>3, <1>4, <1>5, <1>6 DEF LevelHandler

LEMMA OperatingKeeps ==
    ASSUME ThreadInv, NEW t \in Thread, Operating(t), UNCHANGED mode
    PROVE  Keeps(t)
<1> USE DEF ThreadInv
<1>1. CASE Enter(t)
  <2>1. /\ pc[t] = "enter" /\ pc'[t] \in {"lock", "open", "leave"}
        /\ pc'[t] = "lock" <=> Locked(frame[t].op)
        /\ \A w \in Thread \ {t} : pc'[w] = pc[w]
        /\ UNCHANGED <<frame, owner, logFilename>>
    BY <1>1, GoToMoves DEF Enter, mapVars, fileVars
  <2>2. <<t, "call">> \notin guards
    BY <2>1 DEF Owned, InCall, CallLabels
  <2>3. /\ SL!Next \/ UNCHANGED guardVars
        /\ \A w \in Thread, x \in Scope : <<w, x>> \in guards' <=>
              \/ <<w, x>> \in guards
              \/ w = t /\ x = "call" /\ Guarded(frame[t].op)
    <3>1. CASE Guarded(frame[t].op)
      BY <1>1, <2>2, <3>1, GuardOfOne, ConstructFresh DEF Enter, Scope
    <3>2. CASE ~Guarded(frame[t].op)
      BY <1>1, <3>2 DEF Enter, guardVars
    <3> QED
      BY <3>1, <3>2
  <2>4. OthersUntouched(t) /\ NameKept
    BY <2>1, <2>3 DEF OthersUntouched, NameKept
  <2>5. Held(t)'
    BY <2>1 DEF Held, FrameFollowsCall, MutexFollowsScope, InCall, CallLabels
  <2>6. Owned(t)'
    BY <2>1, <2>2, <2>3
       DEF Owned, InCall, InHandler, CallLabels, HandlerLabels, BehindCheck, Scope
  <2> QED
    BY <2>3, <2>4, <2>5, <2>6 DEF Keeps
<1>2. CASE Lock(t)
  <2>1. /\ pc[t] = "lock" /\ pc'[t] = "sweep"
        /\ \A w \in Thread \ {t} : pc'[w] = pc[w]
        /\ UNCHANGED <<frame, guards, guardVars, logFilename>>
        /\ owner \in {NoThread, t} /\ owner' = t
    BY <1>2, GoToMoves DEF Lock, Acquire, guardVars, fileVars
  <2>2. OthersUntouched(t) /\ NameKept
    BY <2>1, LogAssumption DEF OthersUntouched, NameKept, NoThread
  <2>3. Held(t)'
    BY <2>1 DEF Held, FrameFollowsCall, MutexFollowsScope, InCall, CallLabels
  <2>4. Owned(t)'
    BY <2>1
       DEF Owned, InCall, InHandler, CallLabels, HandlerLabels, BehindCheck
  <2> QED
    BY <2>1, <2>2, <2>3, <2>4 DEF Keeps
<1>3. CASE Open(t)
  <2> DEFINE f == IF frame[t].ret = "hReset" THEN logFilename ELSE UserFile
  <2>1. /\ pc[t] = "open" /\ pc'[t] \in {"sweep", "leave"}
        /\ \A w \in Thread \ {t} : pc'[w] = pc[w]
        /\ UNCHANGED <<guards, guardVars, owner, logFilename>>
    BY <1>3, GoToMoves DEF Open, guardVars, mapVars, fileVars
  <2>2. /\ frame'[t].op = frame[t].op
        /\ frame'[t].ret = frame[t].ret
        /\ frame'[t].target = f
        /\ \A w \in Thread \ {t} : frame'[w] = frame[w]
    BY <1>3 DEF Open, LogTypeOK, Frame
  <2>3. frame'[t].target \in FileName
    BY <2>2, FileFacts DEF LogTypeOK, Held, FrameFollowsCall
  <2>4. OthersUntouched(t) /\ NameKept
    BY <2>1, <2>2 DEF OthersUntouched, NameKept
  <2>5. FrameFollowsCall(t)'
    BY <2>1, <2>2, <2>3 DEF Held, FrameFollowsCall, InCall, CallLabels, Locked
  <2>6. MutexFollowsScope(t)'
    BY <2>1, <2>2 DEF Held, FrameFollowsCall, MutexFollowsScope, Locked
  <2>7. Owned(t)'
    BY <2>1, <2>2
       DEF Owned, InCall, InHandler, CallLabels, HandlerLabels, BehindCheck,
           Guarded
  <2> QED
    BY <2>1, <2>4, <2>5, <2>6, <2>7 DEF Keeps, Held
<1>4. CASE EndSweep(t)
  <2>1. /\ pc[t] = "sweep" /\ pc'[t] = "leave"
        /\ \A w \in Thread \ {t} : pc'[w] = pc[w]
        /\ UNCHANGED <<frame, guards, guardVars, logFilename>>
        /\ owner' = IF Locked(frame[t].op) THEN NoThread ELSE owner
    BY <1>4, GoToMoves DEF EndSweep, guardVars, fileVars
  <2>2. owner = t <=> Locked(frame[t].op)
    BY <2>1 DEF Held, MutexFollowsScope
  <2>3. OthersUntouched(t) /\ NameKept
    BY <2>1, <2>2, LogAssumption DEF OthersUntouched, NameKept, NoThread
  <2>4. Held(t)'
    BY <2>1, <2>2, LogAssumption
       DEF Held, FrameFollowsCall, MutexFollowsScope, InCall, CallLabels, NoThread
  <2>5. Owned(t)'
    BY <2>1
       DEF Owned, InCall, InHandler, CallLabels, HandlerLabels, BehindCheck
  <2> QED
    BY <2>1, <2>3, <2>4, <2>5 DEF Keeps
<1>5. CASE Leave(t)
  <2>1. /\ pc[t] = "leave" /\ pc'[t] = frame[t].ret
        /\ \A w \in Thread \ {t} : pc'[w] = pc[w]
        /\ UNCHANGED <<owner, logFilename>>
    BY <1>5, GoToMoves DEF Leave, mapVars, fileVars
  <2>2. frame'[t] = NoFrame /\ \A w \in Thread \ {t} : frame'[w] = frame[w]
    BY <1>5 DEF Leave, LogTypeOK
  <2>3. <<t, "call">> \in guards <=> Guarded(frame[t].op)
    BY <2>1 DEF Owned, InCall, CallLabels
  <2>4. /\ SL!Next \/ UNCHANGED guardVars
        /\ \A w \in Thread, x \in Scope : <<w, x>> \in guards' <=>
              /\ <<w, x>> \in guards
              /\ ~(w = t /\ x = "call" /\ Guarded(frame[t].op))
    <3>1. CASE Guarded(frame[t].op)
      BY <1>5, <2>3, <3>1, GuardOfOne, DestroyAlive DEF Leave, Scope
    <3>2. CASE ~Guarded(frame[t].op)
      BY <1>5, <3>2 DEF Leave, guardVars
    <3> QED
      BY <3>1, <3>2
  <2>5. OthersUntouched(t) /\ NameKept
    BY <2>1, <2>2, <2>4 DEF OthersUntouched, NameKept
  <2>6. frame[t].ret \in {"idle", "hName", "hReset", "hResume"}
    BY DEF Held, FrameFollowsCall
  <2>7. frame'[t].op = "none" /\ frame'[t].ret = "idle"
    BY <2>2 DEF NoFrame, NewFrame
  <2>8. Held(t)'
    BY <2>1, <2>2, <2>6, <2>7
       DEF Held, FrameFollowsCall, MutexFollowsScope, InCall, CallLabels,
           Operation
  <2>9. Owned(t)'
    BY <2>1, <2>3, <2>4, <2>6, <2>7
       DEF Owned, InCall, InHandler, CallLabels, HandlerLabels, BehindCheck, Scope
  <2> QED
    BY <2>4, <2>5, <2>8, <2>9 DEF Keeps
<1>6. ASSUME NEW u \in nodes,
             \/ ResetList(t, u) \/ ReleaseList(t, u)
             \/ CountList(t, u) \/ WriteList(t, u)
      PROVE  Keeps(t)
  <2>1. UNCHANGED <<pc, guards, guardVars, owner, logFilename>>
    BY <1>6 DEF ResetList, ReleaseList, CountList, WriteList, guardVars,
                mapVars, fileVars
  <2>2. /\ frame'[t].op = frame[t].op
        /\ frame'[t].ret = frame[t].ret
        /\ frame'[t].target = frame[t].target
        /\ \A w \in Thread \ {t} : frame'[w] = frame[w]
    <3>1. frame[t] \in Frame
      BY DEF LogTypeOK
    <3>2. CASE frame' = [frame EXCEPT ![t].cursor = u]
      BY <3>1, <3>2 DEF LogTypeOK, Frame
    <3>3. CASE CountList(t, u)
      BY <3>1, <3>3 DEF CountList, LogTypeOK, Frame
    <3> QED
      BY <1>6, <3>2, <3>3 DEF ResetList, ReleaseList, WriteList
  <2>3. pc[t] = "sweep"
    BY <1>6 DEF ResetList, ReleaseList, CountList, WriteList, Visits
  <2>4. OthersUntouched(t) /\ NameKept
    BY <2>1, <2>2 DEF OthersUntouched, NameKept
  <2>5. Held(t)'
    BY <2>1, <2>2, <2>3
       DEF Held, FrameFollowsCall, MutexFollowsScope, InCall, CallLabels
  <2>6. Owned(t)'
    BY <2>1, <2>2, <2>3
       DEF Owned, InCall, InHandler, CallLabels, HandlerLabels, BehindCheck
  <2> QED
    BY <2>1, <2>4, <2>5, <2>6 DEF Keeps
<1> QED
  BY <1>1, <1>2, <1>3, <1>4, <1>5, <1>6 DEF Operating

LEMMA LogKeeps ==
    ASSUME ThreadInv, NEW t \in Thread, NEW level \in LogLevel, Log(t, level),
           UNCHANGED mode
    PROVE  Keeps(t)
<1> USE DEF ThreadInv
<1>1. /\ GoTo(t, "idle", IF pList[t] THEN "check" ELSE "lockMap")
      /\ UNCHANGED <<frame, owner, logFilename, guards, guardVars>>
  BY DEF Log, guardVars, mapVars, fileVars
<1>2. {"idle", "check", "lockMap"} \subseteq Unheld
  BY LabelFacts DEF Unheld, CallLabels
<1>3. /\ pc[t] = "idle" /\ pc'[t] \in {"check", "lockMap"}
      /\ \A w \in Thread \ {t} : pc'[w] = pc[w] /\ frame'[w] = frame[w]
      /\ NameKept /\ Held(t)'
  BY <1>1, <1>2, MovesUnheld
<1>4. Owned(t)'
  BY <1>1, <1>3
     DEF Owned, InCall, InHandler, CallLabels, HandlerLabels, BehindCheck
<1> QED
  BY <1>1, <1>3, <1>4 DEF Keeps, OthersUntouched

LEMMA UserKeeps ==
    ASSUME ThreadInv, NEW t \in Thread, UserCall(t) \/ ResumeScope(t),
           mode[t] = "user", UNCHANGED mode
    PROVE  Keeps(t)
<1> USE DEF ThreadInv
<1>1. ASSUME NEW level \in Logs[t], Log(t, level)
      PROVE  Keeps(t)
  BY <1>1, LogKeeps, LogAssumption
<1>2. ASSUME NEW o \in Operation, CallOperation(t, o)
      PROVE  Keeps(t)
  <2>1. /\ pc[t] = "idle" /\ Call(t, o, "idle")
        /\ UNCHANGED <<guards, guardVars, owner, logFilename>>
    BY <1>2 DEF CallOperation, May, guardVars, mapVars, fileVars
  <2>2. <<t, "call">> \notin guards /\ <<t, "handler">> \notin guards
    BY <2>1 DEF Owned, InCall, InHandler, CallLabels, HandlerLabels
  <2>3. pc[t] \in Unheld /\ NameKept
    BY <2>1, LabelFacts DEF Unheld, CallLabels, NameKept
  <2>4. OthersUntouched(t) /\ Held(t)' /\ Owned(t)'
    BY <2>1, <2>2, <2>3, CallKeeps DEF HandlerLabels
  <2> QED
    BY <2>1, <2>3, <2>4 DEF Keeps
<1>3. CASE SuspendScope(t) \/ ResumeScope(t)
  <2>1. pc[t] = "idle" /\ UNCHANGED <<pc, frame, owner, logFilename>>
    BY <1>3 DEF SuspendScope, ResumeScope, May, mapVars, fileVars
  <2>2. SL!Next
    BY <1>3, ConstructFresh, DestroyAlive DEF SuspendScope, ResumeScope, Scope
  <2>3. \A w \in Thread, x \in Scope :
            w # t \/ x # "user" => (<<w, x>> \in guards' <=> <<w, x>> \in guards)
    BY <1>3, GuardOfOne DEF SuspendScope, ResumeScope, Scope
  <2>4. OthersUntouched(t) /\ NameKept
    BY <2>1, <2>3 DEF OthersUntouched, NameKept
  <2>5. Held(t)'
    BY <2>1 DEF Held, FrameFollowsCall, MutexFollowsScope, InCall, CallLabels
  <2>6. Owned(t)'
    BY <2>1, <2>3
       DEF Owned, InCall, InHandler, CallLabels, HandlerLabels, BehindCheck, Scope
  <2> QED
    BY <2>2, <2>4, <2>5, <2>6 DEF Keeps
<1>4. CASE ReuseThreadId(t) \/ Configuring(t)
  <2>1. UNCHANGED <<pc, frame, guards, guardVars, owner, logFilename>>
    BY <1>4, ConfiguringType
       DEF ReuseThreadId, guardVars, mapVars, fileVars
  <2>2. OthersUntouched(t) /\ NameKept
    BY <2>1 DEF OthersUntouched, NameKept
  <2>3. Held(t)'
    BY <2>1 DEF Held, FrameFollowsCall, MutexFollowsScope, InCall
  <2>4. Owned(t)'
    BY <2>1 DEF Owned, InCall, InHandler, HasGuard
  <2> QED
    BY <2>1, <2>2, <2>3, <2>4 DEF Keeps
<1> QED
  BY <1>1, <1>2, <1>3, <1>4 DEF UserCall

\* The crash leaves nothing of the locals, gives up the mutex without unlocking
\* it, and touches no guard.
LEMMA FatalKeeps ==
    ASSUME ThreadInv, NEW t \in Thread, LogFatal(t), mode'[t] # "user"
    PROVE  Keeps(t) /\ LogTypeOK'
<1> USE DEF ThreadInv
<1>1. /\ pc'[t] \in {"check", "lockMap"} /\ pc' \in [Thread -> Label]
      /\ frame'[t] = NoFrame /\ frame' \in [Thread -> Frame]
      /\ \A w \in Thread \ {t} : pc'[w] = pc[w] /\ frame'[w] = frame[w]
  BY LabelFacts, FrameFacts DEF LogFatal, LogTypeOK
<1>2. owner' = (IF owner = t THEN NoThread ELSE owner) /\ NoThread \notin Thread
  BY LogAssumption DEF LogFatal, NoThread
<1>3. UNCHANGED <<guards, guardVars, logFilename>>
  BY DEF LogFatal, guardVars, fileVars
<1>4. NoFrame.op \notin Operation /\ NoFrame.ret = "idle"
  BY DEF NoFrame, NewFrame, Operation
<1>5. OthersUntouched(t) /\ NameKept
  BY <1>1, <1>2, <1>3 DEF OthersUntouched, NameKept
<1>6. Held(t)'
  BY <1>1, <1>2, <1>4
     DEF Held, FrameFollowsCall, MutexFollowsScope, InCall, CallLabels
<1>7. Owned(t)'
  BY <1>1 DEF Owned, InCall, InHandler, CallLabels, HandlerLabels, BehindCheck
<1>8. entry' \in [Thread -> Entry]
  <2>1. entry[t].id + 1 \in 0 .. MaxLogs
    BY LogAssumption DEF LogFatal, LogTypeOK, Entry
  <2>2. [thread |-> t, id |-> entry[t].id + 1, level |-> "Fatal"] \in Entry
    BY <2>1 DEF Entry, LogLevel
  <2> QED
    BY <2>2 DEF LogFatal, LogTypeOK
<1>9. LogTypeOK'
  BY <1>1, <1>2, <1>8 DEF LogFatal, LogTypeOK, configVars, fileVars
<1> QED
  BY <1>3, <1>5, <1>6, <1>7, <1>9 DEF Keeps

-----------------------------------------------------------------------------
(* A step of the process                                                    *)

LEMMA ContinueKeeps ==
    ASSUME ThreadInv, CrashTypeOK, SLP!Counting, NEW t \in Thread, Continue(t)
    PROVE  \/ Keeps(t) /\ LogTypeOK'
           \/ UNCHANGED <<vars, mode, pinned>>
<1>1. CASE Proceed(t)
  <2>1. UNCHANGED mode /\ (Logging(t) \/ LevelHandler(t) \/ Operating(t))
    BY <1>1 DEF Proceed, crashVars
  <2>2. Keeps(t)
    BY <2>1, LoggingKeeps, LevelHandlerKeeps, OperatingKeeps
  <2>3. LogTypeOK'
    BY <2>1, LoggingType, LevelHandlerType, OperatingType DEF ThreadInv, Held
  <2> QED
    BY <2>2, <2>3
<1>2. CASE LeaveNoexcept(t) \/ Abort(t)
  <2>1. LogFatal(t) /\ mode'[t] # "user"
    BY <1>2 DEF LeaveNoexcept, Abort, CrashTypeOK
  <2> QED
    BY <2>1, FatalKeeps
<1>3. CASE Exit(t)
  BY <1>3 DEF Exit
<1> QED
  BY <1>1, <1>2, <1>3 DEF Continue, Crashing

LEMMA InterruptKeeps ==
    ASSUME ThreadInv, CrashTypeOK, NEW t \in Thread, Interrupt(t)
    PROVE  \/ Keeps(t) /\ LogTypeOK'
           \/ UNCHANGED <<vars, mode, pinned>>
<1>1. CASE Signal(t) \/ Throw(t)
  <2>1. LogFatal(t) /\ mode'[t] # "user"
    BY <1>1 DEF Signal, Throw, CrashTypeOK
  <2> QED
    BY <2>1, FatalKeeps
<1>2. CASE UserStep(t)
  <2>1. /\ mode[t] = "user" /\ UNCHANGED mode
        /\ UserCall(t) \/ ResumeScope(t)
    BY <1>2 DEF UserStep, crashVars
  <2>2. Keeps(t)
    BY <2>1, UserKeeps
  <2>3. CASE UserCall(t)
    BY <2>2, <2>3, UserCallType DEF ThreadInv
  <2>4. CASE ResumeScope(t)
    BY <2>2, <2>4 DEF ResumeScope, ThreadInv, LogTypeOK, mapVars, configVars,
                      fileVars
  <2> QED
    BY <2>1, <2>3, <2>4
<1>3. CASE FindLogFiles(t)
  <2>1. UNCHANGED <<mode, pinned>> /\ (Log(t, "Warning") \/ UNCHANGED vars)
    BY <1>3 DEF FindLogFiles
  <2> QED
    BY <2>1, LogKeeps, LogType DEF ThreadInv, LogLevel
<1> QED
  BY <1>1, <1>2, <1>3 DEF Interrupt

\* Nobody but the owner before the crash locks Mutex after it.
LEMMA PinnedStep ==
    ASSUME ThreadInv, LogTypeOK', PinnedHolds, NEW t \in Thread,
           Continue(t) \/ Interrupt(t), OthersUntouched(t)
    PROVE  PinnedHolds'
<1>1. NoThread \notin Thread /\ owner \in Thread \union {NoThread}
  BY LogAssumption DEF NoThread, ThreadInv, LogTypeOK
<1>2. CASE Proceed(t)
  <2>1. pinned' = pinned /\ (owner # t /\ owner' = t => pinned \in {NoThread, t})
    BY <1>2 DEF Proceed, MutexFree, crashVars
  <2>2. owner' \in Thread \union {NoThread}
    BY DEF LogTypeOK
  <2>3. \A w \in Thread \ {t} : owner' = w => owner = w
    BY DEF OthersUntouched
  <2> QED
    BY <1>1, <2>1, <2>2, <2>3 DEF PinnedHolds
<1>3. CASE LogFatal(t)
  BY <1>1, <1>3 DEF LogFatal, PinnedHolds
<1>4. CASE Exit(t) \/ UserStep(t) \/ FindLogFiles(t)
  <2>1. pinned' = pinned
    BY <1>4 DEF Exit, UserStep, FindLogFiles, crashVars
  <2>2. owner' = owner
    <3>1. CASE Exit(t)
      BY <3>1 DEF Exit, vars, mapVars
    <3>2. CASE FindLogFiles(t)
      BY <3>2 DEF FindLogFiles, Log, vars, mapVars
    <3>3. CASE ResumeScope(t) \/ SuspendScope(t) \/ ReuseThreadId(t)
      BY <3>3 DEF ResumeScope, SuspendScope, ReuseThreadId, mapVars
    <3>4. CASE Configuring(t)
      BY <3>4, ConfiguringType DEF ThreadInv, mapVars
    <3>5. ASSUME NEW level \in Logs[t], Log(t, level)
          PROVE  owner' = owner
      BY <3>5 DEF Log, mapVars
    <3>6. ASSUME NEW o \in Operation, CallOperation(t, o)
          PROVE  owner' = owner
      BY <3>6 DEF CallOperation, mapVars
    <3> QED
      BY <1>4, <3>1, <3>2, <3>3, <3>4, <3>5, <3>6 DEF UserStep, UserCall
  <2> QED
    BY <2>1, <2>2 DEF PinnedHolds
<1> QED
  BY <1>2, <1>3, <1>4
     DEF Continue, Interrupt, Crashing, LeaveNoexcept, Abort, Signal, Throw

LEMMA CrashType ==
    ASSUME ThreadInv, CrashTypeOK, NEW t \in Thread, Continue(t) \/ Interrupt(t)
    PROVE  CrashTypeOK' /\ \A w \in Thread \ {t} : mode'[w] = mode[w]
<1>1. CASE LogFatal(t) /\ \E m \in {"terminate", "signal"} :
             mode' = [mode EXCEPT ![t] = m]
  BY <1>1 DEF LogFatal, CrashTypeOK
<1>2. CASE Proceed(t) \/ UserStep(t)
  <2>1. entry[t] \in Entry
    BY DEF ThreadInv, LogTypeOK
  <2> QED
    BY <1>2, <2>1 DEF Proceed, UserStep, crashVars, CrashTypeOK
<1>3. CASE FindLogFiles(t) \/ Exit(t)
  BY <1>3 DEF FindLogFiles, Exit, CrashTypeOK
<1> QED
  BY <1>1, <1>2, <1>3
     DEF Continue, Interrupt, Crashing, LeaveNoexcept, Abort, Signal, Throw

\* The exact count of the guards alive is kept by a step that constructs or
\* destroys one as a scope does.
LEMMA CountingKept ==
    ASSUME SLP!Counting, SL!Next \/ UNCHANGED guardVars
    PROVE  SLP!Counting'
<1>1. [SL!Next]_(SL!guardVars)
  BY DEF guardVars, SL!guardVars
<1> QED
  BY <1>1, SameSuspension, CountingApplies, SLP!CountingStep

LEMMA ProcessStep ==
    ASSUME ProcessInv, [ProcessNext]_processVars
    PROVE  ProcessInv' /\ [SL!Next]_(SL!guardVars)
<1> USE DEF ProcessInv
<1>1. ASSUME NEW t \in Thread, Continue(t) \/ Interrupt(t),
             Keeps(t) /\ LogTypeOK'
      PROVE  ProcessInv' /\ (SL!Next \/ UNCHANGED guardVars)
  <2>1. CrashTypeOK' /\ \A w \in Thread \ {t} : mode'[w] = mode[w]
    BY <1>1, CrashType
  <2>2. \A w \in Thread \ {t} : Held(w)' /\ Owned(w)'
    BY <1>1, <2>1, OthersKeep DEF Keeps
  <2>3. ThreadInv'
    BY <1>1, <2>2 DEF ThreadInv, Keeps
  <2>4. PinnedHolds'
    BY <1>1, PinnedStep DEF Keeps
  <2>5. SLP!Counting'
    BY <1>1, CountingKept DEF Keeps
  <2> QED
    BY <1>1, <2>1, <2>3, <2>4, <2>5 DEF Keeps
<1>2. ASSUME UNCHANGED vars, CrashTypeOK', UNCHANGED <<mode, pinned>>
      PROVE  ProcessInv' /\ UNCHANGED guardVars
  <2>1. LogTypeOK'
    BY <1>2 DEF vars, mapVars, configVars, fileVars, ThreadInv, LogTypeOK
  <2>2. \A t \in Thread : Held(t)' /\ Owned(t)'
    BY <1>2
       DEF vars, guardVars, mapVars, fileVars, ThreadInv, Held, Owned,
           FrameFollowsCall, MutexFollowsScope, InCall, InHandler, HasGuard
  <2>3. PinnedHolds'
    BY <1>2 DEF vars, mapVars, PinnedHolds
  <2>4. UNCHANGED guardVars
    BY <1>2 DEF vars
  <2> QED
    BY <1>2, <2>1, <2>2, <2>3, <2>4, CountingKept DEF ThreadInv
<1>3. ASSUME NEW t \in Thread, Continue(t) \/ Interrupt(t)
      PROVE  ProcessInv' /\ (SL!Next \/ UNCHANGED guardVars)
  <2>1. CASE Keeps(t) /\ LogTypeOK'
    BY <1>1, <1>3, <2>1
  <2>2. CASE UNCHANGED <<vars, mode, pinned>>
    BY <1>2, <1>3, <2>2, CrashType
  <2> QED
    BY <1>3, <2>1, <2>2, ContinueKeeps, InterruptKeeps
<1>4. ASSUME UNCHANGED processVars
      PROVE  ProcessInv' /\ UNCHANGED guardVars
  <2>1. UNCHANGED vars /\ UNCHANGED <<mode, pinned>>
    BY <1>4 DEF processVars, crashVars
  <2>2. CrashTypeOK'
    BY <1>4 DEF processVars, crashVars, CrashTypeOK
  <2> QED
    BY <1>2, <2>1, <2>2
<1> HIDE DEF ProcessInv
<1>5. ProcessInv' /\ (SL!Next \/ UNCHANGED guardVars)
  <2>1. CASE UNCHANGED processVars
    BY <1>4, <2>1
  <2>2. CASE \E t \in Thread : Continue(t) \/ Interrupt(t)
    <3>1. PICK t \in Thread : Continue(t) \/ Interrupt(t)
      BY <2>2
    <3> QED
      BY <1>3, <3>1
  <2> QED
    BY <2>1, <2>2 DEF ProcessNext, ProcessRest
<1>6. UNCHANGED guardVars => UNCHANGED SL!guardVars
  BY DEF guardVars, SL!guardVars
<1> QED
  BY <1>5, <1>6

LEMMA ProcessInvInit == ProcessInit => ProcessInv /\ SL!Init
<1> SUFFICES ASSUME ProcessInit
             PROVE  ProcessInv /\ SL!Init
  OBVIOUS
<1>1. Init /\ SL!Init
  BY DEF ProcessInit, Init
<1>2. LogTypeOK /\ \A t \in Thread : Scoped(t)
  BY <1>1, InvInit DEF Inv
<1>3. guards = {} /\ \A t \in Thread : pc[t] = "idle"
  BY <1>1 DEF Init, SL!Init
<1>4. ASSUME NEW t \in Thread
      PROVE  Held(t) /\ Owned(t)
  BY <1>2, <1>3
     DEF Scoped, Held, Owned, InCall, InHandler, CallLabels, HandlerLabels,
         BehindCheck
<1>5. CrashTypeOK /\ PinnedHolds
  BY DEF ProcessInit, CrashTypeOK, PinnedHolds
<1>6. SLP!Counting
  BY <1>1, SameSuspension, CountingApplies, SLP!CountingInit
<1> QED
  BY <1>1, <1>2, <1>4, <1>5, <1>6 DEF ProcessInv, ThreadInv

\* Every reachable state of a process that crashes is one the invariant
\* describes.
THEOREM ProcessInvariance == ProcessSpec => []ProcessInv
  BY ProcessInvInit, ProcessStep, PTL DEF ProcessSpec

\* Every variable has its type, the 16-bit counter included, also with the
\* guards that crashes leave behind.
THEOREM ProcessTypeCorrect == ProcessSpec => []ProcessTypeOK
<1>1. ProcessInv => ProcessTypeOK
  BY CountingSuspends
     DEF ProcessInv, ThreadInv, CrashTypeOK, ProcessTypeOK, TypeOK
<1> QED
  BY <1>1, ProcessInvariance, PTL

\* A mutex that a crash has left locked is never given to another thread: none
\* inserts a list or goes through the lists the interrupted code was changing.
THEOREM InterruptedSweepsExcluded == ProcessSpec => []InterruptedSweepExcluded
<1>1. ASSUME ProcessInv
      PROVE  InterruptedSweepExcluded
  <2>1. ASSUME NEW t \in Thread \ {pinned}, pinned # NoThread
        PROVE  owner # t
    BY <1>1, <2>1, LogAssumption
       DEF ProcessInv, PinnedHolds, NoThread
  <2> QED
    BY <1>1, <2>1
       DEF InterruptedSweepExcluded, ProcessInv, ThreadInv, Held,
           MutexFollowsScope
<1> QED
  BY <1>1, ProcessInvariance, PTL

\* The counter counts right through crashes: no crash handler constructs a guard
\* that is still alive or destroys one that is not.
THEOREM CrashKeepsSuspension == ProcessSpec => SuspensionSpec
  BY ProcessInvInit, ProcessStep, ProcessInvariance, PTL
     DEF ProcessSpec, SuspensionSpec, SL!Spec

\* What a crash handler logs on top of a guard of its own thread is never
\* stored: the crash of logLevelHandler, of an operation or of the user's
\* suspending scope leaves no Fatal entry.
THEOREM SuspendedCrashesStoreNothing == ProcessSpec => []NoOwnEntries
<1>1. ProcessInv => NoOwnEntries
  BY DEF ProcessInv, ThreadInv, Owned, NoOwnEntries, HasGuard, BehindCheck
<1> QED
  BY <1>1, ProcessInvariance, PTL

-----------------------------------------------------------------------------
(* The entries in a process that crashes.  A crash adds one kind of step to *)
(* those of Log: it begins a log call wherever its thread is, and takes the *)
(* locals away; the map and the files it leaves as they are.                *)

\* t calls log of its own accord, from findLogFiles or from a crash handler.
LogsAnew(t) == Log(t, "Warning") \/ LogFatal(t)

\* The steps of a process, as far as Log is concerned.
LEMMA ProcessSteps ==
    ASSUME NEW t \in Thread, Continue(t) \/ Interrupt(t)
    PROVE  \/ Run(t) \/ UserCall(t)
           \/ LogsAnew(t)
           \/ UNCHANGED vars
<1>1. CASE Proceed(t) \/ UserStep(t)
  BY <1>1 DEF Proceed, UserStep, Run
<1>2. CASE FindLogFiles(t) \/ Exit(t)
  BY <1>2 DEF FindLogFiles, Exit, LogsAnew
<1> QED
  BY <1>1, <1>2
     DEF Continue, Interrupt, Crashing, LeaveNoexcept, Abort, Signal, Throw,
         LogsAnew

LEMMA AnewFacts ==
    ASSUME ThreadInv, NEW t \in Thread, LogsAnew(t)
    PROVE  /\ pc'[t] = IF pList[t] THEN "check" ELSE "lockMap"
           /\ frame'[t] = NoFrame
           /\ entry[t].id < MaxLogs
           /\ entry'[t].thread = t
           /\ entry'[t].id = entry[t].id + 1
           /\ entry'[t].level \in {"Warning", "Fatal"}
           /\ \A w \in Thread \ {t} : /\ pc'[w] = pc[w] /\ frame'[w] = frame[w]
                                      /\ entry'[w] = entry[w]
           /\ UNCHANGED <<nodes, lists, pList, callbackMap, outStreams, logFilename,
                           files, guards>>
<1> USE DEF ThreadInv
<1>1. CASE Log(t, "Warning")
  <2>1. frame' = frame /\ frame[t] = NoFrame
    BY <1>1, GoToMoves DEF Log, Held, FrameFollowsCall, InCall, CallLabels
  <2> QED
    BY <1>1, <2>1, GoToMoves
       DEF Log, LogTypeOK, guardVars, mapVars, configVars, fileVars
<1>2. CASE LogFatal(t)
  BY <1>2 DEF LogFatal, LogTypeOK, guardVars, configVars, fileVars
<1> QED
  BY <1>1, <1>2 DEF LogsAnew

LEMMA ThreadInvPlaced ==
    ASSUME ThreadInv
    PROVE  Placed /\ MutexFollowsScopes /\ \A t \in Thread : Suspending(t)
  BY DEF ThreadInv, Held, Owned, Placed, MutexFollowsScopes, Suspending

LEMMA KeepsSteady ==
    ASSUME NEW t \in Thread, Keeps(t)
    PROVE  Steady(t)
  BY DEF Keeps, Held, Steady

\* What the lists, the resets, the counts and the calls of Log keep to.
EntryInv == StoreInv /\ ResetInv /\ TallyInv /\ AllCalled

LEMMA AnewKeepsEntries ==
    ASSUME ThreadInv, EntryInv, NEW t \in Thread, LogsAnew(t)
    PROVE  EntryInv'
<1> USE DEF EntryInv
<1>1. pc'[t] \in {"check", "lockMap"} /\ frame'[t].op = "none"
  BY AnewFacts DEF NoFrame, NewFrame
<1>2. ASSUME NEW w \in Thread
      PROVE  Stored(w)'
  <2>1. UNCHANGED <<nodes, lists, pList>>
    BY AnewFacts
  <2>2. CASE w = t
    <3>1. Older(t)'
      BY <2>1, AnewFacts, ListType DEF ThreadInv, StoreInv, Stored, Older
    <3>2. entry'[t].id \in 1 .. MaxLogs
      BY AnewFacts, ListType DEF ThreadInv
    <3> QED
      BY <1>1, <2>1, <2>2, <3>1, <3>2, AnewFacts DEF StoreInv, Stored
  <2>3. CASE w # t
    <3>1. pc'[w] = pc[w] /\ entry'[w] = entry[w]
      BY <2>3, AnewFacts
    <3> QED
      BY <2>1, <3>1, OthersStayStored DEF Storing
  <2> QED
    BY <2>2, <2>3
<1>3. ASSUME NEW w \in Thread
      PROVE  Resets(w)'
  <2>1. CASE w = t
    BY <1>1, <2>1 DEF Resets
  <2>2. CASE w # t
    <3>1. /\ pc'[w] = pc[w] /\ frame'[w] = frame[w]
          /\ UNCHANGED <<nodes, lists>>
          /\ \A u \in Thread : pc'[u] = "append" => pc[u] = "append"
      BY <1>1, <2>2, AnewFacts
    <3> QED
      BY <3>1 DEF ResetInv, Resets, Past, Cleared
  <2> QED
    BY <2>1, <2>2
<1>4. ASSUME NEW w \in Thread
      PROVE  Tally(w)'
  <2>1. CASE w = t
    BY <1>1, <2>1, AnewFacts DEF Tally, NoFrame, NewFrame
  <2>2. CASE w # t
    <3>1. /\ pc'[w] = pc[w] /\ frame'[w] = frame[w]
          /\ UNCHANGED <<nodes, lists>>
      BY <2>2, AnewFacts
    <3> QED
      BY <3>1 DEF TallyInv, Tally, Behind, HeldEntries
  <2> QED
    BY <2>1, <2>2
<1>5. ASSUME NEW w \in Thread
      PROVE  Called(w)'
  <2>1. frame'[w] \in {frame[w], NoFrame}
    BY AnewFacts
  <2> QED
    BY <2>1 DEF AllCalled, Called, NoFrame, NewFrame
<1> QED
  BY <1>2, <1>3, <1>4, <1>5 DEF StoreInv, ResetInv, TallyInv, AllCalled

LEMMA ThreadKeepsEntries ==
    ASSUME ThreadInv, SLP!Counting, EntryInv, NEW t \in Thread,
           Run(t) \/ UserCall(t), Keeps(t)
    PROVE  EntryInv'
<1> USE DEF EntryInv
<1>1. Steady(t)
  BY KeepsSteady
<1>2. StoreInv'
  BY <1>1, ThreadInvPlaced, StoredThreadStep
<1>3. AllCalled'
  BY <1>1, ThreadInvPlaced, CalledThreadStep
<1>4. ASSUME NEW w \in Thread
      PROVE  Resets(w)' /\ Tally(w)'
  <2>1. Resets(w) /\ Tally(w)
    BY DEF ResetInv, TallyInv
  <2>2. CASE w = t
    BY <1>1, <2>1, <2>2, ThreadInvPlaced, OwnResetStep, OwnTallyStep
  <2>3. CASE w # t
    BY <1>1, <2>1, <2>3, ThreadInvPlaced, OtherResetStep, OtherTallyStep
  <2> QED
    BY <2>2, <2>3
<1> QED
  BY <1>2, <1>3, <1>4 DEF ResetInv, TallyInv

LEMMA RestKeepsEntries ==
    ASSUME EntryInv, UNCHANGED vars
    PROVE  EntryInv'
<1>1. StoreInv' /\ UNCHANGED <<nodes, lists, pc, frame>>
  BY StoredRests DEF EntryInv, vars, mapVars
<1>2. ResetInv' /\ TallyInv' /\ AllCalled'
  BY <1>1
     DEF EntryInv, ResetInv, Resets, Past, Cleared, TallyInv, Tally, Behind,
         HeldEntries, AllCalled, Called
<1> QED
  BY <1>1, <1>2 DEF EntryInv

LEMMA EntryInvInit == ProcessInit => EntryInv
  BY StoredInit, ResetInit, TallyInit, CalledInit DEF ProcessInit, EntryInv

\* A step of t that leaves it to others what is theirs, or one that leaves Log
\* as it is.
LEMMA StepKept ==
    ASSUME ProcessInv, NEW t \in Thread, Continue(t) \/ Interrupt(t)
    PROVE  \/ (Run(t) \/ UserCall(t)) /\ Keeps(t)
           \/ LogsAnew(t)
           \/ UNCHANGED vars
  BY ProcessSteps, ContinueKeeps, InterruptKeeps DEF ProcessInv, vars

LEMMA EntryInvStep ==
    ASSUME ProcessInv, EntryInv, [ProcessNext]_processVars
    PROVE  EntryInv' /\ [Store!Next]_(Store!storeVars)
<1>1. ASSUME NEW t \in Thread, Run(t) \/ UserCall(t), Keeps(t)
      PROVE  EntryInv' /\ [Store!Next]_(Store!storeVars)
  BY <1>1, ThreadKeepsEntries, ThreadInvPlaced, StoreThreadStep
     DEF ProcessInv, EntryInv
<1>2. ASSUME NEW t \in Thread, LogsAnew(t)
      PROVE  EntryInv' /\ [Store!Next]_(Store!storeVars)
  BY <1>2, AnewKeepsEntries, AnewFacts DEF ProcessInv, Store!storeVars
<1>3. ASSUME UNCHANGED vars
      PROVE  EntryInv' /\ [Store!Next]_(Store!storeVars)
  BY <1>3, RestKeepsEntries DEF vars, mapVars, Store!storeVars
<1>4. CASE \E t \in Thread : Continue(t) \/ Interrupt(t)
  BY <1>1, <1>2, <1>3, <1>4, StepKept
<1>5. CASE UNCHANGED processVars
  BY <1>3, <1>5 DEF processVars
<1> QED
  BY <1>4, <1>5 DEF ProcessNext, ProcessRest

LEMMA EntryInvariance == ProcessSpec => []EntryInv
  BY EntryInvInit, EntryInvStep, ProcessInvariance, PTL DEF ProcessSpec

\* The log-thread map implements the abstract store however many threads crash,
\* and wherever: a crash handler attaches and records as any log call does, and
\* what the sweep a crash interrupts has left of a list is in its old order.
THEOREM StoreSurvivesCrashes == ProcessSpec => StoreSpec
<1>1. ProcessInit => Store!Init
  BY DEF ProcessInit, Init, Store!Init
<1> QED
  BY <1>1, EntryInvStep, EntryInvariance, ProcessInvariance, PTL
     DEF ProcessSpec, StoreSpec, Store!Spec

\* When reset returns it has emptied the lists up to the stragglers, whatever
\* the other threads left behind when they crashed.
THEOREM ResetsSurviveCrashes == ProcessSpec => []ResetEmpties
<1>1. EntryInv => ResetEmpties
  BY DEF EntryInv, ResetInv, Resets, Past, Cleared, ResetEmpties
<1> QED
  BY <1>1, EntryInvariance, PTL

\* A count is never more than what the lists hold: no crash lets a reset or a
\* release of another thread slip into the sweep of the count.
THEOREM CountsSurviveCrashes == ProcessSpec => []TallyStands
<1>1. EntryInv => TallyStands
  BY DEF EntryInv, TallyInv, Tally, Behind, TallyStands
<1> QED
  BY <1>1, EntryInvariance, PTL

-----------------------------------------------------------------------------
(* Who logs an incident in a process that crashes                           *)

\* A step of Log, as the process lets t take it.
GoesOn(t) ==
    /\ Run(t) \/ UserCall(t)
    /\ pc[t] = "idle" => mode[t] = "user"
    /\ pc[t] = "open" /\ pc'[t] = "sweep" => DescriptorLeft
    /\ Denies(t) => entry[t] \in denied'
    /\ denied \subseteq denied'
    /\ UNCHANGED <<mode, leaked>>

\* A log call of the library: a crash in writeToFile leaves its file open.
StartsOver(t) ==
    /\ LogsAnew(t)
    /\ mode'[t] = "user" => "findLogFiles" \in Calls[t]
    /\ mode'[t] # "user" => \/ t \in Signalled \union Throwing
                             \/ mode[t] = "terminate" \/ pc[t] = "terminate"
    /\ \A w \in Thread \ {t} : mode'[w] = mode[w]
    /\ leaked' = IF Writing(t) THEN leaked + 1 ELSE leaked
    /\ UNCHANGED denied

\* A step that is none of Log: findLogFiles opens the directory, or exit().
OnlyLeaks ==
    /\ UNCHANGED <<vars, mode, denied>>
    /\ leaked' = leaked \/ (DescriptorLeft /\ leaked' = leaked + 1)

LEMMA CaseSteps ==
    ASSUME ProcessInv, NEW t \in Thread, Continue(t) \/ Interrupt(t)
    PROVE  \/ GoesOn(t) /\ Steady(t)
           \/ StartsOver(t)
           \/ OnlyLeaks
<1> USE DEF ProcessInv, ThreadInv
<1>1. CASE Proceed(t)
  <2>1. pc[t] # "idle"
    <3>1. CASE Logging(t)
      BY <3>1, GoToMoves
         DEF Logging, LockMap, InsertList, Check, EmplaceBack, StreamCount,
             StreamWrite, CallbackCount, Invoke
    <3>2. CASE LevelHandler(t)
      BY <3>2, GoToMoves
         DEF LevelHandler, HSuspend, HName, HStamp, HReset, HResume
    <3>3. CASE Operating(t)
      <4>1. Inside(t) \/ Leave(t)
        BY <3>3 DEF Operating, Inside
      <4> QED
        BY <4>1, ThreadInvPlaced, InsideKeeps, GoToMoves DEF Leave, CallLabels
    <3> QED
      BY <1>1, <3>1, <3>2, <3>3 DEF Proceed
  <2>2. Keeps(t)
    BY <1>1, LoggingKeeps, LevelHandlerKeeps, OperatingKeeps
       DEF Proceed, crashVars
  <2> QED
    BY <1>1, <2>1, <2>2, KeepsSteady
       DEF Proceed, OpenResult, GoesOn, Run, crashVars
<1>2. CASE UserStep(t)
  <2>1. pc[t] = "idle"
    BY <1>2, ConfiguringIdle
       DEF UserStep, UserCall, ResumeScope, Log, GoTo, CallOperation,
           SuspendScope, ReuseThreadId, May
  <2>2. Keeps(t)
    BY <1>2, UserKeeps DEF UserStep, crashVars
  <2> QED
    BY <1>2, <2>1, <2>2, KeepsSteady
       DEF UserStep, Denies, GoesOn, Run, crashVars
<1>3. CASE FindLogFiles(t)
  <2>1. CASE Log(t, "Warning") /\ leaked' = leaked
    BY <1>3, <2>1, GoToMoves
       DEF FindLogFiles, Log, Writing, StartsOver, LogsAnew, CrashTypeOK
  <2>2. CASE DescriptorLeft /\ leaked' = leaked + 1 /\ UNCHANGED vars
    BY <1>3, <2>2 DEF FindLogFiles, OnlyLeaks
  <2> QED
    BY <1>3, <2>1, <2>2 DEF FindLogFiles
<1>4. CASE Signal(t) \/ Throw(t) \/ LeaveNoexcept(t) \/ Abort(t)
  <2>1. LogFatal(t) /\ mode'[t] # "user"
    BY <1>4 DEF Signal, Throw, LeaveNoexcept, Abort, CrashTypeOK
  <2>2. /\ leaked' = IF Writing(t) THEN leaked + 1 ELSE leaked
        /\ UNCHANGED denied
    BY <2>1 DEF LogFatal, CrashTypeOK
  <2>3. \/ t \in Signalled \union Throwing
        \/ mode[t] = "terminate" \/ pc[t] = "terminate"
    BY <1>4 DEF Signal, Throw, LeaveNoexcept, Abort
  <2> QED
    BY <2>1, <2>2, <2>3, CrashType DEF StartsOver, LogsAnew
<1>5. CASE Exit(t)
  BY <1>5 DEF Exit, OnlyLeaks
<1> QED
  BY <1>1, <1>2, <1>3, <1>4, <1>5 DEF Continue, Interrupt, Crashing

LEMMA RemovalStep ==
    ASSUME ProcessInv, [ProcessNext]_processVars
    PROVE  [\A t \in Thread :
              AtSucceeds(t) =>
                  \/ AtSucceeds(t)' /\ (pc'[t] = "terminate" => pc[t] = "terminate")
                  \/ \E w \in Thread \ {t} : RemoveOutstreams(w) \/ RemoveCallbacks(w)
           ]_vars
<1> USE DEF ProcessInv
<1>1. ASSUME NEW t \in Thread, AtSucceeds(t),
             NEW w \in Thread, Continue(w) \/ Interrupt(w)
      PROVE  \/ AtKept(t)
             \/ \E x \in Thread \ {t} : RemoveOutstreams(x) \/ RemoveCallbacks(x)
  <2>1. CASE GoesOn(w) /\ Steady(w)
    BY <1>1, <2>1, ThreadInvPlaced, AtKeptStep DEF GoesOn
  <2>2. CASE StartsOver(w)
    <3>1. /\ UNCHANGED <<callbackMap, outStreams>>
          /\ pc'[w] \in {"check", "lockMap"}
          /\ w # t => pc'[t] = pc[t] /\ entry'[t] = entry[t]
      BY <1>1, <2>2, AnewFacts DEF StartsOver
    <3> QED
      BY <1>1, <3>1 DEF AtKept, AtSucceeds
  <2>3. CASE OnlyLeaks
    BY <1>1, <2>3 DEF OnlyLeaks, vars, configVars, AtKept, AtSucceeds
  <2> QED
    BY <1>1, <2>1, <2>2, <2>3, CaseSteps
<1> QED
  BY <1>1 DEF ProcessNext, ProcessRest, processVars, vars, AtKept

\* A crash takes nothing away that an at() of log relies on: whoever crashes,
\* only a removal by another thread ends log in std::terminate.
THEOREM RegistriesSurviveCrashes == ProcessSpec => OnlyRemovalTerminates
  BY RemovalStep, ProcessInvariance, PTL DEF ProcessSpec, OnlyRemovalTerminates

LEMMA LevelsAre == IncidentLevels = {"Warning", "Error", "Fatal"}
  BY DEF IncidentLevels, DefaultCallbacks, LogLevel

\* What the level of the latest entry of t tells of t: whether it has crashed,
\* what it logs, and whether it may be in logLevelHandler.
Typical(t) ==
    /\ mode[t] # "user" => entry[t].level \in IncidentLevels
    /\ mode[t] = "user" /\ ~(Logs[t] \subseteq IncidentLevels) =>
         entry[t].level \notin IncidentLevels
    /\ entry[t].level \notin IncidentLevels =>
         pc[t] \notin HandlerLabels /\ frame[t].ret = "idle"

AllTypical == callbackMap = DefaultCallbacks /\ \A t \in Thread : Typical(t)

LEMMA TypicalInit == ProcessInit => AllTypical
<1>1. "Trace" \notin IncidentLevels
  BY LevelsAre
<1> QED
  BY <1>1, ProcessAssumption
     DEF ProcessInit, Init, AllTypical, Typical, HandlerLabels, NoFrame, NewFrame

\* applyDefaultConfiguration, called again, registers the same callbacks.
LEMMA CallbacksStay ==
    ASSUME HandlerStays, callbackMap = DefaultCallbacks, NEW t \in Thread,
           Run(t) \/ UserCall(t)
    PROVE  callbackMap' = callbackMap
<1>1. CASE Logging(t)
  BY <1>1
     DEF Logging, LockMap, InsertList, Check, EmplaceBack, StreamCount,
         StreamWrite, CallbackCount, Invoke, configVars
<1>2. CASE LevelHandler(t)
  BY <1>2
     DEF LevelHandler, HSuspend, HName, HStamp, HReset, HResume, configVars
<1>3. CASE Operating(t)
  BY <1>3
     DEF Operating, Enter, Lock, Open, EndSweep, Leave, ResetList, ReleaseList,
         CountList, WriteList, configVars
<1>4. CASE ResumeScope(t)
  BY <1>4 DEF ResumeScope, configVars
<1>5. CASE UserCall(t) /\ ~Configuring(t)
  BY <1>5
     DEF UserCall, Log, CallOperation, SuspendScope, ReuseThreadId, configVars
<1>6. CASE Configuring(t)
  <2>1. ~RemoveCallbacks(t) /\ \A l \in LogLevel : ~RegisterCallback(t, l)
    BY DEF HandlerStays, NobodyCalls, RemoveCallbacks, RegisterCallback, May
  <2>2. ASSUME NEW folder \in Folders, ApplyDefaultConfiguration(t, folder)
        PROVE  callbackMap' = callbackMap
    BY <2>2 DEF ApplyDefaultConfiguration, DefaultCallbacks
  <2> QED
    BY <1>6, <2>1, <2>2
       DEF Configuring, RegisterOutstream, RegisterLogRetentionPolicy,
           RemoveOutstreams, RemoveLogRetentionPolicies
<1> QED
  BY <1>1, <1>2, <1>3, <1>4, <1>5, <1>6 DEF Run

\* A thread whose entry is no incident gets into no handler.
LEMMA StaysOutside ==
    ASSUME Placed, AllTypical, NEW t \in Thread, Run(t) \/ UserCall(t), Steady(t),
           entry[t].level \notin IncidentLevels
    PROVE  pc'[t] \notin HandlerLabels /\ frame'[t].ret = "idle"
<1>1. pc[t] \notin HandlerLabels /\ frame[t].ret = "idle"
  BY DEF AllTypical, Typical
<1>2. callbackMap[entry[t].level] # "levelHandler"
  <2>1. entry[t].level \in LogLevel
    BY DEF Placed, LogTypeOK, Entry
  <2> QED
    BY <2>1 DEF AllTypical, IncidentLevels
<1>3. ~(HSuspend(t) \/ HName(t) \/ HStamp(t) \/ HReset(t))
  BY <1>1, GoToMoves
     DEF Placed, HSuspend, HName, HStamp, HReset, HandlerLabels
<1>4. pc'[t] \notin HandlerLabels
  BY <1>1, <1>2, <1>3, HandlerSteps DEF HandlerLabels
<1>5. CASE pc'[t] \notin CallLabels
  BY <1>4, <1>5 DEF Steady, FrameFollowsCall, InCall, NoFrame, NewFrame
<1>6. CASE pc'[t] \in CallLabels
  <2>1. ASSUME NEW o, Calling(t, o, "idle")
        PROVE  frame'[t].ret = "idle"
    BY <2>1 DEF Calling, NewFrame
  <2>2. CASE Inside(t)
    BY <1>1, <1>4, <2>2, InsideKeeps
  <2> QED
    BY <1>3, <1>4, <1>6, <2>1, <2>2, CallSteps
<1> QED
  BY <1>4, <1>5, <1>6

LEMMA TypicalStep ==
    ASSUME ProcessInv, AllTypical, IncidentsApart, HandlerStays, NEW t \in Thread,
           Continue(t) \/ Interrupt(t)
    PROVE  AllTypical'
<1> USE DEF ProcessInv, ThreadInv
<1>0. ASSUME NEW w \in Thread \ {t}, pc'[w] = pc[w], frame'[w] = frame[w],
             entry'[w] = entry[w]
      PROVE  Typical(w)'
  BY <1>0, CrashType DEF AllTypical, Typical
<1>1. CASE GoesOn(t) /\ Steady(t)
  <2>1. callbackMap' = DefaultCallbacks
    BY <1>1, CallbacksStay DEF GoesOn, AllTypical
  <2>2. ASSUME NEW w \in Thread \ {t}
        PROVE  Typical(w)'
    BY <1>0, <1>1, EntryOfOthers DEF GoesOn, Steady, OthersUntouched
  <2>3. CASE entry' = entry
    <3>1. mode' = mode
      BY <1>1 DEF GoesOn
    <3>2. entry[t].level \notin IncidentLevels =>
            pc'[t] \notin HandlerLabels /\ frame'[t].ret = "idle"
      BY <1>1, ThreadInvPlaced, StaysOutside DEF GoesOn
    <3>3. Typical(t)'
      BY <2>3, <3>1, <3>2 DEF AllTypical, Typical
    <3> QED
      BY <2>1, <2>2, <3>3 DEF AllTypical
  <2>4. ASSUME NEW level \in Logs[t], Log(t, level)
        PROVE  AllTypical'
    <3>1. /\ pc[t] = "idle" /\ pc'[t] \in {"check", "lockMap"}
          /\ frame'[t] = frame[t] /\ entry'[t].level = level
      BY <2>4, GoToMoves DEF Log, LogTypeOK
    <3>2. mode'[t] = "user"
      BY <1>1, <3>1 DEF GoesOn
    <3>3. frame'[t].ret = "idle"
      BY <3>1 DEF Held, FrameFollowsCall, InCall, CallLabels, NoFrame, NewFrame
    <3>4. ~(Logs[t] \subseteq IncidentLevels) => level \notin IncidentLevels
      BY DEF IncidentsApart
    <3>5. Typical(t)'
      BY <3>1, <3>2, <3>3, <3>4 DEF Typical, HandlerLabels
    <3> QED
      BY <2>1, <2>2, <3>5 DEF AllTypical
  <2> QED
    BY <1>1, <2>3, <2>4, ThreadInvPlaced, EntrySteps DEF GoesOn
<1>2. CASE StartsOver(t)
  <2>1. LogsAnew(t)
    BY <1>2 DEF StartsOver
  <2>2. callbackMap' = DefaultCallbacks /\ \A w \in Thread \ {t} : Typical(w)'
    BY <1>0, <2>1, AnewFacts DEF AllTypical
  <2>3. mode'[t] = "user" => Logs[t] \subseteq IncidentLevels
    BY <1>2 DEF StartsOver, IncidentsApart
  <2>4. entry'[t].level \in IncidentLevels
    BY <2>1, AnewFacts, LevelsAre
  <2>5. Typical(t)'
    BY <2>3, <2>4 DEF Typical
  <2> QED
    BY <2>2, <2>5 DEF AllTypical
<1>3. CASE OnlyLeaks
  BY <1>3 DEF OnlyLeaks, vars, configVars, AllTypical, Typical
<1> QED
  BY <1>1, <1>2, <1>3, CaseSteps

LEMMA TypicalInvariance ==
    ASSUME IncidentsApart, HandlerStays
    PROVE  ProcessSpec => []AllTypical
<1>1. ProcessInv /\ AllTypical /\ [ProcessNext]_processVars => AllTypical'
  <2> SUFFICES ASSUME ProcessInv, AllTypical, [ProcessNext]_processVars
               PROVE  AllTypical'
    OBVIOUS
  <2>1. CASE UNCHANGED processVars
    BY <2>1 DEF processVars, crashVars, vars, configVars, AllTypical, Typical
  <2> QED
    BY <2>1, TypicalStep DEF ProcessNext, ProcessRest
<1> QED
  BY <1>1, TypicalInit, ProcessInvariance, PTL DEF ProcessSpec

\* No other thread's latest entry is an incident.
Quiet(t) == \A w \in Thread \ {t} : entry[w].level \notin IncidentLevels

\* No thread takes an incident of its own back by logging something else: when
\* it is quiet around t, it has been so all the time.
LEMMA QuietBefore ==
    ASSUME ProcessInv, AllTypical, IncidentsApart, NEW t \in Thread,
           NEW w \in Thread, Continue(w) \/ Interrupt(w), Quiet(t)'
    PROVE  Quiet(t) /\ (w # t => ~StartsOver(w))
<1> USE DEF ProcessInv, ThreadInv
<1>1. CASE GoesOn(w) /\ Steady(w)
  <2>0. entry'[w] # entry[w] => \E level \in Logs[w] : Log(w, level)
    BY <1>1, ThreadInvPlaced, EntrySteps DEF GoesOn
  <2>1. ASSUME NEW level \in Logs[w], Log(w, level), w # t
        PROVE  entry[w].level \notin IncidentLevels
    <3>1. level \notin IncidentLevels
      <4>1. entry'[w].level = level
        BY <2>1 DEF Log, LogTypeOK
      <4> QED
        BY <2>1, <4>1 DEF Quiet
    <3>2. mode[w] = "user"
      BY <1>1, <2>1, GoToMoves DEF GoesOn, Log
    <3> QED
      BY <3>1, <3>2 DEF AllTypical, Typical
  <2>2. \A x \in Thread \ {w} : entry'[x] = entry[x]
    BY <1>1, EntryOfOthers DEF GoesOn
  <2>3. Quiet(t)
    BY <2>0, <2>1, <2>2 DEF Quiet
  <2>4. ~StartsOver(w) \/ w = t
    <3>1. SUFFICES ASSUME StartsOver(w), w # t
                   PROVE  FALSE
      OBVIOUS
    <3>2. entry'[w].level \in IncidentLevels
      BY <3>1, AnewFacts, LevelsAre DEF StartsOver
    <3> QED
      BY <3>1, <3>2 DEF Quiet
  <2> QED
    BY <2>3, <2>4
<1>2. CASE StartsOver(w)
  <2>1. /\ entry'[w].level \in IncidentLevels
        /\ \A x \in Thread \ {w} : entry'[x] = entry[x]
    BY <1>2, AnewFacts, LevelsAre DEF StartsOver
  <2> QED
    BY <2>1 DEF Quiet
<1>3. CASE OnlyLeaks /\ ~StartsOver(w)
  BY <1>3 DEF OnlyLeaks, vars, Quiet
<1> QED
  BY <1>1, <1>2, <1>3, CaseSteps

-----------------------------------------------------------------------------
(* The descriptors                                                          *)

Writers == {w \in Thread : Writing(w)}

DescriptorInv == leaked + Cardinality(Writers) <= Descriptors

\* A file is opened at one label only.
LEMMA OpensFile ==
    ASSUME Placed, NEW t \in Thread, GoesOn(t), Writing(t)', ~Writing(t)
    PROVE  pc[t] = "open" /\ pc'[t] = "sweep"
<1> USE DEF Placed, Writing
<1>1. pc'[t] = "sweep" /\ frame'[t].op = "writeToFile"
  OBVIOUS
<1>2. Inside(t)
  BY <1>1, CallSteps DEF GoesOn, Calling, CallLabels
<1>3. frame[t].op = "writeToFile"
  BY <1>1, <1>2, InsideKeeps
<1>4. CASE Enter(t) \/ EndSweep(t)
  BY <1>1, <1>4, GoToMoves DEF Enter, EndSweep
<1>5. CASE Lock(t)
  BY <1>3, <1>5, GoToMoves DEF Lock, FrameFollowsCall, Locked
<1>6. CASE Open(t)
  BY <1>1, <1>6, GoToMoves DEF Open
<1>7. ASSUME NEW u \in nodes,
             \/ ResetList(t, u) \/ ReleaseList(t, u)
             \/ CountList(t, u) \/ WriteList(t, u)
      PROVE  FALSE
  BY <1>3, <1>7 DEF ResetList, ReleaseList, CountList, WriteList, Visits
<1> QED
  BY <1>2, <1>4, <1>5, <1>6, <1>7 DEF Inside

LEMMA WritersFinite ==
    ASSUME NEW W \in SUBSET Thread
    PROVE  /\ IsFiniteSet(W) /\ Cardinality(W) \in Nat
           /\ \A t \in W : /\ Cardinality(W \ {t}) \in Nat
                           /\ Cardinality(W \ {t}) = Cardinality(W) - 1
           /\ \A t \in Thread \ W : Cardinality(W \union {t}) = Cardinality(W) + 1
<1>1. IsFiniteSet(W) /\ \A t : IsFiniteSet(W \ {t})
  BY LogAssumption, FS_Subset
<1> QED
  BY <1>1, FS_CardinalityType, FS_RemoveElement, FS_AddElement

LEMMA DescriptorStep ==
    ASSUME ProcessInv, DescriptorInv, NEW t \in Thread, Continue(t) \/ Interrupt(t)
    PROVE  /\ DescriptorInv'
           /\ leaked = Descriptors => leaked' = Descriptors
<1> USE DEF ProcessInv, ThreadInv
<1>1. /\ leaked \in Nat /\ leaked' \in Nat /\ Descriptors \in Nat
      /\ Cardinality(Writers) \in Nat /\ Cardinality(Writers') \in Nat
      /\ Cardinality(Writers \ {t}) \in Nat
      /\ t \in Writers => Cardinality(Writers \ {t}) = Cardinality(Writers) - 1
      /\ t \notin Writers => Cardinality(Writers \union {t}) = Cardinality(Writers) + 1
  <2>1. Writers \in SUBSET Thread /\ Writers' \in SUBSET Thread
        /\ Writers \ {t} \in SUBSET Thread
    BY DEF Writers
  <2>2. leaked' \in Nat
    BY CrashType DEF CrashTypeOK
  <2> QED
    BY <2>1, <2>2, WritersFinite, ProcessAssumption DEF CrashTypeOK
<1>2. DescriptorLeft <=> leaked + Cardinality(Writers) < Descriptors
  BY DEF DescriptorLeft, Writers
<1>3. CASE GoesOn(t) /\ Steady(t)
  <2>1. \A w \in Thread \ {t} : Writing(w)' <=> Writing(w)
    BY <1>3 DEF Steady, OthersUntouched, Writing
  <2>2. CASE Writing(t)' <=> Writing(t)
    <3>1. Writers' = Writers
      BY <2>1, <2>2 DEF Writers
    <3> QED
      BY <1>1, <1>3, <3>1 DEF DescriptorInv, GoesOn
  <2>3. CASE Writing(t)' /\ ~Writing(t)
    <3>1. DescriptorLeft
      BY <1>3, <2>3, ThreadInvPlaced, OpensFile DEF GoesOn
    <3>2. Writers' = Writers \union {t} /\ t \notin Writers
      BY <2>1, <2>3 DEF Writers
    <3>3. Cardinality(Writers') = Cardinality(Writers) + 1
      BY <1>1, <3>2
    <3> QED
      BY <1>1, <1>2, <1>3, <3>1, <3>3 DEF DescriptorInv, GoesOn
  <2>4. CASE ~Writing(t)' /\ Writing(t)
    <3>1. Writers' = Writers \ {t} /\ t \in Writers
      BY <2>1, <2>4 DEF Writers
    <3>2. Cardinality(Writers') = Cardinality(Writers) - 1
      BY <1>1, <3>1
    <3> QED
      BY <1>1, <1>3, <3>2 DEF DescriptorInv, GoesOn
  <2> QED
    BY <2>2, <2>3, <2>4
<1>4. CASE StartsOver(t)
  <2>1. /\ pc'[t] \in {"check", "lockMap"}
        /\ \A w \in Thread \ {t} : Writing(w)' <=> Writing(w)
    BY <1>4, AnewFacts DEF StartsOver, Writing
  <2>2. Writers' = Writers \ {t}
    BY <2>1 DEF Writers, Writing
  <2>3. CASE Writing(t)
    <3>1. t \in Writers /\ leaked' = leaked + 1
      BY <1>4, <2>3 DEF StartsOver, Writers
    <3>2. Cardinality(Writers') = Cardinality(Writers) - 1
      BY <1>1, <2>2, <3>1
    <3> QED
      BY <1>1, <3>1, <3>2 DEF DescriptorInv
  <2>4. CASE ~Writing(t)
    <3>1. Writers' = Writers /\ leaked' = leaked
      BY <1>4, <2>2, <2>4 DEF StartsOver, Writers
    <3> QED
      BY <3>1 DEF DescriptorInv
  <2> QED
    BY <2>3, <2>4
<1>5. CASE OnlyLeaks
  <2>1. Writers' = Writers
    BY <1>5 DEF OnlyLeaks, vars, Writers, Writing
  <2> QED
    BY <1>1, <1>2, <1>5, <2>1 DEF OnlyLeaks, DescriptorInv
<1> QED
  BY <1>3, <1>4, <1>5, CaseSteps

LEMMA DescriptorInvariance == ProcessSpec => []DescriptorInv
<1>1. ProcessInit => DescriptorInv
  <2> SUFFICES ASSUME ProcessInit
               PROVE  DescriptorInv
    OBVIOUS
  <2>1. Writers = {}
    BY DEF ProcessInit, Init, Writers, Writing
  <2>2. Cardinality(Writers) = 0
    BY <2>1, FS_EmptySet
  <2> QED
    BY <2>2, ProcessAssumption DEF ProcessInit, DescriptorInv
<1>2. ProcessInv /\ DescriptorInv /\ [ProcessNext]_processVars => DescriptorInv'
  <2> SUFFICES ASSUME ProcessInv, DescriptorInv, [ProcessNext]_processVars
               PROVE  DescriptorInv'
    OBVIOUS
  <2>1. CASE UNCHANGED processVars
    <3>1. Writers' = Writers /\ leaked' = leaked
      BY <2>1 DEF processVars, crashVars, vars, Writers, Writing
    <3> QED
      BY <3>1 DEF DescriptorInv
  <2> QED
    BY <2>1, DescriptorStep DEF ProcessNext, ProcessRest
<1> QED
  BY <1>1, <1>2, ProcessInvariance, PTL DEF ProcessSpec

\* The only thread that logs incidents is the only one that opens files: its
\* open() fails because of what findLogFiles and crashes have leaked.
LEMMA OpenFails ==
    ASSUME ProcessInv, AllTypical, AllCalled, OnlyHandlerWrites, DescriptorInv,
           NEW t \in Thread, Quiet(t), pc[t] = "open", ~DescriptorLeft
    PROVE  leaked = Descriptors
<1>1. ASSUME NEW w \in Thread \ {t}
      PROVE  ~Writing(w)
  <2>1. frame[w].ret = "idle"
    BY DEF Quiet, AllTypical, Typical
  <2> QED
    BY <2>1
       DEF AllCalled, Called, OnlyHandlerWrites, NobodyCalls, Writing
<1>2. Writers = {}
  BY <1>1 DEF Writers, Writing
<1>3. Cardinality(Writers) = 0
  BY <1>2, FS_EmptySet
<1> QED
  BY <1>3, ProcessAssumption
     DEF DescriptorLeft, DescriptorInv, Writers, ProcessInv, CrashTypeOK

-----------------------------------------------------------------------------
(* What becomes of the incident a thread logs                               *)

\* Its entry is in a file, or its file could not be opened.
Reported(t) ==
    Written(entry[t]) \/ leaked = Descriptors \/ entry[t] \in denied

\* When the handler of t cannot open its file, that is for one of two reasons.
OpenExcused(t) ==
    pc[t] = "open" /\ pc'[t] # "sweep" /\ frame[t].ret = "hReset" =>
        leaked = Descriptors \/ entry[t] \in denied'

\* From where it stores its entry until it writes it, t has it at the end of
\* its list, whatever t is interrupted in later; from there on it is reported.
Carried(t) ==
    /\ pc[t] \in PrintLabels \union {"hSuspend", "hName", "hStamp"} => Latest(t)
    /\ frame[t].ret = "hName" => Latest(t)
    /\ frame[t].ret = "hReset" =>
         /\ pc[t] # "leave" => Latest(t)
         /\ pc[t] \in {"enter", "open"} => frame[t].cursor = NoThread
         /\ pc[t] \in {"sweep", "leave"} /\ Past(t, t) => Reported(t)
    /\ pc[t] \in {"hReset", "hResume"} => Reported(t)
    /\ frame[t].ret = "hResume" => Reported(t)

CarryInv == \A t \in Thread : Quiet(t) => Carried(t)

LEMMA ReportedStays ==
    ASSUME Placed, NEW w \in Thread, Run(w) \/ UserCall(w),
           UNCHANGED leaked, denied \subseteq denied',
           NEW t \in Thread, entry'[t] = entry[t], Reported(t)
    PROVE  Reported(t)'
<1>1. Written(entry[t]) => \A e : e = entry'[t] => Written(e)'
  BY WrittenStays
<1> QED
  BY <1>1 DEF Reported

\* The steps of t inside an operation leave its entry as it is.
LEMMA InsideKeepsEntry ==
    ASSUME Placed, NEW t \in Thread, Inside(t)
    PROVE  entry' = entry
  BY DEF Inside, Enter, Lock, Open, EndSweep, ResetList, ReleaseList,
         CountList, WriteList

\* The steps of t inside the operations the handler calls before reset.
LEMMA InsideKeepsLatest ==
    ASSUME Placed, NEW t \in Thread, Inside(t), frame[t].op # "reset",
           NewestStays, Latest(t)
    PROVE  Latest(t)'
<1> USE DEF Placed
<1>1. entry' = entry
  BY InsideKeepsEntry
<1>2. UNCHANGED lists \/ \E u \in nodes : ReleaseList(t, u)
  BY DEF Inside, Enter, Lock, Open, EndSweep, ResetList, Visits, CountList,
         WriteList, mapVars
<1>3. CASE UNCHANGED lists
  BY <1>1, <1>3 DEF Latest
<1> QED
  BY <1>2, <1>3, LatestStays

\* The steps of t inside the writeToFile of the handler.
LEMMA WritingCarried ==
    ASSUME Placed, StoreInv, NEW t \in Thread, Inside(t), frame[t].ret = "hReset",
           Carried(t), NewestStays, Format = "String",
           UNCHANGED leaked, denied \subseteq denied', OpenExcused(t)
    PROVE  Carried(t)'
<1> USE DEF Placed
<1>0. Run(t)
  BY DEF Inside, Run, Operating
<1>1. /\ frame[t].op = "writeToFile"
      /\ pc[t] \in CallLabels /\ frame'[t].ret = "hReset"
      /\ entry' = entry
  BY InsideKeeps, InsideKeepsEntry DEF FrameFollowsCall
<1>2. Latest(t) => Latest(t)'
  BY <1>1, InsideKeepsLatest
<1>3. Reported(t) => Reported(t)'
  BY <1>0, <1>1, ReportedStays
<1>4. frame[t] \in Frame /\ t \in Nat \ {0} /\ NoThread = 0
  BY LogAssumption DEF LogTypeOK, NoThread
<1>5. ASSUME pc'[t] \in CallLabels,
             pc'[t] # "leave" => Latest(t),
             pc'[t] \in {"enter", "open"} => frame'[t].cursor = NoThread,
             pc'[t] \in {"sweep", "leave"} /\ Past(t, t)' => Reported(t)'
      PROVE  Carried(t)'
  BY <1>1, <1>2, <1>5 DEF Carried, PrintLabels, CallLabels
<1>6. CASE Enter(t)
  <2>1. pc[t] = "enter" /\ pc'[t] = "open" /\ frame' = frame
    BY <1>1, <1>6, GoToMoves DEF Enter, Locked
  <2> QED
    BY <1>1, <1>5, <2>1 DEF Carried, CallLabels
<1>7. CASE Lock(t)
  BY <1>1, <1>7, GoToMoves DEF Lock, FrameFollowsCall, Locked
<1>8. CASE Open(t)
  <2>1. /\ pc[t] = "open" /\ pc'[t] \in {"sweep", "leave"}
        /\ frame'[t].cursor = NoThread /\ nodes' = nodes
    <3>1. pc[t] = "open" /\ pc'[t] \in {"sweep", "leave"}
      BY <1>8, GoToMoves DEF Open
    <3>2. frame'[t].cursor = frame[t].cursor /\ nodes' = nodes
      BY <1>4, <1>8 DEF Open, LogTypeOK, Frame, mapVars
    <3> QED
      BY <3>1, <3>2 DEF Carried
  <2>2. Latest(t)
    BY <2>1 DEF Carried
  <2>3. t \in nodes
    BY <2>2, EmptySeq DEF StoreInv, Stored, Latest
  <2>4. CASE pc'[t] = "sweep"
    <3>1. ~Past(t, t)'
      BY <1>4, <2>1, <2>3, <2>4 DEF Past
    <3> QED
      BY <1>5, <2>2, <2>4, <3>1 DEF CallLabels
  <2>5. CASE pc'[t] = "leave"
    BY <1>1, <1>3, <1>5, <2>1, <2>5 DEF OpenExcused, Reported, CallLabels
  <2> QED
    BY <2>1, <2>4, <2>5
<1>9. CASE EndSweep(t)
  <2>1. /\ pc[t] = "sweep" /\ pc'[t] = "leave"
        /\ \A u \in nodes : u <= frame[t].cursor
    BY <1>9, GoToMoves DEF EndSweep
  <2>2. Reported(t)
    BY <1>1, <2>1 DEF Carried, Past
  <2> QED
    BY <1>3, <1>5, <2>1, <2>2 DEF CallLabels
<1>10. ASSUME NEW u \in nodes, WriteList(t, u)
       PROVE  Carried(t)'
  <2>1. /\ pc[t] = "sweep" /\ pc'[t] = "sweep" /\ nodes' = nodes
        /\ IsNext(t, u)
    BY <1>10 DEF WriteList, Visits, mapVars
  <2>2. frame'[t].cursor = u
    BY <1>4, <1>10 DEF WriteList, LogTypeOK, Frame
  <2>3. Latest(t)
    BY <1>1, <2>1 DEF Carried
  <2>4. ASSUME Past(t, t)'
        PROVE  Reported(t)'
    <3>1. CASE t = u
      <4>1. \A e : e = entry'[t] => Written(e)'
        BY <1>1, <1>10, <2>3, <3>1, ListType, ListWritten DEF Latest
      <4> QED
        BY <4>1 DEF Reported
    <3>2. CASE t # u
      <4>1. u \in Nat
        BY LogAssumption DEF LogTypeOK
      <4>2. Past(t, t)
        BY <1>4, <2>1, <2>2, <2>4, <3>2, <4>1 DEF Past, IsNext
      <4> QED
        BY <1>1, <1>3, <2>1, <4>2 DEF Carried
    <3> QED
      BY <3>1, <3>2
  <2> QED
    BY <1>5, <2>1, <2>3, <2>4 DEF CallLabels
<1>11. ASSUME NEW u \in nodes,
              ResetList(t, u) \/ ReleaseList(t, u) \/ CountList(t, u)
       PROVE  FALSE
  BY <1>1, <1>11 DEF ResetList, ReleaseList, CountList, Visits
<1> QED
  BY <1>6, <1>7, <1>8, <1>9, <1>10, <1>11 DEF Inside

LEMMA OwnCarriedStep ==
    ASSUME Placed, StoreInv, AllCalled, NEW t \in Thread, Run(t) \/ UserCall(t),
           Steady(t), Carried(t), NewestStays, Format = "String",
           UNCHANGED leaked, denied \subseteq denied', OpenExcused(t)
    PROVE  Carried(t)'
<1> USE DEF Placed, PrintLabels
<1>1. entry'[t] = entry[t] /\ Reported(t) => Reported(t)'
  BY ReportedStays
<1>2. ASSUME pc[t] \notin {"idle", "append", "sweep"}
      PROVE  UNCHANGED <<lists, entry>>
  <2>1. /\ ~EmplaceBack(t)
        /\ \A u \in nodes : ~ResetList(t, u) /\ ~ReleaseList(t, u)
        /\ \A level \in Logs[t] : ~Log(t, level)
    BY <1>2, GoToMoves DEF EmplaceBack, ResetList, ReleaseList, Visits, Log
  <2> QED
    BY <2>1, SharedSteps, EntrySteps
<1>3. CASE pc'[t] \notin CallLabels
  <2>1. frame'[t].ret = "idle"
    BY <1>3 DEF Steady, FrameFollowsCall, InCall, NoFrame, NewFrame
  <2>2. CASE pc'[t] \in PrintLabels
    <3>1. CASE EmplaceBack(t)
      <4>1. /\ lists'[t] = Append(lists[t], entry[t])
            /\ entry[t] \in Entry /\ entry' = entry
        BY <3>1 DEF EmplaceBack, LogTypeOK
      <4>2. /\ Len(lists'[t]) = Len(lists[t]) + 1
            /\ lists'[t][Len(lists[t]) + 1] = entry[t]
            /\ Len(lists[t]) \in Nat
        BY <4>1, ListType, AppendProperties
      <4>3. Latest(t)'
        BY <4>1, <4>2 DEF Latest
      <4> QED
        BY <2>1, <2>2, <4>3 DEF Carried
    <3>2. CASE pc[t] \in PrintLabels
      BY <1>2, <2>1, <2>2, <3>2 DEF Carried, Latest
    <3> QED
      BY <2>2, <3>1, <3>2, PrintSteps
  <2>3. CASE pc'[t] \in HandlerLabels
    <3>1. CASE Invoke(t) /\ pc'[t] = "hSuspend"
      BY <1>2, <2>1, <3>1 DEF Invoke, Carried, Latest
    <3>2. CASE HName(t) /\ pc'[t] = "hStamp"
      BY <1>2, <2>1, <3>2 DEF HName, Carried, Latest
    <3>3. CASE Leave(t) /\ pc'[t] = frame[t].ret
      <4>1. pc[t] = "leave" /\ UNCHANGED <<lists, entry>>
        BY <1>2, <3>3 DEF Leave, GoTo
      <4>2. CASE frame[t].ret = "hName"
        BY <2>1, <3>3, <4>1, <4>2 DEF Carried, Latest
      <4>3. CASE frame[t].ret \in {"hReset", "hResume"}
        <5>1. Reported(t)
          BY <4>1, <4>3 DEF Carried, Past
        <5>2. Reported(t)'
          BY <1>1, <4>1, <5>1
        <5> QED
          BY <2>1, <3>3, <4>3, <5>2 DEF Carried
      <4> QED
        BY <2>3, <3>3, <4>2, <4>3 DEF FrameFollowsCall, HandlerLabels
    <3> QED
      BY <2>3, <3>1, <3>2, <3>3, HandlerSteps
  <2>4. CASE pc'[t] \notin PrintLabels \union HandlerLabels
    BY <2>1, <2>4 DEF Carried, HandlerLabels
  <2> QED
    BY <2>2, <2>3, <2>4
<1>4. CASE pc'[t] \in CallLabels
  <2>0. pc'[t] \notin PrintLabels \union HandlerLabels
    BY <1>4 DEF CallLabels, HandlerLabels
  <2>1. ASSUME NEW o, Calling(t, o, "idle")
        PROVE  Carried(t)'
    BY <2>0, <2>1 DEF Calling, NewFrame, Carried, HandlerLabels
  <2>2. CASE HSuspend(t) /\ Calling(t, "releaseLogs", "hName")
    BY <1>2, <2>0, <2>2
       DEF HSuspend, Calling, NewFrame, Carried, Latest, HandlerLabels
  <2>3. CASE (HName(t) \/ HStamp(t)) /\ Calling(t, "writeToFile", "hReset")
    <3>1. pc[t] \in {"hName", "hStamp"}
      BY <2>3 DEF HName, HStamp
    <3>2. Latest(t)'
      BY <1>2, <3>1 DEF Carried, Latest
    <3>3. /\ pc'[t] = "enter" /\ frame'[t].ret = "hReset"
          /\ frame'[t].cursor = NoThread
      BY <2>3 DEF Calling, NewFrame
    <3> QED
      BY <3>2, <3>3 DEF Carried
  <2>4. CASE HReset(t) /\ Calling(t, "reset", "hResume")
    <3>1. pc[t] = "hReset"
      BY <2>4 DEF HReset
    <3>2. Reported(t)'
      BY <1>1, <1>2, <3>1 DEF Carried
    <3> QED
      BY <2>0, <2>4, <3>2 DEF Calling, NewFrame, Carried, HandlerLabels
  <2>5. CASE Inside(t)
    <3>1. /\ pc[t] \in CallLabels /\ frame'[t].ret = frame[t].ret
          /\ entry' = entry
      BY <2>5, InsideKeeps, InsideKeepsEntry
    <3>2. CASE frame[t].ret = "hName"
      <4>1. Latest(t) /\ frame[t].op # "reset"
        BY <3>2 DEF Carried, AllCalled, Called
      <4>2. Latest(t)'
        BY <2>5, <4>1, InsideKeepsLatest
      <4> QED
        BY <2>0, <3>1, <3>2, <4>2 DEF Carried, HandlerLabels
    <3>3. CASE frame[t].ret = "hReset"
      BY <2>5, <3>3, WritingCarried
    <3>4. CASE frame[t].ret = "hResume"
      <4>1. Reported(t)'
        BY <1>1, <3>1, <3>4 DEF Carried
      <4> QED
        BY <2>0, <3>1, <3>4, <4>1 DEF Carried, HandlerLabels
    <3>5. CASE frame[t].ret = "idle"
      BY <2>0, <3>1, <3>5 DEF Carried, HandlerLabels
    <3> QED
      BY <3>2, <3>3, <3>4, <3>5 DEF FrameFollowsCall
  <2> QED
    BY <1>4, <2>1, <2>2, <2>3, <2>4, <2>5, CallSteps
<1> QED
  BY <1>3, <1>4

\* Only the handler of t clears lists.
LEMMA OtherCarriedStep ==
    ASSUME Placed, AllTypical, AllCalled, OnlyHandlerWrites, NewestStays,
           NEW t \in Thread, Quiet(t), Carried(t),
           NEW w \in Thread \ {t}, Run(w) \/ UserCall(w), Steady(w),
           UNCHANGED leaked, denied \subseteq denied'
    PROVE  Carried(t)'
<1> USE DEF Placed
<1>1. pc'[t] = pc[t] /\ frame'[t] = frame[t] /\ entry'[t] = entry[t]
  BY EntryOfOthers DEF Steady, OthersUntouched
<1>2. Reported(t) => Reported(t)'
  BY <1>1, ReportedStays
<1>3. ASSUME Latest(t)
      PROVE  Latest(t)'
  <2>1. CASE UNCHANGED lists
    BY <1>1, <1>3, <2>1 DEF Latest
  <2>2. CASE EmplaceBack(w)
    <3>1. lists'[t] = lists[t]
      BY <2>2 DEF EmplaceBack, LogTypeOK
    <3> QED
      BY <1>1, <1>3, <3>1 DEF Latest
  <2>3. ASSUME NEW u \in nodes, ReleaseList(w, u)
        PROVE  Latest(t)'
    BY <1>3, <2>3, LatestStays
  <2>4. ASSUME NEW u \in nodes, ResetList(w, u)
        PROVE  FALSE
    <3>1. frame[w].op = "reset"
      BY <2>4 DEF ResetList, Visits
    <3>2. frame[w].ret = "idle"
      BY DEF Quiet, AllTypical, Typical
    <3> QED
      BY <3>1, <3>2 DEF AllCalled, Called, OnlyHandlerWrites, NobodyCalls
  <2> QED
    BY <2>1, <2>2, <2>3, <2>4, SharedSteps
<1>4. Past(t, t)' => Past(t, t)
  <2>1. nodes \subseteq nodes'
    BY MapSteps
       DEF Log, InsertList, EmplaceBack, ReuseThreadId, TakesSome, Takes,
           MapUntouched, mapVars
  <2> QED
    BY <1>1, <2>1 DEF Past
<1> QED
  BY <1>1, <1>2, <1>3, <1>4 DEF Carried

LEMMA CarryStep ==
    ASSUME ProcessInv, EntryInv, AllTypical, DescriptorInv, CarryInv,
           IncidentsApart, OnlyHandlerWrites, NewestStays, Format = "String",
           NEW w \in Thread, Continue(w) \/ Interrupt(w)
    PROVE  CarryInv'
<1> USE DEF ProcessInv, EntryInv
<1>1. SUFFICES ASSUME NEW t \in Thread, Quiet(t)'
               PROVE  Carried(t)'
  BY DEF CarryInv
<1>2. Quiet(t) /\ Carried(t) /\ (w # t => ~StartsOver(w))
  BY <1>1, QuietBefore DEF CarryInv
<1>3. CASE GoesOn(w) /\ Steady(w) /\ w = t
  <2>1. OpenExcused(t)
    BY <1>2, <1>3, OpenFails DEF GoesOn, Denies, OpenExcused
  <2> QED
    BY <1>2, <1>3, <2>1, ThreadInvPlaced, OwnCarriedStep DEF GoesOn
<1>4. CASE GoesOn(w) /\ Steady(w) /\ w # t
  BY <1>2, <1>4, ThreadInvPlaced, OtherCarriedStep DEF GoesOn
<1>5. CASE StartsOver(w)
  <2>1. pc'[t] \in {"check", "lockMap"} /\ frame'[t] = NoFrame
    BY <1>2, <1>5, AnewFacts DEF StartsOver
  <2> QED
    BY <2>1 DEF Carried, PrintLabels, NoFrame, NewFrame
<1>6. CASE OnlyLeaks
  <2>1. leaked = Descriptors => leaked' = Descriptors
    BY DescriptorStep
  <2>2. UNCHANGED <<nodes, lists, pc, frame, entry, files, denied>>
    BY <1>6 DEF OnlyLeaks, vars, mapVars, fileVars
  <2>3. Reported(t) => Reported(t)'
    BY <2>1, <2>2 DEF Reported, Written
  <2> QED
    BY <1>2, <2>2, <2>3 DEF Carried, Latest, Past
<1> QED
  BY <1>3, <1>4, <1>5, <1>6, CaseSteps

\* The steps by which a call of log returns to the user's code, except from a
\* user's callback in the middle of an operation.
LEMMA ReturnSteps ==
    ASSUME Placed, NEW t \in Thread, Run(t) \/ UserCall(t),
           pc[t] \in LogLabels \union HandlerLabels, pc'[t] = "idle"
    PROVE  \/ pc[t] = "check" /\ SL!Suspended
           \/ callbackMap[entry[t].level] \in {"none", "user"}
           \/ pc[t] = "hResume"
<1> USE DEF Placed, LogLabels, HandlerLabels
<1>1. CASE Logging(t)
  BY <1>1, GoToMoves, CallMoves
     DEF Logging, LockMap, InsertList, Check, EmplaceBack, StreamCount,
         StreamWrite, CallbackCount, Invoke
<1>2. CASE LevelHandler(t)
  BY <1>2, GoToMoves, CallMoves
     DEF LevelHandler, HSuspend, HName, HStamp, HReset, HResume
<1>3. CASE Operating(t)
  <2>1. pc[t] \in CallLabels
    BY <1>3, InsideKeeps, GoToMoves DEF Operating, Inside, Leave, CallLabels
  <2> QED
    BY <2>1 DEF CallLabels
<1>4. CASE ResumeScope(t)
  BY <1>4 DEF ResumeScope
<1>5. CASE UserCall(t)
  BY <1>5, ConfiguringIdle
     DEF UserCall, Log, GoTo, CallOperation, SuspendScope, ReuseThreadId, May
<1> QED
  BY <1>1, <1>2, <1>3, <1>4, <1>5 DEF Run

\* Where logLevelHandler stays registered and alone uses the log, an incident
\* is accounted for whatever crashes: the call that logged it returns with the
\* incident in a file, or it found logging suspended, or all descriptors are
\* leaked, or the folder did not let its handler open the file.  The Fatal entry of a crash is one of those incidents, and a crash
\* may interrupt the handler of another.
THEOREM IncidentsAccounted ==
    ASSUME IncidentsApart, HandlerStays, OnlyHandlerWrites, NewestStays,
           Format = "String"
    PROVE  ProcessSpec => IncidentAccounted
<1>1. ProcessInit => CarryInv
  BY DEF ProcessInit, Init, CarryInv, Carried, PrintLabels, NoFrame, NewFrame
<1>2. ProcessInv /\ EntryInv /\ AllTypical /\ DescriptorInv /\ CarryInv
        /\ [ProcessNext]_processVars => CarryInv'
  <2> SUFFICES ASSUME ProcessInv, EntryInv, AllTypical, DescriptorInv, CarryInv,
                      [ProcessNext]_processVars
               PROVE  CarryInv'
    OBVIOUS
  <2>1. CASE UNCHANGED processVars
    <3>1. UNCHANGED <<nodes, lists, pc, frame, entry, files, leaked, denied>>
      BY <2>1 DEF processVars, crashVars, vars, mapVars, fileVars
    <3> QED
      BY <3>1 DEF CarryInv, Quiet, Carried, Latest, Past, Reported, Written
  <2> QED
    BY <2>1, CarryStep DEF ProcessNext, ProcessRest
<1>3. ASSUME ProcessInv, AllTypical, CarryInv, ProcessNext, NEW t \in Thread,
             Incident(entry[t].level), pc[t] \in LogLabels \union HandlerLabels,
             pc'[t] = "idle",
             \A w \in Thread \ {t} : ~Incident(entry[w].level)
      PROVE  \/ pc[t] = "check" /\ SL!Suspended
             \/ Written(entry[t])
             \/ leaked = Descriptors
             \/ entry[t] \in denied
  <2> USE DEF ProcessInv
  <2>1. pc[t] # "idle"
    BY <1>3 DEF LogLabels, HandlerLabels
  <2>2. PICK w \in Thread : Continue(w) \/ Interrupt(w)
    BY <1>3, <2>1 DEF ProcessNext, ProcessRest, processVars, vars
  <2>3. GoesOn(t) /\ Steady(t)
    <3>1. CASE GoesOn(w) /\ Steady(w)
      BY <1>3, <2>1, <3>1 DEF Steady, OthersUntouched
    <3>2. CASE StartsOver(w)
      BY <1>3, <2>1, <3>2, AnewFacts DEF StartsOver
    <3>3. CASE OnlyLeaks
      BY <1>3, <2>1, <3>3 DEF OnlyLeaks, vars
    <3> QED
      BY <1>3, <2>2, <3>1, <3>2, <3>3, CaseSteps
  <2>4. Quiet(t) /\ entry[t].level \in IncidentLevels
    BY <1>3, LevelsAre DEF Quiet, Incident
  <2>5. callbackMap[entry[t].level] \notin {"none", "user"}
    BY <1>3, <2>4 DEF AllTypical, IncidentLevels
  <2>6. Carried(t)
    BY <1>3, <2>4 DEF CarryInv
  <2>7. CASE pc[t] = "hResume"
    BY <2>6, <2>7 DEF Carried, Reported
  <2> QED
    BY <1>3, <2>3, <2>5, <2>7, ThreadInvPlaced, ReturnSteps DEF GoesOn
<1>4. ProcessInv /\ AllTypical /\ CarryInv /\ [ProcessNext]_processVars =>
        [\A t \in Thread :
            /\ Incident(entry[t].level)
            /\ pc[t] \in LogLabels \union HandlerLabels
            /\ pc'[t] = "idle"
            /\ \A w \in Thread \ {t} : ~Incident(entry[w].level)
            => \/ pc[t] = "check" /\ SL!Suspended
               \/ Written(entry[t])
               \/ leaked = Descriptors
               \/ entry[t] \in denied]_processVars
  BY <1>3
<1> QED
  BY <1>1, <1>2, <1>4, EntryInvariance, TypicalInvariance, DescriptorInvariance,
     ProcessInvariance, PTL DEF ProcessSpec, IncidentAccounted

-----------------------------------------------------------------------------
(* The files of a process in which one thread logs incidents and crashes    *)

\* Alone of LogFileProofs, and no other thread crashes.
Lone(i) ==
    /\ Alone(i)
    /\ \A w \in Thread \ {i} :
          mode[w] = "user" /\ pc[w] # "terminate" /\ AtSucceeds(w)

LEMMA LoneInit ==
    ASSUME NEW i \in Thread, ProcessInit
    PROVE  Lone(i)
<1>1. Alone(i)
  BY AloneInit DEF ProcessInit
<1> QED
  BY <1>1 DEF ProcessInit, Init, Lone, AtSucceeds

LEMMA OthersStayUnharmed ==
    ASSUME ProcessInv, NEW i \in Thread, OnlyOneCrashes(i), Lone(i),
           NEW t \in Thread, GoesOn(t), Steady(t), NEW w \in Thread \ {i}
    PROVE  mode'[w] = "user" /\ pc'[w] # "terminate" /\ AtSucceeds(w)'
<1>1. ~(t # w /\ (RemoveOutstreams(t) \/ RemoveCallbacks(t)))
  BY DEF OnlyOneCrashes, RemoveOutstreams, RemoveCallbacks, May
<1>2. AtKept(w)
  BY <1>1, ThreadInvPlaced, AtKeptStep DEF ProcessInv, GoesOn, Lone
<1> QED
  BY <1>2 DEF GoesOn, Lone, AtKept

\* The others have no reason to crash.
LEMMA StartsOverAlone ==
    ASSUME NEW i \in Thread, OnlyOneCrashes(i), Lone(i),
           NEW t \in Thread, StartsOver(t)
    PROVE  t = i
<1> SUFFICES ASSUME t # i
             PROVE  FALSE
  OBVIOUS
<1>1. mode[t] = "user" /\ pc[t] # "terminate"
  BY DEF Lone
<1>2. "findLogFiles" \notin Calls[t] /\ t \notin Signalled \union Throwing
  BY DEF OnlyOneCrashes
<1> QED
  BY <1>1, <1>2 DEF StartsOver

LEMMA LoneStep ==
    ASSUME ProcessInv, NEW i \in Thread, OnlyOneCrashes(i), Lone(i),
           NEW t \in Thread, Continue(t) \/ Interrupt(t)
    PROVE  Lone(i)'
<1> USE DEF ProcessInv
<1>1. CASE GoesOn(t) /\ Steady(t)
  <2>1. Alone(i)'
    BY <1>1, ThreadInvPlaced, AloneThreadStep DEF GoesOn, Lone, OnlyOneCrashes
  <2> QED
    BY <1>1, <2>1, OthersStayUnharmed DEF Lone
<1>2. CASE StartsOver(t)
  <2>1. LogsAnew(t) /\ t = i
    BY <1>2, StartsOverAlone DEF StartsOver
  <2>2. /\ pc'[i] \in {"check", "lockMap"}
        /\ UNCHANGED <<callbackMap, outStreams>>
        /\ \A w \in Thread \ {i} : /\ pc'[w] = pc[w] /\ frame'[w] = frame[w]
                                   /\ entry'[w] = entry[w]
                                   /\ mode'[w] = mode[w]
    BY <1>2, <2>1, AnewFacts DEF StartsOver
  <2>3. Alone(i)'
    BY <2>2 DEF Lone, Alone
  <2> QED
    BY <2>2, <2>3 DEF Lone, AtSucceeds
<1>3. CASE OnlyLeaks
  BY <1>3 DEF OnlyLeaks, vars, configVars, fileVars, Lone, Alone, AtSucceeds
<1> QED
  BY <1>1, <1>2, <1>3, CaseSteps

LEMMA LoneInvariance ==
    ASSUME NEW i \in Thread, OnlyOneCrashes(i)
    PROVE  ProcessSpec => []Lone(i)
<1>1. ProcessInit => Lone(i)
  BY LoneInit
<1>2. ProcessInv /\ Lone(i) /\ [ProcessNext]_processVars => Lone(i)'
  <2> SUFFICES ASSUME ProcessInv, Lone(i), [ProcessNext]_processVars
               PROVE  Lone(i)'
    OBVIOUS
  <2>1. CASE UNCHANGED processVars
    BY <2>1 DEF processVars, crashVars, vars, configVars, fileVars, Lone, Alone,
                AtSucceeds
  <2> QED
    BY <2>1, LoneStep DEF ProcessNext, ProcessRest
<1> QED
  BY <1>1, <1>2, ProcessInvariance, PTL DEF ProcessSpec

\* In a process in which one thread logs the incidents and crashes, the Fatal
\* entries go to the log file of the incidents before: a crash keeps the name,
\* and nobody but the crashed thread would make another.
THEOREM SameFileSurvivesCrashes ==
    ASSUME NEW i \in Thread, OnlyOneCrashes(i)
    PROVE  ProcessSpec => SameLogFile
<1>1. ProcessInv /\ Lone(i) /\ [ProcessNext]_processVars =>
        [logFilename # NoFile => logFilename' = logFilename]_vars
  <2> SUFFICES ASSUME ProcessInv, Lone(i), [ProcessNext]_processVars,
                      logFilename # NoFile
               PROVE  logFilename' = logFilename
    OBVIOUS
  <2>1. ASSUME NEW t \in Thread, GoesOn(t)
        PROVE  logFilename' = logFilename
    <3>1. ~HStamp(t)
      BY DEF HStamp, Lone, Alone, HandlerLabels
    <3> QED
      BY <2>1, <3>1, ThreadInvPlaced, SharedSteps DEF ProcessInv, GoesOn
  <2>2. ASSUME NEW t \in Thread, StartsOver(t)
        PROVE  logFilename' = logFilename
    BY <2>2, AnewFacts DEF StartsOver, ProcessInv
  <2>3. CASE UNCHANGED vars
    BY <2>3 DEF vars, fileVars
  <2> QED
    BY <2>1, <2>2, <2>3, CaseSteps
       DEF ProcessNext, ProcessRest, processVars, OnlyLeaks
<1> QED
  BY <1>1, LoneInvariance, ProcessInvariance, PTL DEF ProcessSpec, SameLogFile

\* A crash has interrupted logLevelHandler of i: its guard stays, and whatever
\* log call i makes from now on ends at the check.
Dead(i) == <<i, "handler">> \in guards /\ ~InHandler(i)

\* Until then, what Filed says of the entries of the files holds; after that the
\* files do not change.
FileInv(i) ==
    /\ \A f \in FileName : InOrder(files[f])
    /\ Filed(i) \/ Dead(i)

\* A thread that comes into logLevelHandler comes through its first line.
LEMMA EntersHandler ==
    ASSUME Placed, NEW t \in Thread, Run(t) \/ UserCall(t), Steady(t),
           ~InHandler(t), InHandler(t)'
    PROVE  pc[t] = "hSuspend"
<1> USE DEF Placed
<1>1. pc[t] \notin HandlerLabels \ {"hSuspend"}
  BY DEF InHandler
<1>2. CASE pc'[t] \in HandlerLabels \ {"hSuspend"}
  <2>1. CASE HName(t)
    BY <1>1, <2>1 DEF HName, HandlerLabels
  <2>2. CASE Leave(t) /\ pc'[t] = frame[t].ret
    <3>1. pc[t] = "leave"
      BY <2>2, GoToMoves DEF Leave
    <3> QED
      BY <1>2, <2>2, <3>1 DEF InHandler, InCall, CallLabels
  <2> QED
    BY <1>2, <2>1, <2>2, HandlerSteps DEF HandlerLabels
<1>3. CASE pc'[t] \in CallLabels /\ frame'[t].ret \in HandlerLabels
  <2>1. CASE HSuspend(t)
    BY <2>1, GoToMoves, CallMoves DEF HSuspend
  <2>2. CASE HName(t) \/ HStamp(t) \/ HReset(t)
    BY <1>1, <2>2, GoToMoves DEF HName, HStamp, HReset, HandlerLabels
  <2>3. ASSUME NEW o, Calling(t, o, "idle")
        PROVE  FALSE
    BY <1>3, <2>3 DEF Calling, NewFrame, HandlerLabels
  <2>4. CASE Inside(t)
    BY <1>3, <2>4, InsideKeeps DEF InHandler, InCall
  <2> QED
    BY <1>3, <2>1, <2>2, <2>3, <2>4, CallSteps
<1> QED
  BY <1>2, <1>3 DEF InHandler, InCall

\* The guard of a handler is destroyed at its last line only.
LEMMA HandlerGuardStays ==
    ASSUME Placed, NEW t \in Thread, Run(t) \/ UserCall(t),
           <<t, "handler">> \in guards, pc[t] # "hResume"
    PROVE  <<t, "handler">> \in guards'
<1> USE DEF Placed
<1>1. ASSUME NEW x \in Scope \ {"handler"},
             SL!Construct(<<t, x>>) \/ SL!Destroy(<<t, x>>)
      PROVE  <<t, "handler">> \in guards'
  BY <1>1, GuardOfOne DEF Scope
<1>2. CASE UNCHANGED guardVars
  BY <1>2 DEF guardVars
<1>3. CASE Logging(t)
  BY <1>2, <1>3
     DEF Logging, LockMap, InsertList, Check, EmplaceBack, StreamCount,
         StreamWrite, CallbackCount, Invoke
<1>4. CASE LevelHandler(t)
  <2>1. CASE HSuspend(t)
    BY <2>1, GuardOfOne DEF HSuspend, Scope
  <2>2. ~HResume(t)
    BY GoToMoves DEF HResume
  <2> QED
    BY <1>2, <1>4, <2>1, <2>2 DEF LevelHandler, HName, HStamp, HReset
<1>5. CASE Operating(t)
  BY <1>1, <1>2, <1>5
     DEF Operating, Enter, Lock, Open, EndSweep, Leave, ResetList, ReleaseList,
         CountList, WriteList, Scope
<1>6. CASE ResumeScope(t) \/ SuspendScope(t)
  BY <1>1, <1>6 DEF ResumeScope, SuspendScope, Scope
<1>7. CASE UserCall(t) /\ ~SuspendScope(t)
  <2>1. Configuring(t) => UNCHANGED guardVars
    BY ConfiguringType
  <2> QED
    BY <1>2, <1>7, <2>1 DEF UserCall, Log, CallOperation, ReuseThreadId
<1> QED
  BY <1>3, <1>4, <1>5, <1>6, <1>7 DEF Run

\* An interrupted handler is never resumed, and no other one begins.
LEMMA DeadStays ==
    ASSUME ThreadInv, NEW i \in Thread, Dead(i),
           NEW t \in Thread, Run(t) \/ UserCall(t), Steady(t)
    PROVE  Dead(i)'
<1> USE DEF ThreadInv
<1>1. CASE t # i
  BY <1>1 DEF Dead, Steady, OthersUntouched, InHandler, InCall, Scope
<1>2. CASE t = i
  <2>1. pc[i] \notin BehindCheck
    BY DEF Dead, Owned, HasGuard, Scope
  <2>2. ~InHandler(i)'
    BY <1>2, <2>1, ThreadInvPlaced, EntersHandler DEF Dead, BehindCheck
  <2>3. pc[i] # "hResume"
    BY DEF Dead, InHandler, HandlerLabels
  <2>4. <<i, "handler">> \in guards'
    BY <1>2, <2>3, ThreadInvPlaced, HandlerGuardStays DEF Dead
  <2> QED
    BY <2>2, <2>4 DEF Dead
<1> QED
  BY <1>1, <1>2

LEMMA FileGoesOn ==
    ASSUME ProcessInv, EntryInv, AllSorted, NEW i \in Thread, Lone(i), FileInv(i),
           NobodyCalls("writeToFile"), NEW t \in Thread, GoesOn(t), Steady(t)
    PROVE  FileInv(i)'
<1> USE DEF ProcessInv, ThreadInv, EntryInv
<1>1. CASE Filed(i)
  <2>1. Filed(i)'
    BY <1>1, ThreadInvPlaced, FiledThreadStep DEF GoesOn, Lone
  <2> QED
    BY <2>1 DEF FileInv, Filed
<1>2. CASE Dead(i)
  <2>1. \A u \in nodes : ~WriteList(t, u)
    <3> SUFFICES ASSUME NEW u \in nodes, WriteList(t, u)
                 PROVE  FALSE
      OBVIOUS
    <3>1. t = i /\ frame[t].ret = "hReset"
      BY ThreadInvPlaced, HandlerWrites DEF Lone
    <3>2. pc[t] = "sweep"
      BY DEF WriteList, Visits
    <3> QED
      BY <1>2, <3>1, <3>2
         DEF Dead, InHandler, InCall, HandlerLabels, CallLabels
  <2>2. files' = files
    BY <2>1, ThreadInvPlaced, SharedSteps DEF GoesOn
  <2>3. Dead(i)'
    BY <1>2, DeadStays DEF GoesOn
  <2> QED
    BY <2>2, <2>3 DEF FileInv
<1> QED
  BY <1>1, <1>2 DEF FileInv

\* A crash elsewhere than in the handler comes outside of every window.
LEMMA FileStartsOver ==
    ASSUME ProcessInv, NEW i \in Thread, FileInv(i), LogsAnew(i)
    PROVE  FileInv(i)'
<1> USE DEF ProcessInv, ThreadInv
<1>1. /\ pc'[i] \in {"check", "lockMap"} /\ frame'[i] = NoFrame
      /\ UNCHANGED <<files, guards, lists, nodes>>
      /\ \A w \in Thread \ {i} : pc'[w] = pc[w] /\ entry'[w] = entry[w]
      /\ entry'[i].id = entry[i].id + 1
  BY AnewFacts
<1>2. ~InHandler(i)'
  BY <1>1 DEF InHandler, InCall, CallLabels, HandlerLabels
<1>3. CASE InHandler(i) \/ Dead(i)
  <2>1. Dead(i)'
    BY <1>1, <1>2, <1>3 DEF Dead, Owned
  <2> QED
    BY <1>1, <2>1 DEF FileInv
<1>4. CASE ~InHandler(i) /\ Filed(i)
  <2>1. \A u : ~Window(i, u)
    <3>1. frame[i].ret \in HandlerLabels => InCall(i)
      BY DEF Held, FrameFollowsCall, NoFrame, NewFrame, HandlerLabels
    <3> QED
      BY <1>4, <3>1 DEF Window, InHandler, HandlerLabels
  <2>2. ASSUME NEW e \in Entry, Settled(i, e)
        PROVE  Settled(i, e)'
    <3>1. e.thread \in Thread /\ e.id \in Nat /\ entry[i].id \in Nat
      BY ListType DEF Entry
    <3>2. CASE e.thread = i
      BY <1>1, <2>1, <2>2, <3>1, <3>2 DEF Settled
    <3>3. CASE e.thread # i
      BY <1>1, <2>1, <2>2, <3>1, <3>3 DEF Settled, Storing
    <3> QED
      BY <3>2, <3>3
  <2>3. ASSUME NEW f \in FileName, NEW k \in 1 .. Len(files[f])
        PROVE  \A e : e = files[f][k] => Settled(i, e)'
    <3>1. files[f][k] \in Entry
      BY ElementOfSeq DEF LogTypeOK
    <3> QED
      BY <1>4, <2>2, <3>1 DEF Filed
  <2>4. Filed(i)'
    BY <1>1, <1>4, <2>3 DEF Filed
  <2> QED
    BY <2>4 DEF FileInv, Filed
<1> QED
  BY <1>3, <1>4 DEF FileInv

LEMMA FileRests ==
    ASSUME NEW i \in Thread, FileInv(i), UNCHANGED vars
    PROVE  FileInv(i)'
<1>1. UNCHANGED <<files, lists, nodes, entry, pc, frame, guards>>
  BY DEF vars, guardVars, mapVars, fileVars
<1>2. Dead(i) => Dead(i)'
  BY <1>1 DEF Dead, InHandler, InCall
<1>3. ASSUME NEW e, Settled(i, e)
      PROVE  Settled(i, e)'
  BY <1>1, <1>3 DEF Settled, Storing, Window, Past
<1>4. Filed(i) => Filed(i)'
  <2>1. ASSUME Filed(i), NEW f \in FileName, NEW k \in 1 .. Len(files[f])
        PROVE  \A e : e = files[f][k] => Settled(i, e)'
    BY <1>3, <2>1 DEF Filed
  <2> QED
    BY <1>1, <2>1 DEF Filed
<1> QED
  BY <1>1, <1>2, <1>4 DEF FileInv

LEMMA SortedInProcess == ProcessSpec => []AllSorted
<1>1. ProcessInit => AllSorted
  BY SortedInit DEF ProcessInit
<1>2. ASSUME ProcessInv, EntryInv, AllSorted, [ProcessNext]_processVars
      PROVE  AllSorted'
  <2> USE DEF ProcessInv, EntryInv
  <2>1. ASSUME NEW t \in Thread, Run(t) \/ UserCall(t)
        PROVE  AllSorted'
    BY <1>2, <2>1, ThreadInvPlaced, SortedThreadStep
  <2>2. CASE UNCHANGED lists
    BY <1>2, <2>2 DEF AllSorted, Sorted
  <2>3. ASSUME NEW t \in Thread, LogsAnew(t)
        PROVE  UNCHANGED lists
    BY <1>2, <2>3, AnewFacts
  <2> QED
    BY <1>2, <2>1, <2>2, <2>3, ProcessSteps
       DEF ProcessNext, ProcessRest, processVars, vars, mapVars
<1> QED
  BY <1>1, <1>2, EntryInvariance, ProcessInvariance, PTL DEF ProcessSpec

\* In a process in which one thread logs the incidents and crashes, at any label
\* and again in its crash handler, a log file has the entries of each thread in
\* order and once.  A crash between the write of the handler and its reset would
\* have the next handler write the same lists again: the guard it leaves behind
\* is what keeps that handler from running.
THEOREM FilesSurviveCrashes ==
    ASSUME NEW i \in Thread, OnlyOneCrashes(i), NobodyCalls("writeToFile")
    PROVE  ProcessSpec => []FileInOrder
<1>1. ProcessInit => FileInv(i)
  <2> SUFFICES ASSUME ProcessInit, NEW f \in FileName
               PROVE  1 .. Len(files[f]) = {}
    BY DEF FileInv, Filed, InOrder
  <2> QED
    BY EmptySeq DEF ProcessInit, Init
<1>2. ProcessInv /\ EntryInv /\ AllSorted /\ Lone(i) /\ FileInv(i)
        /\ [ProcessNext]_processVars => FileInv(i)'
  <2> SUFFICES ASSUME ProcessInv, EntryInv, AllSorted, Lone(i), FileInv(i),
                      [ProcessNext]_processVars
               PROVE  FileInv(i)'
    OBVIOUS
  <2>1. ASSUME NEW t \in Thread, StartsOver(t)
        PROVE  FileInv(i)'
    <3>1. t = i
      BY <2>1, StartsOverAlone
    <3> QED
      BY <2>1, <3>1, FileStartsOver DEF StartsOver
  <2> QED
    BY <2>1, FileGoesOn, FileRests, CaseSteps
       DEF ProcessNext, ProcessRest, processVars, OnlyLeaks
<1>3. ProcessInv /\ FileInv(i) => FileInOrder
  <2> SUFFICES ASSUME ProcessInv, FileInv(i), NEW f \in FileName
               PROVE  \A j, k \in DOMAIN files[f] :
                         j < k /\ files[f][j].thread = files[f][k].thread
                             => files[f][j].id < files[f][k].id
    BY DEF FileInOrder
  <2>1. DOMAIN files[f] = 1 .. Len(files[f])
    BY LenProperties DEF ProcessInv, ThreadInv, LogTypeOK
  <2> QED
    BY <2>1 DEF FileInv, InOrder
<1> QED
  BY <1>1, <1>2, <1>3, LoneInvariance, SortedInProcess, EntryInvariance,
     ProcessInvariance, PTL DEF ProcessSpec
=============================================================================
