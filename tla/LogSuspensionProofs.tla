------------------------- MODULE LogSuspensionProofs -------------------------
(***************************************************************************)
(* What Log promises of suspension, for every set of threads: each guard   *)
(* is constructed and destroyed once (by the invariant of LogProofs), so   *)
(* the theorems of SuspendLoggingProofs hold of Log's counter, and from    *)
(* them no suspension is left behind and no thread that suspends logging   *)
(* stores an entry.  The registries of streams and callbacks follow: Log   *)
(* reads them twice, with count() and with at(), and only a removal by     *)
(* another thread in that gap makes at() throw.                            *)
(***************************************************************************)
EXTENDS LogProofs

\* There are finitely many scopes, as there are threads.
LEMMA ScopesFinite == IsFiniteSet(Thread \X Scope)
<1>1. IsFiniteSet({"user"})
  BY FS_Singleton
<1>2. IsFiniteSet({"user"} \union {"handler"})
  BY <1>1, FS_AddElement
<1>3. IsFiniteSet(({"user"} \union {"handler"}) \union {"call"})
  BY <1>2, FS_AddElement
<1>4. Scope = ({"user"} \union {"handler"}) \union {"call"}
  BY DEF Scope
<1>5. IsFiniteSet(Scope)
  BY <1>3, <1>4
<1> QED
  BY <1>5, FS_Product, LogAssumption

\* A guard is constructed where it is not alive and destroyed where it is.
LEMMA ConstructFresh ==
    ASSUME NEW t \in Thread, NEW s \in Scope, <<t, s>> \notin guards,
           SL!Construct(<<t, s>>)
    PROVE  SL!Next
  BY DEF SL!Next, SL!EnterScope

LEMMA DestroyAlive ==
    ASSUME NEW t \in Thread, NEW s \in Scope, <<t, s>> \in guards,
           SL!Destroy(<<t, s>>)
    PROVE  SL!Next
  BY DEF SL!Next, SL!LeaveScope

LEMMA SuspensionStep ==
    ASSUME Inv, [Next]_vars
    PROVE  [SL!Next]_(SL!guardVars)
<1> USE DEF Inv
<1>1. ASSUME NEW t \in Thread, Run(t) \/ UserCall(t)
      PROVE  SL!Next \/ UNCHANGED guardVars
  <2>1. CASE Logging(t)
    BY <2>1 DEF Logging, LockMap, InsertList, Check, EmplaceBack, StreamCount,
                StreamWrite, CallbackCount, Invoke, guardVars
  <2>2. CASE LevelHandler(t)
    <3>1. CASE HSuspend(t)
      <4>1. <<t, "handler">> \notin guards
        BY <3>1 DEF HSuspend, Scoped, GuardsFollowScope, InHandler, InCall,
                    HandlerLabels, CallLabels
      <4> QED
        BY <3>1, <4>1, ConstructFresh DEF HSuspend, Scope
    <3>2. CASE HResume(t)
      <4>1. <<t, "handler">> \in guards
        BY <3>2 DEF HResume, GoTo, Scoped, GuardsFollowScope, InHandler,
                    HandlerLabels
      <4> QED
        BY <3>2, <4>1, DestroyAlive DEF HResume, Scope
    <3>3. CASE HName(t) \/ HStamp(t) \/ HReset(t)
      BY <3>3 DEF HName, HStamp, HReset
    <3> QED
      BY <2>2, <3>1, <3>2, <3>3 DEF LevelHandler
  <2>3. CASE Operating(t)
    <3>1. CASE Enter(t) /\ Guarded(frame[t].op)
      <4>1. <<t, "call">> \notin guards
        BY <3>1 DEF Enter, GoTo, Scoped, GuardsFollowScope
      <4> QED
        BY <3>1, <4>1, ConstructFresh DEF Enter, Scope
    <3>2. CASE Leave(t) /\ Guarded(frame[t].op)
      <4>1. <<t, "call">> \in guards
        BY <3>2 DEF Leave, GoTo, Scoped, GuardsFollowScope, InCall, CallLabels
      <4> QED
        BY <3>2, <4>1, DestroyAlive DEF Leave, Scope
    <3>3. CASE (Enter(t) \/ Leave(t)) /\ ~Guarded(frame[t].op)
      BY <3>3 DEF Enter, Leave
    <3>4. CASE Lock(t) \/ Open(t) \/ EndSweep(t)
      BY <3>4 DEF Lock, Open, EndSweep
    <3>5. ASSUME NEW u \in nodes,
                 \/ ResetList(t, u) \/ ReleaseList(t, u)
                 \/ CountList(t, u) \/ WriteList(t, u)
          PROVE  UNCHANGED guardVars
      BY <3>5 DEF ResetList, ReleaseList, CountList, WriteList
    <3> QED
      BY <2>3, <3>1, <3>2, <3>3, <3>4, <3>5 DEF Operating
  <2>4. CASE ResumeScope(t)
    BY <2>4, DestroyAlive DEF ResumeScope, Scope
  <2>5. CASE UserCall(t)
    <3>1. CASE SuspendScope(t)
      BY <3>1, ConstructFresh DEF SuspendScope, Scope
    <3>2. CASE Configuring(t)
      BY <3>2, ConfiguringType DEF guardVars
    <3>3. CASE ReuseThreadId(t)
      BY <3>3 DEF ReuseThreadId
    <3>4. ASSUME NEW level \in Logs[t], Log(t, level)
          PROVE  UNCHANGED guardVars
      BY <3>4 DEF Log
    <3>5. ASSUME NEW o \in Operation, CallOperation(t, o)
          PROVE  UNCHANGED guardVars
      BY <3>5 DEF CallOperation
    <3> QED
      BY <2>5, <3>1, <3>2, <3>3, <3>4, <3>5 DEF UserCall
  <2> QED
    BY <1>1, <2>1, <2>2, <2>3, <2>4, <2>5 DEF Run
<1>2. ASSUME UNCHANGED vars
      PROVE  UNCHANGED guardVars
  BY <1>2 DEF vars
<1>3. SL!Next \/ UNCHANGED guardVars
  BY <1>1, <1>2 DEF Next, Rest
<1> QED
  BY <1>3 DEF guardVars, SL!guardVars

\* The counter and the guards of Log behave as SuspendLogging prescribes: no
\* path constructs or destroys a guard twice.
THEOREM SuspensionImplemented == Spec => SuspensionSpec
<1>1. Init => SL!Init
  BY DEF Init
<1> QED
  BY <1>1, SuspensionStep, Invariance, PTL DEF Spec, SuspensionSpec, SL!Spec

-----------------------------------------------------------------------------
(* The counter                                                              *)

SLP == INSTANCE SuspendLoggingProofs WITH Guard <- Thread \X Scope

\* The counter of Log is the counter those theorems are about.
LEMMA SameSuspension ==
    /\ SL!Init => SLP!Init
    /\ [SL!Next]_(SL!guardVars) => [SLP!Next]_(SLP!guardVars)
  BY DEF SL!Init, SLP!Init, SL!Next, SLP!Next, SL!EnterScope, SLP!EnterScope,
         SL!LeaveScope, SLP!LeaveScope, SL!Construct, SLP!Construct,
         SL!Destroy, SLP!Destroy, SL!guardVars, SLP!guardVars

LEMMA CountingApplies == SLP!GuardAssumption
<1>1. SLP!IsFiniteSet(Thread \X Scope)
  BY ScopesFinite, Zenon DEF SLP!IsFiniteSet, IsFiniteSet
<1>2. SLP!Cardinality(Thread \X Scope) = Cardinality(Thread \X Scope)
  BY Zenon DEF SLP!Cardinality, Cardinality
<1> QED
  BY <1>1, <1>2, CounterAssumption DEF SLP!GuardsFit, SLP!GuardAssumption

LEMMA LogCounts == Spec => []SLP!Counting
<1>1. Spec => SLP!Spec
  BY SuspensionImplemented, SameSuspension, PTL
     DEF SuspensionSpec, SL!Spec, SLP!Spec
<1> QED
  BY <1>1, CountingApplies, SLP!CounterIsExact, PTL

\* The counter is a number of the guards, and zero only when there are none.
LEMMA CountingSuspends ==
    ASSUME SLP!Counting
    PROVE  SL!TypeOK /\ SL!SuspendedIffGuarded
<1>1. SLP!TypeOK /\ SLP!SuspendedIffGuarded
  BY CountingApplies, SLP!CountingImplies
<1> QED
  BY <1>1 DEF SL!TypeOK, SLP!TypeOK, SL!SuspendedIffGuarded,
              SLP!SuspendedIffGuarded, SL!Suspended, SLP!Suspended

\* Every variable of Log has its type, the 16-bit counter included: with three
\* scopes of each thread it never wraps.
THEOREM TypeCorrect == Spec => []TypeOK
<1>1. Inv /\ SLP!Counting => TypeOK
  BY CountingSuspends DEF Inv, TypeOK
<1> QED
  BY <1>1, Invariance, LogCounts, PTL

\* Logging is suspended exactly while a SuspendLogging object of the user, of
\* logLevelHandler or of an operation of Log is alive.
THEOREM SuspensionCorrect == Spec => []SL!SuspendedIffGuarded
<1>1. SLP!Counting => SL!SuspendedIffGuarded
  BY CountingSuspends
<1> QED
  BY <1>1, LogCounts, PTL

\* When no thread is in a suspending scope logging is on again: no path through
\* log, logLevelHandler or an operation leaves a suspension behind.
THEOREM NothingLeftSuspended == Spec => []NoResidualSuspension
<1>1. ASSUME Inv, SLP!Counting
      PROVE  NoResidualSuspension
  <2>1. guards \subseteq Thread \X Scope
    BY <1>1 DEF SLP!Counting
  <2>2. SUFFICES ASSUME \A t \in Thread : /\ ~InCall(t) /\ ~InHandler(t)
                                          /\ <<t, "user">> \notin guards
                 PROVE  ~SL!Suspended
    BY DEF NoResidualSuspension
  <2>3. ASSUME NEW t \in Thread, NEW s \in Scope
        PROVE  <<t, s>> \notin guards
    BY <1>1, <2>2 DEF Inv, Scoped, GuardsFollowScope, Scope
  <2>4. guards = {}
    BY <2>1, <2>3
  <2> QED
    BY <1>1, <2>4, CountingSuspends DEF SL!SuspendedIffGuarded
<1> QED
  BY <1>1, Invariance, LogCounts, PTL

-----------------------------------------------------------------------------
(* A suspending thread stores nothing                                       *)

\* The labels of log behind its check, up to the handler's own guard.
BehindCheck == {"append", "streamCount", "streamWrite", "callbackCount",
                "invoke", "hSuspend"}

HasGuard(t) == \E s \in Scope : <<t, s>> \in guards

LEMMA ConfiguringIdle ==
    ASSUME NEW t \in Thread, Configuring(t)
    PROVE  pc[t] = "idle"
  BY DEF Configuring, RegisterCallback, RegisterOutstream,
         RegisterLogRetentionPolicy, ApplyDefaultConfiguration,
         RemoveCallbacks, RemoveOutstreams, RemoveLogRetentionPolicies, May

\* A step of t that brings it behind the check, or keeps it there.
LEMMA BehindCheckStep ==
    ASSUME Inv, SLP!Counting, NEW t \in Thread, Run(t) \/ UserCall(t),
           pc'[t] \in BehindCheck
    PROVE  /\ UNCHANGED guards
           /\ pc[t] \in BehindCheck \/ ~HasGuard(t)
<1> USE DEF Inv, BehindCheck
<1>1. CASE Logging(t)
  <2>1. CASE Check(t)
    <3>1. pc'[t] = IF SL!Suspended THEN "idle" ELSE "append"
      BY <2>1, GoToMoves DEF Check
    <3>2. guards = {}
      BY <3>1, CountingSuspends DEF SL!SuspendedIffGuarded
    <3> QED
      BY <2>1, <3>2 DEF Check, guardVars, HasGuard
  <2>2. CASE LockMap(t) \/ InsertList(t)
    BY <2>2, GoToMoves DEF LockMap, InsertList
  <2>3. CASE EmplaceBack(t) \/ StreamCount(t) \/ StreamWrite(t)
             \/ CallbackCount(t) \/ Invoke(t)
    BY <2>3 DEF EmplaceBack, StreamCount, StreamWrite, CallbackCount, Invoke,
                GoTo, guardVars
  <2> QED
    BY <1>1, <2>1, <2>2, <2>3 DEF Logging
<1>2. CASE LevelHandler(t)
  BY <1>2, CallMoves, GoToMoves
     DEF LevelHandler, HSuspend, HName, HStamp, HReset, HResume
<1>3. CASE Operating(t)
  <2>1. CASE Enter(t) \/ Lock(t) \/ EndSweep(t)
    BY <2>1, GoToMoves DEF Enter, Lock, EndSweep
  <2>2. CASE Open(t)
    BY <2>2, GoToMoves DEF Open
  <2>3. CASE Leave(t)
    <3>1. pc'[t] = frame[t].ret
      BY <2>3, GoToMoves DEF Leave
    <3> QED
      BY <3>1 DEF Scoped, FrameFollowsCall
  <2>4. ASSUME NEW u \in nodes,
               \/ ResetList(t, u) \/ ReleaseList(t, u)
               \/ CountList(t, u) \/ WriteList(t, u)
        PROVE  FALSE
    BY <2>4 DEF ResetList, ReleaseList, CountList, WriteList, Visits
  <2> QED
    BY <1>3, <2>1, <2>2, <2>3, <2>4 DEF Operating
<1>4. CASE ResumeScope(t)
  BY <1>4 DEF ResumeScope
<1>5. CASE UserCall(t)
  <2>1. ASSUME NEW level \in Logs[t], Log(t, level)
        PROVE  FALSE
    BY <2>1, GoToMoves DEF Log
  <2>2. ASSUME NEW o \in Operation, CallOperation(t, o)
        PROVE  FALSE
    BY <2>2, CallMoves DEF CallOperation
  <2>3. CASE SuspendScope(t) \/ ReuseThreadId(t)
    BY <2>3 DEF SuspendScope, ReuseThreadId, May
  <2>4. CASE Configuring(t)
    <3>1. pc[t] = "idle"
      BY <2>4, ConfiguringIdle
    <3> QED
      BY <2>4, <3>1, ConfiguringType
  <2> QED
    BY <1>5, <2>1, <2>2, <2>3, <2>4 DEF UserCall
<1> QED
  BY <1>1, <1>2, <1>3, <1>4, <1>5 DEF Run

LEMMA NoOwnEntriesStep ==
    ASSUME Inv, SLP!Counting, NoOwnEntries, [Next]_vars
    PROVE  NoOwnEntries'
<1>1. NoOwnEntries <=> \A t \in Thread : HasGuard(t) => pc[t] \notin BehindCheck
  BY DEF NoOwnEntries, HasGuard, BehindCheck
<1>2. ASSUME NEW t \in Thread, Run(t) \/ UserCall(t),
             NEW w \in Thread, pc'[w] \in BehindCheck
      PROVE  ~HasGuard(w)'
  <2>1. CASE w = t
    BY <1>1, <1>2, <2>1, BehindCheckStep DEF HasGuard
  <2>2. CASE w # t
    <3>1. StepKeepsScopes(t)
      BY <1>2, AnyStepKeepsScopes
    <3> QED
      BY <1>1, <1>2, <2>2, <3>1 DEF StepKeepsScopes, OthersUntouched, HasGuard
  <2> QED
    BY <2>1, <2>2
<1>3. CASE UNCHANGED vars
  BY <1>3 DEF vars, guardVars, NoOwnEntries
<1>4. (\A t \in Thread : HasGuard(t)' => pc'[t] \notin BehindCheck) => NoOwnEntries'
  BY DEF NoOwnEntries, HasGuard, BehindCheck
<1> QED
  BY <1>2, <1>3, <1>4 DEF Next, Rest

\* A thread inside a suspending scope of its own never gets past the check of
\* Log::log, so logLevelHandler is not entered again from within itself.
THEOREM SuspendedThreadsStoreNothing == Spec => []NoOwnEntries
<1>1. Init => NoOwnEntries
  BY DEF Init, NoOwnEntries
<1> QED
  BY <1>1, NoOwnEntriesStep, Invariance, LogCounts, PTL DEF Spec

-----------------------------------------------------------------------------
(* The registries                                                           *)

\* A step takes no stream and no callback of a level away.
RegistersOnly ==
    /\ outStreams \subseteq outStreams'
    /\ \A l \in LogLevel : callbackMap[l] # "none" => callbackMap'[l] # "none"

\* Every step but a removal registers only.
LEMMA RegistrySteps ==
    ASSUME LogTypeOK, NEW t \in Thread, Run(t) \/ UserCall(t)
    PROVE  RegistersOnly \/ RemoveOutstreams(t) \/ RemoveCallbacks(t)
<1>1. UNCHANGED <<outStreams, callbackMap>> => RegistersOnly
  BY DEF RegistersOnly
<1>2. CASE Logging(t)
  BY <1>1, <1>2
     DEF Logging, LockMap, InsertList, Check, EmplaceBack, StreamCount,
         StreamWrite, CallbackCount, Invoke, configVars
<1>3. CASE LevelHandler(t)
  BY <1>1, <1>3
     DEF LevelHandler, HSuspend, HName, HStamp, HReset, HResume, configVars
<1>4. CASE Operating(t)
  BY <1>1, <1>4
     DEF Operating, Enter, Lock, Open, EndSweep, Leave, ResetList, ReleaseList,
         CountList, WriteList, configVars
<1>5. CASE ResumeScope(t)
  BY <1>1, <1>5 DEF ResumeScope, configVars
<1>6. CASE UserCall(t)
  <2>1. ASSUME NEW level \in Logs[t], Log(t, level)
        PROVE  RegistersOnly
    BY <1>1, <2>1 DEF Log, configVars
  <2>2. ASSUME NEW o \in Operation, CallOperation(t, o)
        PROVE  RegistersOnly
    BY <1>1, <2>2 DEF CallOperation, configVars
  <2>3. CASE SuspendScope(t) \/ ReuseThreadId(t)
    BY <1>1, <2>3 DEF SuspendScope, ReuseThreadId, configVars
  <2>4. ASSUME NEW l \in LogLevel, RegisterCallback(t, l)
        PROVE  RegistersOnly
    BY <2>4 DEF RegisterCallback, RegistersOnly, LogTypeOK
  <2>5. ASSUME NEW l \in LogLevel, RegisterOutstream(t, l)
        PROVE  RegistersOnly
    BY <2>5 DEF RegisterOutstream, RegistersOnly
  <2>6. ASSUME NEW p \in Policy, RegisterLogRetentionPolicy(t, p)
        PROVE  RegistersOnly
    BY <1>1, <2>6 DEF RegisterLogRetentionPolicy
  <2>7. ASSUME NEW folder \in Folders, ApplyDefaultConfiguration(t, folder)
        PROVE  RegistersOnly
    BY <2>7 DEF ApplyDefaultConfiguration, RegistersOnly
  <2>8. CASE RemoveLogRetentionPolicies(t)
    BY <1>1, <2>8 DEF RemoveLogRetentionPolicies
  <2> QED
    BY <1>6, <2>1, <2>2, <2>3, <2>4, <2>5, <2>6, <2>7, <2>8
       DEF UserCall, Configuring
<1> QED
  BY <1>2, <1>3, <1>4, <1>5, <1>6 DEF Run

\* The gaps between count() and at().
AtLabels == {"streamWrite", "invoke"}

\* A step of t itself that comes to an at(), or to std::terminate.
LEMMA AtSteps ==
    ASSUME Placed, NEW t \in Thread, Run(t) \/ UserCall(t),
           pc'[t] \in AtLabels \union {"terminate"}
    PROVE  \/ StreamCount(t) \/ StreamWrite(t) \/ CallbackCount(t) \/ Invoke(t)
           \/ pc'[t] = pc[t] /\ entry'[t] = entry[t]
<1> USE DEF Placed, AtLabels
<1>1. CASE Logging(t)
  BY <1>1, GoToMoves DEF Logging, LockMap, InsertList, Check, EmplaceBack
<1>2. CASE LevelHandler(t)
  BY <1>2, CallMoves, GoToMoves
     DEF LevelHandler, HSuspend, HName, HStamp, HReset, HResume
<1>3. CASE Operating(t)
  <2>1. CASE Enter(t) \/ Lock(t) \/ EndSweep(t)
    BY <2>1, GoToMoves DEF Enter, Lock, EndSweep
  <2>2. CASE Open(t)
    BY <2>2, GoToMoves DEF Open
  <2>3. CASE Leave(t)
    <3>1. pc'[t] = frame[t].ret
      BY <2>3, GoToMoves DEF Leave
    <3> QED
      BY <3>1 DEF Scoped, FrameFollowsCall
  <2>4. ASSUME NEW u \in nodes,
               \/ ResetList(t, u) \/ ReleaseList(t, u)
               \/ CountList(t, u) \/ WriteList(t, u)
        PROVE  FALSE
    BY <2>4 DEF ResetList, ReleaseList, CountList, WriteList, Visits
  <2> QED
    BY <1>3, <2>1, <2>2, <2>3, <2>4 DEF Operating
<1>4. CASE ResumeScope(t)
  BY <1>4 DEF ResumeScope
<1>5. CASE UserCall(t)
  <2>1. ASSUME NEW level \in Logs[t], Log(t, level)
        PROVE  FALSE
    BY <2>1, GoToMoves DEF Log
  <2>2. ASSUME NEW o \in Operation, CallOperation(t, o)
        PROVE  FALSE
    BY <2>2, CallMoves DEF CallOperation
  <2>3. CASE SuspendScope(t) \/ ReuseThreadId(t)
    BY <2>3 DEF SuspendScope, ReuseThreadId
  <2>4. CASE Configuring(t)
    BY <2>4, ConfiguringType
  <2> QED
    BY <1>5, <2>1, <2>2, <2>3, <2>4 DEF UserCall
<1> QED
  BY <1>1, <1>2, <1>3, <1>4, <1>5 DEF Run

\* The entry another thread logs is its own.
LEMMA EntryOfOthers ==
    ASSUME LogTypeOK, NEW t \in Thread, Run(t) \/ UserCall(t), NEW w \in Thread \ {t}
    PROVE  entry'[w] = entry[w]
<1>1. CASE Run(t)
  BY <1>1
     DEF Run, Logging, LockMap, InsertList, Check, EmplaceBack, StreamCount,
         StreamWrite, CallbackCount, Invoke, LevelHandler, HSuspend, HName,
         HStamp, HReset, HResume, Operating, Enter, Lock, Open, EndSweep, Leave,
         ResetList, ReleaseList, CountList, WriteList, ResumeScope
<1>2. CASE UserCall(t)
  <2>1. ASSUME NEW level \in Logs[t], Log(t, level)
        PROVE  entry'[w] = entry[w]
    BY <2>1 DEF Log, LogTypeOK
  <2>2. CASE Configuring(t)
    BY <2>2, ConfiguringType
  <2> QED
    BY <1>2, <2>1, <2>2
       DEF UserCall, CallOperation, SuspendScope, ReuseThreadId
<1> QED
  BY <1>1, <1>2

\* What OnlyRemovalTerminates says of a thread.
AtKept(t) ==
    AtSucceeds(t)' /\ (pc'[t] = "terminate" => pc[t] = "terminate")

LEMMA AtKeptStep ==
    ASSUME Placed, NEW t \in Thread, AtSucceeds(t),
           NEW w \in Thread, Run(w) \/ UserCall(w), Steady(w)
    PROVE  \/ AtKept(t)
           \/ w # t /\ (RemoveOutstreams(w) \/ RemoveCallbacks(w))
<1> USE DEF Placed
<1>1. entry[t].level \in LogLevel
  BY DEF LogTypeOK, Entry
<1>2. CASE w # t
  <2>1. pc'[t] = pc[t] /\ entry'[t] = entry[t]
    BY <1>2, EntryOfOthers DEF Steady, OthersUntouched
  <2>2. RegistersOnly => AtKept(t)
    BY <1>1, <2>1 DEF RegistersOnly, AtKept, AtSucceeds
  <2> QED
    BY <1>2, <2>2, RegistrySteps
<1>3. CASE w = t
  <2>1. CASE pc'[t] \notin AtLabels \union {"terminate"}
    BY <2>1 DEF AtKept, AtSucceeds, AtLabels
  <2>2. CASE StreamCount(t)
    BY <2>2, GoToMoves DEF StreamCount, configVars, AtKept, AtSucceeds
  <2>3. CASE StreamWrite(t)
    BY <2>3, GoToMoves DEF StreamWrite, AtKept, AtSucceeds
  <2>4. CASE CallbackCount(t)
    BY <2>4, GoToMoves DEF CallbackCount, configVars, AtKept, AtSucceeds
  <2>5. CASE Invoke(t)
    <3>1. pc'[t] \in {"hSuspend", "idle", "enter"}
      BY <2>5, GoToMoves, CallMoves DEF Invoke, AtSucceeds
    <3> QED
      BY <3>1 DEF AtKept, AtSucceeds
  <2>6. CASE pc'[t] = pc[t] /\ entry'[t] = entry[t] /\ RegistersOnly
    BY <1>1, <2>6 DEF RegistersOnly, AtKept, AtSucceeds
  <2>7. CASE RemoveOutstreams(t) \/ RemoveCallbacks(t)
    <3>1. pc[t] = "idle" /\ pc' = pc
      BY <2>7 DEF RemoveOutstreams, RemoveCallbacks, May, Configure
    <3> QED
      BY <3>1 DEF AtKept, AtSucceeds
  <2> QED
    BY <1>3, <2>1, <2>2, <2>3, <2>4, <2>5, <2>6, <2>7, RegistrySteps, AtSteps
<1> QED
  BY <1>2, <1>3

LEMMA OnlyRemovalStep ==
    ASSUME Inv, [Next]_vars
    PROVE  [\A t \in Thread :
              AtSucceeds(t) =>
                  \/ AtSucceeds(t)' /\ (pc'[t] = "terminate" => pc[t] = "terminate")
                  \/ \E w \in Thread \ {t} : RemoveOutstreams(w) \/ RemoveCallbacks(w)
           ]_vars
<1>1. ASSUME NEW w \in Thread, Run(w) \/ UserCall(w),
             NEW t \in Thread, AtSucceeds(t)
      PROVE  \/ AtKept(t)
             \/ \E x \in Thread \ {t} : RemoveOutstreams(x) \/ RemoveCallbacks(x)
  BY <1>1, StepSteady, AtKeptStep
<1> QED
  BY <1>1 DEF Next, Rest, AtKept

\* Whatever is registered, and however often, an at() that would succeed goes
\* on doing so, and log does not end in std::terminate, until another thread
\* removes the streams or the callbacks.
THEOREM RegistriesCorrect == Spec => OnlyRemovalTerminates
  BY OnlyRemovalStep, Invariance, PTL DEF Spec, OnlyRemovalTerminates
=============================================================================
