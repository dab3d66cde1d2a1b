---------------------------- MODULE LogFileProofs ----------------------------
(***************************************************************************)
(* What the log files hold when logLevelHandler has run, for every set of  *)
(* threads.  Each theorem names the programs it is about (the operators    *)
(* OnlyIncidentThread, NobodyCalls, FilesOpen and NewestStays of Log);     *)
(* runs of Log show what programs outside of them lose.                    *)
(***************************************************************************)
EXTENDS LogStoreProofs

-----------------------------------------------------------------------------
(* The only handler                                                         *)

\* Only i is ever in logLevelHandler, and it makes a name only while there is
\* none.
Alone(i) ==
    /\ \A l \in LogLevel : callbackMap[l] = "levelHandler" => l \in IncidentLevels
    /\ \A t \in Thread \ {i} : /\ entry[t].level \notin IncidentLevels
                               /\ pc[t] \notin HandlerLabels
                               /\ frame[t].ret = "idle"
    /\ pc[i] = "hStamp" => logFilename = NoFile

LEMMA AloneInit ==
    ASSUME NEW i \in Thread, Init
    PROVE  Alone(i)
<1>1. \A l \in LogLevel : callbackMap[l] = "levelHandler" => l \in IncidentLevels
  BY DEF Init, DefaultCallbacks, IncidentLevels
<1>2. "Trace" \notin IncidentLevels
  BY DEF IncidentLevels, DefaultCallbacks, LogLevel
<1> QED
  BY <1>1, <1>2 DEF Init, Alone, HandlerLabels, NoFrame, NewFrame

LEMMA AloneThreadStep ==
    ASSUME Placed, NEW i \in Thread, OnlyIncidentThread(i), Alone(i),
           NEW t \in Thread, Run(t) \/ UserCall(t), Steady(t)
    PROVE  Alone(i)'
<1> USE DEF Placed
<1>1. \A l \in LogLevel : callbackMap'[l] = "levelHandler" => l \in IncidentLevels
  BY SharedSteps DEF Alone
<1>2. ASSUME NEW w \in Thread \ {i}
      PROVE  /\ entry'[w].level \notin IncidentLevels
             /\ pc'[w] \notin HandlerLabels
             /\ frame'[w].ret = "idle"
  <2>1. CASE w # t
    BY <2>1, EntryOfOthers DEF Steady, OthersUntouched, Alone
  <2>2. CASE w = t
    <3>1. entry'[t].level \notin IncidentLevels
      <4>1. ASSUME NEW level \in Logs[t], Log(t, level)
            PROVE  entry'[t].level = level
        BY <4>1 DEF Log, LogTypeOK
      <4> QED
        BY <1>2, <2>2, <4>1, EntrySteps DEF Alone, OnlyIncidentThread
    <3>2. pc'[t] \notin HandlerLabels
      <4>1. SUFFICES ASSUME pc'[t] \in HandlerLabels
                     PROVE  FALSE
        OBVIOUS
      <4>2. entry[t].level \in LogLevel
        BY DEF LogTypeOK, Entry
      <4>3. pc[t] \notin HandlerLabels /\ frame[t].ret = "idle"
        BY <1>2, <2>2 DEF Alone
      <4>4. ~HName(t)
        BY <4>3 DEF HName, HandlerLabels
      <4> QED
        BY <1>2, <2>2, <4>1, <4>2, <4>3, <4>4, HandlerSteps
           DEF Alone, HandlerLabels
    <3>3. frame'[t].ret = "idle"
      <4>1. CASE pc'[t] \notin CallLabels
        BY <4>1 DEF Steady, FrameFollowsCall, InCall, NoFrame, NewFrame
      <4>2. CASE pc'[t] \in CallLabels
        <5>1. pc[t] \notin HandlerLabels
          BY <1>2, <2>2 DEF Alone
        <5>2. ~(HSuspend(t) \/ HName(t) \/ HStamp(t) \/ HReset(t))
          BY <5>1, GoToMoves DEF HSuspend, HName, HStamp, HReset, HandlerLabels
        <5>3. \/ \E o : Calling(t, o, "idle")
              \/ Inside(t)
          BY <4>2, <5>2, CallSteps
        <5>4. CASE Inside(t)
          BY <1>2, <2>2, <5>4, InsideKeeps DEF Alone
        <5>5. ASSUME NEW o, Calling(t, o, "idle")
              PROVE  frame'[t].ret = "idle"
          BY <5>5 DEF Calling, NewFrame
        <5> QED
          BY <5>3, <5>4, <5>5
      <4> QED
        BY <4>1, <4>2
    <3> QED
      BY <2>2, <3>1, <3>2, <3>3
  <2> QED
    BY <2>1, <2>2
<1>3. ASSUME pc'[i] = "hStamp"
      PROVE  logFilename' = NoFile
  <2>1. CASE t = i
    <3>1. frame[i].ret # "hStamp"
      BY DEF FrameFollowsCall
    <3> QED
      BY <1>3, <2>1, <3>1, HandlerSteps DEF HandlerLabels
  <2>2. CASE t # i
    <3>1. pc[i] = "hStamp" /\ logFilename = NoFile
      BY <1>3, <2>2 DEF Steady, OthersUntouched, Alone
    <3>2. ~HStamp(t)
      BY <2>2 DEF HStamp, Alone, HandlerLabels
    <3> QED
      BY <3>1, <3>2, SharedSteps
  <2> QED
    BY <2>1, <2>2
<1> QED
  BY <1>1, <1>2, <1>3 DEF Alone

LEMMA AloneStep ==
    ASSUME Inv, NEW i \in Thread, OnlyIncidentThread(i), Alone(i), [Next]_vars
    PROVE  Alone(i)'
<1>1. ASSUME NEW t \in Thread, Run(t) \/ UserCall(t)
      PROVE  Alone(i)'
  BY <1>1, StepSteady, AloneThreadStep
<1>2. CASE UNCHANGED vars
  BY <1>2 DEF vars, configVars, fileVars, Alone
<1> QED
  BY <1>1, <1>2 DEF Next, Rest

LEMMA AloneInvariance ==
    ASSUME NEW i \in Thread, OnlyIncidentThread(i)
    PROVE  Spec => []Alone(i)
<1>1. Init => Alone(i)
  BY AloneInit
<1>2. Inv /\ Alone(i) /\ [Next]_vars => Alone(i)'
  BY AloneStep
<1> QED
  BY <1>1, <1>2, Invariance, PTL DEF Spec

\* In a program where one thread logs the incidents they all go to the same log
\* file: logLevelHandler finds the name it has made.
THEOREM SameFileForOneThread ==
    ASSUME NEW i \in Thread, OnlyIncidentThread(i)
    PROVE  Spec => SameLogFile
<1>1. Inv /\ Alone(i) /\ [Next]_vars =>
        [logFilename # NoFile => logFilename' = logFilename]_vars
  <2> SUFFICES ASSUME Inv, Alone(i), Next, logFilename # NoFile
               PROVE  logFilename' = logFilename
    BY DEF vars
  <2>1. ASSUME NEW t \in Thread, Run(t) \/ UserCall(t)
        PROVE  logFilename' = logFilename
    <3>1. ~HStamp(t)
      BY DEF HStamp, Alone, HandlerLabels
    <3> QED
      BY <2>1, <3>1, InvPlaced, SharedSteps
  <2> QED
    BY <2>1 DEF Next, Rest, vars, fileVars
<1> QED
  BY <1>1, AloneInvariance, Invariance, PTL DEF Spec, SameLogFile

-----------------------------------------------------------------------------
(* What has been written stays written                                      *)

LEMMA WrittenMeans ==
    ASSUME LogTypeOK, NEW e
    PROVE  Written(e) <=> \E f \in FileName : \E k \in 1 .. Len(files[f]) :
                             files[f][k] = e
<1>1. \A f \in FileName : DOMAIN files[f] = 1 .. Len(files[f])
  BY LenProperties DEF LogTypeOK
<1> QED
  BY <1>1 DEF Written, ToSet

LEMMA WrittenNextMeans ==
    ASSUME LogTypeOK', NEW e
    PROVE  Written(e)' <=> \E f \in FileName : \E k \in 1 .. Len(files'[f]) :
                              files'[f][k] = e
<1>1. \A f \in FileName : DOMAIN files'[f] = 1 .. Len(files'[f])
  BY LenProperties DEF LogTypeOK
<1> QED
  BY <1>1 DEF Written, ToSet

\* The entries of two sequences in their concatenation.
LEMMA ConcatParts ==
    ASSUME NEW s \in Seq(Entry), NEW r \in Seq(Entry)
    PROVE  /\ Len(s) \in Nat /\ Len(r) \in Nat
           /\ Len(s \o r) = Len(s) + Len(r)
           /\ \A k \in 1 .. Len(s) : k \in 1 .. Len(s \o r) /\ (s \o r)[k] = s[k]
           /\ \A k \in 1 .. Len(r) : /\ Len(s) + k \in 1 .. Len(s \o r)
                                     /\ (s \o r)[Len(s) + k] = r[k]
           /\ \A j \in 1 .. Len(s \o r) : ~(j <= Len(s)) =>
                j - Len(s) \in 1 .. Len(r) /\ (s \o r)[j] = r[j - Len(s)]
<1>1. Len(s) \in Nat /\ Len(r) \in Nat
  BY LenProperties
<1>2. /\ Len(s \o r) = Len(s) + Len(r)
      /\ \A j \in 1 .. Len(s) + Len(r) :
           (s \o r)[j] = IF j <= Len(s) THEN s[j] ELSE r[j - Len(s)]
  BY ConcatProperties
<1>3. ASSUME NEW k \in 1 .. Len(r)
      PROVE  /\ Len(s) + k \in 1 .. Len(s) + Len(r)
             /\ ~(Len(s) + k <= Len(s))
             /\ Len(s) + k - Len(s) = k
  BY <1>1
<1> QED
  BY <1>1, <1>2, <1>3

\* A file is only appended to.
LEMMA FilesGrow ==
    ASSUME Placed, NEW t \in Thread, NEW u \in nodes, WriteList(t, u),
           NEW f \in FileName
    PROVE  /\ files[f] \in Seq(Entry) /\ lists[u] \in Seq(Entry)
           /\ frame[t].target \in FileName
           /\ files'[f] = IF f = frame[t].target THEN files[f] \o lists[u]
                                                 ELSE files[f]
<1> USE DEF Placed
<1>1. files[f] \in Seq(Entry) /\ lists[u] \in Seq(Entry)
  BY DEF LogTypeOK
<1>2. frame[t].target \in FileName
  BY DEF WriteList, Visits, FrameFollowsCall, Locked
<1> QED
  BY <1>1, <1>2 DEF WriteList, LogTypeOK

LEMMA WrittenStays ==
    ASSUME Placed, NEW t \in Thread, Run(t) \/ UserCall(t), NEW e, Written(e)
    PROVE  Written(e)'
<1> USE DEF Placed
<1>1. CASE UNCHANGED files
  BY <1>1 DEF Written
<1>2. ASSUME NEW u \in nodes, WriteList(t, u)
      PROVE  Written(e)'
  <2>1. PICK f \in FileName : \E k \in 1 .. Len(files[f]) : files[f][k] = e
    BY WrittenMeans
  <2>2. PICK k \in 1 .. Len(files[f]) : files[f][k] = e
    BY <2>1
  <2>3. /\ files[f] \in Seq(Entry) /\ lists[u] \in Seq(Entry)
        /\ files'[f] \in {files[f], files[f] \o lists[u]}
    BY <1>2, FilesGrow
  <2>4. k \in 1 .. Len(files'[f]) /\ files'[f][k] = e
    <3>1. CASE files'[f] = files[f]
      BY <2>2, <3>1
    <3>2. CASE files'[f] = files[f] \o lists[u]
      <4>1. /\ k \in 1 .. Len(files[f] \o lists[u])
            /\ (files[f] \o lists[u])[k] = files[f][k]
        BY <2>2, <2>3, ConcatParts
      <4> QED
        BY <2>2, <3>2, <4>1
    <3> QED
      BY <2>3, <3>1, <3>2
  <2>5. LogTypeOK'
    BY ThreadType
  <2> QED
    BY <2>4, <2>5, WrittenNextMeans
<1> QED
  BY <1>1, <1>2, SharedSteps

\* Its step writes the whole list of u.
LEMMA ListWritten ==
    ASSUME Placed, NEW t \in Thread, NEW u \in nodes, WriteList(t, u),
           NEW k \in 1 .. Len(lists[u]), NEW e, e = lists[u][k]
    PROVE  Written(e)'
<1> USE DEF Placed
<1>1. frame[t].target \in FileName
  BY DEF WriteList, Visits, FrameFollowsCall, Locked
<1>2. PICK f \in FileName : f = frame[t].target
  BY <1>1
<1>3. /\ files[f] \in Seq(Entry) /\ lists[u] \in Seq(Entry)
      /\ files'[f] = files[f] \o lists[u]
  BY <1>2, FilesGrow
<1>4. \E j \in 1 .. Len(files'[f]) : files'[f][j] = e
  <2>1. /\ Len(files[f]) + k \in 1 .. Len(files[f] \o lists[u])
        /\ (files[f] \o lists[u])[Len(files[f]) + k] = e
    BY <1>3, ConcatParts
  <2> QED
    BY <1>3, <2>1
<1>5. LogTypeOK'
  BY ThreadType DEF Run, Operating
<1> QED
  BY <1>4, <1>5, WrittenNextMeans

-----------------------------------------------------------------------------
(* The sweep of writeToFile in the handler                                  *)

\* What the handler of t has not written of the list of u is at most one entry,
\* for which the log of u was past the check.
Spared(t, u) ==
    \A k \in 1 .. Len(lists[u]) :
        k < Len(lists[u]) \/ pc[u] = "append" \/ u = t => Written(lists[u][k])

Wrote(t) ==
    /\ frame[t].ret = "hReset" =>
         /\ pc[t] \in {"enter", "open"} => frame[t].cursor = NoThread
         /\ pc[t] \in {"sweep", "leave"} =>
              \A u \in Thread : Past(t, u) => Spared(t, u)
    /\ pc[t] = "hReset" \/ frame[t].ret = "hResume" =>
         \A u \in Thread : Spared(t, u)

WriteInv == \A t \in Thread : Wrote(t)

\* Where t is when it has written something, and logging is suspended.
AfterWrites(t) ==
    pc[t] = "hReset" \/ (InCall(t) /\ frame[t].ret \in {"hReset", "hResume"})

LEMMA SparedStays ==
    ASSUME Inv, StoreInv, SLP!Counting, NEW t \in Thread, AfterWrites(t),
           NEW u \in Thread, Spared(t, u),
           NEW w \in Thread, Run(w) \/ UserCall(w)
    PROVE  Spared(t, u)'
<1> USE InvPlaced DEF Inv
<1>1. SL!Suspended
  <2>1. <<t, "handler">> \in guards
    BY DEF AfterWrites, Scoped, GuardsFollowScope, InHandler, HandlerLabels
  <2> QED
    BY <2>1, CountingSuspends DEF SL!SuspendedIffGuarded
<1>2. \A x \in Thread : x # w => pc'[x] = pc[x]
  BY AnyStepKeepsScopes DEF StepKeepsScopes, OthersUntouched
<1>3. \A e : Written(e) => Written(e)'
  BY WrittenStays
<1>4. ASSUME lists'[u] = lists[u], pc'[u] = "append" => pc[u] = "append"
      PROVE  Spared(t, u)'
  BY <1>3, <1>4 DEF Spared
<1>5. CASE EmplaceBack(w)
  <2>1. /\ pc[w] = "append" /\ pc'[w] = "streamCount"
        /\ lists' = [lists EXCEPT ![w] = Append(@, entry[w])]
    BY <1>5, GoToMoves DEF EmplaceBack
  <2>2. CASE u = w
    <3>1. t # w
      BY <2>1 DEF AfterWrites, InCall, CallLabels
    <3>2. lists'[w] = Append(lists[w], entry[w]) /\ entry[w] \in Entry
      BY <2>1 DEF LogTypeOK
    <3>3. /\ Len(lists'[w]) = Len(lists[w]) + 1
          /\ \A k \in 1 .. Len(lists[w]) : lists'[w][k] = lists[w][k]
      BY <3>2, ListType, AppendProperties
    <3>4. \A k \in 1 .. Len(lists[w]) : Written(lists[w][k])
      BY <2>1, <2>2 DEF Spared
    <3>5. ASSUME NEW k \in 1 .. Len(lists'[w]), k < Len(lists'[w])
          PROVE  \A e : e = lists'[w][k] => Written(e)'
      <4>1. k \in 1 .. Len(lists[w])
        BY <3>3, <3>5, ListType
      <4>2. Written(lists[w][k]) /\ lists'[w][k] = lists[w][k]
        BY <3>3, <3>4, <4>1
      <4> QED
        BY <1>3, <4>2
    <3> QED
      BY <2>1, <2>2, <3>1, <3>5 DEF Spared
  <2>3. CASE u # w
    <3>1. lists'[u] = lists[u]
      BY <2>1, <2>3 DEF LogTypeOK
    <3> QED
      BY <1>2, <1>4, <2>3, <3>1
  <2> QED
    BY <2>2, <2>3
<1>6. CASE TakesSome(w)
  <2>1. pc' = pc
    BY <1>6 DEF TakesSome, Takes
  <2>2. PICK h :
              /\ \A k \in 1 .. Len(lists'[u]) :
                   /\ h[k] \in 1 .. Len(lists[u])
                   /\ lists'[u][k] = lists[u][h[k]]
              /\ \A j, k \in 1 .. Len(lists'[u]) : j < k => h[j] < h[k]
    BY <1>6, TakesRest
  <2>3. ASSUME NEW k \in 1 .. Len(lists'[u]),
               k < Len(lists'[u]) \/ pc[u] = "append" \/ u = t
        PROVE  \A e : e = lists'[u][k] => Written(e)'
    <3>1. h[k] < Len(lists[u]) \/ pc[u] = "append" \/ u = t
      <4>1. Len(lists'[u]) \in Nat
        BY <1>6, TakesRest
      <4>2. CASE k < Len(lists'[u])
        <5>1. Len(lists'[u]) \in 1 .. Len(lists'[u])
          BY <4>1, <4>2
        <5>2. h[k] \in 1 .. Len(lists[u]) /\ h[Len(lists'[u])] \in 1 .. Len(lists[u])
          BY <2>2, <5>1
        <5>3. h[k] < h[Len(lists'[u])]
          BY <2>2, <4>2, <5>1
        <5> QED
          BY <5>2, <5>3, ListType
      <4> QED
        BY <2>3, <4>2
    <3>2. Written(lists[u][h[k]])
      BY <2>2, <2>3, <3>1 DEF Spared
    <3> QED
      BY <1>3, <2>2, <2>3, <3>2
  <2> QED
    BY <2>1, <2>3 DEF Spared
<1>7. ASSUME NEW level \in Logs[w], Log(w, level)
      PROVE  Spared(t, u)'
  BY <1>2, <1>4, <1>7, GoToMoves DEF Log, mapVars
<1>8. CASE InsertList(w)
  BY <1>2, <1>4, <1>8, GoToMoves DEF InsertList
<1>9. CASE ReuseThreadId(w)
  BY <1>4, <1>9 DEF ReuseThreadId
<1>10. CASE MapUntouched(w)
  BY <1>1, <1>2, <1>4, <1>10 DEF MapUntouched
<1> QED
  BY <1>5, <1>6, <1>7, <1>8, <1>9, <1>10, MapSteps

\* The steps inside the writeToFile of the handler: the file is open before the
\* sweep begins.
LEMMA InsideWrite ==
    ASSUME Inv, StoreInv, SLP!Counting, FilesOpen, NEW t \in Thread, Wrote(t),
           Inside(t), frame[t].ret = "hReset"
    PROVE  /\ pc'[t] \in {"enter", "open"} => frame'[t].cursor = NoThread
           /\ pc'[t] \in {"sweep", "leave"} =>
                \A u \in Thread : Past(t, u)' => Spared(t, u)'
<1> USE InvPlaced DEF Inv
<1>0. /\ frame[t].op = "writeToFile" /\ ~Locked(frame[t].op)
      /\ frame[t] \in Frame
  BY DEF Scoped, FrameFollowsCall, Locked, LogTypeOK
<1>1. CASE Enter(t)
  <2>1. pc[t] = "enter" /\ pc'[t] = "open" /\ frame' = frame
    BY <1>0, <1>1, GoToMoves DEF Enter, FilesOpen
  <2> QED
    BY <2>1 DEF Wrote
<1>2. CASE Lock(t)
  BY <1>0, <1>2, GoToMoves DEF Lock, Scoped, FrameFollowsCall
<1>3. CASE Open(t)
  <2>1. /\ pc[t] = "open" /\ pc'[t] = "sweep"
        /\ UNCHANGED <<nodes, lists>>
    BY <1>3, GoToMoves DEF Open, FilesOpen, mapVars
  <2>2. frame'[t].cursor = NoThread
    <3>1. frame'[t].cursor = frame[t].cursor
      BY <1>0, <1>3 DEF Open, LogTypeOK, Frame
    <3> QED
      BY <2>1, <3>1 DEF Wrote
  <2>3. ASSUME NEW u \in Thread, Past(t, u)'
        PROVE  Spared(t, u)'
    <3>1. u \notin nodes
      BY <2>1, <2>2, <2>3, LogAssumption DEF Past, NoThread
    <3>2. lists'[u] = <<>>
      BY <2>1, <3>1 DEF StoreInv, Stored
    <3> QED
      BY <3>2, EmptySeq DEF Spared
  <2> QED
    BY <2>1, <2>3
<1>4. CASE EndSweep(t)
  <2>1. /\ pc[t] = "sweep" /\ pc'[t] = "leave"
        /\ \A u \in nodes : u <= frame[t].cursor
    BY <1>4, GoToMoves DEF EndSweep
  <2>2. \A u \in Thread : Spared(t, u)
    BY <2>1 DEF Wrote, Past
  <2>3. AfterWrites(t) /\ Run(t)
    BY <1>4, <2>1 DEF AfterWrites, InCall, CallLabels, Run, Operating
  <2> QED
    BY <2>1, <2>2, <2>3, SparedStays
<1>5. ASSUME NEW x \in nodes, WriteList(t, x)
      PROVE  /\ pc'[t] = "sweep"
             /\ \A u \in Thread : Past(t, u)' => Spared(t, u)'
  <2>1. /\ pc[t] = "sweep" /\ IsNext(t, x)
        /\ UNCHANGED <<pc, nodes, lists>>
    BY <1>5 DEF WriteList, Visits, mapVars
  <2>2. x \in Thread
    BY DEF LogTypeOK
  <2>3. frame'[t].cursor = x
    BY <1>0, <1>5, <2>2 DEF WriteList, LogTypeOK, Frame
  <2>4. ASSUME NEW u \in Thread, Past(t, u)'
        PROVE  Spared(t, u)'
    <3>1. CASE u = x
      <4>1. \A k \in 1 .. Len(lists[x]) : \A e : e = lists[x][k] => Written(e)'
        BY <1>5, ListWritten
      <4>2. \A k \in 1 .. Len(lists'[x]) : \A e : e = lists'[x][k] => Written(e)'
        BY <2>1, <4>1
      <4> QED
        BY <3>1, <4>2 DEF Spared
    <3>2. CASE u # x
      <4>1. u \in Nat /\ x \in Nat
        BY <2>2, LogAssumption
      <4>2. Past(t, u)
        BY <2>1, <2>3, <2>4, <3>2, <4>1 DEF Past, IsNext
      <4>3. Spared(t, u)
        BY <2>1, <4>2 DEF Wrote
      <4>4. AfterWrites(t) /\ Run(t)
        BY <1>5, <2>1 DEF AfterWrites, InCall, CallLabels, Run, Operating
      <4> QED
        BY <4>3, <4>4, SparedStays
    <3> QED
      BY <3>1, <3>2
  <2> QED
    BY <2>1, <2>4
<1>6. ASSUME NEW u \in nodes,
             ResetList(t, u) \/ ReleaseList(t, u) \/ CountList(t, u)
      PROVE  FALSE
  BY <1>0, <1>6 DEF ResetList, ReleaseList, CountList, Visits
<1> QED
  BY <1>1, <1>2, <1>3, <1>4, <1>5, <1>6 DEF Inside

LEMMA OwnWriteStep ==
    ASSUME Inv, StoreInv, SLP!Counting, FilesOpen, NEW t \in Thread, Wrote(t),
           Run(t) \/ UserCall(t)
    PROVE  Wrote(t)'
<1> USE InvPlaced DEF Inv
<1>1. ASSUME AfterWrites(t), \A u \in Thread : Spared(t, u)
      PROVE  \A u \in Thread : Spared(t, u)'
  BY <1>1, SparedStays
<1>2. Scoped(t)'
  BY AnyStepKeepsScopes DEF StepKeepsScopes
<1>3. CASE pc'[t] \notin CallLabels
  <2>1. frame'[t].ret = "idle"
    BY <1>2, <1>3 DEF Scoped, FrameFollowsCall, InCall, NoFrame, NewFrame
  <2>2. ASSUME pc'[t] = "hReset"
        PROVE  \A u \in Thread : Spared(t, u)'
    <3>1. pc[t] = "leave" /\ frame[t].ret = "hReset"
      BY <2>2, HandlerSteps, GoToMoves DEF HandlerLabels, Leave
    <3>2. \A u \in Thread : Spared(t, u)
      BY <3>1 DEF Wrote, Past
    <3> QED
      BY <1>1, <3>1, <3>2 DEF AfterWrites, InCall, CallLabels
  <2> QED
    BY <2>1, <2>2 DEF Wrote
<1>4. CASE pc'[t] \in CallLabels
  <2>0. pc'[t] # "hReset"
    BY <1>4 DEF CallLabels
  <2>1. ASSUME NEW o, NEW r, Calling(t, o, r), r \notin {"hReset", "hResume"}
        PROVE  Wrote(t)'
    BY <2>0, <2>1 DEF Calling, NewFrame, Wrote
  <2>2. CASE Calling(t, "writeToFile", "hReset")
    BY <2>0, <2>2 DEF Calling, NewFrame, Wrote
  <2>3. CASE HReset(t) /\ Calling(t, "reset", "hResume")
    <3>1. pc[t] = "hReset"
      BY <2>3 DEF HReset
    <3>2. \A u \in Thread : Spared(t, u)'
      BY <1>1, <3>1 DEF AfterWrites, Wrote
    <3> QED
      BY <2>0, <2>3, <3>2 DEF Calling, NewFrame, Wrote
  <2>4. CASE Inside(t)
    <3>1. pc[t] \in CallLabels /\ frame'[t].ret = frame[t].ret
      BY <2>4, InsideKeeps
    <3>2. CASE frame[t].ret = "hResume"
      <4>1. \A u \in Thread : Spared(t, u)'
        BY <1>1, <3>1, <3>2 DEF AfterWrites, InCall, Wrote
      <4> QED
        BY <2>0, <3>1, <3>2, <4>1 DEF Wrote
    <3>3. CASE frame[t].ret = "hReset"
      BY <2>0, <2>4, <3>1, <3>3, InsideWrite DEF Wrote
    <3> QED
      BY <2>0, <3>1, <3>2, <3>3 DEF Wrote
  <2> QED
    BY <1>4, <2>1, <2>2, <2>3, <2>4, CallSteps
<1> QED
  BY <1>3, <1>4

LEMMA OtherWriteStep ==
    ASSUME Inv, StoreInv, SLP!Counting, NEW t \in Thread, Wrote(t),
           NEW w \in Thread \ {t}, Run(w) \/ UserCall(w)
    PROVE  Wrote(t)'
<1> USE InvPlaced DEF Inv
<1>1. pc'[t] = pc[t] /\ frame'[t] = frame[t]
  BY AnyStepKeepsScopes DEF StepKeepsScopes, OthersUntouched
<1>2. nodes \subseteq nodes'
  BY MapSteps
     DEF Log, InsertList, EmplaceBack, ReuseThreadId, TakesSome, Takes,
         MapUntouched, mapVars
<1>3. ASSUME NEW u \in Thread, Past(t, u)'
      PROVE  Past(t, u)
  BY <1>1, <1>2, <1>3 DEF Past
<1>4. ASSUME NEW u \in Thread, AfterWrites(t), Spared(t, u)
      PROVE  Spared(t, u)'
  BY <1>4, SparedStays
<1>5. CASE frame[t].ret = "hReset"
  <2>1. InCall(t)
    BY <1>5 DEF Scoped, FrameFollowsCall, NoFrame, NewFrame
  <2>2. pc[t] # "hReset" /\ AfterWrites(t)
    BY <1>5, <2>1 DEF InCall, CallLabels, AfterWrites
  <2> QED
    BY <1>1, <1>3, <1>4, <1>5, <2>2 DEF Wrote
<1>6. CASE frame[t].ret = "hResume" \/ pc[t] = "hReset"
  <2>1. frame[t].ret = "hResume" => InCall(t)
    BY DEF Scoped, FrameFollowsCall, NoFrame, NewFrame
  <2>2. AfterWrites(t)
    BY <1>6, <2>1 DEF AfterWrites
  <2>3. \A u \in Thread : Spared(t, u)'
    BY <1>4, <1>6, <2>2 DEF Wrote
  <2> QED
    BY <1>1, <1>5, <2>3 DEF Wrote
<1> QED
  BY <1>1, <1>5, <1>6 DEF Wrote

LEMMA WriteInit == Init => WriteInv
  BY DEF Init, WriteInv, Wrote, NoFrame, NewFrame

LEMMA WriteStep ==
    ASSUME Inv, StoreInv, SLP!Counting, FilesOpen, WriteInv, [Next]_vars
    PROVE  WriteInv'
<1> SUFFICES ASSUME NEW t \in Thread
             PROVE  Wrote(t)'
  BY DEF WriteInv
<1>1. Wrote(t)
  BY DEF WriteInv
<1>2. ASSUME NEW w \in Thread, Run(w) \/ UserCall(w)
      PROVE  Wrote(t)'
  BY <1>1, <1>2, OwnWriteStep, OtherWriteStep
<1>3. CASE UNCHANGED vars
  BY <1>1, <1>3 DEF vars, mapVars, fileVars, Wrote, Past, Spared, Written
<1> QED
  BY <1>2, <1>3 DEF Next, Rest

LEMMA WriteInvariance ==
    ASSUME FilesOpen
    PROVE  Spec => []WriteInv
<1>1. Inv /\ StoreInv /\ SLP!Counting /\ WriteInv /\ [Next]_vars => WriteInv'
  BY WriteStep
<1> QED
  BY <1>1, WriteInit, Invariance, StoreInvariance, LogCounts, PTL DEF Spec

\* However many threads log incidents at once: as long as the log file can be
\* opened, what the reset of a handler throws away has been written to a file,
\* the newest entry of each list excepted.
THEOREM OnlyStragglersLost ==
    ASSUME FilesOpen
    PROVE  Spec => ResetLosesOnlyStragglers
<1>1. Inv /\ WriteInv => \A t, u \in Thread :
        ResetList(t, u) /\ frame[t].ret = "hResume" =>
            \A i \in 1 .. Len(lists[u]) - 1 : Written(lists[u][i])
  <2> SUFFICES ASSUME Inv, WriteInv, NEW t \in Thread, NEW u \in Thread,
                      frame[t].ret = "hResume",
                      NEW i \in 1 .. Len(lists[u]) - 1
               PROVE  Written(lists[u][i])
    OBVIOUS
  <2>1. i \in 1 .. Len(lists[u]) /\ i < Len(lists[u])
    BY ListType DEF Inv
  <2> QED
    BY <2>1 DEF WriteInv, Wrote, Spared
<1>2. Inv /\ WriteInv /\ [Next]_vars =>
        [\A t, u \in Thread :
            ResetList(t, u) /\ frame[t].ret = "hResume" =>
                \A i \in 1 .. Len(lists[u]) - 1 : Written(lists[u][i])]_vars
  BY <1>1
<1> QED
  BY <1>2, WriteInvariance, Invariance, PTL DEF Spec, ResetLosesOnlyStragglers

-----------------------------------------------------------------------------
(* Who calls which operation                                                *)

\* The operation t executes is one its caller calls.
Called(t) ==
    /\ frame[t].ret = "idle" =>
         frame[t].op \in {"none"} \union CallbackOps \union Calls[t]
    /\ frame[t].ret = "hName" => frame[t].op = "releaseLogs"
    /\ frame[t].ret = "hResume" => frame[t].op = "reset"

AllCalled == \A t \in Thread : Called(t)

LEMMA CalledInit == Init => AllCalled
  BY DEF Init, AllCalled, Called, NoFrame, NewFrame

LEMMA CalledThreadStep ==
    ASSUME Placed, AllCalled, NEW w \in Thread, Run(w) \/ UserCall(w), Steady(w)
    PROVE  AllCalled'
<1> SUFFICES ASSUME NEW t \in Thread
             PROVE  Called(t)'
  BY DEF AllCalled
<1>1. Called(t)
  BY DEF AllCalled
<1>2. CASE t # w
  <2>1. frame'[t] = frame[t]
    BY <1>2 DEF Steady, OthersUntouched
  <2> QED
    BY <1>1, <2>1 DEF Called
<1>3. CASE t = w /\ pc'[t] \notin CallLabels
  <2>1. frame'[t].op = "none" /\ frame'[t].ret = "idle"
    BY <1>3 DEF Steady, FrameFollowsCall, InCall, NoFrame, NewFrame
  <2> QED
    BY <2>1 DEF Called
<1>4. CASE t = w /\ pc'[t] \in CallLabels
  <2>1. ASSUME NEW o \in CallbackOps \union Calls[t], Calling(t, o, "idle")
        PROVE  Called(t)'
    BY <2>1 DEF Calling, NewFrame, Called
  <2>2. CASE \/ Calling(t, "releaseLogs", "hName")
             \/ Calling(t, "writeToFile", "hReset")
             \/ Calling(t, "reset", "hResume")
    BY <2>2 DEF Calling, NewFrame, Called
  <2>3. CASE Inside(t)
    BY <1>1, <2>3, InsideKeeps DEF Called
  <2> QED
    BY <1>4, <2>1, <2>2, <2>3, CallSteps
<1> QED
  BY <1>2, <1>3, <1>4

LEMMA CalledStep ==
    ASSUME Inv, AllCalled, [Next]_vars
    PROVE  AllCalled'
<1>1. ASSUME NEW w \in Thread, Run(w) \/ UserCall(w)
      PROVE  AllCalled'
  BY <1>1, StepSteady, CalledThreadStep
<1>2. CASE UNCHANGED vars
  BY <1>2 DEF vars, AllCalled, Called
<1> QED
  BY <1>1, <1>2 DEF Next, Rest

LEMMA CalledInvariance == Spec => []AllCalled
  BY CalledInit, CalledStep, Invariance, PTL DEF Spec

-----------------------------------------------------------------------------
(* The incident of the only handler                                         *)

PrintLabels == {"streamCount", "streamWrite", "callbackCount", "invoke"}

\* The steps of t after it has stored its entry.
LEMMA PrintSteps ==
    ASSUME Placed, NEW t \in Thread, Run(t) \/ UserCall(t),
           pc'[t] \in PrintLabels
    PROVE  EmplaceBack(t) \/ (pc[t] \in PrintLabels /\ UNCHANGED entry)
<1> USE DEF Placed, PrintLabels
<1>1. CASE Logging(t)
  <2>1. CASE LockMap(t) \/ InsertList(t) \/ Check(t) \/ Invoke(t)
    BY <2>1, GoToMoves, CallMoves DEF LockMap, InsertList, Check, Invoke
  <2>2. CASE StreamCount(t) \/ StreamWrite(t) \/ CallbackCount(t)
    BY <2>2, GoToMoves DEF StreamCount, StreamWrite, CallbackCount
  <2> QED
    BY <1>1, <2>1, <2>2 DEF Logging
<1>2. CASE LevelHandler(t)
  BY <1>2, CallMoves, GoToMoves
     DEF LevelHandler, HSuspend, HName, HStamp, HReset, HResume
<1>3. CASE Operating(t)
  <2>1. CASE Enter(t) \/ Lock(t) \/ EndSweep(t) \/ Open(t)
    BY <2>1, GoToMoves DEF Enter, Lock, EndSweep, Open
  <2>2. CASE Leave(t)
    BY <2>2, GoToMoves DEF Leave, FrameFollowsCall
  <2>3. ASSUME NEW u \in nodes,
               \/ ResetList(t, u) \/ ReleaseList(t, u)
               \/ CountList(t, u) \/ WriteList(t, u)
        PROVE  FALSE
    BY <2>3 DEF ResetList, ReleaseList, CountList, WriteList, Visits
  <2> QED
    BY <1>3, <2>1, <2>2, <2>3 DEF Operating
<1>4. CASE ResumeScope(t)
  BY <1>4 DEF ResumeScope
<1>5. CASE UserCall(t)
  <2>1. ASSUME NEW level \in Logs[t], Log(t, level)
        PROVE  FALSE
    BY <2>1, GoToMoves DEF Log
  <2>2. ASSUME NEW o \in Operation, CallOperation(t, o)
        PROVE  FALSE
    BY <2>2, CallMoves DEF CallOperation
  <2>3. CASE SuspendScope(t) \/ ReuseThreadId(t)
    BY <2>3 DEF SuspendScope, ReuseThreadId, May
  <2>4. CASE Configuring(t)
    <3>1. pc[t] = "idle"
      BY <2>4, ConfiguringIdle
    <3> QED
      BY <2>4, <3>1, ConfiguringType
  <2> QED
    BY <1>5, <2>1, <2>2, <2>3, <2>4 DEF UserCall
<1> QED
  BY <1>1, <1>2, <1>3, <1>4, <1>5 DEF Run

\* The entry t logs is the newest of its list.
Latest(t) == Len(lists[t]) > 0 /\ lists[t][Len(lists[t])] = entry[t]

\* From where it stores its entry to the reset of the handler i has it in its
\* list, and from there on in a file.
Kept(i) ==
    /\ \/ pc[i] \in PrintLabels \union {"hSuspend", "hName", "hStamp", "hReset"}
       \/ frame[i].ret \in {"hName", "hReset"}
       => Latest(i)
    /\ pc[i] = "hResume" \/ frame[i].ret = "hResume" => Written(entry[i])

\* The policies leave the newest entry of a list, and leave it the newest.
LEMMA NewestRetained ==
    ASSUME NewestStays, NEW s \in Seq(Entry), s # <<>>, NEW kept \in Retained(s)
    PROVE  Len(kept) \in Nat /\ Len(kept) > 0 /\ kept[Len(kept)] = s[Len(s)]
<1> DEFINE n == Len(s)
<1>1. Fresh \in Nat /\ Fresh > 0 /\ MaxNumber \in Nat /\ MaxNumber > 0
  BY LogAssumption DEF NewestStays
<1>2. n \in Nat /\ n > 0
  BY EmptySeq, LenProperties
<1>3. PICK h \in Young(n) : kept = Store!Selected(s, Youngest(h))
  BY DEF Retained
<1> HIDE DEF n
<1>4. h \in Store!Ascending(n)
  BY <1>2, <1>3, StayAllOrNone DEF Young
<1>5. /\ Len(h) \in 0 .. n
      /\ \A k \in 1 .. Len(h) : h[k] \in 1 .. n
      /\ \A j, k \in 1 .. Len(h) : j < k => h[j] < h[k]
  BY <1>4, RestOfList DEF n
<1>6. \E i \in 1 .. Len(h) : h[i] = n
  <2>1. DOMAIN h = 1 .. Len(h)
    <3>1. PICK m \in 0 .. n : h \in [1 .. m -> 1 .. n]
      BY <1>4 DEF Store!Ascending
    <3> QED
      BY <1>2, <3>1
  <2>2. CASE "OlderThan" \in policies
    <3>1. n \in 1 .. n /\ n + Fresh > n
      BY <1>1, <1>2
    <3> QED
      BY <1>3, <2>1, <2>2, <3>1 DEF Young
  <2>3. CASE "OlderThan" \notin policies
    <3>1. h = [i \in 1 .. n |-> i]
      BY <1>3, <2>3 DEF Young
    <3>2. n \in DOMAIN h /\ h[n] = n
      BY <1>2, <3>1
    <3> QED
      BY <2>1, <3>2
  <2> QED
    BY <2>2, <2>3
<1>7. Len(h) \in 1 .. n /\ h[Len(h)] = n
  BY <1>2, <1>5, <1>6
<1>8. /\ Youngest(h) \in Store!Ascending(n)
      /\ Len(Youngest(h)) \in 1 .. n
      /\ Youngest(h)[Len(Youngest(h))] = n
  <2>1. CASE "MaxNumber" \in policies /\ Len(h) > MaxNumber
    <3> DEFINE d == Len(h) - MaxNumber
               last == SubSeq(h, d + 1, Len(h))
    <3>1. d \in Nat /\ d <= Len(h) /\ Len(h) - d = MaxNumber
      BY <1>1, <1>7, <2>1
    <3>2. Youngest(h) = last
      BY <2>1 DEF Youngest
    <3> HIDE DEF d
    <3>3. /\ last \in Store!Ascending(n)
          /\ Len(last) = Len(h) - d
          /\ \A k \in 1 .. Len(h) - d : last[k] = h[k + d]
      BY <1>2, <1>4, <3>1, StayLast
    <3> HIDE DEF last
    <3>4. Len(last) = MaxNumber /\ MaxNumber \in 1 .. n
      <4>1. MaxNumber \in 1 .. n
        BY <1>1, <1>2, <1>7, <2>1
      <4> QED
        BY <3>1, <3>3, <4>1
    <3>5. MaxNumber \in 1 .. Len(h) - d /\ MaxNumber + d = Len(h)
      BY <1>1, <1>7, <3>1
    <3> QED
      BY <1>7, <3>2, <3>3, <3>4, <3>5
  <2>2. CASE ~("MaxNumber" \in policies /\ Len(h) > MaxNumber)
    BY <1>4, <1>7, <2>2 DEF Youngest
  <2> QED
    BY <2>1, <2>2
<1>9. /\ Len(kept) = Len(Youngest(h))
      /\ \A k \in 1 .. Len(Youngest(h)) : kept[k] = s[Youngest(h)[k]]
  BY <1>3, <1>8, RestOfList DEF n
<1> QED
  BY <1>2, <1>8, <1>9 DEF n

LEMMA LatestStays ==
    ASSUME LogTypeOK, NewestStays, NEW i \in Thread, Latest(i),
           NEW w \in Thread, NEW u \in nodes, ReleaseList(w, u)
    PROVE  Latest(i)'
<1>1. lists[i] \in Seq(Entry)
  BY ListType
<1>2. UNCHANGED entry
  BY DEF ReleaseList
<1>3. PICK kept \in Retained(lists[u]) : lists' = [lists EXCEPT ![u] = kept]
  BY DEF ReleaseList
<1>4. CASE u = i
  <2>1. lists'[i] = kept /\ kept \in Retained(lists[i])
    BY <1>3, <1>4 DEF LogTypeOK
  <2>2. lists[i] # <<>>
    BY <1>1, EmptySeq DEF Latest
  <2> QED
    BY <1>1, <1>2, <2>1, <2>2, NewestRetained DEF Latest
<1>5. CASE u # i
  <2>1. lists'[i] = lists[i]
    BY <1>3, <1>5 DEF LogTypeOK
  <2> QED
    BY <1>2, <2>1 DEF Latest
<1> QED
  BY <1>4, <1>5

LEMMA OwnKeptStep ==
    ASSUME Inv, NEW i \in Thread, Wrote(i), AllCalled, NobodyCalls("reset"), NewestStays,
           Kept(i), Run(i) \/ UserCall(i)
    PROVE  Kept(i)'
<1> USE InvPlaced DEF Inv, PrintLabels
<1>1. Scoped(i)'
  BY AnyStepKeepsScopes DEF StepKeepsScopes
<1>2. \A e : Written(e) => Written(e)'
  BY WrittenStays
<1>3. ASSUME pc[i] \notin {"idle", "append", "sweep"}
      PROVE  UNCHANGED <<lists, entry>>
  <2>1. /\ ~EmplaceBack(i)
        /\ \A u \in nodes : ~ResetList(i, u) /\ ~ReleaseList(i, u)
        /\ \A level \in Logs[i] : ~Log(i, level)
    BY <1>3, GoToMoves DEF EmplaceBack, ResetList, ReleaseList, Visits, Log
  <2> QED
    BY <2>1, SharedSteps, EntrySteps
<1>4. CASE pc'[i] \notin CallLabels
  <2>1. frame'[i].ret = "idle"
    BY <1>1, <1>4 DEF Scoped, FrameFollowsCall, InCall, NoFrame, NewFrame
  <2>2. CASE pc'[i] \in PrintLabels
    <3>1. CASE EmplaceBack(i)
      <4>1. /\ lists'[i] = Append(lists[i], entry[i])
            /\ entry[i] \in Entry /\ entry' = entry
        BY <3>1 DEF EmplaceBack, LogTypeOK
      <4>2. /\ Len(lists'[i]) = Len(lists[i]) + 1
            /\ lists'[i][Len(lists[i]) + 1] = entry[i]
            /\ Len(lists[i]) \in Nat
        BY <4>1, ListType, AppendProperties
      <4>3. Latest(i)'
        BY <4>1, <4>2 DEF Latest
      <4> QED
        BY <2>1, <2>2, <4>3 DEF Kept
    <3>2. CASE pc[i] \in PrintLabels
      BY <1>3, <2>1, <2>2, <3>2 DEF Kept, Latest
    <3> QED
      BY <2>2, <3>1, <3>2, PrintSteps
  <2>3. CASE pc'[i] \in HandlerLabels
    <3>1. CASE Invoke(i) /\ pc'[i] = "hSuspend"
      BY <1>3, <2>1, <3>1 DEF Invoke, Kept, Latest
    <3>2. CASE HName(i) /\ pc'[i] = "hStamp"
      BY <1>3, <2>1, <3>2 DEF HName, Kept, Latest
    <3>3. CASE Leave(i) /\ pc'[i] = frame[i].ret
      <4>1. pc[i] = "leave"
        BY <3>3 DEF Leave, GoTo
      <4>2. CASE frame[i].ret \in {"hName", "hReset"}
        BY <1>3, <2>1, <3>3, <4>1, <4>2 DEF Kept, Latest
      <4>3. CASE frame[i].ret = "hResume"
        BY <1>2, <1>3, <2>1, <3>3, <4>1, <4>3 DEF Kept
      <4> QED
        BY <2>3, <3>3, <4>2, <4>3 DEF Scoped, FrameFollowsCall, HandlerLabels
    <3> QED
      BY <2>3, <3>1, <3>2, <3>3, HandlerSteps
  <2>4. CASE pc'[i] \notin PrintLabels \union HandlerLabels
    BY <2>1, <2>4 DEF Kept, HandlerLabels
  <2> QED
    BY <2>2, <2>3, <2>4
<1>5. CASE pc'[i] \in CallLabels
  <2>0. pc'[i] \notin PrintLabels \union HandlerLabels
    BY <1>5 DEF CallLabels, HandlerLabels
  <2>1. ASSUME NEW o, Calling(i, o, "idle")
        PROVE  Kept(i)'
    BY <2>0, <2>1 DEF Calling, NewFrame, Kept, HandlerLabels
  <2>2. CASE HSuspend(i) /\ Calling(i, "releaseLogs", "hName")
    BY <1>3, <2>0, <2>2 DEF HSuspend, Calling, NewFrame, Kept, Latest, HandlerLabels
  <2>3. CASE (HName(i) \/ HStamp(i)) /\ Calling(i, "writeToFile", "hReset")
    BY <1>3, <2>0, <2>3
       DEF HName, HStamp, Calling, NewFrame, Kept, Latest, HandlerLabels
  <2>4. CASE HReset(i) /\ Calling(i, "reset", "hResume")
    <3>1. pc[i] = "hReset"
      BY <2>4 DEF HReset
    <3>2. Latest(i) /\ Spared(i, i)
      BY <3>1 DEF Kept, Wrote
    <3>3. Written(entry[i])
      BY <3>2, ListType DEF Latest, Spared
    <3>4. \A e : e = entry'[i] => Written(e)'
      BY <1>2, <1>3, <3>1, <3>3
    <3> QED
      BY <2>0, <2>4, <3>4 DEF Calling, NewFrame, Kept, HandlerLabels
  <2>5. CASE Inside(i)
    <3>1. pc[i] \in CallLabels /\ frame'[i].ret = frame[i].ret
      BY <2>5, InsideKeeps
    <3>2. entry' = entry
      <4>1. \A level \in Logs[i] : ~Log(i, level)
        BY <3>1, GoToMoves DEF Log, CallLabels
      <4> QED
        BY <4>1, EntrySteps
    <3>3. CASE frame[i].ret \in {"hName", "hReset"}
      <4>1. Latest(i)
        BY <3>3 DEF Kept
      <4>2. frame[i].op # "reset"
        BY <3>3 DEF AllCalled, Called, Scoped, FrameFollowsCall
      <4>3. ~EmplaceBack(i) /\ \A u \in nodes : ~ResetList(i, u)
        BY <3>1, <4>2, GoToMoves DEF EmplaceBack, CallLabels, ResetList, Visits
      <4>4. ASSUME UNCHANGED lists
            PROVE  Latest(i)'
        BY <3>2, <4>1, <4>4 DEF Latest
      <4>5. ASSUME NEW u \in nodes, ReleaseList(i, u)
            PROVE  Latest(i)'
        BY <4>1, <4>5, LatestStays
      <4>6. Latest(i)'
        BY <4>3, <4>4, <4>5, SharedSteps
      <4> QED
        BY <2>0, <3>1, <3>3, <4>6 DEF Kept, HandlerLabels
    <3>4. CASE frame[i].ret = "hResume"
      <4>1. Written(entry[i])
        BY <3>4 DEF Kept
      <4> QED
        BY <1>2, <2>0, <3>1, <3>2, <3>4, <4>1 DEF Kept, HandlerLabels
    <3>5. CASE frame[i].ret = "idle"
      BY <2>0, <3>1, <3>5 DEF Kept, HandlerLabels
    <3> QED
      BY <3>3, <3>4, <3>5 DEF Scoped, FrameFollowsCall
  <2> QED
    BY <1>5, <2>1, <2>2, <2>3, <2>4, <2>5, CallSteps
<1> QED
  BY <1>4, <1>5

LEMMA OtherKeptStep ==
    ASSUME Inv, NEW i \in Thread, Alone(i), AllCalled, NobodyCalls("reset"), NewestStays,
           Kept(i), NEW w \in Thread \ {i}, Run(w) \/ UserCall(w)
    PROVE  Kept(i)'
<1> USE InvPlaced DEF Inv
<1>1. pc'[i] = pc[i] /\ frame'[i] = frame[i] /\ entry'[i] = entry[i]
  BY AnyStepKeepsScopes, EntryOfOthers DEF StepKeepsScopes, OthersUntouched
<1>2. Written(entry[i]) => \A e : e = entry'[i] => Written(e)'
  BY <1>1, WrittenStays
<1>3. ASSUME Latest(i)
      PROVE  Latest(i)'
  <2>1. CASE UNCHANGED lists
    BY <1>1, <1>3, <2>1 DEF Latest
  <2>2. CASE EmplaceBack(w)
    <3>1. lists'[i] = lists[i]
      BY <2>2 DEF EmplaceBack, LogTypeOK
    <3> QED
      BY <1>1, <1>3, <3>1 DEF Latest
  <2>3. ASSUME NEW u \in nodes, ReleaseList(w, u)
        PROVE  Latest(i)'
    BY <1>3, <2>3, LatestStays
  <2>4. ASSUME NEW u \in nodes, ResetList(w, u)
        PROVE  FALSE
    <3>1. frame[w].op = "reset"
      BY <2>4 DEF ResetList, Visits
    <3>2. frame[w].ret = "idle"
      BY DEF Alone
    <3> QED
      BY <3>1, <3>2 DEF AllCalled, Called, NobodyCalls
  <2> QED
    BY <2>1, <2>2, <2>3, <2>4, SharedSteps
<1> QED
  BY <1>1, <1>2, <1>3 DEF Kept

\* In a program where one thread logs the incidents, and nobody else clears the
\* log, the incident that called logLevelHandler is in a log file when the
\* handler has cleared the map.
THEOREM IncidentNotLost ==
    ASSUME NEW i \in Thread, OnlyIncidentThread(i), NobodyCalls("reset"),
           FilesOpen, NewestStays
    PROVE  Spec => []IncidentWritten
<1>1. Init => Kept(i)
  BY DEF Init, Kept, PrintLabels, NoFrame, NewFrame
<1>2. Inv /\ Alone(i) /\ AllCalled /\ WriteInv /\ Kept(i) /\ [Next]_vars => Kept(i)'
  <2> SUFFICES ASSUME Inv, Alone(i), AllCalled, WriteInv, Kept(i), [Next]_vars
               PROVE  Kept(i)'
    OBVIOUS
  <2>1. ASSUME NEW w \in Thread, Run(w) \/ UserCall(w)
        PROVE  Kept(i)'
    BY <2>1, OwnKeptStep, OtherKeptStep DEF WriteInv
  <2>2. CASE UNCHANGED vars
    BY <2>2 DEF vars, mapVars, fileVars, Kept, Latest, Written
  <2> QED
    BY <2>1, <2>2 DEF Next, Rest
<1>3. Alone(i) /\ Kept(i) => IncidentWritten
  BY DEF Alone, Kept, IncidentWritten, HandlerLabels
<1> QED
  BY <1>1, <1>2, <1>3, AloneInvariance, CalledInvariance, WriteInvariance,
     Invariance, PTL DEF Spec

-----------------------------------------------------------------------------
(* The order of the lists                                                   *)

\* The list of u has entries of u only, the oldest first.
Sorted(u) ==
    /\ \A k \in 1 .. Len(lists[u]) : lists[u][k].thread = u
    /\ \A j, k \in 1 .. Len(lists[u]) : j < k => lists[u][j].id < lists[u][k].id

AllSorted == \A u \in Thread : Sorted(u)

LEMMA SortedInit == Init => AllSorted
<1> SUFFICES ASSUME Init, NEW u \in Thread
             PROVE  Sorted(u)
  BY DEF AllSorted
<1>1. 1 .. Len(lists[u]) = {}
  BY EmptySeq DEF Init
<1> QED
  BY <1>1 DEF Sorted

LEMMA SortedThreadStep ==
    ASSUME Placed, StoreInv, AllSorted, NEW w \in Thread, Run(w) \/ UserCall(w)
    PROVE  AllSorted'
<1> USE DEF Placed
<1> SUFFICES ASSUME NEW u \in Thread
             PROVE  Sorted(u)'
  BY DEF AllSorted
<1>1. Sorted(u) /\ Len(lists[u]) \in Nat
  BY ListType DEF AllSorted
<1>2. ASSUME lists'[u] = lists[u]
      PROVE  Sorted(u)'
  BY <1>1, <1>2 DEF Sorted
<1>3. CASE EmplaceBack(w)
  <2>1. CASE u # w
    <3>1. lists'[u] = lists[u]
      BY <1>3, <2>1 DEF EmplaceBack, LogTypeOK
    <3> QED
      BY <1>2, <3>1
  <2>2. CASE u = w
    <3>1. lists'[u] = Append(lists[u], entry[u]) /\ entry[u] \in Entry
      BY <1>3, <2>2 DEF EmplaceBack, LogTypeOK
    <3>2. /\ Len(lists'[u]) = Len(lists[u]) + 1
          /\ \A k \in 1 .. Len(lists[u]) : lists'[u][k] = lists[u][k]
          /\ lists'[u][Len(lists[u]) + 1] = entry[u]
      BY <3>1, ListType, AppendProperties
    <3>3. pc[u] = "append"
      BY <1>3, <2>2, GoToMoves DEF EmplaceBack
    <3>4. /\ entry[u].thread = u
          /\ \A k \in 1 .. Len(lists[u]) : lists[u][k].id < entry[u].id
      BY <3>3 DEF StoreInv, Stored, Older, Storing
    <3>5. \A k \in 1 .. Len(lists'[u]) :
             k \in 1 .. Len(lists[u]) \/ k = Len(lists[u]) + 1
      BY <1>1, <3>2
    <3>6. ASSUME NEW k \in 1 .. Len(lists'[u])
          PROVE  lists'[u][k].thread = u
      BY <1>1, <3>2, <3>4, <3>5 DEF Sorted
    <3>7. ASSUME NEW j \in 1 .. Len(lists'[u]), NEW k \in 1 .. Len(lists'[u]), j < k
          PROVE  lists'[u][j].id < lists'[u][k].id
      <4>1. j \in 1 .. Len(lists[u])
        BY <1>1, <3>2, <3>7
      <4>2. CASE k \in 1 .. Len(lists[u])
        BY <1>1, <3>2, <3>7, <4>1, <4>2 DEF Sorted
      <4>3. CASE k = Len(lists[u]) + 1
        BY <3>2, <3>4, <4>1, <4>3
      <4> QED
        BY <3>5, <4>2, <4>3
    <3> QED
      BY <3>6, <3>7 DEF Sorted
  <2> QED
    BY <2>1, <2>2
<1>4. CASE TakesSome(w)
  <2>1. PICK h :
              /\ \A k \in 1 .. Len(lists'[u]) :
                   /\ h[k] \in 1 .. Len(lists[u])
                   /\ lists'[u][k] = lists[u][h[k]]
              /\ \A j, k \in 1 .. Len(lists'[u]) : j < k => h[j] < h[k]
    BY <1>4, TakesRest
  <2>2. \A k \in 1 .. Len(lists'[u]) : lists'[u][k].thread = u
    BY <1>1, <2>1 DEF Sorted
  <2>3. ASSUME NEW j \in 1 .. Len(lists'[u]), NEW k \in 1 .. Len(lists'[u]), j < k
        PROVE  lists'[u][j].id < lists'[u][k].id
    <3>1. h[j] < h[k]
      BY <2>1, <2>3
    <3>2. /\ h[j] \in 1 .. Len(lists[u]) /\ lists'[u][j] = lists[u][h[j]]
          /\ h[k] \in 1 .. Len(lists[u]) /\ lists'[u][k] = lists[u][h[k]]
      BY <2>1
    <3>3. lists[u][h[j]].id < lists[u][h[k]].id
      BY <1>1, <3>1, <3>2 DEF Sorted
    <3> QED
      BY <3>2, <3>3
  <2> QED
    BY <2>2, <2>3 DEF Sorted
<1>5. CASE \/ \E level \in Logs[w] : Log(w, level)
           \/ InsertList(w) \/ ReuseThreadId(w) \/ MapUntouched(w)
  BY <1>2, <1>5 DEF Log, InsertList, ReuseThreadId, MapUntouched, mapVars
<1> QED
  BY <1>3, <1>4, <1>5, MapSteps

LEMMA SortedStep ==
    ASSUME Inv, StoreInv, AllSorted, [Next]_vars
    PROVE  AllSorted'
<1>1. ASSUME UNCHANGED vars
      PROVE  AllSorted'
  BY <1>1 DEF vars, mapVars, AllSorted, Sorted
<1> QED
  BY <1>1, InvPlaced, SortedThreadStep DEF Next, Rest

LEMMA SortedInvariance == Spec => []AllSorted
  BY SortedInit, SortedStep, Invariance, StoreInvariance, PTL DEF Spec

-----------------------------------------------------------------------------
(* The order of the files                                                   *)

\* Between the write and the reset of the handler of i: the entries of the list
\* of u are in a file and still in the list.
Window(i, u) ==
    \/ pc[i] = "hReset"
    \/ frame[i].ret = "hReset" /\ pc[i] \in {"sweep", "leave"} /\ Past(i, u)
    \/ frame[i].ret = "hResume" /\ ~(pc[i] \in {"sweep", "leave"} /\ Past(i, u))

\* When the window closes there is nothing in the list.
LEMMA OwnWindow ==
    ASSUME Placed, StoreInv, ResetInv, AllCalled, NEW i \in Thread,
           Run(i) \/ UserCall(i), NEW u \in Thread, Window(i, u), ~Window(i, u)'
    PROVE  lists'[u] = <<>>
<1> USE DEF Placed
<1>0. frame[i] \in Frame
  BY DEF LogTypeOK
<1>1. CASE pc[i] = "hReset"
  <2>1. HReset(i)
    BY <1>1, OperationSteps
  <2>2. pc'[i] = "enter" /\ frame'[i] = NewFrame("reset", "hResume")
    BY <2>1, CallMoves DEF HReset, Call, LogTypeOK
  <2> QED
    BY <2>2 DEF Window, NewFrame
<1>2. CASE /\ frame[i].ret = "hReset" /\ pc[i] \in {"sweep", "leave"}
           /\ Past(i, u)
  <2>1. frame[i].op = "writeToFile"
    BY <1>2 DEF FrameFollowsCall
  <2>2. CASE Leave(i)
    BY <1>2, <2>2, GoToMoves DEF Leave, Window
  <2>3. CASE Inside(i)
    <3>1. frame'[i].ret = "hReset"
      BY <1>2, <2>3, InsideKeeps
    <3>2. ~(Enter(i) \/ Lock(i) \/ Open(i))
      BY <1>2, GoToMoves DEF Enter, Lock, Open
    <3>3. CASE EndSweep(i)
      BY <3>1, <3>3, GoToMoves DEF EndSweep, Window, Past
    <3>4. ASSUME NEW x \in nodes, WriteList(i, x)
          PROVE  FALSE
      <4>1. /\ pc'[i] = "sweep" /\ pc[i] = "sweep" /\ nodes' = nodes
            /\ frame[i].cursor < x
        BY <3>4 DEF WriteList, Visits, IsNext, mapVars
      <4>2. frame'[i].cursor = x
        BY <1>0, <3>4 DEF WriteList, LogTypeOK, Frame
      <4>3. frame[i].cursor \in Nat /\ x \in Nat /\ u \in Nat
        <5>1. x \in Thread
          BY DEF LogTypeOK
        <5> QED
          BY <5>1, CursorNat, LogAssumption
      <4>4. Past(i, u)'
        BY <1>2, <4>1, <4>2, <4>3 DEF Past
      <4> QED
        BY <3>1, <4>1, <4>4 DEF Window
    <3>5. ASSUME NEW x \in nodes,
                 ResetList(i, x) \/ ReleaseList(i, x) \/ CountList(i, x)
          PROVE  FALSE
      BY <2>1, <3>5 DEF ResetList, ReleaseList, CountList, Visits
    <3> QED
      BY <2>3, <3>2, <3>3, <3>4, <3>5 DEF Inside
  <2> QED
    BY <1>2, <2>2, <2>3, OperationSteps DEF CallLabels
<1>3. CASE /\ frame[i].ret = "hResume"
           /\ ~(pc[i] \in {"sweep", "leave"} /\ Past(i, u))
  <2>1. frame[i].op = "reset" /\ Locked(frame[i].op) /\ pc[i] \in CallLabels
    BY <1>3
       DEF AllCalled, Called, Locked, FrameFollowsCall, NoFrame,
           NewFrame, InCall
  <2>2. CASE Leave(i)
    BY <1>3, <2>2, GoToMoves DEF Leave, Past
  <2>3. CASE Inside(i)
    <3>1. frame'[i].ret = "hResume"
      BY <1>3, <2>3, InsideKeeps
    <3>2. CASE Enter(i)
      BY <2>1, <3>1, <3>2, GoToMoves DEF Enter, Window
    <3>3. CASE Open(i)
      BY <2>1, <3>3, GoToMoves DEF Open, FrameFollowsCall
    <3>4. CASE Lock(i)
      <4>1. /\ pc[i] = "lock" /\ pc'[i] = "sweep"
            /\ UNCHANGED <<frame, nodes, lists>>
        BY <3>4, GoToMoves DEF Lock
      <4>2. frame[i].cursor = NoThread
        BY <2>1, <4>1 DEF ResetInv, Resets
      <4>3. u \notin nodes
        BY <3>1, <4>1, <4>2, LogAssumption DEF Window, Past, NoThread
      <4> QED
        BY <4>1, <4>3 DEF StoreInv, Stored
    <3>5. CASE EndSweep(i)
      BY <1>3, <3>5, GoToMoves DEF EndSweep, Past
    <3>6. ASSUME NEW x \in nodes, ResetList(i, x)
          PROVE  lists'[u] = <<>>
      <4>1. /\ pc'[i] = "sweep" /\ pc[i] = "sweep" /\ nodes' = nodes
            /\ IsNext(i, x)
        BY <3>6 DEF ResetList, Visits
      <4>2. frame'[i].cursor = x
        BY <1>0, <3>6 DEF ResetList, LogTypeOK, Frame
      <4>3. Past(i, u)'
        BY <3>1, <4>1 DEF Window
      <4>4. CASE u = x
        BY <3>6, <4>4 DEF ResetList, LogTypeOK
      <4>5. CASE u # x
        <5>1. u \in Nat /\ x \in Nat
          BY LogAssumption DEF LogTypeOK
        <5>2. Past(i, u)
          BY <4>1, <4>2, <4>3, <4>5, <5>1 DEF Past, IsNext
        <5> QED
          BY <1>3, <4>1, <5>2
      <4> QED
        BY <4>4, <4>5
    <3>7. ASSUME NEW x \in nodes,
                 ReleaseList(i, x) \/ CountList(i, x) \/ WriteList(i, x)
          PROVE  FALSE
      BY <2>1, <3>7 DEF ReleaseList, CountList, WriteList, Visits
    <3> QED
      BY <2>3, <3>2, <3>3, <3>4, <3>5, <3>6, <3>7 DEF Inside
  <2> QED
    BY <2>1, <2>2, <2>3, OperationSteps
<1> QED
  BY <1>1, <1>2, <1>3 DEF Window

LEMMA OtherWindow ==
    ASSUME Placed, StoreInv, NEW i \in Thread, NEW w \in Thread \ {i},
           Run(w) \/ UserCall(w), Steady(w),
           NEW u \in Thread, Window(i, u), ~Window(i, u)'
    PROVE  lists'[u] = <<>>
<1> USE DEF Placed
<1>1. pc'[i] = pc[i] /\ frame'[i] = frame[i]
  BY DEF Steady, OthersUntouched
<1>2. InsertList(w) \/ UNCHANGED nodes
  BY MapSteps
     DEF Log, EmplaceBack, ReuseThreadId, TakesSome, Takes, MapUntouched, mapVars
<1>3. CASE UNCHANGED nodes
  BY <1>1, <1>3 DEF Window, Past
<1>4. CASE InsertList(w)
  <2>1. nodes \subseteq nodes' /\ lists' = lists
    BY <1>4 DEF InsertList
  <2>2. u \notin nodes
    BY <1>1, <2>1 DEF Window, Past
  <2> QED
    BY <2>1, <2>2 DEF StoreInv, Stored
<1> QED
  BY <1>2, <1>3, <1>4

\* What holds of an entry of a file: its thread has not logged an older one
\* since, and what its list has outside of the window is newer.
Settled(i, e) ==
    /\ e.id <= entry[e.thread].id
    /\ Storing(e.thread) => e.id < entry[e.thread].id
    /\ ~Window(i, e.thread) =>
         \A k \in 1 .. Len(lists[e.thread]) : e.id < lists[e.thread][k].id

InOrder(s) ==
    \A j, k \in 1 .. Len(s) :
        j < k /\ s[j].thread = s[k].thread => s[j].id < s[k].id

Filed(i) ==
    \A f \in FileName : /\ InOrder(files[f])
                        /\ \A k \in 1 .. Len(files[f]) : Settled(i, files[f][k])

\* What a step adds to a list is newer than every entry its thread has in a
\* file.
LEMMA SettledStays ==
    ASSUME Placed, StoreInv, ResetInv, AllCalled, NEW i \in Thread,
           NEW w \in Thread, Run(w) \/ UserCall(w), Steady(w),
           NEW e \in Entry, Settled(i, e)
    PROVE  Settled(i, e)'
<1> USE DEF Placed
<1>1. PICK u \in Thread : u = e.thread
  BY DEF Entry
<1>2. /\ e.id \in Nat /\ entry[u].id \in Nat /\ Len(lists[u]) \in Nat
      /\ \A k \in 1 .. Len(lists[u]) : lists[u][k].id \in Nat
  BY ListType DEF Entry
<1>3. w # u => pc'[u] = pc[u] /\ entry'[u] = entry[u]
  BY EntryOfOthers DEF Steady, OthersUntouched
<1>4. Window(i, u) /\ ~Window(i, u)' => 1 .. Len(lists'[u]) = {}
  BY OwnWindow, OtherWindow, EmptySeq
<1>5. ASSUME lists'[u] = lists[u], entry'[u] = entry[u],
             Storing(u)' => Storing(u)
      PROVE  Settled(i, e)'
  BY <1>1, <1>4, <1>5 DEF Settled
<1>6. ASSUME NEW level \in Logs[w], Log(w, level)
      PROVE  Settled(i, e)'
  <2>1. CASE u = w
    <3>1. entry'[u].id = entry[u].id + 1 /\ lists' = lists
      BY <1>6, <2>1 DEF Log, LogTypeOK, mapVars
    <3>2. e.id < entry'[u].id
      BY <1>1, <1>2, <3>1 DEF Settled
    <3> QED
      BY <1>1, <1>2, <1>4, <3>1, <3>2 DEF Settled
  <2>2. CASE u # w
    BY <1>3, <1>5, <1>6, <2>2 DEF Log, mapVars, Storing
  <2> QED
    BY <2>1, <2>2
<1>7. CASE InsertList(w)
  <2>1. UNCHANGED <<lists, entry>> /\ pc[w] = "insert" /\ pc'[w] = "check"
    BY <1>7, GoToMoves DEF InsertList
  <2> QED
    BY <1>3, <1>5, <2>1 DEF Storing
<1>8. CASE EmplaceBack(w)
  <2>1. /\ pc[w] = "append" /\ pc'[w] = "streamCount" /\ entry' = entry
        /\ lists' = [lists EXCEPT ![w] = Append(@, entry[w])]
    BY <1>8, GoToMoves DEF EmplaceBack
  <2>2. CASE u = w
    <3>1. lists'[u] = Append(lists[u], entry[u]) /\ entry[u] \in Entry
      BY <2>1, <2>2 DEF LogTypeOK
    <3>2. /\ Len(lists'[u]) = Len(lists[u]) + 1
          /\ \A k \in 1 .. Len(lists[u]) : lists'[u][k] = lists[u][k]
          /\ lists'[u][Len(lists[u]) + 1] = entry[u]
      BY <3>1, ListType, AppendProperties
    <3>3. e.id < entry[u].id
      BY <1>1, <2>1, <2>2 DEF Settled, Storing
    <3>4. ASSUME ~Window(i, u)', NEW k \in 1 .. Len(lists'[u])
          PROVE  e.id < lists'[u][k].id
      <4>1. ~Window(i, u)
        BY <1>4, <3>4
      <4>2. CASE k \in 1 .. Len(lists[u])
        BY <1>1, <3>2, <4>1, <4>2 DEF Settled
      <4>3. CASE k = Len(lists[u]) + 1
        BY <3>2, <3>3, <4>3
      <4> QED
        BY <1>2, <3>2, <4>2, <4>3
    <3>5. ~Storing(u)'
      BY <2>1, <2>2 DEF Storing
    <3> QED
      BY <1>1, <1>2, <2>1, <3>3, <3>4, <3>5 DEF Settled
  <2>3. CASE u # w
    <3>1. lists'[u] = lists[u]
      BY <2>1, <2>3 DEF LogTypeOK
    <3> QED
      BY <1>3, <1>5, <2>3, <3>1 DEF Storing
  <2> QED
    BY <2>2, <2>3
<1>9. CASE ReuseThreadId(w)
  BY <1>5, <1>9 DEF ReuseThreadId, Storing
<1>10. CASE TakesSome(w)
  <2>1. entry' = entry /\ pc' = pc
    BY <1>10 DEF TakesSome, Takes
  <2>2. PICK h :
              /\ \A k \in 1 .. Len(lists'[u]) :
                   /\ h[k] \in 1 .. Len(lists[u])
                   /\ lists'[u][k] = lists[u][h[k]]
              /\ \A j, k \in 1 .. Len(lists'[u]) : j < k => h[j] < h[k]
    BY <1>10, TakesRest
  <2>3. ASSUME ~Window(i, u)', NEW k \in 1 .. Len(lists'[u])
        PROVE  e.id < lists'[u][k].id
    <3>1. ~Window(i, u)
      BY <1>4, <2>3
    <3>2. h[k] \in 1 .. Len(lists[u]) /\ lists'[u][k] = lists[u][h[k]]
      BY <2>2
    <3> QED
      BY <1>1, <3>1, <3>2 DEF Settled
  <2> QED
    BY <1>1, <2>1, <2>3 DEF Settled, Storing
<1>11. CASE MapUntouched(w)
  <2>1. Storing(w)' => Storing(w)
    BY <1>11 DEF MapUntouched, Storing
  <2> QED
    BY <1>3, <1>5, <1>11, <2>1 DEF MapUntouched, Storing
<1> QED
  BY <1>6, <1>7, <1>8, <1>9, <1>10, <1>11, MapSteps

\* The handler is the only one that writes.
LEMMA HandlerWrites ==
    ASSUME Placed, NEW i \in Thread, Alone(i), AllCalled,
           NobodyCalls("writeToFile"),
           NEW t \in Thread, NEW u \in nodes, WriteList(t, u)
    PROVE  t = i /\ frame[t].ret = "hReset"
<1>1. frame[t].op = "writeToFile"
  BY DEF WriteList, Visits
<1>2. frame[t].ret = "hReset"
  BY <1>1 DEF AllCalled, Called, NobodyCalls, Placed, FrameFollowsCall
<1> QED
  BY <1>2 DEF Alone

\* It writes the list of u where its entries are newer than those the files
\* have.
LEMMA WriteKeepsFiled ==
    ASSUME Placed, StoreInv, AllSorted, NEW i \in Thread, Filed(i),
           NEW u \in nodes, WriteList(i, u), frame[i].ret = "hReset",
           \A e \in Entry : Settled(i, e) => Settled(i, e)'
    PROVE  Filed(i)'
<1> USE DEF Placed
<1>1. /\ pc[i] = "sweep" /\ frame[i].cursor < u
      /\ UNCHANGED <<nodes, lists, entry, pc>>
  BY DEF WriteList, Visits, IsNext, mapVars
<1>2. /\ frame[i] \in Frame /\ u \in Thread
      /\ frame[i].cursor \in Nat /\ u \in Nat
  <2>1. frame[i] \in Frame /\ u \in Thread
    BY DEF LogTypeOK
  <2> QED
    BY <2>1, CursorNat, LogAssumption
<1>3. ~Window(i, u)
  BY <1>1, <1>2 DEF Window, Past
<1>4. Window(i, u)'
  <2>1. frame'[i].cursor = u /\ frame'[i].ret = "hReset"
    BY <1>2 DEF WriteList, LogTypeOK, Frame
  <2> QED
    BY <1>1, <1>2, <2>1 DEF Window, Past
<1>5. lists[u] \in Seq(Entry) /\ Len(lists[u]) \in Nat /\ Sorted(u) /\ Older(u)
  BY <1>2, ListType DEF AllSorted, StoreInv, Stored
<1>6. ASSUME NEW k \in 1 .. Len(lists[u])
      PROVE  \A e : e = lists[u][k] => Settled(i, e)'
  BY <1>1, <1>4, <1>5 DEF Sorted, Older, Settled, Storing
<1>7. ASSUME NEW f \in FileName
      PROVE  /\ InOrder(files'[f])
             /\ \A k \in 1 .. Len(files'[f]) : \A e : e = files'[f][k] => Settled(i, e)'
  <2>1. /\ files[f] \in Seq(Entry) /\ Len(files[f]) \in Nat
        /\ \A k \in 1 .. Len(files[f]) : files[f][k] \in Entry
    BY LenProperties, ElementOfSeq DEF LogTypeOK
  <2>2. /\ InOrder(files[f])
        /\ \A k \in 1 .. Len(files[f]) : Settled(i, files[f][k])
    BY DEF Filed
  <2>3. CASE files'[f] = files[f]
    BY <2>1, <2>2, <2>3
  <2>4. CASE files'[f] = files[f] \o lists[u]
    <3> DEFINE n == Len(files[f])
    <3>1. \A k \in 1 .. Len(files'[f]) :
             \/ k \in 1 .. n /\ files'[f][k] = files[f][k]
             \/ ~(k <= n) /\ k - n \in 1 .. Len(lists[u])
                /\ files'[f][k] = lists[u][k - n]
      <4>1. ASSUME NEW k \in 1 .. Len(files[f] \o lists[u])
            PROVE  \/ /\ k \in 1 .. n
                      /\ (files[f] \o lists[u])[k] = files[f][k]
                   \/ /\ ~(k <= n)
                      /\ k - n \in 1 .. Len(lists[u])
                      /\ (files[f] \o lists[u])[k] = lists[u][k - n]
        <5>1. CASE k <= n
          <6>1. k \in 1 .. n
            BY <2>1, <5>1
          <6> QED
            BY <1>5, <2>1, <6>1, ConcatParts
        <5>2. CASE ~(k <= n)
          BY <1>5, <2>1, <5>2, ConcatParts
        <5> QED
          BY <5>1, <5>2
      <4> QED
        BY <2>4, <4>1
    <3> HIDE DEF n
    <3>2. ASSUME NEW k \in 1 .. Len(files'[f])
          PROVE  \A e : e = files'[f][k] => Settled(i, e)'
      <4>1. CASE k \in 1 .. n /\ files'[f][k] = files[f][k]
        BY <2>1, <2>2, <4>1 DEF n
      <4>2. CASE k - n \in 1 .. Len(lists[u]) /\ files'[f][k] = lists[u][k - n]
        BY <1>6, <4>2
      <4> QED
        BY <3>1, <4>1, <4>2
    <3>3. ASSUME NEW j \in 1 .. Len(files'[f]), NEW k \in 1 .. Len(files'[f]),
                 j < k, files'[f][j].thread = files'[f][k].thread
          PROVE  files'[f][j].id < files'[f][k].id
      <4>0. n \in Nat /\ j \in Int /\ k \in Int
        BY <2>1 DEF n
      <4>1. CASE k \in 1 .. n /\ files'[f][k] = files[f][k]
        <5>1. j \in 1 .. n /\ files'[f][j] = files[f][j]
          BY <3>1, <3>3, <4>0, <4>1
        <5> QED
          BY <2>2, <3>3, <4>1, <5>1 DEF InOrder, n
      <4>2. CASE k - n \in 1 .. Len(lists[u]) /\ files'[f][k] = lists[u][k - n]
        <5>1. CASE j \in 1 .. n /\ files'[f][j] = files[f][j]
          <6>1. files[f][j].thread = u
            BY <1>5, <3>3, <4>2, <5>1 DEF Sorted
          <6>2. Settled(i, files[f][j])
            BY <2>2, <5>1 DEF n
          <6> QED
            BY <1>3, <4>2, <5>1, <6>1, <6>2 DEF Settled
        <5>2. CASE j - n \in 1 .. Len(lists[u]) /\ files'[f][j] = lists[u][j - n]
          <6>1. j - n < k - n
            BY <3>3, <4>0
          <6> QED
            BY <1>5, <4>2, <5>2, <6>1 DEF Sorted
        <5> QED
          BY <3>1, <5>1, <5>2
      <4> QED
        BY <3>1, <4>1, <4>2
    <3> QED
      BY <3>2, <3>3 DEF InOrder
  <2> QED
    BY <2>3, <2>4, FilesGrow
<1> QED
  BY <1>7 DEF Filed

LEMMA FiledThreadStep ==
    ASSUME Placed, StoreInv, ResetInv, AllSorted, AllCalled, NEW i \in Thread,
           NobodyCalls("writeToFile"), Alone(i), Filed(i),
           NEW w \in Thread, Run(w) \/ UserCall(w), Steady(w)
    PROVE  Filed(i)'
<1> USE DEF Placed
<1>1. \A e \in Entry : Settled(i, e) => Settled(i, e)'
  BY SettledStays
<1>2. CASE UNCHANGED files
  <2>1. ASSUME NEW f \in FileName, NEW k \in 1 .. Len(files[f])
        PROVE  \A e : e = files[f][k] => Settled(i, e)'
    <3>1. files[f][k] \in Entry
      BY ElementOfSeq DEF LogTypeOK
    <3> QED
      BY <1>1, <3>1 DEF Filed
  <2> QED
    BY <1>2, <2>1 DEF Filed
<1>3. ASSUME NEW u \in nodes, WriteList(w, u)
      PROVE  Filed(i)'
  <2>1. w = i /\ frame[w].ret = "hReset"
    BY <1>3, HandlerWrites
  <2> QED
    BY <1>1, <1>3, <2>1, WriteKeepsFiled
<1> QED
  BY <1>2, <1>3, SharedSteps

LEMMA FiledStep ==
    ASSUME Inv, StoreInv, ResetInv, AllSorted, AllCalled, NEW i \in Thread,
           NobodyCalls("writeToFile"), Alone(i), Filed(i), [Next]_vars
    PROVE  Filed(i)'
<1>1. ASSUME NEW w \in Thread, Run(w) \/ UserCall(w)
      PROVE  Filed(i)'
  BY <1>1, StepSteady, FiledThreadStep
<1>2. CASE UNCHANGED vars
  <2>1. UNCHANGED <<files, lists, nodes, entry, pc, frame>>
    BY <1>2 DEF vars, mapVars, fileVars
  <2>2. ASSUME NEW e, Settled(i, e)
        PROVE  Settled(i, e)'
    BY <2>1, <2>2 DEF Settled, Storing, Window, Past
  <2>3. ASSUME NEW f \in FileName, NEW k \in 1 .. Len(files[f])
        PROVE  \A e : e = files[f][k] => Settled(i, e)'
    BY <2>2 DEF Filed
  <2> QED
    BY <2>1, <2>3 DEF Filed
<1> QED
  BY <1>1, <1>2 DEF Next, Rest

\* In a program where one thread logs the incidents, and only logLevelHandler
\* writes files, a log file has the entries of each thread in the order they
\* were logged in, and none of them twice.
THEOREM FilesInOrder ==
    ASSUME NEW i \in Thread, OnlyIncidentThread(i), NobodyCalls("writeToFile")
    PROVE  Spec => []FileInOrder
<1>1. Init => Filed(i)
  <2> SUFFICES ASSUME Init, NEW f \in FileName
               PROVE  1 .. Len(files[f]) = {}
    BY DEF Filed, InOrder
  <2> QED
    BY EmptySeq DEF Init
<1>2. Inv /\ StoreInv /\ ResetInv /\ AllSorted /\ AllCalled /\ Alone(i)
        /\ Filed(i) /\ [Next]_vars => Filed(i)'
  BY FiledStep
<1>3. Inv /\ Filed(i) => FileInOrder
  <2> SUFFICES ASSUME Inv, Filed(i), NEW f \in FileName
               PROVE  \A j, k \in DOMAIN files[f] :
                         j < k /\ files[f][j].thread = files[f][k].thread
                             => files[f][j].id < files[f][k].id
    BY DEF FileInOrder
  <2>1. DOMAIN files[f] = 1 .. Len(files[f])
    BY LenProperties DEF Inv, LogTypeOK
  <2> QED
    BY <2>1 DEF Filed, InOrder
<1>4. Spec => []ResetInv
  BY ResetInit, ResetStep, Invariance, StoreInvariance, LogCounts, PTL DEF Spec
<1> QED
  BY <1>1, <1>2, <1>3, <1>4, AloneInvariance, CalledInvariance,
     SortedInvariance, StoreInvariance, Invariance, PTL DEF Spec
=============================================================================
