--------------------------- MODULE LogStoreProofs ---------------------------
(***************************************************************************)
(* What Log promises of the entries, for every set of threads, workload    *)
(* and configuration: the log-thread map implements the abstract store,    *)
(* and a reset leaves nothing but the stragglers.                          *)
(***************************************************************************)
EXTENDS LogSuspensionProofs

-----------------------------------------------------------------------------
(* The steps that touch the map                                             *)

\* t has called log and is still to store its entry.
Storing(t) == pc[t] \in {"lockMap", "insert", "check", "append"}

\* A step of t that leaves the map alone, and moves t no nearer to an append
\* except past the check.
MapUntouched(t) ==
    /\ UNCHANGED <<nodes, lists, pList, entry>>
    /\ pc'[t] \in {"check", "append"} => pc[t] \in {"check", "append"}
    /\ pc'[t] \notin {"lockMap"}
    /\ pc'[t] = "insert" => pc[t] = "lockMap"
    /\ pc'[t] = "append" => pc[t] = "append" \/ ~SL!Suspended

\* A step of t that leaves of the list of u the entries at the indices h.
Takes(t, u, h) ==
    /\ pc[t] = "sweep"
    /\ lists' = [lists EXCEPT ![u] = Store!Selected(@, h)]
    /\ UNCHANGED <<nodes, pList, entry, pc>>

TakesSome(t) ==
    \E u \in nodes : \E h \in Store!Ascending(Len(lists[u])) : Takes(t, u, h)

LEMMA SweepTakes ==
    ASSUME LogTypeOK, NEW t \in Thread, NEW u \in nodes,
           ResetList(t, u) \/ ReleaseList(t, u)
    PROVE  \E h \in Store!Ascending(Len(lists[u])) : Takes(t, u, h)
<1>1. u \in Thread /\ lists[u] \in Seq(Entry) /\ Len(lists[u]) \in Nat
  BY LenProperties DEF LogTypeOK
<1>2. CASE ResetList(t, u)
  <2>1. <<>> \in Store!Ascending(Len(lists[u])) /\ Len(<<>>) = 0
    BY <1>1, StayAllOrNone
  <2>2. Store!Selected(lists[u], <<>>) = <<>>
    BY <1>1, <2>1, RestOfList, EmptySeq
  <2>3. Takes(t, u, <<>>)
    BY <1>2, <2>2 DEF ResetList, Visits, Takes
  <2> QED
    BY <2>1, <2>3
<1>3. CASE ReleaseList(t, u)
  <2>1. PICK kept \in Retained(lists[u]) : lists' = [lists EXCEPT ![u] = kept]
    BY <1>3 DEF ReleaseList
  <2>2. PICK h \in Store!Ascending(Len(lists[u])) : kept = Store!Selected(lists[u], h)
    BY <1>1, RetainedFacts
  <2>3. lists' = [lists EXCEPT ![u] = Store!Selected(@, h)]
    BY <2>1, <2>2
  <2>4. Takes(t, u, h)
    BY <1>3, <2>3 DEF ReleaseList, Visits, Takes
  <2> QED
    BY <2>4
<1> QED
  BY <1>2, <1>3

\* What the list of w is when t has left some of a list.
LEMMA TakesRest ==
    ASSUME LogTypeOK, NEW t \in Thread, TakesSome(t), NEW w \in Thread
    PROVE  /\ lists'[w] \in Seq(Entry)
           /\ Len(lists'[w]) \in Nat /\ Len(lists'[w]) <= Len(lists[w])
           /\ \E h \in Store!Ascending(Len(lists[w])) :
               /\ Len(lists'[w]) = Len(h)
               /\ \A k \in 1 .. Len(lists'[w]) :
                    /\ h[k] \in 1 .. Len(lists[w])
                    /\ lists'[w][k] = lists[w][h[k]]
               /\ \A j, k \in 1 .. Len(lists'[w]) : j < k => h[j] < h[k]
<1>1. PICK u \in nodes : \E h \in Store!Ascending(Len(lists[u])) : Takes(t, u, h)
  BY DEF TakesSome
<1>2. PICK h \in Store!Ascending(Len(lists[u])) : Takes(t, u, h)
  BY <1>1
<1>3. lists[w] \in Seq(Entry) /\ Len(lists[w]) \in Nat
  BY LenProperties DEF LogTypeOK
<1>4. CASE w = u
  <2>1. lists'[w] = Store!Selected(lists[w], h)
    BY <1>2, <1>4 DEF Takes, LogTypeOK
  <2>2. h \in Store!Ascending(Len(lists[w]))
    BY <1>4
  <2>3. /\ lists'[w] \in Seq(Entry)
        /\ Len(h) \in 0 .. Len(lists[w])
        /\ Len(lists'[w]) = Len(h)
        /\ \A k \in 1 .. Len(h) :
             h[k] \in 1 .. Len(lists[w]) /\ lists'[w][k] = lists[w][h[k]]
        /\ \A j, k \in 1 .. Len(h) : j < k => h[j] < h[k]
    BY <1>3, <2>1, <2>2, RestOfList
  <2> QED
    BY <1>3, <2>2, <2>3
<1>5. CASE w # u
  <2>1. lists'[w] = lists[w]
    BY <1>2, <1>5 DEF Takes, LogTypeOK
  <2> DEFINE all == [i \in 1 .. Len(lists[w]) |-> i]
  <2>2. all \in Store!Ascending(Len(lists[w]))
    BY <1>3, StayAllOrNone
  <2>3. \A k \in 1 .. Len(lists[w]) : all[k] = k
    OBVIOUS
  <2>4. Len(all) = Len(lists[w])
    BY <1>3
  <2> HIDE DEF all
  <2> QED
    BY <1>3, <2>1, <2>2, <2>3, <2>4
<1> QED
  BY <1>4, <1>5

\* Every step of a thread is one of the steps of the map or none of them.
LEMMA MapSteps ==
    ASSUME Placed, NEW t \in Thread, Run(t) \/ UserCall(t)
    PROVE  \/ \E level \in Logs[t] : Log(t, level)
           \/ InsertList(t) \/ EmplaceBack(t) \/ ReuseThreadId(t)
           \/ TakesSome(t)
           \/ MapUntouched(t)
<1> USE DEF Placed
<1>1. CASE Logging(t)
  <2>1. CASE LockMap(t) \/ Check(t) \/ StreamCount(t) \/ StreamWrite(t)
             \/ CallbackCount(t)
    <3>1. UNCHANGED <<nodes, lists, pList, entry>>
      BY <2>1 DEF LockMap, Check, StreamCount, StreamWrite, CallbackCount, mapVars
    <3> QED
      BY <2>1, <3>1, GoToMoves
         DEF LockMap, Check, StreamCount, StreamWrite, CallbackCount, MapUntouched
  <2>2. CASE Invoke(t)
    <3>1. UNCHANGED <<nodes, lists, pList, entry>>
      BY <2>2 DEF Invoke, mapVars
    <3>2. pc'[t] \in {"terminate", "hSuspend", "idle", "enter"}
      BY <2>2, GoToMoves, CallMoves DEF Invoke
    <3> QED
      BY <3>1, <3>2 DEF MapUntouched
  <2> QED
    BY <1>1, <2>1, <2>2 DEF Logging
<1>2. CASE LevelHandler(t)
  <2>1. UNCHANGED <<nodes, lists, pList, entry>>
    BY <1>2 DEF LevelHandler, HSuspend, HName, HStamp, HReset, HResume, mapVars
  <2>2. pc'[t] \in {"enter", "hStamp", "idle"}
    BY <1>2, GoToMoves, CallMoves
       DEF LevelHandler, HSuspend, HName, HStamp, HReset, HResume
  <2> QED
    BY <2>1, <2>2 DEF MapUntouched
<1>3. CASE Operating(t)
  <2>1. CASE Enter(t) \/ Lock(t) \/ Open(t) \/ EndSweep(t) \/ Leave(t)
    <3>1. UNCHANGED <<nodes, lists, pList, entry>>
      BY <2>1 DEF Enter, Lock, Open, EndSweep, Leave, mapVars
    <3>2. pc'[t] \in {"lock", "open", "sweep", "leave", "idle", "hName",
                      "hReset", "hResume"}
      BY <2>1, GoToMoves
         DEF Enter, Lock, Open, EndSweep, Leave, FrameFollowsCall
    <3> QED
      BY <3>1, <3>2 DEF MapUntouched
  <2>2. ASSUME NEW u \in nodes, ResetList(t, u) \/ ReleaseList(t, u)
        PROVE  TakesSome(t)
    BY <2>2, SweepTakes DEF TakesSome
  <2>3. ASSUME NEW u \in nodes, CountList(t, u) \/ WriteList(t, u)
        PROVE  MapUntouched(t)
    BY <2>3 DEF CountList, WriteList, Visits, MapUntouched, mapVars
  <2> QED
    BY <1>3, <2>1, <2>2, <2>3 DEF Operating
<1>4. CASE ResumeScope(t)
  BY <1>4 DEF ResumeScope, MapUntouched, mapVars
<1>5. CASE UserCall(t)
  <2>1. ASSUME NEW o \in Operation, CallOperation(t, o)
        PROVE  MapUntouched(t)
    BY <2>1, CallMoves DEF CallOperation, MapUntouched, mapVars
  <2>2. CASE SuspendScope(t)
    BY <2>2 DEF SuspendScope, May, MapUntouched, mapVars
  <2>3. CASE Configuring(t)
    <3>1. pc[t] = "idle"
      BY <2>3, ConfiguringIdle
    <3> QED
      BY <2>3, <3>1, ConfiguringType DEF MapUntouched, mapVars
  <2> QED
    BY <1>5, <2>1, <2>2, <2>3 DEF UserCall
<1> QED
  BY <1>1, <1>2, <1>3, <1>4, <1>5 DEF Run

-----------------------------------------------------------------------------
(* The steps of a thread: what they share, and where they lead              *)

\* What any step may do to the lists, the files, the name of the log file and
\* the callbacks.
LEMMA SharedSteps ==
    ASSUME Placed, NEW t \in Thread, Run(t) \/ UserCall(t)
    PROVE  /\ \/ UNCHANGED lists
              \/ EmplaceBack(t)
              \/ \E u \in nodes : ResetList(t, u) \/ ReleaseList(t, u)
           /\ UNCHANGED files \/ \E u \in nodes : WriteList(t, u)
           /\ UNCHANGED logFilename \/ HStamp(t)
           /\ \A l \in LogLevel : callbackMap'[l] = "levelHandler" =>
                callbackMap[l] = "levelHandler" \/ l \in IncidentLevels
<1> USE DEF Placed
<1>1. CASE Logging(t)
  BY <1>1
     DEF Logging, LockMap, InsertList, Check, EmplaceBack, StreamCount,
         StreamWrite, CallbackCount, Invoke, configVars, fileVars,
         mapVars
<1>2. CASE LevelHandler(t)
  BY <1>2
     DEF LevelHandler, HSuspend, HName, HStamp, HReset, HResume, configVars,
         fileVars, mapVars
<1>3. CASE Operating(t)
  BY <1>3
     DEF Operating, Enter, Lock, Open, EndSweep, Leave, ResetList, ReleaseList,
         CountList, WriteList, configVars, fileVars, mapVars
<1>4. CASE ResumeScope(t)
  BY <1>4 DEF ResumeScope, configVars, fileVars, mapVars
<1>5. CASE UserCall(t)
  <2>1. CASE Configuring(t)
    <3>1. UNCHANGED <<lists, files, logFilename>>
      BY <2>1, ConfiguringType DEF fileVars, mapVars
    <3>2. CASE UNCHANGED callbackMap
      BY <3>1, <3>2
    <3>3. ASSUME NEW l \in LogLevel, RegisterCallback(t, l)
          PROVE  \A m \in LogLevel : callbackMap'[m] = "levelHandler" =>
                    callbackMap[m] = "levelHandler"
      BY <3>3 DEF RegisterCallback, LogTypeOK
    <3>4. ASSUME NEW folder \in Folders, ApplyDefaultConfiguration(t, folder)
          PROVE  \A m \in LogLevel : callbackMap'[m] = "levelHandler" =>
                    callbackMap[m] = "levelHandler" \/ m \in IncidentLevels
      BY <3>4 DEF ApplyDefaultConfiguration, IncidentLevels
    <3>5. CASE RemoveCallbacks(t)
      BY <3>1, <3>5 DEF RemoveCallbacks
    <3> QED
      BY <2>1, <3>1, <3>2, <3>3, <3>4, <3>5
         DEF Configuring, RegisterOutstream, RegisterLogRetentionPolicy,
             RemoveOutstreams, RemoveLogRetentionPolicies
  <2>2. CASE ~Configuring(t)
    BY <1>5, <2>2
       DEF UserCall, Log, CallOperation, SuspendScope, ReuseThreadId,
           configVars, fileVars, mapVars
  <2> QED
    BY <2>1, <2>2
<1> QED
  BY <1>1, <1>2, <1>3, <1>4, <1>5 DEF Run

\* The entry of a thread changes only when it calls log.
LEMMA EntrySteps ==
    ASSUME Placed, NEW t \in Thread, Run(t) \/ UserCall(t)
    PROVE  UNCHANGED entry \/ \E level \in Logs[t] : Log(t, level)
  BY MapSteps
     DEF InsertList, EmplaceBack, ReuseThreadId, TakesSome, Takes, MapUntouched

\* The steps of t to a label of the handler.
LEMMA HandlerSteps ==
    ASSUME Placed, NEW t \in Thread, Run(t) \/ UserCall(t),
           pc'[t] \in HandlerLabels
    PROVE  \/ /\ Invoke(t)
              /\ pc'[t] = "hSuspend"
              /\ callbackMap[entry[t].level] = "levelHandler"
           \/ /\ HName(t)
              /\ pc'[t] = "hStamp"
              /\ logFilename = NoFile /\ logFilename' = NoFile
           \/ /\ Leave(t)
              /\ pc'[t] = frame[t].ret
<1> USE DEF Placed, HandlerLabels
<1>1. CASE Logging(t)
  <2>1. CASE LockMap(t) \/ InsertList(t) \/ Check(t) \/ EmplaceBack(t)
             \/ StreamCount(t) \/ StreamWrite(t) \/ CallbackCount(t)
    BY <2>1, GoToMoves
       DEF LockMap, InsertList, Check, EmplaceBack, StreamCount, StreamWrite,
           CallbackCount
  <2>2. CASE Invoke(t)
    BY <2>2, GoToMoves, CallMoves DEF Invoke
  <2> QED
    BY <1>1, <2>1, <2>2 DEF Logging
<1>2. CASE LevelHandler(t)
  <2>1. CASE HName(t)
    <3>1. pc'[t] = "hStamp" /\ logFilename = NoFile
      BY <2>1, GoToMoves, CallMoves DEF HName
    <3> QED
      BY <2>1, <3>1 DEF HName, fileVars
  <2> QED
    BY <1>2, <2>1, CallMoves, GoToMoves
       DEF LevelHandler, HSuspend, HStamp, HReset, HResume
<1>3. CASE Operating(t)
  <2>1. CASE Enter(t) \/ Lock(t) \/ EndSweep(t)
    BY <2>1, GoToMoves DEF Enter, Lock, EndSweep
  <2>2. CASE Open(t)
    BY <2>2, GoToMoves DEF Open
  <2>3. CASE Leave(t)
    BY <2>3, GoToMoves DEF Leave
  <2>4. ASSUME NEW u \in nodes,
               \/ ResetList(t, u) \/ ReleaseList(t, u)
               \/ CountList(t, u) \/ WriteList(t, u)
        PROVE  FALSE
    BY <2>4 DEF ResetList, ReleaseList, CountList, WriteList, Visits
  <2> QED
    BY <1>3, <2>1, <2>2, <2>3, <2>4 DEF Operating
<1>4. CASE ResumeScope(t)
  BY <1>4 DEF ResumeScope
<1>5. CASE UserCall(t)
  <2>1. ASSUME NEW level \in Logs[t], Log(t, level)
        PROVE  FALSE
    BY <2>1, GoToMoves DEF Log
  <2>2. ASSUME NEW o \in Operation, CallOperation(t, o)
        PROVE  FALSE
    BY <2>2, CallMoves DEF CallOperation
  <2>3. CASE SuspendScope(t) \/ ReuseThreadId(t)
    BY <2>3 DEF SuspendScope, ReuseThreadId, May
  <2>4. CASE Configuring(t)
    <3>1. pc[t] = "idle"
      BY <2>4, ConfiguringIdle
    <3> QED
      BY <2>4, <3>1, ConfiguringType
  <2> QED
    BY <1>5, <2>1, <2>2, <2>3, <2>4 DEF UserCall
<1> QED
  BY <1>1, <1>2, <1>3, <1>4, <1>5 DEF Run

\* t calls operation o, which returns to label r.
Calling(t, o, r) ==
    /\ pc[t] \notin CallLabels
    /\ pc'[t] = "enter"
    /\ frame'[t] = NewFrame(o, r)

\* A step of t inside the operation it executes.
Inside(t) ==
    \/ Enter(t) \/ Lock(t) \/ Open(t) \/ EndSweep(t)
    \/ \E u \in nodes : \/ ResetList(t, u) \/ ReleaseList(t, u)
                        \/ CountList(t, u) \/ WriteList(t, u)

\* The calls of operations: those of the handler, and those of the user.
LEMMA CallSteps ==
    ASSUME Placed, NEW t \in Thread, Run(t) \/ UserCall(t),
           pc'[t] \in CallLabels
    PROVE  \/ HSuspend(t) /\ Calling(t, "releaseLogs", "hName")
           \/ (HName(t) \/ HStamp(t)) /\ Calling(t, "writeToFile", "hReset")
           \/ HReset(t) /\ Calling(t, "reset", "hResume")
           \/ \E o \in CallbackOps \union Calls[t] :
                 /\ pc[t] \in {"idle", "invoke"}
                 /\ Calling(t, o, "idle")
           \/ Inside(t)
<1> USE DEF Placed, CallLabels
<1>1. ASSUME NEW o, NEW r, Call(t, o, r), pc[t] \notin CallLabels
      PROVE  Calling(t, o, r)
  BY <1>1, CallMoves DEF Call, LogTypeOK, Calling
<1>2. CASE Logging(t)
  <2>1. CASE LockMap(t) \/ InsertList(t) \/ Check(t) \/ EmplaceBack(t)
             \/ StreamCount(t) \/ StreamWrite(t) \/ CallbackCount(t)
    BY <2>1, GoToMoves
       DEF LockMap, InsertList, Check, EmplaceBack, StreamCount, StreamWrite,
           CallbackCount
  <2>2. CASE Invoke(t)
    BY <1>1, <2>2, GoToMoves DEF Invoke
  <2> QED
    BY <1>2, <2>1, <2>2 DEF Logging
<1>3. CASE LevelHandler(t)
  <2>1. CASE HName(t)
    BY <1>1, <2>1, GoToMoves DEF HName
  <2> QED
    BY <1>1, <1>3, <2>1, GoToMoves
       DEF LevelHandler, HSuspend, HStamp, HReset, HResume
<1>4. CASE Operating(t)
  <2>1. CASE Leave(t)
    <3>1. pc'[t] = frame[t].ret
      BY <2>1, GoToMoves DEF Leave
    <3> QED
      BY <3>1 DEF FrameFollowsCall
  <2> QED
    BY <1>4, <2>1 DEF Operating, Inside
<1>5. CASE ResumeScope(t)
  BY <1>5 DEF ResumeScope
<1>6. CASE UserCall(t)
  <2>1. ASSUME NEW level \in Logs[t], Log(t, level)
        PROVE  FALSE
    BY <2>1, GoToMoves DEF Log
  <2>2. ASSUME NEW o \in Operation, CallOperation(t, o)
        PROVE  /\ o \in Calls[t]
               /\ pc[t] = "idle"
               /\ Calling(t, o, "idle")
    BY <1>1, <2>2 DEF CallOperation, May
  <2>3. CASE SuspendScope(t) \/ ReuseThreadId(t)
    BY <2>3 DEF SuspendScope, ReuseThreadId, May
  <2>4. CASE Configuring(t)
    <3>1. pc[t] = "idle"
      BY <2>4, ConfiguringIdle
    <3> QED
      BY <2>4, <3>1, ConfiguringType
  <2> QED
    BY <1>6, <2>1, <2>2, <2>3, <2>4 DEF UserCall
<1> QED
  BY <1>2, <1>3, <1>4, <1>5, <1>6 DEF Run

\* Inside an operation its name and the label it returns to stay.
LEMMA InsideKeeps ==
    ASSUME Placed, NEW t \in Thread, Inside(t)
    PROVE  /\ pc[t] \in CallLabels
           /\ frame'[t].op = frame[t].op
           /\ frame'[t].ret = frame[t].ret
<1> USE DEF Placed, CallLabels
<1>0. frame[t] \in Frame
  BY DEF LogTypeOK
<1>1. CASE Enter(t) \/ Lock(t) \/ EndSweep(t)
  BY <1>1, GoToMoves DEF Enter, Lock, EndSweep
<1>2. CASE Open(t)
  <2>1. frame'[t].op = frame[t].op /\ frame'[t].ret = frame[t].ret
    BY <1>0, <1>2 DEF Open, LogTypeOK, Frame
  <2> QED
    BY <1>2, <2>1, GoToMoves DEF Open
<1>3. ASSUME NEW u \in nodes, ResetList(t, u) \/ ReleaseList(t, u) \/ WriteList(t, u)
      PROVE  /\ pc[t] \in CallLabels
             /\ frame'[t].op = frame[t].op
             /\ frame'[t].ret = frame[t].ret
  <2>1. pc[t] = "sweep" /\ frame' = [frame EXCEPT ![t].cursor = u]
    BY <1>3 DEF ResetList, ReleaseList, WriteList, Visits
  <2> QED
    BY <1>0, <2>1 DEF LogTypeOK, Frame
<1>4. ASSUME NEW u \in nodes, CountList(t, u)
      PROVE  /\ pc[t] \in CallLabels
             /\ frame'[t].op = frame[t].op
             /\ frame'[t].ret = frame[t].ret
  BY <1>0, <1>4 DEF CountList, Visits, LogTypeOK, Frame
<1> QED
  BY <1>1, <1>2, <1>3, <1>4 DEF Inside

LEMMA CursorNat ==
    ASSUME LogTypeOK, NEW t \in Thread
    PROVE  frame[t].cursor \in Nat
<1>1. frame[t].cursor \in Thread \union {NoThread}
  BY DEF LogTypeOK, Frame
<1>2. CASE frame[t].cursor \in Thread
  BY <1>2, LogAssumption
<1>3. CASE frame[t].cursor = NoThread
  BY <1>3 DEF NoThread
<1> QED
  BY <1>1, <1>2, <1>3

\* A thread in an operation goes on in it or leaves it.
LEMMA OperationSteps ==
    ASSUME Placed, NEW t \in Thread, Run(t) \/ UserCall(t)
    PROVE  /\ pc[t] \in CallLabels => Inside(t) \/ Leave(t)
           /\ pc[t] = "hReset" => HReset(t)
<1> USE DEF Placed, CallLabels
<1>1. CASE Logging(t)
  BY <1>1, GoToMoves
     DEF Logging, LockMap, InsertList, Check, EmplaceBack, StreamCount,
         StreamWrite, CallbackCount, Invoke
<1>2. CASE LevelHandler(t)
  BY <1>2, GoToMoves
     DEF LevelHandler, HSuspend, HName, HStamp, HReset, HResume
<1>3. CASE Operating(t)
  <2>1. Inside(t) \/ Leave(t)
    BY <1>3 DEF Operating, Inside
  <2>2. pc[t] \in CallLabels
    BY <2>1, InsideKeeps DEF Leave, GoTo
  <2> QED
    BY <2>1, <2>2
<1>4. CASE ResumeScope(t)
  BY <1>4 DEF ResumeScope
<1>5. CASE UserCall(t)
  <2>1. ASSUME NEW level \in Logs[t], Log(t, level)
        PROVE  pc[t] = "idle"
    BY <2>1 DEF Log, GoTo
  <2>2. pc[t] = "idle"
    BY <1>5, <2>1, ConfiguringIdle
       DEF UserCall, CallOperation, SuspendScope, ReuseThreadId, May
  <2> QED
    BY <2>2
<1> QED
  BY <1>1, <1>2, <1>3, <1>4, <1>5 DEF Run

-----------------------------------------------------------------------------
(* The entries of a thread                                                  *)

\* The numbers of the entries t has stored are those of earlier calls.
Older(t) ==
    \A i \in 1 .. Len(lists[t]) :
        /\ lists[t][i].id <= entry[t].id
        /\ Storing(t) => lists[t][i].id < entry[t].id

\* What holds of the list of t: its pointer is into the map, and only an entry
\* of t that is newer than all others is stored in it.
Stored(t) ==
    /\ pList[t] => t \in nodes
    /\ pc[t] \in {"check", "append"} => pList[t]
    /\ t \notin nodes => lists[t] = <<>>
    /\ entry[t].thread = t
    /\ Storing(t) => entry[t].id \in 1 .. MaxLogs
    /\ Older(t)

StoreInv == \A t \in Thread : Stored(t)

LEMMA ListType ==
    ASSUME LogTypeOK, NEW t \in Thread
    PROVE  /\ lists[t] \in Seq(Entry)
           /\ Len(lists[t]) \in Nat
           /\ \A i \in 1 .. Len(lists[t]) : lists[t][i].id \in Nat
           /\ entry[t].id \in 0 .. MaxLogs
           /\ MaxLogs \in Nat
<1>1. lists[t] \in Seq(Entry) /\ Len(lists[t]) \in Nat
  BY LenProperties DEF LogTypeOK
<1>2. \A i \in 1 .. Len(lists[t]) : lists[t][i] \in Entry
  BY <1>1, ElementOfSeq
<1>3. entry[t].id \in 0 .. MaxLogs
  BY DEF LogTypeOK, Entry
<1> QED
  BY <1>1, <1>2, <1>3, LogAssumption DEF Entry

LEMMA StoredInit == Init => StoreInv
<1> SUFFICES ASSUME Init, NEW t \in Thread
             PROVE  Stored(t)
  BY DEF StoreInv
<1>1. /\ pList[t] = FALSE /\ pc[t] = "idle" /\ lists[t] = <<>>
      /\ entry[t].thread = t
  BY DEF Init
<1>2. 1 .. Len(lists[t]) = {}
  BY <1>1, EmptySeq
<1> QED
  BY <1>1, <1>2 DEF Stored, Storing, Older

\* A step that takes entries from a list leaves its thread and all others right.
LEMMA TakesKeepsStored ==
    ASSUME LogTypeOK, StoreInv, NEW t \in Thread, TakesSome(t), NEW w \in Thread
    PROVE  Stored(w)'
<1>1. UNCHANGED <<nodes, pList, entry, pc>>
  BY DEF TakesSome, Takes
<1>2. Older(w)
  BY DEF StoreInv, Stored
<1>3. PICK h :
        \A k \in 1 .. Len(lists'[w]) :
            h[k] \in 1 .. Len(lists[w]) /\ lists'[w][k] = lists[w][h[k]]
  BY TakesRest
<1>4. Older(w)'
  BY <1>1, <1>2, <1>3 DEF Older, Storing
<1>5. lists'[w] # <<>> => lists[w] # <<>>
  <2>1. lists[w] \in Seq(Entry) /\ Len(lists'[w]) <= Len(lists[w])
    BY TakesRest, ListType
  <2>2. lists'[w] \in Seq(Entry)
    BY TakesRest
  <2> QED
    BY <2>1, <2>2, EmptySeq, LenProperties
<1> QED
  BY <1>1, <1>4, <1>5 DEF StoreInv, Stored, Storing

\* A step of t that does not touch the list of w.
LEMMA OthersStayStored ==
    ASSUME StoreInv, NEW w \in Thread, nodes \subseteq nodes',
           lists'[w] = lists[w], entry'[w] = entry[w], pList'[w] = pList[w],
           pc'[w] \in {"check", "append"} => pc[w] \in {"check", "append"},
           Storing(w)' => Storing(w)
    PROVE  Stored(w)'
  BY DEF StoreInv, Stored, Older

LEMMA StoredThreadStep ==
    ASSUME Placed, StoreInv, NEW t \in Thread, Run(t) \/ UserCall(t), Steady(t)
    PROVE  StoreInv'
<1> USE DEF Placed
<1>1. ASSUME NEW w \in Thread
      PROVE  Stored(w)'
  <2>0. w # t => pc'[w] = pc[w]
    BY DEF Steady, OthersUntouched
  <2>1. ASSUME NEW level \in Logs[t], Log(t, level)
        PROVE  Stored(w)'
    <3>1. UNCHANGED <<nodes, lists, pList>>
      BY <2>1 DEF Log, mapVars
    <3>2. CASE w = t
      <4>1. /\ pc[t] = "idle"
            /\ pc'[t] = IF pList[t] THEN "check" ELSE "lockMap"
        BY <2>1, GoToMoves DEF Log
      <4>2. /\ entry'[t].id = entry[t].id + 1
            /\ entry'[t].thread = t
            /\ entry[t].id < MaxLogs
        BY <2>1 DEF Log, LogTypeOK
      <4>3. Older(t)'
        BY <3>1, <4>2, ListType DEF StoreInv, Stored, Older
      <4> QED
        BY <3>1, <3>2, <4>1, <4>2, <4>3, ListType DEF StoreInv, Stored, Storing
    <3>3. CASE w # t
      <4>1. entry'[w] = entry[w]
        BY <2>1, <3>3 DEF Log, LogTypeOK
      <4> QED
        BY <2>0, <3>1, <3>3, <4>1, OthersStayStored DEF Storing
    <3> QED
      BY <3>2, <3>3
  <2>2. CASE InsertList(t)
    <3>1. /\ pc[t] = "insert" /\ pc'[t] = "check"
          /\ nodes' = nodes \union {t} /\ pList'[t] = TRUE
          /\ UNCHANGED <<lists, entry>>
      BY <2>2, GoToMoves DEF InsertList, LogTypeOK
    <3>2. CASE w = t
      BY <3>1, <3>2 DEF StoreInv, Stored, Storing, Older
    <3>3. CASE w # t
      <4>1. pList'[w] = pList[w]
        BY <2>2, <3>3 DEF InsertList, LogTypeOK
      <4> QED
        BY <2>0, <3>1, <3>3, <4>1, OthersStayStored DEF Storing
    <3> QED
      BY <3>2, <3>3
  <2>3. CASE EmplaceBack(t)
    <3>1. /\ pc[t] = "append" /\ pc'[t] = "streamCount"
          /\ UNCHANGED <<nodes, pList, entry>>
      BY <2>3, GoToMoves DEF EmplaceBack
    <3>2. CASE w = t
      <4>1. lists'[t] = Append(lists[t], entry[t])
        BY <2>3 DEF EmplaceBack, LogTypeOK
      <4>2. entry[t] \in Entry
        BY DEF LogTypeOK
      <4>3. /\ Len(lists'[t]) = Len(lists[t]) + 1
            /\ \A i \in 1 .. Len(lists[t]) : lists'[t][i] = lists[t][i]
            /\ lists'[t][Len(lists[t]) + 1] = entry[t]
        BY <4>1, <4>2, ListType, AppendProperties
      <4>4. ASSUME NEW i \in 1 .. Len(lists'[t])
            PROVE  lists'[t][i].id <= entry[t].id
        <5>1. CASE i \in 1 .. Len(lists[t])
          BY <4>3, <5>1 DEF StoreInv, Stored, Older
        <5>2. CASE i = Len(lists[t]) + 1
          BY <4>3, <5>2, ListType
        <5> QED
          BY <4>3, <5>1, <5>2, ListType
      <4>5. Older(t)'
        BY <3>1, <4>4 DEF Older, Storing
      <4> QED
        BY <3>1, <3>2, <4>5 DEF StoreInv, Stored, Storing
    <3>3. CASE w # t
      <4>1. lists'[w] = lists[w]
        BY <2>3, <3>3 DEF EmplaceBack, LogTypeOK
      <4> QED
        BY <2>0, <3>1, <3>3, <4>1, OthersStayStored DEF Storing
    <3> QED
      BY <3>2, <3>3
  <2>4. CASE ReuseThreadId(t)
    <3>1. pc[t] = "idle" /\ UNCHANGED <<nodes, lists, entry, pc>>
      BY <2>4 DEF ReuseThreadId, May
    <3>2. CASE w = t
      <4>1. pList'[t] = FALSE
        BY <2>4 DEF ReuseThreadId, LogTypeOK
      <4> QED
        BY <3>1, <3>2, <4>1 DEF StoreInv, Stored, Storing, Older
    <3>3. CASE w # t
      <4>1. pList'[w] = pList[w]
        BY <2>4, <3>3 DEF ReuseThreadId, LogTypeOK
      <4> QED
        BY <3>1, <4>1, OthersStayStored DEF Storing
    <3> QED
      BY <3>2, <3>3
  <2>5. CASE TakesSome(t)
    BY <2>5, TakesKeepsStored
  <2>6. CASE MapUntouched(t)
    BY <2>0, <2>6, OthersStayStored DEF MapUntouched, Storing
  <2> QED
    BY <2>1, <2>2, <2>3, <2>4, <2>5, <2>6, MapSteps
<1> QED
  BY <1>1 DEF StoreInv

LEMMA StoredRests ==
    ASSUME StoreInv, UNCHANGED vars
    PROVE  StoreInv'
  BY DEF vars, mapVars, StoreInv, Stored, Storing, Older

LEMMA StoredStep ==
    ASSUME Inv, StoreInv, [Next]_vars
    PROVE  StoreInv'
<1>1. ASSUME NEW t \in Thread, Run(t) \/ UserCall(t)
      PROVE  StoreInv'
  BY <1>1, StepSteady, StoredThreadStep
<1> QED
  BY <1>1, StoredRests DEF Next, Rest

LEMMA StoreInvariance == Spec => []StoreInv
  BY StoredInit, StoredStep, Invariance, PTL DEF Spec

-----------------------------------------------------------------------------
(* The abstract store                                                       *)

LEMMA StoreThreadStep ==
    ASSUME Placed, StoreInv, NEW t \in Thread, Run(t) \/ UserCall(t)
    PROVE  [Store!Next]_(Store!storeVars)
<1> USE DEF Placed
<1>1. Store!Next \/ UNCHANGED <<nodes, lists>>
  <2>1. CASE \/ \E level \in Logs[t] : Log(t, level)
             \/ ReuseThreadId(t) \/ MapUntouched(t)
    BY <2>1 DEF Log, ReuseThreadId, MapUntouched, mapVars
  <2>2. CASE InsertList(t)
    <3>1. Store!Attach(t)
      BY <2>2 DEF InsertList, Store!Attach
    <3> QED
      BY <3>1 DEF Store!Next
  <2>3. CASE EmplaceBack(t)
    <3>1. pc[t] = "append"
      BY <2>3, GoToMoves DEF EmplaceBack
    <3>2. /\ entry[t].id \in 1 .. MaxLogs
          /\ entry[t].level \in LogLevel
          /\ entry[t] = [thread |-> t, id |-> entry[t].id, level |-> entry[t].level]
      BY <3>1 DEF StoreInv, Stored, Storing, LogTypeOK, Entry
    <3>3. t \in nodes
      BY <3>1 DEF StoreInv, Stored
    <3>4. \A i \in DOMAIN lists[t] : lists[t][i].id < entry[t].id
      BY <3>1, ListType, LenProperties DEF StoreInv, Stored, Storing, Older
    <3>5. Store!Record(t, entry[t].id, entry[t].level)
      BY <2>3, <3>2, <3>3, <3>4 DEF EmplaceBack, Store!Record
    <3> QED
      BY <3>2, <3>5 DEF Store!Next
  <2>4. CASE TakesSome(t)
    <3>1. PICK u \in nodes : \E h \in Store!Ascending(Len(lists[u])) : Takes(t, u, h)
      BY <2>4 DEF TakesSome
    <3>2. u \in Thread
      BY DEF LogTypeOK
    <3>3. Store!Release(u)
      BY <3>1 DEF Takes, Store!Release
    <3> QED
      BY <3>2, <3>3 DEF Store!Next
  <2> QED
    BY <2>1, <2>2, <2>3, <2>4, MapSteps
<1> QED
  BY <1>1 DEF Store!storeVars

LEMMA StoreStep ==
    ASSUME Inv, StoreInv, [Next]_vars
    PROVE  [Store!Next]_(Store!storeVars)
<1>1. ASSUME NEW t \in Thread, Run(t) \/ UserCall(t)
      PROVE  [Store!Next]_(Store!storeVars)
  BY <1>1, InvPlaced, StoreThreadStep
<1>2. CASE UNCHANGED vars
  BY <1>2 DEF vars, mapVars, Store!storeVars
<1> QED
  BY <1>1, <1>2 DEF Next, Rest

\* The log-thread map implements the abstract store: no list is ever taken
\* away, only its own thread adds to a list, in the order of its calls, and
\* reset and releaseLogs leave the entries they do not release in that order.
THEOREM StoreImplemented == Spec => StoreSpec
<1>1. Init => Store!Init
  BY DEF Init, Store!Init
<1> QED
  BY <1>1, StoreStep, Invariance, StoreInvariance, PTL
     DEF Spec, StoreSpec, Store!Spec

-----------------------------------------------------------------------------
(* What reset leaves.  The argument joins the mutex (no list is added to    *)
(* the map during the sweep), the guard of reset (no thread passes the      *)
(* check of log again) and the order of the sweep.                          *)

\* Taking entries from a list of the map lengthens no list.
LEMMA TakesShortens ==
    ASSUME LogTypeOK, NEW t \in Thread, TakesSome(t), NEW w \in Thread
    PROVE  /\ Len(lists'[w]) <= Len(lists[w])
           /\ lists[w] = <<>> => lists'[w] = <<>>
<1>1. lists[w] \in Seq(Entry) /\ Len(lists'[w]) \in Nat /\ Len(lists'[w]) <= Len(lists[w])
  BY TakesRest, ListType
<1>2. lists'[w] \in Seq(Entry)
  BY TakesRest
<1> QED
  BY <1>1, <1>2, EmptySeq

-----------------------------------------------------------------------------
(* The sweep of reset                                                       *)

\* The sweep of t has nothing left to do for the list of u.
Past(t, u) == pc[t] = "leave" \/ u \notin nodes \/ u <= frame[t].cursor

\* What is left of u behind the sweep of t: u may store the one entry for
\* which its log was past the check.
Cleared(t, u) ==
    /\ Len(lists[u]) <= 1
    /\ pc[u] = "append" \/ u = t => lists[u] = <<>>

Resets(t) ==
    frame[t].op = "reset" =>
        /\ pc[t] \in {"enter", "lock"} => frame[t].cursor = NoThread
        /\ pc[t] \in {"sweep", "leave"} =>
             \A u \in Thread : Past(t, u) => Cleared(t, u)

ResetInv == \A t \in Thread : Resets(t)

LEMMA ResetInit == Init => ResetInv
<1> SUFFICES ASSUME Init, NEW t \in Thread
             PROVE  Resets(t)
  BY DEF ResetInv
<1> QED
  BY DEF Init, NoFrame, NewFrame, Resets

\* A thread without a list has no entries and is not about to store one.
LEMMA NoListCleared ==
    ASSUME StoreInv, NEW t \in Thread, NEW u \in Thread, u \notin nodes
    PROVE  Cleared(t, u)
<1>1. lists[u] = <<>>
  BY DEF StoreInv, Stored
<1>2. Len(lists[u]) = 0
  BY <1>1, EmptySeq
<1> QED
  BY <1>1, <1>2 DEF Cleared

\* The steps of a thread in reset.
LEMMA ResetSteps ==
    ASSUME Placed, NEW t \in Thread, Run(t) \/ UserCall(t), Steady(t),
           frame'[t].op = "reset"
    PROVE  \/ pc'[t] = "enter" /\ frame'[t].cursor = NoThread
           \/ /\ pc[t] = "enter" /\ pc'[t] = "lock"
              /\ frame'[t] = frame[t]
           \/ Lock(t)
           \/ \E u \in nodes : ResetList(t, u)
           \/ EndSweep(t)
<1> USE DEF Placed
<1>1. pc'[t] \in CallLabels
  BY DEF Steady, FrameFollowsCall, InCall, Operation
<1>2. ASSUME NEW o, NEW r, Call(t, o, r)
      PROVE  pc'[t] = "enter" /\ frame'[t].cursor = NoThread
  <2>1. frame'[t] = NewFrame(o, r)
    BY <1>2 DEF Call, LogTypeOK
  <2> QED
    BY <1>2, <2>1, CallMoves DEF NewFrame
<1>3. CASE Logging(t)
  <2>1. CASE LockMap(t) \/ InsertList(t) \/ Check(t) \/ EmplaceBack(t)
             \/ StreamCount(t) \/ StreamWrite(t) \/ CallbackCount(t)
    BY <1>1, <2>1, GoToMoves
       DEF LockMap, InsertList, Check, EmplaceBack, StreamCount, StreamWrite,
           CallbackCount, CallLabels
  <2>2. CASE Invoke(t)
    BY <1>1, <1>2, <2>2, GoToMoves DEF Invoke, CallLabels
  <2> QED
    BY <1>3, <2>1, <2>2 DEF Logging
<1>4. CASE LevelHandler(t)
  BY <1>1, <1>2, <1>4, GoToMoves
     DEF LevelHandler, HSuspend, HName, HStamp, HReset, HResume, CallLabels
<1>5. CASE Operating(t)
  <2>1. CASE Enter(t)
    BY <2>1, GoToMoves DEF Enter, Locked
  <2>2. CASE Open(t)
    <3>1. frame[t] \in Frame /\ frame'[t].op = frame[t].op
      BY <2>2 DEF Open, LogTypeOK, Frame
    <3> QED
      BY <2>2, <3>1, GoToMoves DEF Open, FrameFollowsCall, Locked
  <2>3. CASE Leave(t)
    <3>1. frame'[t] = NoFrame
      BY <2>3 DEF Leave, LogTypeOK
    <3> QED
      BY <3>1 DEF NoFrame, NewFrame
  <2>4. ASSUME NEW u \in nodes,
               ReleaseList(t, u) \/ CountList(t, u) \/ WriteList(t, u)
        PROVE  FALSE
    <3>1. frame[t] \in Frame /\ frame[t].op # "reset"
      BY <2>4 DEF ReleaseList, CountList, WriteList, Visits, LogTypeOK
    <3>2. CASE frame' = [frame EXCEPT ![t].cursor = u]
      BY <3>1, <3>2 DEF LogTypeOK, Frame
    <3>3. CASE CountList(t, u)
      BY <3>1, <3>3 DEF CountList, LogTypeOK, Frame
    <3> QED
      BY <2>4, <3>2, <3>3 DEF ReleaseList, WriteList
  <2> QED
    BY <1>5, <2>1, <2>2, <2>3, <2>4 DEF Operating
<1>6. CASE ResumeScope(t)
  BY <1>1, <1>6 DEF ResumeScope, CallLabels
<1>7. CASE UserCall(t)
  <2>1. ASSUME NEW level \in Logs[t], Log(t, level)
        PROVE  FALSE
    BY <1>1, <2>1, GoToMoves DEF Log, CallLabels
  <2>2. ASSUME NEW o \in Operation, CallOperation(t, o)
        PROVE  pc'[t] = "enter" /\ frame'[t].cursor = NoThread
    BY <1>2, <2>2 DEF CallOperation
  <2>3. CASE SuspendScope(t) \/ ReuseThreadId(t)
    BY <1>1, <2>3 DEF SuspendScope, ReuseThreadId, May, CallLabels
  <2>4. CASE Configuring(t)
    <3>1. pc[t] = "idle"
      BY <2>4, ConfiguringIdle
    <3> QED
      BY <1>1, <2>4, <3>1, ConfiguringType DEF CallLabels
  <2> QED
    BY <1>7, <2>1, <2>2, <2>3, <2>4 DEF UserCall
<1> QED
  BY <1>3, <1>4, <1>5, <1>6, <1>7 DEF Run

\* A step of the thread that resets.
LEMMA OwnResetStep ==
    ASSUME Placed, StoreInv, NEW t \in Thread, Resets(t),
           Run(t) \/ UserCall(t), Steady(t)
    PROVE  Resets(t)'
<1> USE DEF Placed
<1> SUFFICES ASSUME frame'[t].op = "reset"
             PROVE  Resets(t)'
  BY DEF Resets
<1>1. CASE pc'[t] = "enter" /\ frame'[t].cursor = NoThread
  BY <1>1 DEF Resets
<1>2. CASE pc[t] = "enter" /\ pc'[t] = "lock" /\ frame'[t] = frame[t]
  BY <1>2 DEF Resets
<1>3. CASE Lock(t)
  <2>1. /\ pc[t] = "lock" /\ pc'[t] = "sweep"
        /\ \A w \in Thread \ {t} : pc'[w] = pc[w]
        /\ UNCHANGED <<frame, nodes, lists>>
    BY <1>3, GoToMoves DEF Lock
  <2>2. frame[t].cursor = NoThread
    BY <2>1 DEF Resets
  <2>3. ASSUME NEW u \in Thread, Past(t, u)'
        PROVE  Cleared(t, u)'
    <3>1. u \notin nodes
      BY <2>1, <2>2, <2>3, LogAssumption DEF Past, NoThread
    <3>2. Cleared(t, u)
      BY <3>1, NoListCleared
    <3> QED
      BY <2>1, <3>2 DEF Cleared
  <2> QED
    BY <2>1, <2>3 DEF Resets
<1>4. ASSUME NEW u \in nodes, ResetList(t, u)
      PROVE  Resets(t)'
  <2>1. /\ pc[t] = "sweep" /\ frame[t].op = "reset"
        /\ IsNext(t, u)
        /\ UNCHANGED <<pc, nodes>>
    BY <1>4 DEF ResetList, Visits
  <2>2. u \in Thread
    BY DEF LogTypeOK
  <2>3. frame'[t].cursor = u
    <3>1. frame[t] \in Frame
      BY DEF LogTypeOK
    <3> QED
      BY <1>4, <3>1 DEF ResetList, LogTypeOK, Frame
  <2>4. /\ lists'[u] = <<>>
        /\ \A w \in Thread \ {u} : lists'[w] = lists[w]
    BY <1>4, <2>2 DEF ResetList, LogTypeOK
  <2>5. ASSUME NEW w \in Thread, Past(t, w)'
        PROVE  Cleared(t, w)'
    <3>1. CASE w = u
      <4>1. Len(lists'[w]) = 0
        BY <2>4, <3>1, EmptySeq
      <4> QED
        BY <2>4, <3>1, <4>1 DEF Cleared
    <3>2. CASE w # u
      <4>1. w \in Nat /\ u \in Nat
        BY <2>2, LogAssumption
      <4>2. Past(t, w)
        BY <2>1, <2>3, <2>5, <3>2, <4>1 DEF Past, IsNext
      <4>3. Cleared(t, w)
        BY <2>1, <4>2 DEF Resets
      <4> QED
        BY <2>1, <2>4, <3>2, <4>3 DEF Cleared
    <3> QED
      BY <3>1, <3>2
  <2> QED
    BY <2>1, <2>5 DEF Resets
<1>5. CASE EndSweep(t)
  <2>1. /\ pc[t] = "sweep" /\ pc'[t] = "leave"
        /\ \A w \in Thread \ {t} : pc'[w] = pc[w]
        /\ UNCHANGED <<frame, lists>>
        /\ \A u \in nodes : u <= frame[t].cursor
    BY <1>5, GoToMoves DEF EndSweep
  <2>2. ASSUME NEW u \in Thread
        PROVE  Cleared(t, u)'
    <3>1. Past(t, u)
      BY <2>1 DEF Past
    <3>2. Cleared(t, u)
      BY <2>1, <3>1 DEF Resets
    <3> QED
      BY <2>1, <3>2 DEF Cleared
  <2> QED
    BY <2>1, <2>2 DEF Resets
<1> QED
  BY <1>1, <1>2, <1>3, <1>4, <1>5, ResetSteps

\* t suspends logging while it is in an operation that has a guard.
Suspending(t) ==
    InCall(t) /\ pc[t] # "enter" /\ Guarded(frame[t].op) => <<t, "call">> \in guards

LEMMA InvSuspending == Inv => \A t \in Thread : Suspending(t)
  BY DEF Inv, Scoped, GuardsFollowScope, Suspending

\* A step of another thread while t resets: it cannot add a list to the map
\* during the sweep, nor pass the check of log.
LEMMA OtherResetStep ==
    ASSUME Placed, MutexFollowsScopes, StoreInv, SLP!Counting,
           NEW t \in Thread, Resets(t), Suspending(t),
           NEW w \in Thread \ {t}, Run(w) \/ UserCall(w), Steady(w)
    PROVE  Resets(t)'
<1> USE DEF Placed
<1>1. /\ pc'[t] = pc[t] /\ frame'[t] = frame[t]
      /\ \A u \in Thread \ {w} : pc'[u] = pc[u]
  BY DEF Steady, OthersUntouched
<1>2. SUFFICES ASSUME frame[t].op = "reset", pc[t] \in {"sweep", "leave"},
                      NEW u \in Thread, Past(t, u)'
               PROVE  Cleared(t, u)'
  BY <1>1 DEF Resets
<1>3. SL!Suspended
  <2>1. <<t, "call">> \in guards
    BY <1>2 DEF Suspending, InCall, CallLabels, Guarded
  <2> QED
    BY <2>1, CountingSuspends DEF SL!SuspendedIffGuarded
<1>4. CASE InsertList(w)
  <2>1. pc[w] = "insert" /\ pc'[w] = "check" /\ lists' = lists
    BY <1>4, GoToMoves DEF InsertList
  <2>2. pc[t] = "leave"
    BY <1>2, <2>1 DEF MutexFollowsScopes, MutexFollowsScope, Locked
  <2>3. Cleared(t, u)
    BY <1>2, <2>2 DEF Resets, Past
  <2> QED
    BY <1>1, <2>1, <2>3 DEF Cleared
<1>5. CASE UNCHANGED nodes
  <2>1. Cleared(t, u)
    BY <1>1, <1>2, <1>5 DEF Resets, Past
  <2>2. CASE EmplaceBack(w)
    <3>1. /\ pc[w] = "append" /\ pc'[w] = "streamCount"
          /\ lists' = [lists EXCEPT ![w] = Append(@, entry[w])]
      BY <2>2, GoToMoves DEF EmplaceBack
    <3>2. CASE u = w
      <4>1. lists[w] = <<>>
        BY <2>1, <3>1, <3>2 DEF Cleared
      <4>2. lists'[w] = Append(lists[w], entry[w]) /\ entry[w] \in Entry
        BY <3>1 DEF LogTypeOK
      <4>3. Len(lists'[w]) = 1
        BY <4>1, <4>2, EmptySeq, AppendProperties
      <4>4. u # t /\ pc'[u] # "append"
        BY <3>1, <3>2
      <4>5. Len(lists'[u]) <= 1
        BY <3>2, <4>3
      <4> QED
        BY <4>4, <4>5 DEF Cleared
    <3>3. CASE u # w
      <4>1. lists'[u] = lists[u]
        BY <3>1, <3>3 DEF LogTypeOK
      <4> QED
        BY <1>1, <2>1, <3>3, <4>1 DEF Cleared
    <3> QED
      BY <3>2, <3>3
  <2>3. CASE TakesSome(w)
    <3>1. pc' = pc
      BY <2>3 DEF TakesSome, Takes
    <3>2. /\ Len(lists'[u]) <= Len(lists[u])
          /\ lists[u] = <<>> => lists'[u] = <<>>
      BY <2>3, TakesShortens
    <3>3. Len(lists[u]) \in Nat
      BY ListType
    <3>4. Len(lists'[u]) <= 1
      <4>1. lists'[u] \in Seq(Entry)
        BY <1>2, ThreadType DEF LogTypeOK
      <4>2. Len(lists'[u]) \in Nat
        BY <4>1, LenProperties
      <4> QED
        BY <2>1, <3>2, <3>3, <4>2 DEF Cleared
    <3> QED
      BY <2>1, <3>1, <3>2, <3>4 DEF Cleared
  <2>4. CASE \E level \in Logs[w] : Log(w, level)
    <3>1. pc'[w] # "append" /\ lists' = lists
      BY <2>4, GoToMoves DEF Log, mapVars
    <3> QED
      BY <1>1, <2>1, <3>1 DEF Cleared
  <2>5. CASE ReuseThreadId(w)
    BY <2>1, <2>5 DEF ReuseThreadId, Cleared
  <2>6. CASE MapUntouched(w)
    <3>1. lists' = lists /\ (pc'[w] = "append" => pc[w] = "append")
      BY <1>3, <2>6 DEF MapUntouched
    <3> QED
      BY <1>1, <2>1, <3>1 DEF Cleared
  <2> QED
    BY <1>4, <2>2, <2>3, <2>4, <2>5, <2>6, MapSteps
<1>6. InsertList(w) \/ UNCHANGED nodes
  BY MapSteps
     DEF Log, EmplaceBack, ReuseThreadId, TakesSome, Takes, MapUntouched, mapVars
<1> QED
  BY <1>4, <1>5, <1>6

LEMMA ResetStep ==
    ASSUME Inv, StoreInv, SLP!Counting, ResetInv, [Next]_vars
    PROVE  ResetInv'
<1> SUFFICES ASSUME NEW t \in Thread
             PROVE  Resets(t)'
  BY DEF ResetInv
<1>1. Resets(t)
  BY DEF ResetInv
<1>2. ASSUME NEW w \in Thread, Run(w) \/ UserCall(w)
      PROVE  Resets(t)'
  BY <1>1, <1>2, StepSteady, InvSuspending, OwnResetStep, OtherResetStep
<1>3. CASE UNCHANGED vars
  BY <1>1, <1>3 DEF vars, mapVars, Resets, Past, Cleared
<1> QED
  BY <1>2, <1>3 DEF Next, Rest

\* When reset returns, the list of its caller is empty and that of any other
\* thread has at most the one entry whose log call was past its check before
\* the reset suspended logging.
THEOREM ResetCorrect == Spec => []ResetEmpties
<1>1. ResetInv => ResetEmpties
  BY DEF ResetInv, Resets, Past, Cleared, ResetEmpties
<1> QED
  BY <1>1, ResetInit, ResetStep, Invariance, StoreInvariance, LogCounts, PTL
     DEF Spec

-----------------------------------------------------------------------------
(* The counts.  What t has counted is in the lists behind its sweep; it     *)
(* holds the mutex, and only reset and releaseLogs, which need it, take     *)
(* entries away.                                                            *)

Counts == {"countLogLevels", "getNumberOfLogEntries"}

\* The lists the sweep of t has gone through.
Behind(t) == {u \in nodes : u <= frame[t].cursor}

Tally(t) ==
    /\ frame[t].op \notin Counts => frame[t].acc = 0
    /\ pc[t] \in {"enter", "lock"} => frame[t].acc = 0
    /\ pc[t] = "sweep" => frame[t].acc <= Cardinality(HeldEntries(Behind(t)))

TallyInv == \A t \in Thread : Tally(t)

\* The entries of some threads are finitely many.
LEMMA EntriesFinite ==
    ASSUME NEW ls \in [Thread -> Seq(Entry)], NEW U \in SUBSET Thread
    PROVE  IsFiniteSet(UNION {{u} \X DOMAIN ls[u] : u \in U})
<1> DEFINE part == [u \in U |-> {u} \X DOMAIN ls[u]]
           parts == {{u} \X DOMAIN ls[u] : u \in U}
<1>1. IsFiniteSet(U)
  BY LogAssumption, FS_Subset
<1>2. part \in Surjection(U, parts)
  BY DEF Surjection
<1>3. IsFiniteSet(parts)
  BY <1>1, <1>2, FS_Surjection
<1>4. ASSUME NEW u \in U
      PROVE  IsFiniteSet({u} \X DOMAIN ls[u])
  <2>1. DOMAIN ls[u] = 1 .. Len(ls[u]) /\ Len(ls[u]) \in Nat
    BY LenProperties
  <2>2. IsFiniteSet({u})
    BY FS_Singleton
  <2>3. IsFiniteSet(1 .. Len(ls[u]))
    BY <2>1, FS_Interval
  <2> QED
    BY <2>1, <2>2, <2>3, FS_Product
<1> QED
  BY <1>3, <1>4, FS_UNION

LEMMA HeldType ==
    ASSUME LogTypeOK, NEW U \in SUBSET Thread
    PROVE  IsFiniteSet(HeldEntries(U)) /\ Cardinality(HeldEntries(U)) \in Nat
<1>1. IsFiniteSet(HeldEntries(U))
  BY EntriesFinite DEF LogTypeOK, HeldEntries
<1> QED
  BY <1>1, FS_CardinalityType

LEMMA HeldNextType ==
    ASSUME LogTypeOK', NEW U \in SUBSET Thread
    PROVE  IsFiniteSet(HeldEntries(U)') /\ Cardinality(HeldEntries(U)') \in Nat
<1>1. IsFiniteSet(HeldEntries(U)')
  BY EntriesFinite DEF LogTypeOK, HeldEntries
<1> QED
  BY <1>1, FS_CardinalityType

\* One more list adds its length.
LEMMA HeldAdds ==
    ASSUME LogTypeOK, NEW U \in SUBSET Thread, NEW u \in Thread, u \notin U
    PROVE  Cardinality(HeldEntries(U \union {u})) = Cardinality(HeldEntries(U)) + Len(lists[u])
<1> DEFINE own == {u} \X DOMAIN lists[u]
<1>1. HeldEntries(U \union {u}) = HeldEntries(U) \union own
  BY DEF HeldEntries
<1>2. HeldEntries(U) \intersect own = {}
  BY DEF HeldEntries
<1>3. DOMAIN lists[u] = 1 .. Len(lists[u]) /\ Len(lists[u]) \in Nat
  BY LenProperties DEF LogTypeOK
<1>4. IsFiniteSet(own) /\ Cardinality(own) = Len(lists[u])
  <2>1. IsFiniteSet({u}) /\ Cardinality({u}) = 1
    BY FS_Singleton
  <2>2. IsFiniteSet(DOMAIN lists[u]) /\ Cardinality(DOMAIN lists[u]) = Len(lists[u])
    BY <1>3, FS_Interval
  <2>3. /\ IsFiniteSet(own)
        /\ Cardinality(own) = Cardinality({u}) * Cardinality(DOMAIN lists[u])
    BY <2>1, <2>2, FS_Product
  <2> QED
    BY <1>3, <2>1, <2>2, <2>3
<1>5. Cardinality(HeldEntries(U) \intersect own) = 0
  BY <1>2, FS_EmptySet
<1>6. IsFiniteSet(HeldEntries(U)) /\ Cardinality(HeldEntries(U)) \in Nat
  BY HeldType
<1>7. Cardinality(HeldEntries(U) \union own) =
        Cardinality(HeldEntries(U)) + Cardinality(own)
          - Cardinality(HeldEntries(U) \intersect own)
  BY <1>4, <1>6, FS_Union
<1>8. ASSUME NEW a \in Nat, NEW n \in Nat
      PROVE  a + n - 0 = a + n
  OBVIOUS
<1>9. Cardinality(HeldEntries(U)) + Len(lists[u]) - 0 = Cardinality(HeldEntries(U)) + Len(lists[u])
  BY <1>3, <1>6, <1>8
<1> HIDE DEF own
<1> QED
  BY <1>1, <1>4, <1>5, <1>7, <1>9, Zenon

\* A step of t, which counts or does not.
LEMMA OwnTallyStep ==
    ASSUME Placed, NEW t \in Thread, Tally(t), Run(t) \/ UserCall(t), Steady(t)
    PROVE  Tally(t)'
<1> USE DEF Placed
<1>0. frame[t] \in Frame
  BY DEF LogTypeOK
<1>1. LogTypeOK'
  BY ThreadType
<1>2. Behind(t) \in SUBSET Thread /\ Behind(t)' \in SUBSET Thread
  BY <1>1 DEF Behind, LogTypeOK
<1>3. Cardinality(HeldEntries(Behind(t)))' \in Nat
  <2>1. \A U \in SUBSET Thread : Cardinality(HeldEntries(U)') \in Nat
    BY <1>1, HeldNextType
  <2> QED
    BY <1>2, <2>1 DEF HeldEntries
<1>4. ASSUME frame'[t].acc = 0
      PROVE  Tally(t)'
  BY <1>3, <1>4 DEF Tally
<1>5. CASE pc'[t] \notin CallLabels
  <2>1. frame'[t].acc = 0
    BY <1>5 DEF Steady, FrameFollowsCall, InCall, NoFrame, NewFrame
  <2> QED
    BY <1>4, <2>1
<1>6. CASE pc'[t] \in CallLabels
  <2>1. ASSUME NEW o, NEW r, Calling(t, o, r)
        PROVE  Tally(t)'
    BY <1>4, <2>1 DEF Calling, NewFrame
  <2>2. CASE Enter(t)
    BY <1>4, <2>2, GoToMoves DEF Enter, Tally
  <2>3. CASE Lock(t)
    BY <1>4, <2>3, GoToMoves DEF Lock, Tally
  <2>4. CASE Open(t)
    <3>1. frame[t].op \notin Counts
      BY <2>4, GoToMoves DEF Open, FrameFollowsCall, Locked, Counts
    <3>2. frame'[t].acc = frame[t].acc
      BY <1>0, <2>4 DEF Open, LogTypeOK, Frame
    <3> QED
      BY <1>4, <3>1, <3>2 DEF Tally
  <2>5. CASE EndSweep(t)
    BY <2>5, GoToMoves DEF EndSweep, Tally
  <2>6. ASSUME NEW u \in nodes,
               ResetList(t, u) \/ ReleaseList(t, u) \/ WriteList(t, u)
        PROVE  Tally(t)'
    <3>1. /\ frame[t].op \notin Counts
          /\ frame' = [frame EXCEPT ![t].cursor = u]
      BY <2>6 DEF ResetList, ReleaseList, WriteList, Visits, Counts
    <3>2. frame'[t].acc = frame[t].acc
      BY <1>0, <3>1 DEF LogTypeOK, Frame
    <3> QED
      BY <1>4, <3>1, <3>2 DEF Tally
  <2>7. ASSUME NEW u \in nodes, CountList(t, u)
        PROVE  Tally(t)'
    <3>1. /\ pc[t] = "sweep" /\ IsNext(t, u) /\ frame[t].op \in Counts
          /\ UNCHANGED <<pc, nodes, lists>>
      BY <2>7 DEF CountList, Visits, Counts, mapVars
    <3>2. /\ frame'[t].cursor = u /\ frame'[t].op = frame[t].op
          /\ frame'[t].acc = frame[t].acc + Len(lists[u])
      BY <1>0, <2>7 DEF CountList, LogTypeOK, Frame
    <3>3. u \in Thread /\ Len(lists[u]) \in Nat
      BY ListType DEF LogTypeOK
    <3>4. frame[t].cursor \in Nat /\ \A w \in nodes : w \in Nat
      BY CursorNat, LogAssumption DEF LogTypeOK
    <3>5. Behind(t)' = Behind(t) \union {u} /\ u \notin Behind(t)
      BY <3>1, <3>2, <3>4 DEF Behind, IsNext
    <3>6. Cardinality(HeldEntries(Behind(t) \union {u}))
            = Cardinality(HeldEntries(Behind(t))) + Len(lists[u])
      BY <1>2, <3>3, <3>5, HeldAdds
    <3>7. Cardinality(HeldEntries(Behind(t))) \in Nat /\ frame[t].acc \in Nat
      BY <1>0, <1>2, HeldType DEF Frame
    <3>8. frame'[t].acc <= Cardinality(HeldEntries(Behind(t) \union {u}))
      BY <3>1, <3>2, <3>3, <3>6, <3>7 DEF Tally
    <3>9. HeldEntries(Behind(t))' = HeldEntries(Behind(t) \union {u})
      BY <3>1, <3>5 DEF HeldEntries
    <3> QED
      BY <3>1, <3>2, <3>8, <3>9 DEF Tally
  <2>8. CASE Inside(t)
    BY <2>2, <2>3, <2>4, <2>5, <2>6, <2>7, <2>8 DEF Inside
  <2> QED
    BY <1>6, <2>1, <2>8, CallSteps
<1> QED
  BY <1>5, <1>6

\* A step of another thread: while t counts it takes no entry away.
LEMMA OtherTallyStep ==
    ASSUME Placed, MutexFollowsScopes, NEW t \in Thread, Tally(t),
           NEW w \in Thread \ {t}, Run(w) \/ UserCall(w), Steady(w)
    PROVE  Tally(t)'
<1> USE DEF Placed
<1>1. pc'[t] = pc[t] /\ frame'[t] = frame[t]
  BY DEF Steady, OthersUntouched
<1>2. LogTypeOK'
  BY ThreadType
<1>3. Behind(t) \in SUBSET Thread /\ Behind(t)' \in SUBSET Thread
  BY <1>2 DEF Behind, LogTypeOK
<1>4. IsFiniteSet(HeldEntries(Behind(t))') /\ Cardinality(HeldEntries(Behind(t)))' \in Nat
  <2>1. \A U \in SUBSET Thread :
           IsFiniteSet(HeldEntries(U)') /\ Cardinality(HeldEntries(U)') \in Nat
    BY <1>2, HeldNextType
  <2> QED
    BY <1>3, <2>1 DEF HeldEntries
<1>5. CASE frame[t].op \notin Counts
  BY <1>1, <1>4, <1>5 DEF Tally
<1>6. CASE pc[t] # "sweep"
  BY <1>1, <1>6 DEF Tally
<1>7. CASE frame[t].op \in Counts /\ pc[t] = "sweep"
  <2>1. owner = t
    BY <1>7 DEF MutexFollowsScopes, MutexFollowsScope, Locked, Counts
  <2>2. ASSUME NEW u \in nodes, ResetList(w, u) \/ ReleaseList(w, u)
        PROVE  FALSE
    <3>1. pc[w] = "sweep" /\ Locked(frame[w].op)
      BY <2>2 DEF ResetList, ReleaseList, Visits, Locked
    <3> QED
      BY <2>1, <3>1 DEF MutexFollowsScopes, MutexFollowsScope
  <2>3. nodes \subseteq nodes'
    BY MapSteps
       DEF Log, InsertList, EmplaceBack, ReuseThreadId, TakesSome, Takes,
           MapUntouched, mapVars
  <2>4. ASSUME NEW u \in Thread
        PROVE  DOMAIN lists[u] \subseteq DOMAIN lists'[u]
    <3>1. CASE UNCHANGED lists
      BY <3>1
    <3>2. CASE EmplaceBack(w)
      <4>1. lists'[u] = lists[u] \/ lists'[u] = Append(lists[u], entry[u])
        BY <3>2 DEF EmplaceBack, LogTypeOK
      <4>2. /\ lists[u] \in Seq(Entry) /\ entry[u] \in Entry
            /\ lists'[u] \in Seq(Entry)
        BY <1>2 DEF LogTypeOK
      <4>3. /\ DOMAIN lists[u] = 1 .. Len(lists[u]) /\ Len(lists[u]) \in Nat
            /\ DOMAIN lists'[u] = 1 .. Len(lists'[u])
        BY <4>2, LenProperties
      <4>4. Len(Append(lists[u], entry[u])) = Len(lists[u]) + 1
        BY <4>2, AppendProperties
      <4> QED
        BY <4>1, <4>3, <4>4
    <3> QED
      BY <2>2, <3>1, <3>2, SharedSteps
  <2>5. HeldEntries(Behind(t)) \subseteq HeldEntries(Behind(t))'
    <3>1. Behind(t) \subseteq Behind(t)'
      BY <1>1, <2>3 DEF Behind
    <3> QED
      BY <1>3, <2>4, <3>1 DEF HeldEntries
  <2>6. Cardinality(HeldEntries(Behind(t))) <= Cardinality(HeldEntries(Behind(t))')
    BY <1>4, <2>5, FS_Subset
  <2>7. /\ Cardinality(HeldEntries(Behind(t))) \in Nat /\ frame[t].acc \in Nat
        /\ Cardinality(HeldEntries(Behind(t))') \in Nat
    BY <1>3, <1>4, HeldType DEF LogTypeOK, Frame
  <2>8. frame[t].acc <= Cardinality(HeldEntries(Behind(t))')
    BY <1>7, <2>6, <2>7 DEF Tally
  <2> QED
    BY <1>1, <1>7, <2>8 DEF Tally
<1> QED
  BY <1>5, <1>6, <1>7

LEMMA TallyInit == Init => TallyInv
  BY DEF Init, TallyInv, Tally, NoFrame, NewFrame

LEMMA TallyStep ==
    ASSUME Inv, TallyInv, [Next]_vars
    PROVE  TallyInv'
<1> SUFFICES ASSUME NEW t \in Thread
             PROVE  Tally(t)'
  BY DEF TallyInv
<1>1. Tally(t)
  BY DEF TallyInv
<1>2. ASSUME NEW w \in Thread, Run(w) \/ UserCall(w)
      PROVE  Tally(t)'
  BY <1>1, <1>2, StepSteady, OwnTallyStep, OtherTallyStep
<1>3. CASE UNCHANGED vars
  BY <1>1, <1>3 DEF vars, mapVars, Tally, Behind, HeldEntries
<1> QED
  BY <1>2, <1>3 DEF Next, Rest

\* countLogLevels and getNumberOfLogEntries never report more entries than the
\* lists they have gone through still hold.
THEOREM CountsCorrect == Spec => []TallyStands
<1>1. TallyInv => TallyStands
  BY DEF TallyInv, Tally, Behind, TallyStands
<1> QED
  BY <1>1, TallyInit, TallyStep, Invariance, PTL DEF Spec
=============================================================================
