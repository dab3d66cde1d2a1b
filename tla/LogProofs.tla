----------------------------- MODULE LogProofs -----------------------------
(***************************************************************************)
(* What holds of Log for every set of threads, every workload and every    *)
(* configuration.  The inductive invariant Inv says, of each thread, what  *)
(* its label implies for its locals, its guards and the mutex.             *)
(***************************************************************************)
EXTENDS Log, FiniteSetTheorems, SequenceTheorems, TLAPS

\* Where the locals of an operation come from: the labels an operation passes
\* are its own, and only the handler's calls return into the handler.
FrameFollowsCall(t) ==
    /\ InCall(t) <=> frame[t].op \in Operation
    /\ ~InCall(t) => frame[t] = NoFrame
    /\ frame[t].ret \in {"idle", "hName", "hReset", "hResume"}
    /\ frame[t].ret = "hReset" =>
         frame[t].op = "writeToFile" /\ logFilename # NoFile
    /\ pc[t] = "lock" => Locked(frame[t].op)
    /\ pc[t] = "open" => ~Locked(frame[t].op)
    /\ pc[t] = "sweep" /\ ~Locked(frame[t].op) => frame[t].target \in FileName

Scoped(t) ==
    /\ FrameFollowsCall(t)
    /\ GuardsFollowScope(t)
    /\ MutexFollowsScope(t)

Inv == LogTypeOK /\ \A t \in Thread : Scoped(t)

\* What the steps of a thread do depends on its locals only: the lemmas that
\* say so also serve where a crash has left guards behind.
Placed == LogTypeOK /\ \A t \in Thread : FrameFollowsCall(t)

LEMMA InvPlaced == Inv => Placed
  BY DEF Inv, Placed, Scoped

-----------------------------------------------------------------------------
(* Data                                                                     *)

LEMMA LabelFacts ==
    {"idle", "terminate", "lockMap", "insert", "check", "append",
     "streamCount", "streamWrite", "callbackCount", "invoke", "hSuspend",
     "hName", "hStamp", "hReset", "hResume", "enter", "lock", "open", "sweep",
     "leave"} \subseteq Label
  BY DEF Label, LogLabels, HandlerLabels, CallLabels

LEMMA OperationFacts ==
    {"reset", "releaseLogs", "writeToFile"} \subseteq Operation
  BY DEF Operation

LEMMA FrameFacts ==
    /\ NoFrame \in Frame
    /\ \A o \in Operation, r \in Label : NewFrame(o, r) \in Frame
<1>1. "none" \in Operation \union {"none"} /\ "idle" \in Label
  BY LabelFacts
<1> QED
  BY <1>1 DEF NewFrame, NoFrame, Frame

LEMMA FileFacts ==
    /\ UserFile \in FileName
    /\ \A f \in Folder, t \in Thread, id \in 0 .. MaxLogs :
         LogFile(f, t, id) \in FileName /\ LogFile(f, t, id) # NoFile
  BY DEF FileName, LogFile, NoFile

LEMMA FolderFacts == \A folder \in Folders : folder \in Folder
  BY DEF Folder

\* What is left of a list when only the entries at the indices h stay.
LEMMA RestOfList ==
    ASSUME NEW s \in Seq(Entry), NEW h \in Store!Ascending(Len(s))
    PROVE  /\ Len(h) \in 0 .. Len(s)
           /\ h \in Seq(1 .. Len(s))
           /\ \A k \in 1 .. Len(h) : h[k] \in 1 .. Len(s)
           /\ \A j, k \in 1 .. Len(h) : j < k => h[j] < h[k]
           /\ Store!Selected(s, h) \in Seq(Entry)
           /\ Len(Store!Selected(s, h)) = Len(h)
           /\ \A k \in 1 .. Len(h) : Store!Selected(s, h)[k] = s[h[k]]
<1> DEFINE rest == Store!Selected(s, h)
<1>1. PICK m \in 0 .. Len(s) : h \in [1 .. m -> 1 .. Len(s)]
  BY DEF Store!Ascending
<1>2. Len(s) \in Nat
  BY LenProperties
<1>3. Len(h) = m /\ DOMAIN h = 1 .. Len(h) /\ h \in Seq(1 .. Len(s))
  BY <1>1, <1>2
<1>4. \A k \in 1 .. Len(h) : h[k] \in 1 .. Len(s) /\ s[h[k]] \in Entry
  BY <1>1, <1>3, ElementOfSeq
<1>5. rest = [k \in 1 .. Len(h) |-> s[h[k]]]
  BY <1>3 DEF Store!Selected
<1>6. rest \in Seq(Entry) /\ Len(rest) = Len(h)
  BY <1>1, <1>2, <1>3, <1>4, <1>5
<1> QED
  BY <1>1, <1>3, <1>4, <1>5, <1>6 DEF Store!Ascending

\* All entries may stay, or none.
LEMMA StayAllOrNone ==
    ASSUME NEW n \in Nat
    PROVE  /\ [i \in 1 .. n |-> i] \in Store!Ascending(n)
           /\ <<>> \in Store!Ascending(n)
<1>1. [i \in 1 .. n |-> i] \in [1 .. n -> 1 .. n]
  OBVIOUS
<1>2. <<>> \in [1 .. 0 -> 1 .. n] /\ DOMAIN <<>> = {}
  OBVIOUS
<1> QED
  BY <1>1, <1>2 DEF Store!Ascending

\* The last entries of those that may stay may stay alone.
LEMMA StayLast ==
    ASSUME NEW n \in Nat, NEW h \in Store!Ascending(n), NEW d \in Nat, d <= Len(h)
    PROVE  /\ SubSeq(h, d + 1, Len(h)) \in Store!Ascending(n)
           /\ Len(SubSeq(h, d + 1, Len(h))) = Len(h) - d
           /\ \A k \in 1 .. Len(h) - d : SubSeq(h, d + 1, Len(h))[k] = h[k + d]
<1> DEFINE rest == SubSeq(h, d + 1, Len(h))
<1>1. PICK m \in 0 .. n : h \in [1 .. m -> 1 .. n]
  BY DEF Store!Ascending
<1>2. Len(h) = m /\ h \in Seq(1 .. n)
  BY <1>1
<1>3. /\ rest \in Seq(1 .. n)
      /\ Len(rest) = Len(h) - d
      /\ \A k \in 1 .. Len(h) - d : rest[k] = h[k + d]
  <2>1. \A k \in d + 1 .. Len(h) : h[k] \in 1 .. n
    BY <1>1, <1>2
  <2> QED
    BY <1>2, <2>1, SubSeqProperties
<1> HIDE DEF rest
<1>4. Len(h) - d \in 0 .. n
  BY <1>2
<1>5. rest \in [1 .. Len(h) - d -> 1 .. n] /\ DOMAIN rest = 1 .. Len(h) - d
  BY <1>3, <1>4, LenProperties
<1>6. \A i, j \in DOMAIN h : i < j => h[i] < h[j]
  BY DEF Store!Ascending
<1>7. ASSUME NEW i \in DOMAIN rest, NEW j \in DOMAIN rest, i < j
      PROVE  rest[i] < rest[j]
  <2>1. i + d \in DOMAIN h /\ j + d \in DOMAIN h /\ i + d < j + d
    <3>1. DOMAIN h = 1 .. Len(h) /\ i \in 1 .. Len(h) - d /\ j \in 1 .. Len(h) - d
      BY <1>1, <1>2, <1>5, <1>7
    <3> QED
      BY <1>2, <1>7, <3>1
  <2> QED
    BY <1>3, <1>5, <1>6, <2>1
<1> QED
  BY <1>3, <1>4, <1>5, <1>7 DEF Store!Ascending, rest

\* The policies leave some of the entries, in their order.
LEMMA RetainedFacts ==
    ASSUME NEW s \in Seq(Entry), NEW kept \in Retained(s)
    PROVE  \E h \in Store!Ascending(Len(s)) : kept = Store!Selected(s, h)
<1>1. Len(s) \in Nat
  BY LenProperties
<1>2. PICK h \in Young(Len(s)) : kept = Store!Selected(s, Youngest(h))
  BY DEF Retained
<1>3. h \in Store!Ascending(Len(s))
  BY <1>1, <1>2, StayAllOrNone DEF Young
<1>4. Youngest(h) \in Store!Ascending(Len(s))
  <2>1. MaxNumber \in Nat /\ Len(h) \in Nat
    BY <1>3, LogAssumption, RestOfList
  <2>2. CASE "MaxNumber" \in policies /\ Len(h) > MaxNumber
    <3>1. Len(h) - MaxNumber \in Nat /\ Len(h) - MaxNumber <= Len(h)
      BY <2>1, <2>2
    <3>2. Youngest(h) = SubSeq(h, (Len(h) - MaxNumber) + 1, Len(h))
      BY <2>2 DEF Youngest
    <3> QED
      BY <1>1, <1>3, <3>1, <3>2, StayLast
  <2>3. CASE ~("MaxNumber" \in policies /\ Len(h) > MaxNumber)
    BY <1>3, <2>3 DEF Youngest
  <2> QED
    BY <2>2, <2>3
<1> QED
  BY <1>2, <1>4

LEMMA CallType ==
    ASSUME LogTypeOK, NEW t \in Thread, NEW o \in Operation, NEW r \in Label,
           Call(t, o, r)
    PROVE  frame' \in [Thread -> Frame] /\ pc' \in [Thread -> Label]
  BY FrameFacts, LabelFacts DEF Call, LogTypeOK

LEMMA MayType ==
    ASSUME LogTypeOK, NEW t \in Thread, NEW c, May(t, c)
    PROVE  calls' \in [Thread -> Nat]
  BY DEF May, LogTypeOK

-----------------------------------------------------------------------------
(* Types                                                                    *)

LEMMA LogType ==
    ASSUME LogTypeOK, NEW t \in Thread, NEW level \in LogLevel, Log(t, level)
    PROVE  LogTypeOK'
<1>1. entry[t].id + 1 \in 0 .. MaxLogs
  BY LogAssumption DEF Log, LogTypeOK, Entry
<1>2. [thread |-> t, id |-> entry[t].id + 1, level |-> level] \in Entry
  BY <1>1 DEF Entry
<1>3. entry' \in [Thread -> Entry]
  BY <1>2 DEF LogTypeOK, Log
<1> QED
  BY <1>3, LabelFacts DEF Log, GoTo, LogTypeOK, mapVars, configVars, fileVars

LEMMA LoggingType ==
    ASSUME LogTypeOK, NEW t \in Thread, Logging(t)
    PROVE  LogTypeOK'
<1>1. CASE LockMap(t)
  BY <1>1, LabelFacts DEF LockMap, GoTo, Acquire, LogTypeOK, configVars, fileVars
<1>2. CASE InsertList(t)
  BY <1>2, LabelFacts DEF InsertList, GoTo, LogTypeOK, configVars, fileVars
<1>3. CASE Check(t)
  BY <1>3, LabelFacts DEF Check, GoTo, LogTypeOK, mapVars, configVars, fileVars
<1>4. CASE EmplaceBack(t)
  <2>1. Append(lists[t], entry[t]) \in Seq(Entry)
    BY AppendProperties DEF LogTypeOK
  <2>2. lists' \in [Thread -> Seq(Entry)]
    BY <1>4, <2>1 DEF LogTypeOK, EmplaceBack
  <2> QED
    BY <1>4, <2>2, LabelFacts DEF EmplaceBack, GoTo, LogTypeOK, configVars, fileVars
<1>5. CASE StreamCount(t)
  BY <1>5, LabelFacts DEF StreamCount, GoTo, LogTypeOK, mapVars, configVars, fileVars
<1>6. CASE StreamWrite(t)
  BY <1>6, LabelFacts DEF StreamWrite, GoTo, LogTypeOK, mapVars, configVars, fileVars
<1>7. CASE CallbackCount(t)
  BY <1>7, LabelFacts DEF CallbackCount, GoTo, LogTypeOK, mapVars, configVars, fileVars
<1>8. CASE Invoke(t)
  <2>1. frame' \in [Thread -> Frame] /\ pc' \in [Thread -> Label]
    <3>1. CASE \E o \in CallbackOps : Call(t, o, "idle")
      BY <3>1, CallType, LabelFacts, LogAssumption
    <3>2. CASE frame' = frame /\ \E to \in Label : GoTo(t, "invoke", to)
      BY <3>2 DEF GoTo, LogTypeOK
    <3> QED
      BY <1>8, <3>1, <3>2, LabelFacts DEF Invoke
  <2> QED
    BY <1>8, <2>1 DEF Invoke, LogTypeOK, mapVars, configVars, fileVars
<1> QED
  BY <1>1, <1>2, <1>3, <1>4, <1>5, <1>6, <1>7, <1>8 DEF Logging

LEMMA LevelHandlerType ==
    ASSUME LogTypeOK, NEW t \in Thread, LevelHandler(t)
    PROVE  LogTypeOK'
<1>1. CASE HSuspend(t)
  <2>1. frame' \in [Thread -> Frame] /\ pc' \in [Thread -> Label]
    BY <1>1, CallType, LabelFacts, OperationFacts DEF HSuspend
  <2> QED
    BY <1>1, <2>1 DEF HSuspend, LogTypeOK, mapVars, configVars, fileVars
<1>2. CASE HName(t)
  <2>1. frame' \in [Thread -> Frame] /\ pc' \in [Thread -> Label]
    <3>1. CASE Call(t, "writeToFile", "hReset")
      BY <3>1, CallType, LabelFacts, OperationFacts
    <3>2. CASE frame' = frame /\ GoTo(t, "hName", "hStamp")
      BY <3>2, LabelFacts DEF GoTo, LogTypeOK
    <3> QED
      BY <1>2, <3>1, <3>2 DEF HName
  <2> QED
    BY <1>2, <2>1 DEF HName, LogTypeOK, mapVars, configVars, fileVars
<1>3. CASE HStamp(t)
  <2>1. frame' \in [Thread -> Frame] /\ pc' \in [Thread -> Label]
    BY <1>3, CallType, LabelFacts, OperationFacts DEF HStamp
  <2>2. entry[t].id \in 0 .. MaxLogs
    BY DEF LogTypeOK, Entry
  <2>3. logFilename' \in FileName \union {NoFile}
    BY <1>3, <2>2, FileFacts DEF HStamp, LogTypeOK
  <2> QED
    BY <1>3, <2>1, <2>3 DEF HStamp, LogTypeOK, mapVars, configVars
<1>4. CASE HReset(t)
  <2>1. frame' \in [Thread -> Frame] /\ pc' \in [Thread -> Label]
    BY <1>4, CallType, LabelFacts, OperationFacts DEF HReset
  <2> QED
    BY <1>4, <2>1 DEF HReset, LogTypeOK, mapVars, configVars, fileVars
<1>5. CASE HResume(t)
  BY <1>5, LabelFacts DEF HResume, GoTo, LogTypeOK, mapVars, configVars, fileVars
<1> QED
  BY <1>1, <1>2, <1>3, <1>4, <1>5 DEF LevelHandler

LEMMA OperatingType ==
    ASSUME LogTypeOK, NEW t \in Thread, FrameFollowsCall(t), Operating(t)
    PROVE  LogTypeOK'
<1>1. CASE Enter(t)
  BY <1>1, LabelFacts DEF Enter, GoTo, LogTypeOK, mapVars, configVars, fileVars
<1>2. CASE Lock(t)
  BY <1>2, LabelFacts DEF Lock, GoTo, Acquire, LogTypeOK, configVars, fileVars
<1>3. CASE Open(t)
  <2> DEFINE f == IF frame[t].ret = "hReset" THEN logFilename ELSE UserFile
  <2>1. f \in FileName \union {NoFile} /\ frame[t] \in Frame
    BY FileFacts DEF LogTypeOK
  <2>2. [frame[t] EXCEPT !.target = f] \in Frame
    BY <2>1 DEF Frame
  <2>3. frame' = [frame EXCEPT ![t] = [frame[t] EXCEPT !.target = f]]
    BY <1>3 DEF Open, LogTypeOK
  <2>4. frame' \in [Thread -> Frame]
    BY <2>2, <2>3 DEF LogTypeOK
  <2>5. pc' \in [Thread -> Label]
    BY <1>3, LabelFacts DEF Open, GoTo, LogTypeOK
  <2> QED
    BY <1>3, <2>4, <2>5 DEF Open, LogTypeOK, mapVars, configVars, fileVars
<1>4. CASE EndSweep(t)
  BY <1>4, LabelFacts DEF EndSweep, GoTo, LogTypeOK, configVars, fileVars
<1>5. CASE Leave(t)
  <2>1. frame[t].ret \in Label
    BY DEF LogTypeOK, Frame
  <2> QED
    BY <1>5, <2>1, FrameFacts DEF Leave, GoTo, LogTypeOK, mapVars, configVars, fileVars
<1>6. ASSUME NEW u \in nodes,
             \/ ResetList(t, u) \/ ReleaseList(t, u)
             \/ CountList(t, u) \/ WriteList(t, u)
      PROVE  LogTypeOK'
  <2>1. u \in Thread /\ lists[u] \in Seq(Entry) /\ frame[t] \in Frame
    BY DEF LogTypeOK
  <2>2. Len(lists[u]) \in Nat
    BY <2>1, LenProperties
  <2>3. [frame[t] EXCEPT !.cursor = u] \in Frame
    BY <2>1 DEF Frame
  <2>4. CASE ResetList(t, u)
    <3>1. frame' = [frame EXCEPT ![t] = [frame[t] EXCEPT !.cursor = u]]
      BY <2>4 DEF ResetList, LogTypeOK
    <3>2. frame' \in [Thread -> Frame]
      BY <2>3, <3>1 DEF LogTypeOK
    <3>3. lists' \in [Thread -> Seq(Entry)]
      BY <2>1, <2>4 DEF ResetList, LogTypeOK
    <3> QED
      BY <2>4, <3>2, <3>3 DEF ResetList, LogTypeOK, configVars, fileVars
  <2>5. CASE ReleaseList(t, u)
    <3>1. frame' = [frame EXCEPT ![t] = [frame[t] EXCEPT !.cursor = u]]
      BY <2>5 DEF ReleaseList, LogTypeOK
    <3>2. frame' \in [Thread -> Frame]
      BY <2>3, <3>1 DEF LogTypeOK
    <3>3. PICK kept \in Retained(lists[u]) : lists' = [lists EXCEPT ![u] = kept]
      BY <2>5 DEF ReleaseList
    <3>4. PICK h \in Store!Ascending(Len(lists[u])) : kept = Store!Selected(lists[u], h)
      BY <2>1, RetainedFacts
    <3>6. kept \in Seq(Entry)
      BY <2>1, <3>4, RestOfList
    <3>7. lists' \in [Thread -> Seq(Entry)]
      BY <3>3, <3>6 DEF LogTypeOK
    <3> QED
      BY <2>5, <3>2, <3>7 DEF ReleaseList, LogTypeOK, configVars, fileVars
  <2>6. CASE CountList(t, u)
    <3>1. frame[t].acc + Len(lists[u]) \in Nat
      BY <2>1, <2>2 DEF Frame
    <3>2. [frame[t] EXCEPT !.cursor = u, !.acc = frame[t].acc + Len(lists[u])]
            \in Frame
      BY <2>1, <3>1 DEF Frame
    <3>3. frame' = [frame EXCEPT ![t] =
            [frame[t] EXCEPT !.cursor = u, !.acc = frame[t].acc + Len(lists[u])]]
      BY <2>6 DEF CountList, LogTypeOK
    <3>4. frame' \in [Thread -> Frame]
      BY <3>2, <3>3 DEF LogTypeOK
    <3> QED
      BY <2>6, <3>4 DEF CountList, LogTypeOK, mapVars, configVars, fileVars
  <2>7. CASE WriteList(t, u)
    <3>1. frame' = [frame EXCEPT ![t] = [frame[t] EXCEPT !.cursor = u]]
      BY <2>7 DEF WriteList, LogTypeOK
    <3>2. frame' \in [Thread -> Frame]
      BY <2>3, <3>1 DEF LogTypeOK
    <3>3. frame[t].target \in FileName
      BY <2>7 DEF WriteList, Visits, Locked, FrameFollowsCall
    <3>4. files[frame[t].target] \o lists[u] \in Seq(Entry)
      BY <2>1, <3>3, ConcatProperties DEF LogTypeOK
    <3>5. files' \in [FileName -> Seq(Entry)]
      BY <2>7, <3>4 DEF WriteList, LogTypeOK
    <3> QED
      BY <2>7, <3>2, <3>5 DEF WriteList, LogTypeOK, mapVars, configVars
  <2> QED
    BY <1>6, <2>4, <2>5, <2>6, <2>7
<1> QED
  BY <1>1, <1>2, <1>3, <1>4, <1>5, <1>6 DEF Operating

\* A change of the configuration leaves everything else as it is.
ConfigVarsType ==
    /\ callbackMap \in [LogLevel -> {"none", "levelHandler", "user"}]
    /\ outStreams \subseteq LogLevel
    /\ policies \subseteq Policy
    /\ logFolder \in Folder

LEMMA ConfiguringType ==
    ASSUME LogTypeOK, NEW t \in Thread, Configuring(t)
    PROVE  /\ ConfigVarsType'
           /\ calls' \in [Thread -> Nat]
           /\ UNCHANGED <<guardVars, mapVars, fileVars, pc, frame, entry>>
<1>1. ASSUME NEW l \in LogLevel, RegisterCallback(t, l)
      PROVE  ConfigVarsType' /\ calls' \in [Thread -> Nat] /\ Configure(t)
  BY <1>1, MayType DEF RegisterCallback, ConfigVarsType, LogTypeOK
<1>2. ASSUME NEW l \in LogLevel, RegisterOutstream(t, l)
      PROVE  ConfigVarsType' /\ calls' \in [Thread -> Nat] /\ Configure(t)
  BY <1>2, MayType DEF RegisterOutstream, ConfigVarsType, LogTypeOK
<1>3. ASSUME NEW p \in Policy, RegisterLogRetentionPolicy(t, p)
      PROVE  ConfigVarsType' /\ calls' \in [Thread -> Nat] /\ Configure(t)
  BY <1>3, MayType DEF RegisterLogRetentionPolicy, ConfigVarsType, LogTypeOK
<1>4. ASSUME NEW folder \in Folders, ApplyDefaultConfiguration(t, folder)
      PROVE  ConfigVarsType' /\ calls' \in [Thread -> Nat] /\ Configure(t)
  <2> folder \in Folder
    BY FolderFacts
  <2>1. callbackMap' \in [LogLevel -> {"none", "levelHandler", "user"}]
    BY <1>4 DEF ApplyDefaultConfiguration, DefaultCallbacks, LogTypeOK
  <2>2. outStreams' \subseteq LogLevel
    BY <1>4 DEF ApplyDefaultConfiguration, DefaultStreams, LogLevel, LogTypeOK
  <2>3. policies' \subseteq Policy
    BY <1>4 DEF ApplyDefaultConfiguration, Policy, LogTypeOK
  <2> QED
    BY <1>4, <2>1, <2>2, <2>3, MayType
       DEF ApplyDefaultConfiguration, ConfigVarsType
<1>5. CASE RemoveCallbacks(t)
  <2> QED
    BY <1>5, MayType DEF RemoveCallbacks, ConfigVarsType, LogTypeOK, Configure
<1>6. CASE RemoveOutstreams(t)
  BY <1>6, MayType DEF RemoveOutstreams, ConfigVarsType, LogTypeOK, Configure
<1>7. CASE RemoveLogRetentionPolicies(t)
  BY <1>7, MayType
     DEF RemoveLogRetentionPolicies, ConfigVarsType, LogTypeOK, Configure
<1> QED
  BY <1>1, <1>2, <1>3, <1>4, <1>5, <1>6, <1>7 DEF Configuring, Configure

LEMMA UserCallType ==
    ASSUME LogTypeOK, NEW t \in Thread, UserCall(t)
    PROVE  LogTypeOK'
<1>1. ASSUME NEW level \in Logs[t], Log(t, level)
      PROVE  LogTypeOK'
  BY <1>1, LogType, LogAssumption
<1>2. ASSUME NEW o \in Operation, CallOperation(t, o)
      PROVE  LogTypeOK'
  <2>1. frame' \in [Thread -> Frame] /\ pc' \in [Thread -> Label]
    BY <1>2, CallType, LabelFacts DEF CallOperation
  <2>2. calls' \in [Thread -> Nat]
    BY <1>2, MayType DEF CallOperation
  <2> QED
    BY <1>2, <2>1, <2>2 DEF CallOperation, LogTypeOK, mapVars, configVars, fileVars
<1>3. CASE SuspendScope(t)
  BY <1>3, MayType DEF SuspendScope, LogTypeOK, mapVars, configVars, fileVars
<1>4. CASE ReuseThreadId(t)
  BY <1>4, MayType DEF ReuseThreadId, LogTypeOK, configVars, fileVars
<1>5. CASE Configuring(t)
  BY <1>5, ConfiguringType DEF ConfigVarsType, LogTypeOK, mapVars, fileVars
<1> QED
  BY <1>1, <1>2, <1>3, <1>4, <1>5 DEF UserCall

LEMMA ThreadType ==
    ASSUME Placed, NEW t \in Thread, Run(t) \/ UserCall(t)
    PROVE  LogTypeOK'
<1>1. CASE Run(t)
  <2>1. CASE ResumeScope(t)
    BY <2>1 DEF ResumeScope, Placed, LogTypeOK, mapVars, configVars, fileVars
  <2> QED
    BY <1>1, <2>1, LoggingType, LevelHandlerType, OperatingType DEF Run, Placed
<1>2. CASE UserCall(t)
  BY <1>2, UserCallType DEF Placed
<1> QED
  BY <1>1, <1>2

LEMMA TypeStep ==
    ASSUME Inv, [Next]_vars
    PROVE  LogTypeOK'
<1>1. ASSUME NEW t \in Thread, Run(t) \/ UserCall(t)
      PROVE  LogTypeOK'
  BY <1>1, InvPlaced, ThreadType
<1>2. CASE UNCHANGED vars
  BY <1>2 DEF vars, mapVars, configVars, fileVars, Inv, LogTypeOK
<1> QED
  BY <1>1, <1>2 DEF Next, Rest

-----------------------------------------------------------------------------
(* A step of one thread                                                     *)

\* What a step of t leaves alone of every other thread: its label, its locals,
\* its guards and its hold of the mutex.
OthersUntouched(t) ==
    \A w \in Thread \ {t} :
        /\ pc'[w] = pc[w]
        /\ frame'[w] = frame[w]
        /\ \A s \in Scope : <<w, s>> \in guards' <=> <<w, s>> \in guards
        /\ owner' = w <=> owner = w

\* The name of the log file, once made, stays made.
NameKept == logFilename # NoFile => logFilename' # NoFile

LEMMA OthersStayScoped ==
    ASSUME Inv, NEW t \in Thread, OthersUntouched(t), NameKept,
           NEW w \in Thread \ {t}
    PROVE  Scoped(w)'
  BY DEF Inv, Scoped, OthersUntouched, NameKept, FrameFollowsCall,
         GuardsFollowScope, MutexFollowsScope, InCall, InHandler, Guarded,
         Locked, Scope

\* The labels at which a thread has neither locals nor guards nor the mutex.
Outside == {"idle", "terminate", "hSuspend"} \union (LogLabels \ {"insert"})

\* A step of t that changes nothing but its label.
OnlyMoves(t) ==
    /\ \A w \in Thread \ {t} : pc'[w] = pc[w]
    /\ UNCHANGED <<frame, guards, owner, logFilename>>

\* The conclusion of every lemma on a step of t.
StepKeepsScopes(t) == OthersUntouched(t) /\ NameKept /\ Scoped(t)'

LEMMA MovesOutside ==
    ASSUME Inv, NEW t \in Thread, OnlyMoves(t),
           pc[t] \in Outside, pc'[t] \in Outside
    PROVE  StepKeepsScopes(t)
<1>1. OthersUntouched(t) /\ NameKept
  BY DEF OnlyMoves, OthersUntouched, NameKept
<1>2. Scoped(t)
  BY DEF Inv
<1> QED
  BY <1>1, <1>2
     DEF StepKeepsScopes, OnlyMoves, Scoped, FrameFollowsCall,
         GuardsFollowScope, MutexFollowsScope, InCall, InHandler, CallLabels,
         HandlerLabels, LogLabels, Outside

\* A label changed by GoTo changes for t only.
LEMMA GoToMoves ==
    ASSUME LogTypeOK, NEW t \in Thread, NEW from, NEW to, GoTo(t, from, to)
    PROVE  /\ pc[t] = from
           /\ pc'[t] = to
           /\ \A w \in Thread \ {t} : pc'[w] = pc[w]
  BY DEF GoTo, LogTypeOK

LEMMA CallMoves ==
    ASSUME LogTypeOK, NEW t \in Thread, NEW o, NEW r, Call(t, o, r)
    PROVE  /\ pc'[t] = "enter"
           /\ frame'[t].op = o
           /\ frame'[t].ret = r
           /\ \A w \in Thread \ {t} : pc'[w] = pc[w] /\ frame'[w] = frame[w]
<1>1. frame'[t] = NewFrame(o, r)
  BY DEF Call, LogTypeOK
<1> QED
  BY <1>1 DEF Call, NewFrame, LogTypeOK

\* An operation is called by a thread that has no locals of another one.
LEMMA CallKeepsScopes ==
    ASSUME Inv, NEW t \in Thread, NEW o \in Operation,
           NEW r \in {"idle", "hName", "hReset", "hResume"}, Call(t, o, r),
           UNCHANGED owner,
           NameKept,
           ~InCall(t), pc[t] # "insert",
           r = "hReset" => o = "writeToFile" /\ logFilename' # NoFile,
           \A w \in Thread, s \in Scope : <<w, s>> \in guards' <=>
               \/ <<w, s>> \in guards
               \/ w = t /\ s = "handler" /\ r \in HandlerLabels,
           <<t, "handler">> \in guards => r \in HandlerLabels
    PROVE  StepKeepsScopes(t)
<1>1. /\ pc'[t] = "enter"
      /\ frame'[t].op = o
      /\ frame'[t].ret = r
      /\ \A w \in Thread \ {t} : pc'[w] = pc[w] /\ frame'[w] = frame[w]
  BY CallMoves DEF Inv
<1>2. Scoped(t)
  BY DEF Inv
<1>3. OthersUntouched(t)
  BY <1>1 DEF OthersUntouched
<1>4. FrameFollowsCall(t)'
  BY <1>1, <1>2 DEF FrameFollowsCall, InCall, CallLabels
<1>5. <<t, "call">> \notin guards' /\ (<<t, "handler">> \in guards' <=> r \in HandlerLabels)
  BY <1>2 DEF Scoped, GuardsFollowScope, Scope
<1>6. GuardsFollowScope(t)'
  BY <1>1, <1>5 DEF GuardsFollowScope, InCall, InHandler, CallLabels, HandlerLabels
<1>7. MutexFollowsScope(t)'
  BY <1>1, <1>2 DEF Scoped, MutexFollowsScope, InCall, CallLabels
<1> QED
  BY <1>3, <1>4, <1>6, <1>7 DEF StepKeepsScopes, Scoped

LEMMA LoggingScopes ==
    ASSUME Inv, NEW t \in Thread, Logging(t)
    PROVE  StepKeepsScopes(t)
<1> USE DEF Inv
<1>1. CASE LockMap(t)
  <2>1. /\ pc[t] = "lockMap" /\ pc'[t] = "insert"
        /\ \A w \in Thread \ {t} : pc'[w] = pc[w]
        /\ UNCHANGED <<frame, guards, logFilename>>
        /\ owner \in {NoThread, t} /\ owner' = t
    BY <1>1, GoToMoves DEF LockMap, Acquire, guardVars, fileVars
  <2>2. OthersUntouched(t) /\ NameKept
    BY <2>1, LogAssumption DEF OthersUntouched, NameKept, NoThread
  <2> QED
    BY <2>1, <2>2
       DEF StepKeepsScopes, Scoped, FrameFollowsCall, GuardsFollowScope,
           MutexFollowsScope, InCall, InHandler, CallLabels, HandlerLabels
<1>2. CASE InsertList(t)
  <2>1. /\ pc[t] = "insert" /\ pc'[t] = "check"
        /\ \A w \in Thread \ {t} : pc'[w] = pc[w]
        /\ UNCHANGED <<frame, guards, logFilename>>
        /\ owner' = NoThread
    BY <1>2, GoToMoves DEF InsertList, guardVars, fileVars
  <2>2. owner = t
    BY <2>1 DEF Scoped, MutexFollowsScope
  <2>3. OthersUntouched(t) /\ NameKept
    BY <2>1, <2>2, LogAssumption DEF OthersUntouched, NameKept, NoThread
  <2> QED
    BY <2>1, <2>2, <2>3, LogAssumption
       DEF StepKeepsScopes, Scoped, FrameFollowsCall, GuardsFollowScope,
           MutexFollowsScope, InCall, InHandler, CallLabels, HandlerLabels,
           NoThread
<1>3. CASE \/ Check(t) \/ EmplaceBack(t) \/ StreamCount(t) \/ StreamWrite(t)
           \/ CallbackCount(t)
  <2>1. /\ \E from, to \in Outside : GoTo(t, from, to)
        /\ UNCHANGED <<frame, guards, owner, logFilename>>
    BY <1>3 DEF Check, EmplaceBack, StreamCount, StreamWrite, CallbackCount,
                Outside, LogLabels, guardVars, mapVars, fileVars
  <2> QED
    BY <2>1, GoToMoves, MovesOutside DEF OnlyMoves
<1>4. CASE Invoke(t)
  <2>1. pc[t] = "invoke" /\ UNCHANGED <<guards, owner, logFilename>>
    BY <1>4 DEF Invoke, guardVars, mapVars, fileVars
  <2>2. CASE \E o \in CallbackOps : Call(t, o, "idle")
    <3>1. PICK o \in Operation : Call(t, o, "idle")
      BY <2>2, LogAssumption
    <3>2. ~InCall(t) /\ <<t, "handler">> \notin guards
      BY <2>1 DEF InCall, CallLabels, Scoped, GuardsFollowScope, InHandler,
                  HandlerLabels
    <3> QED
      BY <2>1, <3>1, <3>2, CallKeepsScopes DEF NameKept, HandlerLabels
  <2>3. CASE /\ \E to \in Outside : GoTo(t, "invoke", to)
             /\ frame' = frame
    BY <2>1, <2>3, GoToMoves, MovesOutside DEF OnlyMoves, Outside, LogLabels
  <2> QED
    BY <1>4, <2>2, <2>3 DEF Invoke, Outside, LogLabels
<1> QED
  BY <1>1, <1>2, <1>3, <1>4 DEF Logging

\* A guard of t made or destroyed is no guard of another thread, and of no
\* other scope.
LEMMA GuardOfOne ==
    ASSUME NEW t \in Thread, NEW s \in Scope
    PROVE  /\ SL!Construct(<<t, s>>) =>
                \A w \in Thread, x \in Scope : <<w, x>> \in guards' <=>
                    <<w, x>> \in guards \/ (w = t /\ x = s)
           /\ SL!Destroy(<<t, s>>) =>
                \A w \in Thread, x \in Scope : <<w, x>> \in guards' <=>
                    <<w, x>> \in guards /\ ~(w = t /\ x = s)
  BY DEF SL!Construct, SL!Destroy

LEMMA LevelHandlerScopes ==
    ASSUME Inv, NEW t \in Thread, LevelHandler(t)
    PROVE  StepKeepsScopes(t)
<1> USE DEF Inv
<1>1. CASE HSuspend(t)
  <2>1. /\ pc[t] = "hSuspend" /\ Call(t, "releaseLogs", "hName")
        /\ UNCHANGED <<owner, logFilename>>
        /\ SL!Construct(<<t, "handler">>)
    BY <1>1 DEF HSuspend, mapVars, fileVars
  <2>2. \A w \in Thread, x \in Scope : <<w, x>> \in guards' <=>
            <<w, x>> \in guards \/ (w = t /\ x = "handler")
    BY <2>1, GuardOfOne DEF Scope
  <2> QED
    BY <2>1, <2>2, OperationFacts, CallKeepsScopes
       DEF NameKept, HandlerLabels, InCall, CallLabels
<1>2. CASE HName(t)
  <2>1. pc[t] = "hName" /\ UNCHANGED <<guards, owner, logFilename>>
    BY <1>2 DEF HName, guardVars, mapVars, fileVars
  <2>2. CASE logFilename = NoFile /\ GoTo(t, "hName", "hStamp") /\ frame' = frame
    <3>1. pc'[t] = "hStamp" /\ \A w \in Thread \ {t} : pc'[w] = pc[w]
      BY <2>2, GoToMoves
    <3> QED
      BY <2>1, <2>2, <3>1
         DEF StepKeepsScopes, OthersUntouched, NameKept, Scoped,
             FrameFollowsCall, GuardsFollowScope, MutexFollowsScope, InCall,
             InHandler, CallLabels, HandlerLabels
  <2>3. CASE logFilename # NoFile /\ Call(t, "writeToFile", "hReset")
    <3>1. <<t, "handler">> \in guards
      BY <2>1 DEF Scoped, GuardsFollowScope, InHandler, HandlerLabels
    <3> QED
      BY <2>1, <2>3, <3>1, OperationFacts, CallKeepsScopes
         DEF NameKept, HandlerLabels, InCall, CallLabels
  <2> QED
    BY <1>2, <2>2, <2>3 DEF HName
<1>3. CASE HStamp(t)
  <2>1. /\ pc[t] = "hStamp" /\ Call(t, "writeToFile", "hReset")
        /\ UNCHANGED <<guards, owner>>
        /\ logFilename' = LogFile(logFolder, t, entry[t].id)
    BY <1>3 DEF HStamp, guardVars, mapVars
  <2>2. logFilename' # NoFile
    BY <2>1 DEF LogFile, NoFile
  <2>3. <<t, "handler">> \in guards
    BY <2>1 DEF Scoped, GuardsFollowScope, InHandler, HandlerLabels
  <2> QED
    BY <2>1, <2>2, <2>3, OperationFacts, CallKeepsScopes
       DEF NameKept, HandlerLabels, InCall, CallLabels
<1>4. CASE HReset(t)
  <2>1. /\ pc[t] = "hReset" /\ Call(t, "reset", "hResume")
        /\ UNCHANGED <<guards, owner, logFilename>>
    BY <1>4 DEF HReset, guardVars, mapVars, fileVars
  <2>2. <<t, "handler">> \in guards
    BY <2>1 DEF Scoped, GuardsFollowScope, InHandler, HandlerLabels
  <2> QED
    BY <2>1, <2>2, OperationFacts, CallKeepsScopes
       DEF NameKept, HandlerLabels, InCall, CallLabels
<1>5. CASE HResume(t)
  <2>1. /\ pc[t] = "hResume" /\ pc'[t] = "idle"
        /\ \A w \in Thread \ {t} : pc'[w] = pc[w]
        /\ UNCHANGED <<frame, owner, logFilename>>
        /\ SL!Destroy(<<t, "handler">>)
    BY <1>5, GoToMoves DEF HResume, mapVars, fileVars
  <2>2. \A w \in Thread, x \in Scope : <<w, x>> \in guards' <=>
            <<w, x>> \in guards /\ ~(w = t /\ x = "handler")
    BY <2>1, GuardOfOne DEF Scope
  <2>3. OthersUntouched(t) /\ NameKept
    BY <2>1, <2>2 DEF OthersUntouched, NameKept
  <2> QED
    BY <2>1, <2>2, <2>3
       DEF StepKeepsScopes, Scoped, FrameFollowsCall, GuardsFollowScope,
           MutexFollowsScope, InCall, InHandler, CallLabels, HandlerLabels,
           Scope
<1> QED
  BY <1>1, <1>2, <1>3, <1>4, <1>5 DEF LevelHandler

LEMMA OperatingScopes ==
    ASSUME Inv, NEW t \in Thread, Operating(t)
    PROVE  StepKeepsScopes(t)
<1> USE DEF Inv
<1>1. CASE Enter(t)
  <2>1. /\ pc[t] = "enter" /\ pc'[t] \in {"lock", "open", "leave"}
        /\ pc'[t] = "lock" <=> Locked(frame[t].op)
        /\ \A w \in Thread \ {t} : pc'[w] = pc[w]
        /\ UNCHANGED <<frame, owner, logFilename>>
    BY <1>1, GoToMoves DEF Enter, mapVars, fileVars
  <2>2. \A w \in Thread, x \in Scope : <<w, x>> \in guards' <=>
            \/ <<w, x>> \in guards
            \/ w = t /\ x = "call" /\ Guarded(frame[t].op)
    <3>1. CASE Guarded(frame[t].op)
      BY <1>1, <3>1, GuardOfOne DEF Enter, Scope
    <3>2. CASE ~Guarded(frame[t].op)
      BY <1>1, <3>2 DEF Enter, guardVars
    <3> QED
      BY <3>1, <3>2
  <2>3. OthersUntouched(t) /\ NameKept
    BY <2>1, <2>2 DEF OthersUntouched, NameKept
  <2> QED
    BY <2>1, <2>2, <2>3
       DEF StepKeepsScopes, Scoped, FrameFollowsCall, GuardsFollowScope,
           MutexFollowsScope, InCall, InHandler, CallLabels, HandlerLabels,
           Scope
<1>2. CASE Lock(t)
  <2>1. /\ pc[t] = "lock" /\ pc'[t] = "sweep"
        /\ \A w \in Thread \ {t} : pc'[w] = pc[w]
        /\ UNCHANGED <<frame, guards, logFilename>>
        /\ owner \in {NoThread, t} /\ owner' = t
    BY <1>2, GoToMoves DEF Lock, Acquire, guardVars, fileVars
  <2>2. OthersUntouched(t) /\ NameKept
    BY <2>1, LogAssumption DEF OthersUntouched, NameKept, NoThread
  <2> QED
    BY <2>1, <2>2
       DEF StepKeepsScopes, Scoped, FrameFollowsCall, GuardsFollowScope,
           MutexFollowsScope, InCall, InHandler, CallLabels, HandlerLabels
<1>3. CASE Open(t)
  <2> DEFINE f == IF frame[t].ret = "hReset" THEN logFilename ELSE UserFile
  <2>1. /\ pc[t] = "open" /\ pc'[t] \in {"sweep", "leave"}
        /\ \A w \in Thread \ {t} : pc'[w] = pc[w]
        /\ UNCHANGED <<guards, owner, logFilename>>
    BY <1>3, GoToMoves DEF Open, guardVars, mapVars, fileVars
  <2>2. /\ frame'[t].op = frame[t].op
        /\ frame'[t].ret = frame[t].ret
        /\ frame'[t].target = f
        /\ \A w \in Thread \ {t} : frame'[w] = frame[w]
    BY <1>3 DEF Open, LogTypeOK, Frame
  <2>3. frame'[t].target \in FileName
    BY <2>2, FileFacts DEF LogTypeOK, Scoped, FrameFollowsCall
  <2>4. OthersUntouched(t) /\ NameKept
    BY <2>1, <2>2 DEF OthersUntouched, NameKept
  <2>5. FrameFollowsCall(t)'
    BY <2>1, <2>2, <2>3 DEF Scoped, FrameFollowsCall, InCall, CallLabels, Locked
  <2>6. GuardsFollowScope(t)' /\ MutexFollowsScope(t)'
    BY <2>1, <2>2
       DEF Scoped, FrameFollowsCall, GuardsFollowScope, MutexFollowsScope,
           InCall, InHandler, CallLabels, HandlerLabels, Locked, Guarded
  <2> QED
    BY <2>4, <2>5, <2>6 DEF StepKeepsScopes, Scoped
<1>4. CASE EndSweep(t)
  <2>1. /\ pc[t] = "sweep" /\ pc'[t] = "leave"
        /\ \A w \in Thread \ {t} : pc'[w] = pc[w]
        /\ UNCHANGED <<frame, guards, logFilename>>
        /\ owner' = IF Locked(frame[t].op) THEN NoThread ELSE owner
    BY <1>4, GoToMoves DEF EndSweep, guardVars, fileVars
  <2>2. owner = t <=> Locked(frame[t].op)
    BY <2>1 DEF Scoped, MutexFollowsScope
  <2>3. OthersUntouched(t) /\ NameKept
    BY <2>1, <2>2, LogAssumption DEF OthersUntouched, NameKept, NoThread
  <2> QED
    BY <2>1, <2>2, <2>3, LogAssumption
       DEF StepKeepsScopes, Scoped, FrameFollowsCall, GuardsFollowScope,
           MutexFollowsScope, InCall, InHandler, CallLabels, HandlerLabels,
           NoThread
<1>5. CASE Leave(t)
  <2>1. /\ pc[t] = "leave" /\ pc'[t] = frame[t].ret
        /\ \A w \in Thread \ {t} : pc'[w] = pc[w]
        /\ UNCHANGED <<owner, logFilename>>
    BY <1>5, GoToMoves DEF Leave, mapVars, fileVars
  <2>2. frame'[t] = NoFrame /\ \A w \in Thread \ {t} : frame'[w] = frame[w]
    BY <1>5 DEF Leave, LogTypeOK
  <2>3. \A w \in Thread, x \in Scope : <<w, x>> \in guards' <=>
            /\ <<w, x>> \in guards
            /\ ~(w = t /\ x = "call" /\ Guarded(frame[t].op))
    <3>1. CASE Guarded(frame[t].op)
      BY <1>5, <3>1, GuardOfOne DEF Leave, Scope
    <3>2. CASE ~Guarded(frame[t].op)
      BY <1>5, <3>2 DEF Leave, guardVars
    <3> QED
      BY <3>1, <3>2
  <2>4. OthersUntouched(t) /\ NameKept
    BY <2>1, <2>2, <2>3 DEF OthersUntouched, NameKept
  <2>5. frame[t].ret \in {"idle", "hName", "hReset", "hResume"}
    BY DEF Scoped, FrameFollowsCall
  <2>6. frame'[t].op = "none" /\ frame'[t].ret = "idle"
    BY <2>2 DEF NoFrame, NewFrame
  <2>7. FrameFollowsCall(t)' /\ MutexFollowsScope(t)'
    BY <2>1, <2>2, <2>5, <2>6
       DEF Scoped, FrameFollowsCall, MutexFollowsScope, InCall, CallLabels,
           Operation
  <2>8. GuardsFollowScope(t)'
    BY <2>1, <2>3, <2>5, <2>6
       DEF Scoped, GuardsFollowScope, InCall, InHandler, CallLabels,
           HandlerLabels, Scope
  <2> QED
    BY <2>4, <2>7, <2>8 DEF StepKeepsScopes, Scoped
<1>6. ASSUME NEW u \in nodes,
             \/ ResetList(t, u) \/ ReleaseList(t, u)
             \/ CountList(t, u) \/ WriteList(t, u)
      PROVE  StepKeepsScopes(t)
  <2>1. UNCHANGED <<pc, guards, owner, logFilename>>
    BY <1>6 DEF ResetList, ReleaseList, CountList, WriteList, guardVars,
                mapVars, fileVars
  <2>2. /\ frame'[t].op = frame[t].op
        /\ frame'[t].ret = frame[t].ret
        /\ frame'[t].target = frame[t].target
        /\ \A w \in Thread \ {t} : frame'[w] = frame[w]
    <3>1. frame[t] \in Frame
      BY DEF LogTypeOK
    <3>2. CASE frame' = [frame EXCEPT ![t].cursor = u]
      BY <3>1, <3>2 DEF LogTypeOK, Frame
    <3>3. CASE CountList(t, u)
      BY <3>1, <3>3 DEF CountList, LogTypeOK, Frame
    <3> QED
      BY <1>6, <3>2, <3>3 DEF ResetList, ReleaseList, WriteList
  <2>3. pc[t] = "sweep"
    BY <1>6 DEF ResetList, ReleaseList, CountList, WriteList, Visits
  <2>4. OthersUntouched(t) /\ NameKept
    BY <2>1, <2>2 DEF OthersUntouched, NameKept
  <2> QED
    BY <2>1, <2>2, <2>3, <2>4
       DEF StepKeepsScopes, Scoped, FrameFollowsCall, GuardsFollowScope,
           MutexFollowsScope, InCall, InHandler, CallLabels, HandlerLabels
<1> QED
  BY <1>1, <1>2, <1>3, <1>4, <1>5, <1>6 DEF Operating

LEMMA UserScopes ==
    ASSUME Inv, NEW t \in Thread, UserCall(t) \/ ResumeScope(t)
    PROVE  StepKeepsScopes(t)
<1> USE DEF Inv
<1>1. ASSUME NEW level \in Logs[t], Log(t, level)
      PROVE  StepKeepsScopes(t)
  <2>1. /\ \E to \in Outside : GoTo(t, "idle", to)
        /\ UNCHANGED <<frame, guards, owner, logFilename>>
    BY <1>1 DEF Log, Outside, LogLabels, guardVars, mapVars, fileVars
  <2> QED
    BY <2>1, GoToMoves, MovesOutside DEF OnlyMoves, Outside
<1>2. ASSUME NEW o \in Operation, CallOperation(t, o)
      PROVE  StepKeepsScopes(t)
  <2>1. /\ pc[t] = "idle" /\ Call(t, o, "idle")
        /\ UNCHANGED <<guards, owner, logFilename>>
    BY <1>2 DEF CallOperation, May, guardVars, mapVars, fileVars
  <2>2. ~InCall(t) /\ <<t, "handler">> \notin guards
    BY <2>1 DEF InCall, CallLabels, Scoped, GuardsFollowScope, InHandler,
                HandlerLabels
  <2> QED
    BY <2>1, <2>2, CallKeepsScopes DEF NameKept, HandlerLabels
<1>3. CASE SuspendScope(t) \/ ResumeScope(t)
  <2>1. UNCHANGED <<pc, frame, owner, logFilename>>
    BY <1>3 DEF SuspendScope, ResumeScope, mapVars, fileVars
  <2>2. \A w \in Thread, x \in Scope :
            w # t \/ x # "user" => (<<w, x>> \in guards' <=> <<w, x>> \in guards)
    BY <1>3, GuardOfOne DEF SuspendScope, ResumeScope, Scope
  <2> QED
    BY <2>1, <2>2
       DEF StepKeepsScopes, OthersUntouched, NameKept, Scoped,
           FrameFollowsCall, GuardsFollowScope, MutexFollowsScope, InCall,
           InHandler, Scope
<1>4. CASE ReuseThreadId(t) \/ Configuring(t)
  <2>1. UNCHANGED <<pc, frame, guards, owner, logFilename>>
    BY <1>4, ConfiguringType
       DEF ReuseThreadId, guardVars, mapVars, fileVars
  <2> QED
    BY <2>1
       DEF StepKeepsScopes, OthersUntouched, NameKept, Scoped,
           FrameFollowsCall, GuardsFollowScope, MutexFollowsScope, InCall,
           InHandler
<1> QED
  BY <1>1, <1>2, <1>3, <1>4 DEF UserCall

-----------------------------------------------------------------------------
(* The invariant                                                            *)

LEMMA InvInit == Init => Inv
<1> SUFFICES ASSUME Init
             PROVE  Inv
  OBVIOUS
<1>1. LogTypeOK
  <2>1. /\ callbackMap \in [LogLevel -> {"none", "levelHandler", "user"}]
        /\ outStreams \subseteq LogLevel
        /\ policies \subseteq Policy
    BY DEF Init, DefaultCallbacks, DefaultStreams, LogLevel, Policy
  <2>2. entry \in [Thread -> Entry]
    BY LogAssumption DEF Init, Entry, LogLevel
  <2>3. frame \in [Thread -> Frame] /\ pc \in [Thread -> Label]
    BY FrameFacts, LabelFacts DEF Init
  <2>4. lists \in [Thread -> Seq(Entry)] /\ files \in [FileName -> Seq(Entry)]
    BY DEF Init
  <2>5. logFolder \in Folder
    BY LogAssumption DEF Init, Folder
  <2> QED
    BY <2>1, <2>2, <2>3, <2>4, <2>5 DEF Init, LogTypeOK
<1>2. ASSUME NEW t \in Thread
      PROVE  Scoped(t)
  <2>1. pc[t] = "idle" /\ frame[t] = NoFrame /\ owner = NoThread /\ guards = {}
    BY DEF Init, SL!Init
  <2>2. frame[t].op = "none" /\ frame[t].ret = "idle"
    BY <2>1 DEF NoFrame, NewFrame
  <2> QED
    BY <2>1, <2>2, LogAssumption
       DEF Scoped, FrameFollowsCall, GuardsFollowScope, MutexFollowsScope,
           InCall, InHandler, CallLabels, HandlerLabels, Operation, NoThread
<1> QED
  BY <1>1, <1>2 DEF Inv

LEMMA AnyStepKeepsScopes ==
    ASSUME Inv, NEW t \in Thread, Run(t) \/ UserCall(t)
    PROVE  StepKeepsScopes(t)
  BY LoggingScopes, LevelHandlerScopes, OperatingScopes, UserScopes DEF Run

\* A step of t as the lemmas on the entries need it.
Steady(t) == OthersUntouched(t) /\ NameKept /\ FrameFollowsCall(t)'

LEMMA StepSteady ==
    ASSUME Inv, NEW t \in Thread, Run(t) \/ UserCall(t)
    PROVE  Placed /\ MutexFollowsScopes /\ Steady(t)
  BY InvPlaced, AnyStepKeepsScopes
     DEF Inv, Scoped, MutexFollowsScopes, StepKeepsScopes, Steady

LEMMA InvStep == Inv /\ [Next]_vars => Inv'
<1> SUFFICES ASSUME Inv, [Next]_vars
             PROVE  Inv'
  OBVIOUS
<1>1. LogTypeOK'
  BY TypeStep
<1>2. ASSUME NEW t \in Thread, Run(t) \/ UserCall(t)
      PROVE  \A w \in Thread : Scoped(w)'
  <2>1. StepKeepsScopes(t)
    BY <1>2, AnyStepKeepsScopes
  <2>2. ASSUME NEW w \in Thread \ {t}
        PROVE  Scoped(w)'
    BY <2>1, OthersStayScoped DEF StepKeepsScopes
  <2> QED
    BY <2>1, <2>2 DEF StepKeepsScopes
<1>3. ASSUME UNCHANGED vars
      PROVE  \A w \in Thread : Scoped(w)'
  BY <1>3
     DEF vars, guardVars, mapVars, fileVars, Inv, Scoped, FrameFollowsCall,
         GuardsFollowScope, MutexFollowsScope, InCall, InHandler
<1> QED
  BY <1>1, <1>2, <1>3 DEF Inv, Next, Rest

\* Every reachable state is one the invariant describes.
THEOREM Invariance == Spec => []Inv
  BY InvInit, InvStep, PTL DEF Spec

\* A SuspendLogging guard is alive exactly while its thread is in the scope that
\* declares it, on every path of Log.cpp.
THEOREM GuardsCorrect == Spec => []GuardsFollowScopes
<1>1. Inv => GuardsFollowScopes
  BY DEF Inv, Scoped, GuardsFollowScopes
<1> QED
  BY <1>1, Invariance, PTL

\* Log::Mutex is held exactly by a thread that inserts its list or sweeps under
\* the lock.
THEOREM MutexCorrect == Spec => []MutexFollowsScopes
<1>1. Inv => MutexFollowsScopes
  BY DEF Inv, Scoped, MutexFollowsScopes
<1> QED
  BY <1>1, Invariance, PTL
=============================================================================
