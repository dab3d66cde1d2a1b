-------------------------------- MODULE Log --------------------------------
(***************************************************************************)
(* The logging core of src/src/Log.cpp as its threads run it: one action   *)
(* per step between two accesses to shared state, so that the steps of     *)
(* several threads interleave where they do in the program.                *)
(*                                                                         *)
(* A thread is in a label of pc.  Log::log is the labels LogLabels, the    *)
(* default callback logLevelHandler the labels HandlerLabels, and the      *)
(* operations on the whole log-thread map share the labels CallLabels;     *)
(* frame[t] holds the locals of the operation t executes and the label it  *)
(* returns to.  A thread at "idle" is in the user's code.                  *)
(***************************************************************************)
EXTENDS Naturals, FiniteSets, SequencesExt

CONSTANTS
    Thread,       \* thread ids, ordered as the keys of LogThreadMap are
    Logs,         \* Logs[t]: the levels t logs at
    Calls,        \* Calls[t]: the other calls t makes
    CallbackOps,  \* the operations a user's own callback may call
    Folders,      \* the folders passed to applyDefaultConfiguration
    Configured,   \* the program configures logging before it starts threads
    Format,       \* EASY_EXCEPTION_OUTPUT_FORMAT, "String" or "Json"
    Openable,     \* the results file.is_open() may have in writeToFile
    MaxNumber,    \* the limit of the LogRetentionMaxNumber policy
    Fresh,        \* so many newest entries of a list are never too old
    CounterMod,   \* 2^16, the range of SuspendLoggingCounter
    MaxLogs,      \* bound: calls of Log::log per thread
    MaxCalls      \* bound: other calls per thread

LogLevel == {"Trace", "Info", "Warning", "Error", "Fatal"}

\* The operations that go through all lists of the map.
Operation == {"reset", "releaseLogs", "countLogLevels",
              "getNumberOfLogEntries", "writeToFile"}

Policy == {"OlderThan", "MaxNumber"}

\* Where a SuspendLogging object of a thread lives: in the user's code, in
\* logLevelHandler, in an operation of Log.
Scope == {"user", "handler", "call"}

ASSUME LogAssumption ==
    /\ Thread \subseteq Nat \ {0}
    /\ IsFiniteSet(Thread)
    /\ Logs \in [Thread -> SUBSET LogLevel]
    /\ CallbackOps \subseteq Operation
    /\ Configured \in BOOLEAN
    /\ Format \in {"String", "Json"}
    /\ Openable \subseteq BOOLEAN
    /\ {MaxNumber, Fresh, MaxLogs, MaxCalls} \subseteq Nat

\* Three scopes of each thread are far fewer than the counter can count.
ASSUME CounterAssumption ==
    /\ CounterMod \in Nat
    /\ Cardinality(Thread \X Scope) < CounterMod

NoThread == 0

\* logFolder is empty until the program configures logging.
NoFolder == ""
Folder == IF Configured THEN Folders ELSE Folders \union {NoFolder}

NoFile == <<>>                              \* the empty file name
LogFile(folder, t, id) == <<folder, t, id>> \* the name t made when it handled
                                            \* its entry number id
UserFile == <<"user">>                      \* a file named by the user
FileName == {UserFile} \union
              {LogFile(f, t, id) : f \in Folder, t \in Thread, id \in 0 .. MaxLogs}

Entry == [thread : Thread, id : 0 .. MaxLogs, level : LogLevel]

LogLabels == {"lockMap", "insert", "check", "append", "streamCount",
              "streamWrite", "callbackCount", "invoke"}
HandlerLabels == {"hSuspend", "hName", "hStamp", "hReset", "hResume"}
CallLabels == {"enter", "lock", "open", "sweep", "leave"}
Label == {"idle", "terminate"} \union LogLabels \union HandlerLabels
           \union CallLabels

Frame == [op : Operation \union {"none"}, ret : Label,
          cursor : Thread \union {NoThread}, acc : Nat,
          target : FileName \union {NoFile}]
NewFrame(o, r) == [op |-> o, ret |-> r, cursor |-> NoThread, acc |-> 0,
                   target |-> NoFile]
NoFrame == NewFrame("none", "idle")

VARIABLES
    counter,      \* SuspendLoggingCounter
    guards,       \* the SuspendLogging objects alive, <<thread, scope>>
    owner,        \* the thread that holds Mutex
    nodes,        \* the keys of LogThreadMap
    lists,        \* the lists of LogThreadMap
    pList,        \* pList[t]: the thread_local pointer of t is set
    callbackMap,  \* CallbackMap: "none", "levelHandler" or "user"
    outStreams,   \* the keys of OutStreamMap
    policies,     \* LogRetentionPolicies
    logFolder,    \* logFolder
    logFilename,  \* logFilename
    files,        \* the contents of the log files
    pc,           \* where each thread is
    frame,        \* the operation each thread executes
    entry,        \* the latest entry each thread logs
    calls         \* how many other calls each thread made

guardVars == <<counter, guards>>
mapVars == <<owner, nodes, lists, pList>>
configVars == <<callbackMap, outStreams, policies, logFolder>>
fileVars == <<logFilename, files>>
vars == <<guardVars, mapVars, configVars, fileVars, pc, frame, entry, calls>>

SL == INSTANCE SuspendLogging WITH Guard <- Thread \X Scope
Store == INSTANCE LogStore

\* Mutant: no handler is registered for warnings.
DefaultCallbacksWithoutWarning ==
    [l \in LogLevel |-> IF l \in {"Error", "Fatal"} THEN "levelHandler" ELSE "none"]

DefaultCallbacks ==
    [l \in LogLevel |-> IF l \in {"Warning", "Error", "Fatal"}
                        THEN "levelHandler" ELSE "none"]
DefaultStreams == {"Info", "Warning", "Error", "Fatal"}

Init ==
    /\ SL!Init
    /\ owner = NoThread
    /\ nodes = {}
    /\ lists = [t \in Thread |-> <<>>]
    /\ pList = [t \in Thread |-> FALSE]
    /\ logFilename = NoFile
    /\ files = [f \in FileName |-> <<>>]
    /\ pc = [t \in Thread |-> "idle"]
    /\ frame = [t \in Thread |-> NoFrame]
    /\ entry = [t \in Thread |-> [thread |-> t, id |-> 0, level |-> "Trace"]]
    /\ calls = [t \in Thread |-> 0]
    /\ IF Configured
       THEN /\ logFolder \in Folders
            /\ callbackMap = DefaultCallbacks
            /\ outStreams = DefaultStreams
            /\ policies = {"OlderThan"}
       ELSE /\ logFolder = NoFolder
            /\ callbackMap = [l \in LogLevel |-> "none"]
            /\ outStreams = {}
            /\ policies = {}

GoTo(t, from, to) ==
    /\ pc[t] = from
    /\ pc' = [pc EXCEPT ![t] = to]

\* Mutex is recursive: its owner may lock it again.
Acquire(t) ==
    /\ owner \in {NoThread, t}
    /\ owner' = t

-----------------------------------------------------------------------------
(* Log::log                                                                 *)

Log(t, level) ==
    /\ GoTo(t, "idle", IF pList[t] THEN "check" ELSE "lockMap")
    /\ entry[t].id < MaxLogs
    /\ entry' = [entry EXCEPT ![t] =
                   [thread |-> t, id |-> entry[t].id + 1, level |-> level]]
    /\ UNCHANGED <<guardVars, mapVars, configVars, fileVars, frame, calls>>

LockMap(t) ==
    /\ GoTo(t, "lockMap", "insert")
    /\ Acquire(t)
    /\ UNCHANGED <<guardVars, nodes, lists, pList, configVars, fileVars,
                   frame, entry, calls>>

\* operator[] finds the list of this thread id or makes an empty one.
InsertList(t) ==
    /\ GoTo(t, "insert", "check")
    /\ nodes' = nodes \union {t}
    /\ pList' = [pList EXCEPT ![t] = TRUE]
    /\ owner' = NoThread
    /\ UNCHANGED <<guardVars, lists, configVars, fileVars, frame, entry, calls>>

\* Mutant: entries are stored while logging is suspended.
CheckNothing(t) ==
    /\ GoTo(t, "check", "append")
    /\ UNCHANGED <<guardVars, mapVars, configVars, fileVars, frame, entry, calls>>

Check(t) ==
    /\ GoTo(t, "check", IF SL!Suspended THEN "idle" ELSE "append")
    /\ UNCHANGED <<guardVars, mapVars, configVars, fileVars, frame, entry, calls>>

\* No lock is held, and the counter may have changed since Check.
EmplaceBack(t) ==
    /\ GoTo(t, "append", "streamCount")
    /\ lists' = [lists EXCEPT ![t] = Append(@, entry[t])]
    /\ UNCHANGED <<guardVars, owner, nodes, pList, configVars, fileVars,
                   frame, entry, calls>>

\* Mutant: at() without count().
StreamWithoutCount(t) ==
    /\ GoTo(t, "streamCount", "streamWrite")
    /\ UNCHANGED <<guardVars, mapVars, configVars, fileVars, frame, entry, calls>>

StreamCount(t) ==
    /\ GoTo(t, "streamCount", IF entry[t].level \in outStreams
                              THEN "streamWrite" ELSE "callbackCount")
    /\ UNCHANGED <<guardVars, mapVars, configVars, fileVars, frame, entry, calls>>

\* at() throws when the stream was removed since count(), and log is noexcept.
StreamWrite(t) ==
    /\ GoTo(t, "streamWrite", IF entry[t].level \in outStreams
                              THEN "callbackCount" ELSE "terminate")
    /\ UNCHANGED <<guardVars, mapVars, configVars, fileVars, frame, entry, calls>>

CallbackCount(t) ==
    /\ GoTo(t, "callbackCount", IF callbackMap[entry[t].level] = "none"
                                THEN "idle" ELSE "invoke")
    /\ UNCHANGED <<guardVars, mapVars, configVars, fileVars, frame, entry, calls>>

\* Calls operation o and continues at label r when it returns.
Call(t, o, r) ==
    /\ frame' = [frame EXCEPT ![t] = NewFrame(o, r)]
    /\ pc' = [pc EXCEPT ![t] = "enter"]

\* at() throws when the callback was removed since count().  A user's callback
\* may call an operation, or nothing of this library.
Invoke(t) ==
    /\ pc[t] = "invoke"
    /\ LET callback == callbackMap[entry[t].level]
       IN  \/ /\ callback = "none"
              /\ GoTo(t, "invoke", "terminate")
              /\ frame' = frame
           \/ /\ callback = "levelHandler"
              /\ GoTo(t, "invoke", "hSuspend")
              /\ frame' = frame
           \/ /\ callback = "user"
              /\ \/ GoTo(t, "invoke", "idle") /\ frame' = frame
                 \/ \E o \in CallbackOps : Call(t, o, "idle")
    /\ UNCHANGED <<guardVars, mapVars, configVars, fileVars, entry, calls>>

-----------------------------------------------------------------------------
(* logLevelHandler                                                          *)

\* Mutant: the handler relies on the guards of the operations it calls.
HandleUnguarded(t) ==
    /\ pc[t] = "hSuspend"
    /\ Call(t, "releaseLogs", "hName")
    /\ UNCHANGED <<guardVars, mapVars, configVars, fileVars, entry, calls>>

HSuspend(t) ==
    /\ pc[t] = "hSuspend"
    /\ SL!Construct(<<t, "handler">>)
    /\ Call(t, "releaseLogs", "hName")
    /\ UNCHANGED <<mapVars, configVars, fileVars, entry, calls>>

\* Mutant: only the call that makes the name writes the file.
WriteOnlyOnce(t) ==
    /\ GoTo(t, "hName", IF logFilename = NoFile THEN "hStamp" ELSE "hReset")
    /\ UNCHANGED <<guardVars, mapVars, configVars, fileVars, frame, entry, calls>>

HName(t) ==
    /\ pc[t] = "hName"
    /\ \/ /\ logFilename = NoFile
          /\ GoTo(t, "hName", "hStamp")
          /\ frame' = frame
       \/ /\ logFilename # NoFile
          /\ Call(t, "writeToFile", "hReset")
    /\ UNCHANGED <<guardVars, mapVars, configVars, fileVars, entry, calls>>

\* The name is made of the microsecond t reads: no two of them are the same.
HStamp(t) ==
    /\ pc[t] = "hStamp"
    /\ logFilename' = LogFile(logFolder, t, entry[t].id)
    /\ Call(t, "writeToFile", "hReset")
    /\ UNCHANGED <<guardVars, mapVars, configVars, files, entry, calls>>

\* Mutant: the log cache is not cleared.
ResetNothing(t) ==
    /\ GoTo(t, "hReset", "hResume")
    /\ UNCHANGED <<guardVars, mapVars, configVars, fileVars, frame, entry, calls>>

\* The result of writeToFile is ignored.
HReset(t) ==
    /\ pc[t] = "hReset"
    /\ Call(t, "reset", "hResume")
    /\ UNCHANGED <<guardVars, mapVars, configVars, fileVars, entry, calls>>

\* Mutant: the guard of the handler is never destroyed.
ResumeNothing(t) ==
    /\ GoTo(t, "hResume", "idle")
    /\ UNCHANGED <<guardVars, mapVars, configVars, fileVars, frame, entry, calls>>

HResume(t) ==
    /\ GoTo(t, "hResume", "idle")
    /\ SL!Destroy(<<t, "handler">>)
    /\ UNCHANGED <<mapVars, configVars, fileVars, frame, entry, calls>>

-----------------------------------------------------------------------------
(* The operations on the log-thread map                                     *)

Guarded(op) == op # "getNumberOfLogEntries"     \* constructs a SuspendLogging
Locked(op) == op # "writeToFile"                \* holds Mutex while it sweeps

Enter(t) ==
    /\ GoTo(t, "enter", CASE Locked(frame[t].op) -> "lock"
                          [] ~Locked(frame[t].op) /\ Format = "String" -> "open"
                          [] OTHER -> "leave")
    /\ IF Guarded(frame[t].op) THEN SL!Construct(<<t, "call">>)
                               ELSE UNCHANGED guardVars
    /\ UNCHANGED <<mapVars, configVars, fileVars, frame, entry, calls>>

\* Mutant: the mutex is not locked.
LockNothing(t) ==
    /\ GoTo(t, "lock", "sweep")
    /\ UNCHANGED <<guardVars, mapVars, configVars, fileVars, frame, entry, calls>>

Lock(t) ==
    /\ GoTo(t, "lock", "sweep")
    /\ Acquire(t)
    /\ UNCHANGED <<guardVars, nodes, lists, pList, configVars, fileVars,
                   frame, entry, calls>>

\* The handler passes logFilename by reference: it is read here.
Open(t) ==
    /\ \E isOpen \in Openable :
         GoTo(t, "open", IF isOpen THEN "sweep" ELSE "leave")
    /\ frame' = [frame EXCEPT ![t].target =
                   IF frame[t].ret = "hReset" THEN logFilename ELSE UserFile]
    /\ UNCHANGED <<guardVars, mapVars, configVars, fileVars, entry, calls>>

\* u is the next list in the order of the map.
IsNext(t, u) ==
    /\ frame[t].cursor < u
    /\ \A w \in nodes : w <= frame[t].cursor \/ u <= w

\* What OlderThan leaves of a list of n.  It compares dates, and the clock may
\* have been set back since: it may refuse any entry but the Fresh newest.
Young(n) ==
    IF "OlderThan" \in policies
    THEN {h \in Store!Ascending(n) :
             \A k \in 1 .. n : k + Fresh > n => \E i \in DOMAIN h : h[i] = k}
    ELSE {[i \in 1 .. n |-> i]}

\* MaxNumber counts, from the youngest on, what OlderThan does not refuse.
Youngest(h) ==
    IF "MaxNumber" \in policies /\ Len(h) > MaxNumber
    THEN SubSeq(h, Len(h) - MaxNumber + 1, Len(h))
    ELSE h

\* The registered policies are asked for each entry: what may be left of s.
Retained(s) == {Store!Selected(s, Youngest(h)) : h \in Young(Len(s))}

\* The step of operation op of t on the list of u.
Visits(t, u, op) ==
    /\ pc[t] = "sweep"
    /\ frame[t].op = op
    /\ IsNext(t, u)

\* Mutant: reset takes the lists out of the map.
EraseList(t, u) ==
    /\ Visits(t, u, "reset")
    /\ frame' = [frame EXCEPT ![t].cursor = u]
    /\ lists' = [lists EXCEPT ![u] = <<>>]
    /\ nodes' = nodes \ {u}
    /\ UNCHANGED <<guardVars, owner, pList, configVars, fileVars, pc, entry, calls>>

ResetList(t, u) ==
    /\ Visits(t, u, "reset")
    /\ frame' = [frame EXCEPT ![t].cursor = u]
    /\ lists' = [lists EXCEPT ![u] = <<>>]
    /\ UNCHANGED <<guardVars, owner, nodes, pList, configVars, fileVars, pc,
                   entry, calls>>

ReleaseList(t, u) ==
    /\ Visits(t, u, "releaseLogs")
    /\ frame' = [frame EXCEPT ![t].cursor = u]
    /\ \E kept \in Retained(lists[u]) : lists' = [lists EXCEPT ![u] = kept]
    /\ UNCHANGED <<guardVars, owner, nodes, pList, configVars, fileVars, pc,
                   entry, calls>>

\* Mutant: entries are taken off the count.
CountDown(t, u) ==
    /\ \/ Visits(t, u, "countLogLevels")
       \/ Visits(t, u, "getNumberOfLogEntries")
    /\ frame' = [frame EXCEPT ![t].cursor = u,
                              ![t].acc = frame[t].acc - Len(lists[u])]
    /\ UNCHANGED <<guardVars, mapVars, configVars, fileVars, pc, entry, calls>>

CountList(t, u) ==
    /\ \/ Visits(t, u, "countLogLevels")
       \/ Visits(t, u, "getNumberOfLogEntries")
    /\ frame' = [frame EXCEPT ![t].cursor = u,
                              ![t].acc = frame[t].acc + Len(lists[u])]
    /\ UNCHANGED <<guardVars, mapVars, configVars, fileVars, pc, entry, calls>>

WriteList(t, u) ==
    /\ Visits(t, u, "writeToFile")
    /\ frame' = [frame EXCEPT ![t].cursor = u]
    /\ files' = [files EXCEPT ![frame[t].target] = @ \o lists[u]]
    /\ UNCHANGED <<guardVars, mapVars, configVars, logFilename, pc, entry, calls>>

\* Mutant: the mutex is not unlocked.
EndSweepLocked(t) ==
    /\ GoTo(t, "sweep", "leave")
    /\ \A u \in nodes : u <= frame[t].cursor
    /\ UNCHANGED <<guardVars, mapVars, configVars, fileVars, frame, entry, calls>>

\* Past the last list: the mutex is unlocked or the file closed.
EndSweep(t) ==
    /\ GoTo(t, "sweep", "leave")
    /\ \A u \in nodes : u <= frame[t].cursor
    /\ owner' = IF Locked(frame[t].op) THEN NoThread ELSE owner
    /\ UNCHANGED <<guardVars, nodes, lists, pList, configVars, fileVars,
                   frame, entry, calls>>

\* Mutant: the early returns of writeToFile leave the guard behind.
LeaveSuspended(t) ==
    /\ GoTo(t, "leave", frame[t].ret)
    /\ IF Guarded(frame[t].op) /\ (Locked(frame[t].op) \/ frame[t].cursor # NoThread)
       THEN SL!Destroy(<<t, "call">>)
       ELSE UNCHANGED guardVars
    /\ frame' = [frame EXCEPT ![t] = NoFrame]
    /\ UNCHANGED <<mapVars, configVars, fileVars, entry, calls>>

\* Mutant: an operation without a guard decrements the counter as well.
LeaveResuming(t) ==
    /\ GoTo(t, "leave", frame[t].ret)
    /\ SL!Destroy(<<t, "call">>)
    /\ frame' = [frame EXCEPT ![t] = NoFrame]
    /\ UNCHANGED <<mapVars, configVars, fileVars, entry, calls>>

\* The guard is destroyed and the locals are gone.
Leave(t) ==
    /\ GoTo(t, "leave", frame[t].ret)
    /\ IF Guarded(frame[t].op) THEN SL!Destroy(<<t, "call">>)
                               ELSE UNCHANGED guardVars
    /\ frame' = [frame EXCEPT ![t] = NoFrame]
    /\ UNCHANGED <<mapVars, configVars, fileVars, entry, calls>>

-----------------------------------------------------------------------------
(* The user's other calls                                                   *)

May(t, call) ==
    /\ pc[t] = "idle"
    /\ call \in Calls[t]
    /\ calls[t] < MaxCalls
    /\ calls' = [calls EXCEPT ![t] = @ + 1]

CallOperation(t, o) ==
    /\ May(t, o)
    /\ Call(t, o, "idle")
    /\ UNCHANGED <<guardVars, mapVars, configVars, fileVars, entry>>

SuspendScope(t) ==
    /\ May(t, "SuspendLogging")
    /\ <<t, "user">> \notin guards
    /\ SL!Construct(<<t, "user">>)
    /\ UNCHANGED <<mapVars, configVars, fileVars, pc, frame, entry>>

\* The end of the block that declares the guard.
ResumeScope(t) ==
    /\ pc[t] = "idle"
    /\ <<t, "user">> \in guards
    /\ SL!Destroy(<<t, "user">>)
    /\ UNCHANGED <<mapVars, configVars, fileVars, pc, frame, entry, calls>>

\* t ends and a new thread gets its id: the list remains, the pointer is new.
ReuseThreadId(t) ==
    /\ May(t, "exit")
    /\ <<t, "user">> \notin guards
    /\ pList' = [pList EXCEPT ![t] = FALSE]
    /\ UNCHANGED <<guardVars, owner, nodes, lists, configVars, fileVars,
                   pc, frame, entry>>

Configure(t) == UNCHANGED <<guardVars, mapVars, fileVars, pc, frame, entry>>

RegisterCallback(t, l) ==
    /\ May(t, "registerCallback")
    /\ callbackMap' = [callbackMap EXCEPT ![l] = "user"]
    /\ UNCHANGED <<outStreams, policies, logFolder>>
    /\ Configure(t)

RemoveCallbacks(t) ==
    /\ May(t, "removeCallbacks")
    /\ callbackMap' = [l \in LogLevel |-> "none"]
    /\ UNCHANGED <<outStreams, policies, logFolder>>
    /\ Configure(t)

RegisterOutstream(t, l) ==
    /\ May(t, "registerOutstream")
    /\ outStreams' = outStreams \union {l}
    /\ UNCHANGED <<callbackMap, policies, logFolder>>
    /\ Configure(t)

RemoveOutstreams(t) ==
    /\ May(t, "removeOutstreams")
    /\ outStreams' = {}
    /\ UNCHANGED <<callbackMap, policies, logFolder>>
    /\ Configure(t)

RegisterLogRetentionPolicy(t, p) ==
    /\ May(t, "registerLogRententionPolicy")
    /\ policies' = policies \union {p}
    /\ UNCHANGED <<callbackMap, outStreams, logFolder>>
    /\ Configure(t)

RemoveLogRetentionPolicies(t) ==
    /\ May(t, "removeLogRetentionPolicies")
    /\ policies' = {}
    /\ UNCHANGED <<callbackMap, outStreams, logFolder>>
    /\ Configure(t)

\* The signal and terminate handlers it also installs are not in this module.
ApplyDefaultConfiguration(t, folder) ==
    /\ May(t, "applyDefaultConfiguration")
    /\ outStreams' = outStreams \union DefaultStreams
    /\ logFolder' = folder
    /\ callbackMap' = [l \in LogLevel |-> IF DefaultCallbacks[l] = "none"
                                          THEN callbackMap[l]
                                          ELSE DefaultCallbacks[l]]
    /\ policies' = policies \union {"OlderThan"}
    /\ Configure(t)

-----------------------------------------------------------------------------
Logging(t) ==
    \/ LockMap(t) \/ InsertList(t) \/ Check(t) \/ EmplaceBack(t)
    \/ StreamCount(t) \/ StreamWrite(t) \/ CallbackCount(t) \/ Invoke(t)

LevelHandler(t) ==
    \/ HSuspend(t) \/ HName(t) \/ HStamp(t) \/ HReset(t) \/ HResume(t)

Operating(t) ==
    \/ Enter(t) \/ Lock(t) \/ Open(t) \/ EndSweep(t) \/ Leave(t)
    \/ \E u \in nodes : \/ ResetList(t, u) \/ ReleaseList(t, u)
                        \/ CountList(t, u) \/ WriteList(t, u)

\* The steps t takes once it has called, and the end of a scope it opened.
Run(t) == Logging(t) \/ LevelHandler(t) \/ Operating(t) \/ ResumeScope(t)

Configuring(t) ==
    \/ \E l \in LogLevel : RegisterCallback(t, l) \/ RegisterOutstream(t, l)
    \/ \E p \in Policy : RegisterLogRetentionPolicy(t, p)
    \/ \E folder \in Folders : ApplyDefaultConfiguration(t, folder)
    \/ RemoveCallbacks(t) \/ RemoveOutstreams(t) \/ RemoveLogRetentionPolicies(t)

UserCall(t) ==
    \/ \E level \in Logs[t] : Log(t, level)
    \/ \E o \in Operation : CallOperation(t, o)
    \/ SuspendScope(t) \/ ReuseThreadId(t) \/ Configuring(t)

\* A thread may be in the user's code, or in std::terminate, for ever.
Rest ==
    /\ \A t \in Thread : pc[t] \in {"idle", "terminate"}
    /\ UNCHANGED vars

Next == (\E t \in Thread : Run(t) \/ UserCall(t)) \/ Rest

Spec == Init /\ [][Next]_vars

\* The operating system runs every thread that can run, and gives the mutex to
\* a thread that waits for it.
FairSpec == Spec /\ \A t \in Thread : WF_vars(Run(t))

-----------------------------------------------------------------------------
(* Invariants                                                               *)

LogTypeOK ==
    /\ owner \in Thread \union {NoThread}
    /\ nodes \subseteq Thread
    /\ lists \in [Thread -> Seq(Entry)]
    /\ pList \in [Thread -> BOOLEAN]
    /\ callbackMap \in [LogLevel -> {"none", "levelHandler", "user"}]
    /\ outStreams \subseteq LogLevel
    /\ policies \subseteq Policy
    /\ logFolder \in Folder
    /\ logFilename \in FileName \union {NoFile}
    /\ files \in [FileName -> Seq(Entry)]
    /\ pc \in [Thread -> Label]
    /\ frame \in [Thread -> Frame]
    /\ entry \in [Thread -> Entry]
    /\ calls \in [Thread -> Nat]

TypeOK == SL!TypeOK /\ LogTypeOK

InCall(t) == pc[t] \in CallLabels

\* t is between the first and the last line of logLevelHandler.
InHandler(t) ==
    \/ pc[t] \in HandlerLabels \ {"hSuspend"}
    \/ InCall(t) /\ frame[t].ret \in HandlerLabels

\* A guard is alive exactly while its thread is in the scope that declares it,
\* on every path through an operation, the early returns of writeToFile
\* included.
GuardsFollowScope(t) ==
    /\ <<t, "handler">> \in guards <=> InHandler(t)
    /\ <<t, "call">> \in guards <=>
         InCall(t) /\ pc[t] # "enter" /\ Guarded(frame[t].op)

GuardsFollowScopes == \A t \in Thread : GuardsFollowScope(t)

\* Mutex is held exactly by the thread that inserts its list or sweeps under
\* the lock: no operation returns with it, and none locks it twice.
MutexFollowsScope(t) ==
    owner = t <=> \/ pc[t] = "insert"
                  \/ pc[t] = "sweep" /\ Locked(frame[t].op)

MutexFollowsScopes == \A t \in Thread : MutexFollowsScope(t)

\* When no thread is in a suspending scope logging is on: overlapping handlers,
\* operations and user scopes leave nothing behind in the counter.
NoResidualSuspension ==
    (\A t \in Thread : /\ ~InCall(t) /\ ~InHandler(t)
                       /\ <<t, "user">> \notin guards)
        => ~SL!Suspended

\* A thread inside a suspending scope of its own never gets past the check of
\* Log::log, so the handler cannot be entered again from within itself.
NoOwnEntries ==
    \A t \in Thread :
        (\E s \in Scope : <<t, s>> \in guards)
            => pc[t] \notin {"append", "streamCount", "streamWrite",
                             "callbackCount", "invoke", "hSuspend"}

\* The entries that the lists of the threads of U hold.
HeldEntries(U) == UNION {{u} \X DOMAIN lists[u] : u \in U}

\* A count taken under the mutex is never more than what the lists it has gone
\* through still hold: no reset or release slips in between.
TallyStands ==
    \A t \in Thread :
        pc[t] = "sweep" =>
            frame[t].acc <=
                Cardinality(HeldEntries({u \in nodes : u <= frame[t].cursor}))

\* When reset returns, the caller's list is empty and every other thread has
\* at most one entry: one whose log call was past the check before the reset
\* suspended logging.
ResetEmpties ==
    \A t \in Thread :
        pc[t] = "leave" /\ frame[t].op = "reset" =>
            /\ lists[t] = <<>>
            /\ \A u \in Thread : Len(lists[u]) <= 1

Written(e) == \E f \in FileName : e \in ToSet(files[f])

\* When the handler has cleared the map, the incident that called it is in a
\* log file.
IncidentWritten ==
    \A t \in Thread : pc[t] = "hResume" => Written(entry[t])

\* A log file has the entries of each thread in the order they were logged in,
\* and each of them once.
FileInOrder ==
    \A f \in FileName : \A i, j \in DOMAIN files[f] :
        i < j /\ files[f][i].thread = files[f][j].thread
            => files[f][i].id < files[f][j].id

\* No list of the map is modified by one thread while another one modifies or
\* reads it: sweeps it, or prints the entry log has added to it.
NoListRace ==
    LET Modifies(t) == IF pc[t] = "append" THEN {t}
                       ELSE {u \in nodes : \/ Visits(t, u, "reset")
                                           \/ Visits(t, u, "releaseLogs")}
        Reads(t) == IF pc[t] = "streamWrite" THEN {t}
                    ELSE {u \in nodes : pc[t] = "sweep" /\ IsNext(t, u)}
    IN  \A t \in Thread : \A w \in Thread \ {t} :
            Modifies(t) \intersect (Modifies(w) \union Reads(w)) = {}

-----------------------------------------------------------------------------
(* Programs.  What the log files hold depends on how the library is used:   *)
(* each of these rules one of the losses above out.                         *)

\* The levels the default configuration registers logLevelHandler for.
IncidentLevels == {l \in LogLevel : DefaultCallbacks[l] = "levelHandler"}

\* Of all threads only i logs incidents: no two handlers run at once.
OnlyIncidentThread(i) ==
    \A t \in Thread \ {i} : Logs[t] \intersect IncidentLevels = {}

\* Neither a thread nor a user's callback calls operation o itself.
NobodyCalls(o) ==
    /\ o \notin CallbackOps
    /\ \A t \in Thread : o \notin Calls[t]

\* The log file is written in a format writeToFile knows, and can be opened.
FilesOpen ==
    /\ Format = "String"
    /\ Openable \subseteq {TRUE}

\* No policy releases the newest entry of a list.
NewestStays == Fresh > 0 /\ MaxNumber > 0

-----------------------------------------------------------------------------
(* Properties of steps and of behaviours                                    *)

\* The counter and its guards behave as SuspendLogging objects do: each is
\* constructed once and destroyed once.
SuspensionSpec == SL!Spec

\* The map implements the store its interface promises.
StoreSpec == Store!Spec

\* The reset at the end of a handler loses, of each list, at most the newest
\* entry: everything older has been written to a file.
ResetLosesOnlyStragglers ==
    [][\A t, u \in Thread :
          ResetList(t, u) /\ frame[t].ret = "hResume" =>
              \A i \in 1 .. Len(lists[u]) - 1 : Written(lists[u][i])]_vars

\* The at() of the stream or of the callback of the entry t logs succeeds.
AtSucceeds(t) ==
    /\ pc[t] = "streamWrite" => entry[t].level \in outStreams
    /\ pc[t] = "invoke" => callbackMap[entry[t].level] # "none"

\* An at() of log, which is noexcept, ends in std::terminate only if another
\* thread has removed the streams or the callbacks since the count(): to register
\* some, or to register them again, does no harm.  (An empty std::function, a
\* callback that throws and a lack of memory end log as well; they are left out.)
OnlyRemovalTerminates ==
    [][\A t \in Thread :
          AtSucceeds(t) =>
              \/ AtSucceeds(t)' /\ (pc'[t] = "terminate" => pc[t] = "terminate")
              \/ \E w \in Thread \ {t} : RemoveOutstreams(w) \/ RemoveCallbacks(w)
      ]_vars

\* Every incident is appended to the same log file.
SameLogFile == [][logFilename # NoFile => logFilename' = logFilename]_vars

\* Every call of this library returns (or ends in std::terminate).
CallsReturn ==
    \A t \in Thread : pc[t] # "idle" ~> pc[t] \in {"idle", "terminate"}

\* An incident that was stored reaches a log file.
IncidentReachesFile ==
    \A t \in {w \in Thread : "Warning" \in Logs[w]}, id \in 1 .. MaxLogs :
        (\E i \in DOMAIN lists[t] : /\ lists[t][i].id = id
                                    /\ lists[t][i].level = "Warning")
            ~> Written([thread |-> t, id |-> id, level |-> "Warning"])
=============================================================================
