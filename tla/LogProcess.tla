----------------------------- MODULE LogProcess -----------------------------
(***************************************************************************)
(* The threads of Log in a process that can crash.  After                  *)
(* applyDefaultConfiguration a signal runs signalHandler and               *)
(* std::terminate runs terminateHandler, each on top of whatever its       *)
(* thread was doing: the interrupted code never returns, so its guards are *)
(* never destroyed and a mutex it holds is never unlocked.  Both handlers  *)
(* log a Fatal entry and end the process.                                  *)
(*                                                                         *)
(* Covered: a signal at any label of Log, also in a terminate handler;     *)
(* uncaught exceptions; the out_of_range of a stream or callback another   *)
(* thread has removed; log files that cannot be opened, because            *)
(* findLogFiles never closes its directory and descriptors run out, or     *)
(* because the folder is missing or may not be written to.  Left out: a    *)
(* signal in the middle of a step (in malloc, say, or in a list            *)
(* operation), a signal from outside on top of signalHandler, what other   *)
(* threads do while exit() destroys static objects, and SIGSTOP, which     *)
(* cannot be caught.                                                       *)
(***************************************************************************)
EXTENDS Log

CONSTANTS
    Signalled,    \* the threads that get a signal from outside
    Throwing,     \* the threads an uncaught exception may end
    Descriptors,  \* how many more files and directories the process may open
    FolderOpens,  \* the results file.is_open() may have while a descriptor is left
    UserLogs      \* bound: entries a thread logs before it crashes

\* The crash handlers exist once the program has configured logging.
ASSUME ProcessAssumption ==
    /\ Configured
    /\ Signalled \subseteq Thread
    /\ Throwing \subseteq Thread
    /\ Descriptors \in Nat
    /\ FolderOpens \subseteq Openable
    /\ FolderOpens # {}
    /\ FALSE \in Openable
    /\ UserLogs \in 0 .. MaxLogs

VARIABLES
    mode,     \* what t runs: "user" code, terminateHandler, signalHandler
    pinned,   \* the thread whose interrupted code holds Mutex for ever
    leaked,   \* the descriptors that are never closed
    process,  \* "running" or "exited"
    denied    \* history: the incidents whose file did not open for another
              \* reason than the descriptors

crashVars == <<mode, pinned, leaked, process>>
processVars == <<vars, crashVars, denied>>

ProcessInit ==
    /\ Init
    /\ mode = [t \in Thread |-> "user"]
    /\ pinned = NoThread
    /\ leaked = 0
    /\ process = "running"
    /\ denied = {}

-----------------------------------------------------------------------------
\* t is in writeToFile and has the file open.
Writing(t) == pc[t] = "sweep" /\ frame[t].op = "writeToFile"

DescriptorLeft ==
    leaked + Cardinality({t \in Thread : Writing(t)}) < Descriptors

\* open() fails when the process has used up its descriptors, and may fail when
\* it has not: nothing creates the folder or asks whether it may be written to.
OpenResult(isOpen) ==
    IF DescriptorLeft THEN isOpen \in FolderOpens ELSE ~isOpen

\* logLevelHandler does not look at the result of writeToFile.
Denies(t) ==
    /\ pc[t] = "open" /\ pc'[t] # "sweep"
    /\ frame[t].ret = "hReset"
    /\ DescriptorLeft

\* Mutant: the mutex is not recursive.
MutexNotRecursive(t) == pinned = NoThread

\* Mutant: the crash unlocks the mutex, as unwinding the stack would.
MutexUnwound(t) == owner = NoThread

\* Mutex is recursive: only the crashed thread itself can lock it again.
MutexFree(t) == pinned \in {NoThread, t}

\* A step of Log: what the crash left behind restricts it.
Proceed(t) ==
    /\ Logging(t) \/ LevelHandler(t) \/ Operating(t)
    /\ (owner # t /\ owner' = t) => MutexFree(t)
    /\ pc[t] = "open" => OpenResult(pc'[t] = "sweep")
    /\ denied' = denied \union {e \in {entry[t]} : Denies(t)}
    /\ UNCHANGED crashVars

UserStep(t) ==
    /\ mode[t] = "user"
    /\ UserCall(t) \/ ResumeScope(t)
    /\ entry'[t].id <= UserLogs
    /\ UNCHANGED <<crashVars, denied>>

\* Helper::findLogFiles opens the directory and does not close it, or logs that
\* it could not: a missing folder, or no descriptor left.
FindLogFiles(t) ==
    /\ "findLogFiles" \in Calls[t]
    /\ mode[t] = "user"
    /\ \/ /\ pc[t] = "idle"
          /\ DescriptorLeft
          /\ leaked' = leaked + 1
          /\ UNCHANGED vars
       \/ /\ Log(t, "Warning")
          /\ entry[t].id < UserLogs
          /\ leaked' = leaked
    /\ UNCHANGED <<mode, pinned, process, denied>>

-----------------------------------------------------------------------------
(* Crashes                                                                  *)

\* Mutant: the crash handler appends without attaching its thread to the map.
LogFatalUnattached(t) ==
    /\ entry[t].id < MaxLogs
    /\ entry' = [entry EXCEPT ![t] =
                   [thread |-> t, id |-> entry[t].id + 1, level |-> "Fatal"]]
    /\ pc' = [pc EXCEPT ![t] = "check"]
    /\ frame' = [frame EXCEPT ![t] = NoFrame]
    /\ pinned' = IF owner = t THEN t ELSE pinned
    /\ owner' = IF owner = t THEN NoThread ELSE owner
    /\ leaked' = leaked + (IF Writing(t) THEN 1 ELSE 0)
    /\ UNCHANGED <<guardVars, nodes, lists, pList, configVars, fileVars, calls,
                   process, denied>>

\* Mutant: the crash destroys the guards of its thread, as unwinding would.
LogFatalUnwound(t) ==
    /\ entry[t].id < MaxLogs
    /\ entry' = [entry EXCEPT ![t] =
                   [thread |-> t, id |-> entry[t].id + 1, level |-> "Fatal"]]
    /\ pc' = [pc EXCEPT ![t] = IF pList[t] THEN "check" ELSE "lockMap"]
    /\ frame' = [frame EXCEPT ![t] = NoFrame]
    /\ pinned' = IF owner = t THEN t ELSE pinned
    /\ owner' = IF owner = t THEN NoThread ELSE owner
    /\ leaked' = leaked + (IF Writing(t) THEN 1 ELSE 0)
    /\ guards' = guards \ ({t} \X Scope)
    /\ counter' = Cardinality(guards')
    /\ UNCHANGED <<nodes, lists, pList, configVars, fileVars, calls,
                   process, denied>>

\* Log::log(Fatal, ...) on top of the interrupted stack.
LogFatal(t) ==
    /\ entry[t].id < MaxLogs
    /\ entry' = [entry EXCEPT ![t] =
                   [thread |-> t, id |-> entry[t].id + 1, level |-> "Fatal"]]
    /\ pc' = [pc EXCEPT ![t] = IF pList[t] THEN "check" ELSE "lockMap"]
    /\ frame' = [frame EXCEPT ![t] = NoFrame]
    /\ pinned' = IF owner = t THEN t ELSE pinned
    /\ owner' = IF owner = t THEN NoThread ELSE owner
    /\ leaked' = leaked + (IF Writing(t) THEN 1 ELSE 0)
    /\ UNCHANGED <<guardVars, nodes, lists, pList, configVars, fileVars, calls,
                   process, denied>>

\* A signal from outside interrupts t wherever it is.
Signal(t) ==
    /\ t \in Signalled
    /\ mode[t] # "signal"
    /\ mode' = [mode EXCEPT ![t] = "signal"]
    /\ LogFatal(t)

\* An exception leaves the thread function of t: the stack is not unwound.
Throw(t) ==
    /\ t \in Throwing
    /\ mode[t] = "user"
    /\ pc[t] = "idle"
    /\ mode' = [mode EXCEPT ![t] = "terminate"]
    /\ LogFatal(t)

\* An exception leaves Log::log, which is noexcept.
LeaveNoexcept(t) ==
    /\ pc[t] = "terminate"
    /\ mode' = [mode EXCEPT ![t] = "terminate"]
    /\ LogFatal(t)

\* std::abort at the end of terminateHandler raises SIGABRT, which has a
\* handler, too: a second Fatal entry.
Abort(t) ==
    /\ mode[t] = "terminate"
    /\ pc[t] = "idle"
    /\ mode' = [mode EXCEPT ![t] = "signal"]
    /\ LogFatal(t)

\* exit() at the end of signalHandler.
Exit(t) ==
    /\ mode[t] = "signal"
    /\ pc[t] = "idle"
    /\ process' = "exited"
    /\ UNCHANGED <<vars, mode, pinned, leaked, denied>>

Crashing(t) == LeaveNoexcept(t) \/ Abort(t) \/ Exit(t)

\* What t does by itself once it has called, or crashed.
Continue(t) ==
    /\ process = "running"
    /\ Proceed(t) \/ Crashing(t)

Interrupt(t) ==
    /\ process = "running"
    /\ Signal(t) \/ Throw(t) \/ UserStep(t) \/ FindLogFiles(t)

\* Nothing runs after exit(); before, the threads may be in the user's code.
ProcessRest ==
    /\ process = "exited" \/ \A t \in Thread : pc[t] = "idle" /\ mode[t] = "user"
    /\ UNCHANGED processVars

ProcessNext ==
    \/ \E t \in Thread : Continue(t) \/ Interrupt(t)
    \/ ProcessRest

ProcessSpec == ProcessInit /\ [][ProcessNext]_processVars

\* The operating system runs every thread that can run.
FairProcessSpec ==
    ProcessSpec /\ \A t \in Thread : WF_processVars(Continue(t))

-----------------------------------------------------------------------------
(* Programs, as in Log                                                      *)

\* A thread logs nothing but incidents or none at all; findLogFiles logs a
\* Warning.
IncidentsApart ==
    \A t \in Thread :
        \/ Logs[t] \subseteq IncidentLevels
        \/ /\ Logs[t] \intersect IncidentLevels = {}
           /\ "findLogFiles" \notin Calls[t]

\* Only i logs incidents or crashes: nobody else gets a signal, throws, looks for
\* log files, or prints to streams or calls back what another thread may remove.
OnlyOneCrashes(i) ==
    /\ OnlyIncidentThread(i)
    /\ Signalled \union Throwing \subseteq {i}
    /\ \A w \in Thread \ {i} :
          /\ "findLogFiles" \notin Calls[w]
          /\ \A v \in Thread \ {w} :
                Calls[v] \intersect {"removeOutstreams", "removeCallbacks"} = {}

\* The callbacks remain those of applyDefaultConfiguration.
HandlerStays == NobodyCalls("registerCallback") /\ NobodyCalls("removeCallbacks")

\* Only logLevelHandler clears the log, and only it opens log files.
OnlyHandlerWrites == NobodyCalls("reset") /\ NobodyCalls("writeToFile")

-----------------------------------------------------------------------------
ProcessTypeOK ==
    /\ TypeOK
    /\ mode \in [Thread -> {"user", "terminate", "signal"}]
    /\ pinned \in Thread \union {NoThread}
    /\ leaked \in Nat
    /\ process \in {"running", "exited"}
    /\ denied \subseteq Entry

\* The levels applyDefaultConfiguration registers logLevelHandler for.
Incident(level) == level \in {"Warning", "Error", "Fatal"}

\* A call that logs an incident returns without having written it to a file
\* only if it found logging suspended, or findLogFiles has used up every
\* descriptor, or the folder did not let its own handler open the file.  That
\* holds for the Fatal entries of a crash as well, whatever the crash
\* interrupted: a locked sweep, the handler of another entry, or the log call
\* of the entry before.  (The latest entries of the other threads
\* are no incidents: what two handlers lose is IncidentWritten of Log.)
IncidentAccounted ==
    [][\A t \in Thread :
          /\ Incident(entry[t].level)
          /\ pc[t] \in LogLabels \union HandlerLabels
          /\ pc'[t] = "idle"
          /\ \A w \in Thread \ {t} : ~Incident(entry[w].level)
          => \/ pc[t] = "check" /\ SL!Suspended
             \/ Written(entry[t])
             \/ leaked = Descriptors
             \/ entry[t] \in denied
      ]_processVars

\* While the crash of a thread that held Mutex is handled, the map belongs to
\* it: no other thread inserts a list or sweeps the half-changed lists.
InterruptedSweepExcluded ==
    \A t \in Thread \ {pinned} :
        pinned # NoThread =>
            /\ pc[t] # "insert"
            /\ pc[t] = "sweep" => ~Locked(frame[t].op)

\* A crashed thread ends the process: neither the mutex it held itself, nor
\* threads that hold it and go on, nor a second crash inside a crash handler
\* keep it from exit().
CrashExits ==
    \A t \in Thread : mode[t] # "user" ~> process = "exited"

\* When signalHandler calls exit(), "a file for this kind of error" has been
\* "automatically created through the LogLevelHandler" (Log.cpp:52).
FatalReachesFile ==
    \A t \in Thread : mode[t] = "signal" /\ pc[t] = "idle" => Written(entry[t])
=============================================================================
