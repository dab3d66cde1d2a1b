# A formal model of easy-exception

TLA+ models of [easy-exception](../src/readme.md), a C++ library of exceptions,
stack traces and thread-wise logs; TLC configurations that check them on small
instances; and TLAPS proofs of what holds for every instance. Paths below are
those of the repository (`src/` is its root).

## 1. The system

| Part | State | Operations | Interacts with |
|---|---|---|---|
| Log, storing (`src/src/Log.cpp:86-155`) | `LogThreadMap`: a list of entries per thread id; a `thread_local` pointer to the own list | `log`, `check`, the overloads for exceptions | reads the counter, the stream and callback registries; calls the callback of the level |
| Log, operations (`Log.cpp:195-223`, `237-276`, `339-401`) | the same map, `Mutex` (recursive) | `reset`, `releaseLogs`, `countLogLevels`, `getNumberOfLogEntries`, `writeToFile` | all but one construct a `SuspendLogging`; all but `writeToFile` lock `Mutex` |
| `logLevelHandler` (`Log.cpp:24-44`) | `logFolder`, `logFilename` | called by `log` for Warning, Error and Fatal after `applyDefaultConfiguration` | `releaseLogs`, `writeToFile`, `reset`, under a guard of its own |
| Registries (`Log.cpp:225-235`, `278-333`) | `CallbackMap`, `OutStreamMap`, `LogRetentionPolicies`, unlocked | register, remove, `applyDefaultConfiguration` | read by `log` and `releaseLogs` of any thread |
| `SuspendLogging` | `SuspendLoggingCounter`, 16 bits, atomic | constructor, destructor | `log` stores nothing while the counter is positive |
| `LogRetentionPolicy` | `mCounter`, `mDatetime` | `init`, `retain` | asked by `releaseLogs` for every entry |
| `signalHandler`, `terminateHandler` (`Log.cpp:46-84`) | - | log a Fatal entry, then `exit` or `abort` | run on top of whatever their thread was doing, whose guards and mutex stay as they are; `abort` raises a signal that has a handler |
| `Helper::findLogFiles` (`src/src/Helper.cpp`) | directory streams, never closed | list files | logs a warning when it cannot open the directory; uses up the descriptors `writeToFile` needs |
| `Stacktrace` (`src/src/Stacktrace.cpp`) | a buffer on the stack, a map of lines with 16-bit keys | `create`: unwind, symbolize | the unwinder calls back for each frame |
| `Exception` (`src/src/Exception.cpp`) | its notes and the cached text of `what()` | construct, `operator<<`, `update` in two formats | makes a `Stacktrace`; logged through the overloads of `log` |
| `LogEntry`, `Note` | values | `write` | stored by `log`, printed to its stream |
| `Logger` | a name | forwards to `Log::log` | - |

What is hard here is the storing side, and the end of the process. Threads
append to their lists without a lock; a positive counter is all that keeps them out while another thread goes
through the lists, and it is read one step before the append. Every operation
is made of several such scopes, the handler nests four of them, several
handlers can run at once, and the registries are read with `count()` and then
`at()` in functions that are `noexcept`. A crash handler runs the same code again
from the start, on a stack that never unwinds: a guard the interrupted code had
is alive for ever, and so is its lock. The properties follow from that:

- suspension: the counter is exact, a guard lives exactly as long as its scope
  on every path, nothing stays suspended, a thread that suspends never stores;
- the mutex is held exactly in the locked sections, every call returns;
- the map: a list is never taken away, only its thread adds to it, what
  is released leaves the others in their order, a count adds lists of one time, a reset empties them;
- incidents: what a handler clears is in a file, in order, once;
- configuration: nothing but a removal can make `at()` throw;
- retention: the policies keep what they say, whatever the clock does;
- crashes: a crashed thread always gets to `exit`, nobody else goes through the
  lists it left half-changed, and its Fatal entry is in a file unless logging was
  suspended or the file could not be opened (no descriptor left, or a folder that
  is missing or may not be written to);
- texts: a trace is the innermost frames and fits its buffer, `what()` is complete
  and of now however short memory was, and a printed log can be read back.

`PROJECT.json` lists every hazard at its line, with the properties that catch
it going wrong, or why none does yet.

## 2. Modules

| Module | Models | Notes |
|---|---|---|
| `SuspendLogging` | the counter and the guards alive | counts modulo `CounterMod`, as the 16-bit atomic does |
| `Log` | `log`, `logLevelHandler`, the operations, the registries, as threads run them | `SL == INSTANCE SuspendLogging` with a guard for each thread and scope |
| `LogStore` | abstract: what the log-thread map promises | `Log` implements it (`StoreSpec`) |
| `Retention` | `releaseLogs` entry by entry, both shipped policies, the clock | what `Log` abstracts to the entries that may be left of a list (`Retained`) |
| `LogProcess` | `Log` in a process with signals, uncaught exceptions, `abort`, `exit`, and descriptors | EXTENDS `Log`: its steps are those of `Log`, restricted by what a crash left behind |
| `Stacktrace` | `Stacktrace::create` and its callback, frame by frame | |
| `LogEntry` | entries, notes, and `LogEntry::write` | operators only |
| `Exception` | an exception from its construction to its log entry | composes `Stacktrace` and `LogEntry` |
| `ExceptionText` | readers of the texts, against which they are checked | not the code: the reference definition. Uses RECURSIVE, so it has no theorems |
| `MCLogApi`, `MCLogIncident`, `MCLogConfig`, `MCLogProcess`, `MCRetention`, `MCException` | workloads for TLC | |
| `SuspendLoggingProofs`, `LogProofs`, `LogSuspensionProofs`, `LogStoreProofs`, `LogFileProofs`, `LogProcessProofs`, `RetentionProofs`, `ExceptionProofs` | theorems | section 5 |

**How `Log` corresponds to the code.** `pc[t]` is where thread `t` is: one
label per access to shared state, so that two threads interleave where they do
in the program. `lockMap`..`invoke` are the lines of `Log::log`; `hSuspend`..
`hResume` those of `logLevelHandler`; `enter`..`leave` the common shape of the
five operations: construct the guard, lock or open the file, sweep the lists in
the order of their keys, unlock, destroy the guard. `frame[t]` holds the locals
of the operation: which one, the label it returns to, the iterator (`cursor`),
the count (`acc`), the file. One frame per thread is enough: no operation calls
another, and a thread behind a guard of its own does not get past the check
(`NoOwnEntries`), so the handler is not entered recursively. The mutex is
recursive in the model as in the code (`Acquire`); that it is never locked
twice is `MutexFollowsScopes`.

Steps of `Log`, coarser than the code:

- one list of a sweep is one step. Another thread may append before or after
  it, not in the midst: in the code that is a data race, undefined behaviour,
  of which the model keeps the outcomes in which the list survives. That the
  race exists is run `list_race`;
- a look at a registry is one step, as is each registration. The unlocked maps
  race in the code as well; the model keeps the two-step hazard of `count()` and
  `at()`;
- the order of the entries, their level, thread and number are kept, their text
  is not; the contents of the output streams are not kept;
- a file name is the folder, the thread and the number of the entry the handler
  was called for, in place of the microsecond: two calls never make the same;
- a user's callback calls one operation of `CallbackOps` or none. A callback
  that logs is not modelled;
- entries have no dates in `Log`: what `OlderThan` refuses may be any entries of
  a list but the `Fresh` newest, not only the oldest, for the clock may have been
  set back between two of them (`Young`). `MaxNumber` then keeps the last ones of
  the rest (`Youngest`). Which of these outcomes a clock allows is `Retention`.

**How `Retention` corresponds.** `at` is the list the loop of `releaseLogs` is
in, `base` is `it.base()`; `Erase` and `Retain` are one turn of the while loop,
with the questions to the policies in the order of their priorities and the
side effect of `mCounter++`. Other threads append in the midst of the cycle, at
most once each, because logging is suspended; the clock moves by `ClockSteps`.
`began`, `released` and `late` are history, for the properties only.

**How `LogProcess` corresponds.** `mode[t]` is the outermost thing thread `t`
runs: the user's code, `terminateHandler` or `signalHandler`. A crash is
`LogFatal(t)`: the call of `Log::log(Fatal, ...)` that is the first thing both
handlers do, with the label, the frame and nothing else of the interrupted code
replaced. Its guards stay in `guards`; a mutex it holds is noted in `pinned`,
and only that thread can lock it again, for the mutex is recursive
(`MutexFree`); a file it has open is leaked. `Signal` may happen at every label
of `Log`, `Throw` where the user's code runs, `LeaveNoexcept` where `at()` of
`Log::log` throws, `Abort` and `Exit` at the ends of the two handlers: a
terminate handler therefore logs two Fatal entries, one of its own and one when
the SIGABRT of `abort` arrives. `OpenResult` decides in place of the free
choice `Log` makes whether `writeToFile` opens its file: without a descriptor it
does not (`DescriptorLeft`), with one the result is any of `FolderOpens`, for the
folder may be missing or not writable, and become so between two calls. `denied`
is history: the incidents whose handler had a descriptor and could not open its
file all the same.

Left out of `LogProcess`: a signal in the middle of a step, that is within
`malloc`, a list operation or a stream (the handlers call functions that are not
safe in a signal handler, and what follows is undefined); a signal from outside
on top of `signalHandler`; what other threads do to static objects while `exit`
destroys them; SIGSTOP, which `applyDefaultConfiguration` asks for and which
cannot be caught.

**How `Stacktrace` and `Exception` correspond.** `stage` is where `create` is:
`frames` is what the unwinder still has to hand to `linux_unwind_callback`, whose
three outcomes are `SkipFrame`, `StoreFrame` and `EndOfStack`; `Symbolize` is the
loop that makes the lines, with the `int` index turned into an `unsigned short`
key. `Symbol` and `Demangled` stand for `dladdr` and `__cxa_demangle`. A call that
makes a trace waits for it (`pending`), as the constructors of `Exception` and
the overload of `log` for `std::exception` do. `Update` and `AddNote` take the
`catch` where memory is short: the cache becomes the fallback text, or the note is
not added. A text is a sequence of tokens, names and the punctuation the code
puts between them; line breaks and blanks are left out except in the log stream,
where two of them separate entries. The counter of the Json lists is modulo
`ShortMod`, 3 in the run in place of 65536, so that its end is met.

Each property has a *mutant* in the modules it speaks of: a definition as a
plausible mistake would have it (marked `Mutant:`). No specification uses one;
they show that the property would notice.

## 3. Runs

| Run | Instance | Shows |
|---|---|---|
| `suspend_logging` | 7 guards, counter of 3 bits: the most guards it can tell from none | exact suspension in every order of scopes |
| `log_api` | 2 threads, 2 entries and 1 other call each, every operation, early return of `writeToFile`, thread id reuse, `Fresh = 0` | scopes of guards and mutex; `TallyStands`, `ResetEmpties`; `Log` implements `SuspendLogging` and `LogStore` |
| `log_incident` | 3 threads, 2 entries each, the second logs incidents, its list between the others' in the map | incidents reach a file, in order, once, before the reset; every call returns |
| `log_config` | 2 threads, 3 calls of any registry operation against `log`, unconfigured at the start, user callback that calls `reset` | only removals can end the program; reconfiguration blocks nobody |
| `retention` | 2 lists of at most 1 and 3 entries, limit 1, lifetime 1, clock 0..2 forwards and back, any set of policies | what stays and what goes is what the policies say |
| `log_process` | a thread that logs a warning, counts, leaks descriptors and crashes, beside one that logs information, counts and removes the streams; one descriptor, and a folder in which a file opens or does not | every crash ends in `exit`; the pinned mutex excludes the other thread; what happens to an incident, a Fatal one too; the counter still counts right, a count is of one time, the map is still a `LogStore`, and the log file has every entry once |
| `exception` | both formats, three stacks (empty; deeper than the limit, with a null frame; with the null frame in the middle), limits 0, 2 and 4, up to 3 notes, 2 log entries | innermost frames, buffer, `what()` and the log stream read back |
| `lost_incident`, `json_incident`, `list_race`, `two_log_files`, `fatal_dropped` | the smallest instance each | disagreements of the code with its own texts (section 4) |

*Bounds.* `MaxLogs` and `MaxCalls` bound what the users call; everything the
library does in a call runs to its end. Two entries per thread are what the
hazards need: one before and one behind the check or the sweep, and two
incidents, of which the second finds a file name already made. Two threads
interleave in every pair of scopes; the third in `log_incident` is there because
a sweep treats lists before and behind the incident's own differently.
Thread ids are numbers because the map is ordered, so no symmetry is used. One
entry in the first list of `retention` is enough to see that the second list
starts afresh. In `log_process` one thread crashes, up to four times over: an
exception at `at()` inside a warning, the SIGABRT after it, and a signal at any
label of either, each with a Fatal entry (`MaxLogs = 5`). A second thread that
crashes would be a second thread that handles incidents, and lose them as
`lost_incident` shows; that its crash does no harm to guards, mutex, lists and
counts is proved instead (section 5). One descriptor is what a process has just before it has
none. In `exception`, 3 notes are as many as `ShortMod`, the first list whose
counter comes round, and a trace of 4 lines the first with a key used twice.
Deadlock is checked in all runs: threads at rest may stay so
(`Rest`, `ProcessRest`), so a deadlock reported is a thread stuck within a call or
within a crash.

*Fairness.* `FairSpec` has `WF_vars(Run(t))` for every thread: a thread within a
call of the library, and at the end of a scope, takes its next step if it can
for ever. That is what the scheduler of an operating system gives. It asks
nothing of the user's calls. Weak fairness also covers the wait for the mutex:
the number of calls is bounded, so a mutex is not taken from a waiting thread
for ever; under an unbounded load `std::recursive_mutex` promises no such thing.
`FairProcessSpec` has `WF` on `Continue(t)`: the steps of `Log` and those of the
crash handlers, but neither the signals nor the user's calls.

*What the single incident thread of `log_incident` means.* `IncidentWritten` is
violated as soon as two threads handle incidents, and so is `SameLogFile` (runs
`lost_incident` and `two_log_files`; that a single thread stays with one file is
proved, `SameFileForOneThread`). Overlapping handlers are left to these two runs
and to the theorems on any number of them (`GuardsCorrect`, `SuspensionImplemented`,
`OnlyStragglersLost` and others of section 5).
The run shows that the handler is right by itself against any number of threads
that only log, at the price `ResetLosesOnlyStragglers` states.

## 4. Findings

- `lost_incident`: the check and the append of `log` are two steps
  (`Log.cpp:106`, `111`). An incident appended in between is cleared by the
  handler of another thread and reaches no file.
- `json_incident`: built with `EASY_EXCEPTION_OUTPUT_FORMAT=Json`, `writeToFile`
  refuses its own default format, the handler ignores that (`Log.cpp:40`) and
  clears the incidents.
- `two_log_files`: two handlers find the name empty (`Log.cpp:32`), make two
  names, and the incidents end in two files.
- `list_race`: `Log.hpp:187` asks for the mutex whenever the map is queried or
  modified; `log` and `writeToFile` do without.
- `fatal_dropped`: a signal while any thread counts, resets, or handles an
  incident, or under a guard of its own thread, is a crash without an entry and
  without a file (`Log.cpp:106`), though `Log.cpp:52` and `:80` count on it.

Noted while modelling, without a run of their own: `Log.hpp:126` says the file's
previous content is overridden, but it is appended to, as the integration test
expects; "the maximum number of logs we want to retain"
(`LogRetentionPolicy.hpp:71`) is a maximum per thread; the Json text of an
exception does not escape what it quotes (`Exception.cpp:79`), and in a list of
65536 notes or more the counter comes round to 0 and puts a comma after the last
one as well (`Exception.cpp:91`): `JsonSafe`, the premise of `WhatReadsBack`, names
both.

`readme.md:9` lists under "Features missing" that "In case of cascading warnings or
errors there will be multiple files written". The code of this commit does not do
that: the first handler makes the name of the file, nothing clears `logFilename`
again, and every later incident of the process, in a cascade or not, is appended to
the same file (`SameFileForOneThread`), as `test/integrationtest/Log.cpp:30` and
`:40` expect. Several files come only from handlers that race for the name
(`two_log_files`). The project takes the tests' side: `SameLogFile` states what they
say, and the sentence of the readme is out of date. An incident that was reset
is not written again, so each handler adds to the file what was logged since.

## 5. Proofs

Assumed are only the typed constants of `LogAssumption`, that the scopes of all
threads are fewer than the counter counts (`CounterAssumption`: at most 21845
threads, for the code's counter), the types of the constants of `LogProcess`,
`Retention`, `Stacktrace` and `Exception` and, in `SuspendLogging`,
`GuardAssumption`. TLC evaluates all of them in the runs. A theorem that holds of
some programs only says of which, in its hypotheses (`LogFileProofs`,
`IncidentsAccounted`, `FilesSurviveCrashes`, `SameFileSurvivesCrashes`).

- `SuspendLoggingProofs`: `SuspendedIffGuarded` is not inductive: the
  destruction of one of several guards needs the exact count. `Counting`
  (counter = number of guards alive, which is less than the range, so the
  arithmetic never wraps) is, and gives it (`CounterIsExact`).
- `LogProofs`: the inductive invariant `Inv` is the types and, for each thread,
  `Scoped(t)`: what its label says about its locals, its guards and the mutex.
  The three belong together, because where an operation returns to decides
  which guards are alive, and which operation it is decides whether it holds the
  mutex. A step of `t` leaves the rest of every other thread alone
  (`OthersUntouched`), so a step is proved for its own thread only
  (`StepKeepsScopes`). `GuardsCorrect` and `MutexCorrect` follow.
  Most lemmas on what a step does to lists, files and locals need less than `Inv`:
  `Placed`, that labels and locals agree, and `Steady`, that the step leaves it so.
  Both hold in a process that crashes as well (`ThreadInvPlaced`, `KeepsSteady`),
  where `Inv` does not, so that `LogProcessProofs` uses the same lemmas.
- `LogSuspensionProofs`: by `Inv`, each construction is of a guard that is not
  alive and each destruction of one that is, so `Log` implements
  `SuspendLogging` (`SuspensionImplemented`), whose theorems then hold of the
  counter of `Log`: `TypeCorrect`, `SuspensionCorrect`, `NothingLeftSuspended`
  and, with the step of the check, `SuspendedThreadsStoreNothing`. The registries
  are here as well: `RegistriesCorrect`, by cases on who moves: every step but a
  removal only registers, and the thread itself comes to an `at()` only from a
  `count()` that found what it asked for.
- `LogStoreProofs`: `Log` implements `LogStore` (`StoreImplemented`).  Of the
  abstract store's steps, `Record` needs an invariant: that the list exists and
  every entry in it is older.  Neither is checked by the code, which appends
  through a cached pointer without a lock.  `StoreInv` carries both from the call
  of `log` to the append: the pointer is only used once it is set and only set
  when the list is in the map, and the numbers in a list are less than the number
  of the entry being stored.  `MapSteps` sorts the steps into the four that touch
  the map and the rest.
  `ResetCorrect`: `ResetEmpties` speaks of the end of a reset; `ResetInv` says of
  every list the sweep is past that it has no entry, or one whose thread has left
  the append behind. It needs three things at once: no list enters the map during
  the sweep (mutex), no thread passes the check of `log` while the guard of
  `reset` is alive (`SuspensionCorrect`), and the sweep is in the order of the map.
  `CountsCorrect` (`TallyStands`): a count only ever adds the length of the next
  list to what it has, so it is enough that no step makes the lists behind the
  cursor hold less. Of its own thread's steps only the visit of a list moves the
  cursor, and the entries of that list are disjoint from the ones before
  (`HeldAdds`); of the others' steps only a reset or a release takes entries away,
  and both need the mutex the counting thread has. `writeToFile` counts nothing.
- `LogFileProofs`: what the files hold. Four properties, each of the programs that
  its hypotheses describe, and the runs of section 4 are the programs without:
  - `SameFileForOneThread`: with one incident thread (`OnlyIncidentThread(i)`) the
    name of the file, once made, stays. `Alone(i)`: nobody else is in
    `logLevelHandler`, and `i` is about to make a name only while there is none.
    Without the hypothesis: `two_log_files`.
  - `OnlyStragglersLost`: for any number of incident threads, where files can be
    written (`FilesOpen`; without it, `json_incident`). `WriteInv` says what the
    sweep of `writeToFile` in a handler has written of each list it is past: all
    but at most the newest entry, because logging is suspended from before the
    sweep until after the reset, and the one call that was past the check appends
    once. That stays true between the return of `writeToFile` and the visit of the
    list by the reset, whatever other handlers take from it meanwhile.
  - `IncidentNotLost`: the incident of a handler that has cleared the map is in a
    file. `Kept(i)` follows the entry from the append to the file: it is the newest
    of its list (only `i` adds to the list) until the sweep comes to it. Four
    things could take it away first, and each is a hypothesis: another handler
    (`OnlyIncidentThread(i)`; without it, `lost_incident`), a reset of the
    program's own (`NobodyCalls("reset")`), a file that cannot be opened
    (`FilesOpen`), a policy that keeps nothing (`NewestStays`).
  - `FilesInOrder`: each file has the entries of a thread in order and once.
    `AllSorted` says it of the lists; `Filed(i)` adds that what a list still holds
    is newer than what the file has of its thread, except within the window between
    the sweep that wrote it and the reset that clears it (`Settled`, `Window`). A
    `writeToFile` of the program's own writes entries that stay in the map and are
    written again: `NobodyCalls("writeToFile")`.

  `TheoremsApply` in `MCLogIncident` lets TLC check that the configured program of
  `log_incident` meets all of the hypotheses.
- `LogProcessProofs`: any number of threads crash, at any label, any number of
  times. `Inv` does not survive that: a crash leaves guards alive whose scope is
  gone. What survives is `Held`, the locals and the mutex, and `Owned`, the guards
  as far as running code relies on them. The reason nothing worse happens is the
  suspension itself: a guard that is left over keeps its thread from passing the
  check of `log`, so whoever is behind the check has none and constructs its own
  afresh. To pass from "suspended" to "guarded" and back needs the exact count,
  which is why `Counting` is a part of `ProcessInv` and proved along with it.
  `CrashKeepsSuspension` (the process implements `SuspendLogging`),
  `ProcessTypeCorrect` and `SuspendedCrashesStoreNothing` follow, and
  `InterruptedSweepsExcluded` from `PinnedHolds`: after the owner has crashed,
  the mutex is free or its own.

  *The entries.* `EntryInv` is `StoreInv`, `ResetInv` and the invariants of counts
  and calls, taken over from `Log`. A step of a process is one of `Log` that is
  `Steady`, or a log call of the library's own (`LogsAnew`: the Fatal entry of a
  crash, the warning of `findLogFiles`), or none of `Log` (`StepKept`). The first
  is the step lemmas of `LogStoreProofs`. The second moves its thread from any
  label to the start of `log`, with fresh locals and a newer entry and the lists as
  they are, so whatever the sweep behind it was in the middle of is no longer
  claimed by anybody. `StoreSurvivesCrashes`, `ResetsSurviveCrashes` and
  `CountsSurviveCrashes` follow, without a hypothesis on the program; so does
  `RegistriesSurviveCrashes`, which needs no invariant of the entries.

  *The incidents.* `IncidentsAccounted` is `IncidentNotLost` for a process that
  crashes. `IncidentAccounted` speaks of a thread around which it is quiet: nobody
  else's latest entry is an incident. `AllTypical` says that a thread whose entry is
  no incident has not crashed and is in no handler, and that threads which log
  other levels log no incidents before they crash (`IncidentsApart`), so that where
  it is quiet now it has been since the call (`QuietBefore`). `Carried(t)` follows
  the entry of `t`: at the end of its list from the append until the sweep of
  `writeToFile` is past it, then in a file, unless the file could not be opened.
  There is no `FilesOpen` here: `open()` may fail for the folder at any time, and
  then the entry is in `denied`, or for want of a descriptor. There `DescriptorInv`
  counts: what is leaked and the files being written are at most the descriptors
  there are, and in the quiet only `t` writes, so that it is all of them that are
  leaked (`OpenFails`). A crash of `t`
  itself starts over with a new entry, of which nothing has been claimed yet.
  The hypotheses: the callbacks stay registered (`HandlerStays`), the program
  neither resets nor writes files itself (`OnlyHandlerWrites`), the policies keep
  the newest entry (`NewestStays`), files are written as text (`Format`, without it
  `json_incident`). `TheoremsApply` in `MCLogProcess` lets TLC check that the process
  of `log_process` meets them. They do not exclude that several threads crash:
  then it is not quiet, and what two handlers lose is `lost_incident`.

  *The files.* `FilesSurviveCrashes` and `SameFileSurvivesCrashes` are `FilesInOrder`
  and `SameFileForOneThread` for a process in which one thread logs the incidents and
  crashes (`OnlyOneCrashes`; `TheoremsApply` again). `Lone(i)` is `Alone(i)` with what
  keeps the other threads from crashing: nobody signals them, they throw nothing, and
  what their `at()` reads stays (`AtKeptStep`). `Filed(i)` is not an invariant any
  more: a crash between the write of the handler and its reset (its `Window`) leaves
  entries in the lists that are in the file already, and the next handler would
  write them again. There is none: `Dead(i)`, the guard of the handler alive and the
  handler gone, is stable, because that guard is destroyed at the last line of the
  handler only (`HandlerGuardStays`) and the handler is entered only from behind
  the check (`EntersHandler`), where `Owned` allows no guard. So `FileInv(i)` is the
  order of the files with `Filed(i) \/ Dead(i)`: a crash inside the handler makes
  `i` dead and nobody writes after that; a crash elsewhere comes outside of every
  window. The price of the guard that is left behind is `fatal_dropped`.
- `RetentionProofs`: in the middle of a cycle a list is two, the part before the
  base, untouched, and `Kept`, from the base on. The properties speak of the end
  only; `RetentionInv` says of the middle that `mCounter` is at least the number
  of kept entries that are not late and, up to the limit, at most the number of
  all kept (`Counted`); that the kept are young enough (`Dated`); that the reason
  an entry was released for still stands (`Reasoned`), because nothing leaves
  `Kept`, `mCounter` only grows and `mDatetime` stays; and that nothing is kept
  after a release where the clock ran (`NewestKept`). The late entries are what
  makes it delicate: one may be appended behind an end iterator, which then judges
  it after all the older ones. `AtMostMaxNumber`, `NothingExpired`,
  `ReleasedForAReason`, `KeepsNewest` and the bounds of the iterator (`TypeOK`)
  follow at the end of the list, for every limit (0 too), lifetime and clock.
- `ExceptionProofs`: the three properties of traces and exceptions that do not
  read texts back. `BufferHoldsFrames` says in the middle of the unwinding what
  `LinesAreInnermost` says at the end: the buffer is as long as the number of
  frames handed over that are not null, and the frame that has `n` such frames
  before it is at `n`. When the callback ends the stack, either nothing is left or
  the buffer is full, and then every frame left has at least `limit` before it.
  `LinesOfBuffer` carries that over to the lines; as long as their number fits in
  16 bits a key is the number of its line (`KeyIsNumber`), and otherwise the keys
  are all the 16-bit numbers, each with the last of its lines (`KeysOfLines`).
  `CallbackStaysInBuffer`, `TraceIsInnermost` and `ExceptionTypes` follow.

Only model-checked: the liveness properties (`CallsReturn`, `IncidentReachesFile`,
`CrashExits`), for liveness under fairness is beyond the prover; and that the texts
read back (`WhatReadsBack`, `StreamReadsBack`), which takes an induction over the
text, and readers that are RECURSIVE. `ResetLosesOnlyStragglers` is proved of `Log`
and is not a property of `LogProcess`: where the file cannot be opened the handler
resets what it has not written.

## 6. Not modelled, and the plan

What may be added:

1. `MaxNumber = 0` in `Log`: the handler's own incident is released before it is
   written. `Retention` covers the policy, `Log` runs with limits from 1.
2. Callbacks that log: a stack of frames for each thread, and a bound of its depth.
3. Streams that fail after they were opened: `writeToFile` returns true and the
   handler resets.
4. The other ways out of functions that are `noexcept`: an empty or throwing
   callback or a failing allocation in `log` (`Log.cpp:111`, `153`), and the
   assignment of the fallback text in the `catch` of `update` (`Exception.cpp:116`),
   which may itself need memory. Each ends the program, as `LeaveNoexcept` does for
   `at()`.

Left out for good: the Android output (another build), the layout of texts, the
list of names `findLogFiles` returns (a function of the directory alone), custom
retention policies (their `retain` is the user's code), `Logger` (a name and
calls that forward to `Log::log`), and copies of `SuspendLogging` objects (none is
made in the library).
