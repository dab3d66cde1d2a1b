------------------------------ MODULE Retention ------------------------------
(***************************************************************************)
(* Log::releaseLogs with the two policies of                               *)
(* src/src/LogRetentionPolicy.cpp, one decision at a time: the cycle goes  *)
(* through each list from the youngest entry to the oldest, while the      *)
(* system clock moves and threads whose log call was already past the      *)
(* suspension check still append.                                          *)
(***************************************************************************)
EXTENDS Integers, FiniteSets, SequencesExt

CONSTANTS
    NumThreads,   \* the lists of LogThreadMap are those of 1 .. NumThreads
    Lifetime,     \* mLifetime of LogRetentionOlderThan
    MaxNumber,    \* mMaxNumberOfLogs of LogRetentionMaxNumber
    Clock,        \* the readings of system_clock
    ClockSteps,   \* how it moves: it can be set back
    MaxEntries    \* bound: how many entries each thread logs

ASSUME RetentionAssumption ==
    /\ NumThreads \in Nat \ {0}
    /\ {Lifetime, MaxNumber} \subseteq Nat
    /\ MaxEntries \in [1 .. NumThreads -> Nat]
    /\ Clock \subseteq Int
    /\ ClockSteps \subseteq Int

Thread == 1 .. NumThreads
Policy == {"OlderThan", "MaxNumber"}
Entry == [id : Nat, date : Clock]

VARIABLES
    now,          \* system_clock::now()
    lists,        \* LogThreadMap
    logged,       \* how many entries each thread logged
    policies,     \* LogRetentionPolicies
    mDatetime,    \* of the OlderThan policy
    mCounter,     \* of the MaxNumber policy
    at,           \* the thread whose list the cycle is in, 0 outside
    base,         \* it.base(): the entry before it is judged next
    began,        \* history: when the policies were initialised for this list
    released,     \* history: what was released from this list
    late          \* history: <<thread, entry>> appended during this cycle

cycleVars == <<mDatetime, mCounter, at, base, began, released>>
vars == <<now, lists, logged, policies, cycleVars, late>>

Init ==
    /\ now \in Clock
    /\ lists = [t \in Thread |-> <<>>]
    /\ logged = [t \in Thread |-> 0]
    /\ policies \in SUBSET Policy
    /\ mDatetime = now - Lifetime
    /\ mCounter = 0
    /\ at = 0
    /\ base = 1
    /\ began = now
    /\ released = {}
    /\ late = {}

Tick ==
    /\ \E step \in ClockSteps : now' = now + step
    /\ now' \in Clock
    /\ UNCHANGED <<lists, logged, policies, cycleVars, late>>

\* Log::log.  During a cycle logging is suspended: a thread can finish the one
\* call it has begun.  An end iterator stays at the end.
Log(t) ==
    /\ logged[t] < MaxEntries[t]
    /\ at # 0 => \A e \in late : e[1] # t
    /\ LET e == [id |-> logged[t] + 1, date |-> now]
       IN  /\ lists' = [lists EXCEPT ![t] = Append(@, e)]
           /\ late' = IF at = 0 THEN late ELSE late \union {<<t, e>>}
    /\ logged' = [logged EXCEPT ![t] = @ + 1]
    /\ base' = IF at = t /\ base = Len(lists[t]) + 1 THEN base + 1 ELSE base
    /\ UNCHANGED <<now, policies, mDatetime, mCounter, at, began, released>>

\* Mutant: the policies are initialised once in a cycle.
StartListLater(t) ==
    /\ mDatetime' = IF at = 0 /\ "OlderThan" \in policies THEN now - Lifetime ELSE mDatetime
    /\ mCounter' = IF at = 0 /\ "MaxNumber" \in policies THEN 0 ELSE mCounter
    /\ at' = t
    /\ base' = Len(lists[t]) + 1
    /\ began' = now
    /\ released' = {}
    /\ UNCHANGED <<now, lists, logged, policies>>

\* init() of every registered policy, and rbegin() of the list of t.
StartList(t) ==
    /\ mDatetime' = IF "OlderThan" \in policies THEN now - Lifetime ELSE mDatetime
    /\ mCounter' = IF "MaxNumber" \in policies THEN 0 ELSE mCounter
    /\ at' = t
    /\ base' = Len(lists[t]) + 1
    /\ began' = now
    /\ released' = {}
    /\ UNCHANGED <<now, lists, logged, policies>>

ReleaseLogs ==
    /\ at = 0
    /\ late' = {}
    /\ StartList(1)

Judged == lists[at][base - 1]

\* Mutant: one entry too many.
SurplusLater == "MaxNumber" \in policies /\ ~(mCounter <= MaxNumber)

\* retain() of the policies, in the order of their priorities.
OldEnough == "OlderThan" \in policies /\ ~(mDatetime <= Judged.date)
Surplus == "MaxNumber" \in policies /\ ~(mCounter < MaxNumber)

\* mCounter++ of a MaxNumber policy that is asked: the first refusal ends the
\* questions.
CountRetain ==
    mCounter' = IF "MaxNumber" \in policies /\ ~OldEnough
                THEN mCounter + 1 ELSE mCounter

\* Mutant: the reverse iterator still has the base it had.
EraseBehind ==
    /\ at # 0 /\ base > 1
    /\ OldEnough \/ Surplus
    /\ CountRetain
    /\ lists' = [lists EXCEPT ![at] = RemoveAt(@, base - 1)]
    /\ released' = released \union {Judged}
    /\ UNCHANGED <<now, logged, policies, mDatetime, at, base, began, late>>

\* Mutant: the entry at the base is erased, not the one before it.
EraseBase ==
    /\ at # 0 /\ base > 1
    /\ OldEnough \/ Surplus
    /\ CountRetain
    /\ lists' = [lists EXCEPT ![at] = RemoveAt(@, IF base > Len(@) THEN base - 1 ELSE base)]
    /\ base' = base - 1
    /\ released' = released \union {Judged}
    /\ UNCHANGED <<now, logged, policies, mDatetime, at, began, late>>

\* The entry before the base is erased: that of std::next(it).
Erase ==
    /\ at # 0 /\ base > 1
    /\ OldEnough \/ Surplus
    /\ CountRetain
    /\ lists' = [lists EXCEPT ![at] = RemoveAt(@, base - 1)]
    /\ base' = base - 1
    /\ released' = released \union {Judged}
    /\ UNCHANGED <<now, logged, policies, mDatetime, at, began, late>>

Retain ==
    /\ at # 0 /\ base > 1
    /\ ~OldEnough /\ ~Surplus
    /\ CountRetain
    /\ base' = base - 1
    /\ UNCHANGED <<now, lists, logged, policies, mDatetime, at, began,
                   released, late>>

NextList ==
    /\ at # 0 /\ base = 1
    /\ at < NumThreads
    /\ StartList(at + 1)
    /\ UNCHANGED late

Return ==
    /\ at = NumThreads /\ base = 1
    /\ at' = 0
    /\ UNCHANGED <<now, lists, logged, policies, mDatetime, mCounter, base,
                   began, released, late>>

Next ==
    \/ Tick
    \/ \E t \in Thread : Log(t)
    \/ ReleaseLogs \/ Erase \/ Retain \/ NextList \/ Return

Spec == Init /\ [][Next]_vars

-----------------------------------------------------------------------------
TypeOK ==
    /\ now \in Clock
    /\ lists \in [Thread -> Seq(Entry)]
    /\ logged \in [Thread -> Nat]
    /\ policies \subseteq Policy
    /\ mDatetime \in Int
    /\ mCounter \in Nat
    /\ at \in Thread \union {0}
    /\ base \in Nat \ {0}
    /\ base <= (IF at = 0 THEN 1 ELSE Len(lists[at]) + 1)
    /\ began \in Clock
    /\ released \subseteq Entry
    /\ late \subseteq Thread \X Entry

\* The cycle has judged the whole list it is in.
ListDone == at # 0 /\ base = 1

Late(t) == {e[2] : e \in {x \in late : x[1] = t}}

\* A list the cycle is done with has at most the maximal number of entries,
\* and the one that was appended meanwhile.
AtMostMaxNumber ==
    ListDone /\ "MaxNumber" \in policies =>
        Cardinality(ToSet(lists[at]) \ Late(at)) <= MaxNumber

\* A list the cycle is done with holds nothing that was too old when the cycle
\* came to the list.
NothingExpired ==
    ListDone /\ "OlderThan" \in policies =>
        \A e \in ToSet(lists[at]) \ Late(at) : began - Lifetime <= e.date

\* An entry is released only if it was too old, or if the maximal number of
\* younger entries of its list has been retained.
ReleasedForAReason ==
    at # 0 =>
        \A e \in released :
            \/ "OlderThan" \in policies /\ e.date < began - Lifetime
            \/ /\ "MaxNumber" \in policies
               /\ MaxNumber <= Cardinality({f \in ToSet(lists[at]) : f.id > e.id})

\* Unless the clock was set back while the entries were logged, the oldest ones
\* are released: every entry that is left is younger than all that are gone.
KeepsNewest ==
    LET known == ToSet(lists[at]) \union released
        clockRan == \A e, f \in known : e.id < f.id => e.date <= f.date
    IN  ListDone /\ clockRan =>
            \A e \in released, f \in ToSet(lists[at]) : e.id < f.id
=============================================================================
