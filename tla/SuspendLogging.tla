--------------------------- MODULE SuspendLogging ---------------------------
(***************************************************************************)
(* The suspension of logging (src/src/SuspendLogging.cpp): every           *)
(* SuspendLogging object that is alive, a guard, counts once in            *)
(* Log::SuspendLoggingCounter, an std::atomic_uint16_t.                    *)
(***************************************************************************)
EXTENDS Naturals, FiniteSets

CONSTANTS
    Guard,       \* the SuspendLogging objects that can be alive at once
    CounterMod   \* the counter counts modulo this: 2^16 for atomic_uint16_t

\* There are fewer guards than the counter can count.
GuardsFit ==
    /\ IsFiniteSet(Guard)
    /\ CounterMod \in Nat
    /\ Cardinality(Guard) < CounterMod

ASSUME GuardAssumption == GuardsFit

VARIABLES
    counter,     \* Log::SuspendLoggingCounter
    guards       \* the guards that are alive

guardVars == <<counter, guards>>

Init ==
    /\ counter = 0
    /\ guards = {}

\* Mutant: an object counts twice.
ConstructTwice(g) ==
    /\ counter' = counter + 2
    /\ guards' = guards \union {g}

\* SuspendLogging::SuspendLogging, an atomic increment.
Construct(g) ==
    /\ counter' = (counter + 1) % CounterMod
    /\ guards' = guards \union {g}

\* Mutant: the suspension is a flag.
DestroyFlag(g) ==
    /\ counter' = 0
    /\ guards' = guards \ {g}

\* SuspendLogging::~SuspendLogging, an atomic decrement.
Destroy(g) ==
    /\ counter' = (counter + CounterMod - 1) % CounterMod
    /\ guards' = guards \ {g}

\* Log::log stores nothing in a state where this holds.
Suspended == counter > 0

-----------------------------------------------------------------------------
(* The discipline of scopes: an object is constructed once and destroyed    *)
(* once, and none is made by the implicit copy constructor, which would     *)
(* not increment the counter.                                               *)

EnterScope == \E g \in Guard \ guards : Construct(g)

LeaveScope == \E g \in guards : Destroy(g)

Next == EnterScope \/ LeaveScope

Spec == Init /\ [][Next]_guardVars

-----------------------------------------------------------------------------
TypeOK ==
    /\ counter \in 0 .. CounterMod - 1
    /\ guards \subseteq Guard

\* The counter is exactly the number of guards alive: overlapping and nested
\* scopes of several threads neither lose nor double a suspension.
CounterCountsGuards == counter = Cardinality(guards)

\* Logging is suspended exactly while some guard is alive, whichever of the
\* guards ends first (the counter is not a flag).
SuspendedIffGuarded == Suspended <=> guards # {}
=============================================================================
