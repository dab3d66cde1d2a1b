------------------------ MODULE SuspendLoggingProofs ------------------------
(***************************************************************************)
(* For every set of guards smaller than the range of the counter, logging  *)
(* is suspended exactly while a guard is alive.                            *)
(***************************************************************************)
EXTENDS SuspendLogging, FiniteSetTheorems, TLAPS

\* The inductive invariant: without the exact count, the destruction of one of
\* several guards could reach zero.
Counting ==
    /\ guards \subseteq Guard
    /\ CounterCountsGuards

\* A count of guards is a number, less than the range of the counter.
LEMMA CountInRange ==
    ASSUME NEW S, S \subseteq Guard
    PROVE  /\ IsFiniteSet(S)
           /\ Cardinality(S) \in Nat
           /\ Cardinality(S) < CounterMod
           /\ Cardinality(S) = 0 <=> S = {}
<1>1. IsFiniteSet(S) /\ Cardinality(S) <= Cardinality(Guard)
  BY FS_Subset, GuardAssumption DEF GuardsFit
<1>2. Cardinality(S) \in Nat /\ Cardinality(Guard) \in Nat
  BY <1>1, FS_CardinalityType, GuardAssumption DEF GuardsFit
<1>3. Cardinality(S) = 0 <=> S = {}
  BY <1>1, FS_EmptySet
<1>4. Cardinality(S) < CounterMod
  BY <1>1, <1>2, GuardAssumption DEF GuardsFit
<1> QED
  BY <1>1, <1>2, <1>3, <1>4

\* The constructor and the destructor keep the count.
LEMMA CountingStep == Counting /\ [Next]_guardVars => Counting'
<1> SUFFICES ASSUME Counting, [Next]_guardVars
             PROVE  Counting'
  OBVIOUS
<1>1. ASSUME NEW g \in Guard \ guards, Construct(g)
      PROVE  Counting'
  <2>1. guards' \subseteq Guard /\ guards' = guards \union {g}
    BY <1>1 DEF Counting, Construct
  <2>2. IsFiniteSet(guards) /\ Cardinality(guards) \in Nat
    BY CountInRange DEF Counting
  <2>3. Cardinality(guards') = Cardinality(guards) + 1
    BY <1>1, <2>1, <2>2, FS_AddElement
  <2>4. Cardinality(guards') < CounterMod
    BY <2>1, CountInRange
  <2>5. counter' = (Cardinality(guards) + 1) % CounterMod
    BY <1>1 DEF Construct, Counting, CounterCountsGuards
  <2>6. (Cardinality(guards) + 1) % CounterMod = Cardinality(guards) + 1
    BY <2>2, <2>3, <2>4, GuardAssumption, SMT DEF GuardsFit
  <2> QED
    BY <2>1, <2>3, <2>5, <2>6 DEF Counting, CounterCountsGuards
<1>2. ASSUME NEW g \in guards, Destroy(g)
      PROVE  Counting'
  <2>1. guards' \subseteq Guard /\ guards' = guards \ {g}
    BY <1>2 DEF Counting, Destroy
  <2>2. /\ IsFiniteSet(guards)
        /\ Cardinality(guards) \in Nat
        /\ Cardinality(guards) < CounterMod
        /\ Cardinality(guards) # 0
    BY <1>2, CountInRange DEF Counting
  <2>3. Cardinality(guards') = Cardinality(guards) - 1
    BY <1>2, <2>1, <2>2, FS_RemoveElement
  <2>4. counter' = (Cardinality(guards) + CounterMod - 1) % CounterMod
    BY <1>2 DEF Destroy, Counting, CounterCountsGuards
  <2>5. ASSUME NEW n \in Nat, n # 0, n < CounterMod
        PROVE  (n + CounterMod - 1) % CounterMod = n - 1
    BY <2>5, GuardAssumption, SMT DEF GuardsFit
  <2>6. counter' = Cardinality(guards) - 1
    BY <2>2, <2>4, <2>5
  <2> QED
    BY <2>1, <2>3, <2>6 DEF Counting, CounterCountsGuards
<1>3. CASE UNCHANGED guardVars
  BY <1>3 DEF guardVars, Counting, CounterCountsGuards
<1> QED
  BY <1>1, <1>2, <1>3 DEF Next, EnterScope, LeaveScope

\* The count gives the type of the counter and what suspends logging.
LEMMA CountingImplies == Counting => TypeOK /\ SuspendedIffGuarded
<1> SUFFICES ASSUME Counting
             PROVE  TypeOK /\ SuspendedIffGuarded
  OBVIOUS
<1>1. /\ Cardinality(guards) \in Nat
      /\ Cardinality(guards) < CounterMod
      /\ Cardinality(guards) = 0 <=> guards = {}
  BY CountInRange DEF Counting
<1>2. counter \in 0 .. CounterMod - 1
  BY <1>1, GuardAssumption DEF GuardsFit, Counting, CounterCountsGuards
<1> QED
  BY <1>1, <1>2 DEF Counting, CounterCountsGuards, TypeOK, SuspendedIffGuarded,
                    Suspended

LEMMA CountingInit == Init => Counting
  BY FS_EmptySet DEF Init, Counting, CounterCountsGuards

\* The counter is always the number of the guards that are alive
\* (Log::SuspendLoggingCounter against the live SuspendLogging objects).
THEOREM CounterIsExact == Spec => []Counting
  BY CountingInit, CountingStep, PTL DEF Spec

\* Logging is suspended exactly while a guard is alive (SuspendLogging's
\* constructor and destructor, the check in Log::log).
THEOREM SuspensionIsExact == Spec => []SuspendedIffGuarded
  BY CounterIsExact, CountingImplies, PTL
=============================================================================
