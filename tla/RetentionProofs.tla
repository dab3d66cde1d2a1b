--------------------------- MODULE RetentionProofs ---------------------------
(***************************************************************************)
(* What a cycle of releaseLogs leaves of a list, for every number of       *)
(* threads, lifetime, maximal number, and every way the clock moves.       *)
(*                                                                         *)
(* The cycle goes from the end of a list to its beginning, so a list in    *)
(* the middle of a cycle is two: the entries before the base, untouched,   *)
(* and those from the base on, which the policies have retained.  The      *)
(* invariant says what each part holds, and why each released entry went.  *)
(***************************************************************************)
EXTENDS Retention, FiniteSetTheorems, SequenceTheorems, TLAPS

\* The entries of a list s from position b on.
From(s, b) == {s[i] : i \in b .. Len(s)}

\* What the cycle has retained, and of it what is younger than e.
Kept == From(lists[at], base)
YoungerThan(e) == {f \in Kept : f.id > e.id}

\* A thread numbers its entries, and its list has them in this order.
Ordered(s, n) ==
    /\ \A i \in 1 .. Len(s) : s[i].id <= n
    /\ \A i, j \in 1 .. Len(s) : i < j => s[i].id < s[j].id

Shape ==
    /\ TypeOK
    /\ \A t \in Thread : Ordered(lists[t], logged[t])

\* The MaxNumber policy counts the entries from the base on: none escapes the
\* count but those appended meanwhile, and none is counted in vain.
Counted ==
    at # 0 /\ "MaxNumber" \in policies =>
        /\ Cardinality(Kept \ Late(at)) <= mCounter
        /\ Cardinality(Kept \ Late(at)) <= MaxNumber
        /\ mCounter <= Cardinality(Kept) \/ MaxNumber <= Cardinality(Kept)

\* The OlderThan policy judges by the time the cycle came to the list.
Dated ==
    at # 0 /\ "OlderThan" \in policies =>
        /\ mDatetime = began - Lifetime
        /\ \A e \in Kept \ Late(at) : mDatetime <= e.date

\* An entry is released once, and the reason to release it stands until the end
\* of the list.
Reasoned ==
    at # 0 =>
        \A e \in released :
            /\ e.id <= logged[at]
            /\ \A i \in 1 .. Len(lists[at]) : lists[at][i].id # e.id
            /\ \/ "OlderThan" \in policies /\ e.date < mDatetime
               \/ /\ "MaxNumber" \in policies
                  /\ MaxNumber <= mCounter
                  /\ MaxNumber <= Cardinality(YoungerThan(e))

\* Where the clock ran, nothing is retained once an entry has been released.
NewestKept ==
    LET known == ToSet(lists[at]) \union released
        clockRan == \A e, f \in known : e.id < f.id => e.date <= f.date
    IN  at # 0 /\ clockRan =>
            \A e \in released, f \in Kept : e.id < f.id

RetentionInv ==
    /\ Shape
    /\ Counted
    /\ Dated
    /\ Reasoned
    /\ NewestKept

-----------------------------------------------------------------------------
(* Lists                                                                    *)

LEMMA FromFacts ==
    ASSUME NEW S, NEW s \in Seq(S), NEW b \in 1 .. Len(s) + 1
    PROVE  /\ IsFiniteSet(From(s, b))
           /\ From(s, b) \subseteq ToSet(s)
           /\ From(s, Len(s) + 1) = {}
           /\ From(s, 1) = ToSet(s)
           /\ b > 1 => From(s, b - 1) = From(s, b) \union {s[b - 1]}
<1>1. IsFiniteSet(From(s, b))
  <2> DEFINE f == [i \in b .. Len(s) |-> s[i]]
  <2>1. IsFiniteSet(b .. Len(s))
    BY FS_Interval
  <2>2. f \in Surjection(b .. Len(s), From(s, b))
    BY DEF Surjection, From
  <2> QED
    BY <2>1, <2>2, FS_Surjection
<1>2. /\ From(s, b) \subseteq ToSet(s)
      /\ From(s, Len(s) + 1) = {}
      /\ From(s, 1) = ToSet(s)
  BY DEF From, ToSet
<1>3. b > 1 => b - 1 .. Len(s) = (b .. Len(s)) \union {b - 1}
  OBVIOUS
<1>4. b > 1 => From(s, b - 1) = From(s, b) \union {s[b - 1]}
  BY <1>3 DEF From
<1> QED
  BY <1>1, <1>2, <1>4

\* To append an entry adds it to what is behind any position.
LEMMA AppendFrom ==
    ASSUME NEW S, NEW s \in Seq(S), NEW e \in S, NEW b \in 1 .. Len(s) + 1
    PROVE  /\ From(Append(s, e), b) = From(s, b) \union {e}
           /\ ToSet(Append(s, e)) = ToSet(s) \union {e}
<1> DEFINE a == Append(s, e)
<1>1. /\ a \in Seq(S)
      /\ Len(a) = Len(s) + 1
      /\ \A i \in 1 .. Len(s) : a[i] = s[i]
      /\ a[Len(s) + 1] = e
  BY AppendProperties
<1> HIDE DEF a
<1>2. ASSUME NEW c \in 1 .. Len(s) + 1
      PROVE  From(a, c) = From(s, c) \union {e}
  <2>1. c .. Len(a) = (c .. Len(s)) \union {Len(s) + 1}
    BY <1>1
  <2>2. \A i \in c .. Len(s) : a[i] = s[i]
    BY <1>1
  <2> QED
    BY <1>1, <2>1, <2>2 DEF From
<1>3. From(a, 1) = ToSet(a) /\ From(s, 1) = ToSet(s)
  BY <1>1, FromFacts
<1>4. 1 \in 1 .. Len(s) + 1
  OBVIOUS
<1> QED
  BY <1>2, <1>3, <1>4 DEF a

\* To erase the entry before a position leaves what is behind it.
LEMMA RemoveFacts ==
    ASSUME NEW S, NEW s \in Seq(S), NEW b \in 2 .. Len(s) + 1
    PROVE  /\ RemoveAt(s, b - 1) \in Seq(S)
           /\ Len(RemoveAt(s, b - 1)) = Len(s) - 1
           /\ \A i \in 1 .. Len(s) - 1 :
                 RemoveAt(s, b - 1)[i] = IF i < b - 1 THEN s[i] ELSE s[i + 1]
<1> DEFINE front == SubSeq(s, 1, b - 2)
           back == SubSeq(s, b, Len(s))
<1>1. /\ front \in Seq(S)
      /\ Len(front) = b - 2
      /\ \A i \in 1 .. b - 2 : front[i] = s[i]
  BY SubSeqProperties, ElementOfSeq
<1>2. /\ back \in Seq(S)
      /\ Len(back) = Len(s) - b + 1
      /\ \A i \in 1 .. Len(s) - b + 1 : back[i] = s[b + i - 1]
  BY SubSeqProperties, ElementOfSeq
<1> DEFINE r == RemoveAt(s, b - 1)
<1>3. r = front \o back
  <2>1. (b - 1) - 1 = b - 2 /\ (b - 1) + 1 = b
    OBVIOUS
  <2> QED
    BY <2>1 DEF RemoveAt
<1> HIDE DEF front, back, r
<1>4. /\ r \in Seq(S)
      /\ Len(r) = Len(s) - 1
      /\ \A i \in 1 .. Len(s) - 1 :
           r[i] = IF i <= b - 2 THEN front[i] ELSE back[i - (b - 2)]
  BY <1>1, <1>2, <1>3, ConcatProperties
<1>5. ASSUME NEW i \in 1 .. Len(s) - 1
      PROVE  r[i] = IF i < b - 1 THEN s[i] ELSE s[i + 1]
  <2>1. CASE i < b - 1
    BY <1>1, <1>4, <2>1
  <2>2. CASE ~(i < b - 1)
    <3>1. i - (b - 2) \in 1 .. Len(s) - b + 1 /\ b + (i - (b - 2)) - 1 = i + 1
      BY <2>2
    <3>2. back[i - (b - 2)] = s[i + 1]
      BY <1>2, <3>1
    <3> QED
      BY <1>4, <2>2, <3>2
  <2> QED
    BY <2>1, <2>2
<1> QED
  BY <1>4, <1>5 DEF r

LEMMA RemoveFrom ==
    ASSUME NEW S, NEW s \in Seq(S), NEW b \in 2 .. Len(s) + 1
    PROVE  /\ From(RemoveAt(s, b - 1), b - 1) = From(s, b)
           /\ ToSet(s) = ToSet(RemoveAt(s, b - 1)) \union {s[b - 1]}
<1> DEFINE r == RemoveAt(s, b - 1)
<1>1. /\ r \in Seq(S)
      /\ Len(r) = Len(s) - 1
      /\ \A i \in 1 .. Len(s) - 1 : r[i] = IF i < b - 1 THEN s[i] ELSE s[i + 1]
  BY RemoveFacts
<1> HIDE DEF r
<1>2. From(r, b - 1) \subseteq From(s, b)
  BY <1>1 DEF From
<1>3. ASSUME NEW i \in b .. Len(s)
      PROVE  s[i] \in From(r, b - 1)
  <2>1. i - 1 \in b - 1 .. Len(r) /\ r[i - 1] = s[i]
    BY <1>1
  <2> QED
    BY <2>1 DEF From
<1>4. From(s, b) \subseteq From(r, b - 1)
  BY <1>3 DEF From
<1>5. ASSUME NEW i \in 1 .. Len(s), i # b - 1
      PROVE  s[i] \in ToSet(r)
  <2>1. CASE i < b - 1
    BY <1>1, <1>5, <2>1 DEF ToSet
  <2>2. CASE i > b - 1
    <3>1. i - 1 \in 1 .. Len(r) /\ r[i - 1] = s[i]
      BY <1>1, <2>2
    <3> QED
      BY <1>1, <3>1 DEF ToSet
  <2> QED
    BY <1>5, <2>1, <2>2
<1>6. ToSet(r) \subseteq ToSet(s)
  <2>1. ASSUME NEW i \in 1 .. Len(r)
        PROVE  r[i] \in ToSet(s)
    <3>1. i \in 1 .. Len(s) /\ i + 1 \in 1 .. Len(s)
      BY <1>1
    <3>2. r[i] = s[i] \/ r[i] = s[i + 1]
      BY <1>1
    <3> QED
      BY <3>1, <3>2 DEF ToSet
  <2> QED
    BY <1>1, <2>1 DEF ToSet
<1>7. b - 1 \in 1 .. Len(s)
  OBVIOUS
<1>8. ToSet(s) = ToSet(r) \union {s[b - 1]}
  BY <1>5, <1>6, <1>7 DEF ToSet
<1> QED
  BY <1>2, <1>4, <1>8 DEF r

-----------------------------------------------------------------------------
(* The list the cycle is in                                                 *)

LEMMA Here ==
    ASSUME TypeOK, at # 0
    PROVE  /\ at \in Thread
           /\ lists[at] \in Seq(Entry)
           /\ base \in 1 .. Len(lists[at]) + 1
           /\ IsFiniteSet(Kept)
           /\ Kept \subseteq ToSet(lists[at])
           /\ ToSet(lists[at]) \subseteq Entry
           /\ \A S : IsFiniteSet(S) => Cardinality(S) \in Nat
<1>1. /\ at \in Thread
      /\ lists[at] \in Seq(Entry)
      /\ base \in 1 .. Len(lists[at]) + 1
  BY DEF TypeOK
<1>2. IsFiniteSet(Kept) /\ Kept \subseteq ToSet(lists[at])
  BY <1>1, FromFacts DEF Kept
<1>3. ToSet(lists[at]) \subseteq Entry
  BY <1>1, ElementOfSeq DEF ToSet
<1> QED
  BY <1>1, <1>2, <1>3, FS_CardinalityType

LEMMA EntryFields ==
    \A e \in Entry : e.id \in Nat /\ e.date \in Int
  BY RetentionAssumption DEF Entry

\* The entry judged next is older than any the cycle has retained.
LEMMA JudgedFacts ==
    ASSUME Shape, at # 0, base > 1
    PROVE  /\ base - 1 \in 1 .. Len(lists[at])
           /\ Judged \in Entry /\ Judged \in ToSet(lists[at])
           /\ Judged.id <= logged[at]
           /\ \A f \in Kept : Judged.id < f.id
           /\ Judged \notin Kept
<1>1. /\ at \in Thread
      /\ lists[at] \in Seq(Entry)
      /\ base \in Nat /\ base - 1 \in 1 .. Len(lists[at])
  BY Here DEF Shape
<1>2. Judged \in Entry /\ Judged \in ToSet(lists[at])
  BY <1>1, ElementOfSeq DEF Judged, ToSet
<1>3. Ordered(lists[at], logged[at])
  BY <1>1 DEF Shape
<1>4. Judged.id <= logged[at]
  BY <1>1, <1>3 DEF Ordered, Judged
<1>5. ASSUME NEW i \in base .. Len(lists[at])
      PROVE  Judged.id < lists[at][i].id
  <2>1. i \in 1 .. Len(lists[at]) /\ base - 1 < i
    BY <1>1
  <2> QED
    BY <1>1, <1>3, <2>1 DEF Ordered, Judged
<1>6. \A f \in Kept : Judged.id < f.id
  BY <1>5 DEF Kept, From
<1> QED
  BY <1>1, <1>2, <1>4, <1>6, EntryFields

LEMMA RetentionInvInit == Init => RetentionInv
<1> SUFFICES ASSUME Init
             PROVE  RetentionInv
  OBVIOUS
<1>1. TypeOK
  BY RetentionAssumption DEF Init, TypeOK, Thread, Policy
<1>2. \A t \in Thread : Ordered(lists[t], logged[t])
  BY DEF Init, Ordered
<1>3. at = 0
  BY DEF Init
<1> QED
  BY <1>1, <1>2, <1>3
     DEF RetentionInv, Shape, Counted, Dated, Reasoned, NewestKept

-----------------------------------------------------------------------------
(* One step                                                                 *)

\* A list the cycle begins with: nothing retained, nothing released.
LEMMA StartListStep ==
    ASSUME Shape, NEW t \in Thread, StartList(t), late' \subseteq late
    PROVE  RetentionInv'
<1>1. /\ at' = t /\ t # 0
      /\ lists' = lists /\ logged' = logged /\ policies' = policies
      /\ base' = Len(lists[t]) + 1
      /\ released' = {}
      /\ lists[t] \in Seq(Entry)
  BY DEF StartList, Shape, TypeOK, Thread
<1>2. TypeOK'
  <2>1. now - Lifetime \in Int /\ now \in Clock /\ Len(lists[t]) \in Nat
    BY <1>1, RetentionAssumption DEF Shape, TypeOK
  <2> QED
    BY <1>1, <2>1 DEF StartList, Shape, TypeOK
<1>3. Shape'
  BY <1>1, <1>2 DEF Shape
<1>4. Kept' = {}
  BY <1>1, FromFacts DEF Kept
<1>5. Counted'
  <2>1. Cardinality({}) = 0 /\ MaxNumber \in Nat
    BY FS_EmptySet, RetentionAssumption
  <2>2. (Kept \ Late(at))' = {}
    BY <1>4
  <2>3. "MaxNumber" \in policies' => mCounter' = 0
    BY <1>1 DEF StartList
  <2> QED
    BY <1>4, <2>1, <2>2, <2>3 DEF Counted
<1>6. Dated'
  BY <1>1, <1>4 DEF Dated, StartList
<1>7. Reasoned' /\ NewestKept'
  BY <1>1 DEF Reasoned, NewestKept
<1> QED
  BY <1>3, <1>5, <1>6, <1>7 DEF RetentionInv

\* What a thread appends is younger than all the cycle has seen, and noted as
\* late.
LEMMA LogStep ==
    ASSUME RetentionInv, NEW t \in Thread, Log(t)
    PROVE  RetentionInv'
<1> DEFINE e == [id |-> logged[t] + 1, date |-> now]
<1> USE DEF RetentionInv
<1>1. /\ e \in Entry
      /\ lists[t] \in Seq(Entry)
      /\ logged \in [Thread -> Nat]
      /\ lists' = [lists EXCEPT ![t] = Append(lists[t], e)]
      /\ logged' = [logged EXCEPT ![t] = logged[t] + 1]
      /\ UNCHANGED <<now, policies, mDatetime, mCounter, at, began, released>>
      /\ e.id = logged[t] + 1
  <2>1. lists[t] \in Seq(Entry) /\ logged \in [Thread -> Nat] /\ now \in Clock
    BY DEF Shape, TypeOK
  <2>2. e \in Entry /\ e.id = logged[t] + 1
    BY <2>1 DEF Entry
  <2>3. /\ lists' = [lists EXCEPT ![t] = Append(lists[t], e)]
        /\ logged' = [logged EXCEPT ![t] = logged[t] + 1]
        /\ UNCHANGED <<now, policies, mDatetime, mCounter, at, began, released>>
    BY DEF Log
  <2> QED
    BY <2>1, <2>2, <2>3
<1>2. base' = IF at = t /\ base = Len(lists[t]) + 1 THEN base + 1 ELSE base
  BY DEF Log
<1>3. late' = IF at = 0 THEN late ELSE late \union {<<t, e>>}
  BY DEF Log
<1> HIDE DEF e
<1>4. /\ Append(lists[t], e) \in Seq(Entry)
      /\ Len(Append(lists[t], e)) = Len(lists[t]) + 1
      /\ \A i \in 1 .. Len(lists[t]) : Append(lists[t], e)[i] = lists[t][i]
      /\ Append(lists[t], e)[Len(lists[t]) + 1] = e
  BY <1>1, AppendProperties
<1>5. TypeOK'
  <2>1. lists' \in [Thread -> Seq(Entry)] /\ logged' \in [Thread -> Nat]
    BY <1>1, <1>4 DEF Shape, TypeOK
  <2>2. late' \subseteq Thread \X Entry
    BY <1>1, <1>3 DEF Shape, TypeOK
  <2>3. base' \in Nat \ {0}
    BY <1>2 DEF Shape, TypeOK
  <2>4. base' <= IF at = 0 THEN 1 ELSE Len(lists'[at]) + 1
    <3>1. CASE at = 0
      BY <1>2, <3>1 DEF Shape, TypeOK, Thread
    <3>2. CASE at # 0 /\ at # t
      BY <1>1, <1>2, <3>2 DEF Shape, TypeOK
    <3>3. CASE at = t /\ at # 0
      BY <1>1, <1>2, <1>4, <3>3 DEF Shape, TypeOK
    <3> QED
      BY <3>1, <3>2, <3>3
  <2> QED
    BY <1>1, <2>1, <2>2, <2>3, <2>4 DEF Shape, TypeOK
<1>6. ASSUME NEW w \in Thread
      PROVE  Ordered(lists[w], logged[w])'
  <2>1. CASE w # t
    BY <1>1, <2>1 DEF Shape, TypeOK
  <2>2. CASE w = t
    <3>1. lists'[t] = Append(lists[t], e) /\ logged'[t] = logged[t] + 1
      BY <1>1 DEF Shape, TypeOK
    <3>2. Ordered(lists[t], logged[t]) /\ logged[t] \in Nat
      BY <1>1 DEF Shape
    <3>3. \A i \in 1 .. Len(lists[t]) : lists[t][i].id \in Nat
      BY <1>1, ElementOfSeq, EntryFields
    <3>4. ASSUME NEW i \in 1 .. Len(lists'[t])
          PROVE  /\ i <= Len(lists[t]) => lists'[t][i] = lists[t][i]
                 /\ i > Len(lists[t]) => i = Len(lists[t]) + 1 /\ lists'[t][i] = e
      BY <1>1, <1>4, <3>1
    <3>5. \A i \in 1 .. Len(lists'[t]) : lists'[t][i].id <= logged'[t]
      BY <1>1, <3>1, <3>2, <3>3, <3>4 DEF Ordered
    <3>6. \A i, j \in 1 .. Len(lists'[t]) :
             i < j => lists'[t][i].id < lists'[t][j].id
      BY <1>1, <1>4, <3>1, <3>2, <3>3, <3>4 DEF Ordered
    <3> QED
      BY <2>2, <3>5, <3>6 DEF Ordered
  <2> QED
    BY <2>1, <2>2
<1>7. Shape'
  BY <1>5, <1>6 DEF Shape
<1>8. CASE at = 0
  BY <1>1, <1>7, <1>8 DEF Counted, Dated, Reasoned, NewestKept
<1>9. CASE at # 0
  <2>1. /\ at \in Thread
        /\ lists[at] \in Seq(Entry)
        /\ base \in 1 .. Len(lists[at]) + 1
        /\ Kept \subseteq ToSet(lists[at])
        /\ IsFiniteSet(Kept)
    BY <1>9, Here DEF Shape
  <2>2. /\ IsFiniteSet(Kept') /\ Kept' \subseteq Kept \union {e}
        /\ Kept \subseteq Kept'
        /\ (Kept \ Late(at))' \subseteq Kept \ Late(at)
        /\ ToSet(lists[at]) \subseteq ToSet(lists'[at])
        /\ at # t => lists'[at] = lists[at] /\ Kept' = Kept
    <3>1. CASE at # t
      <4>1. lists'[at] = lists[at] /\ base' = base /\ Late(at)' = Late(at)
        BY <1>1, <1>2, <1>3, <1>9, <2>1, <3>1 DEF Late, Shape, TypeOK
      <4> QED
        BY <1>1, <2>1, <4>1 DEF Kept
    <3>2. CASE at = t
      <4>1. lists'[at] = Append(lists[at], e)
        BY <1>1, <2>1, <3>2 DEF Shape, TypeOK
      <4>2. Late(at)' = Late(at) \union {e}
        <5>1. at' = at /\ late' = late \union {<<at, e>>}
          BY <1>1, <1>3, <1>9, <3>2
        <5> DEFINE noted == {y \in late : y[1] = at}
        <5>2. Late(at) = {x[2] : x \in noted}
          BY DEF Late
        <5>3. Late(at)' = {x[2] : x \in noted \union {<<at, e>>}}
          <6>1. Late(at)' = {x[2] : x \in {y \in late' : y[1] = at}}
            BY <5>1 DEF Late
          <6>2. {y \in late' : y[1] = at} = noted \union {<<at, e>>}
            BY <5>1
          <6> QED
            BY <6>1, <6>2
        <5> HIDE DEF noted
        <5>4. <<at, e>>[2] = e
          OBVIOUS
        <5> QED
          BY <5>2, <5>3, <5>4
      <4>3. CASE base = Len(lists[at]) + 1
        <5>1. Kept = {}
          BY <2>1, <4>3, FromFacts DEF Kept
        <5>2. base' = Len(lists'[at]) + 1
          BY <1>2, <1>4, <3>2, <4>1, <4>3
        <5>3. Kept' = {}
          <6>1. lists'[at] \in Seq(Entry) /\ at' = at
            BY <1>1, <1>4, <3>2, <4>1
          <6>2. From(lists'[at], Len(lists'[at]) + 1) = {}
            BY <6>1 DEF From
          <6> QED
            BY <5>2, <6>1, <6>2 DEF Kept
        <5>4. (Kept \ Late(at))' = {}
          BY <5>3
        <5>5. ToSet(lists'[at]) = ToSet(lists[at]) \union {e}
          BY <1>1, <2>1, <4>1, AppendFrom
        <5> QED
          BY <2>1, <3>2, <5>1, <5>3, <5>4, <5>5
      <4>4. CASE base # Len(lists[at]) + 1
        <5>1. base' = base
          BY <1>2, <3>2, <4>4
        <5>2. /\ Kept' = Kept \union {e}
              /\ ToSet(lists'[at]) = ToSet(lists[at]) \union {e}
          BY <1>1, <2>1, <4>1, <5>1, AppendFrom DEF Kept
        <5>3. IsFiniteSet(Kept')
          BY <2>1, <5>2, FS_AddElement
        <5>4. (Kept \ Late(at))' = Kept' \ Late(at)'
          BY <1>1
        <5> QED
          BY <3>2, <4>2, <5>2, <5>3, <5>4
      <4> QED
        BY <4>3, <4>4
    <3> QED
      BY <3>1, <3>2
  <2>3. /\ Cardinality(Kept) <= Cardinality(Kept')
        /\ Cardinality((Kept \ Late(at))') <= Cardinality(Kept \ Late(at))
        /\ {Cardinality(Kept), Cardinality(Kept'), Cardinality(Kept \ Late(at)),
            Cardinality((Kept \ Late(at))')} \subseteq Nat
    <3>1. IsFiniteSet(Kept \ Late(at)) /\ IsFiniteSet((Kept \ Late(at))')
      BY <2>1, <2>2, FS_Subset
    <3> QED
      BY <2>1, <2>2, <3>1, FS_Subset, FS_CardinalityType
  <2>4. Counted'
    <3>1. mCounter \in Nat /\ MaxNumber \in Nat
      BY RetentionAssumption DEF Shape, TypeOK
    <3>2. CASE "MaxNumber" \in policies
      <4>1. /\ Cardinality(Kept \ Late(at)) <= mCounter
            /\ Cardinality(Kept \ Late(at)) <= MaxNumber
            /\ mCounter <= Cardinality(Kept) \/ MaxNumber <= Cardinality(Kept)
        BY <1>9, <3>2 DEF Counted
      <4>2. /\ Cardinality((Kept \ Late(at))') <= mCounter
            /\ Cardinality((Kept \ Late(at))') <= MaxNumber
            /\ mCounter <= Cardinality(Kept') \/ MaxNumber <= Cardinality(Kept')
        BY <2>3, <3>1, <4>1
      <4> QED
        BY <1>1, <4>2 DEF Counted
    <3> QED
      BY <1>1, <3>2 DEF Counted
  <2>5. Dated'
    BY <1>1, <1>9, <2>2 DEF Dated
  <2>6. ASSUME NEW x \in released
        PROVE  Cardinality(YoungerThan(x)) <= Cardinality(YoungerThan(x)')
    <3>1. YoungerThan(x) \subseteq YoungerThan(x)' /\ YoungerThan(x)' \subseteq Kept'
      BY <2>2 DEF YoungerThan
    <3> QED
      BY <2>2, <3>1, FS_Subset
  <2>7. ASSUME NEW x \in released
        PROVE  /\ x.id <= logged'[at]
               /\ \A i \in 1 .. Len(lists'[at]) : lists'[at][i].id # x.id
    <3>1. /\ x.id <= logged[at] /\ x.id \in Nat /\ logged[at] \in Nat
          /\ \A i \in 1 .. Len(lists[at]) : lists[at][i].id # x.id
      BY <1>1, <1>9, <2>1, EntryFields DEF Reasoned, Shape, TypeOK
    <3>2. CASE at # t
      BY <1>1, <2>1, <2>2, <3>1, <3>2 DEF Shape, TypeOK
    <3>3. CASE at = t
      <4>1. lists'[at] = Append(lists[at], e) /\ logged'[at] = logged[at] + 1
        BY <1>1, <2>1, <3>3 DEF Shape, TypeOK
      <4> QED
        BY <1>1, <1>4, <3>1, <3>3, <4>1
    <3> QED
      BY <3>2, <3>3
  <2>8. Reasoned'
    <3>1. ASSUME NEW x \in released
          PROVE  /\ Cardinality(YoungerThan(x)) \in Nat
                 /\ Cardinality(YoungerThan(x)') \in Nat
      <4>1. YoungerThan(x) \subseteq Kept /\ YoungerThan(x)' \subseteq Kept'
        BY DEF YoungerThan
      <4> QED
        BY <2>1, <2>2, <4>1, FS_Subset, FS_CardinalityType
    <3> QED
      BY <1>1, <1>9, <2>6, <2>7, <3>1, RetentionAssumption DEF Reasoned
  <2>9. NewestKept'
    <3>1. (ToSet(lists[at]) \union released)
             \subseteq (ToSet(lists[at]) \union released)'
      BY <1>1, <2>2
    <3>2. ASSUME NEW x \in released, at = t
          PROVE  x.id < e.id
      <4>1. x.id <= logged[at] /\ x.id \in Nat /\ logged[at] \in Nat
        BY <1>1, <1>9, <2>1, EntryFields DEF Reasoned, Shape, TypeOK
      <4> QED
        BY <1>1, <3>2, <4>1
    <3> QED
      BY <1>1, <1>9, <2>2, <3>1, <3>2 DEF NewestKept
  <2> QED
    BY <1>7, <2>4, <2>5, <2>8, <2>9
<1> QED
  BY <1>8, <1>9

\* An entry is released for a reason that lasts, and what was retained stays.
LEMMA EraseStep ==
    ASSUME RetentionInv, Erase
    PROVE  RetentionInv'
<1> USE DEF RetentionInv
<1> DEFINE s == lists[at]
           r == RemoveAt(s, base - 1)
<1>1. /\ at # 0 /\ base > 1
      /\ OldEnough \/ Surplus
      /\ lists' = [lists EXCEPT ![at] = r]
      /\ base' = base - 1
      /\ released' = released \union {Judged}
      /\ UNCHANGED <<now, logged, policies, mDatetime, at, began, late>>
  BY DEF Erase
<1>2. /\ at \in Thread /\ s \in Seq(Entry)
      /\ base \in 2 .. Len(s) + 1
      /\ IsFiniteSet(Kept)
      /\ logged[at] \in Nat
      /\ mCounter \in Nat /\ MaxNumber \in Nat
  BY <1>1, Here, RetentionAssumption DEF Shape, TypeOK
<1>3. /\ r \in Seq(Entry) /\ Len(r) = Len(s) - 1
      /\ \A i \in 1 .. Len(s) - 1 : r[i] = IF i < base - 1 THEN s[i] ELSE s[i + 1]
      /\ From(r, base - 1) = From(s, base)
      /\ ToSet(s) = ToSet(r) \union {s[base - 1]}
  BY <1>2, RemoveFacts, RemoveFrom
<1>4. lists'[at] = r /\ \A t \in Thread : t # at => lists'[t] = lists[t]
  BY <1>1, <1>2 DEF Shape, TypeOK
<1>5. /\ Judged = s[base - 1] /\ Judged \in Entry
      /\ Judged.id <= logged[at]
      /\ \A f \in Kept : Judged.id < f.id
  BY <1>1, JudgedFacts DEF Judged
<1>6. Ordered(s, logged[at])
  BY <1>2 DEF Shape
<1>7. \A i \in 1 .. Len(s) : s[i] \in Entry /\ s[i].id \in Nat
  BY <1>2, ElementOfSeq, EntryFields
<1> HIDE DEF s, r
<1>8. mCounter' = IF "MaxNumber" \in policies /\ ~OldEnough
                  THEN mCounter + 1 ELSE mCounter
  BY DEF Erase, CountRetain
<1>9. TypeOK'
  <2>1. lists' \in [Thread -> Seq(Entry)]
    BY <1>1, <1>2, <1>3 DEF Shape, TypeOK
  <2>2. mCounter' \in Nat
    BY <1>2, <1>8
  <2>3. base' \in Nat \ {0} /\ base' <= Len(lists'[at]) + 1
    BY <1>1, <1>2, <1>3, <1>4
  <2> QED
    BY <1>1, <1>5, <2>1, <2>2, <2>3 DEF Shape, TypeOK
<1>10. ASSUME NEW i \in 1 .. Len(r)
       PROVE  \E k \in 1 .. Len(s) :
                 /\ k # base - 1 /\ r[i] = s[k]
                 /\ k = IF i < base - 1 THEN i ELSE i + 1
  <2>1. CASE i < base - 1
    BY <1>2, <1>3, <2>1
  <2>2. CASE ~(i < base - 1)
    <3>1. i + 1 \in 1 .. Len(s) /\ i + 1 # base - 1 /\ r[i] = s[i + 1]
      BY <1>2, <1>3, <2>2
    <3> QED
      BY <2>2, <3>1
  <2> QED
    BY <2>1, <2>2
<1>11. Ordered(r, logged[at])
  <2>1. \A i \in 1 .. Len(r) : r[i].id <= logged[at]
    BY <1>6, <1>10 DEF Ordered
  <2>2. ASSUME NEW i \in 1 .. Len(r), NEW j \in 1 .. Len(r), i < j
        PROVE  r[i].id < r[j].id
    <3>1. PICK k \in 1 .. Len(s) :
              r[i] = s[k] /\ k = IF i < base - 1 THEN i ELSE i + 1
      BY <1>10
    <3>2. PICK l \in 1 .. Len(s) :
              r[j] = s[l] /\ l = IF j < base - 1 THEN j ELSE j + 1
      BY <1>10
    <3>3. k < l
      BY <1>2, <2>2, <3>1, <3>2
    <3> QED
      BY <1>6, <3>1, <3>2, <3>3 DEF Ordered
  <2> QED
    BY <2>1, <2>2 DEF Ordered
<1>12. Shape'
  <2>1. ASSUME NEW t \in Thread
        PROVE  Ordered(lists[t], logged[t])'
    <3>1. CASE t = at
      BY <1>1, <1>4, <1>11, <3>1 DEF Ordered
    <3>2. CASE t # at
      BY <1>1, <1>4, <3>2 DEF Shape, Ordered
    <3> QED
      BY <3>1, <3>2
  <2> QED
    BY <1>9, <2>1 DEF Shape
<1>13. Kept' = Kept /\ Late(at)' = Late(at)
  BY <1>1, <1>3, <1>4 DEF Kept, Late, s
<1>14. IsFiniteSet(Kept \ Late(at))
  BY <1>2, FS_Subset
<1>15. /\ Cardinality(Kept) \in Nat
       /\ Cardinality(Kept \ Late(at)) \in Nat
  BY <1>2, <1>14, FS_CardinalityType
<1>16. Surplus => "MaxNumber" \in policies /\ MaxNumber <= mCounter
  BY <1>2 DEF Surplus
<1>17. Surplus => MaxNumber <= Cardinality(Kept)
  BY <1>1, <1>2, <1>15, <1>16 DEF Counted
<1>18. mCounter <= mCounter'
  BY <1>2, <1>8
<1>19. Counted'
  <2>1. CASE "MaxNumber" \in policies
    <3>1. /\ Cardinality(Kept \ Late(at)) <= mCounter
          /\ Cardinality(Kept \ Late(at)) <= MaxNumber
          /\ mCounter <= Cardinality(Kept) \/ MaxNumber <= Cardinality(Kept)
      BY <1>1, <2>1 DEF Counted
    <3>2. mCounter' = mCounter \/ Surplus
      BY <1>1, <1>8
    <3>3. /\ Cardinality(Kept \ Late(at)) <= mCounter'
          /\ mCounter' <= Cardinality(Kept) \/ MaxNumber <= Cardinality(Kept)
      BY <1>2, <1>8, <1>15, <1>17, <3>1, <3>2
    <3>4. (Kept \ Late(at))' = Kept \ Late(at)
      BY <1>1, <1>13
    <3> QED
      BY <1>1, <1>13, <3>1, <3>3, <3>4 DEF Counted
  <2> QED
    BY <1>1, <2>1 DEF Counted
<1>20. Dated'
  BY <1>1, <1>13 DEF Dated
<1>21. Reasoned'
  <2>1. \A x : YoungerThan(x)' = YoungerThan(x)
    BY <1>13 DEF YoungerThan
  <2>2. ASSUME NEW x \in released
        PROVE  /\ x.id <= logged[at]
               /\ \A i \in 1 .. Len(r) : r[i].id # x.id
               /\ \/ "OlderThan" \in policies /\ x.date < mDatetime
                  \/ /\ "MaxNumber" \in policies
                     /\ MaxNumber <= mCounter'
                     /\ MaxNumber <= Cardinality(YoungerThan(x))
    <3>1. \A i \in 1 .. Len(r) : r[i].id # x.id
      BY <1>1, <1>10 DEF Reasoned, s
    <3>2. MaxNumber <= mCounter => MaxNumber <= mCounter'
      BY <1>2, <1>8
    <3> QED
      BY <1>1, <3>1, <3>2 DEF Reasoned
  <2>3. \A i \in 1 .. Len(r) : r[i].id # Judged.id
    <3>1. ASSUME NEW k \in 1 .. Len(s), k # base - 1
          PROVE  s[k].id # s[base - 1].id
      <4>1. base - 1 \in 1 .. Len(s) /\ (k < base - 1 \/ base - 1 < k)
        BY <1>2, <3>1
      <4>2. s[k].id < s[base - 1].id \/ s[base - 1].id < s[k].id
        BY <1>6, <4>1 DEF Ordered
      <4> QED
        BY <1>7, <4>1, <4>2
    <3> QED
      BY <1>5, <1>10, <3>1
  <2>4. CASE OldEnough
    <3>1. "OlderThan" \in policies /\ Judged.date < mDatetime
      BY <1>5, <2>4, EntryFields DEF OldEnough, Shape, TypeOK
    <3> QED
      BY <1>1, <1>4, <1>5, <2>1, <2>2, <2>3, <3>1 DEF Reasoned
  <2>5. CASE Surplus
    <3>1. YoungerThan(Judged) = Kept
      <4>1. \A f \in Kept : f.id > Judged.id
        BY <1>5
      <4> QED
        BY <4>1 DEF YoungerThan
    <3>2. MaxNumber <= mCounter'
      BY <1>2, <1>8, <1>16, <2>5
    <3> QED
      BY <1>1, <1>4, <1>5, <1>16, <1>17, <2>1, <2>2, <2>3, <2>5, <3>1, <3>2
         DEF Reasoned
  <2> QED
    BY <1>1, <2>4, <2>5
<1>22. NewestKept'
  <2>1. (ToSet(lists[at]) \union released)' = ToSet(lists[at]) \union released
    BY <1>1, <1>3, <1>4, <1>5 DEF s
  <2> QED
    BY <1>1, <1>5, <1>13, <2>1 DEF NewestKept
<1> QED
  BY <1>12, <1>19, <1>20, <1>21, <1>22

\* What is retained is counted, is young enough, and is younger than all that
\* was released before if the clock ran.
LEMMA RetainStep ==
    ASSUME RetentionInv, Retain
    PROVE  RetentionInv'
<1> USE DEF RetentionInv
<1>1. /\ at # 0 /\ base > 1
      /\ ~OldEnough /\ ~Surplus
      /\ base' = base - 1
      /\ UNCHANGED <<now, lists, logged, policies, mDatetime, at, began, released,
                     late>>
      /\ mCounter' = IF "MaxNumber" \in policies THEN mCounter + 1 ELSE mCounter
  BY DEF Retain, CountRetain
<1>2. /\ at \in Thread /\ lists[at] \in Seq(Entry)
      /\ base \in 2 .. Len(lists[at]) + 1
      /\ IsFiniteSet(Kept)
      /\ mCounter \in Nat /\ MaxNumber \in Nat /\ mDatetime \in Int
  BY <1>1, Here, RetentionAssumption DEF Shape, TypeOK
<1>3. /\ Judged = lists[at][base - 1] /\ Judged \in Entry
      /\ Judged \in ToSet(lists[at])
      /\ \A f \in Kept : Judged.id < f.id
      /\ Judged \notin Kept
  BY <1>1, JudgedFacts DEF Judged
<1>4. Kept' = Kept \union {Judged} /\ Late(at)' = Late(at)
  BY <1>1, <1>2, <1>3, FromFacts DEF Kept, Late
<1>5. Shape'
  BY <1>1, <1>2 DEF Shape, TypeOK, Ordered
<1>6. /\ IsFiniteSet(Kept') /\ IsFiniteSet(Kept \ Late(at))
      /\ Cardinality(Kept') = Cardinality(Kept) + 1
      /\ Cardinality(Kept) \in Nat
      /\ Cardinality(Kept \ Late(at)) \in Nat
  BY <1>2, <1>3, <1>4, FS_AddElement, FS_Subset, FS_CardinalityType
<1>7. /\ Cardinality(Kept' \ Late(at)) \in Nat
      /\ Cardinality(Kept' \ Late(at)) <= Cardinality(Kept \ Late(at)) + 1
  <2> DEFINE more == (Kept \ Late(at)) \union {Judged}
  <2>1. IsFiniteSet(more) /\ Cardinality(more) <= Cardinality(Kept \ Late(at)) + 1
    BY <1>6, FS_AddElement
  <2>2. Kept' \ Late(at) \in SUBSET more
    BY <1>4
  <2> HIDE DEF more
  <2>3. /\ IsFiniteSet(Kept' \ Late(at))
        /\ Cardinality(Kept' \ Late(at)) <= Cardinality(more)
    BY <2>1, <2>2, FS_Subset
  <2> QED
    BY <1>6, <2>1, <2>3, FS_CardinalityType
<1>8. Counted'
  <2>1. CASE "MaxNumber" \in policies
    <3>1. /\ Cardinality(Kept \ Late(at)) <= mCounter
          /\ mCounter <= Cardinality(Kept) \/ MaxNumber <= Cardinality(Kept)
      BY <1>1, <2>1 DEF Counted
    <3>2. mCounter < MaxNumber /\ mCounter' = mCounter + 1
      BY <1>1, <2>1 DEF Surplus
    <3>3. /\ Cardinality(Kept' \ Late(at)) <= mCounter'
          /\ Cardinality(Kept' \ Late(at)) <= MaxNumber
          /\ mCounter' <= Cardinality(Kept') \/ MaxNumber <= Cardinality(Kept')
      BY <1>2, <1>6, <1>7, <3>1, <3>2
    <3>4. (Kept \ Late(at))' = Kept' \ Late(at)
      BY <1>1, <1>4
    <3> QED
      BY <1>1, <3>3, <3>4 DEF Counted
  <2> QED
    BY <1>1, <2>1 DEF Counted
<1>9. Dated'
  BY <1>1, <1>4 DEF Dated, OldEnough
<1>10. Reasoned'
  <2>1. ASSUME NEW x \in released
        PROVE  /\ Cardinality(YoungerThan(x)) <= Cardinality(YoungerThan(x)')
               /\ Cardinality(YoungerThan(x)) \in Nat
               /\ Cardinality(YoungerThan(x)') \in Nat
    <3>1. /\ YoungerThan(x) \subseteq YoungerThan(x)'
          /\ YoungerThan(x) \subseteq Kept
          /\ YoungerThan(x)' \subseteq Kept'
      BY <1>4 DEF YoungerThan
    <3>2. IsFiniteSet(YoungerThan(x)) /\ IsFiniteSet(YoungerThan(x)')
      BY <1>2, <1>6, <3>1, FS_Subset
    <3> QED
      BY <3>1, <3>2, FS_Subset, FS_CardinalityType
  <2>2. MaxNumber <= mCounter => MaxNumber <= mCounter'
    BY <1>1, <1>2
  <2>3. ASSUME NEW x \in released,
               MaxNumber <= Cardinality(YoungerThan(x))
        PROVE  MaxNumber <= Cardinality(YoungerThan(x)')
    BY <1>2, <2>1, <2>3
  <2> QED
    BY <1>1, <2>2, <2>3 DEF Reasoned
<1>11. NewestKept'
  <2> DEFINE known == ToSet(lists[at]) \union released
  <2>1. SUFFICES ASSUME \A e, f \in known : e.id < f.id => e.date <= f.date,
                        NEW x \in released
                 PROVE  x.id < Judged.id
    BY <1>1, <1>4 DEF NewestKept
  <2>2. x \in Entry /\ x.id # Judged.id
    <3>1. base - 1 \in 1 .. Len(lists[at])
      BY <1>2
    <3> QED
      BY <1>1, <1>3, <3>1 DEF Reasoned, Shape, TypeOK
  <2>3. ~(MaxNumber <= mCounter /\ "MaxNumber" \in policies)
    BY <1>1, <1>2 DEF Surplus
  <2>4. "OlderThan" \in policies /\ x.date < mDatetime
    BY <1>1, <2>3 DEF Reasoned
  <2>5. mDatetime <= Judged.date
    BY <1>1, <2>4 DEF OldEnough
  <2>6. ~(Judged.id < x.id)
    BY <1>2, <1>3, <2>1, <2>2, <2>4, <2>5, EntryFields
  <2> QED
    BY <1>3, <2>2, <2>6, EntryFields
<1> QED
  BY <1>5, <1>8, <1>9, <1>10, <1>11

LEMMA RetentionInvStep == RetentionInv /\ [Next]_vars => RetentionInv'
<1> SUFFICES ASSUME RetentionInv, [Next]_vars
             PROVE  RetentionInv'
  OBVIOUS
<1>1. ASSUME UNCHANGED <<lists, logged, policies, mDatetime, mCounter, base,
                         began, released, late>>,
             now' \in Clock, at' = 0 /\ at # 0 => base = 1,
             at' \in {at, 0}
      PROVE  RetentionInv'
  <2>1. Shape'
    BY <1>1 DEF RetentionInv, Shape, TypeOK, Ordered
  <2>2. CASE at' = at
    <3>1. Kept' = Kept /\ Late(at)' = Late(at) /\ \A x : YoungerThan(x)' = YoungerThan(x)
      BY <1>1, <2>2 DEF Kept, Late, YoungerThan
    <3>2. (Kept \ Late(at))' = Kept \ Late(at)
      BY <3>1
    <3> QED
      BY <1>1, <2>1, <2>2, <3>1, <3>2
         DEF RetentionInv, Counted, Dated, Reasoned, NewestKept
  <2>3. CASE at' = 0
    BY <2>1, <2>3 DEF RetentionInv, Counted, Dated, Reasoned, NewestKept
  <2> QED
    BY <1>1, <2>2, <2>3
<1>2. CASE Tick
  <2>1. /\ UNCHANGED <<lists, logged, policies, late>>
        /\ UNCHANGED <<mDatetime, mCounter, at, base, began, released>>
        /\ now' \in Clock
    BY <1>2 DEF Tick, cycleVars
  <2> QED
    BY <1>1, <2>1
<1>3. CASE \E t \in Thread : Log(t)
  BY <1>3, LogStep
<1>4. CASE ReleaseLogs
  BY <1>4, StartListStep, RetentionAssumption
     DEF ReleaseLogs, RetentionInv, Thread
<1>5. CASE NextList
  <2>1. at + 1 \in Thread
    BY <1>5, RetentionAssumption DEF NextList, RetentionInv, Shape, TypeOK, Thread
  <2> QED
    BY <1>5, <2>1, StartListStep DEF NextList, RetentionInv
<1>6. CASE Erase \/ Retain
  BY <1>6, EraseStep, RetainStep
<1>7. CASE Return
  BY <1>1, <1>7 DEF Return, RetentionInv, Shape, TypeOK
<1>8. CASE UNCHANGED vars
  <2>1. /\ UNCHANGED <<now, lists, logged, policies, late>>
        /\ UNCHANGED <<mDatetime, mCounter, at, base, began, released>>
    BY <1>8 DEF vars, cycleVars
  <2>2. now' \in Clock
    BY <2>1 DEF RetentionInv, Shape, TypeOK
  <2> QED
    BY <1>1, <2>1, <2>2
<1> QED
  BY <1>2, <1>3, <1>4, <1>5, <1>6, <1>7, <1>8 DEF Next

\* Every reachable state of a cycle is one the invariant describes.
THEOREM RetentionInvariance == Spec => []RetentionInv
  BY RetentionInvInit, RetentionInvStep, PTL DEF Spec

\* Every variable has its type: the reverse iterator of releaseLogs never leaves
\* its list, whatever is erased and appended.
THEOREM RetentionTypeCorrect == Spec => []TypeOK
<1>1. RetentionInv => TypeOK
  BY DEF RetentionInv, Shape
<1> QED
  BY <1>1, RetentionInvariance, PTL

LEMMA DoneFacts ==
    ASSUME TypeOK, ListDone
    PROVE  at # 0 /\ Kept = ToSet(lists[at])
  BY Here, FromFacts DEF ListDone, Kept

\* However many entries a list had, the cycle leaves at most the maximal number
\* and the one that was appended meanwhile.
THEOREM MaxNumberCorrect == Spec => []AtMostMaxNumber
<1>1. RetentionInv => AtMostMaxNumber
  BY DoneFacts DEF RetentionInv, Shape, Counted, AtMostMaxNumber
<1> QED
  BY <1>1, RetentionInvariance, PTL

\* However the clock moves, the cycle leaves nothing that was too old when it
\* came to the list.
THEOREM OlderThanCorrect == Spec => []NothingExpired
<1>1. RetentionInv => NothingExpired
  BY DoneFacts DEF RetentionInv, Shape, Dated, NothingExpired
<1> QED
  BY <1>1, RetentionInvariance, PTL

\* Neither policy releases an entry the program asked to keep.
THEOREM ReleaseJustified == Spec => []ReleasedForAReason
<1>1. ASSUME RetentionInv, at # 0, NEW e \in released
      PROVE  \/ "OlderThan" \in policies /\ e.date < began - Lifetime
             \/ /\ "MaxNumber" \in policies
                /\ MaxNumber <= Cardinality({f \in ToSet(lists[at]) : f.id > e.id})
  <2>1. CASE "OlderThan" \in policies /\ e.date < mDatetime
    BY <1>1, <2>1 DEF RetentionInv, Dated
  <2>2. CASE /\ "MaxNumber" \in policies
             /\ MaxNumber <= Cardinality(YoungerThan(e))
    <3> DEFINE younger == {f \in ToSet(lists[at]) : f.id > e.id}
    <3>1. /\ lists[at] \in Seq(Entry) /\ MaxNumber \in Nat
          /\ Kept \subseteq ToSet(lists[at])
          /\ 1 \in 1 .. Len(lists[at]) + 1
      BY <1>1, Here, RetentionAssumption DEF RetentionInv, Shape
    <3>2. IsFiniteSet(ToSet(lists[at]))
      BY <3>1, FromFacts
    <3>3. IsFiniteSet(younger)
      BY <3>2, FS_Subset
    <3>4. YoungerThan(e) \in SUBSET younger
      BY <3>1 DEF YoungerThan
    <3> HIDE DEF younger
    <3>5. /\ Cardinality(YoungerThan(e)) <= Cardinality(younger)
          /\ Cardinality(YoungerThan(e)) \in Nat
          /\ Cardinality(younger) \in Nat
      BY <3>3, <3>4, FS_Subset, FS_CardinalityType
    <3>6. MaxNumber <= Cardinality(younger)
      BY <2>2, <3>1, <3>5
    <3> QED
      BY <2>2, <3>6 DEF younger
  <2> QED
    BY <1>1, <2>1, <2>2 DEF RetentionInv, Reasoned
<1>2. RetentionInv => ReleasedForAReason
  BY <1>1 DEF ReleasedForAReason
<1> QED
  BY <1>2, RetentionInvariance, PTL

\* "The oldest ones will be released" (LogRetentionPolicy.hpp): where the clock
\* ran forward, all that is left of a list is younger than all that is gone.
THEOREM OldestReleased == Spec => []KeepsNewest
<1>1. RetentionInv => KeepsNewest
  BY DoneFacts DEF RetentionInv, Shape, NewestKept, KeepsNewest
<1> QED
  BY <1>1, RetentionInvariance, PTL
=============================================================================
