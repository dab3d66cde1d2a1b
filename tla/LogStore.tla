------------------------------ MODULE LogStore ------------------------------
(***************************************************************************)
(* What the log-thread map promises (src/include/ee/Log.hpp:81-93 and the  *)
(* comments of src/src/Log.cpp): a list of a thread is never taken away,   *)
(* only its own thread adds to it, in the order of its calls, and whatever *)
(* releases entries leaves the others as they are, in their order.  Which  *)
(* ones go is the policies' to say (Retention).                            *)
(***************************************************************************)
EXTENDS Naturals, Sequences

CONSTANTS Thread, LogLevel, MaxLogs

VARIABLES nodes, lists

storeVars == <<nodes, lists>>

Init ==
    /\ nodes = {}
    /\ lists = [t \in Thread |-> <<>>]

\* t gets its list, or finds the one that has its thread id.
Attach(t) ==
    /\ nodes' = nodes \union {t}
    /\ UNCHANGED lists

\* t stores the entry of its call number id: newer than all that are stored.
Record(t, id, level) ==
    /\ t \in nodes
    /\ \A i \in DOMAIN lists[t] : lists[t][i].id < id
    /\ lists' = [lists EXCEPT
         ![t] = Append(@, [thread |-> t, id |-> id, level |-> level])]
    /\ UNCHANGED nodes

\* What may stay of n entries: the old indices of those that stay, in order.
Ascending(n) ==
    {h \in UNION {[1 .. m -> 1 .. n] : m \in 0 .. n} :
        \A i, j \in DOMAIN h : i < j => h[i] < h[j]}

Selected(s, h) == [i \in DOMAIN h |-> s[h[i]]]

\* Any entries of t are released, and the others keep their order.
Release(t) ==
    /\ \E h \in Ascending(Len(lists[t])) :
         lists' = [lists EXCEPT ![t] = Selected(@, h)]
    /\ UNCHANGED nodes

Next ==
    \E t \in Thread :
        \/ Attach(t)
        \/ \E id \in 1 .. MaxLogs, level \in LogLevel : Record(t, id, level)
        \/ Release(t)

Spec == Init /\ [][Next]_storeVars
=============================================================================
