---------------------------- MODULE MCLogIncident ----------------------------
(***************************************************************************)
(* A configured program: the last thread of the map logs incidents while   *)
(* other threads only log.                                                 *)
(***************************************************************************)
EXTENDS Log

MCThread == {1, 2, 3}
MCLogs == <<{"Info"}, {"Warning"}, {"Trace"}>>
NoCalls == [t \in MCThread |-> {}]

\* The configured program of the passing run is one of those the theorems of
\* LogFileProofs are about.
ASSUME TheoremsApply ==
    Thread = MCThread =>
        /\ OnlyIncidentThread(2)
        /\ NobodyCalls("reset") /\ NobodyCalls("writeToFile")
        /\ FilesOpen
        /\ NewestStays

\* Both threads log incidents.
PairThread == {1, 2}
PairIncidents == <<{"Warning"}, {"Warning"}>>

\* One thread logs incidents, the other one information.
PairMixed == <<{"Warning"}, {"Info"}>>
PairNoCalls == [t \in PairThread |-> {}]

\* A program of one thread.
OneThread == {1}
OneIncident == <<{"Warning"}>>
OneNoCalls == [t \in OneThread |-> {}]
=============================================================================
