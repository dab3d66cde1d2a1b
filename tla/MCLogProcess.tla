---------------------------- MODULE MCLogProcess ----------------------------
(***************************************************************************)
(* A main thread that logs warnings, looks for log files and crashes in    *)
(* every way, beside a thread that logs information, counts and removes    *)
(* the streams.                                                            *)
(***************************************************************************)
EXTENDS LogProcess

MCThread == {1, 2}
MCLogs == <<{"Warning"}, {"Info"}>>
MCCalls == <<{"getNumberOfLogEntries", "findLogFiles"},
             {"countLogLevels", "removeOutstreams"}>>

\* The process is one of those the theorems of LogProcessProofs are about.
ASSUME TheoremsApply ==
    /\ IncidentsApart
    /\ HandlerStays
    /\ OnlyHandlerWrites
    /\ Format = "String"
    /\ NewestStays
    /\ \E i \in Thread : OnlyOneCrashes(i)
=============================================================================
