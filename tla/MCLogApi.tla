------------------------------ MODULE MCLogApi ------------------------------
(***************************************************************************)
(* Two threads that use the whole interface of Log on a configured program.*)
(***************************************************************************)
EXTENDS Log

MCThread == {1, 2}
MCLogs == <<{"Warning"}, {"Info"}>>
MCCalls == <<{"countLogLevels", "getNumberOfLogEntries", "exit"},
             {"reset", "releaseLogs", "writeToFile", "SuspendLogging"}>>
=============================================================================
