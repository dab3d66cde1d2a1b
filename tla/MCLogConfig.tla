----------------------------- MODULE MCLogConfig -----------------------------
(***************************************************************************)
(* One thread changes streams, callbacks, policies and the folder while    *)
(* another one logs incidents.                                             *)
(***************************************************************************)
EXTENDS Log

MCThread == {1, 2}
MCLogs == <<{"Info"}, {"Warning"}>>
MCCalls == <<{"registerCallback", "removeCallbacks", "registerOutstream",
              "removeOutstreams", "registerLogRententionPolicy",
              "removeLogRetentionPolicies", "applyDefaultConfiguration"}, {}>>
=============================================================================
