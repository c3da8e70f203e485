---------------------------- MODULE MCAsyncLog -----------------------------
EXTENDS AsyncLog

(* Enough for a second file of the rpc log on either day; the app log's     *)
(* line makes its writer run.                                               *)
LineLimits == [k \in Logs |-> IF k = "rpc" THEN 3 ELSE 1]
=============================================================================
