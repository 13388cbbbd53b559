------------------------- MODULE MCRemoteExecution -------------------------
(* Small instance of RemoteExecution: two callers, whose requests may be   *)
(* incomplete, at most two attempts each, one runtime server.  A transport *)
(* is told to try twice, or not at all, has an empty retryOn503 option, or *)
(* none.                                                                   *)
EXTENDS RemoteExecution

MCRequests == Callers \X (1..MaxAttempts)

MCRetryOptions == {Undefined} \cup [maxAttempts : {Undefined, 0, 2}]
=============================================================================
