------------------------ MODULE MCExecutionObservers ------------------------
(***************************************************************************)
(* Observers of two namespaces, two of them in the namespace of the first  *)
(* of two executions, each with up to one retry.                           *)
(***************************************************************************)
EXTENDS ExecutionObservers, TLC

CONSTANTS ns1, ns2, e1, e2, c1, c2, c3
ClientNs == c1 :> ns1 @@ c2 :> ns1 @@ c3 :> ns2
ExecNs == e1 :> ns1 @@ e2 :> ns2
=============================================================================
