------------------------ MODULE MCExecutionContour ------------------------
(***************************************************************************)
(* Small instances of ExecutionContour: two executions of up to two        *)
(* attempts over two hosts (contour), and one execution of up to three     *)
(* attempts over a host id that two namespaces use (contour_ends).         *)
(***************************************************************************)
EXTENDS ExecutionContour, TLC

MCRequests == Executions \X (1..MaxAttempts)

\* Executions and hosts are interchangeable (safety only).
ContourSymmetry == Permutations(Executions) \cup Permutations(Hosts)
=============================================================================
