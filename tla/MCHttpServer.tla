---------------------------- MODULE MCHttpServer ----------------------------
(***************************************************************************)
(* Small instance of HttpServer: two requests of any kind, two upstreams   *)
(* and a report of two operations.                                         *)
(***************************************************************************)
EXTENDS HttpServer, TLC

MCUpstreams == <<"rest", "workflow">>
ServerSymmetry == Permutations(Exchanges)
=============================================================================
