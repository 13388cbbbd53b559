----------------------- MODULE MCHostCallDispatcher -----------------------
(* Small instance of HostCallDispatcher: two hosts of one namespace, two   *)
(* sockets (a host can be registered again on another one) and two calls.  *)
EXTENDS HostCallDispatcher
=============================================================================
