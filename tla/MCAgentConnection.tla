------------------------- MODULE MCAgentConnection -------------------------
(***************************************************************************)
(* Small instances of AgentConnection: the agent of one host connects with *)
(* as many sockets as the cfg lists, over storage that answers at once or  *)
(* with the handlers of other sockets interleaving.                        *)
(***************************************************************************)
EXTENDS AgentConnection

CONSTANTS ns1, h1
OneHost == [s \in Sockets |-> <<ns1, h1>>]
=============================================================================
