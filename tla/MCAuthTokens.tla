---------------------------- MODULE MCAuthTokens ----------------------------
(***************************************************************************)
(* Two agents in two namespaces and a handful of requests; requests and    *)
(* tokens are interchangeable.                                             *)
(***************************************************************************)
EXTENDS AuthTokens, TLC

TokenSymmetry == Permutations(Calls) \cup Permutations(Tokens)
=============================================================================
