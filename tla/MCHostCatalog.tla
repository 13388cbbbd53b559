---------------------------- MODULE MCHostCatalog ----------------------------
(* Two hosts that register, one of them in the namespace of a JWT host.    *)
EXTENDS HostCatalog, TLC

CONSTANTS ns1, ns2, h1, h2, h3
HostNs == h1 :> ns1 @@ h2 :> ns2 @@ h3 :> ns1

CallSymmetry == Permutations(Calls)
=============================================================================
