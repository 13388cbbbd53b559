---------------------------- MODULE TopOperations ----------------------------
(***************************************************************************)
(* The "top operations" of the observability report                        *)
(* (observability/collector.ts, buildHealth and mergeTopOperations): the   *)
(* most frequent HTTP routes and domain operations, among them at least    *)
(* one domain operation.                                                   *)
(*                                                                         *)
(* stats maps an operation to its count and maximal duration.  The code    *)
(* keeps equals in their order of insertion; here a slice of a sorted list *)
(* is any set that the sort may put in front.                              *)
(***************************************************************************)
EXTENDS Naturals, FiniteSets

\* The order of the sort: by count, then by maximal duration.
Outranks(stats, p, o) ==
  \/ stats[p].count > stats[o].count
  \/ stats[p].count = stats[o].count /\ stats[p].max > stats[o].max

\* sort(...).slice(0, n)
Slices(stats, ops, n) ==
  {s \in SUBSET ops :
     /\ Cardinality(s) = IF Cardinality(ops) < n THEN Cardinality(ops) ELSE n
     /\ \A o \in s, p \in ops \ s : ~Outranks(stats, p, o)}

\* Mutant: the domain operation is appended to a full list.
MakeRoomNever(stats, sliced, domain, limit) ==
  {sliced \cup d : d \in Slices(stats, domain, 1)}

\* The last of the list makes room for the first domain operation.
MakeRoom(stats, sliced, domain, limit) ==
  {s \cup d : s \in Slices(stats, sliced, limit - 1), d \in Slices(stats, domain, 1)}

\* mergeTopOperations over the slice of HTTP routes that buildHealth passes.
MergeTopOperations(stats, http, domain, limit) ==
  UNION {IF domain = {} \/ sliced \cap domain # {}
           THEN {sliced} ELSE MakeRoom(stats, sliced, domain, limit) :
         sliced \in UNION {Slices(stats, h \cup domain, limit) :
                           h \in Slices(stats, http, limit)}}
=============================================================================
