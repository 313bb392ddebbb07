---------------------------- MODULE MCPolicyService ----------------------------
(* The policy service with hosts that may report and ask for anything.     *)
EXTENDS PolicyService, TLC

(* A host stuck on its first generation, and one that applied it, perhaps  *)
(* with other bytes than were published.                                   *)
Fresh == [applied |-> 0, body |-> None, pending |-> 0, stalled |-> FALSE, rejected |-> 0]
MCHeaders == {[Fresh EXCEPT !.pending = 1, !.stalled = TRUE]}
             \cup {[Fresh EXCEPT !.applied = 1, !.body = b] : b \in Bundles}

(* Bundles are only compared for equality.                                 *)
Symmetry == Permutations(Bundles)
===============================================================================
