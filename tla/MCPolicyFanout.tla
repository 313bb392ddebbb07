---------------------------- MODULE MCPolicyFanout ----------------------------
(* Sandboxes that share one lock shard.                                    *)
EXTENDS PolicyFanout, TLC

OneShard == [s \in Sandboxes |-> 1]

(* Snapshots, calls and sandboxes are only compared for equality.          *)
Symmetry == Permutations(Snapshots) \cup Permutations(Sandboxes) \cup Permutations(Calls)
===============================================================================
