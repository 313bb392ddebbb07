--------------------------- MODULE MCPolicyReceiver ---------------------------
(* One receiver facing a service that may answer anything.                 *)
EXTENDS PolicyReceiver, TLC

CONSTANT MaxGeneration,  \* generations the service assigns
         ETags           \* entity tags it sends with them

MCResponses == [gen : 1..MaxGeneration, body : Bundles, etag : ETags]

(* Bundles are only compared for equality.                                 *)
Symmetry == Permutations(Bundles)
===============================================================================
