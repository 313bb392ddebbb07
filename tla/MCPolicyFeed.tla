------------------------------ MODULE MCPolicyFeed ------------------------------
(* One service with its hosts.                                             *)
EXTENDS PolicyFeed, TLC

(* The environments that each end has on its own allow all of the feed.    *)
MCResponses == [gen : 1..MaxGeneration, body : Bundles, etag : 1..MaxGeneration]
MCHeaders == [applied : Generations, body : Bundles \cup {None}, pending : Generations,
              stalled : BOOLEAN, rejected : Generations]

ASSUME EndsAllow == FeedWithin

Symmetry == Permutations(Bundles)
=================================================================================
