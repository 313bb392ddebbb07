----------------------------- MODULE PolicyTypes -----------------------------
(***************************************************************************)
(* What the policy service and the hosts' policy receivers share: signed   *)
(* bundles and the snapshots made from them.                               *)
(***************************************************************************)
EXTENDS AtomicFile, Integers, FiniteSets

CONSTANTS Hosts,       \* host managers (and their client certificates)
          Bundles,     \* signed bundles, told apart by their digest
          None         \* no bundle

ASSUME NoneIsNoBundle == None \notin Bundles

(* A generation number together with the bundle it names.                  *)
Snapshot == [gen : Nat, body : Bundles \cup {None}]
Unmanaged == [gen |-> 0, body |-> None]
==============================================================================
