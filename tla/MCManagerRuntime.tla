-------------------------- MODULE MCManagerRuntime --------------------------
(* The manager runtime with its counters bounded for model checking.  A    *)
(* behaviour is either about operations, with managers that have no feed,  *)
(* or about a feed, with every way to start a manager.                     *)
EXTENDS ManagerRuntime

CONSTANTS MaxGenerations,   \* operations begun by one process
          MaxSubscriptions, \* event streams opened in one process
          MaxCalls,         \* requests sent in a behaviour about operations
          MaxEnrolling      \* requests sent in one about the feed

VARIABLES load, sent

Limit(l) == IF l = "operations" THEN MaxCalls ELSE MaxEnrolling
KindsOf(l) == IF l = "operations" THEN StoreKinds ELSE FeedKinds

(* Processes are numbered as they start, and a request comes in the first  *)
(* slot that is free: neither numbering is anything but a name.            *)
InOrder ==
    /\ \A p \in Processes : pc[p] = "unborn" /\ pc'[p] # "unborn" =>
          \A q \in Processes : q < p => pc[q] # "unborn"
    /\ \A r \in Requests : req[r] = Free /\ req'[r] # Free =>
          \A s \in Requests : s < r => req[s] # Free

MCInit == ManagerInit /\ load \in {"operations", "feeds"} /\ sent = 0

MCNext ==
    /\ ManagerNext
    /\ nextGeneration' <= MaxGenerations
    /\ Len(channel') <= MaxSubscriptions
    /\ \A r \in Requests : req'[r].kind \in KindsOf(load) \cup {"none"}
    /\ load = "operations" => \A p \in Processes : flag'[p] = "none"
    /\ sent' = sent + Cardinality({r \in Requests : req[r] = Free /\ req'[r] # Free})
    /\ sent' <= Limit(load)
    /\ UNCHANGED load
    /\ InOrder

MCVars == <<managerVars, load, sent>>
MCSpec == MCInit /\ [][MCNext]_MCVars
MCFairSpec == MCSpec /\ Fairness
=============================================================================
