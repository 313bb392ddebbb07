---------------------------- MODULE NetworkControl ----------------------------
(***************************************************************************)
(* The daemon's network control: NetworkPolicyManager and PortManager      *)
(* share one transaction lock (NetworkTransactionCoordinator), change the  *)
(* live backend first, then sandbox.json, and undo the live change when    *)
(* the save fails.  A restart rebuilds the backend from sandbox.json.      *)
(*                                                                         *)
(* A policy is a local part with an organization guard; it matters only    *)
(* whether it lets the replies of a published UDP port out.  A forward is  *)
(* a listener (protocol, host address) with the guest port it leads to.    *)
(***************************************************************************)
EXTENDS AtomicFile

CONSTANTS Locals,        \* local network policies
          Orgs,          \* organization policies, NoOrg among them
          NoOrg,
          SilentLocals,  \* those that drop a published UDP port's replies
          SilentOrgs,
          Forwards,      \* records [proto, host, guest]
          CallFaults     \* {"error"} when a backend call may fail for reasons of its own

ASSUME OrgsKnown == NoOrg \in Orgs /\ SilentOrgs \subseteq Orgs /\ SilentLocals \subseteq Locals
ASSUME ForwardsKnown == \A f \in Forwards : f.proto \in {"tcp", "udp"}
ASSUME CallFaultsKnown == CallFaults \subseteq {"error"}

VARIABLES running,   \* the daemon and its backend are up
          enforced,  \* the policy the data path enforces
          forwards,  \* the bound listeners
          current,   \* NetworkPolicyManager.current
          saved,     \* sandbox.json: [local, org, ports]
          tx         \* the holder of the transaction lock and its next step

netVars == <<running, enforced, forwards, current, saved, tx>>

Effective(local, org) == [local |-> local, org |-> org]
FailClosedPolicy(fs) ==
    Effective(IF \E f \in fs : f.proto = "udp" THEN "udp replies" ELSE "deny", NoOrg)
Barriers == {Effective("udp replies", NoOrg), Effective("deny", NoOrg)}

RepliesAllowed(p) == p.local \notin SilentLocals \cup {"deny"} /\ p.org \notin SilentOrgs
ValidFor(p, fs) == (\E f \in fs : f.proto = "udp") => RepliesAllowed(p)

SameKey(f, g) == f.proto = g.proto /\ f.host = g.host
WithoutKey(fs, f) == {g \in fs : ~SameKey(f, g)}
(* The boot-time forward map keeps the last spec of a listener.            *)
Appended(fs, f) == WithoutKey(fs, f) \cup {f}

Free == [op |-> "none"]
BootPolicy == Effective(saved.local, saved.org)

NetBooted(config) ==
    /\ running = TRUE /\ saved = config
    /\ enforced = Effective(config.local, config.org) /\ current = enforced
    /\ forwards = config.ports
    /\ tx = Free

NetInit ==
    \E l \in Locals, o \in Orgs : NetBooted([local |-> l, org |-> o, ports |-> {}])

--------------------------------------------------------------------------------
(* NetworkPolicyManager.                                                       *)

Set(l) ==
    /\ running /\ tx = Free
    /\ LET p == Effective(l, current.org) IN
       /\ ValidFor(p, saved.ports) /\ ValidFor(p, forwards)
       /\ enforced' = p
       /\ tx' = [op |-> "set", at |-> "save", policy |-> p]
    /\ UNCHANGED <<running, forwards, current, saved>>

SaveSet(outcome) ==
    /\ tx.op = "set" /\ tx.at = "save"
    /\ saved' = FileAfter(outcome, saved, [saved EXCEPT !.local = tx.policy.local])
    /\ current' = FileAfter(outcome, current, tx.policy)
    /\ tx' = IF outcome = "failed" THEN [tx EXCEPT !.at = "undo"] ELSE Free
    /\ UNCHANGED <<running, enforced, forwards>>

UndoSet(fault) ==
    /\ tx.op = "set" /\ tx.at = "undo"
    /\ enforced' = IF fault = "none" /\ ValidFor(current, forwards) THEN current ELSE enforced
    /\ tx' = Free
    /\ UNCHANGED <<running, forwards, current, saved>>

--------------------------------------------------------------------------------
(* PortManager.  A change that is not persistent ends with the live change.    *)

Publish(f, persistent) ==
    /\ running /\ tx = Free
    /\ WithoutKey(forwards, f) = forwards
    /\ ValidFor(enforced, {f})
    /\ forwards' = forwards \cup {f}
    /\ tx' = IF persistent THEN [op |-> "publish", at |-> "save", forward |-> f, live |-> forwards] ELSE Free
    /\ UNCHANGED <<running, enforced, current, saved>>

SavePublish(outcome) ==
    /\ tx.op = "publish" /\ tx.at = "save"
    /\ saved' = FileAfter(outcome, saved, [saved EXCEPT !.ports = Appended(@, tx.forward)])
    /\ tx' = IF outcome = "failed" THEN [tx EXCEPT !.at = "undo"] ELSE Free
    /\ UNCHANGED <<running, enforced, forwards, current>>

UndoPublish(fault) ==
    /\ tx.op = "publish" /\ tx.at = "undo"
    /\ forwards' = IF fault = "none" THEN WithoutKey(forwards, tx.forward) ELSE forwards
    /\ tx' = Free
    /\ UNCHANGED <<running, enforced, current, saved>>

(* f is the caller's spec: only its listener is matched.                   *)
Unpublish(f, persistent) ==
    /\ running /\ tx = Free
    /\ persistent \/ \E g \in forwards : SameKey(f, g)
    /\ forwards' = WithoutKey(forwards, f)
    /\ tx' = IF persistent THEN [op |-> "unpublish", at |-> "save", forward |-> f, live |-> forwards]
             ELSE Free
    /\ UNCHANGED <<running, enforced, current, saved>>

SaveUnpublish(outcome) ==
    /\ tx.op = "unpublish" /\ tx.at = "save"
    /\ saved' = FileAfter(outcome, saved, [saved EXCEPT !.ports = WithoutKey(@, tx.forward)])
    /\ tx' = IF outcome = "failed" /\ WithoutKey(tx.live, tx.forward) # tx.live THEN [tx EXCEPT !.at = "undo"] ELSE Free
    /\ UNCHANGED <<running, enforced, forwards, current>>

UndoUnpublish(fault) ==
    /\ tx.op = "unpublish" /\ tx.at = "undo"
    /\ forwards' = IF fault = "none" /\ ValidFor(enforced, {tx.forward})
                   THEN forwards \cup {tx.forward} ELSE forwards
    /\ tx' = Free
    /\ UNCHANGED <<running, enforced, current, saved>>

--------------------------------------------------------------------------------
(* The daemon ends at any point, also because a backend call whose outcome is  *)
(* unknown stopped the worker; its memory is gone and sandbox.json stays.      *)
NetDown ==
    /\ running /\ running' = FALSE
    /\ enforced' = BootPolicy /\ current' = BootPolicy
    /\ forwards' = {} /\ tx' = Free
    /\ UNCHANGED saved

(* startNetworkPrepared refuses a saved UDP port under a policy that drops its *)
(* replies.                                                                    *)
NetBoot ==
    /\ ~running /\ ValidFor(BootPolicy, saved.ports)
    /\ running' = TRUE
    /\ forwards' = saved.ports
    /\ enforced' = BootPolicy /\ current' = BootPolicy
    /\ UNCHANGED <<saved, tx>>

Faults == {"none"} \cup CallFaults

(* What the holder of the transaction lock does next.                      *)
NetFinish ==
    \/ \E outcome \in SaveOutcomes : SaveSet(outcome) \/ SavePublish(outcome) \/ SaveUnpublish(outcome)
    \/ \E fault \in Faults : UndoSet(fault) \/ UndoPublish(fault) \/ UndoUnpublish(fault)

NetStep ==
    \/ \E l \in Locals : Set(l)
    \/ \E f \in Forwards, persistent \in BOOLEAN : Publish(f, persistent) \/ Unpublish(f, persistent)
    \/ NetFinish

NetNext == NetStep \/ NetDown \/ NetBoot

NetSpec == NetInit /\ [][NetNext]_netVars

--------------------------------------------------------------------------------
Policies == [local : Locals \cup {"deny", "udp replies"}, org : Orgs]

(* Every variable has its type.                                            *)
NetTypeOK ==
    /\ running \in BOOLEAN
    /\ enforced \in Policies /\ current \in Policies
    /\ forwards \subseteq Forwards
    /\ saved \in [local : Locals, org : Orgs, ports : SUBSET Forwards]
    /\ tx.op \in {"none", "set", "publish", "unpublish", "org"}

(* sandbox.json always passes the boot check of static UDP forwards: Set   *)
(* and Publish keep it so although each looks at one half of the pair and  *)
(* a crash may come between any two steps.                                 *)
SavedPortsBoot == ValidFor(BootPolicy, saved.ports)

(* The comment in Set: "the on-disk config must never claim a policy the   *)
(* running sandbox does not enforce, and the running sandbox must not      *)
(* enforce a policy the config rejects."  Between transactions the three   *)
(* copies of the policy agree.                                             *)
PolicyAgrees == running /\ tx = Free => enforced = BootPolicy /\ current = BootPolicy

(* What a restart would boot is what runs, and it boots.                   *)
BootAgrees == SavedPortsBoot /\ PolicyAgrees

(* A port change that could not be saved leaves the listeners as they were *)
(* before it ("restore the listener we just dropped"), unless the backend  *)
(* refuses the undo.                                                       *)
PortsUndone ==
    [][tx.op \in {"publish", "unpublish"} /\ tx.at = "undo" /\ running' => forwards' = tx.live]_netVars
================================================================================
