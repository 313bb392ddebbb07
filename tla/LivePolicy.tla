------------------------------ MODULE LivePolicy ------------------------------
(***************************************************************************)
(* A live change of the organization policy (applyOrganizationPolicy): one *)
(* generation is moved across the authorisation controller, the network    *)
(* policy, the shares and sandbox.json while local policy, port and share  *)
(* requests keep arriving and the daemon may end at any step.              *)
(***************************************************************************)
EXTENDS NetworkControl, LiveShares

VARIABLES update,    \* the holder of policyUpdateMu and its next step
          stopping   \* a shutdown was requested

vars == <<netVars, shareVars, update, stopping>>

None == [at |-> "none"]

Init ==
    /\ NetInit
    /\ engine = saved.org
    /\ savedShares \in [Tags -> Sources \cup {NoShare}]
    /\ SharesBootable(engine)
    /\ SharesBooted
    /\ update = None /\ stopping = FALSE

Goto(step) == update' = [update EXCEPT !.at = step]

--------------------------------------------------------------------------------
(* The barriers: the controller first, then the hub, which drains its requests.*)
Apply(org) ==
    /\ running /\ update = None
    /\ org # saved.org
    /\ govBlocked' = TRUE
    /\ update' = [at |-> "block", org |-> org, engine |-> engine, network |-> current, failed |-> "no"]
    /\ UNCHANGED <<netVars, engine, hubBlocked, exports, draining, hub, savedShares, change, told, stopping>>

BlockShares ==
    /\ update.at = "block"
    /\ hubBlocked' = IF hub = "active" THEN TRUE ELSE hubBlocked
    /\ Goto("enter")
    /\ UNCHANGED <<netVars, engine, govBlocked, exports, draining, hub, savedShares, change, told, stopping>>

NextNetwork == Effective(update.network.local, update.org)

EnterUnchecked ==
    /\ update.at = "enter" /\ tx = Free
    /\ tx' = [op |-> "org"] /\ update' = [update EXCEPT !.network = current, !.at = "barrier"]
    /\ UNCHANGED <<running, enforced, forwards, current, saved, shareVars, stopping>>

(* Inside the network transaction: the candidate must pass the next boot.  *)
EnterTransaction ==
    /\ update.at = "enter" /\ tx = Free
    /\ IF ValidFor(Effective(current.local, update.org), saved.ports)
       THEN tx' = [op |-> "org"] /\ update' = [update EXCEPT !.network = current, !.at = "barrier"]
       ELSE tx' = tx /\ Goto("release")
    /\ UNCHANGED <<running, enforced, forwards, current, saved, shareVars, stopping>>

ReplaceEffectivePolicy(p) == enforced' = p /\ current' = p
LeaveTransaction(step) == tx' = Free /\ Goto(step)

(* Mutant: a barrier that cannot be entered returns past the release.     *)
EnterBarrierBlocked(fault) ==
    /\ update.at = "barrier"
    /\ IF fault = "none"
       THEN ReplaceEffectivePolicy(FailClosedPolicy(forwards)) /\ tx' = tx /\ Goto("network")
       ELSE UNCHANGED <<enforced, current>> /\ tx' = Free /\ update' = None
    /\ UNCHANGED <<running, forwards, saved, shareVars, stopping>>

EnterBarrier(fault) ==
    /\ update.at = "barrier"
    /\ IF fault = "none"
       THEN ReplaceEffectivePolicy(FailClosedPolicy(forwards)) /\ tx' = tx /\ Goto("network")
       ELSE UNCHANGED <<enforced, current>> /\ LeaveTransaction("release")
    /\ UNCHANGED <<running, forwards, saved, shareVars, stopping>>

ApplyNetwork(fault) ==
    /\ update.at = "network"
    /\ IF fault = "none" /\ ValidFor(NextNetwork, forwards)
       THEN ReplaceEffectivePolicy(NextNetwork) /\ Goto("shares")
       ELSE UNCHANGED <<enforced, current>> /\ Goto("undo network")
    /\ UNCHANGED <<running, forwards, saved, tx, shareVars, stopping>>

Reconcile ==
    /\ update.at = "shares"
    /\ \/ Reconciled(update.org) /\ Goto("save")
       \/ (ReconcileUndone \/ ReconcileFails) /\ update' = [update EXCEPT !.at = "undo network", !.failed = "if closed"]
    /\ UNCHANGED <<netVars, policyVars, stopping>>

SaveFailureIgnored(outcome) ==
    /\ update.at = "save"
    /\ saved' = FileAfter(outcome, saved, [saved EXCEPT !.org = update.org])
    /\ Goto("publish")
    /\ UNCHANGED <<running, enforced, forwards, current, tx, shareVars, stopping>>

SavePolicy(outcome) ==
    /\ update.at = "save"
    /\ saved' = FileAfter(outcome, saved, [saved EXCEPT !.org = update.org])
    /\ Goto(IF outcome = "failed" THEN "undo shares" ELSE "publish")
    /\ UNCHANGED <<running, enforced, forwards, current, tx, shareVars, stopping>>

PublishEngine ==
    /\ update.at = "publish"
    /\ engine' = update.org
    /\ LeaveTransaction("release")
    /\ UNCHANGED <<running, enforced, forwards, current, saved, govBlocked, hubBlocked,
                   exports, draining, hub, savedShares, change, told, stopping>>

ReleaseShares ==
    /\ update.at = "release"
    /\ hubBlocked' = IF hub = "active" THEN FALSE ELSE hubBlocked
    /\ Goto("unblock")
    /\ UNCHANGED <<netVars, engine, govBlocked, exports, draining, hub, savedShares, change, told, stopping>>

Unblock ==
    /\ update.at = "unblock"
    /\ govBlocked' = FALSE /\ update' = None
    /\ UNCHANGED <<netVars, engine, hubBlocked, exports, draining, hub, savedShares, change, told, stopping>>

--------------------------------------------------------------------------------
(* Rollback.  Shares are restored only after a failed save; the network always.*)
UndoShares ==
    /\ update.at = "undo shares"
    /\ \/ Reconciled(update.engine) /\ Goto("undo network")
       \/ (ReconcileUndone \/ ReconcileFails) /\ update' = [update EXCEPT !.at = "undo network", !.failed = "yes"]
    /\ UNCHANGED <<netVars, policyVars, stopping>>

(* A rollback that failed keeps the barriers and stops the sandbox.        *)
Settle(failed) ==
    /\ tx' = Free
    /\ IF failed THEN update' = None /\ stopping' = TRUE ELSE Goto("release") /\ stopping' = stopping

UndoNetwork(fault) ==
    /\ update.at = "undo network"
    /\ LET restored == fault = "none" /\ ValidFor(update.network, forwards) IN
       /\ IF restored THEN ReplaceEffectivePolicy(update.network) ELSE UNCHANGED <<enforced, current>>
       /\ Settle(\/ ~restored \/ update.failed = "yes"
                 \/ update.failed = "if closed" /\ hub = "closed")
    /\ UNCHANGED <<running, forwards, saved, shareVars>>

--------------------------------------------------------------------------------
(* The daemon ends (by itself, by a crash, or as requested) and starts again.  *)
Down ==
    /\ NetDown
    /\ engine' = saved.org
    /\ govBlocked' = FALSE /\ hubBlocked' = FALSE /\ hub' = "active"
    /\ exports' = [t \in Tags |-> NoShare] /\ draining' = {}
    /\ change' = Idle /\ told' = savedShares
    /\ update' = None /\ stopping' = FALSE
    /\ UNCHANGED savedShares

Stop == stopping /\ Down

Boot ==
    /\ NetBoot
    /\ SharesBootable(saved.org)
    /\ exports' = Configured
    /\ UNCHANGED <<policyVars, draining, hub, savedShares, change, told, update, stopping>>

UpdateStep ==
    \/ BlockShares \/ EnterTransaction \/ Reconcile \/ PublishEngine \/ ReleaseShares \/ Unblock \/ UndoShares
    \/ \E fault \in Faults : EnterBarrier(fault) \/ ApplyNetwork(fault) \/ UndoNetwork(fault)
    \/ \E outcome \in SaveOutcomes : SavePolicy(outcome)

Next ==
    \/ NetStep /\ UNCHANGED <<shareVars, update, stopping>>
    \/ running /\ ShareStep /\ UNCHANGED <<netVars, update, stopping>>
    \/ \E org \in Orgs : Apply(org)
    \/ UpdateStep \/ Down \/ Boot

Spec == Init /\ [][Next]_vars

(* Go's mutexes hand a waiting update its lock although other requests     *)
(* keep taking it; what holds a lock runs on, and supervise reads the      *)
(* shutdown request.                                                       *)
Fairness ==
    /\ WF_vars(UpdateStep) /\ SF_vars(EnterTransaction) /\ SF_vars(Reconcile) /\ SF_vars(UndoShares)
    /\ WF_vars(NetFinish /\ UNCHANGED <<shareVars, update, stopping>>)
    /\ WF_vars(ShareFinish /\ UNCHANGED <<netVars, update, stopping>>)
    /\ WF_vars(Stop)

FairSpec == Spec /\ Fairness

--------------------------------------------------------------------------------
(* Every variable has its type.                                            *)
TypeOK ==
    /\ NetTypeOK
    /\ engine \in Orgs /\ govBlocked \in BOOLEAN /\ hubBlocked \in BOOLEAN /\ stopping \in BOOLEAN
    /\ exports \in [Tags -> {NoShare} \cup [source : Sources, denied : BOOLEAN, ephemeral : BOOLEAN]]
    /\ draining \subseteq [tag : Tags, source : Sources, denied : BOOLEAN]
    /\ hub \in {"active", "closed"}
    /\ savedShares \in [Tags -> Sources \cup {NoShare}] /\ told \in [Tags -> Sources \cup {NoShare}]

(* applyOrganizationPolicy moves "every long-lived host enforcement point" *)
(* to one generation: whenever the controller answers requests, its engine,*)
(* the network guard, the rollback copy and sandbox.json are of one        *)
(* organization policy, whatever step of an update failed.                 *)
OneGeneration ==
    running /\ ~govBlocked /\ ~stopping =>
        engine = saved.org /\ enforced.org = engine /\ current.org = engine

(* Whenever the hub serves requests, a live export is accessible exactly   *)
(* when the published policy allows it: an Add racing the update is judged *)
(* by the generation that ends up in force.                                *)
ExportsJudged ==
    running /\ ~stopping /\ hub = "active" /\ ~hubBlocked =>
        \A t \in Live : exports[t].denied = ~Allowed(engine, exports[t].source)

(* SetPolicyAccess: "every node and already-open handle returns ESTALE" of *)
(* a denied export; the same for the open handles of a removed export.     *)
HandlesJudged ==
    running /\ ~stopping /\ hub = "active" /\ ~hubBlocked =>
        \A d \in draining : ~Allowed(engine, d.source) => d.denied

(* Guest traffic is never without the organization's guard: it is under    *)
(* the published generation, the update's fail-closed barrier, or the new  *)
(* generation while requests are blocked.                                  *)
EgressGoverned ==
    running /\ ~stopping =>
        \/ enforced.org = engine
        \/ govBlocked /\ (enforced \in Barriers \/ (update # None /\ enforced.org = update.org))

(* The organization's policy governs the guest's traffic and its shares at *)
(* every step of an update, of a share change and of a port change racing  *)
(* it (SetOrganizationPolicy, SetPolicyAccess, the fail-closed barrier).   *)
PolicyGoverns == EgressGoverned /\ ExportsJudged

(* Between share transactions sandbox.json holds exactly the shares the    *)
(* answers promised: a rollback takes back its own change and no other     *)
(* request's (ConfigureRestart).                                           *)
SharesSaved == running /\ hub = "active" /\ change = Idle => savedShares = told

(* Every update ends with its barriers released or the sandbox stopped.    *)
UpdatesEnd == govBlocked ~> ~govBlocked
================================================================================
