------------------------------ MODULE LiveShares ------------------------------
(***************************************************************************)
(* The daemon's live shares: ShareManager's transactions over sandbox.json *)
(* (the saved shares), the manifest shares.json and the sharefs hub, with  *)
(* the policy.Controller that authorises them.                             *)
(*                                                                         *)
(* A share is a tag and a source (a host tree with its settings); sources  *)
(* overlap only when equal.  A graceful removal leaves the export draining *)
(* until the guest forgets it.                                             *)
(***************************************************************************)
EXTENDS AtomicFile

CONSTANTS Tags, Sources,
          NoShare,
          Denied,        \* the pairs <<organization policy, source>> the policy refuses
          ManifestFaults \* {"failed"} when the manifest may not be writable

ASSUME ManifestFaultsKnown == ManifestFaults \subseteq {"failed"}
ASSUME NoShareIsNone == NoShare \notin Sources

VARIABLES engine,      \* policy.Controller: the published engine
          govBlocked,  \* and its update barrier
          exports,     \* the hub's namespace: tag -> [source, denied, ephemeral] or NoShare
          draining,    \* removed exports the guest still holds
          hub,         \* "active", or "closed" by failLocked
          hubBlocked,  \* the hub's update barrier
          savedShares, \* sandbox.json: tag -> source or NoShare
          change,      \* the holder of ShareManager.mu and its next step
          told         \* the saved shares the answers given so far promise

shareVars == <<engine, govBlocked, exports, draining, hub, hubBlocked, savedShares, change, told>>
policyVars == <<engine, govBlocked, hubBlocked>>

Allowed(org, source) == <<org, source>> \notin Denied
Authorize(source) == ~govBlocked /\ Allowed(engine, source)
Idle == [op |-> "none"]
Export(source, ephemeral) == [source |-> source, denied |-> FALSE, ephemeral |-> ephemeral]

Live == {t \in Tags : exports[t] # NoShare}
(* validatePreparedShare: no other live or draining export has the source. *)
Unshared(source, tag) ==
    /\ \A t \in Live \ {tag} : exports[t].source # source
    /\ \A d \in draining : d.source # source

Ready == hub = "active" /\ change = Idle

--------------------------------------------------------------------------------
(* Add: authorised and pinned, saved, announced in the manifest, published in  *)
(* the hub and announced again, all under the manager's lock.                  *)

Begin(op, tag, source, persistent, force) ==
    change' = [op |-> op, at |-> IF persistent THEN "save" ELSE "announce", tag |-> tag, source |-> source,
               persistent |-> persistent, force |-> force, old |-> savedShares]

AddDuringUpdate(tag, source, persistent, replace) ==
    /\ Ready
    /\ Allowed(engine, source)
    /\ exports[tag] # NoShare => replace /\ exports[tag].source # source
    /\ Unshared(source, tag)
    /\ Begin("add", tag, source, persistent, TRUE)
    /\ UNCHANGED <<policyVars, exports, draining, hub, savedShares, told>>

Add(tag, source, persistent, replace) ==
    /\ Ready
    /\ Authorize(source)
    /\ exports[tag] # NoShare => replace /\ exports[tag].source # source
    /\ Unshared(source, tag)
    /\ Begin("add", tag, source, persistent, TRUE)
    /\ UNCHANGED <<policyVars, exports, draining, hub, savedShares, told>>

(* Adding an ephemeral share again with --persist.                         *)
Promote(tag) ==
    /\ Ready
    /\ tag \in Live /\ exports[tag].ephemeral /\ Authorize(exports[tag].source)
    /\ Begin("promote", tag, exports[tag].source, TRUE, FALSE)
    /\ UNCHANGED <<policyVars, exports, draining, hub, savedShares, told>>

Remove(tag, persistent, force) ==
    /\ Ready
    /\ tag \in Live
    /\ Begin("remove", tag, NoShare, persistent /\ ~exports[tag].ephemeral, force)
    /\ UNCHANGED <<policyVars, exports, draining, hub, savedShares, told>>

Save(outcome) ==
    /\ change.op # "none" /\ change.at = "save"
    /\ savedShares' = FileAfter(outcome, savedShares, [savedShares EXCEPT ![change.tag] = change.source])
    /\ change' = IF outcome = "failed" THEN Idle ELSE [change EXCEPT !.at = "announce"]
    /\ UNCHANGED <<policyVars, exports, draining, hub, told>>

Announce(manifest) ==
    /\ change.op # "none" /\ change.at = "announce"
    /\ change' = [change EXCEPT !.at = IF manifest = "ok" THEN "publish" ELSE "undo"]
    /\ UNCHANGED <<policyVars, exports, draining, hub, savedShares, told>>

(* recoverControlPlaneLocked: any error while restoring closes the hub.    *)
Undo(outcome, manifest) ==
    /\ change.op # "none" /\ change.at = "undo"
    /\ savedShares' = IF change.persistent THEN FileAfter(outcome, savedShares, change.old) ELSE savedShares
    /\ hub' = IF manifest = "ok" /\ (change.persistent => outcome = "ok") THEN hub ELSE "closed"
    /\ change' = Idle
    /\ UNCHANGED <<policyVars, exports, draining, told>>

Drained(tag) == [tag |-> tag, source |-> exports[tag].source, denied |-> exports[tag].denied]

(* hub.Publish, Swap or Remove (a swapped or forcibly removed export is    *)
(* revoked at once), then the second manifest; a promotion has none.       *)
Finish(manifest) ==
    /\ change.op # "none" /\ change.at = "publish"
    /\ LET tag == change.tag IN
       /\ exports' = [exports EXCEPT ![tag] =
              IF change.op = "remove" THEN NoShare
              ELSE IF change.op = "promote" THEN [@ EXCEPT !.ephemeral = FALSE]
              ELSE Export(change.source, ~change.persistent)]
       /\ draining' = IF change.op = "remove" /\ ~change.force THEN draining \cup {Drained(tag)} ELSE draining
    /\ hub' = IF manifest = "ok" \/ change.op = "promote" THEN hub ELSE "closed"
    /\ told' = IF change.persistent THEN [told EXCEPT ![change.tag] = change.source] ELSE told
    /\ change' = Idle
    /\ UNCHANGED <<policyVars, savedShares>>

(* A restart-only alias is saved and leaves the hub alone.                 *)
ConfigureUnlocked(tag, source, replace, outcome) ==
    /\ hub = "active"
    /\ savedShares[tag] # NoShare => replace
    /\ \A t \in Tags \ {tag} : savedShares[t] # source
    /\ savedShares' = FileAfter(outcome, savedShares, [savedShares EXCEPT ![tag] = source])
    /\ told' = FileAfter(outcome, told, [told EXCEPT ![tag] = source])
    /\ UNCHANGED <<policyVars, exports, draining, hub, change>>

ConfigureRestart(tag, source, replace, outcome) ==
    /\ Ready
    /\ savedShares[tag] # NoShare => replace
    /\ \A t \in Tags \ {tag} : savedShares[t] # source
    /\ savedShares' = FileAfter(outcome, savedShares, [savedShares EXCEPT ![tag] = source])
    /\ told' = FileAfter(outcome, told, [told EXCEPT ![tag] = source])
    /\ UNCHANGED <<policyVars, exports, draining, hub, change>>

(* The guest drops its last reference to a removed export.                 *)
Forget(d) ==
    /\ d \in draining
    /\ draining' = draining \ {d}
    /\ UNCHANGED <<policyVars, exports, hub, savedShares, change, told>>

--------------------------------------------------------------------------------
(* ReconcileOrganizationPolicy(engine): Hub.SetPolicyAccess sets the bit of    *)
(* every export, draining ones included, from the map of live tags.            *)
SetPolicyAccess(denied) ==
    /\ exports' = [t \in Tags |-> IF t \in Live THEN [exports[t] EXCEPT !.denied = t \in denied] ELSE NoShare]
    /\ draining' = {[d EXCEPT !.denied = d.tag \in denied] : d \in draining}

DeniedBy(org) == {t \in Live : ~Allowed(org, exports[t].source)}
PolicyDenied == {t \in Live : exports[t].denied}

Reconciled(org) == Ready /\ SetPolicyAccess(DeniedBy(org)) /\ UNCHANGED <<hub, savedShares, change, told>>

ReconcileUndone ==
    /\ Ready /\ "failed" \in ManifestFaults
    /\ SetPolicyAccess(PolicyDenied)
    /\ UNCHANGED <<hub, savedShares, change, told>>

ReconcileFails ==
    /\ change = Idle
    /\ hub = "active" => "failed" \in ManifestFaults
    /\ hub' = "closed"
    /\ UNCHANGED <<exports, draining, savedShares, change, told>>

--------------------------------------------------------------------------------
Configured == [t \in Tags |-> IF savedShares[t] = NoShare THEN NoShare ELSE Export(savedShares[t], FALSE)]

SharesBooted ==
    /\ exports = Configured
    /\ draining = {} /\ hub = "active" /\ hubBlocked = FALSE /\ govBlocked = FALSE
    /\ change = Idle /\ told = savedShares

(* newShareManager: every saved share is authorised and overlaps no other. *)
SharesBootable(org) ==
    /\ \A t \in Tags : savedShares[t] # NoShare => Allowed(org, savedShares[t])
    /\ \A t, u \in Tags : savedShares[t] = savedShares[u] => t = u \/ savedShares[t] = NoShare

Manifests == {"ok"} \cup ManifestFaults

(* What the holder of the manager's lock does next.                        *)
ShareFinish ==
    \/ \E outcome \in SaveOutcomes : Save(outcome)
    \/ \E manifest \in Manifests : Announce(manifest) \/ Finish(manifest)
    \/ \E outcome \in SaveOutcomes, manifest \in Manifests : Undo(outcome, manifest)

ShareStep ==
    \/ \E tag \in Tags, source \in Sources, persistent, replace \in BOOLEAN : Add(tag, source, persistent, replace)
    \/ \E tag \in Tags : Promote(tag)
    \/ \E tag \in Tags, persistent, force \in BOOLEAN : Remove(tag, persistent, force)
    \/ \E tag \in Tags, source \in Sources, replace \in BOOLEAN, outcome \in SaveOutcomes :
           ConfigureRestart(tag, source, replace, outcome)
    \/ \E d \in draining : Forget(d)
    \/ ShareFinish
================================================================================
