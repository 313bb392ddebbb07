---------------------------- MODULE PolicyReceiver ----------------------------
(***************************************************************************)
(* A host's policy receiver (policyfeed/receiver.go): it polls the policy  *)
(* service, stages a newer generation durably, has the manager apply it to *)
(* every sandbox and only then acknowledges it.  The receiver is one       *)
(* goroutine; its steps interleave with the manager's sandbox starts, with *)
(* crashes of the manager process and with the passing of time.            *)
(*                                                                         *)
(* The manager is seen through the callback the receiver is given          *)
(* (applyReceivedOrganizationPolicy): what it publishes for admission and  *)
(* which snapshots running sandboxes may be enforcing afterwards.          *)
(***************************************************************************)
EXTENDS PolicyTypes

CONSTANTS Responses,  \* what a service may answer: [gen, body, etag]
          Expiring    \* bundles whose signed expiry may pass meanwhile

ASSUME ResponsesTyped ==
    \A r \in Responses : r.gen \in Nat \ {0} /\ r.body \in Bundles /\ r.etag \in Nat

ASSUME ExpiringKnown == Expiring \subseteq Bundles

VARIABLES file,            \* h -> receiverState on disk
          state,           \* h -> receiverState in memory
          restorePending,  \* h -> Receiver.restorePending
          attempted,       \* h -> pendingStatus.attempts > 0
          rejected,        \* h -> the last refused response
          step,            \* h -> where the receiver's goroutine is
          caller,          \* h -> who called Restore
          admitted,        \* h -> managerService.organizationPolicy
          fleet,           \* h -> snapshots running sandboxes may enforce
          history,         \* h -> every snapshot ever published for admission
          reported,        \* h -> the highest generation reported as applied
          expired          \* bundles past their signed expiry

receiverVars == <<file, state, restorePending, attempted, rejected, step, caller>>
managerVars == <<admitted, fleet, history>>
hostVars == <<receiverVars, managerVars, reported, expired>>

Steps == {"down", "restore", "apply", "promote", "idle", "ask", "reply"}
Callers == {"boot", "sync", "stage"}
Reasons == {"none", "invalid", "verification", "rollback", "changed"}

(* receiverState: the applied generation and the one still pending.        *)
Cursor == [gen : Nat, body : Bundles \cup {None}, etag : Nat,
           pgen : Nat, pbody : Bundles \cup {None}, petag : Nat]
Blank == [gen |-> 0, body |-> None, etag |-> 0,
          pgen |-> 0, pbody |-> None, petag |-> 0]
NotRejected == [gen |-> 0, reason |-> "none"]

(* What Restore applies: the pending generation before the applied one.    *)
Desired(c) == IF c.pgen # 0 THEN [gen |-> c.pgen, body |-> c.pbody]
              ELSE [gen |-> c.gen, body |-> c.body]

(* Mutant: promotion leaves the pending fields behind.                     *)
PromotedKeepingPending(c) == [c EXCEPT !.gen = c.pgen, !.body = c.pbody, !.etag = c.petag]

Promoted(c) == [Blank EXCEPT !.gen = c.pgen, !.body = c.pbody, !.etag = c.petag]

Staged(c, r) == [c EXCEPT !.pgen = r.gen, !.pbody = r.body, !.petag = r.etag]

ReceiverInit ==
    /\ file = [h \in Hosts |-> Blank]
    /\ state = [h \in Hosts |-> Blank]
    /\ restorePending = [h \in Hosts |-> FALSE]
    /\ attempted = [h \in Hosts |-> FALSE]
    /\ rejected = [h \in Hosts |-> NotRejected]
    /\ step = [h \in Hosts |-> "down"]
    /\ caller = [h \in Hosts |-> "boot"]
    /\ admitted = [h \in Hosts |-> Unmanaged]
    /\ fleet = [h \in Hosts |-> {Unmanaged}]
    /\ history = [h \in Hosts |-> {}]
    /\ reported = [h \in Hosts |-> 0]
    /\ expired = {}

-----------------------------------------------------------------------------

At(h, s) == step[h] = s
GoTo(h, s) == step' = [step EXCEPT ![h] = s]

(* Mutant: a boot restores only an applied generation.                     *)
NewReceiverForgettingPending(h) ==
    /\ At(h, "down")
    /\ state' = [state EXCEPT ![h] = file[h]]
    /\ restorePending' = [restorePending EXCEPT ![h] = file[h].gen # 0 /\ file[h].pgen = 0]
    /\ GoTo(h, "restore")
    /\ UNCHANGED <<file, attempted, rejected, caller, managerVars, reported, expired>>

(* newReceiver: the durable cursor is verified again, expiry included, and *)
(* a cursor that does not verify keeps the manager from starting.          *)
NewReceiver(h) ==
    /\ At(h, "down")
    /\ {file[h].body, file[h].pbody} \cap expired = {}
    /\ state' = [state EXCEPT ![h] = file[h]]
    /\ restorePending' = [restorePending EXCEPT ![h] = file[h].pgen # 0 \/ file[h].gen # 0]
    /\ attempted' = [attempted EXCEPT ![h] = FALSE]
    /\ rejected' = [rejected EXCEPT ![h] = NotRejected]
    /\ caller' = [caller EXCEPT ![h] = "boot"]
    /\ GoTo(h, "restore")
    /\ UNCHANGED <<file, managerVars, reported, expired>>

(* Where the goroutine goes when Restore returns, with or without an       *)
(* error: Sync polls either way, and the boot only logs the error.         *)
Returned(h) == GoTo(h, IF caller[h] = "sync" THEN "ask" ELSE "idle")

RestoreNothing(h) ==
    /\ At(h, "restore")
    /\ ~ restorePending[h]
    /\ Returned(h)
    /\ UNCHANGED <<file, state, restorePending, attempted, rejected, caller,
                   managerVars, reported, expired>>

(* The pending attempt failed: counted for the report.                     *)
Failed(h) == attempted' = [attempted EXCEPT ![h] = attempted[h] \/ state[h].pgen # 0]

(* The callback fails before it publishes anything: the snapshot no longer *)
(* verifies, or every lifecycle slot is taken.  No lifecycle request holds *)
(* a slot before the manager serves.                                       *)
ApplyRefused(h) ==
    /\ At(h, "restore")
    /\ restorePending[h]
    /\ caller[h] = "boot" => Desired(state[h]).body \in expired
    /\ Failed(h)
    /\ Returned(h)
    /\ UNCHANGED <<file, state, restorePending, rejected, caller, managerVars, reported, expired>>

(* Under the manager-wide write lock the callback publishes the snapshot   *)
(* for admission before it touches the first sandbox.                      *)
ApplyPublish(h) ==
    /\ At(h, "restore")
    /\ restorePending[h]
    /\ Desired(state[h]).body \notin expired
    /\ admitted' = [admitted EXCEPT ![h] = Desired(state[h])]
    /\ history' = [history EXCEPT ![h] = @ \cup {Desired(state[h])}]
    /\ fleet' = [fleet EXCEPT ![h] = @ \cup {Desired(state[h])}]
    /\ GoTo(h, "apply")
    /\ UNCHANGED <<file, state, restorePending, attempted, rejected, caller, reported, expired>>

(* Some sandboxes did not take the snapshot: they were stopped, or even    *)
(* that failed, or they could not be enumerated.                           *)
ApplyIncomplete(h) ==
    /\ At(h, "apply")
    /\ \E left \in {{Desired(state[h])}, fleet[h]} : fleet' = [fleet EXCEPT ![h] = left]
    /\ Failed(h)
    /\ Returned(h)
    /\ UNCHANGED <<file, state, restorePending, rejected, caller, admitted, history, reported, expired>>

(* Every saved sandbox has the snapshot.  A generation that was already    *)
(* acknowledged needs no promotion.                                        *)
ApplyComplete(h) ==
    /\ At(h, "apply")
    /\ fleet' = [fleet EXCEPT ![h] = {Desired(state[h])}]
    /\ IF state[h].pgen # 0
       THEN GoTo(h, "promote") /\ UNCHANGED restorePending
       ELSE Returned(h) /\ restorePending' = [restorePending EXCEPT ![h] = FALSE]
    /\ UNCHANGED <<file, state, attempted, rejected, caller, admitted, history, reported, expired>>

(* Mutant: the error of the promoting save is ignored.                     *)
PromoteIgnoringError(h) ==
    /\ At(h, "promote")
    /\ \E outcome \in SaveOutcomes :
         file' = [file EXCEPT ![h] = FileAfter(outcome, @, Promoted(state[h]))]
    /\ state' = [state EXCEPT ![h] = Promoted(@)]
    /\ restorePending' = [restorePending EXCEPT ![h] = FALSE]
    /\ Returned(h)
    /\ UNCHANGED <<attempted, rejected, caller, managerVars, reported, expired>>

(* The acknowledgement: the pending generation becomes the applied one.    *)
(* After a failed save memory keeps it pending and Restore runs again.     *)
Promote(h) ==
    /\ At(h, "promote")
    /\ \E outcome \in SaveOutcomes :
         /\ file' = [file EXCEPT ![h] = FileAfter(outcome, @, Promoted(state[h]))]
         /\ IF outcome = "ok"
            THEN /\ state' = [state EXCEPT ![h] = Promoted(@)]
                 /\ attempted' = [attempted EXCEPT ![h] = FALSE]
                 /\ restorePending' = [restorePending EXCEPT ![h] = FALSE]
            ELSE UNCHANGED <<state, attempted, restorePending>>
    /\ Returned(h)
    /\ UNCHANGED <<rejected, caller, managerVars, reported, expired>>

-----------------------------------------------------------------------------

(* Sync begins by retrying whatever Restore still has to do.               *)
SyncStart(h) ==
    /\ At(h, "idle")
    /\ caller' = [caller EXCEPT ![h] = "sync"]
    /\ GoTo(h, "restore")
    /\ UNCHANGED <<file, state, restorePending, attempted, rejected, managerVars, reported, expired>>

(* The poll: If-None-Match names the newest generation the host holds, and *)
(* the report only the generation applied everywhere.                      *)
IfNoneMatch(h) == IF state[h].pgen # 0 THEN state[h].petag ELSE state[h].etag

Ask(h) ==
    /\ At(h, "ask")
    /\ reported' = [reported EXCEPT ![h] = IF state[h].gen > @ THEN state[h].gen ELSE @]
    /\ GoTo(h, "reply")
    /\ UNCHANGED <<file, state, restorePending, attempted, rejected, caller, managerVars, expired>>

(* 304, another status, or a request that failed in transport.             *)
NoNews(h) ==
    /\ At(h, "reply")
    /\ GoTo(h, "idle")
    /\ UNCHANGED <<file, state, restorePending, attempted, rejected, caller,
                   managerVars, reported, expired>>

Reject(h, gen, reason) ==
    /\ rejected' = [rejected EXCEPT ![h] = [gen |-> gen, reason |-> reason]]
    /\ GoTo(h, "idle")
    /\ UNCHANGED <<file, state, restorePending, attempted, caller, managerVars, reported, expired>>

ReceiveInvalid(h) == At(h, "reply") /\ Reject(h, 0, "invalid")

(* Mutant: only the applied generation guards against a rollback.          *)
RollsBackApplied(c, r) == r.gen < c.gen

(* Why a well-formed response is refused: the bundle does not verify, its  *)
(* generation is older than one the host holds, or the same with another   *)
(* digest.                                                                 *)
RollsBack(c, r) == r.gen < c.gen \/ (c.pgen # 0 /\ r.gen < c.pgen)
Changes(c, r) == (r.gen = c.gen /\ r.body # c.body) \/ (r.gen = c.pgen /\ r.body # c.pbody)

Refusal(c, r) ==
    IF r.body \in expired THEN "verification"
    ELSE IF RollsBack(c, r) THEN "rollback"
    ELSE IF Changes(c, r) THEN "changed"
    ELSE "none"

ReceiveRefused(h, r) ==
    /\ At(h, "reply")
    /\ Refusal(state[h], r) # "none"
    /\ Reject(h, r.gen, Refusal(state[h], r))

(* The generation the host holds already; a new ETag of the applied one is *)
(* saved.                                                                  *)
ReceiveHeld(h, r) ==
    /\ At(h, "reply")
    /\ Refusal(state[h], r) = "none"
    /\ r.gen \in {state[h].gen, state[h].pgen}
    /\ GoTo(h, "idle")
    /\ IF r.gen = state[h].pgen \/ r.etag = state[h].etag
       THEN UNCHANGED <<file, state>>
       ELSE \E outcome \in SaveOutcomes :
              LET next == [state[h] EXCEPT !.etag = r.etag]
              IN  /\ file' = [file EXCEPT ![h] = FileAfter(outcome, @, next)]
                  /\ state' = [state EXCEPT ![h] = IF outcome = "ok" THEN next ELSE @]
    /\ UNCHANGED <<restorePending, attempted, rejected, caller, managerVars, reported, expired>>

(* Mutant: the error of the staging save is ignored.                       *)
StageIgnoringError(h, r) ==
    /\ At(h, "reply")
    /\ Refusal(state[h], r) = "none"
    /\ r.gen \notin {state[h].gen, state[h].pgen}
    /\ \E outcome \in SaveOutcomes :
         file' = [file EXCEPT ![h] = FileAfter(outcome, @, Staged(state[h], r))]
    /\ state' = [state EXCEPT ![h] = Staged(@, r)]
    /\ restorePending' = [restorePending EXCEPT ![h] = TRUE]
    /\ caller' = [caller EXCEPT ![h] = "stage"]
    /\ GoTo(h, "restore")
    /\ UNCHANGED <<attempted, rejected, managerVars, reported, expired>>

(* A newer generation is staged durably before any sandbox is touched, and *)
(* replaces a pending one that never completed.                            *)
Stage(h, r) ==
    /\ At(h, "reply")
    /\ Refusal(state[h], r) = "none"
    /\ r.gen \notin {state[h].gen, state[h].pgen}
    /\ \E outcome \in SaveOutcomes :
         /\ file' = [file EXCEPT ![h] = FileAfter(outcome, @, Staged(state[h], r))]
         /\ IF outcome = "ok"
            THEN /\ state' = [state EXCEPT ![h] = Staged(@, r)]
                 /\ restorePending' = [restorePending EXCEPT ![h] = TRUE]
                 /\ attempted' = [attempted EXCEPT ![h] = FALSE]
                 /\ rejected' = [rejected EXCEPT ![h] = NotRejected]
                 /\ caller' = [caller EXCEPT ![h] = "stage"]
                 /\ GoTo(h, "restore")
            ELSE /\ GoTo(h, "idle")
                 /\ UNCHANGED <<state, restorePending, attempted, rejected, caller>>
    /\ UNCHANGED <<managerVars, reported, expired>>

Receive(h, r) == ReceiveRefused(h, r) \/ ReceiveHeld(h, r) \/ Stage(h, r)

-----------------------------------------------------------------------------

(* The manager process dies; its sandboxes and its files do not.           *)
Crash(h) ==
    /\ ~ At(h, "down")
    /\ GoTo(h, "down")
    /\ state' = [state EXCEPT ![h] = Blank]
    /\ restorePending' = [restorePending EXCEPT ![h] = FALSE]
    /\ attempted' = [attempted EXCEPT ![h] = FALSE]
    /\ rejected' = [rejected EXCEPT ![h] = NotRejected]
    /\ caller' = [caller EXCEPT ![h] = "boot"]
    /\ admitted' = [admitted EXCEPT ![h] = Unmanaged]
    /\ UNCHANGED <<file, fleet, history, reported, expired>>

(* Requests are accepted once the boot's Restore has returned.             *)
Booting(h) == caller[h] = "boot" /\ step[h] \in {"restore", "apply", "promote"}
Serving(h) == ~ At(h, "down") /\ ~ Booting(h)

(* A lifecycle request starts a sandbox; it is excluded from the fan-out   *)
(* by the manager-wide lock and runs the snapshot published for admission. *)
StartSandbox(h) ==
    /\ Serving(h)
    /\ ~ At(h, "apply")
    /\ fleet' = [fleet EXCEPT ![h] = @ \cup {admitted[h]}]
    /\ UNCHANGED <<receiverVars, admitted, history, reported, expired>>

Expire(b) ==
    /\ expired' = expired \cup {b}
    /\ UNCHANGED <<receiverVars, managerVars, reported>>

HostStep(h) ==
    \/ NewReceiver(h) \/ RestoreNothing(h)
    \/ ApplyRefused(h) \/ ApplyPublish(h) \/ ApplyIncomplete(h) \/ ApplyComplete(h)
    \/ Promote(h) \/ SyncStart(h)
    \/ Crash(h) \/ StartSandbox(h)

(* The service may answer anything, the right generation included.         *)
Exchange(h) ==
    \/ Ask(h) \/ NoNews(h) \/ ReceiveInvalid(h)
    \/ \E r \in Responses : Receive(h, r)

ReceiverNext ==
    \/ \E h \in Hosts : HostStep(h) \/ Exchange(h)
    \/ \E b \in Expiring : Expire(b)

ReceiverSpec == ReceiverInit /\ [][ReceiverNext]_hostVars

-----------------------------------------------------------------------------

(* The types of the receiver's and the manager's fields.  Only a verified  *)
(* bundle under a nonzero generation is ever published for admission.      *)
ReceiverTypeOK ==
    /\ file \in [Hosts -> Cursor] /\ state \in [Hosts -> Cursor]
    /\ restorePending \in [Hosts -> BOOLEAN] /\ attempted \in [Hosts -> BOOLEAN]
    /\ rejected \in [Hosts -> [gen : Nat, reason : Reasons]]
    /\ step \in [Hosts -> Steps] /\ caller \in [Hosts -> Callers]
    /\ admitted \in [Hosts -> Snapshot] /\ fleet \in [Hosts -> SUBSET Snapshot]
    /\ history \in [Hosts -> SUBSET [gen : Nat \ {0}, body : Bundles]]
    /\ reported \in [Hosts -> Nat]
    /\ expired \subseteq Bundles

(* The receiver never writes a cursor that its own restart would refuse as *)
(* invalid: a pending generation is newer than the applied one, and absent *)
(* generations leave no bundle behind.                                     *)
ValidCursor(c) ==
    /\ c.gen = 0 <=> c.body = None
    /\ c.pgen = 0 <=> c.pbody = None
    /\ c.pgen # 0 => c.pgen > c.gen
RestartAccepts == \A h \in Hosts : ValidCursor(file[h])

(* Whatever the service answers and whenever the manager crashes, a host   *)
(* never enforces two different bundles under one generation number.       *)
OneBodyPerGeneration ==
    \A h \in Hosts : \A p, q \in history[h] : p.gen = q.gen => p = q

(* Admission never moves to a generation older than one it has already     *)
(* enforced, not even across a restart or after a failed save.             *)
NeverRollsBack ==
    [][ \A h \in Hosts :
          admitted'[h] # admitted[h] /\ admitted'[h] # Unmanaged =>
              \A p \in history[h] : p.gen <= admitted'[h].gen ]_hostVars

(* What the host reported as applied it enforces: no sandbox it may be     *)
(* running is governed by an older generation.                             *)
ReportedIsEnforced ==
    \A h \in Hosts : \A p \in fleet[h] : p.gen >= reported[h]

(* A restart never takes back an acknowledgement the service has seen.     *)
ReportedIsDurable == \A h \in Hosts : reported[h] <= file[h].gen

(* A manager that serves requests admits them under a generation at least  *)
(* as new as the acknowledged one: the boot restored it.                   *)
AdmissionRestored ==
    \A h \in Hosts : Serving(h) => admitted[h].gen >= state[h].gen

(* A restart is accepted, and admits under what was acknowledged before.   *)
RestartSound == RestartAccepts /\ AdmissionRestored

(* What the service is told of a host is in force there and on its disk.   *)
ReportsTrue == ReportedIsEnforced /\ ReportedIsDurable

(* "Admission already enforces the pending snapshot" whenever the host     *)
(* polls with a generation pending (architecture.md).                      *)
PollingUnderPending ==
    \A h \in Hosts : At(h, "reply") /\ state[h].pgen # 0 => admitted[h].gen = state[h].pgen
==============================================================================
