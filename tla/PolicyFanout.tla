----------------------------- MODULE PolicyFanout -----------------------------
(***************************************************************************)
(* How the manager brings an organization snapshot to its sandboxes        *)
(* (manager/policy.go) while clients create, start, stop, delete and       *)
(* reconfigure them (manager/operation_http.go, sandbox_http.go).          *)
(*                                                                         *)
(* A lifecycle call takes a slot, the manager-wide barrier for reading and *)
(* the sandbox's shard lock; the feed takes a slot, the barrier for        *)
(* writing and then one shard lock after the other.  The manager may die   *)
(* between any two steps; sandboxes outlive it, or exit by themselves.     *)
(***************************************************************************)
EXTENDS AtomicFile, FiniteSets, Integers

CONSTANTS Sandboxes, Snapshots, Unmanaged, Absent,
          ShardOf,   \* the lock shard of each sandbox
          Calls,     \* lifecycle calls that may be under way at once
          Feed,      \* the receiver's goroutine
          Slots      \* managerMaxLifecycleOps

ASSUME FanoutConstants ==
    /\ Unmanaged \notin Snapshots /\ Absent \notin Snapshots \cup {Unmanaged}
    /\ Feed \notin Calls
    /\ Slots \in Nat \ {0}

VARIABLES saved,      \* s -> the snapshot in sandbox.json, or Absent
          live,       \* s -> the snapshot its daemon enforces, or Absent
          marker,     \* s -> policy-rollout.json exists
          active,     \* managerService.organizationPolicy
          staged,     \* what the receiver restores after a restart
          applied,    \* the last fan-out returned without an error
          at,         \* w -> where the call or the feed is
          job,        \* w -> what it is doing
          todo,       \* sandboxes the fan-out has still to visit
          incomplete, \* a target of this fan-out failed
          execs,      \* sandboxes with an exec under way
          up,         \* "down", "boot" or "serving"
          stuck,      \* sandboxes left running: the feed could not stop them, or
                      \* the save of a controlled restart failed
          halted,     \* sandboxes stopped because a client asked for it
          owed        \* sandboxes stopped only to be resumed

sandboxVars == <<saved, live, marker>>
feedVars == <<active, staged, applied, todo, incomplete>>
ghostVars == <<stuck, halted, owed>>
vars == <<sandboxVars, feedVars, at, job, execs, up, ghostVars>>

Workers == Calls \cup {Feed}
Policies == Snapshots \cup {Unmanaged}
Kinds == {"create", "start", "stop", "delete", "policy"}
Job == [kind : Kinds, sandbox : Sandboxes, want : Policies, restart : BOOLEAN]

(* A create and a policy call name a snapshot, the latter a restart too.   *)
Plain == [kind : {"start", "stop", "delete"}, sandbox : Sandboxes, want : {Unmanaged}, restart : {FALSE}]
Requests ==
    Plain \cup [kind : {"create"}, sandbox : Sandboxes, want : Policies, restart : {FALSE}]
          \cup [kind : {"policy"}, sandbox : Sandboxes, want : Policies, restart : BOOLEAN]

(* Steps taken under the sandbox's shard lock.                             *)
Exclusive == {"run", "stop", "save", "recover", "resume", "failclose"}
Steps == {"idle", "barrier", "shard", "loop"} \cup Exclusive

Exists(s) == saved[s] # Absent
Running(s) == live[s] # Absent
NoJob == [kind |-> "none"]

Init ==
    /\ saved = [s \in Sandboxes |-> Absent]
    /\ live = [s \in Sandboxes |-> Absent]
    /\ marker = [s \in Sandboxes |-> FALSE]
    /\ active = Unmanaged /\ staged = Unmanaged /\ applied = FALSE
    /\ at = [w \in Workers |-> "idle"] /\ job = [w \in Workers |-> NoJob]
    /\ todo = {} /\ incomplete = FALSE
    /\ execs = {}
    /\ up = "serving"
    /\ stuck = {} /\ halted = {} /\ owed = {}

-----------------------------------------------------------------------------
(* Slots and locks.                                                        *)

SlotFree == Cardinality({w \in Workers : at[w] # "idle"}) < Slots
FanningOut == at[Feed] \in Exclusive \cup {"loop"}
HoldsBarrier(c) == at[c] \in Exclusive \cup {"shard"}
SameShard(s, t) == ShardOf[s] = ShardOf[t]
(* Mutant: a call takes its shard before it waits for the barrier.         *)
ShardFreeOfWaiters(s) ==
    /\ \A w \in Workers : job[w] # NoJob /\ at[w] # "shard" => ~ SameShard(job[w].sandbox, s)
    /\ \A t \in execs : ~ SameShard(t, s)

ShardFree(s) ==
    /\ \A w \in Workers : at[w] \in Exclusive => ~ SameShard(job[w].sandbox, s)
    /\ \A t \in execs : ~ SameShard(t, s)

GoTo(w, step) == at' = [at EXCEPT ![w] = step]

(* A finished call releases everything.                                    *)
Done(w, step) == GoTo(w, step) /\ job' = [job EXCEPT ![w] = NoJob]
Release(w) == Done(w, "idle")

(* What follows when RolloutOrganizationPolicy returns.                    *)
Succeeded(w) == IF w = Feed THEN Done(w, "loop") ELSE Release(w)
Errored(w) == IF w = Feed THEN GoTo(w, "failclose") /\ UNCHANGED job ELSE Release(w)

-----------------------------------------------------------------------------
(* Lifecycle calls.                                                        *)

CallBegin(c, j) ==
    /\ up = "serving"
    /\ at[c] = "idle"
    /\ SlotFree
    /\ job' = [job EXCEPT ![c] = j]
    /\ GoTo(c, "barrier")
    /\ UNCHANGED <<sandboxVars, feedVars, execs, up, ghostVars>>

CallBarrier(c) ==
    /\ at[c] = "barrier"
    /\ ~ FanningOut
    /\ GoTo(c, "shard")
    /\ UNCHANGED <<sandboxVars, feedVars, job, execs, up, ghostVars>>

CallShard(c) ==
    /\ at[c] = "shard"
    /\ ShardFree(job[c].sandbox)
    /\ GoTo(c, "run")
    /\ UNCHANGED <<sandboxVars, feedVars, job, execs, up, ghostVars>>

(* The client is gone while the call waits for its shard, or the request   *)
(* is refused or fails before it changes anything.                         *)
CallReturn(c) ==
    /\ at[c] \in {"shard", "run"}
    /\ Release(c)
    /\ UNCHANGED <<sandboxVars, feedVars, execs, up, ghostVars>>

Boots(s, policy) ==
    /\ live' = [live EXCEPT ![s] = policy]
    /\ marker' = [marker EXCEPT ![s] = FALSE]
    /\ owed' = owed \ {s}
    /\ stuck' = stuck \ {s}

(* A create inherits the active snapshot; one that fails to boot may leave *)
(* its configuration behind.                                               *)
Create(c) ==
    LET s == job[c].sandbox
        want == IF active # Unmanaged THEN active ELSE job[c].want
    IN  /\ at[c] = "run" /\ job[c].kind = "create"
        /\ active # Unmanaged => job[c].want \in {Unmanaged, active}
        /\ ~ Exists(s) /\ ~ Running(s)
        /\ saved' = [saved EXCEPT ![s] = want]
        /\ \/ Boots(s, want) /\ halted' = halted \ {s}
           \/ UNCHANGED <<live, marker, ghostVars>>
        /\ Release(c)
        /\ UNCHANGED <<feedVars, execs, up>>

(* Mutant: any saved sandbox may be started.                               *)
StartUnchecked(c) ==
    LET s == job[c].sandbox
    IN  /\ at[c] = "run" /\ job[c].kind = "start"
        /\ Exists(s) /\ ~ Running(s)
        /\ Boots(s, saved[s])
        /\ halted' = halted \ {s}
        /\ Release(c)
        /\ UNCHANGED <<saved, feedVars, execs, up>>

(* A start is refused until the saved snapshot matches the active one.     *)
Start(c) ==
    LET s == job[c].sandbox
    IN  /\ at[c] = "run" /\ job[c].kind = "start"
        /\ Exists(s) /\ ~ Running(s)
        /\ active # Unmanaged => saved[s] = active
        /\ Boots(s, saved[s])
        /\ halted' = halted \ {s}
        /\ Release(c)
        /\ UNCHANGED <<saved, feedVars, execs, up>>

(* Stopping a sandbox that is stopped already succeeds.                    *)
Stop(c) ==
    LET s == job[c].sandbox
    IN  /\ at[c] = "run" /\ job[c].kind = "stop"
        /\ Exists(s)
        /\ live' = [live EXCEPT ![s] = Absent]
        /\ halted' = halted \cup {s}
        /\ owed' = owed \ {s}
        /\ stuck' = stuck \ {s}
        /\ Release(c)
        /\ UNCHANGED <<saved, marker, feedVars, execs, up>>

(* A delete stops the sandbox; removing its tree may fail half way.        *)
Delete(c) ==
    LET s == job[c].sandbox
    IN  /\ at[c] = "run" /\ job[c].kind = "delete"
        /\ live' = [live EXCEPT ![s] = Absent]
        /\ saved' \in {saved, [saved EXCEPT ![s] = Absent]}
        /\ marker' \in {marker, [marker EXCEPT ![s] = FALSE]}
        /\ stuck' = stuck \ {s} /\ halted' = halted \ {s} /\ owed' = owed \ {s}
        /\ Release(c)
        /\ UNCHANGED <<feedVars, execs, up>>

-----------------------------------------------------------------------------
(* RolloutOrganizationPolicy, for a client's policy call and for the feed. *)

(* A client may only ask for the snapshot the feed has made active.        *)
MayRollOut(w) ==
    /\ at[w] = "run"
    /\ job[w].kind = "policy"
    /\ Exists(job[w].sandbox)
    /\ w # Feed /\ active # Unmanaged => job[w].want = active

Same(w) == saved[job[w].sandbox] = job[w].want

(* The configuration or the marker cannot be read, or it has OAuth custody. *)
RolloutRefused(w) ==
    /\ at[w] = "run" /\ job[w].kind = "policy"
    /\ Errored(w)
    /\ UNCHANGED <<sandboxVars, feedVars, execs, up, ghostVars>>

(* The snapshot is saved already; an interrupted restart is resumed.       *)
RolloutSame(w) ==
    LET s == job[w].sandbox
    IN  /\ MayRollOut(w)
        /\ Same(w)
        /\ IF marker[s] /\ ~ Running(s)
           THEN GoTo(w, "resume") /\ UNCHANGED <<marker, job>>
           ELSE marker' = [marker EXCEPT ![s] = FALSE] /\ Succeeded(w)
        /\ UNCHANGED <<saved, live, feedVars, execs, up, ghostVars>>

(* A running sandbox reconciles live: it has the snapshot (and the answer  *)
(* may still get lost), or what it had before, or it stops because it      *)
(* could not restore that.  If it has exited by then its file is changed.  *)
RolloutLive(w) ==
    LET s == job[w].sandbox
    IN  /\ MayRollOut(w)
        /\ ~ Same(w) /\ Running(s) /\ ~ job[w].restart
        /\ \/ /\ saved' = [saved EXCEPT ![s] = job[w].want]
              /\ live' = [live EXCEPT ![s] = job[w].want]
              /\ stuck' = stuck \ {s}
              /\ Succeeded(w) \/ Errored(w)
           \/ \E outcome \in SaveOutcomes :
                /\ saved' = [saved EXCEPT ![s] = FileAfter(outcome, @, job[w].want)]
                /\ live' = [live EXCEPT ![s] = Absent]
                /\ stuck' = stuck \ {s}
                /\ IF outcome = "ok" THEN Succeeded(w) ELSE Errored(w)
           \/ /\ Errored(w)
              /\ live' \in {live, [live EXCEPT ![s] = Absent]}
              /\ UNCHANGED <<saved, stuck>>
        /\ UNCHANGED <<marker, feedVars, execs, up, halted, owed>>

RolloutStopped(w) ==
    LET s == job[w].sandbox
    IN  /\ MayRollOut(w)
        /\ ~ Same(w) /\ ~ Running(s) /\ ~ marker[s]
        /\ \E outcome \in SaveOutcomes :
             /\ saved' = [saved EXCEPT ![s] = FileAfter(outcome, @, job[w].want)]
             /\ IF outcome = "ok" THEN Succeeded(w) ELSE Errored(w)
        /\ UNCHANGED <<live, marker, feedVars, execs, up, ghostVars>>

(* A controlled restart, or one that a marker says was interrupted: the    *)
(* intent is recorded before the sandbox is stopped.                       *)
RolloutMark(w) ==
    LET s == job[w].sandbox
    IN  /\ MayRollOut(w)
        /\ ~ Same(w) /\ Running(s) /\ job[w].restart
        /\ \E outcome \in SaveOutcomes :
             /\ marker' = [marker EXCEPT ![s] = FileAfter(outcome, @, TRUE)]
             /\ IF outcome = "ok" THEN GoTo(w, "stop") /\ UNCHANGED job ELSE Errored(w)
        /\ UNCHANGED <<saved, live, feedVars, execs, up, ghostVars>>

RolloutInterrupted(w) ==
    LET s == job[w].sandbox
    IN  /\ MayRollOut(w)
        /\ ~ Same(w) /\ ~ Running(s) /\ marker[s]
        /\ GoTo(w, "save")
        /\ UNCHANGED <<sandboxVars, feedVars, job, execs, up, ghostVars>>

(* A stop that fails leaves the sandbox running and withdraws the marker.  *)
RolloutStop(w) ==
    LET s == job[w].sandbox
    IN  /\ at[w] = "stop"
        /\ \/ /\ live' = [live EXCEPT ![s] = Absent]
              /\ owed' = owed \cup {s}
              /\ (GoTo(w, "save") /\ UNCHANGED job) \/ Errored(w)
              /\ UNCHANGED marker
           \/ /\ Running(s)
              /\ marker' = [marker EXCEPT ![s] = FALSE]
              /\ Errored(w)
              /\ UNCHANGED <<live, owed>>
        /\ UNCHANGED <<saved, feedVars, execs, up, stuck, halted>>

RolloutSave(w) ==
    LET s == job[w].sandbox
    IN  /\ at[w] = "save"
        /\ \E outcome \in SaveOutcomes :
             /\ saved' = [saved EXCEPT ![s] = FileAfter(outcome, @, job[w].want)]
             /\ GoTo(w, IF outcome = "ok" THEN "resume" ELSE "recover")
        /\ UNCHANGED <<live, marker, feedVars, job, execs, up, ghostVars>>

(* Mutant: the marker is removed before the sandbox has booted.            *)
RolloutResumeUnmarked(w) ==
    LET s == job[w].sandbox
    IN  /\ at[w] = "resume"
        /\ \/ Boots(s, saved[s]) /\ Succeeded(w)
           \/ Errored(w) /\ marker' = [marker EXCEPT ![s] = FALSE] /\ UNCHANGED <<live, stuck, owed>>
        /\ UNCHANGED <<saved, feedVars, execs, up, halted>>

(* The snapshot is saved: the sandbox boots with it, or stays stopped with *)
(* the marker in place.                                                    *)
RolloutResume(w) ==
    LET s == job[w].sandbox
    IN  /\ at[w] = "resume"
        /\ \/ Boots(s, saved[s]) /\ Succeeded(w)
           \/ Errored(w) /\ UNCHANGED <<live, marker, stuck, owed>>
        /\ UNCHANGED <<saved, feedVars, execs, up, halted>>

(* The save failed: the sandbox is booted with what its file says.         *)
RolloutRecover(w) ==
    LET s == job[w].sandbox
    IN  /\ at[w] = "recover"
        /\ \/ /\ live' = [live EXCEPT ![s] = saved[s]]
              /\ marker' = [marker EXCEPT ![s] = FALSE]
              /\ owed' = owed \ {s}
              /\ stuck' = stuck \cup {s}
           \/ UNCHANGED <<live, marker, stuck, owed>>
        /\ Errored(w)
        /\ UNCHANGED <<saved, feedVars, execs, up, halted>>

Rollout(w) ==
    \/ RolloutRefused(w) \/ RolloutSame(w) \/ RolloutLive(w) \/ RolloutStopped(w)
    \/ RolloutMark(w) \/ RolloutInterrupted(w)
    \/ RolloutStop(w) \/ RolloutSave(w) \/ RolloutResume(w) \/ RolloutRecover(w)

-----------------------------------------------------------------------------
(* applyReceivedOrganizationPolicy.                                        *)

(* The receiver has staged p; at boot it is what was staged before.        *)
FeedBegin(p) ==
    /\ up # "down"
    /\ up = "boot" => p = staged
    /\ at[Feed] = "idle"
    /\ SlotFree
    /\ staged' = p
    /\ GoTo(Feed, "barrier")
    /\ UNCHANGED <<sandboxVars, active, applied, todo, incomplete, job, execs, up, ghostVars>>

(* The snapshot is published for admission before the sandboxes are        *)
(* enumerated; when that fails the fan-out is over.                        *)
FeedPublish ==
    /\ at[Feed] = "barrier"
    /\ \A c \in Calls : ~ HoldsBarrier(c)
    /\ execs = {}
    /\ active' = staged
    /\ applied' = FALSE
    /\ \/ /\ todo' = {s \in Sandboxes : Exists(s)}
          /\ incomplete' = FALSE
          /\ UNCHANGED stuck
       \/ /\ todo' = {}
          /\ incomplete' = TRUE
          /\ stuck' = stuck \cup {s \in Sandboxes : Running(s) /\ live[s] # staged}
    /\ GoTo(Feed, "loop")
    /\ UNCHANGED <<sandboxVars, staged, job, execs, up, halted, owed>>

FeedTarget(s) ==
    /\ at[Feed] = "loop"
    /\ s \in todo
    /\ ShardFree(s)
    /\ todo' = todo \ {s}
    /\ job' = [job EXCEPT ![Feed] = [kind |-> "policy", sandbox |-> s, want |-> active, restart |-> FALSE]]
    /\ GoTo(Feed, "run")
    /\ UNCHANGED <<sandboxVars, active, staged, applied, incomplete, execs, up, ghostVars>>

(* Any target that did not reach the snapshot is stopped.                  *)
FeedFailClosed ==
    LET s == job[Feed].sandbox
    IN  /\ at[Feed] = "failclose"
        /\ incomplete' = TRUE
        /\ \/ /\ live' = [live EXCEPT ![s] = Absent]
              /\ stuck' = stuck \ {s}
              /\ owed' = owed \ {s}
           \/ /\ Running(s)
              /\ stuck' = stuck \cup {s}
              /\ UNCHANGED <<live, owed>>
        /\ Done(Feed, "loop")
        /\ UNCHANGED <<saved, marker, active, staged, applied, todo, execs, up, halted>>

FeedReturn ==
    /\ at[Feed] = "loop"
    /\ todo = {}
    /\ applied' = ~ incomplete
    /\ up' = "serving"
    /\ incomplete' = FALSE
    /\ Release(Feed)
    /\ UNCHANGED <<sandboxVars, active, staged, todo, execs, ghostVars>>

FeedStep ==
    \/ FeedPublish \/ FeedFailClosed \/ FeedReturn
    \/ \E s \in Sandboxes : FeedTarget(s)
    \/ Rollout(Feed)

-----------------------------------------------------------------------------

ExecBegin(s) ==
    /\ up = "serving"
    /\ ~ FanningOut
    /\ \A w \in Workers : at[w] \in Exclusive => ~ SameShard(job[w].sandbox, s)
    /\ Running(s)
    /\ execs' = execs \cup {s}
    /\ UNCHANGED <<sandboxVars, feedVars, at, job, up, ghostVars>>

ExecEnd(s) ==
    /\ s \in execs
    /\ execs' = execs \ {s}
    /\ UNCHANGED <<sandboxVars, feedVars, at, job, up, ghostVars>>

(* A sandbox exits by itself.                                              *)
Exit(s) ==
    /\ Running(s)
    /\ live' = [live EXCEPT ![s] = Absent]
    /\ stuck' = stuck \ {s}
    /\ UNCHANGED <<saved, marker, feedVars, at, job, execs, up, halted, owed>>

Crash ==
    /\ up # "down"
    /\ up' = "down"
    /\ active' = Unmanaged /\ applied' = FALSE
    /\ at' = [w \in Workers |-> "idle"] /\ job' = [w \in Workers |-> NoJob]
    /\ todo' = {} /\ incomplete' = FALSE /\ execs' = {}
    /\ UNCHANGED <<sandboxVars, staged, ghostVars>>

(* The manager serves once what was staged has been fanned out.            *)
Boot ==
    /\ up = "down"
    /\ up' = IF staged = Unmanaged THEN "serving" ELSE "boot"
    /\ UNCHANGED <<sandboxVars, feedVars, at, job, execs, ghostVars>>

CallStep(c) ==
    \/ CallBarrier(c) \/ CallShard(c) \/ CallReturn(c)
    \/ Create(c) \/ Start(c) \/ Stop(c) \/ Delete(c) \/ Rollout(c)

Next ==
    \/ \E c \in Calls : CallStep(c) \/ \E j \in Requests : CallBegin(c, j)
    \/ FeedStep \/ \E p \in Snapshots : FeedBegin(p)
    \/ \E s \in Sandboxes : ExecBegin(s) \/ ExecEnd(s) \/ Exit(s)
    \/ Crash \/ Boot

Spec == Init /\ [][Next]_vars

(* The receiver's goroutine runs, and the calls it drains end.             *)
FairSpec ==
    /\ Spec
    /\ WF_vars(FeedStep)
    /\ \A c \in Calls : WF_vars(CallStep(c))
    /\ \A s \in Sandboxes : WF_vars(ExecEnd(s))

-----------------------------------------------------------------------------

(* The types of the state.  A daemon always has a configuration.           *)
TypeOK ==
    /\ saved \in [Sandboxes -> Policies \cup {Absent}]
    /\ live \in [Sandboxes -> Policies \cup {Absent}]
    /\ \A s \in Sandboxes : Running(s) => Exists(s)
    /\ marker \in [Sandboxes -> BOOLEAN]
    /\ {active, staged} \subseteq Policies /\ applied \in BOOLEAN
    /\ at \in [Workers -> Steps] /\ job \in [Workers -> Job \cup {NoJob}]
    /\ todo \subseteq Sandboxes /\ incomplete \in BOOLEAN
    /\ execs \subseteq Sandboxes /\ up \in {"down", "boot", "serving"}
    /\ stuck \cup halted \cup owed \subseteq Sandboxes

(* Once a fan-out has returned without an error, which the receiver        *)
(* acknowledges, every saved sandbox has the active snapshot, running or   *)
(* not, whatever clients do until the next fan-out publishes its own.      *)
AppliedEverywhere ==
    applied =>
        \A s \in Sandboxes : Exists(s) => saved[s] = active /\ live[s] \in {active, Absent}

(* Outside a fan-out no sandbox runs under another snapshot than the       *)
(* active one, unless the feed reported that it could not be stopped or a  *)
(* controlled restart that could not save resumed it as it was.            *)
FailClosed ==
    up = "serving" /\ active # Unmanaged /\ ~ FanningOut =>
        \A s \in Sandboxes : live[s] \in {active, Absent} \/ s \in stuck

(* A fan-out that is acknowledged reached every sandbox, and one that is   *)
(* not leaves none running under what it replaced.                         *)
RolloutHonest == AppliedEverywhere /\ FailClosed

(* "a failed target cannot be resumed through the manager until its saved  *)
(* snapshot matches" (architecture.md).                                    *)
StartsUnderActive ==
    [][ \A s \in Sandboxes :
          active # Unmanaged /\ ~ FanningOut /\ ~ Running(s) /\ Running(s)' => live'[s] = active ]_vars

(* A sandbox that was stopped only to be resumed with another snapshot is  *)
(* remembered by its marker, whatever step fails and whenever the manager  *)
(* dies, so that a retry resumes it.                                       *)
ResumeRemembered == \A s \in owed : marker[s]

(* "A stopped sandbox is updated without being started" (architecture.md): *)
(* the feed does not start what a client has stopped.                      *)
StoppedStaysStopped ==
    [][ \A s \in halted :
          at[Feed] \in Exclusive /\ at[Feed] # at'[Feed] /\ ~ Running(s) => ~ Running(s)' ]_vars

(* A fan-out that holds the barrier ends: it never waits for a call that   *)
(* waits for it.                                                           *)
FanoutEnds == at[Feed] = "loop" ~> at[Feed] = "idle"
==============================================================================
