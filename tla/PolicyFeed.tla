------------------------------ MODULE PolicyFeed ------------------------------
(***************************************************************************)
(* The policy service and the receivers of its hosts, joined by the feed:  *)
(* a poll carries what the receiver reports and the newest generation it   *)
(* holds, the answer the generation the service wants it to run.  A poll   *)
(* or an answer may be lost, and both ends crash and restart on their own. *)
(*                                                                         *)
(* A fault is a lost exchange, a crash of either end, or a fan-out that    *)
(* fails; MaxFaults bounds them, which is what "once the faults stop"      *)
(* means in the liveness property.  Saves may fail at any time.            *)
(***************************************************************************)
EXTENDS PolicyReceiver, PolicyService

CONSTANT MaxFaults  \* bound on the faults of a behaviour

(* Only polls that hosts send reach the service, and only its answers the  *)
(* hosts: the environments that each end has on its own, which may report  *)
(* and answer anything, allow all of them.  No bundle expires.             *)
FeedWithin ==
    /\ [gen : 1..MaxGeneration, body : Bundles, etag : 1..MaxGeneration] \subseteq Responses
    /\ [applied : Generations, body : Bundles \cup {None}, pending : Generations,
        stalled : BOOLEAN, rejected : Generations] \subseteq Headers
    /\ Expiring = {}

VARIABLES asked,   \* h -> the poll under way to the service, if any
          answer,  \* h -> the generations under way to the host
          faults,  \* faults so far
          lost     \* hosts whose floor a restart has lowered

wireVars == <<asked, answer, faults, lost>>
vars == <<hostVars, serviceVars, wireVars>>

Init ==
    /\ ReceiverInit
    /\ ServiceInit
    /\ asked = [h \in Hosts |-> {}]
    /\ answer = [h \in Hosts |-> {}]
    /\ faults = 0
    /\ lost = {}

-----------------------------------------------------------------------------

Fault == faults < MaxFaults /\ faults' = faults + 1

Silence(h) ==
    /\ asked' = [asked EXCEPT ![h] = {}]
    /\ answer' = [answer EXCEPT ![h] = {}]

(* The poll's headers; the ETag of a generation is its number.             *)
PollHeader(h) ==
    [applied |-> state[h].gen, body |-> state[h].body, pending |-> state[h].pgen,
     stalled |-> attempted[h], rejected |-> rejected[h].gen]

SendPoll(h) ==
    /\ Ask(h)
    /\ asked' = [asked EXCEPT ![h] = {[header |-> PollHeader(h), etag |-> IfNoneMatch(h)]}]
    /\ answer' = [answer EXCEPT ![h] = {}]
    /\ UNCHANGED <<serviceVars, faults, lost>>

(* The service takes the poll up, or refuses a host it does not know.      *)
Arrive(h) ==
    /\ \E p \in asked[h] : Poll(h, p.header, p.etag)
    /\ asked' = [asked EXCEPT ![h] = {}]
    /\ UNCHANGED <<hostVars, answer, faults, lost>>

ArriveUnknown(h) ==
    /\ asked[h] # {}
    /\ Free /\ ~ Enrolled(h)
    /\ asked' = [asked EXCEPT ![h] = {}]
    /\ UNCHANGED <<hostVars, serviceVars, answer, faults, lost>>

SendAnswer(h) ==
    /\ Serve(h)
    /\ answer' = [answer EXCEPT ![h] = {Offer(h)}]
    /\ UNCHANGED <<hostVars, asked, faults, lost>>

ServeNothing(h) ==
    /\ Wait(h) \/ NotModified(h) \/ Refuse(h)
    /\ UNCHANGED <<hostVars, wireVars>>

TakeAnswer(h) ==
    /\ \E r \in answer[h] : Receive(h, [gen |-> r.gen, body |-> r.body, etag |-> r.gen])
    /\ Silence(h)
    /\ UNCHANGED <<serviceVars, faults, lost>>

(* The exchange ended without a generation.                                *)
Answered(h) ==
    /\ asked[h] = {} /\ answer[h] = {} /\ request[h].at = "none"
    /\ NoNews(h)
    /\ UNCHANGED <<serviceVars, wireVars>>

-----------------------------------------------------------------------------
(* Faults.                                                                 *)

(* The receiver gives the exchange up; the service may go on with it.      *)
GiveUp(h) ==
    /\ NoNews(h)
    /\ Silence(h)
    /\ Fault
    /\ UNCHANGED <<serviceVars, lost>>

HostCrash(h) ==
    /\ Crash(h)
    /\ Silence(h)
    /\ Fault
    /\ UNCHANGED <<serviceVars, lost>>

FanoutFails(h) ==
    /\ ApplyRefused(h) \/ ApplyIncomplete(h)
    /\ Fault
    /\ UNCHANGED <<serviceVars, asked, answer, lost>>

ServiceRestart ==
    /\ Restart
    /\ Fault
    /\ lost' = lost \cup {h \in Hosts : disk.host[h].served < mem.host[h].served}
    /\ UNCHANGED <<hostVars, asked, answer>>

(* The service notices that the client of a held request is gone.          *)
NoticeGone(h) ==
    /\ step[h] # "reply" \/ asked[h] # {}
    /\ Disconnect(h)
    /\ UNCHANGED <<hostVars, wireVars>>

-----------------------------------------------------------------------------

(* What a running receiver does by itself.                                 *)
HostWork(h) ==
    /\ \/ NewReceiver(h) \/ RestoreNothing(h)
       \/ ApplyPublish(h) \/ ApplyComplete(h) \/ Promote(h) \/ SyncStart(h)
    /\ UNCHANGED <<serviceVars, wireVars>>

HostStarts(h) == StartSandbox(h) /\ UNCHANGED <<serviceVars, wireVars>>

Administer == (AdminStep \/ FlushReports) /\ UNCHANGED <<hostVars, wireVars>>

HostSide(h) == HostWork(h) \/ SendPoll(h) \/ TakeAnswer(h) \/ Answered(h)
FeedSide(h) == Arrive(h) \/ ArriveUnknown(h) \/ SendAnswer(h) \/ ServeNothing(h) \/ NoticeGone(h)

Next ==
    \/ \E h \in Hosts : HostSide(h) \/ FeedSide(h) \/ HostStarts(h)
    \/ \E h \in Hosts : GiveUp(h) \/ HostCrash(h) \/ FanoutFails(h)
    \/ Administer \/ ServiceRestart

Spec == Init /\ [][Next]_vars

(* The host's save of its cursor succeeds.                                 *)
CursorSaved(h) == HostSide(h) /\ file'[h] # file[h]

(* A poll reaches the service, and its request ends.                       *)
PollAdvances(h) ==
    \/ Arrive(h) \/ ArriveUnknown(h) \/ SendAnswer(h)
    \/ (NotModified(h) \/ Refuse(h)) /\ UNCHANGED <<hostVars, wireVars>>

(* The receiver's goroutine runs, the service's request goroutines run and *)
(* get the mutex in the end, which Go hands to the longest waiter, the     *)
(* timer of a held request fires, a publication that holds the mutex gets  *)
(* on, and a host that keeps trying to save its cursor succeeds some time. *)
Fairness ==
    /\ \A h \in Hosts : WF_vars(HostSide(h)) /\ SF_vars(PollAdvances(h)) /\ SF_vars(CursorSaved(h))
    /\ WF_vars(PublishSave /\ UNCHANGED <<hostVars, wireVars>>)

FairSpec == Spec /\ Fairness

-----------------------------------------------------------------------------

(* Moving hosts between rings, promoting and restarting never makes the    *)
(* service offer a host what the host must refuse: an older generation, or *)
(* another bundle under a number it has (targetLocked's promise), unless   *)
(* the save of what the host was served failed and a restart forgot it.    *)
NeverRefused == \A h \in Hosts \ lost : rejected[h].reason \notin {"rollback", "changed"}

(* When the overview calls a rollout complete, every enrolled host has     *)
(* durably applied it and runs no sandbox under an older generation.       *)
CompleteMeansApplied ==
    Complete => \A h \in Hosts : Enrolled(h) =>
        /\ file[h].gen >= mem.rollout
        /\ \A p \in fleet[h] : p.gen >= mem.rollout

(* A host shown as having acknowledged what it was served has applied it.  *)
AcknowledgedIsApplied ==
    \A h \in Hosts : mem.host[h].ack => file[h].gen >= mem.host[h].served

(* What the console shows of a rollout, per host and as a whole, is true   *)
(* of the hosts, whatever order polls, saves and restarts come in.         *)
ConsoleHonest == CompleteMeansApplied /\ AcknowledgedIsApplied

(* The feed implements the abstract rollout: the published generations are *)
(* those of the state file, and a host has applied what its cursor says.   *)
Rollout == INSTANCE PolicyRollout
    WITH published <- disk.gens,
         applied <- [h \in Hosts |-> [gen |-> file[h].gen, body |-> file[h].body]]
ImplementsRollout == Rollout!Spec

(* Once faults stop, a host that stays enrolled with a target catches up   *)
(* with it: no wake-up, poll or retry is forgotten for good.               *)
Converges ==
    \A h \in Hosts : \A n \in 1..MaxGeneration :
        <>[](Enrolled(h) /\ Target(h) >= n) => <>(file[h].gen >= n)
==============================================================================
