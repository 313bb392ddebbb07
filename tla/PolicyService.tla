---------------------------- MODULE PolicyService ----------------------------
(***************************************************************************)
(* The policy service (policyservice/service.go, admin.go, feed.go): it    *)
(* numbers signed bundles, promotes them ring by ring and serves each      *)
(* enrolled host its target generation over a long poll.                   *)
(*                                                                         *)
(* All state is guarded by Service.mu, so a handler's critical section is  *)
(* one step.  Publishing writes three files; between them the process may  *)
(* die, with the mutex still held.  A failed save of state.json is taken   *)
(* back in memory by the administrator's handlers and ignored by the feed. *)
(***************************************************************************)
EXTENDS PolicyTypes, Sequences

CONSTANTS Rings,          \* rings are 1..Rings, the first is promoted first
          MaxGeneration,  \* bound on the generations published
          Headers,        \* reports a poll may carry, see Report
          Drafts          \* documents an administrator may save as a draft

ASSUME RingsAssumption == Rings \in Nat \ {0} /\ MaxGeneration \in Nat

VARIABLES mem,         \* Service.state
          disk,        \* state.json
          files,       \* generations/<n>.tar.gz: n -> bundle or None
          publishing,  \* the publication holding the mutex, or Idle
          dirty,       \* Service.reportsDirty
          request,     \* h -> the feed request being handled
          sent         \* h -> every generation ever sent to h

serviceVars == <<mem, disk, files, publishing, dirty, request, sent>>

RingIds == 1..Rings
Generations == 0..MaxGeneration
Idle == [bundle |-> None, ring |-> 0]
Free == publishing = Idle

(* What a poll reports: the generation applied and its digest, the one     *)
(* pending and whether it is stalled, and one refused.                     *)
Header == [applied : Nat, body : Bundles \cup {None}, pending : Nat,
           stalled : BOOLEAN, rejected : Nat]
Report == [applied : Nat, matches : BOOLEAN, pending : Nat,
           stalled : BOOLEAN, rejected : Nat]

ASSUME HeadersTyped == Headers \subseteq Header

Stranger == [enrolled |-> "no", ring |-> 1, served |-> 0, ack |-> FALSE, report |-> None]
NoRequest == [at |-> "none", etag |-> 0, woken |-> FALSE]

ServiceInit ==
    /\ mem = [gens |-> <<>>, ring |-> [i \in RingIds |-> 0], rollout |-> 0,
              host |-> [h \in Hosts |-> Stranger], draft |-> None]
    /\ disk = mem
    /\ files = [n \in 1..MaxGeneration |-> None]
    /\ publishing = Idle
    /\ dirty = FALSE
    /\ request = [h \in Hosts |-> NoRequest]
    /\ sent = [h \in Hosts |-> {}]

-----------------------------------------------------------------------------

Enrolled(h) == mem.host[h].enrolled = "yes"
Latest == Len(mem.gens)

(* Mutant: the ring alone decides.                                         *)
TargetOfRing(h) == mem.ring[mem.host[h].ring]

Target(h) ==
    LET host == mem.host[h]
    IN  IF mem.ring[host.ring] > host.served THEN mem.ring[host.ring] ELSE host.served

(* bundleLocked: the stored bytes must match the recorded digest.          *)
Readable(n) == n \in 1..Latest /\ files[n] = mem.gens[n]

(* notifyLocked closes the channel every waiting request has captured.     *)
Woken == [h \in Hosts |-> [request[h] EXCEPT !.woken = @ \/ request[h].at = "waiting"]]

(* A save whose error is logged and otherwise ignored.                     *)
SaveAnyway(next) ==
    /\ mem' = next
    /\ dirty' = FALSE
    /\ \E outcome \in SaveOutcomes : disk' = FileAfter(outcome, disk, next)

(* A save whose error is returned, with the change taken back in memory.   *)
SaveOrUndo(next) ==
    /\ dirty' = FALSE
    /\ \E outcome \in SaveOutcomes :
         /\ disk' = FileAfter(outcome, disk, next)
         /\ mem' = IF outcome = "ok" THEN next ELSE mem

(* Mutant: a failed save leaves the change in memory.                      *)
SaveKeepingMemory(next) ==
    /\ dirty' = FALSE
    /\ \E outcome \in SaveOutcomes : disk' = FileAfter(outcome, disk, next)
    /\ mem' = next
    /\ request' = Woken

SaveOrUndoNotify(next) ==
    /\ dirty' = FALSE
    /\ \E outcome \in SaveOutcomes :
         /\ disk' = FileAfter(outcome, disk, next)
         /\ IF outcome = "ok" THEN mem' = next /\ request' = Woken
                              ELSE UNCHANGED <<mem, request>>

-----------------------------------------------------------------------------
(* Administration.                                                         *)

Enroll(h, i) ==
    /\ Free
    /\ mem.host[h].enrolled = "no"
    /\ SaveOrUndo([mem EXCEPT !.host[h].enrolled = "yes", !.host[h].ring = i])
    /\ UNCHANGED <<files, publishing, request, sent>>

(* Mutant: nobody is told of the move.                                     *)
UpdateHostSilently(h, i) ==
    /\ Free
    /\ Enrolled(h)
    /\ SaveOrUndo([mem EXCEPT !.host[h].ring = i])
    /\ UNCHANGED <<files, publishing, request, sent>>

UpdateHost(h, i) ==
    /\ Free
    /\ Enrolled(h)
    /\ SaveOrUndoNotify([mem EXCEPT !.host[h].ring = i])
    /\ UNCHANGED <<files, publishing, sent>>

Revoke(h) ==
    /\ Free
    /\ Enrolled(h)
    /\ SaveOrUndoNotify([mem EXCEPT !.host[h].enrolled = "revoked"])
    /\ UNCHANGED <<files, publishing, sent>>

(* A new bundle must differ from the latest one; an old one is republished *)
(* from its file.                                                          *)
Publishable(b) ==
    \/ Latest # 0 => b # mem.gens[Latest]
    \/ \E n \in 1..Latest : mem.gens[n] = b /\ Readable(n)

(* publishLocked, up to the first file it writes.                          *)
PublishBundle(b, i) ==
    /\ Free
    /\ Latest < MaxGeneration
    /\ Publishable(b)
    /\ \E outcome \in SaveOutcomes :
         /\ files' = [files EXCEPT ![Latest + 1] = FileAfter(outcome, @, b)]
         /\ publishing' = IF outcome = "ok" THEN [bundle |-> b, ring |-> i] ELSE Idle
    /\ UNCHANGED <<mem, disk, dirty, request, sent>>

(* The verified document could not be written beside the bundle.           *)
PublishAbandoned ==
    /\ ~ Free
    /\ SaveFaults # {}
    /\ publishing' = Idle
    /\ UNCHANGED <<mem, disk, files, dirty, request, sent>>

Published(b, i) ==
    [mem EXCEPT !.gens = Append(@, b),
                !.rollout = Latest + 1,
                !.ring = [j \in RingIds |-> IF j <= i THEN Latest + 1 ELSE mem.ring[j]],
                !.draft = IF @ = b THEN None ELSE @]

PublishSave ==
    /\ ~ Free
    /\ SaveOrUndoNotify(Published(publishing.bundle, publishing.ring))
    /\ publishing' = Idle
    /\ UNCHANGED <<files, sent>>

PromoteRing(i) ==
    /\ Free
    /\ mem.rollout # 0
    /\ SaveOrUndoNotify([mem EXCEPT !.ring =
           [j \in RingIds |-> IF j <= i /\ @[j] < mem.rollout THEN mem.rollout ELSE @[j]]])
    /\ UNCHANGED <<files, publishing, sent>>

SetDraft(d) ==
    /\ Free
    /\ SaveOrUndo([mem EXCEPT !.draft = d])
    /\ UNCHANGED <<files, publishing, request, sent>>

-----------------------------------------------------------------------------
(* The feed.                                                               *)

(* recordReportLocked: an acknowledgement is remembered, and the report is *)
(* saved only when it differs from the last one.                           *)
Matches(header) == Readable(header.applied) /\ header.body = mem.gens[header.applied]

Seen(header) == [applied |-> header.applied, matches |-> Matches(header), pending |-> header.pending,
                 stalled |-> header.stalled, rejected |-> header.rejected]

Recorded(h, report) ==
    [mem EXCEPT !.host[h].report = report,
                !.host[h].ack = @ \/ (mem.host[h].served # 0 /\ report.applied >= mem.host[h].served)]

Poll(h, header, etag) ==
    /\ Free
    /\ request[h].at = "none"
    /\ Enrolled(h)
    /\ IF mem.host[h].report = Seen(header)
       THEN mem' = Recorded(h, Seen(header)) /\ dirty' = TRUE /\ UNCHANGED disk
       ELSE SaveAnyway(Recorded(h, Seen(header)))
    /\ request' = [request EXCEPT ![h] = [at |-> "checking", etag |-> etag, woken |-> FALSE]]
    /\ UNCHANGED <<files, publishing, sent>>

(* A request goes round handleFeed's loop when it arrives and when woken.  *)
Checking(h) ==
    /\ Free
    /\ request[h].at = "checking" \/ request[h].woken

UpToDate(h) == Target(h) = 0 \/ request[h].etag = Target(h)

Done(h) == request' = [request EXCEPT ![h] = NoRequest]

Wait(h) ==
    /\ Checking(h)
    /\ Enrolled(h)
    /\ UpToDate(h)
    /\ request' = [request EXCEPT ![h].at = "waiting", ![h].woken = FALSE]
    /\ UNCHANGED <<mem, disk, files, publishing, dirty, sent>>

(* 304: the host did not ask to wait, or its wait is over.                 *)
NotModified(h) ==
    /\ \/ request[h].at = "checking" /\ Checking(h) /\ Enrolled(h) /\ UpToDate(h)
       \/ request[h].at = "waiting"
    /\ Done(h)
    /\ UNCHANGED <<mem, disk, files, publishing, dirty, sent>>

(* 403 for a host revoked while it polled, 500 for an unreadable bundle.   *)
Refuse(h) ==
    /\ Checking(h)
    /\ Enrolled(h) => ~ UpToDate(h) /\ ~ Readable(Target(h))
    /\ Done(h)
    /\ UNCHANGED <<mem, disk, files, publishing, dirty, sent>>

(* markServedLocked raises the floor of the host's target before the       *)
(* generation leaves, and only logs a save that failed.                    *)
Offer(h) == [gen |-> Target(h), body |-> mem.gens[Target(h)]]

Serve(h) ==
    /\ Checking(h)
    /\ Enrolled(h)
    /\ ~ UpToDate(h)
    /\ Readable(Target(h))
    /\ IF Target(h) > mem.host[h].served
       THEN SaveAnyway([mem EXCEPT !.host[h].served = Target(h), !.host[h].ack = FALSE])
       ELSE UNCHANGED <<mem, disk, dirty>>
    /\ sent' = [sent EXCEPT ![h] = @ \cup {Offer(h)}]
    /\ Done(h)
    /\ UNCHANGED <<files, publishing>>

(* The client goes away.                                                   *)
Disconnect(h) ==
    /\ request[h].at # "none"
    /\ Done(h)
    /\ UNCHANGED <<mem, disk, files, publishing, dirty, sent>>

-----------------------------------------------------------------------------
(* What an administrator is shown of a host heard from lately.             *)

(* Mutant: a generation counts as soon as it was served.                   *)
StatusByAcknowledgement(h) ==
    IF mem.host[h].served >= Target(h) THEN "current" ELSE "waiting"

Status(h) ==
    LET host == mem.host[h]
        target == Target(h)
        report == host.report
        refused == report.rejected = target /\ report.applied < target /\ report.pending # target
        mismatch == report.applied = target /\ ~ report.matches
    IN  IF host.enrolled = "revoked" THEN "revoked"
        ELSE IF report = None THEN "never"
        ELSE IF target = 0 THEN "idle"
        ELSE IF refused THEN "rejected"
        ELSE IF report.pending = target THEN (IF report.stalled THEN "stalled" ELSE "pending")
        ELSE IF report.applied >= target THEN (IF mismatch THEN "mismatch" ELSE "current")
        ELSE IF host.served >= target THEN "offered"
        ELSE "waiting"

Complete ==
    /\ mem.rollout # 0
    /\ \A h \in Hosts : Enrolled(h) => Target(h) >= mem.rollout /\ Status(h) = "current"

-----------------------------------------------------------------------------

FlushReports ==
    /\ Free
    /\ dirty
    /\ SaveAnyway(mem)
    /\ UNCHANGED <<files, publishing, request, sent>>

(* The process dies, perhaps while publishing, and Open reads state.json.  *)
Restart ==
    /\ mem' = disk
    /\ publishing' = Idle
    /\ dirty' = FALSE
    /\ request' = [h \in Hosts |-> NoRequest]
    /\ UNCHANGED <<disk, files, sent>>

AdminStep ==
    \/ \E h \in Hosts : Revoke(h) \/ \E i \in RingIds : Enroll(h, i) \/ UpdateHost(h, i)
    \/ \E b \in Bundles, i \in RingIds : PublishBundle(b, i)
    \/ PublishAbandoned \/ PublishSave
    \/ \E i \in RingIds : PromoteRing(i)
    \/ \E d \in Drafts \cup {None} : d # mem.draft /\ SetDraft(d)

FeedStep(h) == Wait(h) \/ NotModified(h) \/ Refuse(h) \/ Serve(h) \/ Disconnect(h)

ServiceNext ==
    \/ AdminStep \/ FlushReports \/ Restart
    \/ \E h \in Hosts : FeedStep(h) \/ \E c \in Headers, etag \in Generations : Poll(h, c, etag)

ServiceSpec == ServiceInit /\ [][ServiceNext]_serviceVars

-----------------------------------------------------------------------------

(* The types of the stored state, in memory and on disk, and of the        *)
(* requests being handled.                                                 *)
Host == [enrolled : {"no", "yes", "revoked"}, ring : RingIds, served : Generations,
         ack : BOOLEAN, report : Report \cup {None}]
StateOK(s) ==
    /\ DOMAIN s = {"gens", "ring", "rollout", "host", "draft"}
    /\ s.gens \in Seq(Bundles) /\ Len(s.gens) <= MaxGeneration
    /\ s.ring \in [RingIds -> Generations] /\ s.rollout \in Generations
    /\ s.host \in [Hosts -> Host] /\ s.draft \in Drafts \cup {None}
ServiceTypeOK ==
    /\ StateOK(mem) /\ StateOK(disk)
    /\ files \in [1..MaxGeneration -> Bundles \cup {None}]
    /\ publishing \in [bundle : Bundles, ring : RingIds] \cup {Idle}
    /\ dirty \in BOOLEAN
    /\ request \in [Hosts -> [at : {"none", "checking", "waiting"}, etag : Generations, woken : BOOLEAN]]
    /\ sent \in [Hosts -> SUBSET Snapshot]

(* A held request is never left sleeping on a change it should see: a new  *)
(* target, or its host's revocation.                                       *)
NoLostWakeup ==
    \A h \in Hosts :
        request[h].at = "waiting" /\ ~ request[h].woken => Enrolled(h) /\ UpToDate(h)

(* What a host was sent survives failed saves, publications cut short and  *)
(* restarts: the state file records that generation with that bundle, so   *)
(* the number is never given to another one, and its file keeps the bytes. *)
SentIsDurable ==
    \A h \in Hosts : \A p \in sent[h] :
        /\ p.gen \in 1..Len(disk.gens) /\ disk.gens[p.gen] = p.body
        /\ files[p.gen] = p.body

(* generations/<n>.tar.gz keeps the bytes of every generation the state    *)
(* file records (architecture.md); otherwise no host can be served it.     *)
FilesMatchRecords == \A n \in 1..Len(disk.gens) : files[n] = disk.gens[n]
==============================================================================
