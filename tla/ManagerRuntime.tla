--------------------------- MODULE ManagerRuntime ---------------------------
(***************************************************************************)
(* A manager process from start to exit: the owner of its lock, listener,  *)
(* policy-feed receiver and tasks (manager/runtimeowner/owner.go), the     *)
(* boot sequence of serveWithOptions, the requests it admits with the      *)
(* operations they run (OperationStore), and the enrolment of the host in  *)
(* an organization's feed, whose files outlive the process.                *)
(*                                                                         *)
(* Several processes are started over one state directory, with or without *)
(* a feed of their own, and each may be killed at any step.  One operation *)
(* store stands for that of the process which holds the state lock: a      *)
(* manager uses its store only while it holds the lock (OwnedUntilReleased)*)
(***************************************************************************)
EXTENDS OperationStore

CONSTANTS Processes,   \* manager processes started over a behaviour
          Requests,    \* connections on which clients send requests
          None         \* no process

ASSUME NoneIsNone == None \notin Processes

VARIABLES pc,          \* process -> where serveWithOptions or Close is
          flag,        \* process -> its -policy-feed: none, staged or other
          policy,      \* process -> organizationPolicy is published
          configured,  \* process -> feedConfigured
          receiver,    \* process -> the receiver its owner has: none, open, closed
          bound,       \* process -> its owner was given the listener
          tasks,       \* process -> background tasks: FeedTask or an operation
          lock,        \* the process that holds the state lock
          socket,      \* the process that bound the socket file, if it is there
          files,       \* what of the feed enrolment is on disk
          req,         \* request -> [proc, kind, step, op]
          governed     \* history: some manager published the feed's policy

processVars == <<pc, flag, policy, configured, receiver, bound, tasks>>
feedVars == <<policy, configured, receiver>>
dirVars == <<lock, socket, files, governed>>
managerVars == <<vars, processVars, dirVars, req>>

FeedTask == 0           \* the background task that runs receiver.Run

Free == [proc |-> None, kind |-> "none", step |-> "free", op |-> 0]
StoreKinds == {"call", "pull", "events", "session"}
FeedKinds == {"prepare", "install", "activate"}
Request == [proc : Processes \cup {None}, kind : StoreKinds \cup FeedKinds \cup {"none"},
            step : {"free", "admitted", "begun", "running", "streaming", "tunnel",
                    "syncing", "marking", "attaching", "starting"},
            op : Nat]

(* Where a process may be for an admission to succeed: requests.Acquire,   *)
(* background.Acquire, a live manager context, and a bound listener.       *)
Admitting == {"serving", "stopping"}
Starting == {"locked", "chosen", "listening", "ready", "refusing"} \cup Admitting
Uncancelled == Starting \cup {"draining"}
Bound == {"listening", "ready", "serving", "stopping", "refusing", "draining", "cancelled"}
Listening == {"listening", "ready", "serving"}
Exited == {"unborn", "stopped", "gone"}

(* The state directory is new, or an earlier manager left an enrolment in  *)
(* it that awaits its activation.                                          *)
ManagerInit ==
    /\ New
    /\ pc = [p \in Processes |-> "unborn"]
    /\ flag = [p \in Processes |-> "none"]
    /\ policy = [p \in Processes |-> FALSE]
    /\ configured = [p \in Processes |-> FALSE]
    /\ receiver = [p \in Processes |-> "none"]
    /\ bound = [p \in Processes |-> FALSE]
    /\ tasks = [p \in Processes |-> {}]
    /\ lock = None /\ socket = None /\ governed = FALSE
    /\ files \in {{}, {"dir", "request", "public", "feeds", "installed"}}
    /\ req = [r \in Requests |-> Free]

Goto(p, to) == pc' = [pc EXCEPT ![p] = to]

(* The store of a process that starts is new, and that of one that died is *)
(* gone.                                                                   *)
StoreLost ==
    /\ records' = <<>> /\ order' = <<>> /\ idempotency' = <<>> /\ nextGeneration' = 0
    /\ subscribers' = {} /\ channel' = <<>> /\ received' = <<>> /\ nextEvent' = 0

-----------------------------------------------------------------------------
(* Boot: serveWithOptions up to StartServers.  Every step may fail, and a  *)
(* failure runs the deferred Close of the owner; no server runs yet, so    *)
(* there is nobody whom its first step would refuse.                       *)

(* gantry serve, with the feed configuration that Cmd loads beforehand.    *)
Launch(p, f) ==
    /\ pc[p] = "unborn"
    /\ f = "staged" => "public" \in files
    /\ Goto(p, "new")
    /\ flag' = [flag EXCEPT ![p] = f]
    /\ UNCHANGED <<vars, feedVars, bound, tasks, dirVars, req>>

BootFails(p) ==
    /\ pc[p] \in {"new", "locked", "chosen", "listening", "ready"}
    /\ Goto(p, "refusing")
    /\ UNCHANGED <<vars, flag, feedVars, bound, tasks, dirVars, req>>

(* prepareManagerState and SetLock.                                        *)
HoldLock(p) ==
    /\ pc[p] = "new" /\ lock = None
    /\ lock' = p
    /\ Goto(p, "locked")
    /\ StoreLost
    /\ UNCHANGED <<flag, feedVars, bound, tasks, socket, files, governed, req>>

(* installedEnrollmentConfig finds every file of a complete enrolment.     *)
Installed == {"request", "public", "installed"} \subseteq files

(* Mutant: a restart without options does not look for a feed's state.     *)
FeedChoicesUnguarded(f) ==
    IF f # "none" THEN IF "installed" \in files THEN {"staged"} \cap {f} ELSE {f}
    ELSE IF "activated" \in files THEN {x \in {"staged"} : Installed} ELSE {"none"}

(* The feed a process started with option f is configured with, if it may  *)
(* go on: an activated enrolment is restored, a staged one pins the feed,  *)
(* and the state of a feed refuses a start without one.                    *)
FeedChoices(f) ==
    IF f # "none" THEN IF "installed" \in files THEN {x \in {"staged"} : x = f /\ Installed} ELSE {f}
    ELSE IF "activated" \in files THEN {x \in {"staged"} : Installed}
    ELSE {x \in {"none"} : "feeds" \notin files}

ChooseFeed(p) ==
    /\ pc[p] = "locked"
    /\ \E f \in FeedChoices(flag[p]) :
         configured' = [configured EXCEPT ![p] = f # "none"]
    /\ Goto(p, "chosen")
    /\ UNCHANGED <<vars, flag, policy, receiver, bound, tasks, dirVars, req>>

(* openManagerUnixListener and AddServer: a live endpoint is left alone, a *)
(* stale file is replaced.                                                 *)
AddListener(p) ==
    /\ pc[p] = "chosen"
    /\ \A q \in Processes : socket = q => pc[q] \notin Bound
    /\ socket' = p
    /\ bound' = [bound EXCEPT ![p] = TRUE]
    /\ Goto(p, "listening")
    /\ UNCHANGED <<vars, flag, feedVars, tasks, lock, files, governed, req>>

(* startManagerPolicyFeeds: NewReceiver makes the directory of the feed's  *)
(* state, Restore publishes the acknowledged policy if there is one, and   *)
(* the receiver goes to the owner before its loop is started.              *)
OpenFeeds(p) ==
    /\ pc[p] = "listening"
    /\ Goto(p, "ready")
    /\ IF configured[p]
       THEN /\ files' = files \cup {"feeds"}
            /\ receiver' = [receiver EXCEPT ![p] = "open"]
            /\ tasks' = [tasks EXCEPT ![p] = {FeedTask}]
            /\ \E restored \in BOOLEAN :
                 /\ policy' = [policy EXCEPT ![p] = restored]
                 /\ governed' = (governed \/ restored)
       ELSE UNCHANGED <<files, policy, governed, receiver, tasks>>
    /\ UNCHANGED <<vars, flag, configured, bound, lock, socket, req>>

(* NewReceiver refuses what it finds, with the directory made.             *)
FeedRefused(p) ==
    /\ pc[p] = "listening" /\ configured[p]
    /\ files' = files \cup {"feeds"}
    /\ Goto(p, "refusing")
    /\ UNCHANGED <<vars, flag, feedVars, bound, tasks, lock, socket, governed, req>>

StartServers(p) ==
    /\ pc[p] = "ready"
    /\ Goto(p, "serving")
    /\ UNCHANGED <<vars, flag, feedVars, bound, tasks, dirVars, req>>

(* A signal, or a listener that fails, ends the wait in serveWithOptions.  *)
ServeEnds(p) ==
    /\ pc[p] = "serving"
    /\ Goto(p, "stopping")
    /\ UNCHANGED <<vars, flag, feedVars, bound, tasks, dirVars, req>>

-----------------------------------------------------------------------------
(* Owner.Close, one step per call it makes.                                *)

CloseStep(p, from, to) ==
    /\ pc[p] = from
    /\ Goto(p, to)
    /\ UNCHANGED <<vars, flag, policy, configured, bound, req>>

(* StopAdmission refuses requests, then tasks, then cancels the context.   *)
StopAdmission(p) ==
    /\ \/ CloseStep(p, "stopping", "refusing")
       \/ CloseStep(p, "refusing", "draining")
       \/ CloseStep(p, "draining", "cancelled")
    /\ UNCHANGED <<receiver, tasks, dirVars>>

(* Shutdown closes the listener, which removes the socket file, and waits  *)
(* for the requests; after the grace period it gives up on them, so that   *)
(* only JoinRequests is sure to wait for all.                              *)
Shutdown(p) ==
    /\ CloseStep(p, "cancelled", "shut")
    /\ socket' = IF socket = p THEN None ELSE socket
    /\ UNCHANGED <<receiver, tasks, lock, files, governed>>

JoinRequests(p) ==
    /\ CloseStep(p, "shut", "joined")
    /\ \A r \in Requests : req[r].proc # p
    /\ UNCHANGED <<receiver, tasks, dirVars>>

(* Mutant: the background tasks are not waited for.                        *)
JoinNothing(p) ==
    /\ CloseStep(p, "joined", "idle")
    /\ UNCHANGED <<receiver, tasks, dirVars>>

JoinBackground(p) ==
    /\ CloseStep(p, "joined", "idle")
    /\ tasks[p] = {}
    /\ UNCHANGED <<receiver, tasks, dirVars>>

CloseReceivers(p) ==
    /\ CloseStep(p, "idle", "closed")
    /\ receiver' = [receiver EXCEPT ![p] = IF @ = "open" THEN "closed" ELSE @]
    /\ UNCHANGED <<tasks, dirVars>>

(* The endpoint's path is removed again, whoever bound it; the owner has   *)
(* one only when it came to listen.                                        *)
RemoveEndpoints(p) ==
    /\ CloseStep(p, "closed", "unlinked")
    /\ socket' = IF bound[p] THEN None ELSE socket
    /\ UNCHANGED <<receiver, tasks, lock, files, governed>>

Unlock(p) ==
    /\ CloseStep(p, "unlinked", "stopped")
    /\ lock' = IF lock = p THEN None ELSE lock
    /\ UNCHANGED <<receiver, tasks, socket, files, governed>>

(* The process is killed: the kernel frees the lock, the socket file and   *)
(* the enrolment stay.                                                     *)
Crash(p) ==
    /\ pc[p] \notin Exited
    /\ Goto(p, "gone")
    /\ lock' = IF lock = p THEN None ELSE lock
    /\ receiver' = [receiver EXCEPT ![p] = "none"]
    /\ tasks' = [tasks EXCEPT ![p] = {}]
    /\ req' = [r \in Requests |-> IF req[r].proc = p THEN Free ELSE req[r]]
    /\ IF lock = p THEN StoreLost ELSE UNCHANGED vars
    /\ UNCHANGED <<flag, policy, configured, bound, socket, files, governed>>

-----------------------------------------------------------------------------
(* Requests.  Any handler may also give up early, when its client goes     *)
(* away or the server closes its connection.                               *)

To(r, step) == req' = [req EXCEPT ![r].step = step]
End(r) == req' = [req EXCEPT ![r] = Free]
At(r, kind, step) == req[r].kind = kind /\ req[r].step = step
Live(r) == pc[req[r].proc] \in Uncancelled

(* OwnedHandler: the request is admitted to the group that Close joins.    *)
Accept(r, p, kind) ==
    /\ req[r] = Free
    /\ pc[p] \in Admitting
    /\ req' = [req EXCEPT ![r] = [proc |-> p, kind |-> kind, step |-> "admitted", op |-> 0]]
    /\ UNCHANGED <<vars, processVars, dirVars>>

(* beginOperation: refused once the manager's context is cancelled; a      *)
(* replay or a full store is answered at once.                             *)
BeginOperation(r, k, f) ==
    /\ req[r].kind \in {"call", "pull"} /\ req[r].step = "admitted"
    /\ Live(r)
    /\ Begin(k, f)
    /\ req' = [req EXCEPT ![r].step = "begun", ![r].op = nextGeneration']
    /\ UNCHANGED <<processVars, dirVars>>

Answered(r) ==
    /\ req[r].step = "admitted"
    /\ End(r)
    /\ UNCHANGED <<vars, processVars, dirVars>>

FinishOperation(r, phase) ==
    /\ Finish(req[r].op, phase)
    /\ End(r)
    /\ UNCHANGED <<processVars, dirVars>>

(* executeLifecycle: without its locks, or after either context ended, the *)
(* operation fails; otherwise it runs and its outcome is recorded.         *)
AdmitCall(r) ==
    /\ At(r, "call", "begun") /\ Live(r)
    /\ To(r, "running")
    /\ UNCHANGED <<vars, processVars, dirVars>>

CallFails(r) == At(r, "call", "begun") /\ FinishOperation(r, "failed")

CompleteCall(r) ==
    /\ At(r, "call", "running")
    /\ \E phase \in Terminal : FinishOperation(r, phase)

(* handlePullImage: the work goes on in the background, unless there is no *)
(* slot or the manager has stopped taking tasks.                           *)
StartPull(r) ==
    /\ At(r, "pull", "begun")
    /\ pc[req[r].proc] \in Starting
    /\ tasks' = [tasks EXCEPT ![req[r].proc] = @ \cup {req[r].op}]
    /\ End(r)
    /\ UNCHANGED <<vars, pc, flag, feedVars, bound, dirVars>>

(* Mutant: a pull that was refused leaves its operation running.           *)
PullForgotten(r) ==
    /\ At(r, "pull", "begun")
    /\ End(r)
    /\ UNCHANGED <<vars, processVars, dirVars>>

PullRefused(r) == At(r, "pull", "begun") /\ FinishOperation(r, "failed")

PullEnds(p, id) ==
    /\ id \in tasks[p] \ {FeedTask}
    /\ \E phase \in Terminal : Finish(id, phase)
    /\ tasks' = [tasks EXCEPT ![p] = @ \ {id}]
    /\ UNCHANGED <<pc, flag, feedVars, bound, dirVars, req>>

(* handleEvents.                                                           *)
OpenStream(r) ==
    /\ At(r, "events", "admitted")
    /\ Subscribe
    /\ req' = [req EXCEPT ![r].step = "streaming", ![r].op = Len(channel')]
    /\ UNCHANGED <<processVars, dirVars>>

StreamEvent(r) ==
    /\ At(r, "events", "streaming") /\ req[r].op \in DOMAIN channel
    /\ Receive(req[r].op)
    /\ UNCHANGED <<processVars, dirVars, req>>

EndStream(r) ==
    /\ At(r, "events", "streaming")
    /\ IF req[r].op \in subscribers THEN Unsubscribe(req[r].op) ELSE UNCHANGED vars
    /\ End(r)
    /\ UNCHANGED <<processVars, dirVars>>

(* Mutant: the handler does not look at the manager's context.             *)
StreamDeaf(r) ==
    /\ At(r, "events", "streaming")
    /\ req[r].op \notin subscribers /\ channel[req[r].op] = <<>>
    /\ EndStream(r)

(* The stream ends by itself once it was closed for being slow or the      *)
(* manager stops; a client may also leave it.                              *)
StreamOver(r) ==
    /\ At(r, "events", "streaming")
    /\ \/ ~ Live(r)
       \/ req[r].op \notin subscribers /\ channel[req[r].op] = <<>>
    /\ EndStream(r)

(* handleSSH: the tunnel lasts until an end of it, or the manager, closes. *)
OpenSession(r) ==
    /\ At(r, "session", "admitted")
    /\ To(r, "tunnel")
    /\ UNCHANGED <<vars, processVars, dirVars>>

EndSession(r) ==
    /\ At(r, "session", "tunnel")
    /\ End(r)
    /\ UNCHANGED <<vars, processVars, dirVars>>

SessionOver(r) == At(r, "session", "tunnel") /\ ~ Live(r) /\ EndSession(r)

-----------------------------------------------------------------------------
(* Enrolment, under feedMu.  A handler's durable writes are one step that  *)
(* ends after any of them: a failed write is answered, a kill is Crash.    *)

ActivateSteps == {"syncing", "marking", "attaching", "starting"}
FeedMuFree(p) == \A r \in Requests : req[r].proc = p => req[r].step \notin ActivateSteps

Enter(r, kind) == At(r, kind, "admitted") /\ FeedMuFree(req[r].proc)

(* handlePrepareFeedEnrollment: the directory is made once; one without a  *)
(* request in it is never used again.                                      *)
PrepareEnrollment(r) ==
    /\ Enter(r, "prepare")
    /\ ~ configured[req[r].proc] /\ "dir" \notin files
    /\ \E written \in {{"dir"}, {"dir", "request"}} : files' = files \cup written
    /\ End(r)
    /\ UNCHANGED <<vars, processVars, lock, socket, governed>>

(* What an installation can have written when it ends, in this order.      *)
InstallWrites == {{"public"}, {"public", "feeds"}, {"public", "feeds", "installed"}}

(* handleInstallFeedEnrollment: the verified files, the directory of the   *)
(* feed's state, and last the marker.                                      *)
InstallEnrollment(r) ==
    /\ Enter(r, "install")
    /\ "request" \in files
    /\ \E written \in InstallWrites : files' = files \cup written
    /\ End(r)
    /\ UNCHANGED <<vars, processVars, lock, socket, governed>>

(* handleActivateFeedEnrollment: a receiver of its own asks the service    *)
(* and applies what it is given to every sandbox.                          *)
BeginActivate(r) ==
    /\ Enter(r, "activate")
    /\ ~ configured[req[r].proc] /\ Installed
    /\ To(r, "syncing")
    /\ UNCHANGED <<vars, processVars, dirVars>>

(* Sync publishes a policy or not; without any the enrolment stays staged. *)
SyncActivate(r) ==
    /\ At(r, "activate", "syncing")
    /\ \E published \in BOOLEAN :
         LET p == req[r].proc
         IN  /\ policy' = [policy EXCEPT ![p] = @ \/ published]
             /\ governed' = (governed \/ published)
             /\ IF policy'[p] THEN To(r, "marking") ELSE End(r)
    /\ UNCHANGED <<vars, pc, flag, configured, receiver, bound, tasks, lock, socket, files>>

(* The marker is saved, or not, or saved with an error that is reported.   *)
MarkActivated(r) ==
    /\ At(r, "activate", "marking")
    /\ \/ files' = files \cup {"activated"} /\ To(r, "attaching")
       \/ files' \in {files, files \cup {"activated"}} /\ End(r)
    /\ UNCHANGED <<vars, processVars, lock, socket, governed>>

(* AttachReceiver: only a serving owner takes it, else the handler closes. *)
AttachReceiver(r) ==
    /\ At(r, "activate", "attaching")
    /\ IF pc[req[r].proc] = "serving"
       THEN receiver' = [receiver EXCEPT ![req[r].proc] = "open"] /\ To(r, "starting")
       ELSE End(r) /\ UNCHANGED receiver
    /\ UNCHANGED <<vars, pc, flag, policy, configured, bound, tasks, dirVars>>

(* The receiver's loop is started; a manager that stops meanwhile keeps    *)
(* the receiver and closes it with its others.                             *)
StartReceiver(r) ==
    /\ At(r, "activate", "starting")
    /\ LET p == req[r].proc
       IN  IF pc[p] \in Starting
           THEN /\ tasks' = [tasks EXCEPT ![p] = @ \cup {FeedTask}]
                /\ configured' = [configured EXCEPT ![p] = TRUE]
           ELSE UNCHANGED <<tasks, configured>>
    /\ End(r)
    /\ UNCHANGED <<vars, pc, flag, policy, receiver, bound, dirVars>>

(* receiver.Run: a generation is applied; the loop ends with the context.  *)
FeedApplies(p) ==
    /\ FeedTask \in tasks[p] /\ pc[p] \in Uncancelled
    /\ policy' = [policy EXCEPT ![p] = TRUE]
    /\ governed' = TRUE
    /\ UNCHANGED <<vars, pc, flag, configured, receiver, bound, tasks, lock, socket, files, req>>

FeedEnds(p) ==
    /\ FeedTask \in tasks[p] /\ pc[p] \notin Uncancelled
    /\ tasks' = [tasks EXCEPT ![p] = @ \ {FeedTask}]
    /\ UNCHANGED <<vars, pc, flag, feedVars, bound, dirVars, req>>

-----------------------------------------------------------------------------

MainStep(p) ==
    \/ BootFails(p) \/ HoldLock(p) \/ ChooseFeed(p) \/ AddListener(p)
    \/ OpenFeeds(p) \/ FeedRefused(p) \/ StartServers(p)
    \/ StopAdmission(p) \/ Shutdown(p) \/ JoinRequests(p) \/ JoinBackground(p)
    \/ CloseReceivers(p) \/ RemoveEndpoints(p) \/ Unlock(p)

(* What a handler does by itself, and what its client may do to it.        *)
HandlerStep(r) ==
    \/ \E k \in Keys \cup {NoKey}, f \in Fingerprints : BeginOperation(r, k, f)
    \/ Answered(r) \/ AdmitCall(r) \/ CallFails(r) \/ CompleteCall(r)
    \/ StartPull(r) \/ PullRefused(r)
    \/ OpenStream(r) \/ StreamEvent(r) \/ StreamOver(r)
    \/ OpenSession(r) \/ SessionOver(r)
    \/ PrepareEnrollment(r) \/ InstallEnrollment(r) \/ BeginActivate(r)
    \/ SyncActivate(r) \/ MarkActivated(r) \/ AttachReceiver(r) \/ StartReceiver(r)

ClientStep(r) ==
    \/ \E p \in Processes, kind \in StoreKinds \cup FeedKinds : Accept(r, p, kind)
    \/ EndStream(r) \/ EndSession(r)

TaskStep(p) == FeedEnds(p) \/ \E id \in tasks[p] : PullEnds(p, id)

ManagerNext ==
    \/ \E p \in Processes :
         \/ MainStep(p) \/ TaskStep(p) \/ FeedApplies(p) \/ ServeEnds(p) \/ Crash(p)
         \/ \E f \in {"none", "staged", "other"} : Launch(p, f)
    \/ \E r \in Requests : HandlerStep(r) \/ ClientStep(r)

ManagerSpec == ManagerInit /\ [][ManagerNext]_managerVars

(* The process runs on, handlers return and tasks end: a lifecycle call, a *)
(* pull and a synchronisation are bounded by their own timeouts.           *)
Fairness ==
    /\ \A p \in Processes : WF_managerVars(MainStep(p)) /\ WF_managerVars(TaskStep(p))
    /\ \A r \in Requests : WF_managerVars(HandlerStep(r))

-----------------------------------------------------------------------------

(* The types of the fields.                                                *)
ManagerTypeOK ==
    /\ pc \in [Processes -> {"unborn", "new", "locked", "chosen", "listening", "ready",
                             "serving", "stopping", "refusing", "draining", "cancelled",
                             "shut", "joined", "idle", "closed", "unlinked", "stopped", "gone"}]
    /\ flag \in [Processes -> {"none", "staged", "other"}]
    /\ policy \in [Processes -> BOOLEAN] /\ configured \in [Processes -> BOOLEAN]
    /\ receiver \in [Processes -> {"none", "open", "closed"}]
    /\ bound \in [Processes -> BOOLEAN]
    /\ tasks \in [Processes -> SUBSET Nat]
    /\ lock \in Processes \cup {None} /\ socket \in Processes \cup {None}
    /\ files \subseteq {"dir", "request", "public", "feeds", "installed", "activated"}
    /\ governed \in BOOLEAN
    /\ req \in [Requests -> Request]

(* A manager acts on the state directory only while it holds the lock:     *)
(* without it no request, task, receiver or listener of the process is     *)
(* left, and while it takes connections the socket file is its own.        *)
OwnedUntilReleased ==
    \A p \in Processes :
        /\ lock # p =>
              /\ \A r \in Requests : req[r].proc # p
              /\ tasks[p] = {} /\ receiver[p] # "open"
              /\ pc[p] \notin Listening
        /\ pc[p] \in Listening => socket = p

(* A running operation is in the hands of the request or the background    *)
(* task that will finish it, so that none is left running when the manager *)
(* has stopped and no client polls one for ever.                           *)
NoOrphans ==
    \A id \in DOMAIN records :
        records[id].phase = "running" =>
            \/ \E r \in Requests : req[r].kind \in {"call", "pull"} /\ req[r].op = id
            \/ \E p \in Processes : id \in tasks[p]

(* The operations a manager answers for: none is left behind, a key finds  *)
(* its first attempt and a stream has no gap, whichever manager serves.    *)
OperationsSound == NoOrphans /\ StoreConsistent

(* Once a manager has put the organization's policy in force, every one    *)
(* that serves on this state directory is governed, whatever was written   *)
(* when it died and with whatever options it was started; an enrolment     *)
(* that was activated can be restored.                                     *)
StaysGoverned ==
    /\ governed => \A p \in Processes : pc[p] = "serving" => policy[p] \/ configured[p]
    /\ "activated" \in files => Installed /\ "feeds" \in files

(* While its process lives no operation is lost or changes its outcome.    *)
OutcomesKept == [][nextGeneration' # 0 => Stable]_managerVars

(* Close returns: every request and task it waits for notices the end.     *)
ShutdownEnds ==
    \A p \in Processes : pc[p] \in {"stopping", "refusing"} ~> pc[p] \in Exited
=============================================================================
