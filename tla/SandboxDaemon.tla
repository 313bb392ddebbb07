----------------------------- MODULE SandboxDaemon -----------------------------
(***************************************************************************)
(* One sandbox daemon process (sandbox/daemon.go): the boot stages, the    *)
(* supervision loop, the handlers of control connections, the delivery of  *)
(* guest tools, the SSH gateway, and the teardown that every exit crosses. *)
(* The settings live in ConfigStore, whose actions the handlers take.      *)
(*                                                                         *)
(* Four kinds of goroutine interleave: the main one (main), one handler    *)
(* per control connection (at), the borrowers of the background group, and *)
(* the OAuth listener watcher.  A section under a mutex is one step.  The  *)
(* process can be killed at any step and started again.                    *)
(*                                                                         *)
(* Left out: MCP and credential servers (joined with the same group), the  *)
(* attached terminals' streams, and what an organisation policy changes in *)
(* networks and shares (LivePolicy); of the policy only its deadline is    *)
(* here.                                                                   *)
(***************************************************************************)
EXTENDS ConfigStore, FiniteSets

CONSTANTS Handlers,         \* control connections served at a time
          ResourceUpdates,  \* the updates resources.set can make
          ToolsRequired,    \* values of Others with MCP, bound secrets or OAuth
          MaxTime,          \* bound: the latest deadline
          Loads             \* bound: how many events of each kind come from outside

Events == {"configure", "mutation", "session", "policy", "stop", "death", "launch", "time"}

ASSUME DaemonShape ==
    /\ \A s \in Settings : s.ssh \in BOOLEAN
    /\ ResourceUpdates \subseteq Updates
    /\ \A update \in ResourceUpdates, s \in Settings : update[s].ssh = s.ssh
    /\ ToolsRequired \subseteq Others
    /\ MaxTime \in Nat
    /\ Loads \subseteq [Events -> Nat]

VARIABLES life,         \* supervisor.Lifecycle
          main,         \* where the main goroutine is
          failed,       \* its exit code is not 0
          at,           \* where each handler is
          job,          \* the reconciliation of the transaction's holder
          diverged,     \* the last reconciliation was answered with an error
          ssh,          \* sshgw.Owner
          background,   \* the background group: phase and borrowers
          tools,        \* guest tools: delivered, and who holds guestToolsMu
          watcher,      \* the OAuth listener watcher runs
          control,      \* the control listener and the group of its handlers
          vm,           \* the guest and its devices
          network,      \* the network worker lives
          lock,         \* the sandbox directory's lifetime lock is held
          now,          \* the clock
          deadline,     \* ExpiresAt of the policy in force, 0 for none
          timer,        \* the deadline supervise last read
          changed,      \* policyChanged, a channel of one
          shutdown,     \* the shutdown channel, of one
          events        \* how many more of each come

mainVars    == <<life, main, failed>>
handlerVars == <<at, job, diverged>>
serviceVars == <<ssh, background, tools, watcher>>
planeVars   == <<control, vm, network, lock>>
policyVars  == <<now, deadline, timer, changed>>
daemonVars  == <<mainVars, handlerVars, serviceVars, planeVars, policyVars, shutdown>>
vars        == <<storeVars, daemonVars, events>>

Terminal == {"Stopped", "Failed"}
Idle == [h \in Handlers |-> "idle"]
NoJob == [want |-> FALSE, restoring |-> FALSE]
NewGroup == [phase |-> "open", borrowers |-> {}]
NoTools == [ready |-> FALSE, mu |-> "free"]

Init ==
    /\ Fresh
    /\ life = "New" /\ main = "load" /\ failed = FALSE
    /\ at = Idle /\ job = NoJob /\ diverged = FALSE
    /\ ssh = "idle" /\ background = NewGroup /\ tools = NoTools /\ watcher = FALSE
    /\ control = "none" /\ vm = "none" /\ network = FALSE /\ lock = FALSE
    /\ timer = 0 /\ changed = FALSE /\ shutdown = FALSE
    /\ events \in Loads
    /\ now = 0 /\ deadline \in IF events["time"] > 0 THEN {0, MaxTime} ELSE {0}

Expired == deadline # 0 /\ deadline <= now

(* BackgroundGroup.Acquire.                                                *)
Acquire(b) ==
    /\ background.phase = "open"
    /\ background' = [background EXCEPT !.borrowers = @ \cup {b}]

--------------------------------------------------------------------------------
(* The boot stages.                                                        *)

(* Any stage may fail; what it acquired is left to the teardown.           *)
BootFails ==
    /\ main \in {"load", "host", "guest", "connect", "control", "watch", "publish"}
    /\ main' = "close" /\ failed' = TRUE
    /\ lock' \in IF main = "load" THEN BOOLEAN ELSE {lock}
    /\ UNCHANGED <<life, storeVars, handlerVars, serviceVars, control, vm, network, policyVars, shutdown>>

(* load: the saved policy must not have expired.                           *)
load ==
    /\ main = "load" /\ ~Expired
    /\ LoadConfigStore
    /\ lock' = TRUE
    /\ main' = "host" /\ life' = "Loaded"
    /\ UNCHANGED <<failed, handlerVars, serviceVars, control, vm, network, policyVars, shutdown>>

startHostServices ==
    /\ main = "host"
    /\ network' = TRUE
    /\ main' = "guest" /\ life' = "HostReady"
    /\ UNCHANGED <<failed, storeVars, handlerVars, serviceVars, control, vm, lock, policyVars, shutdown>>

prepareGuest ==
    /\ main = "guest"
    /\ vm' = "prepared"
    /\ main' = "connect" /\ life' = "GuestPrepared"
    /\ UNCHANGED <<failed, storeVars, handlerVars, serviceVars, control, network, lock, policyVars, shutdown>>

connectGuest ==
    /\ main = "connect"
    /\ vm' = "up"
    /\ main' = "control" /\ life' = "GuestConnected"
    /\ UNCHANGED <<failed, storeVars, handlerVars, serviceVars, control, network, lock, policyVars, shutdown>>

(* startControl, and the start of the helper's delivery that run orders    *)
(* right after it: awaited when a feature needs it, else for SSH alone.    *)
startControl ==
    LET required == mem.other \in ToolsRequired
    IN  /\ main = "control"
        /\ control' = "open"
        /\ ssh' = IF mem.settings.ssh THEN "running" ELSE "idle"
        /\ IF required \/ mem.settings.ssh THEN Acquire("boot") ELSE UNCHANGED background
        /\ main' = IF required THEN "awaitTools" ELSE "publish"
        /\ life' = "ControlReady"
        /\ UNCHANGED <<failed, storeVars, handlerVars, tools, watcher, vm, network, lock, policyVars, shutdown>>

startOAuthListenerWatch ==
    /\ main = "watch"
    /\ watcher' = TRUE
    /\ main' = "publish"
    /\ UNCHANGED <<life, failed, storeVars, handlerVars, ssh, background, tools, planeVars, policyVars, shutdown>>

(* publishReady, and the memory request it leaves in the background.       *)
publishReady ==
    /\ main = "publish"
    /\ Acquire("memory")
    /\ main' = "arm" /\ life' = "Ready"
    /\ UNCHANGED <<failed, storeVars, handlerVars, ssh, tools, watcher, planeVars, policyVars, shutdown>>

Boot ==
    \/ load \/ startHostServices \/ prepareGuest \/ connectGuest \/ startControl
    \/ startOAuthListenerWatch \/ publishReady \/ BootFails

--------------------------------------------------------------------------------
(* supervise.                                                              *)

(* The head of the loop: read the deadline and arm the timer.              *)
ArmTimer ==
    /\ main = "arm"
    /\ timer' = deadline
    /\ main' = IF Expired THEN "recheck" ELSE "select"
    /\ UNCHANGED <<life, failed, storeVars, handlerVars, serviceVars, planeVars, now, deadline, changed, shutdown>>

(* The deadline has passed: look again, a replacement may be in force.     *)
Recheck ==
    /\ main = "recheck"
    /\ main' = IF deadline = 0 \/ deadline > timer THEN "arm" ELSE "expired"
    /\ UNCHANGED <<life, failed, storeVars, handlerVars, serviceVars, planeVars, policyVars, shutdown>>

TimerFires ==
    /\ main = "select" /\ timer # 0 /\ timer <= now
    /\ main' = IF Expired THEN "expired" ELSE "arm"
    /\ UNCHANGED <<life, failed, storeVars, handlerVars, serviceVars, planeVars, policyVars, shutdown>>

PolicyChanged ==
    /\ main = "select" /\ changed
    /\ changed' = FALSE
    /\ main' = "arm"
    /\ UNCHANGED <<life, failed, storeVars, handlerVars, serviceVars, planeVars, now, deadline, timer, shutdown>>

ShutdownReceived ==
    /\ main = "select" /\ shutdown
    /\ shutdown' = FALSE
    /\ main' = "asked"
    /\ UNCHANGED <<life, failed, storeVars, handlerVars, serviceVars, planeVars, policyVars>>

(* The guest or a worker died: the loop returns without the graceful path. *)
DeathSeen ==
    /\ main = "select" /\ (vm = "exited" \/ ~network)
    /\ main' = "close" /\ failed' = TRUE
    /\ UNCHANGED <<life, storeVars, handlerVars, serviceVars, planeVars, policyVars, shutdown>>

supervise == ArmTimer \/ Recheck \/ TimerFires \/ PolicyChanged \/ ShutdownReceived \/ DeathSeen

--------------------------------------------------------------------------------
(* gracefulStop, then close, which every exit crosses.                     *)

BeginGraceful ==
    /\ main \in {"expired", "asked"}
    /\ life' = "Stopping"
    /\ control' = "refusing"
    /\ watcher' = FALSE
    /\ background' = [background EXCEPT !.phase = "closing"]
    /\ main' = "drain"
    /\ UNCHANGED <<failed, storeVars, handlerVars, ssh, tools, vm, network, lock, policyVars, shutdown>>

(* Mutated: the devices go while deliveries still borrow the guest.        *)
CloseUndrained ==
    /\ main = "drain"
    /\ vm' = "closed" /\ network' = FALSE
    /\ main' = "close"
    /\ UNCHANGED <<life, failed, storeVars, handlerVars, serviceVars, control, lock, policyVars, shutdown>>

(* The borrowers are joined, the guest is flushed, the devices are closed. *)
closeShutdownDevices ==
    /\ main = "drain" /\ background.borrowers = {}
    /\ background' = [background EXCEPT !.phase = "closed"]
    /\ vm' = "closed" /\ network' = FALSE
    /\ main' = "close"
    /\ UNCHANGED <<life, failed, storeVars, handlerVars, ssh, tools, watcher, control, lock, policyVars, shutdown>>

BeginClose ==
    /\ main = "close"
    /\ life' = "Stopping"
    /\ background' = [background EXCEPT !.phase = IF @ = "open" THEN "closing" ELSE @]
    /\ main' = "drainAll"
    /\ UNCHANGED <<failed, storeVars, handlerVars, ssh, tools, watcher, planeVars, policyVars, shutdown>>

(* The control plane goes next: no admission, no watcher, no SSH gateway.  *)
CloseControl ==
    /\ main = "drainAll" /\ background.borrowers = {}
    /\ background' = [background EXCEPT !.phase = "closed"]
    /\ control' = IF control = "open" THEN "refusing" ELSE control
    /\ watcher' = FALSE
    /\ ssh' = IF ssh = "running" THEN "stopping" ELSE ssh
    /\ main' = IF ssh = "running" THEN "joinSSH" ELSE "join"
    /\ UNCHANGED <<life, failed, storeVars, handlerVars, tools, vm, network, lock, policyVars, shutdown>>

JoinGateway ==
    /\ main = "joinSSH"
    /\ ssh' = "idle"
    /\ main' = "join"
    /\ UNCHANGED <<life, failed, storeVars, handlerVars, background, tools, watcher, planeVars, policyVars, shutdown>>

(* servers.Close joins every handler; then the guest plane.                *)
CloseGuest ==
    /\ main = "join" /\ at = Idle
    /\ control' = "closed"
    /\ vm' = "closed"
    /\ main' = "closeHost"
    /\ UNCHANGED <<life, failed, storeVars, handlerVars, serviceVars, network, lock, policyVars, shutdown>>

(* The host plane last, the lock the last of it; then Finish.              *)
CloseHost ==
    /\ main = "closeHost"
    /\ network' = FALSE /\ lock' = FALSE
    /\ life' = IF failed THEN "Failed" ELSE "Stopped"
    /\ main' = "done"
    /\ UNCHANGED <<failed, storeVars, handlerVars, serviceVars, control, vm, policyVars, shutdown>>

Teardown ==
    \/ BeginGraceful \/ closeShutdownDevices \/ BeginClose \/ CloseControl
    \/ JoinGateway \/ CloseGuest \/ CloseHost

--------------------------------------------------------------------------------
(* Deliveries of guest tools, and the other borrowers.                     *)

(* configureSandbox after a reconciliation failed: a change is rolled      *)
(* back once, then the error is the answer.                                *)
AfterFailure == IF job.restoring \/ ~Changed THEN "close" ELSE "rollback"

BeginDelivery(b) ==
    /\ b \in background.borrowers /\ b # "memory"
    /\ background.phase = "open" /\ ~tools.ready /\ tools.mu = "free"
    /\ tools' = [tools EXCEPT !.mu = b]
    /\ UNCHANGED <<storeVars, mainVars, handlerVars, ssh, background, watcher, planeVars, policyVars, shutdown>>

(* ensureGuestToolsTargets returns: refused by the closed context, already *)
(* delivered, or delivered or failed now.                                  *)
DeliveryEnds(b, ok) ==
    /\ b \in background.borrowers /\ b # "memory"
    /\ \/ tools.mu = "free" /\ background.phase # "open" /\ ~ok
       \/ tools.mu = "free" /\ background.phase = "open" /\ tools.ready /\ ok
       \/ tools.mu = b /\ (ok => vm = "up")
    /\ tools' = [ready |-> tools.ready \/ (tools.mu = b /\ ok), mu |-> "free"]
    /\ background' = [background EXCEPT !.borrowers = @ \ {b}]
    /\ main' = CASE b = "boot" /\ main = "awaitTools" /\ ok -> "watch"
                 [] b = "boot" /\ main = "awaitTools" /\ ~ok -> "close"
                 [] OTHER -> main
    /\ failed' = (failed \/ main' = "close")
    /\ at' = IF b = "configure"
             THEN [h \in Handlers |-> CASE at[h] = "tools" /\ ok -> "startSSH"
                                        [] at[h] = "tools" /\ ~ok -> AfterFailure
                                        [] OTHER -> at[h]]
             ELSE at
    /\ diverged' = (diverged \/ (b = "configure" /\ ~ok /\ AfterFailure = "close"))
    /\ UNCHANGED <<life, storeVars, job, ssh, watcher, planeVars, policyVars, shutdown>>

RequestHotMemory ==
    /\ "memory" \in background.borrowers
    /\ background' = [background EXCEPT !.borrowers = @ \ {"memory"}]
    /\ UNCHANGED <<storeVars, mainVars, handlerVars, ssh, tools, watcher, planeVars, policyVars, shutdown>>

Borrowing ==
    \/ \E b \in {"boot", "configure"} : BeginDelivery(b) \/ \E ok \in BOOLEAN : DeliveryEnds(b, ok)
    \/ RequestHotMemory

--------------------------------------------------------------------------------
(* Control handlers.                                                       *)

Elsewhere == <<mainVars, serviceVars, planeVars, policyVars, shutdown>>

(* serveOwned admits a connection.                                         *)
Admitted(h) == control = "open" /\ at[h] = "idle"

Go(h, where) == at' = [at EXCEPT ![h] = where]

(* share, port, secret, MCP and policy requests that save: see LivePolicy  *)
(* for what else they do.                                                  *)
HandleMutation(h, other, outcome) ==
    /\ Admitted(h)
    /\ Mutate(other, outcome)
    /\ UNCHANGED daemonVars

HandleShutdown(h) ==
    /\ Admitted(h)
    /\ shutdown' = TRUE
    /\ UNCHANGED <<storeVars, mainVars, handlerVars, serviceVars, planeVars, policyVars>>

(* Mutated: the supervisor is not told.                                    *)
StoreQuietly(h, d) ==
    /\ Admitted(h)
    /\ d = 0 \/ d >= now
    /\ deadline' = d
    /\ UNCHANGED <<storeVars, mainVars, handlerVars, serviceVars, planeVars, now, timer, changed, shutdown>>

(* applyOrganizationPolicy publishes the engine, then tells the loop.      *)
StorePolicy(h, d) ==
    /\ Admitted(h)
    /\ d = 0 \/ d >= now
    /\ deadline' = d
    /\ Go(h, "notify")
    /\ UNCHANGED <<storeVars, mainVars, job, diverged, serviceVars, planeVars, now, timer, changed, shutdown>>

NotifyPolicy(h) ==
    /\ at[h] = "notify"
    /\ changed' = TRUE
    /\ Go(h, "idle")
    /\ UNCHANGED <<storeVars, mainVars, job, diverged, serviceVars, planeVars, now, deadline, timer, shutdown>>

HandleSession(h) ==
    /\ Admitted(h) /\ vm = "up"
    /\ Go(h, "session")
    /\ UNCHANGED <<storeVars, job, diverged, Elsewhere>>

(* The process ends, or its guest is gone: Wait has no other way out.      *)
SessionEnds(h) ==
    /\ at[h] = "session"
    /\ Go(h, "idle")
    /\ UNCHANGED <<storeVars, job, diverged, Elsewhere>>

HandleConfigure(h) ==
    /\ Admitted(h)
    /\ \E op \in {"configure", "resources"} : Go(h, op)
    /\ UNCHANGED <<storeVars, job, diverged, Elsewhere>>

(* configureMu, the snapshot and the first Amend.                          *)
Begin(h, update) ==
    /\ at[h] = "configure" \/ (at[h] = "resources" /\ update \in ResourceUpdates)
    /\ BeginConfiguration(update)
    /\ Go(h, CASE tx' = Closed -> "idle"
               [] tx' # Closed /\ at[h] = "resources" -> "commitResources"
               [] OTHER -> IF tx'.desired.dev /\ ~mem.settings.dev THEN "prepare" ELSE "commit")
    /\ UNCHANGED <<job, diverged, Elsewhere>>

(* prepareDevContainersProfile: minutes, and it may fail.                  *)
Prepare(h) ==
    /\ at[h] = "prepare"
    /\ \E where \in {"commit", "close"} : Go(h, where)
    /\ UNCHANGED <<storeVars, job, diverged, Elsewhere>>

CommitResources(h, outcome) ==
    /\ at[h] = "commitResources"
    /\ Commit(outcome)
    /\ Go(h, "close")
    /\ UNCHANGED <<job, diverged, Elsewhere>>

CommitSettings(h, outcome) ==
    /\ at[h] = "commit"
    /\ Commit(outcome)
    /\ job' = [want |-> mem'.settings.ssh, restoring |-> FALSE]
    /\ Go(h, IF tx'.phase = "refused" THEN "close" ELSE "reconcile")
    /\ UNCHANGED <<diverged, Elsewhere>>

(* Mutated: the services are left as the failed change left them.          *)
RollbackOnly(h, outcome) ==
    /\ at[h] = "rollback"
    /\ Rollback(outcome)
    /\ Go(h, "close")
    /\ UNCHANGED <<job, diverged, Elsewhere>>

(* The snapshot after the rollback, done or not, is what to reconcile to.  *)
RollbackSettings(h, outcome) ==
    /\ at[h] = "rollback"
    /\ Rollback(outcome)
    /\ job' = [want |-> mem'.settings.ssh, restoring |-> TRUE]
    /\ Go(h, "reconcile")
    /\ UNCHANGED <<diverged, Elsewhere>>

(* reconcileSandboxServices compares with the gateway, not with the past.  *)
Reconcile(h) ==
    LET running == ssh = "running"
        start == job.want /\ ~running
        stop == ~job.want /\ running
        refused == start /\ background.phase # "open"
    IN  /\ at[h] = "reconcile"
        /\ ssh' = IF stop THEN "stopping" ELSE ssh
        /\ IF start /\ ~refused THEN Acquire("configure") ELSE UNCHANGED background
        /\ Go(h, CASE stop -> "joinSSH"
                   [] refused -> AfterFailure
                   [] start /\ ~refused -> "tools"
                   [] OTHER -> "close")
        /\ diverged' = CASE refused -> diverged \/ AfterFailure = "close"
                         [] start /\ ~refused -> diverged
                         [] OTHER -> FALSE
        /\ UNCHANGED <<storeVars, mainVars, job, tools, watcher, planeVars, policyVars, shutdown>>

JoinSSH(h) ==
    /\ at[h] = "joinSSH"
    /\ ssh' = IF ssh = "stopping" THEN "idle" ELSE ssh
    /\ Go(h, "close")
    /\ UNCHANGED <<storeVars, mainVars, job, diverged, background, tools, watcher, planeVars, policyVars, shutdown>>

(* startSSHGateway: the socket or the host key may fail; a gateway that is *)
(* not idle keeps its place and the request is answered well.              *)
StartSSH(h, ok) ==
    /\ at[h] = "startSSH"
    /\ ssh' = IF ok /\ ssh = "idle" THEN "running" ELSE ssh
    /\ Go(h, IF ok THEN "close" ELSE AfterFailure)
    /\ diverged' = IF ok THEN FALSE ELSE diverged \/ AfterFailure = "close"
    /\ UNCHANGED <<storeVars, mainVars, job, background, tools, watcher, planeVars, policyVars, shutdown>>

(* Mutated: the transaction is not closed.                                 *)
CloseForgotten(h) ==
    /\ at[h] = "close"
    /\ Go(h, "idle")
    /\ job' = NoJob
    /\ UNCHANGED <<storeVars, diverged, Elsewhere>>

CloseSettings(h) ==
    /\ at[h] = "close"
    /\ CloseTransaction
    /\ Go(h, "idle")
    /\ job' = NoJob
    /\ UNCHANGED <<diverged, Elsewhere>>

(* The steps a handler takes by itself once its request is in.             *)
Handling(h) ==
    \/ NotifyPolicy(h) \/ Prepare(h) \/ Reconcile(h) \/ JoinSSH(h) \/ CloseSettings(h)
    \/ \E ok \in BOOLEAN : StartSSH(h, ok)
    \/ \E update \in Updates : Begin(h, update)
    \/ \E outcome \in SaveOutcomes :
          CommitResources(h, outcome) \/ CommitSettings(h, outcome) \/ RollbackSettings(h, outcome)

--------------------------------------------------------------------------------
(* The world around the daemon.                                            *)

Tick ==
    /\ now' = now + 1
    /\ UNCHANGED <<storeVars, mainVars, handlerVars, serviceVars, planeVars, deadline, timer, changed, shutdown>>

Signal ==
    /\ main = "select"
    /\ main' = "asked"
    /\ UNCHANGED <<life, failed, storeVars, handlerVars, serviceVars, planeVars, policyVars, shutdown>>

GuestExits ==
    /\ vm = "up"
    /\ vm' = "exited"
    /\ UNCHANGED <<storeVars, mainVars, handlerVars, serviceVars, control, network, lock, policyVars, shutdown>>

NetworkWorkerDies ==
    /\ network
    /\ network' = FALSE
    /\ UNCHANGED <<storeVars, mainVars, handlerVars, serviceVars, control, vm, lock, policyVars, shutdown>>

WatcherExits ==
    /\ watcher
    /\ watcher' = FALSE
    /\ UNCHANGED <<storeVars, mainVars, handlerVars, ssh, background, tools, planeVars, policyVars, shutdown>>

(* The process ended, or is killed, and the sandbox is started again:      *)
(* nothing but the files carries over.                                     *)
Launch ==
    /\ life # "New"
    /\ life' = "New" /\ main' = "load" /\ failed' = FALSE
    /\ at' = Idle /\ job' = NoJob /\ diverged' = FALSE
    /\ ssh' = "idle" /\ background' = NewGroup /\ tools' = NoTools /\ watcher' = FALSE
    /\ control' = "none" /\ vm' = "none" /\ network' = FALSE /\ lock' = FALSE
    /\ timer' = 0 /\ changed' = FALSE /\ shutdown' = FALSE
    /\ UNCHANGED <<storeVars, now, deadline>>

Comes(event) ==
    /\ events[event] > 0
    /\ events' = [events EXCEPT ![event] = @ - 1]

Environment ==
    \/ Comes("configure") /\ \E h \in Handlers : HandleConfigure(h)
    \/ Comes("mutation") /\ \E h \in Handlers, other \in Others, outcome \in SaveOutcomes :
                               HandleMutation(h, other, outcome)
    \/ Comes("session") /\ \E h \in Handlers : HandleSession(h)
    \/ Comes("policy") /\ \E h \in Handlers, d \in 0..MaxTime : StorePolicy(h, d)
    \/ Comes("stop") /\ (Signal \/ \E h \in Handlers : HandleShutdown(h))
    \/ Comes("death") /\ (GuestExits \/ NetworkWorkerDies \/ WatcherExits)
    \/ Comes("launch") /\ Launch
    \/ Comes("time") /\ Tick

MainStep == (Boot \/ supervise \/ Teardown) /\ UNCHANGED events

Step ==
    /\ Borrowing \/ \E h \in Handlers : Handling(h) \/ SessionEnds(h)
    /\ UNCHANGED events

Next == MainStep \/ Step \/ Environment

Spec == Init /\ [][Next]_vars

(* Goroutines run; requests, deaths, time and signals need not come, and a *)
(* guest process need not end.                                             *)
FairSpec ==
    /\ Spec
    /\ WF_vars(MainStep)
    /\ WF_vars(Borrowing /\ UNCHANGED events)
    /\ \A h \in Handlers : WF_vars((Handling(h) \/ (vm # "up" /\ SessionEnds(h))) /\ UNCHANGED events)

--------------------------------------------------------------------------------

(* Whenever no settings change is in flight, the SSH gateway runs exactly  *)
(* if the saved settings say so, through failed starts, failed rollbacks   *)
(* and failed writes, unless the last request was answered with the error  *)
(* that says it does not (configureSandbox, reconcileSandboxServices).     *)
ServicesFollow ==
    control = "open" /\ tx = Closed /\ ~diverged => (ssh = "running") = mem.settings.ssh

(* What borrows the guest is gone before the guest is closed, and all that *)
(* uses the sandbox directory before its lock is free (close,              *)
(* gracefulStop: "Background deliveries ... borrow all three planes").     *)
BorrowersFirst ==
    /\ vm = "closed" => background.borrowers = {} /\ ~watcher
    /\ ~lock => background.borrowers = {} /\ at = Idle /\ ~watcher /\ vm # "up"

(* No sandbox is stopped for a deadline that a replacement has just        *)
(* retired (supervise: "Recheck the currently published engine before      *)
(* stopping for stale expiry").                                            *)
NeverStopsEarly == [][main # "expired" /\ main' = "expired" => Expired]_vars

(* The loop stops exactly the sandboxes whose policy has expired: never    *)
(* early, and it does not go on under an expired policy however the        *)
(* replacement and the timer meet (supervise).                             *)
ExpiryExact ==
    /\ NeverStopsEarly
    /\ [](Expired /\ life = "Ready" => <>(~Expired \/ life # "Ready"))

(* Nobody waits for anybody in teardown, except for an exec session whose  *)
(* guest still runs: its handler waits for the process with no context.    *)
Held == main = "join" /\ vm = "up" /\ \E h \in Handlers : at[h] = "session"

TeardownEnds == life = "Stopping" ~> life # "Stopping" \/ Held

(* The same without the exception: "Closing that group cancels active      *)
(* sockets and joins their handlers."                                      *)
TeardownAlwaysEnds == life = "Stopping" ~> life # "Stopping"

(* No gateway outlives the control plane that owns it.                     *)
NoOrphanGateway == control = "closed" => ssh # "running"
================================================================================
