------------------------------ MODULE Machine ------------------------------
(***************************************************************************)
(* The lifecycle of one virtual machine (vmm/machine.go, machine_lifecycle *)
(* .go, machine_ownership.go) on the KVM backend (vmm/kvm.go,              *)
(* vm_linux.go): one goroutine calls Run, any number of others call Close  *)
(* at any time, every vCPU but the boot processor has a thread of its own, *)
(* and device threads raise interrupts.                                    *)
(*                                                                         *)
(* A section under Machine.resourceMu is one step.  What the threads share *)
(* without that lock is split where another thread can come in between:    *)
(* the atomics of kvmMachineResources, its WaitGroup, immediate_exit, the  *)
(* signal that kicks a vCPU, and the interrupt router's RWMutex.           *)
(***************************************************************************)
EXTENDS Integers, FiniteSets

CONSTANTS VCPUs,      \* the machine's virtual processors
          Boot,       \* vCPU 0, which runs on the goroutine that called Run
          Closers,    \* goroutines other than Run's that call Machine.Close
          Runner,     \* the goroutine that calls Run
          MaxConns    \* host streams injected into the vsock device

ASSUME MachineShape ==
    /\ IsFiniteSet(VCPUs)
    /\ Boot \in VCPUs
    /\ Runner \notin Closers
    /\ MaxConns \in Nat

Threads == Closers \cup {Runner}

VARIABLES phase,      \* machineLifecycle.phase
          runDone,    \* the channel Close joins: "none", "open" or "closed"
          backend,    \* machineBackendOwner holds the adopted backend
          kvmFD,      \* who holds /dev/kvm: "machine", "backend", "closed"
          prepared,   \* devices and guest RAM: "live" or "released"
          conns,      \* streams injected into the vsock device
          run,        \* where Run is
          reserved,   \* Run has deferred abandonVCPURuns
          owned,      \* Run has deferred closing the backend itself
          close,      \* thread -> where its Machine.Close is
          once,       \* closeOnce: "new", "busy" or "done"
          taken,      \* Close took the adopted backend
          joins,      \* Close has a Run to join
          irqLine,    \* the router's line: "none", "set" or "disabled"
          irq         \* a device thread is inside the line's ioctl

machineVars == <<phase, runDone, backend, kvmFD, prepared, conns>>
runVars == <<run, reserved, owned>>
closeVars == <<close, once, taken, joins>>
irqVars == <<irqLine, irq>>

VARIABLES native,     \* VM, GIC, vCPU descriptors and run areas
          stopping,   \* kvmMachineResources.stopping
          unstarted,  \* reservations no thread has claimed
          runWG,      \* the WaitGroup's counter
          immediate,  \* vCPUs whose immediate_exit byte is set
          kicked,     \* vCPUs whose thread Close has signalled
          vcpu        \* vCPU -> where its run loop is

kvmVars == <<native, stopping, unstarted, runWG, immediate, kicked, vcpu>>
vars == <<machineVars, runVars, closeVars, irqVars, kvmVars>>

(* The run loop of a vCPU that claimed its reservation and has not called  *)
(* Done; from "ready" to "exited" its thread id is published in hostTID.   *)
HasTID == {"ready", "entering", "guest", "exited"}
Holding == {"claimed", "leaving"} \cup HasTID
Holders == {v \in VCPUs : vcpu[v] \in Holding}

Prepare ==
    /\ phase = "prepared" /\ runDone = "none" /\ backend = FALSE
    /\ kvmFD = "machine" /\ prepared = "live" /\ conns = 0
    /\ run = "idle" /\ reserved = FALSE /\ owned = FALSE
    /\ close = [t \in Threads |-> "idle"]
    /\ once = "new" /\ taken = FALSE /\ joins = FALSE
    /\ irqLine = "none" /\ irq = FALSE
    /\ native = "none" /\ stopping = FALSE
    /\ unstarted = 0 /\ runWG = 0
    /\ immediate = {} /\ kicked = {}
    /\ vcpu = [v \in VCPUs |-> "none"]

-----------------------------------------------------------------------------
(* Run.                                                                    *)

(* A machine that is stopping or closed, or already ran, is refused.       *)
BeginRun ==
    /\ run = "idle"
    /\ IF phase = "prepared"
       THEN phase' = "starting" /\ runDone' = "open" /\ run' = "opening"
       ELSE run' = "returned" /\ UNCHANGED <<phase, runDone>>
    /\ UNCHANGED <<backend, kvmFD, prepared, conns, reserved, owned,
                   closeVars, irqVars, kvmVars>>

(* takeKVM and openKVM: a machine that stops meanwhile keeps its           *)
(* descriptor; an unusable device is closed on the spot.                   *)
OpenKVM ==
    /\ run = "opening"
    /\ \/ /\ phase = "stopping"
          /\ run' = "unwinding" /\ UNCHANGED <<kvmFD, owned>>
       \/ /\ phase = "starting"
          /\ run' = "unwinding" /\ kvmFD' = "closed" /\ UNCHANGED owned
       \/ /\ phase = "starting"
          /\ run' = "building" /\ kvmFD' = "backend" /\ owned' = TRUE
    /\ UNCHANGED <<phase, runDone, backend, prepared, conns, reserved,
                   closeVars, irqVars, kvmVars>>

(* Creating the VM, its interrupt controller and its vCPUs; any of the     *)
(* calls may fail, part of the objects then exist.                         *)
Build ==
    /\ run = "building"
    /\ native' = "open"
    /\ \/ run' = "unwinding" /\ UNCHANGED <<reserved, unstarted, runWG>>
       \/ /\ run' = "adopting" /\ reserved' = TRUE
          /\ unstarted' = Cardinality(VCPUs)
          /\ runWG' = Cardinality(VCPUs)
    /\ UNCHANGED <<machineVars, owned, closeVars, irqVars,
                   stopping, immediate, kicked, vcpu>>

(* Mutated: a backend is adopted without looking at the phase.              *)
AdoptWhateverPhase ==
    /\ run = "adopting"
    /\ backend' = TRUE /\ owned' = FALSE /\ run' = "routing"
    /\ UNCHANGED <<phase, runDone, kvmFD, prepared, conns, reserved,
                   closeVars, irqVars, kvmVars>>

(* adoptBackend: the machine owns the backend from here on, unless Close   *)
(* came first; then Run keeps it and unwinds.                              *)
Adopt ==
    /\ run = "adopting"
    /\ IF phase = "starting"
       THEN /\ phase' = "running" /\ backend' = TRUE
            /\ owned' = FALSE /\ run' = "routing"
       ELSE run' = "unwinding" /\ UNCHANGED <<phase, backend, owned>>
    /\ UNCHANGED <<runDone, kvmFD, prepared, conns, reserved,
                   closeVars, irqVars, kvmVars>>

(* interrupts.set: a disabled router stays disabled.                       *)
RouteInterrupts ==
    /\ run = "routing" /\ ~ irq
    /\ irqLine' = IF irqLine = "disabled" THEN irqLine ELSE "set"
    /\ run' = "spawning"
    /\ UNCHANGED <<machineVars, reserved, owned, closeVars, irq, kvmVars>>

Spawn ==
    /\ run = "spawning"
    /\ vcpu' = [v \in VCPUs |-> IF v = Boot THEN vcpu[v] ELSE "spawned"]
    /\ run' = "booting"
    /\ UNCHANGED <<machineVars, reserved, owned, closeVars, irqVars,
                   native, stopping, unstarted, runWG, immediate, kicked>>

(* bootLoop: setting the boot registers may fail; otherwise the boot       *)
(* processor enters the same loop as the others, on this goroutine.        *)
EnterBootLoop ==
    /\ run = "booting"
    /\ \/ run' = "unwinding" /\ UNCHANGED vcpu
       \/ run' = "looping" /\ vcpu' = [vcpu EXCEPT ![Boot] = "spawned"]
    /\ UNCHANGED <<machineVars, reserved, owned, closeVars, irqVars,
                   native, stopping, unstarted, runWG, immediate, kicked>>

LeaveBootLoop ==
    /\ run = "looping" /\ vcpu[Boot] = "gone"
    /\ run' = "unwinding"
    /\ UNCHANGED <<machineVars, reserved, owned, closeVars, irqVars, kvmVars>>

(* Deferred: abandonVCPURuns gives back what no thread claimed.            *)
Abandon ==
    /\ run = "unwinding"
    /\ runWG' = IF reserved THEN runWG - unstarted ELSE runWG
    /\ unstarted' = IF reserved THEN 0 ELSE unstarted
    /\ run' = "dropping"
    /\ UNCHANGED <<machineVars, reserved, owned, closeVars, irqVars, native,
                   stopping, immediate, kicked, vcpu>>

(* Deferred: a backend the machine never adopted is closed by Run.         *)
Drop ==
    /\ run = "dropping"
    /\ IF owned
       THEN /\ runWG = 0
            /\ stopping' = TRUE /\ immediate' = VCPUs
            /\ native' = "closed" /\ kvmFD' = "closed"
       ELSE UNCHANGED <<stopping, immediate, native, kvmFD>>
    /\ run' = "finishing"
    /\ UNCHANGED <<phase, runDone, backend, prepared, conns, reserved, owned,
                   closeVars, irqVars, unstarted, runWG, kicked, vcpu>>

(* Deferred: finishRun, then Close, so that Close can join this Run.       *)
FinishRun ==
    /\ run = "finishing"
    /\ phase' = IF phase = "stopping" THEN phase ELSE "exited"
    /\ runDone' = "closed"
    /\ close' = [close EXCEPT ![Runner] = "called"]
    /\ run' = "closing"
    /\ UNCHANGED <<backend, kvmFD, prepared, conns, reserved, owned,
                   once, taken, joins, irqVars, kvmVars>>

Return ==
    /\ run = "closing" /\ close[Runner] = "returned"
    /\ run' = "returned"
    /\ UNCHANGED <<machineVars, reserved, owned, closeVars, irqVars, kvmVars>>

RunStep ==
    \/ OpenKVM \/ Build \/ Adopt \/ RouteInterrupts \/ Spawn
    \/ EnterBootLoop \/ LeaveBootLoop \/ Abandon \/ Drop \/ FinishRun \/ Return

-----------------------------------------------------------------------------
(* Machine.Close, from any thread.                                         *)

CallClose(t) ==
    /\ t \in Closers /\ close[t] = "idle"
    /\ close' = [close EXCEPT ![t] = "called"]
    /\ UNCHANGED <<machineVars, runVars, once, taken, joins, irqVars, kvmVars>>

(* closeOnce and beginStop: the first caller stops the machine and takes   *)
(* the backend.  Closing the broker transport of a backend that is not     *)
(* published yet concerns Windows only.                                    *)
BeginStop(t) ==
    /\ close[t] = "called" /\ once = "new"
    /\ once' = "busy"
    /\ joins' = (phase \in {"starting", "running"})
    /\ phase' = "stopping"
    /\ taken' = backend /\ backend' = FALSE
    /\ close' = [close EXCEPT ![t] = "masking"]
    /\ UNCHANGED <<runDone, kvmFD, prepared, conns, runVars, irqVars, kvmVars>>

(* Every other caller waits for the first one.                             *)
JoinClose(t) ==
    /\ close[t] = "called" /\ once = "done"
    /\ close' = [close EXCEPT ![t] = "returned"]
    /\ UNCHANGED <<machineVars, runVars, once, taken, joins, irqVars, kvmVars>>

(* Mutated: the line is dropped without waiting for a delivery in flight.   *)
DisableAtOnce(t) ==
    /\ close[t] = "masking"
    /\ irqLine' = "disabled"
    /\ close' = [close EXCEPT ![t] = IF taken THEN "stopping" ELSE "joining"]
    /\ UNCHANGED <<machineVars, runVars, once, taken, joins, irq, kvmVars>>

(* interrupts.disable takes the router's lock for writing.                 *)
DisableInterrupts(t) ==
    /\ close[t] = "masking" /\ ~ irq
    /\ irqLine' = "disabled"
    /\ close' = [close EXCEPT ![t] = IF taken THEN "stopping" ELSE "joining"]
    /\ UNCHANGED <<machineVars, runVars, once, taken, joins, irq, kvmVars>>

(* kvmMachineResources.Close.                                              *)
StopVCPUs(t) ==
    /\ close[t] = "stopping"
    /\ stopping' = TRUE
    /\ close' = [close EXCEPT ![t] = "kicking"]
    /\ UNCHANGED <<machineVars, runVars, once, taken, joins, irqVars, native,
                   unstarted, runWG, immediate, kicked, vcpu>>

(* Mutated: a vCPU is signalled but its immediate_exit byte is not set.     *)
SkipImmediateExit(t, v) ==
    /\ close[t] = "kicking" /\ v \notin immediate
    /\ immediate' = immediate
    /\ kicked' = kicked \cup {v}
    /\ v \notin kicked
    /\ vcpu' = [vcpu EXCEPT ![v] = IF @ = "guest" THEN "exited" ELSE @]
    /\ UNCHANGED <<machineVars, runVars, closeVars, irqVars, native, stopping,
                   unstarted, runWG>>

SetImmediateExit(t, v) ==
    /\ close[t] = "kicking" /\ v \notin immediate
    /\ immediate' = immediate \cup {v}
    /\ UNCHANGED <<machineVars, runVars, closeVars, irqVars, native, stopping,
                   unstarted, runWG, kicked, vcpu>>

(* SIGURG to the thread whose id is published takes the vCPU out of the    *)
(* guest; at any other place the signal has no effect on the loop.         *)
Kick(t, v) ==
    /\ close[t] = "kicking" /\ v \in immediate /\ v \notin kicked
    /\ kicked' = kicked \cup {v}
    /\ vcpu' = [vcpu EXCEPT ![v] = IF @ = "guest" THEN "exited" ELSE @]
    /\ UNCHANGED <<machineVars, runVars, closeVars, irqVars, native, stopping,
                   unstarted, runWG, immediate>>

(* runWG.Wait, then run areas, descriptors and /dev/kvm.                   *)
ReleaseNative(t) ==
    /\ close[t] = "kicking" /\ kicked = VCPUs /\ runWG = 0
    /\ native' = "closed" /\ kvmFD' = "closed"
    /\ close' = [close EXCEPT ![t] = "joining"]
    /\ UNCHANGED <<phase, runDone, backend, prepared, conns, runVars, once,
                   taken, joins, irqVars, stopping, unstarted, runWG,
                   immediate, kicked, vcpu>>

(* <-runDone, then closePrepared: devices with their streams and workers,  *)
(* guest RAM, and the /dev/kvm descriptor if Run never took it.            *)
ReleasePrepared(t) ==
    /\ close[t] = "joining" /\ (joins => runDone = "closed")
    /\ prepared' = "released" /\ conns' = 0
    /\ kvmFD' = IF kvmFD = "machine" THEN "closed" ELSE kvmFD
    /\ close' = [close EXCEPT ![t] = "ending"]
    /\ UNCHANGED <<phase, runDone, backend, runVars, once, taken, joins,
                   irqVars, kvmVars>>

FinishClose(t) ==
    /\ close[t] = "ending"
    /\ phase' = "closed" /\ once' = "done"
    /\ close' = [close EXCEPT ![t] = "returned"]
    /\ UNCHANGED <<runDone, backend, kvmFD, prepared, conns, runVars, taken,
                   joins, irqVars, kvmVars>>

CloseStep(t) ==
    \/ BeginStop(t) \/ JoinClose(t) \/ DisableInterrupts(t) \/ StopVCPUs(t)
    \/ \E v \in VCPUs : SetImmediateExit(t, v) \/ Kick(t, v)
    \/ ReleaseNative(t) \/ ReleasePrepared(t) \/ FinishClose(t)

-----------------------------------------------------------------------------
(* The vCPU threads.                                                       *)

Loop(v, from, to) ==
    /\ vcpu[v] = from
    /\ vcpu' = [vcpu EXCEPT ![v] = to]
    /\ UNCHANGED <<machineVars, runVars, closeVars, irqVars, native, stopping,
                   unstarted, runWG, immediate, kicked>>

(* runVCPU: without a reservation left the thread returns at once.         *)
Claim(v) ==
    /\ vcpu[v] = "spawned"
    /\ IF unstarted = 0
       THEN vcpu' = [vcpu EXCEPT ![v] = "gone"] /\ UNCHANGED unstarted
       ELSE vcpu' = [vcpu EXCEPT ![v] = "claimed"] /\ unstarted' = unstarted - 1
    /\ UNCHANGED <<machineVars, runVars, closeVars, irqVars, native, stopping,
                   runWG, immediate, kicked>>

PublishTID(v) == Loop(v, "claimed", "ready")

(* The loop checks for a stop before and after every KVM_RUN; a kick or    *)
(* immediate_exit makes KVM_RUN return, any other exit is handled and the  *)
(* guest re-entered.                                                       *)
CheckStop(v) == Loop(v, "ready", IF stopping THEN "leaving" ELSE "entering")
EnterGuest(v) ==
    Loop(v, "entering", IF v \in immediate THEN "exited" ELSE "guest")
GuestExit(v) == Loop(v, "guest", "exited")
HandleExit(v) == Loop(v, "exited", IF stopping THEN "leaving" ELSE "ready")

(* Power-off, reset, crash or a KVM error ends this vCPU's loop.           *)
GuestHalt(v) == Loop(v, "guest", "leaving")

Done(v) ==
    /\ vcpu[v] = "leaving"
    /\ vcpu' = [vcpu EXCEPT ![v] = "gone"]
    /\ runWG' = runWG - 1
    /\ UNCHANGED <<machineVars, runVars, closeVars, irqVars, native, stopping,
                   unstarted, immediate, kicked>>

VCPUStep(v) ==
    \/ Claim(v) \/ PublishTID(v) \/ CheckStop(v) \/ EnterGuest(v)
    \/ HandleExit(v) \/ Done(v)

-----------------------------------------------------------------------------
(* Device threads and host streams.                                        *)

(* raise holds the router's lock for reading while the line's ioctl runs.  *)
RaiseIRQ ==
    /\ prepared = "live" /\ irqLine = "set" /\ ~ irq
    /\ irq' = TRUE
    /\ UNCHANGED <<machineVars, runVars, closeVars, irqLine, kvmVars>>

DeliverIRQ ==
    /\ irq /\ irq' = FALSE
    /\ UNCHANGED <<machineVars, runVars, closeVars, irqLine, kvmVars>>

(* InjectVsockConn holds resourceMu: only a running machine takes streams. *)
InjectVsockConn ==
    /\ phase = "running" /\ conns < MaxConns
    /\ conns' = conns + 1
    /\ UNCHANGED <<phase, runDone, backend, kvmFD, prepared, runVars,
                   closeVars, irqVars, kvmVars>>

Next ==
    \/ BeginRun \/ RunStep
    \/ \E t \in Threads : CallClose(t) \/ CloseStep(t)
    \/ \E v \in VCPUs : VCPUStep(v) \/ GuestExit(v) \/ GuestHalt(v)
    \/ RaiseIRQ \/ DeliverIRQ \/ InjectVsockConn

Spec == Prepare /\ [][Next]_vars

(* The Go scheduler runs every goroutine that can run.  The guest is under *)
(* no obligation: nothing makes it exit, halt or power off, and nobody has *)
(* to call Close.  A writer waiting for a Go RWMutex keeps new readers     *)
(* out, so disable is not starved by devices that keep raising interrupts. *)
Fairness ==
    /\ WF_vars(RunStep)
    /\ \A t \in Threads : WF_vars(CloseStep(t)) /\ SF_vars(DisableInterrupts(t))
    /\ \A v \in VCPUs : WF_vars(VCPUStep(v))
    /\ WF_vars(DeliverIRQ)

FairSpec == Spec /\ Fairness

-----------------------------------------------------------------------------

TypeOK ==
    /\ phase \in {"prepared", "starting", "running", "exited", "stopping", "closed"}
    /\ runDone \in {"none", "open", "closed"}
    /\ backend \in BOOLEAN
    /\ kvmFD \in {"machine", "backend", "closed"}
    /\ prepared \in {"live", "released"}
    /\ conns \in 0..MaxConns
    /\ run \in {"idle", "opening", "building", "adopting", "routing", "spawning",
                "booting", "looping", "unwinding", "dropping", "finishing",
                "closing", "returned"}
    /\ reserved \in BOOLEAN /\ owned \in BOOLEAN
    /\ close \in [Threads -> {"idle", "called", "masking", "stopping", "kicking",
                              "joining", "ending", "returned"}]
    /\ once \in {"new", "busy", "done"}
    /\ taken \in BOOLEAN /\ joins \in BOOLEAN
    /\ irqLine \in {"none", "set", "disabled"} /\ irq \in BOOLEAN
    /\ native \in {"none", "open", "closed"} /\ stopping \in BOOLEAN
    /\ unstarted \in Nat /\ runWG \in Nat
    /\ immediate \subseteq VCPUs /\ kicked \subseteq VCPUs
    /\ vcpu \in [VCPUs -> {"none", "spawned", "gone"} \cup Holding]

(* A vCPU thread that claimed its reservation finds the kernel objects,    *)
(* the devices and the guest's memory alive until it calls Done, and an    *)
(* interrupt being delivered finds the VM's descriptor open: whatever      *)
(* Close does meanwhile, nothing is released under a thread (Close,        *)
(* kvmMachineResources.Close, interruptRouter.disable).                    *)
NoUseAfterRelease ==
    /\ Holders # {} => native = "open" /\ prepared = "live"
    /\ irq => native = "open"
    /\ run \in {"building", "adopting", "routing", "spawning", "booting"}
           => prepared = "live"

(* Nothing outlives a closed machine, whichever side owned it when Close   *)
(* came: the backend is closed whether or not it had been adopted, the     *)
(* /dev/kvm descriptor is closed exactly once whoever held it, no stream   *)
(* was injected after the device released its own, and no thread is left.  *)
ClosedMeansReleased ==
    phase = "closed" =>
        /\ native # "open" /\ kvmFD = "closed" /\ ~ backend
        /\ prepared = "released" /\ conns = 0
        /\ runDone # "open" /\ Holders = {} /\ ~ irq

(* Every call of Close returns, and with it every Run that had begun: the  *)
(* join of Run's channel, the join of the vCPU threads and the once guard  *)
(* never wait for one another, whatever the guest does.                    *)
CloseReturns ==
    \A t \in Threads : (close[t] = "called") ~> (close[t] = "returned")

=============================================================================
