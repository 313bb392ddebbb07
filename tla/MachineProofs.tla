------------------------------ MODULE MachineProofs ------------------------------
(***************************************************************************)
(* No use after release and no leak, for any number of vCPUs and of        *)
(* threads that call Close.                                                *)
(*                                                                         *)
(* The invariant follows the ownership of the backend.  A backend that is  *)
(* alive belongs to Run before it is adopted, to the machine while it      *)
(* runs, or to the one Close that took it and has not released it (Owner). *)
(* The WaitGroup counts the reservations nobody claimed and the threads    *)
(* inside their run loop (Counted), so that a counter of zero, which both  *)
(* releases wait for, means that no thread is left and none can start.     *)
(***************************************************************************)
EXTENDS Machine, TLAPS, FiniteSetTheorems

Active == {"masking", "stopping", "kicking", "joining", "ending"}
Unadopted == {"building", "adopting", "unwinding", "dropping"}
RunPhases == {"opening", "routing", "spawning", "booting", "looping", "finishing"} \cup Unadopted

(* One Close works, the others wait for it.                                *)
OneClose ==
    /\ \A t \in Threads : close[t] \in Active => once = "busy"
    /\ \A t \in Threads : close[t] = "returned" => once = "done"
    /\ \A t, u \in Threads : close[t] \in Active /\ close[u] \in Active => t = u
    /\ once = "new" <=> phase \in {"prepared", "starting", "running", "exited"}
    /\ once = "done" <=> phase = "closed"

(* Where Run is, its channel, the phase, and the join of Close.            *)
RunJoined ==
    /\ run \in RunPhases <=> runDone = "open"
    /\ run \in RunPhases => phase \in {"starting", "running", "stopping"}
    /\ run \in {"opening", "building", "adopting"} => phase # "running"
    /\ run = "idle" => phase \in {"prepared", "stopping", "closed"}
    /\ once # "new" /\ runDone = "open" => joins
    /\ once = "done" => runDone # "open"

Live == native = "open" \/ kvmFD = "backend"

Owner ==
    /\ Live => \/ owned /\ run \in Unadopted
               \/ backend
               \/ taken /\ once = "busy" /\ \A t \in Threads : close[t] \notin {"joining", "ending"}
    /\ backend => once = "new"
    /\ native # "open" => runWG = 0
    /\ run \in {"building", "adopting"} => owned

(* The interrupt line is closed before the backend is.                     *)
LineDisabled ==
    /\ irqLine = "set" => native = "open"
    /\ irq => irqLine = "set"
    /\ owned \/ run \in {"idle", "opening"} => irqLine # "set"
    /\ run \in {"routing", "spawning", "booting", "looping"} => ~owned
    /\ \A t \in Threads : close[t] \in Active \ {"masking"} => irqLine = "disabled"
    /\ once = "done" => irqLine = "disabled"

Released ==
    /\ prepared = "released" => once # "new" /\ ~Live /\ runDone # "open" /\ kvmFD = "closed" /\ conns = 0
    /\ \A t \in Threads : close[t] = "ending" => prepared = "released"
    /\ once = "done" => prepared = "released"

Counted ==
    /\ runWG = unstarted + Cardinality(Holders)
    /\ run \in {"idle", "opening", "building", "adopting", "routing", "spawning"}
          => vcpu = [v \in VCPUs |-> "none"]
    /\ run = "booting" => vcpu[Boot] = "none"
    /\ run \in {"adopting", "routing"} => unstarted > 0

MachineInv == TypeOK /\ OneClose /\ RunJoined /\ Owner /\ LineDisabled /\ Released /\ Counted

--------------------------------------------------------------------------------
(* Counting the threads.                                                   *)

(* The set of holders is finite, so its cardinality counts.                *)
LEMMA HoldersFinite == IsFiniteSet(Holders) /\ Cardinality(Holders) \in Nat
BY MachineShape, FS_Subset, FS_CardinalityType, Zenon DEF MachineShape, Holders

(* A machine has a processor.                                              *)
LEMMA SomeVCPU == Cardinality(VCPUs) \in Nat /\ Cardinality(VCPUs) > 0
BY MachineShape, FS_CardinalityType, FS_EmptySet DEF MachineShape

(* No thread is inside its loop when the counter is zero.                  *)
LEMMA NoneHeld == ASSUME TypeOK, Counted, runWG = 0 PROVE Holders = {} /\ unstarted = 0
BY HoldersFinite, FS_EmptySet DEF TypeOK, Counted

(* A processor that moves within its loop is counted as before.            *)
LEMMA SameHolders ==
    ASSUME TypeOK, NEW v \in VCPUs, NEW to, vcpu' = [vcpu EXCEPT ![v] = to],
           vcpu[v] \in Holding <=> to \in Holding
    PROVE  Holders' = Holders
BY Zenon DEF TypeOK, Holders

(* One that claims its reservation is counted once more.                   *)
LEMMA HolderAdded ==
    ASSUME TypeOK, NEW v \in VCPUs, vcpu[v] = "spawned", vcpu' = [vcpu EXCEPT ![v] = "claimed"]
    PROVE  Cardinality(Holders') = Cardinality(Holders) + 1
<1>1. Holders' = Holders \cup {v} /\ v \notin Holders
  BY Zenon DEF TypeOK, Holders, Holding, HasTID
<1>. QED  BY <1>1, HoldersFinite, FS_AddElement, Zenon

(* A processor inside its loop is counted.                                 *)
LEMMA HolderCounted ==
    ASSUME TypeOK, Counted, NEW v \in VCPUs, vcpu[v] = "leaving"
    PROVE  runWG - 1 \in Nat /\ runWG # 0
<1>1. v \in Holders
  BY Zenon DEF Holders, Holding
<1>2. Cardinality(Holders) # 0
  BY <1>1, HoldersFinite, FS_EmptySet, Zenon
<1>. QED  BY <1>2, HoldersFinite DEF TypeOK, Counted

(* One that calls Done, once less.                                         *)
LEMMA HolderRemoved ==
    ASSUME TypeOK, NEW v \in VCPUs, vcpu[v] = "leaving", vcpu' = [vcpu EXCEPT ![v] = "gone"]
    PROVE  Cardinality(Holders') = Cardinality(Holders) - 1
<1>1. Holders' = Holders \ {v} /\ v \in Holders
  BY Zenon DEF TypeOK, Holders, Holding, HasTID
<1>. QED  BY <1>1, HoldersFinite, FS_RemoveElement, Zenon

--------------------------------------------------------------------------------
(* Every step preserves the invariant.  Control is all of it but the count *)
(* of the threads.                                                         *)

Control == TypeOK /\ OneClose /\ RunJoined /\ Owner /\ LineDisabled /\ Released

(* A step that leaves the reservations and the run loops alone keeps the   *)
(* count.                                                                  *)
LEMMA CountKept ==
    ASSUME Counted, UNCHANGED <<unstarted, runWG, vcpu>>,
           run' \in {"idle", "opening", "building", "adopting", "routing", "spawning"}
               => run \in {"idle", "opening", "building", "adopting", "routing", "spawning"},
           run' = "booting" => run = "booting",
           run' \in {"adopting", "routing"} => run \in {"adopting", "routing"}
    PROVE  Counted'
<1>1. Holders' = Holders
  BY Zenon DEF Holders
<1>. QED  BY <1>1, Zenon DEF Counted

(* A step inside a run loop, or a signal to one, moves nothing else.        *)
LEMMA ControlKept ==
    ASSUME Control, TypeOK', UNCHANGED <<machineVars, runVars, closeVars, irqVars, native, runWG>>
    PROVE  Control'
<1> USE DEF machineVars, runVars, closeVars, irqVars
<1>1. OneClose' /\ RunJoined' /\ LineDisabled'
  BY Zenon DEF Control, OneClose, RunJoined, LineDisabled
<1>2. Owner' /\ Released'
  BY Zenon DEF Control, Owner, Released, Live
<1>. QED  BY <1>1, <1>2, Zenon DEF Control

(* Run.                                                                    *)
LEMMA RunKeeps ==
    ASSUME MachineInv, BeginRun \/ RunStep
    PROVE  MachineInv'
<1> USE DEF MachineInv, Threads, machineVars, runVars, closeVars, irqVars, kvmVars
<1>1. CASE BeginRun
  <2>1. Control'
    <3>1. TypeOK'
      BY <1>1 DEF BeginRun, TypeOK
    <3>2. OneClose'
      BY <1>1, Zenon DEF BeginRun, TypeOK, OneClose, Active
    <3>3. RunJoined'
      BY <1>1, Zenon DEF BeginRun, TypeOK, RunJoined, Released, OneClose, RunPhases, Unadopted
    <3>4. Owner'
      BY <1>1, Zenon
      DEF BeginRun, TypeOK, Owner, Live, OneClose, RunJoined, RunPhases, Active, Unadopted,
          LineDisabled
    <3>5. LineDisabled'
      BY <1>1, Zenon DEF BeginRun, TypeOK, LineDisabled, Owner, OneClose, Active, Unadopted
    <3>6. Released'
      BY <1>1, Zenon
      DEF BeginRun, TypeOK, Released, Owner, Live, OneClose, RunJoined, RunPhases, Active,
          Unadopted
    <3>. QED  BY <3>1, <3>2, <3>3, <3>4, <3>5, <3>6, Zenon DEF Control
  <2>2. Counted'
    BY <1>1, CountKept, Zenon DEF BeginRun
  <2>. QED  BY <2>1, <2>2, Zenon DEF Control
<1>2. CASE OpenKVM
  <2>1. Control'
    <3>1. TypeOK'
      <4>1. owned' \in BOOLEAN
        BY <1>2, Zenon DEF OpenKVM, TypeOK
      <4>. QED  BY <4>1, <1>2 DEF OpenKVM, TypeOK
    <3>2. OneClose'
      BY <1>2, Zenon DEF OpenKVM, OneClose
    <3>3. RunJoined'
      BY <1>2, Zenon DEF OpenKVM, TypeOK, RunJoined, Released, OneClose, RunPhases, Unadopted
    <3>4. Owner'
      BY <1>2, Zenon
      DEF OpenKVM, TypeOK, Owner, Live, OneClose, RunJoined, RunPhases, Active, Unadopted,
          LineDisabled
    <3>5. LineDisabled'
      BY <1>2, Zenon DEF OpenKVM, TypeOK, LineDisabled, Owner, OneClose, Active, Unadopted
    <3>6. Released'
      BY <1>2, Zenon
      DEF OpenKVM, TypeOK, Released, Owner, Live, OneClose, RunJoined, RunPhases, Active,
          Unadopted
    <3>. QED  BY <3>1, <3>2, <3>3, <3>4, <3>5, <3>6, Zenon DEF Control
  <2>2. Counted'
    BY <1>2, CountKept, Zenon DEF OpenKVM
  <2>. QED  BY <2>1, <2>2, Zenon DEF Control
<1>3. CASE Build
  <2>1. Control'
    <3>1. TypeOK'
      <4>1. reserved' \in BOOLEAN
        BY <1>3, Zenon DEF Build, TypeOK
      <4>. QED  BY <4>1, <1>3, SomeVCPU, MachineShape DEF Build, TypeOK
    <3>2. OneClose'
      BY <1>3, Zenon DEF Build, OneClose
    <3>3. RunJoined'
      BY <1>3, Zenon DEF Build, TypeOK, RunJoined, Released, OneClose, RunPhases, Unadopted
    <3>4. Owner'
      BY <1>3, SomeVCPU, Zenon
      DEF Build, TypeOK, Owner, Live, OneClose, RunJoined, RunPhases, Active, Unadopted,
          LineDisabled
    <3>5. LineDisabled'
      BY <1>3, Zenon DEF Build, TypeOK, LineDisabled, Owner, OneClose, Active, Unadopted
    <3>6. Released'
      BY <1>3, Zenon
      DEF Build, TypeOK, Released, Owner, Live, OneClose, RunJoined, RunPhases, Active,
          Unadopted
    <3>. QED  BY <3>1, <3>2, <3>3, <3>4, <3>5, <3>6, Zenon DEF Control
  <2>2. Counted'
    <3>1. Holders' = {} /\ Holders = {}
      BY <1>3, Zenon DEF Build, Counted, Holders, Holding, HasTID
    <3>2. Cardinality(Holders') = 0
      BY <3>1, FS_EmptySet, Zenon
    <3>. QED  BY <1>3, <3>1, <3>2, SomeVCPU, FS_EmptySet DEF Build, Counted, TypeOK
  <2>. QED  BY <2>1, <2>2, Zenon DEF Control
<1>4. CASE Adopt
  <2>1. Control'
    <3>1. TypeOK'
      <4>1. backend' \in BOOLEAN /\ owned' \in BOOLEAN
        BY <1>4, Zenon DEF Adopt, TypeOK
      <4>. QED  BY <4>1, <1>4 DEF Adopt, TypeOK
    <3>2. Released'
      BY <1>4, Zenon DEF Adopt, Released, Live
    <3>3. OneClose'
      BY <1>4, Zenon DEF Adopt, TypeOK, OneClose, Active
    <3>4. RunJoined'
      BY <1>4, Zenon DEF Adopt, TypeOK, RunJoined, Released, OneClose, RunPhases, Unadopted
    <3>5. Owner'
      BY <1>4, Zenon
      DEF Adopt, TypeOK, Owner, Live, OneClose, RunJoined, RunPhases, Active, Unadopted,
          LineDisabled
    <3>6. LineDisabled'
      BY <1>4, Zenon DEF Adopt, TypeOK, LineDisabled, Owner, OneClose, Active, Unadopted
    <3>. QED  BY <3>1, <3>2, <3>3, <3>4, <3>5, <3>6, Zenon DEF Control
  <2>2. Counted'
    BY <1>4, CountKept, Zenon DEF Adopt
  <2>. QED  BY <2>1, <2>2, Zenon DEF Control
<1>5. CASE RouteInterrupts
  <2>1. Control'
    <3>1. TypeOK'
      BY <1>5, NoneHeld DEF RouteInterrupts, TypeOK
    <3>2. OneClose' /\ Released'
      BY <1>5, Zenon DEF RouteInterrupts, OneClose, Released, Live
    <3>3. RunJoined'
      BY <1>5, Zenon
      DEF RouteInterrupts, TypeOK, RunJoined, Released, OneClose, RunPhases, Unadopted
    <3>4. Owner'
      BY <1>5, Zenon
      DEF RouteInterrupts, TypeOK, Owner, Live, OneClose, RunJoined, RunPhases, Active,
          Unadopted, LineDisabled
    <3>5. LineDisabled'
      BY <1>5, SomeVCPU, HoldersFinite
      DEF RouteInterrupts, TypeOK, LineDisabled, Owner, OneClose, Active, Unadopted,
          Counted, RunJoined, RunPhases
    <3>. QED  BY <3>1, <3>2, <3>3, <3>4, <3>5, Zenon DEF Control
  <2>2. Counted'
    BY <1>5, CountKept, Zenon DEF RouteInterrupts
  <2>. QED  BY <2>1, <2>2, Zenon DEF Control
<1>6. CASE Spawn
  <2>1. Control'
    <3>1. TypeOK'
      BY <1>6 DEF Spawn, TypeOK
    <3>2. OneClose' /\ Released'
      BY <1>6, Zenon DEF Spawn, OneClose, Released, Live
    <3>3. RunJoined'
      BY <1>6, Zenon DEF Spawn, TypeOK, RunJoined, Released, OneClose, RunPhases, Unadopted
    <3>4. Owner'
      BY <1>6, Zenon
      DEF Spawn, TypeOK, Owner, Live, OneClose, RunJoined, RunPhases, Active, Unadopted,
          LineDisabled
    <3>5. LineDisabled'
      BY <1>6, Zenon DEF Spawn, TypeOK, LineDisabled, Owner, OneClose, Active, Unadopted
    <3>. QED  BY <3>1, <3>2, <3>3, <3>4, <3>5, Zenon DEF Control
  <2>2. Counted'
    <3>1. Holders' = {} /\ Holders = {}
      BY <1>6, Zenon DEF Spawn, Counted, Holders, Holding, HasTID
    <3>. QED  BY <1>6, <3>1, MachineShape, Zenon DEF Spawn, Counted, MachineShape
  <2>. QED  BY <2>1, <2>2, Zenon DEF Control
<1>7. CASE EnterBootLoop
  <2>1. Control'
    <3>1. TypeOK'
      BY <1>7 DEF EnterBootLoop, TypeOK
    <3>2. OneClose' /\ Released'
      BY <1>7, Zenon DEF EnterBootLoop, OneClose, Released, Live
    <3>3. RunJoined'
      BY <1>7, Zenon DEF EnterBootLoop, TypeOK, RunJoined, Released, OneClose, RunPhases, Unadopted
    <3>4. Owner'
      BY <1>7, Zenon
      DEF EnterBootLoop, TypeOK, Owner, Live, OneClose, RunJoined, RunPhases, Active,
          Unadopted, LineDisabled
    <3>5. LineDisabled'
      BY <1>7, Zenon DEF EnterBootLoop, TypeOK, LineDisabled, Owner, OneClose, Active, Unadopted
    <3>. QED  BY <3>1, <3>2, <3>3, <3>4, <3>5, Zenon DEF Control
  <2>2. Counted'
    <3>1. Holders' = Holders
      BY <1>7, Zenon DEF EnterBootLoop, Counted, Holders, Holding, HasTID, TypeOK
    <3>. QED  BY <1>7, <3>1, Zenon DEF EnterBootLoop, Counted
  <2>. QED  BY <2>1, <2>2, Zenon DEF Control
<1>8. CASE LeaveBootLoop
  <2>1. Control'
    <3>1. TypeOK'
      BY <1>8 DEF LeaveBootLoop, TypeOK
    <3>2. OneClose' /\ Released'
      BY <1>8, Zenon DEF LeaveBootLoop, OneClose, Released, Live
    <3>3. RunJoined'
      BY <1>8, Zenon DEF LeaveBootLoop, TypeOK, RunJoined, Released, OneClose, RunPhases, Unadopted
    <3>4. Owner'
      BY <1>8, Zenon
      DEF LeaveBootLoop, TypeOK, Owner, Live, OneClose, RunJoined, RunPhases, Active,
          Unadopted, LineDisabled
    <3>5. LineDisabled'
      BY <1>8, Zenon DEF LeaveBootLoop, TypeOK, LineDisabled, Owner, OneClose, Active, Unadopted
    <3>. QED  BY <3>1, <3>2, <3>3, <3>4, <3>5, Zenon DEF Control
  <2>2. Counted'
    BY <1>8, CountKept, Zenon DEF LeaveBootLoop
  <2>. QED  BY <2>1, <2>2, Zenon DEF Control
<1>9. CASE Abandon
  <2>1. Control'
    <3>1. TypeOK'
      BY <1>9, NoneHeld, HoldersFinite DEF Abandon, TypeOK, Counted
    <3>2. OneClose' /\ Released'
      BY <1>9, Zenon DEF Abandon, OneClose, Released, Live
    <3>3. RunJoined'
      BY <1>9, Zenon DEF Abandon, TypeOK, RunJoined, Released, OneClose, RunPhases, Unadopted
    <3>4. Owner'
      BY <1>9, NoneHeld
      DEF Abandon, TypeOK, Owner, Live, OneClose, RunJoined, RunPhases, Active, Unadopted,
          LineDisabled
    <3>5. LineDisabled'
      BY <1>9, Zenon DEF Abandon, TypeOK, LineDisabled, Owner, OneClose, Active, Unadopted
    <3>. QED  BY <3>1, <3>2, <3>3, <3>4, <3>5, Zenon DEF Control
  <2>2. Counted'
    <3>1. Holders' = Holders
      BY <1>9, Zenon DEF Abandon, Holders
    <3>. QED  BY <1>9, <3>1, HoldersFinite DEF Abandon, Counted, TypeOK
  <2>. QED  BY <2>1, <2>2, Zenon DEF Control
<1>10. CASE Drop
  <2>1. Control'
    <3>1. TypeOK'
      <4>1. stopping' \in BOOLEAN
        BY <1>10, Zenon DEF Drop, TypeOK
      <4>. QED  BY <4>1, <1>10, NoneHeld DEF Drop, TypeOK
    <3>2. OneClose'
      BY <1>10, Zenon DEF Drop, OneClose
    <3>3. RunJoined'
      BY <1>10, Zenon DEF Drop, TypeOK, RunJoined, Released, OneClose, RunPhases, Unadopted
    <3>4. Owner'
      BY <1>10, NoneHeld, Zenon
      DEF Drop, TypeOK, Owner, Live, OneClose, RunJoined, RunPhases, Active, Unadopted,
          LineDisabled
    <3>5. LineDisabled'
      BY <1>10, Zenon DEF Drop, TypeOK, LineDisabled, Owner, OneClose, Active, Unadopted
    <3>6. Released'
      BY <1>10, Zenon
      DEF Drop, TypeOK, Released, Owner, Live, OneClose, RunJoined, RunPhases, Active,
          Unadopted
    <3>. QED  BY <3>1, <3>2, <3>3, <3>4, <3>5, <3>6, Zenon DEF Control
  <2>2. Counted'
    BY <1>10, CountKept, Zenon DEF Drop
  <2>. QED  BY <2>1, <2>2, Zenon DEF Control
<1>11. CASE FinishRun
  <2>1. Control'
    <3>1. TypeOK'
      BY <1>11 DEF FinishRun, TypeOK
    <3>2. OneClose'
      BY <1>11, Zenon
      DEF FinishRun, TypeOK, OneClose, Active, RunJoined, RunPhases, Unadopted, RunJoined,
          RunPhases, Unadopted
    <3>3. RunJoined'
      BY <1>11, Zenon DEF FinishRun, TypeOK, RunJoined, Released, OneClose, RunPhases, Unadopted
    <3>4. Owner'
      BY <1>11, Zenon
      DEF FinishRun, TypeOK, Owner, Live, OneClose, RunJoined, RunPhases, Active,
          Unadopted, LineDisabled
    <3>5. LineDisabled'
      BY <1>11, Zenon DEF FinishRun, TypeOK, LineDisabled, Owner, OneClose, Active, Unadopted
    <3>6. Released'
      BY <1>11, Zenon
      DEF FinishRun, TypeOK, Released, Owner, Live, OneClose, RunJoined, RunPhases, Active,
          Unadopted
    <3>. QED  BY <3>1, <3>2, <3>3, <3>4, <3>5, <3>6, Zenon DEF Control
  <2>2. Counted'
    BY <1>11, CountKept, Zenon DEF FinishRun
  <2>. QED  BY <2>1, <2>2, Zenon DEF Control
<1>12. CASE Return
  <2>1. Control'
    <3>1. TypeOK'
      BY <1>12 DEF Return, TypeOK
    <3>2. OneClose' /\ Released'
      BY <1>12, Zenon DEF Return, OneClose, Released, Live
    <3>3. RunJoined'
      BY <1>12, Zenon DEF Return, TypeOK, RunJoined, Released, OneClose, RunPhases, Unadopted
    <3>4. Owner'
      BY <1>12, Zenon
      DEF Return, TypeOK, Owner, Live, OneClose, RunJoined, RunPhases, Active, Unadopted,
          LineDisabled
    <3>5. LineDisabled'
      BY <1>12, Zenon DEF Return, TypeOK, LineDisabled, Owner, OneClose, Active, Unadopted
    <3>. QED  BY <3>1, <3>2, <3>3, <3>4, <3>5, Zenon DEF Control
  <2>2. Counted'
    BY <1>12, CountKept, Zenon DEF Return
  <2>. QED  BY <2>1, <2>2, Zenon DEF Control
<1>. QED  BY <1>1, <1>2, <1>3, <1>4, <1>5, <1>6, <1>7, <1>8, <1>9, <1>10, <1>11, <1>12, Zenon
DEF RunStep

(* Machine.Close.                                                          *)
LEMMA CloseKeeps ==
    ASSUME MachineInv, NEW t \in Threads, CallClose(t) \/ CloseStep(t)
    PROVE  MachineInv'
<1> USE DEF MachineInv, Threads, machineVars, runVars, closeVars, irqVars, kvmVars
<1>1. CASE CallClose(t)
  <2>1. Control'
    <3>1. TypeOK'
      BY <1>1 DEF CallClose, TypeOK
    <3>2. RunJoined'
      BY <1>1, Zenon DEF CallClose, RunJoined
    <3>3. OneClose'
      BY <1>1, Zenon DEF CallClose, TypeOK, OneClose, Active
    <3>4. Owner'
      BY <1>1, Zenon
      DEF CallClose, TypeOK, Owner, Live, OneClose, RunJoined, RunPhases, Active,
          Unadopted, LineDisabled
    <3>5. LineDisabled'
      BY <1>1, Zenon DEF CallClose, TypeOK, LineDisabled, Owner, OneClose, Active, Unadopted
    <3>6. Released'
      BY <1>1, Zenon
      DEF CallClose, TypeOK, Released, Owner, Live, OneClose, RunJoined, RunPhases, Active,
          Unadopted
    <3>. QED  BY <3>1, <3>2, <3>3, <3>4, <3>5, <3>6, Zenon DEF Control
  <2>2. Counted'
    BY <1>1, CountKept, Zenon DEF CallClose
  <2>. QED  BY <2>1, <2>2, Zenon DEF Control
<1>2. CASE BeginStop(t)
  <2>1. Control'
    <3>1. TypeOK'
      <4>1. taken' \in BOOLEAN /\ backend' \in BOOLEAN
        BY <1>2, Zenon DEF BeginStop, TypeOK
      <4>2. joins' \in BOOLEAN
        BY <1>2 DEF BeginStop
      <4>. QED  BY <4>1, <4>2, <1>2 DEF BeginStop, TypeOK
    <3>2. OneClose'
      BY <1>2, Zenon DEF BeginStop, TypeOK, OneClose, Active
    <3>3. RunJoined'
      BY <1>2, Zenon DEF BeginStop, TypeOK, RunJoined, Released, OneClose, RunPhases, Unadopted
    <3>4. Owner'
      BY <1>2, Zenon
      DEF BeginStop, TypeOK, Owner, Live, OneClose, RunJoined, RunPhases, Active,
          Unadopted, LineDisabled
    <3>5. LineDisabled'
      BY <1>2, Zenon DEF BeginStop, TypeOK, LineDisabled, Owner, OneClose, Active, Unadopted
    <3>6. Released'
      BY <1>2, Zenon
      DEF BeginStop, TypeOK, Released, Owner, Live, OneClose, RunJoined, RunPhases, Active,
          Unadopted
    <3>. QED  BY <3>1, <3>2, <3>3, <3>4, <3>5, <3>6, Zenon DEF Control
  <2>2. Counted'
    BY <1>2, CountKept, Zenon DEF BeginStop
  <2>. QED  BY <2>1, <2>2, Zenon DEF Control
<1>3. CASE JoinClose(t)
  <2>1. Control'
    <3>1. TypeOK'
      BY <1>3 DEF JoinClose, TypeOK
    <3>2. RunJoined'
      BY <1>3, Zenon DEF JoinClose, RunJoined
    <3>3. OneClose'
      BY <1>3, Zenon DEF JoinClose, TypeOK, OneClose, Active
    <3>4. Owner'
      BY <1>3, Zenon
      DEF JoinClose, TypeOK, Owner, Live, OneClose, RunJoined, RunPhases, Active,
          Unadopted, LineDisabled
    <3>5. LineDisabled'
      BY <1>3, Zenon DEF JoinClose, TypeOK, LineDisabled, Owner, OneClose, Active, Unadopted
    <3>6. Released'
      BY <1>3, Zenon
      DEF JoinClose, TypeOK, Released, Owner, Live, OneClose, RunJoined, RunPhases, Active,
          Unadopted
    <3>. QED  BY <3>1, <3>2, <3>3, <3>4, <3>5, <3>6, Zenon DEF Control
  <2>2. Counted'
    BY <1>3, CountKept, Zenon DEF JoinClose
  <2>. QED  BY <2>1, <2>2, Zenon DEF Control
<1>4. CASE DisableInterrupts(t)
  <2>1. Control'
    <3>1. TypeOK'
      BY <1>4 DEF DisableInterrupts, TypeOK
    <3>2. RunJoined'
      BY <1>4, Zenon DEF DisableInterrupts, RunJoined
    <3>3. OneClose'
      BY <1>4, Zenon DEF DisableInterrupts, TypeOK, OneClose, Active
    <3>4. Owner'
      BY <1>4, Zenon
      DEF DisableInterrupts, TypeOK, Owner, Live, OneClose, RunJoined, RunPhases, Active,
          Unadopted, LineDisabled
    <3>5. LineDisabled'
      BY <1>4, Zenon
      DEF DisableInterrupts, TypeOK, LineDisabled, Owner, OneClose, Active, Unadopted
    <3>6. Released'
      BY <1>4, Zenon
      DEF DisableInterrupts, TypeOK, Released, Owner, Live, OneClose, RunJoined, RunPhases,
          Active, Unadopted
    <3>. QED  BY <3>1, <3>2, <3>3, <3>4, <3>5, <3>6, Zenon DEF Control
  <2>2. Counted'
    BY <1>4, CountKept, Zenon DEF DisableInterrupts
  <2>. QED  BY <2>1, <2>2, Zenon DEF Control
<1>5. CASE StopVCPUs(t)
  <2>1. Control'
    <3>1. TypeOK'
      <4>1. stopping' \in BOOLEAN
        BY <1>5, Zenon DEF StopVCPUs, TypeOK
      <4>. QED  BY <4>1, <1>5 DEF StopVCPUs, TypeOK
    <3>2. RunJoined'
      BY <1>5, Zenon DEF StopVCPUs, RunJoined
    <3>3. OneClose'
      BY <1>5, Zenon DEF StopVCPUs, TypeOK, OneClose, Active
    <3>4. Owner'
      BY <1>5, Zenon
      DEF StopVCPUs, TypeOK, Owner, Live, OneClose, RunJoined, RunPhases, Active,
          Unadopted, LineDisabled
    <3>5. LineDisabled'
      BY <1>5, Zenon DEF StopVCPUs, TypeOK, LineDisabled, Owner, OneClose, Active, Unadopted
    <3>6. Released'
      BY <1>5, Zenon
      DEF StopVCPUs, TypeOK, Released, Owner, Live, OneClose, RunJoined, RunPhases, Active,
          Unadopted
    <3>. QED  BY <3>1, <3>2, <3>3, <3>4, <3>5, <3>6, Zenon DEF Control
  <2>2. Counted'
    BY <1>5, CountKept, Zenon DEF StopVCPUs
  <2>. QED  BY <2>1, <2>2, Zenon DEF Control
<1>6. CASE (\E v \in VCPUs : SetImmediateExit(t, v))
  <2>1. TypeOK'
    BY <1>6 DEF SetImmediateExit, Holding, HasTID, TypeOK
  <2>3. Control'
    BY <1>6, <2>1, ControlKept, Zenon DEF SetImmediateExit, Control
  <2>2. Counted'
    BY <1>6, CountKept, Zenon DEF SetImmediateExit
  <2>. QED  BY <2>2, <2>3, Zenon DEF Control
<1>7. CASE (\E v \in VCPUs : Kick(t, v))
  <2>1. TypeOK'
    BY <1>7 DEF Kick, Holding, HasTID, Holding, HasTID, TypeOK
  <2>3. Control'
    BY <1>7, <2>1, ControlKept, Zenon DEF Kick, Holding, HasTID, Control
  <2>2. Counted'
    <3>1. PICK v \in VCPUs : Kick(t, v)
      BY <1>7, Zenon
    <3>2. Holders' = Holders
      BY <3>1, Zenon DEF Kick, TypeOK, Holders, Holding, HasTID
    <3>3. Cardinality(Holders') = Cardinality(Holders)
      BY <3>2, Zenon
    <3>. QED  BY <3>1, <3>3, MachineShape, Zenon DEF Kick, Counted, TypeOK, MachineShape
  <2>. QED  BY <2>2, <2>3, Zenon DEF Control
<1>8. CASE ReleaseNative(t)
  <2>1. Control'
    <3>1. TypeOK'
      BY <1>8, NoneHeld DEF ReleaseNative, TypeOK
    <3>2. RunJoined'
      BY <1>8, Zenon DEF ReleaseNative, RunJoined
    <3>3. OneClose'
      BY <1>8, Zenon DEF ReleaseNative, TypeOK, OneClose, Active
    <3>4. Owner'
      BY <1>8, Zenon
      DEF ReleaseNative, TypeOK, Owner, Live, OneClose, RunJoined, RunPhases, Active,
          Unadopted, LineDisabled
    <3>5. LineDisabled'
      BY <1>8, Zenon DEF ReleaseNative, TypeOK, LineDisabled, Owner, OneClose, Active, Unadopted
    <3>6. Released'
      BY <1>8, Zenon
      DEF ReleaseNative, TypeOK, Released, Owner, Live, OneClose, RunJoined, RunPhases,
          Active, Unadopted
    <3>. QED  BY <3>1, <3>2, <3>3, <3>4, <3>5, <3>6, Zenon DEF Control
  <2>2. Counted'
    BY <1>8, CountKept, Zenon DEF ReleaseNative
  <2>. QED  BY <2>1, <2>2, Zenon DEF Control
<1>9. CASE ReleasePrepared(t)
  <2>1. Control'
    <3>1. TypeOK'
      BY <1>9, MachineShape DEF ReleasePrepared, TypeOK
    <3>2. RunJoined'
      BY <1>9, Zenon DEF ReleasePrepared, RunJoined
    <3>3. OneClose'
      BY <1>9, Zenon DEF ReleasePrepared, TypeOK, OneClose, Active
    <3>4. Owner'
      BY <1>9, Zenon
      DEF ReleasePrepared, TypeOK, Owner, Live, OneClose, RunJoined, RunPhases, Active,
          Unadopted, LineDisabled
    <3>5. LineDisabled'
      BY <1>9, Zenon DEF ReleasePrepared, TypeOK, LineDisabled, Owner, OneClose, Active, Unadopted
    <3>6. Released'
      BY <1>9, Zenon
      DEF ReleasePrepared, TypeOK, Released, Owner, Live, OneClose, RunJoined, RunPhases,
          Active, Unadopted
    <3>. QED  BY <3>1, <3>2, <3>3, <3>4, <3>5, <3>6, Zenon DEF Control
  <2>2. Counted'
    BY <1>9, CountKept, Zenon DEF ReleasePrepared
  <2>. QED  BY <2>1, <2>2, Zenon DEF Control
<1>10. CASE FinishClose(t)
  <2>1. Control'
    <3>1. TypeOK'
      BY <1>10 DEF FinishClose, TypeOK
    <3>2. OneClose'
      BY <1>10, Zenon DEF FinishClose, TypeOK, OneClose, Active
    <3>3. RunJoined'
      BY <1>10, Zenon DEF FinishClose, TypeOK, RunJoined, Released, OneClose, RunPhases, Unadopted
    <3>4. Owner'
      BY <1>10, Zenon
      DEF FinishClose, TypeOK, Owner, Live, OneClose, RunJoined, RunPhases, Active,
          Unadopted, LineDisabled
    <3>5. LineDisabled'
      BY <1>10, Zenon DEF FinishClose, TypeOK, LineDisabled, Owner, OneClose, Active, Unadopted
    <3>6. Released'
      BY <1>10, Zenon
      DEF FinishClose, TypeOK, Released, Owner, Live, OneClose, RunJoined, RunPhases,
          Active, Unadopted
    <3>. QED  BY <3>1, <3>2, <3>3, <3>4, <3>5, <3>6, Zenon DEF Control
  <2>2. Counted'
    BY <1>10, CountKept, Zenon DEF FinishClose
  <2>. QED  BY <2>1, <2>2, Zenon DEF Control
<1>. QED  BY <1>1, <1>2, <1>3, <1>4, <1>5, <1>6, <1>7, <1>8, <1>9, <1>10, Zenon DEF CloseStep

(* The vCPU threads.                                                       *)
LEMMA LoopsKeep ==
    ASSUME MachineInv, NEW v \in VCPUs, VCPUStep(v) \/ GuestExit(v) \/ GuestHalt(v)
    PROVE  MachineInv'
<1> USE DEF MachineInv, Threads, machineVars, runVars, closeVars, irqVars, kvmVars
<1>1. CASE Claim(v)
  <2>1. TypeOK'
    BY <1>1 DEF Claim, Holding, HasTID, TypeOK
  <2>3. Control'
    BY <1>1, <2>1, ControlKept, Zenon DEF Claim, Holding, HasTID, Control
  <2>2. Counted'
    <3>1. CASE unstarted = 0
      <4>1. Holders' = Holders
        BY <1>1, <3>1, Zenon DEF Claim, TypeOK, Holders, Holding, HasTID
      <4>2. Cardinality(Holders') = Cardinality(Holders)
        BY <4>1, Zenon
      <4>. QED  BY <1>1, <3>1, <4>2, MachineShape, Zenon DEF Claim, Counted, TypeOK, MachineShape
    <3>2. CASE unstarted # 0
      <4>1. Cardinality(Holders') = Cardinality(Holders) + 1
        BY <1>1, <3>2, HolderAdded, Zenon DEF Claim
      <4>. QED  BY <1>1, <3>2, <4>1, HoldersFinite, MachineShape
      DEF Claim, Counted, TypeOK, MachineShape
    <3>. QED  BY <3>1, <3>2, Zenon
  <2>. QED  BY <2>2, <2>3, Zenon DEF Control
<1>2. CASE PublishTID(v)
  <2>1. TypeOK'
    BY <1>2 DEF PublishTID, Loop, Holding, HasTID, TypeOK
  <2>3. Control'
    BY <1>2, <2>1, ControlKept, Zenon DEF PublishTID, Loop, Control
  <2>2. Counted'
    <3>1. Holders' = Holders
      BY <1>2, Zenon DEF PublishTID, Loop, TypeOK, Holders, Holding, HasTID
    <3>2. Cardinality(Holders') = Cardinality(Holders)
      BY <3>1, Zenon
    <3>. QED  BY <1>2, <3>2, MachineShape, Zenon
    DEF PublishTID, Loop, Counted, TypeOK, MachineShape
  <2>. QED  BY <2>2, <2>3, Zenon DEF Control
<1>3. CASE CheckStop(v)
  <2>1. TypeOK'
    BY <1>3 DEF CheckStop, Loop, Holding, HasTID, TypeOK
  <2>3. Control'
    BY <1>3, <2>1, ControlKept, Zenon DEF CheckStop, Loop, Control
  <2>2. Counted'
    <3>1. Holders' = Holders
      BY <1>3, Zenon DEF CheckStop, Loop, TypeOK, Holders, Holding, HasTID
    <3>2. Cardinality(Holders') = Cardinality(Holders)
      BY <3>1, Zenon
    <3>. QED  BY <1>3, <3>2, MachineShape, Zenon DEF CheckStop, Loop, Counted, TypeOK, MachineShape
  <2>. QED  BY <2>2, <2>3, Zenon DEF Control
<1>4. CASE EnterGuest(v)
  <2>1. TypeOK'
    BY <1>4 DEF EnterGuest, Loop, Holding, HasTID, TypeOK
  <2>3. Control'
    BY <1>4, <2>1, ControlKept, Zenon DEF EnterGuest, Loop, Control
  <2>2. Counted'
    <3>1. Holders' = Holders
      BY <1>4, Zenon DEF EnterGuest, Loop, TypeOK, Holders, Holding, HasTID
    <3>2. Cardinality(Holders') = Cardinality(Holders)
      BY <3>1, Zenon
    <3>. QED  BY <1>4, <3>2, MachineShape, Zenon
    DEF EnterGuest, Loop, Counted, TypeOK, MachineShape
  <2>. QED  BY <2>2, <2>3, Zenon DEF Control
<1>5. CASE GuestExit(v)
  <2>1. TypeOK'
    BY <1>5 DEF GuestExit, Loop, Holding, HasTID, TypeOK
  <2>3. Control'
    BY <1>5, <2>1, ControlKept, Zenon DEF GuestExit, Loop, Control
  <2>2. Counted'
    <3>1. Holders' = Holders
      BY <1>5, Zenon DEF GuestExit, Loop, TypeOK, Holders, Holding, HasTID
    <3>2. Cardinality(Holders') = Cardinality(Holders)
      BY <3>1, Zenon
    <3>. QED  BY <1>5, <3>2, MachineShape, Zenon DEF GuestExit, Loop, Counted, TypeOK, MachineShape
  <2>. QED  BY <2>2, <2>3, Zenon DEF Control
<1>6. CASE HandleExit(v)
  <2>1. TypeOK'
    BY <1>6 DEF HandleExit, Loop, Holding, HasTID, TypeOK
  <2>3. Control'
    BY <1>6, <2>1, ControlKept, Zenon DEF HandleExit, Loop, Control
  <2>2. Counted'
    <3>1. Holders' = Holders
      BY <1>6, Zenon DEF HandleExit, Loop, TypeOK, Holders, Holding, HasTID
    <3>2. Cardinality(Holders') = Cardinality(Holders)
      BY <3>1, Zenon
    <3>. QED  BY <1>6, <3>2, MachineShape, Zenon
    DEF HandleExit, Loop, Counted, TypeOK, MachineShape
  <2>. QED  BY <2>2, <2>3, Zenon DEF Control
<1>7. CASE GuestHalt(v)
  <2>1. TypeOK'
    BY <1>7 DEF GuestHalt, Loop, Holding, HasTID, TypeOK
  <2>3. Control'
    BY <1>7, <2>1, ControlKept, Zenon DEF GuestHalt, Loop, Control
  <2>2. Counted'
    <3>1. Holders' = Holders
      BY <1>7, Zenon DEF GuestHalt, Loop, TypeOK, Holders, Holding, HasTID
    <3>2. Cardinality(Holders') = Cardinality(Holders)
      BY <3>1, Zenon
    <3>. QED  BY <1>7, <3>2, MachineShape, Zenon DEF GuestHalt, Loop, Counted, TypeOK, MachineShape
  <2>. QED  BY <2>2, <2>3, Zenon DEF Control
<1>8. CASE Done(v)
  <2>1. Control'
    <3>1. TypeOK'
      BY <1>8, HolderCounted DEF Done, Holding, HasTID, TypeOK, Holding
    <3>2. OneClose' /\ RunJoined' /\ LineDisabled' /\ Released'
      BY <1>8, Zenon DEF Done, OneClose, RunJoined, LineDisabled, Released, Live
    <3>3. Owner'
      BY <1>8, HolderCounted, Zenon
      DEF Done, Holding, HasTID, TypeOK, Owner, Live, OneClose, RunJoined, RunPhases,
          Active, Unadopted, LineDisabled
    <3>. QED  BY <3>1, <3>2, <3>3, Zenon DEF Control
  <2>2. Counted'
    <3>1. Cardinality(Holders') = Cardinality(Holders) - 1
      BY <1>8, HolderRemoved, Zenon DEF Done
    <3>. QED  BY <1>8, <3>1, HoldersFinite, MachineShape
    DEF Done, Counted, TypeOK, MachineShape
  <2>. QED  BY <2>1, <2>2, Zenon DEF Control
<1>. QED  BY <1>1, <1>2, <1>3, <1>4, <1>5, <1>6, <1>7, <1>8, Zenon DEF VCPUStep

(* Device threads and injected streams.                                    *)
LEMMA DevicesKeep ==
    ASSUME MachineInv, RaiseIRQ \/ DeliverIRQ \/ InjectVsockConn
    PROVE  MachineInv'
<1> USE DEF MachineInv, Threads, machineVars, runVars, closeVars, irqVars, kvmVars
<1>1. CASE RaiseIRQ
  <2>1. Control'
    <3>1. TypeOK'
      <4>1. irq' \in BOOLEAN
        BY <1>1, Zenon DEF RaiseIRQ, TypeOK
      <4>. QED  BY <4>1, <1>1 DEF RaiseIRQ, TypeOK
    <3>2. OneClose' /\ RunJoined' /\ Owner' /\ Released'
      BY <1>1, Zenon DEF RaiseIRQ, OneClose, RunJoined, Owner, Live, Released
    <3>3. LineDisabled'
      BY <1>1, Zenon DEF RaiseIRQ, TypeOK, LineDisabled, Owner, OneClose, Active, Unadopted
    <3>. QED  BY <3>1, <3>2, <3>3, Zenon DEF Control
  <2>2. Counted'
    BY <1>1, CountKept, Zenon DEF RaiseIRQ
  <2>. QED  BY <2>1, <2>2, Zenon DEF Control
<1>2. CASE DeliverIRQ
  <2>1. Control'
    <3>1. TypeOK'
      <4>1. irq' \in BOOLEAN
        BY <1>2, Zenon DEF DeliverIRQ, TypeOK
      <4>. QED  BY <4>1, <1>2 DEF DeliverIRQ, TypeOK
    <3>2. OneClose' /\ RunJoined' /\ Owner' /\ Released'
      BY <1>2, Zenon DEF DeliverIRQ, OneClose, RunJoined, Owner, Live, Released
    <3>3. LineDisabled'
      BY <1>2, Zenon DEF DeliverIRQ, TypeOK, LineDisabled, Owner, OneClose, Active, Unadopted
    <3>. QED  BY <3>1, <3>2, <3>3, Zenon DEF Control
  <2>2. Counted'
    BY <1>2, CountKept, Zenon DEF DeliverIRQ
  <2>. QED  BY <2>1, <2>2, Zenon DEF Control
<1>3. CASE InjectVsockConn
  <2>1. Control'
    <3>1. TypeOK'
      BY <1>3, MachineShape DEF InjectVsockConn, TypeOK
    <3>2. OneClose' /\ RunJoined' /\ Owner' /\ LineDisabled'
      BY <1>3, Zenon DEF InjectVsockConn, OneClose, RunJoined, Owner, Live, LineDisabled
    <3>3. Released'
      BY <1>3, Zenon
      DEF InjectVsockConn, TypeOK, Released, Owner, Live, OneClose, RunJoined, RunPhases,
          Active, Unadopted
    <3>. QED  BY <3>1, <3>2, <3>3, Zenon DEF Control
  <2>2. Counted'
    BY <1>3, CountKept, Zenon DEF InjectVsockConn
  <2>. QED  BY <2>1, <2>2, Zenon DEF Control
<1>. QED  BY <1>1, <1>2, <1>3, Zenon DEF MachineInv

--------------------------------------------------------------------------------

(* The ownership invariant holds of every behaviour of a machine.          *)
THEOREM MachineInvariant == Spec => []MachineInv
<1>1. Prepare => MachineInv
  <2>. SUFFICES ASSUME Prepare PROVE MachineInv
    BY Zenon
  <2>1. TypeOK
    <3>1. \A b \in {backend, reserved, owned, taken, joins, irq, stopping} : b \in BOOLEAN
      BY Zenon DEF Prepare
    <3>2. /\ close \in [Threads -> {"idle", "called", "masking", "stopping", "kicking",
                                   "joining", "ending", "returned"}]
          /\ vcpu \in [VCPUs -> {"none", "spawned", "gone"} \cup Holding]
      BY Zenon DEF Prepare
    <3>3. conns \in 0..MaxConns
      BY MachineShape DEF Prepare, MachineShape
    <3>. QED  BY <3>1, <3>2, <3>3, Zenon DEF Prepare, TypeOK
  <2>2. OneClose /\ RunJoined /\ Owner /\ LineDisabled /\ Released
    BY Zenon DEF Prepare, OneClose, RunJoined, Owner, LineDisabled, Released, Live, Active,
           Unadopted, RunPhases, Threads
  <2>3. Counted
    <3>1. Holders = {}
      BY Zenon DEF Prepare, Holders, Holding, HasTID
    <3>. QED  BY <3>1, FS_EmptySet, MachineShape DEF Prepare, Counted, MachineShape
  <2>. QED  BY <2>1, <2>2, <2>3, Zenon DEF MachineInv
<1>2. MachineInv /\ [Next]_vars => MachineInv'
  <2>. SUFFICES ASSUME MachineInv, [Next]_vars PROVE MachineInv'
    BY Zenon
  <2>1. CASE UNCHANGED vars
    <3>1. TypeOK'
      <4>1. UNCHANGED <<machineVars, runVars, closeVars, irqVars, kvmVars>>
        BY <2>1, Zenon DEF vars
      <4>. QED  BY <4>1 DEF machineVars, runVars, closeVars, irqVars, kvmVars, MachineInv, TypeOK
    <3>2. Control'
      BY <2>1, <3>1, ControlKept, Zenon DEF vars, kvmVars, Control, MachineInv
    <3>3. Counted'
      BY <2>1, CountKept, Zenon DEF vars, runVars, kvmVars, MachineInv
    <3>. QED  BY <3>2, <3>3, Zenon DEF Control, MachineInv
  <2>2. CASE Next
    BY <2>2, RunKeeps, CloseKeeps, LoopsKeep, DevicesKeep, Zenon DEF Next
  <2>. QED  BY <2>1, <2>2, Zenon
<1>. QED  BY <1>1, <1>2, PTL DEF Spec

(* Nothing is released under a vCPU thread, an interrupt delivery or Run,  *)
(* for any number of processors and of concurrent calls of Machine.Close.  *)
THEOREM NothingReleasedInUse == Spec => []NoUseAfterRelease
<1>1. MachineInv => NoUseAfterRelease
  <2>. SUFFICES ASSUME MachineInv PROVE NoUseAfterRelease
    BY Zenon
  <2>1. runWG = 0 => Holders = {}
    BY NoneHeld, Zenon DEF MachineInv
  <2>2. Holders # {} => native = "open" /\ prepared = "live"
    BY <2>1, Zenon DEF MachineInv, TypeOK, Owner, Released, Live
  <2>3. irq => native = "open"
    BY Zenon DEF MachineInv, LineDisabled
  <2>4. run \in {"building", "adopting", "routing", "spawning", "booting"} => prepared = "live"
    BY Zenon DEF MachineInv, TypeOK, Released, RunJoined, RunPhases, Unadopted
  <2>. QED  BY <2>2, <2>3, <2>4, Zenon DEF NoUseAfterRelease
<1>. QED  BY <1>1, MachineInvariant, PTL

(* A closed machine has released everything: the backend whichever side    *)
(* owned it, its descriptors, its devices, its streams and its threads     *)
(* (machineLifecycle, machineBackendOwner, kvmMachineResources).           *)
THEOREM NothingLeaked == Spec => []ClosedMeansReleased
<1>1. MachineInv => ClosedMeansReleased
  <2>. SUFFICES ASSUME MachineInv, phase = "closed" PROVE ClosedMeansReleased
    BY Zenon DEF ClosedMeansReleased
  <2>1. once = "done"
    BY Zenon DEF MachineInv, OneClose
  <2>2. prepared = "released" /\ ~Live /\ kvmFD = "closed" /\ conns = 0 /\ runDone # "open"
    BY <2>1, Zenon DEF MachineInv, Released
  <2>3. runWG = 0
    BY <2>2, Zenon DEF MachineInv, Owner, Live
  <2>4. Holders = {}
    BY <2>3, NoneHeld, Zenon DEF MachineInv
  <2>5. ~backend /\ ~irq
    BY <2>1, Zenon DEF MachineInv, Owner, LineDisabled
  <2>. QED  BY <2>2, <2>4, <2>5, Zenon DEF ClosedMeansReleased, Live
<1>. QED  BY <1>1, MachineInvariant, PTL

================================================================================
