-------------------------- MODULE SandboxDaemonProofs --------------------------
(***************************************************************************)
(* What the configuration store keeps, for any settings, updates and save  *)
(* faults; and of the daemon, for any number of control connections and    *)
(* any load: it uses its store as ConfigStore specifies, its teardown      *)
(* releases nothing that is still borrowed, and its SSH gateway follows    *)
(* the saved settings.                                                     *)
(***************************************************************************)
EXTENDS SandboxDaemon, TLAPS

--------------------------------------------------------------------------------
(* The store.  The inductive invariant joins the agreement of memory and   *)
(* file to the revision an open transaction relies on: a rollback can only *)
(* be shown to raise the revision because the transaction's own commit is  *)
(* still the latest one.                                                   *)

StoreInv ==
    /\ StoreTypeOK
    /\ MemoryIsFile
    /\ TransactionOwnsRevision
    /\ ManifestHonest
    /\ tx.phase = "committed" => ~mem.manifest

(* A write leaves memory and file equal, to the old or to the new          *)
(* configuration (writeLocked and the backup its callers keep).            *)
LEMMA WriteAtomic ==
    ASSUME NEW outcome, NEW new, MemoryIsFile, Write(outcome, new)
    PROVE  /\ MemoryIsFile'
           /\ mem' = IF outcome = "failed" THEN mem ELSE new
BY Zenon DEF Write, FileAfter, MemoryIsFile

(* The configuration a commit writes is well formed.                       *)
LEMMA CommitTyped ==
    ASSUME mem \in Config, tx \in Transaction, mem.revision # MaxRevision, ConfigShape
    PROVE  [mem EXCEPT !.settings = tx.desired, !.revision = @ + 1, !.manifest = FALSE] \in Config
<1>1. mem.revision + 1 \in 0..MaxRevision
  BY DEF Config, ConfigShape
<1>2. tx.desired \in Settings
  BY Zenon DEF Transaction, ConfigShape
<1>. QED  BY <1>1, <1>2, Zenon DEF Config

(* So is the one a rollback writes.                                        *)
LEMMA RollbackTyped ==
    ASSUME mem \in Config, tx \in Transaction, mem.revision # MaxRevision, ConfigShape
    PROVE  [mem EXCEPT !.settings = tx.before.settings, !.revision = @ + 1] \in Config
<1>1. mem.revision + 1 \in 0..MaxRevision
  BY DEF Config, ConfigShape
<1>2. tx.before.settings \in Settings
  BY Zenon DEF Transaction, Config
<1>. QED  BY <1>1, <1>2, Zenon DEF Config

(* An open or finished transaction is a record of its type.                *)
LEMMA OpenTyped ==
    ASSUME StoreTypeOK, tx.phase \in {"open", "committed"}
    PROVE  tx \in Transaction
BY DEF StoreTypeOK, Closed

(* Moving a transaction on keeps its type.                                 *)
LEMMA MovedTyped ==
    ASSUME tx \in Transaction, NEW phase \in Phases, NEW revision \in 0..MaxRevision
    PROVE  [tx EXCEPT !.phase = phase, !.revision = revision] \in Transaction
BY Zenon DEF Transaction

(* So does one that only moves on to another phase.                        *)
LEMMA PhaseTyped ==
    ASSUME tx \in Transaction, NEW phase \in Phases
    PROVE  LET moved == [tx EXCEPT !.phase = phase]
           IN  moved \in Transaction /\ moved.phase = phase
BY Zenon DEF Transaction

(* Every operation of the store preserves the invariant, starting from a   *)
(* sandbox as a manifest created it.                                       *)
THEOREM StoreInvariant == StoreSpec => []StoreInv
<1>1. Fresh => StoreInv
  BY ConfigShape DEF Fresh, StoreInv, StoreTypeOK, MemoryIsFile, TransactionOwnsRevision,
     ManifestHonest, Config, Closed, ConfigShape
<1>2. ASSUME StoreInv, [StoreNext]_storeVars
      PROVE  StoreInv'
  <2> USE <1>2 DEF StoreInv
  <2>1. ASSUME NEW outcome \in SaveOutcomes, NEW other \in Others, Mutate(other, outcome)
        PROVE  StoreInv'
    <3>1. [mem EXCEPT !.other = other, !.manifest = @ /\ other = mem.other] \in Config
      BY <2>1, Zenon DEF StoreTypeOK, Config
    <3>2. MemoryIsFile' /\ mem' \in Config /\ disk' \in Config /\ UNCHANGED tx
      BY <2>1, <3>1, WriteAtomic, Zenon DEF Mutate, MemoryIsFile, StoreTypeOK
    <3>3. mem' = mem \/ mem' = [mem EXCEPT !.other = other, !.manifest = @ /\ other = mem.other]
      BY <2>1, WriteAtomic, Zenon DEF Mutate
    <3>4. /\ mem'.revision = mem.revision /\ mem'.settings = mem.settings
          /\ mem'.manifest => mem.manifest /\ mem'.other = mem.other
      BY <3>3, Zenon DEF StoreTypeOK, Config
    <3>. QED  BY <3>2, <3>4, Zenon DEF StoreTypeOK, TransactionOwnsRevision, ManifestHonest
  <2>2. ASSUME NEW update \in Updates, BeginConfiguration(update)
        PROVE  StoreInv'
    <3>1. mem.settings \in Settings /\ mem.revision \in 0..MaxRevision
      BY Zenon DEF StoreTypeOK, Config
    <3>2. tx' \in Transaction \cup {Closed}
      BY <2>2, <3>1, Zenon DEF BeginConfiguration, Transaction, Phases, StoreTypeOK
    <3>3. /\ tx'.phase # "committed"
          /\ tx'.phase = "open" => tx'.revision = mem.revision
      BY <2>2, Zenon DEF BeginConfiguration, Closed
    <3>. QED
      BY <2>2, <3>2, <3>3, Zenon DEF BeginConfiguration, StoreTypeOK, TransactionOwnsRevision, ManifestHonest, MemoryIsFile
  <2>3. ASSUME NEW outcome \in SaveOutcomes, Commit(outcome)
        PROVE  StoreInv'
    <3> DEFINE new == [mem EXCEPT !.settings = tx.desired, !.revision = @ + 1, !.manifest = FALSE]
    <3>1. tx \in Transaction /\ tx.phase = "open" /\ mem.revision = tx.revision
      BY <2>3, OpenTyped, Zenon DEF Commit, TransactionOwnsRevision
    <3>2. CASE /\ UNCHANGED <<mem, disk>>
               /\ tx' = [tx EXCEPT !.phase = "unchanged"] \/ tx' = [tx EXCEPT !.phase = "refused"]
      <4>1. tx' \in Transaction /\ tx'.phase \notin {"open", "committed"}
        BY <3>1, <3>2, PhaseTyped, Zenon DEF Phases
      <4>. QED  BY <3>2, <4>1, Zenon DEF StoreTypeOK, TransactionOwnsRevision, ManifestHonest, MemoryIsFile
    <3>3. CASE /\ Write(outcome, new) /\ mem.revision # MaxRevision /\ outcome # "failed"
               /\ tx' = [tx EXCEPT !.phase = "committed", !.revision = @ + 1]
      <4>1. new \in Config
        BY <3>1, <3>3, CommitTyped, ConfigShape, Zenon DEF StoreTypeOK
      <4>2. mem' = new /\ MemoryIsFile'
        BY <3>3, WriteAtomic, Zenon
      <4>3. new.revision = mem.revision + 1 /\ new.manifest = FALSE
        BY Zenon DEF StoreTypeOK, Config
      <4>4. mem.revision + 1 \in 0..MaxRevision
        BY <3>3, ConfigShape DEF StoreTypeOK, Config, ConfigShape
      <4>5. tx' = [tx EXCEPT !.phase = "committed", !.revision = mem.revision + 1]
        BY <3>1, <3>3, Zenon
      <4>6. tx' \in Transaction /\ tx'.revision = mem.revision + 1
        BY <3>1, <4>4, <4>5, MovedTyped, Zenon DEF Phases, Transaction
      <4>. QED
        BY <4>1, <4>2, <4>3, <4>6, Zenon DEF StoreTypeOK, TransactionOwnsRevision, ManifestHonest, MemoryIsFile
    <3>4. CASE Write(outcome, new) /\ outcome = "failed" /\ tx' = [tx EXCEPT !.phase = "refused"]
      <4>1. UNCHANGED <<mem, disk>>
        BY <3>4, Zenon DEF Write, FileAfter
      <4>2. tx' \in Transaction /\ tx'.phase = "refused"
        BY <3>1, <3>4, PhaseTyped, Zenon DEF Phases
      <4>. QED  BY <4>1, <4>2, Zenon DEF StoreTypeOK, TransactionOwnsRevision, ManifestHonest, MemoryIsFile
    <3>. QED  BY <2>3, <3>1, <3>2, <3>3, <3>4, Zenon DEF Commit
  <2>4. ASSUME NEW outcome \in SaveOutcomes, Rollback(outcome)
        PROVE  StoreInv'
    <3> DEFINE new == [mem EXCEPT !.settings = tx.before.settings, !.revision = @ + 1]
    <3>1. tx \in Transaction /\ tx.phase = "committed" /\ mem.revision = tx.revision
      BY <2>4, OpenTyped, Zenon DEF Rollback, TransactionOwnsRevision
    <3>2. CASE UNCHANGED <<mem, disk, tx>>
      BY <3>2, Zenon DEF StoreTypeOK, TransactionOwnsRevision, ManifestHonest, MemoryIsFile
    <3>3. CASE /\ Write(outcome, new) /\ mem.revision # MaxRevision /\ outcome # "failed"
               /\ tx' = [tx EXCEPT !.phase = "rolledBack"]
      <4>1. new \in Config
        BY <3>1, <3>3, RollbackTyped, ConfigShape, Zenon DEF StoreTypeOK
      <4>2. mem' = new /\ MemoryIsFile'
        BY <3>3, WriteAtomic, Zenon
      <4>3. new.manifest = mem.manifest
        BY Zenon DEF StoreTypeOK, Config
      <4>4. tx' \in Transaction /\ tx'.phase = "rolledBack"
        BY <3>1, <3>3, PhaseTyped, Zenon DEF Phases
      <4>. QED
        BY <3>1, <4>1, <4>2, <4>3, <4>4, Zenon DEF StoreTypeOK, TransactionOwnsRevision, ManifestHonest, MemoryIsFile
    <3>4. CASE Write(outcome, new) /\ outcome = "failed" /\ tx' = tx
      <4>1. UNCHANGED <<mem, disk>>
        BY <3>4, Zenon DEF Write, FileAfter
      <4>. QED  BY <3>4, <4>1, Zenon DEF StoreTypeOK, TransactionOwnsRevision, ManifestHonest, MemoryIsFile
    <3>. QED  BY <2>4, <3>1, <3>2, <3>3, <3>4, Zenon DEF Rollback
  <2>5. CASE CloseTransaction
    BY <2>5, Zenon DEF CloseTransaction, Closed, StoreTypeOK, TransactionOwnsRevision, ManifestHonest, MemoryIsFile
  <2>6. CASE LoadConfigStore
    BY <2>6, Zenon DEF LoadConfigStore, Closed, StoreTypeOK, TransactionOwnsRevision, ManifestHonest, MemoryIsFile
  <2>7. CASE UNCHANGED storeVars
    BY <2>7, Zenon DEF storeVars, StoreTypeOK, TransactionOwnsRevision, ManifestHonest, MemoryIsFile
  <2>. QED  BY <2>1, <2>2, <2>3, <2>4, <2>5, <2>6, <2>7, Zenon DEF StoreNext
<1>. QED  BY <1>1, <1>2, PTL DEF StoreSpec

(* The conflict answer of Commit and Rollback is never given: while a      *)
(* transaction is open its revision is the store's.                        *)
THEOREM NoConflict == StoreSpec => []TransactionOwnsRevision
<1>1. StoreInv => TransactionOwnsRevision
  BY Zenon DEF StoreInv
<1>. QED  BY <1>1, StoreInvariant, PTL

(* Provenance is claimed only for what a manifest put in place, and memory *)
(* never differs from the file.                                            *)
THEOREM ProvenanceHonest == StoreSpec => [](ManifestHonest /\ MemoryIsFile)
<1>1. StoreInv => ManifestHonest /\ MemoryIsFile
  BY Zenon DEF StoreInv
<1>. QED  BY <1>1, StoreInvariant, PTL

(* No change of settings without a new revision, and no transaction that   *)
(* overwrites what others changed (Commit, Rollback).                      *)
THEOREM Isolation == StoreSpec => TransactionsIsolated
<1> DEFINE Kept == /\ mem'.revision >= mem.revision
                   /\ mem'.settings # mem.settings => mem'.revision > mem.revision
                   /\ tx' # tx => mem'.other = mem.other /\ disk'.other = disk.other
<1>1. ASSUME StoreInv, [StoreNext]_storeVars
      PROVE  [Kept]_storeVars
  <2> USE <1>1 DEF StoreInv
  <2>1. mem.revision \in 0..MaxRevision
    BY Zenon DEF StoreTypeOK, Config
  <2>2. ASSUME NEW outcome \in SaveOutcomes, NEW other \in Others, Mutate(other, outcome)
        PROVE  Kept
    <3>1. mem' = mem \/ mem' = [mem EXCEPT !.other = other, !.manifest = @ /\ other = mem.other]
      BY <2>2, WriteAtomic, Zenon DEF Mutate
    <3>2. mem'.revision = mem.revision /\ mem'.settings = mem.settings
      BY <3>1, Zenon DEF StoreTypeOK, Config
    <3>. QED  BY <2>1, <2>2, <3>2, ConfigShape DEF Mutate, ConfigShape
  <2>3. ASSUME NEW outcome \in SaveOutcomes, Commit(outcome)
        PROVE  Kept
    <3> DEFINE new == [mem EXCEPT !.settings = tx.desired, !.revision = @ + 1, !.manifest = FALSE]
    <3>1. new.revision = mem.revision + 1 /\ new.other = mem.other
      BY Zenon DEF StoreTypeOK, Config
    <3>2. mem' = mem \/ mem' = new
      BY <2>3, WriteAtomic, Zenon DEF Commit
    <3>3. MemoryIsFile'
      BY <2>3, WriteAtomic, Zenon DEF Commit, MemoryIsFile
    <3>4. mem'.other = mem.other /\ disk'.other = disk.other
      BY <3>1, <3>2, <3>3, Zenon DEF MemoryIsFile
    <3>5. mem' = mem \/ mem'.revision = mem.revision + 1
      BY <3>1, <3>2, Zenon
    <3>. QED  BY <2>1, <3>4, <3>5, ConfigShape DEF ConfigShape
  <2>4. ASSUME NEW outcome \in SaveOutcomes, Rollback(outcome)
        PROVE  Kept
    <3> DEFINE new == [mem EXCEPT !.settings = tx.before.settings, !.revision = @ + 1]
    <3>1. new.revision = mem.revision + 1 /\ new.other = mem.other
      BY Zenon DEF StoreTypeOK, Config
    <3>2. mem' = mem \/ mem' = new
      BY <2>4, WriteAtomic, Zenon DEF Rollback
    <3>3. MemoryIsFile'
      BY <2>4, WriteAtomic, Zenon DEF Rollback, MemoryIsFile
    <3>4. mem'.other = mem.other /\ disk'.other = disk.other
      BY <3>1, <3>2, <3>3, Zenon DEF MemoryIsFile
    <3>5. mem' = mem \/ mem'.revision = mem.revision + 1
      BY <3>1, <3>2, Zenon
    <3>. QED  BY <2>1, <3>4, <3>5, ConfigShape DEF ConfigShape
  <2>5. ASSUME NEW update \in Updates, BeginConfiguration(update)
        PROVE  Kept
    BY <2>1, <2>5, ConfigShape DEF BeginConfiguration, ConfigShape
  <2>6. CASE CloseTransaction
    BY <2>1, <2>6, ConfigShape DEF CloseTransaction, ConfigShape
  <2>7. CASE LoadConfigStore
    BY <2>1, <2>7, ConfigShape DEF LoadConfigStore, MemoryIsFile, ConfigShape
  <2>. QED  BY <2>2, <2>3, <2>4, <2>5, <2>6, <2>7, Zenon DEF StoreNext
<1>. QED  BY <1>1, StoreInvariant, PTL DEF StoreSpec, TransactionsIsolated

--------------------------------------------------------------------------------
(* The daemon and its store.                                               *)

(* A step of the daemon is a step of the store or leaves it alone.         *)
LEMMA StepUsesStore == ASSUME [Next]_vars PROVE [StoreNext]_storeVars
<1>1. CASE MainStep
  <2>1. CASE load
    BY <2>1, Zenon DEF load, StoreNext
  <2>2. CASE MainStep /\ ~load
    BY <2>2, Zenon DEF MainStep, Boot, supervise, Teardown, BootFails, startHostServices, prepareGuest,
       connectGuest, startControl, startOAuthListenerWatch, publishReady, ArmTimer, Recheck,
       TimerFires, PolicyChanged, ShutdownReceived, DeathSeen, BeginGraceful, closeShutdownDevices,
       BeginClose, CloseControl, JoinGateway, CloseGuest, CloseHost, storeVars
  <2>. QED  BY <1>1, <2>1, <2>2, Zenon
<1>2. CASE Step
  <2>1. CASE Borrowing
    BY <2>1, Zenon DEF Borrowing, BeginDelivery, DeliveryEnds, RequestHotMemory, storeVars
  <2>2. ASSUME NEW h \in Handlers, Handling(h)
        PROVE  [StoreNext]_storeVars
    <3>1. ASSUME NEW update \in Updates, Begin(h, update)
          PROVE  StoreNext
      BY <3>1, Zenon DEF Begin, StoreNext
    <3>2. ASSUME NEW outcome \in SaveOutcomes,
                 CommitResources(h, outcome) \/ CommitSettings(h, outcome) \/ RollbackSettings(h, outcome)
          PROVE  StoreNext
      BY <3>2, Zenon DEF CommitResources, CommitSettings, RollbackSettings, StoreNext
    <3>3. CASE CloseSettings(h)
      BY <3>3, Zenon DEF CloseSettings, StoreNext
    <3>4. CASE NotifyPolicy(h) \/ Prepare(h) \/ Reconcile(h) \/ JoinSSH(h) \/ \E ok \in BOOLEAN : StartSSH(h, ok)
      BY <3>4, Zenon DEF NotifyPolicy, Prepare, Reconcile, JoinSSH, StartSSH, storeVars
    <3>. QED  BY <2>2, <3>1, <3>2, <3>3, <3>4, Zenon DEF Handling
  <2>3. ASSUME NEW h \in Handlers, SessionEnds(h)
        PROVE  UNCHANGED storeVars
    BY <2>3, Zenon DEF SessionEnds, storeVars
  <2>. QED  BY <1>2, <2>1, <2>2, <2>3, Zenon DEF Step
<1>3. CASE Environment
  <2>1. ASSUME NEW h \in Handlers, NEW other \in Others, NEW outcome \in SaveOutcomes,
               HandleMutation(h, other, outcome)
        PROVE  StoreNext
    BY <2>1, Zenon DEF HandleMutation, StoreNext
  <2>2. ASSUME NEW h \in Handlers,
               \/ HandleConfigure(h) \/ HandleSession(h) \/ HandleShutdown(h)
             \/ \E d \in 0..MaxTime : StorePolicy(h, d)
        PROVE  UNCHANGED storeVars
    BY <2>2, Zenon DEF HandleConfigure, HandleSession, HandleShutdown, StorePolicy, storeVars
  <2>3. CASE Signal \/ GuestExits \/ NetworkWorkerDies \/ WatcherExits \/ Launch \/ Tick
    BY <2>3, Zenon DEF Signal, GuestExits, NetworkWorkerDies, WatcherExits, Launch, Tick, storeVars
  <2>. QED  BY <1>3, <2>1, <2>2, <2>3, Zenon DEF Environment
<1>4. CASE UNCHANGED vars
  BY <1>4, Zenon DEF vars, storeVars
<1>. QED  BY <1>1, <1>2, <1>3, <1>4, Zenon DEF Next

(* The daemon's handlers and restarts use the store as its specification   *)
(* allows (configureSandbox, resourceControl, load).                       *)
THEOREM UsesStore == Spec => StoreSpec
<1>1. Init => Fresh
  BY Zenon DEF Init
<1>. QED  BY <1>1, StepUsesStore, PTL DEF Spec, StoreSpec

(* So settings transactions are isolated in the daemon, however its        *)
(* handlers, failures and restarts interleave.                             *)
THEOREM DaemonIsolation == Spec => TransactionsIsolated
BY UsesStore, Isolation, PTL

--------------------------------------------------------------------------------
(* Teardown.                                                               *)

Groups == [phase : {"open", "closing", "closed"}, borrowers : SUBSET {"boot", "configure", "memory"}]

Quiet == background.phase # "open" /\ background.borrowers = {} /\ ~watcher

(* Where the main goroutine can be once the devices are closed, and while  *)
(* the lock is not held.                                                   *)
Closing == {"close", "drainAll", "joinSSH", "join", "closeHost", "done"}

TeardownInv ==
    /\ background \in Groups
    /\ main \in {"drain", "joinSSH", "join", "closeHost", "done"} => background.phase # "open" /\ ~watcher
    /\ main \in {"joinSSH", "join"} => Quiet
    /\ main \in {"closeHost", "done"} => control = "closed" /\ vm = "closed" /\ at = Idle
    /\ vm = "closed" => Quiet /\ main \in Closing
    /\ main = "load" => ~lock
    /\ ~lock => /\ main \in Closing \cup {"load"}
                /\ control \in {"none", "closed"} /\ vm \in {"none", "closed"}
                /\ at = Idle /\ background.borrowers = {} /\ ~watcher

(* The main goroutine preserves it.                                        *)
LEMMA MainKeepsOrder == ASSUME TeardownInv, MainStep PROVE TeardownInv'
<1> USE DEF TeardownInv, Quiet, Closing
<1>1. CASE Boot
  <2>1. CASE load \/ startHostServices \/ prepareGuest \/ connectGuest \/ BootFails \/ startOAuthListenerWatch
    BY <2>1 DEF load, startHostServices, prepareGuest, connectGuest, BootFails, startOAuthListenerWatch,
       handlerVars, serviceVars, planeVars
  <2>2. CASE startControl \/ publishReady
    <3>1. background' \in Groups
      BY <2>2 DEF startControl, publishReady, Acquire, Groups
    <3>2. /\ main \in {"control", "publish"} /\ main' \in {"awaitTools", "publish", "arm"}
          /\ UNCHANGED <<watcher, vm, lock>>
      BY <2>2, Zenon DEF startControl, publishReady, planeVars
    <3>. QED  BY <3>1, <3>2, Zenon
  <2>. QED  BY <1>1, <2>1, <2>2, Zenon DEF Boot
<1>2. CASE supervise
  BY <1>2, Zenon DEF supervise, ArmTimer, Recheck, TimerFires, PolicyChanged, ShutdownReceived, DeathSeen,
     handlerVars, serviceVars, planeVars
<1>3. CASE Teardown
  <2>1. CASE BeginGraceful \/ BeginClose
    BY <2>1 DEF BeginGraceful, BeginClose, Groups, handlerVars, planeVars
  <2>2. CASE closeShutdownDevices \/ CloseControl
    BY <2>2 DEF closeShutdownDevices, CloseControl, Groups, handlerVars
  <2>3. CASE JoinGateway \/ CloseGuest \/ CloseHost
    BY <2>3 DEF JoinGateway, CloseGuest, CloseHost, handlerVars, serviceVars, planeVars
  <2>. QED  BY <1>3, <2>1, <2>2, <2>3, Zenon DEF Teardown
<1>. QED  BY <1>1, <1>2, <1>3, Zenon DEF MainStep

(* So do the borrowers and the handlers.                                   *)
LEMMA OthersKeepOrder == ASSUME TeardownInv, Step PROVE TeardownInv'
<1> USE DEF TeardownInv, Quiet, Closing
<1>1. ASSUME NEW b \in {"boot", "configure"}, BeginDelivery(b)
      PROVE  TeardownInv'
  BY <1>1, Zenon DEF BeginDelivery, mainVars, handlerVars, planeVars
<1>2. ASSUME NEW b \in {"boot", "configure"}, NEW ok \in BOOLEAN, DeliveryEnds(b, ok)
      PROVE  TeardownInv'
  <2>1. background.borrowers # {}
    BY <1>2, Zenon DEF DeliveryEnds
  <2>2. /\ background'.phase = background.phase /\ background' \in Groups
        /\ background'.borrowers \subseteq background.borrowers
    BY <1>2, Zenon DEF DeliveryEnds, Groups
  <2>3. main' = main \/ (main = "awaitTools" /\ main' \in {"watch", "close"})
    BY <1>2, Zenon DEF DeliveryEnds
  <2>4. UNCHANGED <<watcher, control, vm, lock>>
    BY <1>2, Zenon DEF DeliveryEnds, planeVars
  <2>. QED  BY <2>1, <2>2, <2>3, <2>4, Zenon
<1>3. CASE RequestHotMemory
  BY <1>3, Zenon DEF RequestHotMemory, Groups, mainVars, handlerVars, planeVars
<1>4. ASSUME NEW h \in Handlers, Handling(h) \/ SessionEnds(h)
      PROVE  TeardownInv'
  <2>1. at[h] # "idle"
    BY <1>4, Zenon DEF Handling, SessionEnds, NotifyPolicy, Prepare, Reconcile, JoinSSH, CloseSettings, StartSSH,
       Begin, CommitResources, CommitSettings, RollbackSettings
  <2>2. at # Idle
    BY <2>1, Zenon DEF Idle
  <2>3. /\ UNCHANGED <<main, watcher, control, vm, lock>>
        /\ background' = background \/ Acquire("configure")
    BY <1>4, Zenon DEF Handling, SessionEnds, NotifyPolicy, Prepare, Reconcile, JoinSSH, CloseSettings, StartSSH,
       Begin, CommitResources, CommitSettings, RollbackSettings, Elsewhere, mainVars, serviceVars, planeVars
  <2>4. background' \in Groups /\ (background.phase # "open" => background' = background)
    BY <2>3 DEF Acquire, Groups
  <2>5. background'.phase = background.phase
    BY <2>3, Zenon DEF Acquire, Groups
  <2>. QED  BY <2>2, <2>3, <2>4, <2>5, Zenon
<1>. QED  BY <1>1, <1>2, <1>3, <1>4, Zenon DEF Step, Borrowing

(* And whatever comes from outside.                                        *)
LEMMA EventsKeepOrder == ASSUME TeardownInv, Environment PROVE TeardownInv'
<1> USE DEF TeardownInv, Quiet, Closing
<1>1. ASSUME NEW h \in Handlers,
             \/ HandleConfigure(h) \/ HandleSession(h) \/ HandleShutdown(h)
             \/ \E d \in 0..MaxTime : StorePolicy(h, d)
             \/ \E other \in Others, outcome \in SaveOutcomes : HandleMutation(h, other, outcome)
      PROVE  TeardownInv'
  <2>1. control = "open" /\ UNCHANGED <<main, background, watcher, control, vm, lock>>
    BY <1>1, Zenon DEF HandleConfigure, HandleSession, HandleShutdown, StorePolicy, HandleMutation, Admitted,
       Elsewhere, daemonVars, mainVars, serviceVars, planeVars
  <2>. QED  BY <2>1, Zenon
<1>2. CASE Signal \/ GuestExits \/ NetworkWorkerDies \/ WatcherExits \/ Tick
  BY <1>2 DEF Signal, GuestExits, NetworkWorkerDies, WatcherExits, Tick, mainVars, handlerVars, serviceVars,
     planeVars
<1>3. CASE Launch
  BY <1>3, Zenon DEF Launch, NewGroup, Groups
<1>. QED  BY <1>1, <1>2, <1>3, Zenon DEF Environment

(* Nothing that is borrowed is released: the guest is closed after its     *)
(* borrowers, the lock after everything (close, gracefulStop).             *)
THEOREM TeardownOrdered == Spec => []BorrowersFirst
<1>1. Init => TeardownInv
  BY DEF Init, TeardownInv, Groups, NewGroup, Closing, Quiet
<1>2. TeardownInv /\ [Next]_vars => TeardownInv'
  <2>1. TeardownInv /\ UNCHANGED vars => TeardownInv'
    BY DEF TeardownInv, Quiet, vars, daemonVars, mainVars, handlerVars, serviceVars, planeVars
  <2>. QED  BY <2>1, MainKeepsOrder, OthersKeepOrder, EventsKeepOrder, Zenon DEF Next
<1>3. TeardownInv => BorrowersFirst
  BY Zenon DEF TeardownInv, BorrowersFirst, Quiet
<1>. QED  BY <1>1, <1>2, <1>3, PTL DEF Spec

--------------------------------------------------------------------------------
(* Expiry.  The recheck compares the deadline in force with the one the    *)
(* loop read, not with the clock: that one has passed and stays passed.    *)

ClockInv ==
    /\ now \in Nat /\ deadline \in Nat /\ timer \in Nat
    /\ main = "recheck" => timer <= now

(* What no step but the loop's own does to the loop and its timer.         *)
LoopLeft ==
    /\ main' = main \/ main' \notin {"recheck", "expired"}
    /\ UNCHANGED timer \/ (timer' = 0 /\ main' = "load")

(* The loop's steps: it goes on to stop only past the deadline in force.   *)
LEMMA LoopStopsInTime ==
    ASSUME ClockInv, supervise
    PROVE  ClockInv' /\ (main # "expired" /\ main' = "expired" => Expired)
<1>1. CASE ArmTimer
  BY <1>1 DEF ArmTimer, ClockInv, Expired
<1>2. CASE Recheck
  BY <1>2 DEF Recheck, ClockInv, Expired, policyVars
<1>3. CASE TimerFires
  BY <1>3 DEF TimerFires, ClockInv, Expired, policyVars
<1>4. CASE PolicyChanged \/ ShutdownReceived \/ DeathSeen
  BY <1>4 DEF PolicyChanged, ShutdownReceived, DeathSeen, ClockInv, policyVars
<1>. QED  BY <1>1, <1>2, <1>3, <1>4, Zenon DEF supervise

(* Every other step leaves the loop where it is or takes it elsewhere; the *)
(* clock only advances, and a policy brings a deadline of its own.         *)
LEMMA OthersLeaveLoop ==
    ASSUME ClockInv, [Next]_vars, ~supervise
    PROVE  /\ LoopLeft
           /\ \/ UNCHANGED <<now, deadline>>
              \/ now' = now + 1 /\ UNCHANGED deadline
              \/ UNCHANGED now /\ deadline' \in 0..MaxTime
<1> USE DEF LoopLeft
<1>1. CASE UNCHANGED vars
  BY <1>1, Zenon DEF vars, daemonVars, mainVars, policyVars
<1>2. CASE Boot
  <2>1. /\ main' \in {"host", "guest", "connect", "control", "awaitTools", "publish", "arm", "close"}
        /\ UNCHANGED policyVars
    BY <1>2, Zenon DEF Boot, load, startHostServices, prepareGuest, connectGuest, startControl, BootFails,
       startOAuthListenerWatch, publishReady
  <2>. QED  BY <2>1 DEF policyVars
<1>3. CASE Teardown
  <2>1. /\ main' \in {"drain", "close", "drainAll", "joinSSH", "join", "closeHost", "done"}
        /\ UNCHANGED policyVars
    BY <1>3, Zenon DEF Teardown, BeginGraceful, closeShutdownDevices, BeginClose, CloseControl, JoinGateway,
       CloseGuest, CloseHost
  <2>. QED  BY <2>1 DEF policyVars
<1>4. CASE Borrowing
  <2>1. UNCHANGED policyVars /\ (main' = main \/ main' \in {"watch", "close"})
    BY <1>4, Zenon DEF Borrowing, BeginDelivery, DeliveryEnds, RequestHotMemory, mainVars
  <2>. QED  BY <2>1 DEF policyVars
<1>5. ASSUME NEW h \in Handlers, Handling(h) \/ SessionEnds(h)
      PROVE  UNCHANGED <<main, now, deadline, timer>>
  BY <1>5, Zenon DEF Handling, SessionEnds, NotifyPolicy, Prepare, Reconcile, JoinSSH, CloseSettings, StartSSH,
     Begin, CommitResources, CommitSettings, RollbackSettings, Elsewhere, mainVars, policyVars
<1>6. ASSUME NEW h \in Handlers,
             \/ HandleConfigure(h) \/ HandleSession(h) \/ HandleShutdown(h)
             \/ \E other \in Others, outcome \in SaveOutcomes : HandleMutation(h, other, outcome)
      PROVE  UNCHANGED <<main, now, deadline, timer>>
  BY <1>6, Zenon DEF HandleConfigure, HandleSession, HandleShutdown, HandleMutation, Elsewhere, daemonVars,
     mainVars, policyVars
<1>7. ASSUME NEW h \in Handlers, NEW d \in 0..MaxTime, StorePolicy(h, d)
      PROVE  UNCHANGED <<main, now, timer>> /\ deadline' \in 0..MaxTime
  BY <1>7, Zenon DEF StorePolicy, mainVars
<1>8. CASE GuestExits \/ NetworkWorkerDies \/ WatcherExits
  BY <1>8, Zenon DEF GuestExits, NetworkWorkerDies, WatcherExits, mainVars, policyVars
<1>9. CASE Signal \/ Launch
  BY <1>9 DEF Signal, Launch, policyVars
<1>10. CASE Tick
  BY <1>10, Zenon DEF Tick, mainVars
<1>. QED  BY <1>1, <1>2, <1>3, <1>4, <1>5, <1>6, <1>7, <1>8, <1>9, <1>10, Zenon DEF Next, MainStep, Step, Environment

(* The sandbox is never stopped for an expiry that is not the one of the   *)
(* policy in force, whenever its replacement arrives (supervise).          *)
THEOREM StopsOnlyExpired == Spec => NeverStopsEarly
<1>1. Init => ClockInv
  BY DaemonShape DEF Init, ClockInv
<1>2. ClockInv /\ [Next]_vars => ClockInv' /\ (main # "expired" /\ main' = "expired" => Expired)
  <2>1. ASSUME ClockInv, [Next]_vars, ~supervise
        PROVE  ClockInv' /\ ~(main # "expired" /\ main' = "expired")
    BY <2>1, OthersLeaveLoop, DaemonShape DEF ClockInv, LoopLeft
  <2>. QED  BY <2>1, LoopStopsInTime, Zenon
<1>. QED  BY <1>1, <1>2, PTL DEF Spec, NeverStopsEarly

--------------------------------------------------------------------------------
(* Services.  A handler between Begin and Close holds the one transaction; *)
(* only while it reconciles may the gateway differ from the settings.      *)

Reconciling == {"reconcile", "joinSSH", "tools", "startSSH", "rollback"}
InTransaction == Reconciling \cup {"prepare", "commit", "commitResources", "close"}
HandlerSteps == InTransaction \cup {"idle", "notify", "session", "configure", "resources"}

(* Only the handler that reconciles moves the gateway, to what the saved   *)
(* settings say.                                                           *)
GatewayOwned ==
    /\ ssh = "stopping" => \E h \in Handlers : at[h] = "joinSSH"
    /\ \A h \in Handlers : at[h] = "joinSSH" => ssh = "stopping"
    /\ \A h \in Handlers : at[h] \in {"tools", "startSSH"} => ssh = "idle"
    /\ ~diverged /\ (\A h \in Handlers : at[h] \notin Reconciling) =>
         (ssh = "running") = mem.settings.ssh

(* The handler in the transaction is alone and knows the settings.         *)
HolderKnows ==
    /\ \A h \in Handlers : at[h] \in InTransaction => tx # Closed
    /\ \A g, h \in Handlers : at[g] \in InTransaction /\ at[h] \in InTransaction => g = h
    /\ \A h \in Handlers : at[h] = "commitResources" => tx.desired.ssh = mem.settings.ssh
    /\ \A h \in Handlers :
         at[h] \in {"reconcile", "joinSSH", "tools", "startSSH"} => job.want = mem.settings.ssh
    /\ \A h \in Handlers : at[h] \in {"tools", "startSSH"} => job.want
    /\ \A h \in Handlers : at[h] = "joinSSH" => ~job.want

ServicesInv ==
    /\ at \in [Handlers -> HandlerSteps] /\ ssh \in {"idle", "running", "stopping"}
    /\ main \in {"load", "host", "guest", "connect", "control"} => control = "none"
    /\ main \in {"joinSSH", "join", "closeHost", "done"} => control # "open"
    /\ control = "none" => at = Idle
    /\ HolderKnows
    /\ control = "open" => GatewayOwned

(* A step that leaves the handlers and the settings alone, and the gateway *)
(* while the control plane is open.                                        *)
LEMMA ServicesFramed ==
    ASSUME ServicesInv, UNCHANGED <<at, job, diverged, mem, tx>>,
           ssh' \in {"idle", "running", "stopping"},
           control' = "open" => control = "open" /\ ssh' = ssh,
           control' = "none" => control = "none",
           main' \in {"load", "host", "guest", "connect", "control"} => control' = "none",
           main' \in {"joinSSH", "join", "closeHost", "done"} => control' # "open"
    PROVE  ServicesInv'
BY Zenon DEF ServicesInv, HolderKnows, GatewayOwned, Idle

(* The main goroutine keeps the invariant of the services.                 *)
LEMMA MainKeepsServices == ASSUME ServicesInv, StoreInv, MainStep PROVE ServicesInv'
<1>0. mem.settings \in Settings /\ mem.settings.ssh \in BOOLEAN
  BY DaemonShape, Zenon DEF StoreInv, StoreTypeOK, Config, DaemonShape
<1>t. ssh \in {"idle", "running", "stopping"}
  BY Zenon DEF ServicesInv
<1>1. CASE load
  <2>1. mem' = mem /\ tx' = Closed /\ control = "none" /\ at = Idle /\ main' = "host"
        /\ UNCHANGED <<at, ssh, control, job, diverged>>
    BY <1>1, Zenon DEF load, LoadConfigStore, StoreInv, MemoryIsFile, ServicesInv, handlerVars, serviceVars
  <2>. QED
    BY <2>1, Zenon DEF ServicesInv, HolderKnows, Idle, InTransaction, Reconciling
<1>2. CASE startControl
  <2>1. /\ at = Idle /\ control' = "open" /\ main' \in {"awaitTools", "publish"}
        /\ ssh' = IF mem.settings.ssh THEN "running" ELSE "idle"
        /\ UNCHANGED <<at, mem, tx, job, diverged>>
    BY <1>2, Zenon DEF startControl, storeVars, handlerVars, ServicesInv
  <2>2. HolderKnows' /\ GatewayOwned'
    BY <1>0, <2>1, Zenon DEF HolderKnows, GatewayOwned, Idle, InTransaction, Reconciling
  <2>. QED  BY <1>t, <2>1, <2>2, Zenon DEF ServicesInv
<1>3. CASE startHostServices \/ prepareGuest \/ connectGuest
  BY <1>3, <1>t, ServicesFramed, Zenon DEF startHostServices, prepareGuest, connectGuest, ServicesInv, storeVars,
     handlerVars, serviceVars
<1>4. CASE BootFails \/ startOAuthListenerWatch \/ publishReady
  BY <1>4, <1>t, ServicesFramed, Zenon DEF BootFails, startOAuthListenerWatch, publishReady, storeVars, handlerVars,
     serviceVars, planeVars
<1>5. CASE supervise
  BY <1>5, <1>t, ServicesFramed, Zenon DEF supervise, ArmTimer, Recheck, TimerFires, PolicyChanged, ShutdownReceived,
     DeathSeen, storeVars, handlerVars, serviceVars, planeVars
<1>6. CASE BeginGraceful \/ closeShutdownDevices \/ BeginClose
  BY <1>6, <1>t, ServicesFramed, Zenon DEF BeginGraceful, closeShutdownDevices, BeginClose, storeVars, handlerVars,
     planeVars
<1>7. CASE CloseControl
  BY <1>7, <1>t, ServicesFramed, Zenon DEF CloseControl, storeVars, handlerVars
<1>8. CASE JoinGateway \/ CloseGuest \/ CloseHost
  BY <1>8, <1>t, ServicesFramed, Zenon DEF JoinGateway, CloseGuest, CloseHost, ServicesInv, storeVars, handlerVars,
     serviceVars, planeVars
<1>. QED
  BY <1>1, <1>2, <1>3, <1>4, <1>5, <1>6, <1>7, <1>8, Zenon DEF MainStep, Boot, Teardown

(* A handler outside a transaction moves.                                  *)
LEMMA OutsideKeeps ==
    ASSUME ServicesInv, NEW h \in Handlers, NEW w \in HandlerSteps \ InTransaction,
           at[h] \notin InTransaction, at' = [at EXCEPT ![h] = w], control # "none",
           mem'.settings = mem.settings, UNCHANGED <<tx, ssh, job, diverged, main, control>>
    PROVE  ServicesInv'
<1>1. at' \in [Handlers -> HandlerSteps] /\ at'[h] \notin InTransaction
      /\ \A g \in Handlers : at'[g] = at[g] \/ g = h
  BY Zenon DEF ServicesInv
<1>2. HolderKnows'
  BY <1>1, Zenon DEF ServicesInv, HolderKnows, InTransaction, Reconciling
<1>3. control = "open" => GatewayOwned'
  BY <1>1, Zenon DEF ServicesInv, GatewayOwned, InTransaction, Reconciling
<1>. QED  BY <1>1, <1>2, <1>3, Zenon DEF ServicesInv

(* The handler in the transaction moves; it is alone there.                *)
LEMMA InsideKeeps ==
    ASSUME ServicesInv, NEW h \in Handlers, NEW w \in HandlerSteps,
           \A g \in Handlers : at[g] \in InTransaction => g = h,
           at' = [at EXCEPT ![h] = w], control # "none", UNCHANGED control,
           main' \in {main, "watch", "close"}, ssh' \in {"idle", "running", "stopping"},
           w \in InTransaction => tx' # Closed,
           w = "commitResources" => tx'.desired.ssh = mem'.settings.ssh,
           w \in {"reconcile", "joinSSH", "tools", "startSSH"} => job'.want = mem'.settings.ssh,
           w \in {"tools", "startSSH"} => job'.want,
           w = "joinSSH" => ~job'.want,
           control = "open" =>
             /\ ssh' = "stopping" <=> w = "joinSSH"
             /\ w \in {"tools", "startSSH"} => ssh' = "idle"
             /\ ~diverged' /\ w \notin Reconciling => (ssh' = "running") = mem'.settings.ssh
    PROVE  ServicesInv'
<1>1. at' \in [Handlers -> HandlerSteps] /\ at'[h] = w
      /\ \A g \in Handlers : g = h \/ at'[g] \notin InTransaction
  BY Zenon DEF ServicesInv
<1>2. HolderKnows'
  BY <1>1, Zenon DEF HolderKnows, InTransaction, Reconciling
<1>3. control = "open" => GatewayOwned'
  BY <1>1, Zenon DEF GatewayOwned, InTransaction, Reconciling
<1>. QED  BY <1>1, <1>2, <1>3, Zenon DEF ServicesInv

(* The steps of a transaction keep the invariant of the services.          *)
LEMMA HandlersKeepServices ==
    ASSUME ServicesInv, StoreInv, NEW h \in Handlers, Handling(h)
    PROVE  ServicesInv'
<1>0. /\ mem \in Config /\ mem.settings \in Settings /\ mem.settings.ssh \in BOOLEAN
      /\ tx \in Transaction \cup {Closed}
  BY DaemonShape, Zenon DEF StoreInv, StoreTypeOK, Config, DaemonShape
<1>t. /\ ssh \in {"idle", "running", "stopping"} /\ at \in [Handlers -> HandlerSteps]
      /\ at[h] \in InTransaction => \A g \in Handlers : at[g] \in InTransaction => g = h
      /\ at[h] \in InTransaction => tx # Closed
      /\ at[h] # "idle" => control # "none"
      /\ at[h] = "commitResources" => tx.desired.ssh = mem.settings.ssh
      /\ at[h] \in {"reconcile", "joinSSH", "tools", "startSSH"} => job.want = mem.settings.ssh
      /\ at[h] \in {"tools", "startSSH"} => job.want
      /\ at[h] = "joinSSH" => ~job.want
  BY Zenon DEF ServicesInv, HolderKnows, Idle
<1>g. control = "open" =>
        /\ at[h] = "joinSSH" => ssh = "stopping"
        /\ at[h] \in InTransaction /\ at[h] # "joinSSH" => ssh # "stopping"
        /\ at[h] \in {"tools", "startSSH"} => ssh = "idle"
        /\ at[h] \in InTransaction \ Reconciling /\ ~diverged => (ssh = "running") = mem.settings.ssh
  BY <1>t, Zenon DEF ServicesInv, GatewayOwned, InTransaction, Reconciling
<1>f. AfterFailure \in {"close", "rollback"}
  BY Zenon DEF AfterFailure
<1>1. CASE NotifyPolicy(h)
  BY <1>1, <1>t, OutsideKeeps, Zenon DEF NotifyPolicy, Go, InTransaction, Reconciling, HandlerSteps, storeVars,
     mainVars, serviceVars, planeVars
<1>2. CASE Prepare(h)
  <2>1. PICK w \in {"commit", "close"} :
          /\ at[h] = "prepare" /\ at' = [at EXCEPT ![h] = w]
          /\ UNCHANGED <<mem, tx, job, diverged, main, control, ssh>>
    BY <1>2, Zenon DEF Prepare, Go, Elsewhere, storeVars, mainVars, serviceVars, planeVars
  <2>. QED
    BY <1>t, <1>g, <2>1, InsideKeeps, Zenon DEF InTransaction, Reconciling, HandlerSteps
<1>3. CASE CloseSettings(h)
  <2>1. /\ at[h] = "close" /\ at' = [at EXCEPT ![h] = "idle"]
        /\ UNCHANGED <<mem, diverged, main, control, ssh>>
    BY <1>3, Zenon DEF CloseSettings, CloseTransaction, Go, Elsewhere, mainVars, serviceVars, planeVars
  <2>. QED
    BY <1>t, <1>g, <2>1, InsideKeeps, Zenon DEF InTransaction, Reconciling, HandlerSteps
<1>4. CASE JoinSSH(h)
  <2>1. /\ at[h] = "joinSSH" /\ at' = [at EXCEPT ![h] = "close"]
        /\ ssh' = IF ssh = "stopping" THEN "idle" ELSE ssh
        /\ UNCHANGED <<mem, tx, job, diverged, main, control>>
    BY <1>4, Zenon DEF JoinSSH, Go, storeVars, mainVars, planeVars
  <2>. QED
    BY <1>0, <1>t, <1>g, <2>1, InsideKeeps, Zenon DEF InTransaction, Reconciling, HandlerSteps
<1>5. ASSUME NEW ok \in BOOLEAN, StartSSH(h, ok)
      PROVE  ServicesInv'
  <2> DEFINE w == IF ok THEN "close" ELSE AfterFailure
  <2>1. /\ at[h] = "startSSH" /\ at' = [at EXCEPT ![h] = w]
        /\ ssh' = IF ok /\ ssh = "idle" THEN "running" ELSE ssh
        /\ diverged' = IF ok THEN FALSE ELSE diverged \/ AfterFailure = "close"
        /\ UNCHANGED <<mem, tx, job, main, control>>
    BY <1>5, Zenon DEF StartSSH, Go, storeVars, mainVars, planeVars
  <2>2. w \in {"close", "rollback"} /\ (w = "close" => ok \/ diverged') /\ (w = "rollback" => ~ok)
    BY <1>f, <2>1, Zenon
  <2>3. control = "open" =>
          /\ ssh' # "stopping"
          /\ ~diverged' /\ w = "close" => (ssh' = "running") = mem'.settings.ssh
    BY <1>0, <1>t, <1>g, <2>1, <2>2, Zenon DEF InTransaction, Reconciling
  <2> HIDE DEF w
  <2>. QED
    BY <1>t, <1>g, <2>1, <2>2, <2>3, InsideKeeps, Zenon DEF InTransaction, Reconciling, HandlerSteps
<1>6. CASE Reconcile(h)
  <2> DEFINE running == ssh = "running"
             start == job.want /\ ~running
             stop == ~job.want /\ running
             refused == start /\ background.phase # "open"
  <2>1. /\ at[h] = "reconcile" /\ UNCHANGED <<mem, tx, job, main, control>>
        /\ ssh' = IF stop THEN "stopping" ELSE ssh
        /\ at' = [at EXCEPT ![h] = CASE stop -> "joinSSH"
                                     [] refused -> AfterFailure
                                     [] start /\ ~refused -> "tools"
                                     [] OTHER -> "close"]
        /\ diverged' = CASE refused -> diverged \/ AfterFailure = "close"
                         [] start /\ ~refused -> diverged
                         [] OTHER -> FALSE
    BY <1>6, Zenon DEF Reconcile, Go, storeVars, mainVars, planeVars
  <2>2. CASE stop
    <3>1. at' = [at EXCEPT ![h] = "joinSSH"] /\ ssh' = "stopping"
      BY <2>1, <2>2, Zenon
    <3>. QED  BY <1>t, <2>1, <2>2, <3>1, InsideKeeps, Zenon DEF InTransaction, Reconciling, HandlerSteps
  <2>3. CASE refused
    <3>1. at' = [at EXCEPT ![h] = AfterFailure] /\ ssh' = ssh /\ (AfterFailure = "close" => diverged')
      BY <2>1, <2>3, Zenon
    <3>. QED  BY <1>t, <1>g, <1>f, <2>1, <3>1, InsideKeeps, Zenon DEF InTransaction, Reconciling, HandlerSteps
  <2>4. CASE start /\ ~refused
    <3>1. at' = [at EXCEPT ![h] = "tools"] /\ ssh' = ssh
      BY <2>1, <2>4, Zenon
    <3>2. job.want /\ (control = "open" => ssh = "idle")
      BY <1>t, <1>g, <2>1, <2>4, Zenon DEF InTransaction, Reconciling
    <3>3. ssh' \in {"idle", "running", "stopping"} /\ job'.want /\ job'.want = mem'.settings.ssh /\ tx' # Closed
      BY <1>t, <2>1, <3>1, <3>2, Zenon DEF InTransaction, Reconciling
    <3>4. \A g \in Handlers : at[g] \in InTransaction => g = h
      BY <1>t, <2>1, Zenon DEF InTransaction, Reconciling
    <3>5. control # "none" /\ UNCHANGED <<control, main>>
      BY <1>t, <2>1, Zenon
    <3>. QED  BY <3>1, <3>2, <3>3, <3>4, <3>5, InsideKeeps, Zenon DEF InTransaction, Reconciling, HandlerSteps
  <2>5. CASE ~stop /\ ~start
    <3>1. at' = [at EXCEPT ![h] = "close"] /\ ssh' = ssh
      BY <2>1, <2>5, Zenon
    <3>2. (ssh = "running") = mem.settings.ssh
      BY <1>0, <1>t, <2>1, <2>5, Zenon
    <3>3. control = "open" => ssh # "stopping"
      BY <1>g, <2>1, Zenon DEF InTransaction, Reconciling
    <3>4. /\ \A g \in Handlers : at[g] \in InTransaction => g = h
          /\ control # "none" /\ UNCHANGED <<control, main>>
          /\ tx' # Closed /\ ssh' \in {"idle", "running", "stopping"}
      BY <1>t, <2>1, <3>1, Zenon DEF InTransaction, Reconciling
    <3>5. (ssh' = "running") = mem'.settings.ssh
      BY <2>1, <3>1, <3>2, Zenon
    <3>. QED  BY <3>1, <3>3, <3>4, <3>5, InsideKeeps, Zenon DEF InTransaction, Reconciling, HandlerSteps
  <2>. QED  BY <2>2, <2>3, <2>4, <2>5, Zenon
<1>7. ASSUME NEW update \in Updates, Begin(h, update)
      PROVE  ServicesInv'
  <2>1. /\ tx = Closed /\ UNCHANGED <<mem, job, diverged, main, control, ssh>>
        /\ at[h] \in {"configure", "resources"}
        /\ at[h] = "resources" => update \in ResourceUpdates
        /\ tx' # Closed => tx'.desired = update[mem.settings]
    BY <1>7, Zenon DEF Begin, BeginConfiguration, Elsewhere, mainVars, serviceVars, planeVars
  <2>2. PICK w \in {"idle", "commitResources", "prepare", "commit"} :
          /\ at' = [at EXCEPT ![h] = w] /\ (w # "idle" => tx' # Closed)
          /\ w = "commitResources" => at[h] = "resources"
    <3> DEFINE next == CASE tx' = Closed -> "idle"
                         [] tx' # Closed /\ at[h] = "resources" -> "commitResources"
                         [] OTHER -> IF tx'.desired.dev /\ ~mem.settings.dev THEN "prepare" ELSE "commit"
    <3>1. at' = [at EXCEPT ![h] = next]
      BY <1>7, Zenon DEF Begin, Go
    <3>2. CASE tx' = Closed
      <4>1. next = "idle"
        BY <3>2, Zenon
      <4>. QED  BY <3>1, <4>1, Zenon
    <3>3. CASE tx' # Closed /\ at[h] = "resources"
      <4>1. next = "commitResources"
        BY <3>3, Zenon
      <4>. QED  BY <3>1, <3>3, <4>1, Zenon
    <3>4. CASE tx' # Closed /\ at[h] # "resources"
      <4>1. next \in {"prepare", "commit"}
        BY <3>4, Zenon
      <4>. QED  BY <3>1, <3>4, <4>1, Zenon
    <3>. QED  BY <3>2, <3>3, <3>4, Zenon
  <2>3. \A g \in Handlers : at[g] \notin InTransaction
    BY <2>1, Zenon DEF ServicesInv, HolderKnows
  <2>4. w = "commitResources" => tx'.desired.ssh = mem'.settings.ssh
    BY <1>0, <2>1, <2>2, DaemonShape DEF DaemonShape
  <2>5. control = "open" => /\ ssh # "stopping"
                            /\ ~diverged => (ssh = "running") = mem.settings.ssh
    BY <2>3, Zenon DEF ServicesInv, GatewayOwned, InTransaction, Reconciling
  <2>. QED
    BY <1>t, <2>1, <2>2, <2>3, <2>4, <2>5, InsideKeeps, Zenon DEF InTransaction, Reconciling, HandlerSteps
<1>8. ASSUME NEW outcome \in SaveOutcomes, CommitResources(h, outcome) \/ CommitSettings(h, outcome)
      PROVE  ServicesInv'
  <2>1. /\ Commit(outcome) /\ at[h] \in {"commit", "commitResources"}
        /\ UNCHANGED <<diverged, main, control, ssh>>
    BY <1>8, Zenon DEF CommitResources, CommitSettings, Elsewhere, mainVars, serviceVars, planeVars
  <2>2. tx' # Closed
    <3>1. tx \in Transaction /\ Closed \notin Transaction
      BY <1>0, <1>t, <2>1 DEF InTransaction, Transaction, Closed
    <3>. QED  BY <2>1, <3>1, Zenon DEF Commit, Transaction, Closed
  <2>3. mem' = mem \/ mem' = [mem EXCEPT !.settings = tx.desired, !.revision = @ + 1, !.manifest = FALSE]
    BY <2>1, WriteAtomic, Zenon DEF Commit, StoreInv
  <2>4. mem'.settings = mem.settings \/ mem'.settings = tx.desired
    BY <1>0, <2>3, Zenon DEF Config
  <2>5. CASE CommitResources(h, outcome)
    <3>1. at[h] = "commitResources" /\ at' = [at EXCEPT ![h] = "close"]
      BY <2>5, Zenon DEF CommitResources, Go
    <3>2. mem'.settings.ssh = mem.settings.ssh
      BY <1>t, <2>4, <3>1, Zenon
    <3>. QED
      BY <1>t, <1>g, <2>1, <2>2, <3>1, <3>2, InsideKeeps, Zenon DEF InTransaction, Reconciling, HandlerSteps
  <2>6. CASE CommitSettings(h, outcome)
    <3>1. PICK w \in {"close", "reconcile"} :
            /\ at[h] = "commit" /\ at' = [at EXCEPT ![h] = w] /\ (w = "close" => tx'.phase = "refused")
            /\ job' = [want |-> mem'.settings.ssh, restoring |-> FALSE]
      BY <2>6, Zenon DEF CommitSettings, Go
    <3>2. tx'.phase = "refused" => mem' = mem
      <4>1. tx \in Transaction
        BY <1>0, <1>t, <3>1, Zenon DEF InTransaction
      <4>. QED  BY <2>1, <4>1, WriteAtomic, Zenon DEF Commit, Transaction, StoreInv
    <3>. QED
      BY <1>t, <1>g, <2>1, <2>2, <3>1, <3>2, InsideKeeps, Zenon DEF InTransaction, Reconciling, HandlerSteps
  <2>. QED  BY <1>8, <2>5, <2>6, Zenon
<1>9. ASSUME NEW outcome \in SaveOutcomes, RollbackSettings(h, outcome)
      PROVE  ServicesInv'
  <2>1. /\ Rollback(outcome) /\ at[h] = "rollback" /\ at' = [at EXCEPT ![h] = "reconcile"]
        /\ job' = [want |-> mem'.settings.ssh, restoring |-> TRUE]
        /\ UNCHANGED <<diverged, main, control, ssh>>
    BY <1>9, Zenon DEF RollbackSettings, Go, Elsewhere, mainVars, serviceVars, planeVars
  <2>2. tx' # Closed
    <3>1. tx \in Transaction /\ Closed \notin Transaction
      BY <1>0, <1>t, <2>1 DEF InTransaction, Reconciling, Transaction, Closed
    <3>. QED  BY <2>1, <3>1, Zenon DEF Rollback, Transaction, Closed
  <2>. QED
    BY <1>t, <1>g, <2>1, <2>2, InsideKeeps, Zenon DEF InTransaction, Reconciling, HandlerSteps
<1>. QED
  BY <1>1, <1>2, <1>3, <1>4, <1>5, <1>6, <1>7, <1>8, <1>9, Zenon DEF Handling

(* The deliveries of the guest tools keep the invariant of the services.   *)
LEMMA BorrowersKeepServices ==
    ASSUME ServicesInv, StoreInv, Borrowing
    PROVE  ServicesInv'
<1>t. ssh \in {"idle", "running", "stopping"} /\ at \in [Handlers -> HandlerSteps]
  BY Zenon DEF ServicesInv
<1>1. ASSUME NEW b \in {"boot", "configure"}, BeginDelivery(b)
      PROVE  ServicesInv'
  BY <1>1, <1>t, ServicesFramed, Zenon DEF BeginDelivery, ServicesInv, storeVars, mainVars, handlerVars, planeVars
<1>2. CASE RequestHotMemory
  BY <1>2, <1>t, ServicesFramed, Zenon DEF RequestHotMemory, ServicesInv, storeVars, mainVars, handlerVars, planeVars
<1>3. ASSUME NEW b \in {"boot", "configure"}, NEW ok \in BOOLEAN, DeliveryEnds(b, ok)
      PROVE  ServicesInv'
  <2>1. main' \in {main, "watch", "close"}
    BY <1>3, Zenon DEF DeliveryEnds
  <2>2. UNCHANGED <<mem, tx, job, ssh, control>> /\ (diverged => diverged')
    BY <1>3, Zenon DEF DeliveryEnds, storeVars, planeVars
  <2>3. CASE b = "configure" /\ \E h \in Handlers : at[h] = "tools"
    <3>1. PICK h \in Handlers : at[h] = "tools"
      BY <2>3, Zenon
    <3> DEFINE w == IF ok THEN "startSSH" ELSE AfterFailure
    <3>2. w \in {"startSSH", "close", "rollback"} /\ (w = "close" => ~ok /\ AfterFailure = "close")
      BY Zenon DEF AfterFailure
    <3>3. w = "close" => diverged'
      BY <1>3, <2>3, <3>2, Zenon DEF DeliveryEnds
    <3>4. \A g \in Handlers : at[g] \in InTransaction => g = h
      BY <3>1, Zenon DEF ServicesInv, HolderKnows, InTransaction, Reconciling
    <3>5. at' = [at EXCEPT ![h] = w]
      <4>1. at' = [g \in Handlers |-> CASE at[g] = "tools" /\ ok -> "startSSH"
                                        [] at[g] = "tools" /\ ~ok -> AfterFailure
                                        [] OTHER -> at[g]]
        BY <1>3, <2>3, Zenon DEF DeliveryEnds
      <4>2. \A g \in Handlers : g # h => at[g] # "tools"
        BY <3>4, Zenon DEF InTransaction, Reconciling
      <4>3. at'[h] = w
        BY <3>1, <4>1, Zenon
      <4>4. \A g \in Handlers : g # h => at'[g] = at[g]
        BY <4>1, <4>2, Zenon
      <4> HIDE DEF w
      <4>. QED  BY <1>t, <4>1, <4>3, <4>4, Zenon
    <3>6. /\ control # "none" /\ tx # Closed /\ job.want /\ job.want = mem.settings.ssh
          /\ control = "open" => ssh = "idle"
      BY <3>1, Zenon DEF ServicesInv, HolderKnows, GatewayOwned, Idle, InTransaction, Reconciling
    <3> HIDE DEF w
    <3>. QED
      BY <1>t, <2>1, <2>2, <3>2, <3>3, <3>4, <3>5, <3>6, InsideKeeps, Zenon
         DEF InTransaction, Reconciling, HandlerSteps
  <2>4. CASE ~(b = "configure" /\ \E h \in Handlers : at[h] = "tools")
    <3>1. at' = at
      <4>1. CASE b # "configure"
        BY <1>3, <4>1, Zenon DEF DeliveryEnds
      <4>2. CASE b = "configure"
        <5>1. at' = [h \in Handlers |-> CASE at[h] = "tools" /\ ok -> "startSSH"
                                          [] at[h] = "tools" /\ ~ok -> AfterFailure
                                          [] OTHER -> at[h]]
          BY <1>3, <4>2, Zenon DEF DeliveryEnds
        <5>2. \A h \in Handlers : at'[h] = at[h]
          BY <2>4, <4>2, <5>1, Zenon
        <5>. QED  BY <1>t, <5>1, <5>2, Zenon
      <4>. QED  BY <4>1, <4>2, Zenon
    <3>2. HolderKnows' /\ (control = "open" => GatewayOwned')
      BY <2>2, <3>1, Zenon DEF ServicesInv, HolderKnows, GatewayOwned
    <3>. QED  BY <1>t, <2>1, <2>2, <3>1, <3>2, Zenon DEF ServicesInv, Idle
  <2>. QED  BY <2>3, <2>4, Zenon
<1>. QED  BY <1>1, <1>2, <1>3, Zenon DEF Borrowing

(* So do the requests, the deaths and a restart.                           *)
LEMMA EventsKeepServices ==
    ASSUME ServicesInv, StoreInv, Environment
    PROVE  ServicesInv'
<1>t. ssh \in {"idle", "running", "stopping"} /\ at \in [Handlers -> HandlerSteps]
  BY Zenon DEF ServicesInv
<1>1. ASSUME NEW h \in Handlers, HandleConfigure(h) \/ HandleSession(h) \/ \E d \in 0..MaxTime : StorePolicy(h, d)
      PROVE  ServicesInv'
  <2>1. PICK w \in {"configure", "resources", "session", "notify"} :
          /\ control = "open" /\ at[h] = "idle" /\ at' = [at EXCEPT ![h] = w]
          /\ UNCHANGED <<mem, tx, ssh, job, diverged, main, control>>
    BY <1>1, Zenon DEF HandleConfigure, HandleSession, StorePolicy, Admitted, Go, Elsewhere, storeVars, mainVars,
       serviceVars, planeVars
  <2>. QED  BY <2>1, OutsideKeeps, Zenon DEF InTransaction, Reconciling, HandlerSteps
<1>2. ASSUME NEW h \in Handlers, NEW other \in Others, NEW outcome \in SaveOutcomes,
             HandleMutation(h, other, outcome)
      PROVE  ServicesInv'
  <2>1. /\ Mutate(other, outcome) /\ control = "open" /\ at[h] = "idle"
        /\ UNCHANGED <<at, ssh, job, diverged, main, control>>
    BY <1>2, Zenon DEF HandleMutation, Admitted, daemonVars, mainVars, handlerVars, serviceVars, planeVars
  <2>2. mem'.settings = mem.settings /\ tx' = tx
    <3>1. mem' = mem \/ mem' = [mem EXCEPT !.other = other, !.manifest = @ /\ other = mem.other]
      BY <2>1, WriteAtomic, Zenon DEF Mutate, StoreInv
    <3>2. mem \in Config
      BY Zenon DEF StoreInv, StoreTypeOK
    <3>3. mem'.settings = mem.settings
      BY <3>1, <3>2, Zenon DEF Config
    <3>. QED  BY <2>1, <3>3, Zenon DEF Mutate
  <2>3. at' = [at EXCEPT ![h] = "idle"]
    BY <1>t, <2>1, Zenon
  <2>. QED  BY <2>1, <2>2, <2>3, OutsideKeeps, Zenon DEF InTransaction, Reconciling, HandlerSteps
<1>3. CASE \/ Signal \/ GuestExits \/ NetworkWorkerDies \/ WatcherExits \/ Tick
           \/ \E h \in Handlers : HandleShutdown(h)
  <2>1. /\ UNCHANGED <<at, job, diverged, mem, tx, ssh, control>>
        /\ main' = main \/ main' = "asked"
    BY <1>3, Zenon DEF Signal, GuestExits, NetworkWorkerDies, WatcherExits, Tick, HandleShutdown, storeVars, mainVars,
       handlerVars, serviceVars, planeVars
  <2>. QED  BY <1>t, <2>1, ServicesFramed, Zenon DEF ServicesInv
<1>4. CASE Launch
  <2>1. at' = Idle /\ control' = "none" /\ ssh' = "idle" /\ main' = "load"
    BY <1>4, Zenon DEF Launch
  <2>. QED  BY <2>1, Zenon DEF ServicesInv, HolderKnows, Idle, InTransaction, Reconciling, HandlerSteps
<1>. QED  BY <1>1, <1>2, <1>3, <1>4, Zenon DEF Environment

(* While the control plane is open and no settings are being changed, the  *)
(* gateway runs exactly if the saved settings ask for it (configure,       *)
(* ReconcileSSH, the rollback), unless a failure was reported.             *)
THEOREM GatewayFollowsSettings == Spec => []ServicesFollow
<1>1. Init => ServicesInv
  BY Zenon DEF Init, ServicesInv, HolderKnows, Idle, InTransaction, Reconciling, HandlerSteps
<1>2. ServicesInv /\ StoreInv /\ [Next]_vars => ServicesInv'
  <2>1. ASSUME ServicesInv, UNCHANGED vars
        PROVE  ServicesInv'
    <3>1. UNCHANGED <<at, job, diverged, mem, tx, ssh, main, control>>
      BY <2>1, Zenon DEF vars, storeVars, daemonVars, mainVars, handlerVars, serviceVars, planeVars
    <3>. QED  BY <2>1, <3>1, ServicesFramed, Zenon DEF ServicesInv
  <2>2. ASSUME ServicesInv, NEW h \in Handlers, SessionEnds(h)
        PROVE  ServicesInv'
    <3>1. /\ at[h] = "session" /\ at' = [at EXCEPT ![h] = "idle"]
          /\ UNCHANGED <<mem, tx, ssh, job, diverged, main, control>>
      BY <2>2, Zenon DEF SessionEnds, Go, Elsewhere, storeVars, mainVars, serviceVars, planeVars
    <3>2. control # "none"
      BY <2>2, <3>1, Zenon DEF ServicesInv, Idle
    <3>. QED  BY <2>2, <3>1, <3>2, OutsideKeeps, Zenon DEF InTransaction, Reconciling, HandlerSteps
  <2>. QED
    BY <2>1, <2>2, MainKeepsServices, HandlersKeepServices, BorrowersKeepServices, EventsKeepServices, Zenon DEF Next, Step
<1>3. ServicesInv => ServicesFollow
  BY Zenon DEF ServicesInv, HolderKnows, GatewayOwned, ServicesFollow, InTransaction
<1>4. Spec => []StoreInv
  BY UsesStore, StoreInvariant, PTL
<1>. QED  BY <1>1, <1>2, <1>3, <1>4, PTL DEF Spec

================================================================================
