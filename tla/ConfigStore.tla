------------------------------ MODULE ConfigStore ------------------------------
(***************************************************************************)
(* The owner of sandbox.json in a running daemon (sandbox/config/store.go):*)
(* general mutations (shares, ports, policies, secrets, MCP), and          *)
(* revisioned transactions on the mutable settings (SSH, Dev Containers,   *)
(* resources) that stay open while their caller prepares assets and        *)
(* reconciles services.                                                    *)
(*                                                                         *)
(* A section under ConfigStore.mu is one step and includes the write of    *)
(* the file.  configureMu is held exactly while tx is open, so one tx is   *)
(* enough.  The settings are one value, everything else in the file        *)
(* another; an update is a function on settings.                           *)
(***************************************************************************)
EXTENDS AtomicFile, Integers

CONSTANTS Settings,     \* values of sandboxSettings
          Valid,        \* those ValidateDevContainers and the bounds accept
          Updates,      \* functions from Settings to Settings
          Others,       \* values of the rest of the configuration
          Applied,      \* what a manifest put in place: [settings, other]
          MaxRevision   \* the largest uint64

ASSUME ConfigShape ==
    /\ Valid \subseteq Settings
    /\ Updates \subseteq [Settings -> Settings]
    /\ Applied \in [settings : Valid, other : Others]
    /\ MaxRevision \in Nat

VARIABLES mem,          \* ConfigStore.cfg
          disk,         \* sandbox.json
          tx            \* the transaction that holds configureMu

storeVars == <<mem, disk, tx>>

Config == [settings : Settings, other : Others, revision : 0..MaxRevision, manifest : BOOLEAN]

Closed == [phase |-> "closed"]
Phases == {"open", "unchanged", "committed", "refused", "rolledBack"}
Transaction == [phase : Phases, before : Config, desired : Valid, revision : 0..MaxRevision]

(* The sandbox as a manifest created it.                                   *)
Fresh ==
    /\ mem = [settings |-> Applied.settings, other |-> Applied.other, revision |-> 0, manifest |-> TRUE]
    /\ disk = mem
    /\ tx = Closed

Changed == tx.desired # tx.before.settings

(* writeLocked: memory follows the file.                                   *)
Write(outcome, new) ==
    /\ disk' = FileAfter(outcome, disk, new)
    /\ mem' = FileAfter(outcome, mem, new)

(* No callback of Mutate touches the settings, so the revision stays.      *)
Mutate(other, outcome) ==
    /\ Write(outcome, [mem EXCEPT !.other = other,
                                  !.manifest = @ /\ other = mem.other])
    /\ UNCHANGED tx

(* An update that does not validate closes the transaction at once.        *)
BeginConfiguration(update) ==
    /\ tx = Closed
    /\ tx' = IF update[mem.settings] \in Valid
             THEN [phase |-> "open", before |-> mem, desired |-> update[mem.settings], revision |-> mem.revision]
             ELSE Closed
    /\ UNCHANGED <<mem, disk>>

(* Mutated: the snapshot is written back whole.                            *)
CommitSnapshot(outcome) ==
    /\ tx.phase = "open"
    /\ \/ ~Changed /\ tx' = [tx EXCEPT !.phase = "unchanged"] /\ UNCHANGED <<mem, disk>>
       \/ Changed /\ mem.revision = MaxRevision /\ tx' = [tx EXCEPT !.phase = "refused"] /\ UNCHANGED <<mem, disk>>
       \/ /\ Changed /\ mem.revision # MaxRevision
          /\ Write(outcome, [tx.before EXCEPT !.settings = tx.desired, !.revision = tx.revision + 1, !.manifest = FALSE])
          /\ tx' = IF outcome = "failed" THEN [tx EXCEPT !.phase = "refused"]
                   ELSE [tx EXCEPT !.phase = "committed", !.revision = @ + 1]

(* Commit merges the desired settings into the configuration as it is now. *)
Commit(outcome) ==
    LET stale == mem.revision # tx.revision
        write == ~stale /\ Changed /\ mem.revision # MaxRevision
    IN  /\ tx.phase = "open"
        /\ IF write
           THEN Write(outcome, [mem EXCEPT !.settings = tx.desired, !.revision = @ + 1, !.manifest = FALSE])
           ELSE UNCHANGED <<mem, disk>>
        /\ tx' = CASE ~stale /\ ~Changed -> [tx EXCEPT !.phase = "unchanged"]
                   [] write /\ outcome # "failed" -> [tx EXCEPT !.phase = "committed", !.revision = @ + 1]
                   [] OTHER -> [tx EXCEPT !.phase = "refused"]

(* Rollback restores the settings alone, as a new revision.                *)
Rollback(outcome) ==
    LET write == mem.revision = tx.revision /\ mem.revision # MaxRevision
    IN  /\ tx.phase = "committed"
        /\ IF write
           THEN Write(outcome, [mem EXCEPT !.settings = tx.before.settings, !.revision = @ + 1])
           ELSE UNCHANGED <<mem, disk>>
        /\ tx' = IF write /\ outcome # "failed" THEN [tx EXCEPT !.phase = "rolledBack"] ELSE tx

CloseTransaction ==
    /\ tx # Closed
    /\ tx' = Closed
    /\ UNCHANGED <<mem, disk>>

(* LoadConfigStore in the next daemon.                                     *)
LoadConfigStore ==
    /\ mem' = disk
    /\ tx' = Closed
    /\ UNCHANGED disk

StoreNext ==
    \/ \E outcome \in SaveOutcomes : Commit(outcome) \/ Rollback(outcome) \/ \E other \in Others : Mutate(other, outcome)
    \/ \E update \in Updates : BeginConfiguration(update)
    \/ CloseTransaction \/ LoadConfigStore

StoreSpec == Fresh /\ [][StoreNext]_storeVars

--------------------------------------------------------------------------------

StoreTypeOK ==
    /\ mem \in Config /\ disk \in Config
    /\ tx \in Transaction \cup {Closed}

(* While a transaction is open its revision is the store's: no plan is     *)
(* ever committed or rolled back over settings it was not made for, so the *)
(* conflict answer of Commit and Rollback is never given                   *)
(* (ErrConfigurationConflict).                                             *)
TransactionOwnsRevision ==
    tx.phase \in {"open", "committed"} => mem.revision = tx.revision

(* Memory and file agree whenever the store's mutex is free, whichever     *)
(* write failed and however (Mutate, Commit, Rollback).                    *)
MemoryIsFile == mem = disk

(* Declarative provenance is never claimed for a configuration that was    *)
(* changed by hand since, not even by a change that was rolled back to the *)
(* manifest's values later ("clear it whenever persisted behavior actually *)
(* changes").                                                              *)
ManifestHonest ==
    mem.manifest => mem.settings = Applied.settings /\ mem.other = Applied.other

(* Settings never change without a new revision and no revision comes back *)
(* ("stale plans can never become valid later"); and a transaction leaves  *)
(* alone what other clients changed while it was open: Commit and Rollback *)
(* merge into the latest configuration.                                    *)
TransactionsIsolated ==
    [][/\ mem'.revision >= mem.revision
       /\ mem'.settings # mem.settings => mem'.revision > mem.revision
       /\ tx' # tx => mem'.other = mem.other /\ disk'.other = disk.other]_storeVars
================================================================================
