--------------------------- MODULE LivePolicyProofs ---------------------------
(***************************************************************************)
(* What a live change of the organization policy keeps for any policies,   *)
(* ports, shares and faults: one generation governs, the exports are       *)
(* judged by it, and sandbox.json holds what the answers promised.         *)
(***************************************************************************)
EXTENDS LivePolicy, TLAPS

--------------------------------------------------------------------------------
(* Types, and who holds which lock.                                            *)

Org == [op |-> "org"]
SetTx == [op : {"set"}, at : {"save", "undo"}, policy : [local : Locals, org : Orgs]]
PortTx == [op : {"publish", "unpublish"}, at : {"save", "undo"}, forward : Forwards,
           live : SUBSET Forwards]

Inside == {"barrier", "network", "shares", "save", "publish", "undo shares", "undo network"}
Outside == {"block", "enter", "release", "unblock"}
Updates == [at : Inside \cup Outside, org : Orgs, engine : Orgs, network : Policies,
            failed : {"no", "if closed", "yes"}]

Exported == [source : Sources, denied : BOOLEAN, ephemeral : BOOLEAN]
Shares == [Tags -> Sources \cup {NoShare}]
Changes == [op : {"add", "promote", "remove"}, at : {"save", "announce", "publish", "undo"},
            tag : Tags, source : Sources \cup {NoShare}, persistent : BOOLEAN, force : BOOLEAN,
            old : Shares]

NetTyped ==
    /\ running \in BOOLEAN /\ enforced \in Policies /\ current \in Policies
    /\ saved \in [local : Locals, org : Orgs, ports : SUBSET Forwards]
    /\ forwards \subseteq Forwards
    /\ tx \in {Free, Org} \cup SetTx \cup PortTx

SharesTyped ==
    /\ exports \in [Tags -> Exported \cup {NoShare}]
    /\ savedShares \in Shares /\ told \in Shares
    /\ hub \in {"active", "closed"}
    /\ change \in Changes \cup {Idle}
    /\ change.op = "add" => change.source \in Sources
    /\ change.op = "promote" => exports[change.tag] # NoShare

(* An update holds its barrier, and the network lock from its transaction  *)
(* on; nothing is held while the daemon is down.                           *)
Held ==
    /\ engine \in Orgs /\ update \in Updates \cup {None}
    /\ update # None => running /\ govBlocked
    /\ tx = Org <=> update.at \in Inside
    /\ ~ running => tx = Free /\ engine = saved.org /\ change = Idle

Typed == NetTyped /\ SharesTyped /\ Held

--------------------------------------------------------------------------------
(* Generations.                                                                *)

(* What each step of an update leaves the next one: the controller and     *)
(* sandbox.json are of one generation, but for the moment between saving   *)
(* and publishing, and so is the network policy the update would restore.  *)
Generations ==
    /\ update.at # "publish" => engine = saved.org
    /\ update.at = "publish" => saved.org = update.org
    /\ update.at \in Outside \cup {"none", "barrier"} => enforced.org = engine /\ current.org = engine
    /\ update.at \in Inside => update.network.org = engine
    /\ update.at = "network" => enforced \in Barriers
    /\ update.at \in {"shares", "save", "publish", "undo shares"} =>
          enforced.org = update.org /\ current.org = update.org
    /\ update.at = "undo network" => enforced \in Barriers \/ enforced.org = update.org
    /\ tx \in SetTx => tx.policy.org = current.org

--------------------------------------------------------------------------------
(* Shares.                                                                     *)

JudgedBy(org, es) == \A t \in Tags : es[t] # NoShare => es[t].denied = ~ Allowed(org, es[t].source)
Judged(org) == JudgedBy(org, exports)

(* The exports are judged by the generation that ends up in force.         *)
Judgement ==
    hub = "active" =>
        /\ update.at \notin {"none", "block", "unblock"} => hubBlocked
        /\ update.at \in {"save", "publish"} => Judged(update.org)
        /\ /\ update.at \notin {"save", "publish", "undo shares"}
           /\ update.at = "undo network" => update.failed # "yes"
           => Judged(engine)
        /\ update.at \notin {"none", "release", "unblock"} => update.engine = engine

(* A share is added under the generation that authorised it.               *)
Authorised ==
    change.op = "add" => /\ update.at \notin {"save", "publish", "undo shares"}
                         /\ Allowed(engine, change.source)

(* What is saved differs from what was promised by the change in progress. *)
Promised ==
    hub = "active" =>
        /\ change = Idle => savedShares = told
        /\ change # Idle => change.old = told /\ (change.at = "save" => change.persistent)
        /\ change # Idle /\ (change.at = "save" \/ ~ change.persistent) => savedShares = told
        /\ change # Idle /\ change.at # "save" /\ change.persistent =>
              savedShares = [told EXCEPT ![change.tag] = change.source]

--------------------------------------------------------------------------------
(* Ports and sandbox.json.                                                     *)

Sound(p) == ValidFor(p, saved.ports) /\ ValidFor(p, forwards)

(* What a restart would boot is what runs, or what the holder of the       *)
(* network lock goes back to.                                              *)
Agreed ==
    /\ ValidFor(BootPolicy, saved.ports)
    /\ running => ValidFor(BootPolicy, forwards)
    /\ tx = Free \/ tx \in PortTx => enforced = BootPolicy /\ current = BootPolicy
    /\ tx \in SetTx => /\ enforced = tx.policy /\ current = BootPolicy
                       /\ Sound(tx.policy) /\ tx.policy.org = saved.org
    /\ tx \in PortTx /\ tx.op = "publish" => ValidFor(BootPolicy, {tx.forward})

(* An update goes back to what a restart would boot until it has saved,    *)
(* and what it moves to boots as well.                                     *)
Prepared ==
    /\ update.at \in Inside \ {"publish"} => update.network = BootPolicy
    /\ update.at \in {"barrier", "network"} => ValidFor(NextNetwork, saved.ports)
    /\ update.at \in {"shares", "save", "publish", "undo shares"} =>
          enforced = NextNetwork /\ current = NextNetwork /\ Sound(NextNetwork)
    /\ update.at = "publish" => NextNetwork = BootPolicy

--------------------------------------------------------------------------------
(* Every step keeps the types.                                                 *)

(* The kind of a transaction tells what it holds.                          *)
LEMMA TxKinds ==
    ASSUME NetTyped
    PROVE  /\ tx.op = "set" <=> tx \in SetTx
           /\ tx.op \in {"publish", "unpublish"} <=> tx \in PortTx
           /\ tx = Free => tx.op = "none"
           /\ tx = Org => tx.op = "org"
           /\ tx \in SetTx => /\ tx.at \in {"save", "undo"}
                              /\ [tx EXCEPT !.at = "undo"] \in SetTx
                              /\ tx.policy \in [local : Locals, org : Orgs] /\ tx.policy \in Policies
           /\ tx \in PortTx => /\ tx.at \in {"save", "undo"} /\ tx.forward \in Forwards
                               /\ [tx EXCEPT !.at = "undo"] \in PortTx
<1>1. CASE tx = Free
  BY <1>1, Zenon DEF Free, SetTx, PortTx, Org
<1>2. CASE tx = Org
  BY <1>2, Zenon DEF Free, SetTx, PortTx, Org
<1>3. CASE tx \in SetTx
  <2>1. tx.op = "set" /\ tx.at \in {"save", "undo"} /\ tx.policy \in [local : Locals, org : Orgs]
    BY <1>3, Zenon DEF SetTx
  <2>2. tx.policy \in Policies
    BY <2>1, Zenon DEF Policies
  <2>3. [tx EXCEPT !.at = "undo"] \in SetTx
    BY <1>3, Zenon DEF SetTx
  <2>4. tx \notin PortTx /\ tx # Free /\ tx # Org
    BY <2>1 DEF PortTx, Free, Org
  <2> QED
    BY <1>3, <2>1, <2>2, <2>3, <2>4, Zenon
<1>4. CASE tx \in PortTx
  BY <1>4 DEF Free, SetTx, PortTx, Org
<1> QED
  BY <1>1, <1>2, <1>3, <1>4, Zenon DEF NetTyped

(* The steps of the local network requests,                                *)
LEMMA NetStepTyped == ASSUME NetTyped, NetStep PROVE NetTyped'
<1> USE DEF NetTyped
<1>1. ASSUME NEW l \in Locals, Set(l) PROVE NetTyped'
  <2> DEFINE p == Effective(l, current.org)
  <2>1. p \in [local : Locals, org : Orgs] /\ p \in Policies
    BY Zenon DEF Effective, Policies
  <2>2. enforced' = p /\ tx' = [op |-> "set", at |-> "save", policy |-> p]
    BY <1>1, Zenon DEF Set
  <2> HIDE DEF p
  <2>3. tx' \in SetTx
    BY <2>1, <2>2, Zenon DEF SetTx
  <2> QED
    BY <1>1, <2>1, <2>2, <2>3, Zenon DEF Set
<1>2. ASSUME NEW outcome, SaveSet(outcome) PROVE NetTyped'
  <2>1. tx \in SetTx
    BY <1>2, TxKinds, Zenon DEF SaveSet
  <2>2. [saved EXCEPT !.local = tx.policy.local] \in [local : Locals, org : Orgs, ports : SUBSET Forwards]
    <3>1. tx.policy.local \in Locals
      <4>1. tx.policy \in [local : Locals, org : Orgs]
        BY <2>1, TxKinds, Zenon
      <4> QED
        BY <4>1, Zenon
    <3> QED
      BY <3>1, Zenon
  <2> QED
    BY <1>2, <2>1, <2>2, TxKinds, Zenon DEF SaveSet, FileAfter
<1>3. ASSUME NEW fault, UndoSet(fault) PROVE NetTyped'
  BY <1>3, Zenon DEF UndoSet
<1>4. ASSUME NEW f \in Forwards, NEW persistent, Publish(f, persistent) PROVE NetTyped'
  <2>1. [op |-> "publish", at |-> "save", forward |-> f, live |-> forwards] \in PortTx
    BY Zenon DEF PortTx
  <2>2. forwards' \subseteq Forwards
    BY <1>4, Zenon DEF Publish
  <2> QED
    BY <1>4, <2>1, <2>2, Zenon DEF Publish
<1>5. ASSUME NEW outcome, SavePublish(outcome) PROVE NetTyped'
  <2>1. tx \in PortTx
    BY <1>5, TxKinds, Zenon DEF SavePublish
  <2>2. [saved EXCEPT !.ports = Appended(@, tx.forward)] \in [local : Locals, org : Orgs, ports : SUBSET Forwards]
    <3>1. tx.forward \in Forwards
      BY <2>1, TxKinds, Zenon
    <3> QED
      BY <3>1, Zenon DEF Appended, WithoutKey
  <2> QED
    BY <1>5, <2>1, <2>2, TxKinds, Zenon DEF SavePublish, FileAfter
<1>6. ASSUME NEW fault, UndoPublish(fault) PROVE NetTyped'
  BY <1>6, Zenon DEF UndoPublish, WithoutKey
<1>7. ASSUME NEW f \in Forwards, NEW persistent, Unpublish(f, persistent) PROVE NetTyped'
  <2>1. [op |-> "unpublish", at |-> "save", forward |-> f, live |-> forwards] \in PortTx
    BY Zenon DEF PortTx
  <2>2. forwards' \subseteq Forwards
    BY <1>7, Zenon DEF Unpublish, WithoutKey
  <2> QED
    BY <1>7, <2>1, <2>2, Zenon DEF Unpublish
<1>8. ASSUME NEW outcome, SaveUnpublish(outcome) PROVE NetTyped'
  <2>1. tx \in PortTx
    BY <1>8, TxKinds, Zenon DEF SaveUnpublish
  <2>2. [saved EXCEPT !.ports = WithoutKey(@, tx.forward)] \in [local : Locals, org : Orgs, ports : SUBSET Forwards]
    BY Zenon DEF WithoutKey
  <2> QED
    BY <1>8, <2>1, <2>2, TxKinds, Zenon DEF SaveUnpublish, FileAfter
<1>9. ASSUME NEW fault, UndoUnpublish(fault) PROVE NetTyped'
  <2>1. tx.forward \in Forwards
    BY <1>9, TxKinds, Zenon DEF UndoUnpublish
  <2> QED
    BY <1>9, <2>1, Zenon DEF UndoUnpublish
<1> QED
  BY <1>1, <1>2, <1>3, <1>4, <1>5, <1>6, <1>7, <1>8, <1>9, Zenon DEF NetStep, NetFinish

(* A share change is in progress or the manager is idle; moving on to the  *)
(* next step keeps what the change is about.                               *)
LEMMA ChangeKinds ==
    ASSUME SharesTyped
    PROVE  /\ Idle.op = "none" /\ (change = Idle <=> change.op = "none")
           /\ change # Idle => /\ change \in Changes /\ change.tag \in Tags /\ change.old \in Shares
                               /\ change.source \in Sources \cup {NoShare}
<1>1. Idle.op = "none" /\ \A c \in Changes : c.op # "none" /\ c # Idle
  BY DEF Idle, Changes
<1>2. change = Idle \/ change \in Changes
  BY Zenon DEF SharesTyped
<1>3. \A c \in Changes : c.tag \in Tags /\ c.old \in Shares /\ c.source \in Sources \cup {NoShare}
  BY Zenon DEF Changes
<1> QED
  BY <1>1, <1>2, <1>3, Zenon

(* A share request that moves on to another step stays the same request.   *)
LEMMA ChangeMoves ==
    ASSUME NEW c \in Changes, NEW at \in {"save", "announce", "publish", "undo"}
    PROVE  LET d == [c EXCEPT !.at = at] IN
           /\ d \in Changes /\ d # Idle /\ d.op # "none"
           /\ d.at = at /\ d.op = c.op /\ d.tag = c.tag /\ d.source = c.source
           /\ d.persistent = c.persistent /\ d.force = c.force /\ d.old = c.old
  BY Zenon DEF Changes, Idle

(* those of the share requests,                                            *)
LEMMA ShareStepTyped == ASSUME SharesTyped, ShareStep PROVE SharesTyped'
<1> USE DEF SharesTyped
<1>1. ASSUME NEW op \in {"add", "promote", "remove"}, NEW tag \in Tags, NEW source \in Sources \cup {NoShare},
             NEW persistent \in BOOLEAN, NEW force \in BOOLEAN, Begin(op, tag, source, persistent, force),
             op = "add" => source \in Sources, op = "promote" => exports[tag] # NoShare,
             UNCHANGED <<exports, hub, savedShares, told>>
      PROVE  SharesTyped'
  BY <1>1, Zenon DEF Begin, Changes
<1>2. ASSUME NEW tag \in Tags, NEW source \in Sources, NEW persistent \in BOOLEAN, NEW replace,
             Add(tag, source, persistent, replace)
      PROVE  SharesTyped'
  BY <1>1, <1>2, Zenon DEF Add
<1>3. ASSUME NEW tag \in Tags, Promote(tag) PROVE SharesTyped'
  <2>1. exports[tag].source \in Sources
    BY <1>3, Zenon DEF Promote, Live, Exported
  <2> QED
    BY <1>1, <1>3, <2>1, Zenon DEF Promote, Live
<1>4. ASSUME NEW tag \in Tags, NEW persistent \in BOOLEAN, NEW force \in BOOLEAN,
             Remove(tag, persistent, force)
      PROVE  SharesTyped'
  <2>1. (persistent /\ ~ exports[tag].ephemeral) \in BOOLEAN
    BY Zenon
  <2> QED
    BY <1>1, <1>4, <2>1, Zenon DEF Remove
<1>5. ASSUME NEW outcome, Save(outcome) PROVE SharesTyped'
  <2>1. change \in Changes /\ change.tag \in Tags /\ change.source \in Sources \cup {NoShare}
    BY <1>5, ChangeKinds, Zenon DEF Save
  <2>2. [savedShares EXCEPT ![change.tag] = change.source] \in Shares
    BY <2>1, Zenon DEF Shares
  <2>3. savedShares' \in Shares /\ told' \in Shares /\ exports' = exports /\ hub' = hub
    BY <1>5, <2>2, Zenon DEF Save, FileAfter
  <2>4. CASE change' = Idle
    BY <2>3, <2>4, ChangeKinds, Zenon
  <2>5. CASE change' = [change EXCEPT !.at = "announce"]
    BY <2>1, <2>3, <2>5, ChangeMoves, Zenon
  <2> QED
    BY <1>5, <2>4, <2>5, Zenon DEF Save
<1>6. ASSUME NEW manifest, Announce(manifest) PROVE SharesTyped'
  BY <1>6, Zenon DEF Announce, Changes, Idle
<1>7. ASSUME NEW outcome, NEW manifest, Undo(outcome, manifest) PROVE SharesTyped'
  BY <1>7 DEF Undo, FileAfter, Changes, Idle
<1>8. ASSUME NEW manifest, Finish(manifest) PROVE SharesTyped'
  <2>1. change \in Changes /\ change.tag \in Tags /\ change.source \in Sources \cup {NoShare}
    BY <1>8, ChangeKinds, Zenon DEF Finish
  <2>2. told' \in Shares
    BY <1>8, <2>1, Zenon DEF Finish, Shares
  <2>3. \A e \in Exported : [e EXCEPT !.ephemeral = FALSE] \in Exported
    BY Zenon DEF Exported
  <2>4. \A x \in Sources : Export(x, ~ change.persistent) \in Exported
    BY <2>1, Zenon DEF Export, Exported, Changes
  <2>5. change.op = "add" \/ change.op = "promote" \/ change.op = "remove"
    BY <2>1, Zenon DEF Changes
  <2>6. exports[change.tag] \in Exported \cup {NoShare}
    BY <2>1, Zenon
  <2>7. exports' \in [Tags -> Exported \cup {NoShare}]
    <3>1. \E e \in Exported \cup {NoShare} : exports' = [exports EXCEPT ![change.tag] = e]
      BY <1>8, <2>3, <2>4, <2>5, <2>6, Zenon DEF Finish
    <3> QED
      BY <3>1, Zenon
  <2> QED
    BY <1>8, <2>2, <2>7, ChangeKinds, Zenon DEF Finish
<1>9. ASSUME NEW tag \in Tags, NEW source \in Sources, NEW replace, NEW outcome,
             ConfigureRestart(tag, source, replace, outcome)
      PROVE  SharesTyped'
  BY <1>9, Zenon DEF ConfigureRestart, FileAfter, Shares
<1>10. ASSUME NEW d, Forget(d) PROVE SharesTyped'
  BY <1>10, Zenon DEF Forget
<1> QED
  BY <1>2, <1>3, <1>4, <1>5, <1>6, <1>7, <1>8, <1>9, <1>10, Zenon DEF ShareStep, ShareFinish

(* An update is at one of its steps.                                       *)
LEMMA UpdateKinds ==
    ASSUME Held
    PROVE  /\ None.at = "none" /\ (update = None <=> update.at = "none")
           /\ update # None => /\ update \in Updates /\ update.at \in Inside \cup Outside
                               /\ update.org \in Orgs /\ update.engine \in Orgs
                               /\ update.network \in Policies
<1>1. None.at = "none" /\ \A u \in Updates : u.at # "none" /\ u # None
  <2>1. "none" \notin Inside \cup Outside /\ None.at = "none"
    BY Zenon DEF None, Inside, Outside
  <2> QED
    BY <2>1, Zenon DEF Updates
<1>2. update = None \/ update \in Updates
  BY Zenon DEF Held
<1>3. \A u \in Updates : /\ u.at \in Inside \cup Outside /\ u.org \in Orgs /\ u.engine \in Orgs
                         /\ u.network \in Policies
  BY Zenon DEF Updates
<1> QED
  BY <1>1, <1>2, <1>3, Zenon

(* The network requests and an update exclude each other.                  *)
LEMMA NetStepLock ==
    ASSUME NetTyped, Held, NetStep
    PROVE  running /\ running' /\ tx # Org /\ tx' # Org
<1>1. CASE tx = Free
  <2>1. ~ NetFinish
    BY <1>1, TxKinds, Zenon DEF NetFinish, SaveSet, SavePublish, SaveUnpublish, UndoSet, UndoPublish,
        UndoUnpublish
  <2>2. /\ running /\ running' = running /\ tx.op # "org"
        /\ \/ tx' = Free
           \/ \E p : tx' = [op |-> "set", at |-> "save", policy |-> p]
           \/ \E f, l : tx' = [op |-> "publish", at |-> "save", forward |-> f, live |-> l]
           \/ \E f, l : tx' = [op |-> "unpublish", at |-> "save", forward |-> f, live |-> l]
    BY <1>1, <2>1, TxKinds, Zenon DEF NetStep, Set, Publish, Unpublish
  <2>3. tx'.op # "org" /\ Org.op = "org"
    BY <2>2 DEF Free, Org
  <2> QED
    BY <2>2, <2>3, Zenon
<1>2. CASE tx # Free
  <2>1. running
    BY <1>2, Zenon DEF Held
  <2>2. NetFinish
    BY <1>2, Zenon DEF NetStep, Set, Publish, Unpublish
  <2>3. running' = running /\ tx.op # "org" /\ (tx' = Free \/ tx' = [tx EXCEPT !.at = "undo"])
        /\ (tx \in SetTx \/ tx \in PortTx)
    BY <2>2, TxKinds, Zenon DEF NetFinish, SaveSet, SavePublish, SaveUnpublish, UndoSet, UndoPublish,
        UndoUnpublish
  <2>4. tx' = Free \/ tx' \in SetTx \/ tx' \in PortTx
    BY <2>3, TxKinds, Zenon
  <2>5. Org # Free /\ Org \notin SetTx /\ Org \notin PortTx
    BY Zenon DEF Org, Free, SetTx, PortTx
  <2> QED
    BY <2>1, <2>3, <2>4, <2>5, TxKinds, Zenon
<1> QED
  BY <1>1, <1>2, Zenon

(* Judging the exports, or failing to, keeps the types of the shares.      *)
LEMMA ReconcileTyped ==
    ASSUME SharesTyped, NEW org, Reconciled(org) \/ ReconcileUndone \/ ReconcileFails
    PROVE  SharesTyped' /\ change' = Idle
<1>1. ASSUME NEW denied, SetPolicyAccess(denied) PROVE exports' \in [Tags -> Exported \cup {NoShare}]
  <2>1. \A e \in Exported, b \in BOOLEAN : [e EXCEPT !.denied = b] \in Exported
    BY Zenon DEF Exported
  <2>2. \A t \in Live : exports[t] \in Exported
    BY Zenon DEF Live, SharesTyped
  <2>3. \A t \in Tags : (t \in denied) \in BOOLEAN
    OBVIOUS
  <2>4. \A t \in Live : [exports[t] EXCEPT !.denied = t \in denied] \in Exported
    <3>1. TAKE t \in Live
    <3>2. exports[t] \in Exported /\ (t \in denied) \in BOOLEAN
      BY <2>2, <2>3, Zenon DEF Live
    <3> DEFINE b == t \in denied
    <3>3. b \in BOOLEAN
      BY <3>2, Zenon
    <3> HIDE DEF b
    <3>4. [exports[t] EXCEPT !.denied = b] \in Exported
      BY <2>1, <3>2, <3>3, Zenon
    <3> QED
      BY <3>4, Zenon DEF b
  <2> QED
    BY <1>1, <2>4, Zenon DEF SetPolicyAccess
<1>2. exports' \in [Tags -> Exported \cup {NoShare}]
  BY <1>1, Zenon DEF Reconciled, ReconcileUndone, ReconcileFails, SharesTyped
<1>3. /\ change' = Idle /\ UNCHANGED <<savedShares, told>>
      /\ hub' \in {"active", "closed"}
  BY Zenon DEF Reconciled, ReconcileUndone, ReconcileFails, Ready, SharesTyped
<1> QED
  BY <1>2, <1>3, ChangeKinds, Zenon DEF SharesTyped

(* Where an update goes next, and what it is about.                        *)
Moved(to) ==
    /\ update' \in Updates /\ update'.at = to
    /\ update'.org = update.org /\ update'.engine = update.engine

(* Each way in which the code moves an update on is one, and keeps the     *)
(* policy it carries and whether it failed, but for the one it sets.       *)
LEMMA Moves ==
    ASSUME Held, update # None, NEW to \in Inside \cup Outside
    PROVE  /\ Goto(to) => Moved(to) /\ update'.network = update.network /\ update'.failed = update.failed
           /\ \A p \in Policies : update' = [update EXCEPT !.network = p, !.at = to] =>
                 Moved(to) /\ update'.network = p /\ update'.failed = update.failed
           /\ \A f \in {"no", "if closed", "yes"} : update' = [update EXCEPT !.at = to, !.failed = f] =>
                 Moved(to) /\ update'.network = update.network /\ update'.failed = f
<1>1. update \in Updates
  BY UpdateKinds, Zenon
<1>2. ASSUME Goto(to)
      PROVE  Moved(to) /\ update'.network = update.network /\ update'.failed = update.failed
  BY <1>1, <1>2, Zenon DEF Goto, Moved, Updates
<1>3. ASSUME NEW p \in Policies, update' = [update EXCEPT !.network = p, !.at = to]
      PROVE  Moved(to) /\ update'.network = p /\ update'.failed = update.failed
  BY <1>1, <1>3, Zenon DEF Moved, Updates
<1>4. ASSUME NEW f \in {"no", "if closed", "yes"}, update' = [update EXCEPT !.at = to, !.failed = f]
      PROVE  Moved(to) /\ update'.network = update.network /\ update'.failed = f
  BY <1>1, <1>4, Zenon DEF Moved, Updates
<1> QED
  BY <1>2, <1>3, <1>4, Zenon

(* What each step of an update does to it.                                 *)
Now(to, network, failed) ==
    /\ update'.at = to /\ update'.org = update.org /\ update'.engine = update.engine
    /\ update'.network = network /\ update'.failed = failed
NowAt(to) == Now(to, update.network, update.failed)

(* What each step of an update requires of it and makes of it: the order   *)
(* of the steps, and of the undo when one of them fails.                   *)
LEMMA Steps ==
    ASSUME Held, NetTyped
    PROVE  /\ BlockShares => update.at = "block" /\ NowAt("enter")
           /\ EnterTransaction => /\ update.at = "enter"
                                  /\ \/ Now("barrier", current, update.failed) /\ tx' = Org
                                     \/ NowAt("release") /\ tx' = tx
           /\ \A fault : EnterBarrier(fault) =>
                 update.at = "barrier" /\ NowAt(IF fault = "none" THEN "network" ELSE "release")
           /\ \A fault : ApplyNetwork(fault) =>
                 update.at = "network" /\ (NowAt("shares") \/ NowAt("undo network"))
           /\ Reconcile => /\ update.at = "shares"
                           /\ \/ Reconciled(update.org) /\ NowAt("save")
                              \/ /\ ReconcileUndone \/ ReconcileFails
                                 /\ Now("undo network", update.network, "if closed")
           /\ \A outcome : SavePolicy(outcome) =>
                 update.at = "save" /\ NowAt(IF outcome = "failed" THEN "undo shares" ELSE "publish")
           /\ PublishEngine => update.at = "publish" /\ NowAt("release")
           /\ ReleaseShares => update.at = "release" /\ NowAt("unblock")
           /\ Unblock => update.at = "unblock" /\ update'.at = "none"
           /\ UndoShares => /\ update.at = "undo shares"
                            /\ \/ Reconciled(update.engine) /\ NowAt("undo network")
                               \/ /\ ReconcileUndone \/ ReconcileFails
                                  /\ Now("undo network", update.network, "yes")
           /\ \A fault : UndoNetwork(fault) =>
                 update.at = "undo network" /\ (NowAt("release") \/ update'.at = "none")
<1>0. /\ None.at = "none"
      /\ {"barrier", "network", "shares", "save", "publish", "undo shares", "undo network"} \subseteq Inside \cup Outside
      /\ {"block", "enter", "release", "unblock"} \subseteq Inside \cup Outside
  BY Zenon DEF None, Inside, Outside
<1>1. ASSUME NEW to \in Inside \cup Outside, update.at # "none", Goto(to) PROVE NowAt(to)
  BY <1>1, UpdateKinds, Moves, Zenon DEF Moved, NowAt, Now
<1>2. ASSUME update.at # "none", update' = [update EXCEPT !.network = current, !.at = "barrier"]
      PROVE  Now("barrier", current, update.failed)
  <2>1. "barrier" \in Inside \cup Outside /\ update # None /\ current \in Policies
    BY <1>0, <1>2, UpdateKinds, Zenon DEF NetTyped
  <2> QED
    BY <1>2, <2>1, Moves, Zenon DEF Moved, Now
<1>3. ASSUME update.at # "none", NEW f \in {"if closed", "yes"},
             update' = [update EXCEPT !.at = "undo network", !.failed = f]
      PROVE  Now("undo network", update.network, f)
  BY <1>0, <1>3, UpdateKinds, Moves, Zenon DEF Moved, Now
<1>4. BlockShares => update.at = "block" /\ NowAt("enter")
  BY <1>0, <1>1, Zenon DEF BlockShares
<1>5. EnterTransaction => /\ update.at = "enter"
                          /\ \/ Now("barrier", current, update.failed) /\ tx' = Org
                             \/ NowAt("release") /\ tx' = tx
  BY <1>0, <1>1, <1>2, Zenon DEF EnterTransaction, Org
<1>6. \A fault : EnterBarrier(fault) =>
         update.at = "barrier" /\ NowAt(IF fault = "none" THEN "network" ELSE "release")
  BY <1>0, <1>1, Zenon DEF EnterBarrier, LeaveTransaction
<1>7. \A fault : ApplyNetwork(fault) => update.at = "network" /\ (NowAt("shares") \/ NowAt("undo network"))
  BY <1>0, <1>1, Zenon DEF ApplyNetwork
<1>8. Reconcile => /\ update.at = "shares"
                   /\ \/ Reconciled(update.org) /\ NowAt("save")
                      \/ /\ ReconcileUndone \/ ReconcileFails
                         /\ Now("undo network", update.network, "if closed")
  BY <1>0, <1>1, <1>3, Zenon DEF Reconcile
<1>9. \A outcome : SavePolicy(outcome) =>
         update.at = "save" /\ NowAt(IF outcome = "failed" THEN "undo shares" ELSE "publish")
  BY <1>0, <1>1, Zenon DEF SavePolicy
<1>10. PublishEngine => update.at = "publish" /\ NowAt("release")
  BY <1>0, <1>1, Zenon DEF PublishEngine, LeaveTransaction
<1>11. ReleaseShares => update.at = "release" /\ NowAt("unblock")
  BY <1>0, <1>1, Zenon DEF ReleaseShares
<1>12. Unblock => update.at = "unblock" /\ update'.at = "none"
  BY <1>0, Zenon DEF Unblock
<1>13. UndoShares => /\ update.at = "undo shares"
                     /\ \/ Reconciled(update.engine) /\ NowAt("undo network")
                        \/ /\ ReconcileUndone \/ ReconcileFails
                           /\ Now("undo network", update.network, "yes")
  BY <1>0, <1>1, <1>3, Zenon DEF UndoShares
<1>14. \A fault : UndoNetwork(fault) =>
          update.at = "undo network" /\ (NowAt("release") \/ update'.at = "none")
  BY <1>0, <1>1, Zenon DEF UndoNetwork, Settle
<1> QED
  BY <1>4, <1>5, <1>6, <1>7, <1>8, <1>9, <1>10, <1>11, <1>12, <1>13, <1>14, Zenon

(* An update that goes on keeps what it holds.                             *)
LEMMA HeldOn ==
    ASSUME Held, update # None, NEW to \in Inside \cup Outside, Moved(to),
           UNCHANGED <<running, govBlocked>>, engine' \in Orgs, tx' = Org <=> to \in Inside
    PROVE  Held'
  BY Zenon DEF Held, Moved

(* Only the policies and the lock change in an update's network steps.     *)
LEMMA NetKept ==
    ASSUME NetTyped, UNCHANGED <<running, forwards, saved>>, enforced' \in Policies, current' \in Policies,
           tx' = tx \/ tx' = Free \/ tx' = Org
    PROVE  NetTyped'
  BY Zenon DEF NetTyped

(* A step that leaves the shares alone leaves them their types.           *)
LEMMA SharesKept ==
    ASSUME SharesTyped, UNCHANGED <<exports, hub, savedShares, change, told>>
    PROVE  SharesTyped'
  BY Zenon DEF SharesTyped

(* Every policy an update puts in force is one.                            *)
LEMMA PoliciesKnown ==
    ASSUME Typed
    PROVE  /\ \A fs : FailClosedPolicy(fs) \in Policies
           /\ update # None => NextNetwork \in Policies
           /\ Free # Org
<1>1. \A fs : FailClosedPolicy(fs) \in Policies
  BY OrgsKnown, Zenon DEF FailClosedPolicy, Effective, Policies
<1>2. ASSUME update # None PROVE NextNetwork \in Policies
  <2>1. update.network \in Policies /\ update.org \in Orgs
    BY <1>2, UpdateKinds, Zenon DEF Typed
  <2> QED
    BY <2>1, Zenon DEF NextNetwork, Effective, Policies
<1>3. Free # Org
  BY Zenon DEF Free, Org
<1> QED
  BY <1>1, <1>2, <1>3, Zenon

(* those of an update,                                                     *)
LEMMA UpdateTyped ==
    ASSUME Typed, UpdateStep \/ \E org \in Orgs : Apply(org)
    PROVE  Typed'
<1> USE DEF Typed
<1>0. /\ {"barrier", "network", "shares", "save", "publish", "undo shares", "undo network"} \subseteq Inside
      /\ {"block", "enter", "release", "unblock"} \subseteq Outside
      /\ \A x \in Outside : x \notin Inside
      /\ "none" \notin Inside
  BY Zenon DEF Inside, Outside
<1>1. ASSUME NEW org \in Orgs, Apply(org) PROVE Typed'
  <2>1. [at |-> "block", org |-> org, engine |-> engine, network |-> current, failed |-> "no"] \in Updates
    BY <1>0, Zenon DEF Updates, NetTyped, Held
  <2>2. update' \in Updates /\ update'.at = "block" /\ tx # Org
    BY <1>0, <1>1, <2>1, UpdateKinds, Zenon DEF Apply, Held
  <2>3. Held'
    BY <1>0, <1>1, <2>2, Zenon DEF Apply, Held, netVars
  <2> QED
    BY <1>1, <2>3, NetKept, SharesKept, Zenon DEF Apply, NetTyped, netVars
<1> SUFFICES ASSUME update # None, UpdateStep PROVE Typed'
  BY <1>1, UpdateKinds, Zenon DEF UpdateStep, BlockShares, EnterTransaction, Reconcile, PublishEngine,
      ReleaseShares, Unblock, UndoShares, EnterBarrier, ApplyNetwork, UndoNetwork, SavePolicy
<1>k. update.at \in Inside <=> tx = Org
  BY Zenon DEF Held
<1>2. CASE BlockShares
  <2>1. Held'
    BY <1>0, <1>k, <1>2, Moves, HeldOn, Zenon DEF BlockShares, Held, netVars
  <2> QED
    BY <1>2, <2>1, NetKept, SharesKept, Zenon DEF BlockShares, NetTyped, netVars
<1>3. CASE EnterTransaction
  <2>1. Held'
    <3>1. CASE tx' = Org /\ update' = [update EXCEPT !.network = current, !.at = "barrier"]
      BY <1>0, <1>3, <3>1, Moves, HeldOn, Zenon DEF EnterTransaction, Held, NetTyped, shareVars
    <3>2. CASE tx' = tx /\ Goto("release")
      BY <1>0, <1>k, <1>3, <3>2, Moves, HeldOn, PoliciesKnown, Zenon DEF EnterTransaction, Held, shareVars
    <3> QED
      BY <1>3, <3>1, <3>2, Zenon DEF EnterTransaction, Org
  <2>2. NetTyped'
    BY <1>3, NetKept, Zenon DEF EnterTransaction, NetTyped, Org
  <2> QED
    BY <1>3, <2>1, <2>2, SharesKept, Zenon DEF EnterTransaction, shareVars
<1>4. CASE Reconcile
  <2>1. Moved("save") \/ Moved("undo network")
    BY <1>0, <1>4, Moves, Zenon DEF Reconcile
  <2>2. Held'
    BY <1>0, <1>k, <1>4, <2>1, HeldOn, Zenon DEF Reconcile, Held, netVars, policyVars
  <2> QED
    BY <1>4, <2>2, NetKept, ReconcileTyped, Zenon DEF Reconcile, NetTyped, netVars
<1>5. CASE PublishEngine
  <2>1. Held'
    BY <1>0, <1>5, Moves, HeldOn, PoliciesKnown, UpdateKinds, Zenon DEF PublishEngine, LeaveTransaction, Held
  <2> QED
    BY <1>5, <2>1, NetKept, SharesKept, Zenon DEF PublishEngine, LeaveTransaction, NetTyped
<1>6. CASE ReleaseShares
  <2>1. Held'
    BY <1>0, <1>k, <1>6, Moves, HeldOn, Zenon DEF ReleaseShares, Held, netVars
  <2> QED
    BY <1>6, <2>1, NetKept, SharesKept, Zenon DEF ReleaseShares, NetTyped, netVars
<1>7. CASE Unblock
  <2>1. Held'
    BY <1>0, <1>k, <1>7, UpdateKinds, Zenon DEF Unblock, Held, netVars
  <2> QED
    BY <1>7, <2>1, NetKept, SharesKept, Zenon DEF Unblock, NetTyped, netVars
<1>8. CASE UndoShares
  <2>1. Moved("undo network")
    BY <1>0, <1>8, Moves, Zenon DEF UndoShares
  <2>2. Held'
    BY <1>0, <1>k, <1>8, <2>1, HeldOn, Zenon DEF UndoShares, Held, netVars, policyVars
  <2> QED
    BY <1>8, <2>2, NetKept, ReconcileTyped, Zenon DEF UndoShares, NetTyped, netVars
<1>9. ASSUME NEW fault, EnterBarrier(fault) PROVE Typed'
  <2>1. \/ Moved("network") /\ tx' = tx
        \/ Moved("release") /\ tx' = Free
    <3>1. "network" \in Inside \cup Outside /\ "release" \in Inside \cup Outside
      BY <1>0, Zenon
    <3>2. \/ Goto("network") /\ tx' = tx
          \/ Goto("release") /\ tx' = Free
      BY <1>9, Zenon DEF EnterBarrier, LeaveTransaction
    <3> QED
      BY <3>1, <3>2, Moves, Zenon
  <2>2. Held'
    BY <1>0, <1>k, <1>9, <2>1, HeldOn, PoliciesKnown, Zenon DEF EnterBarrier, Held, shareVars
  <2>3. NetTyped'
    BY <1>9, NetKept, PoliciesKnown, Zenon DEF EnterBarrier, ReplaceEffectivePolicy, LeaveTransaction, NetTyped
  <2> QED
    BY <1>9, <2>2, <2>3, SharesKept, Zenon DEF EnterBarrier, shareVars
<1>10. ASSUME NEW fault, ApplyNetwork(fault) PROVE Typed'
  <2>1. Moved("shares") \/ Moved("undo network")
    BY <1>0, <1>10, Moves, Zenon DEF ApplyNetwork
  <2>2. Held'
    BY <1>0, <1>k, <1>10, <2>1, HeldOn, Zenon DEF ApplyNetwork, Held, shareVars
  <2>3. NetTyped'
    BY <1>10, NetKept, PoliciesKnown, Zenon DEF ApplyNetwork, ReplaceEffectivePolicy, NetTyped
  <2> QED
    BY <1>10, <2>2, <2>3, SharesKept, Zenon DEF ApplyNetwork, shareVars
<1>11. ASSUME NEW fault, UndoNetwork(fault) PROVE Typed'
  <2>1. UNCHANGED <<running, engine, govBlocked>> /\ tx' = Free /\ (update' = None \/ Moved("release"))
    BY <1>0, <1>11, Moves, Zenon DEF UndoNetwork, Settle, shareVars
  <2>2. Held'
    BY <1>0, <2>1, HeldOn, PoliciesKnown, UpdateKinds, Zenon DEF Held
  <2>3. NetTyped'
    BY <1>11, NetKept, UpdateKinds, Zenon DEF UndoNetwork, ReplaceEffectivePolicy, Settle, NetTyped
  <2> QED
    BY <1>11, <2>2, <2>3, SharesKept, Zenon DEF UndoNetwork, shareVars
<1>12. ASSUME NEW outcome, SavePolicy(outcome) PROVE Typed'
  <2>1. Moved("undo shares") \/ Moved("publish")
    BY <1>0, <1>12, Moves, Zenon DEF SavePolicy
  <2>2. Held'
    BY <1>0, <1>k, <1>12, <2>1, HeldOn, Zenon DEF SavePolicy, Held, shareVars
  <2>3. [saved EXCEPT !.org = update.org] \in [local : Locals, org : Orgs, ports : SUBSET Forwards]
    BY UpdateKinds, Zenon DEF NetTyped
  <2>4. NetTyped'
    BY <1>12, <2>3, Zenon DEF SavePolicy, FileAfter, NetTyped
  <2> QED
    BY <1>12, <2>2, <2>4, SharesKept, Zenon DEF SavePolicy, shareVars
<1> QED
  BY <1>2, <1>3, <1>4, <1>5, <1>6, <1>7, <1>8, <1>9, <1>10, <1>11, <1>12, Zenon DEF UpdateStep

(* No share request touches the barriers or the published engine.          *)
LEMMA ShareFrame == ASSUME ShareStep PROVE UNCHANGED policyVars
  BY Zenon DEF ShareStep, ShareFinish, Add, Promote, Remove, ConfigureRestart, Forget, Save, Announce, Undo, Finish

(* those of the daemon ending and starting again,                          *)
LEMMA DownTyped == ASSUME Typed, Down PROVE Typed'
<1>1. BootPolicy \in Policies /\ saved.org \in Orgs
  BY Zenon DEF Typed, NetTyped, BootPolicy, Effective, Policies
<1>2. NetTyped'
  BY <1>1, Zenon DEF Typed, NetTyped, Down, NetDown
<1>3. SharesTyped'
  <2>1. Idle.op = "none" /\ change' = Idle
    BY Zenon, ChangeKinds DEF Down, Typed
  <2>2. exports' \in [Tags -> Exported \cup {NoShare}]
    BY Zenon DEF Down
  <2>3. UNCHANGED savedShares /\ told' = savedShares /\ hub' = "active"
    BY Zenon DEF Down
  <2> QED
    BY <2>1, <2>2, <2>3, Zenon DEF Typed, SharesTyped
<1>4. Held'
  <2>1. None.at \notin Inside
    BY Zenon DEF None, Inside
  <2>2. tx' # Org
    BY PoliciesKnown, Zenon DEF Down, NetDown
  <2> QED
    BY <1>1, <2>1, <2>2, Zenon DEF Down, NetDown, Held
<1> QED
  BY <1>2, <1>3, <1>4, Zenon DEF Typed

(* The exports of a boot are the saved shares.                             *)
LEMMA ConfiguredTyped == ASSUME savedShares \in Shares PROVE Configured \in [Tags -> Exported \cup {NoShare}]
<1>1. \A x \in Sources : Export(x, FALSE) \in Exported
  BY Zenon DEF Export, Exported
<1>2. \A t \in Tags : savedShares[t] \in Sources \cup {NoShare}
  BY Zenon DEF Shares
<1> QED
  BY <1>1, <1>2, Zenon DEF Configured

(* A boot gives every part of the state its type again.                    *)
LEMMA BootTyped == ASSUME Typed, Boot PROVE Typed'
<1>1. BootPolicy \in Policies
  BY Zenon DEF Typed, NetTyped, BootPolicy, Effective, Policies
<1>2. NetTyped'
  BY <1>1, Zenon DEF Typed, NetTyped, Boot, NetBoot
<1>3. SharesTyped'
  <2>1. change.op # "promote"
    BY ChangeKinds, Zenon DEF Boot, NetBoot, Held, Typed
  <2>2. exports' \in [Tags -> Exported \cup {NoShare}]
    BY ConfiguredTyped, Zenon DEF Boot, Typed, SharesTyped
  <2> QED
    BY <2>1, <2>2, Zenon DEF Boot, Typed, SharesTyped
<1>4. Held'
  BY Zenon DEF Boot, NetBoot, Held, Typed, policyVars
<1> QED
  BY <1>2, <1>3, <1>4, Zenon DEF Typed

(* so every step does,                                                     *)
LEMMA NextTyped == ASSUME Typed, [Next]_vars PROVE Typed'
<1>1. CASE NetStep /\ UNCHANGED <<shareVars, update, stopping>>
  <2>1. NetTyped'
    BY <1>1, NetStepTyped, Zenon DEF Typed
  <2>2. SharesTyped'
    BY <1>1, SharesKept, Zenon DEF Typed, shareVars
  <2>3. running /\ running' /\ tx # Org /\ tx' # Org
    BY <1>1, NetStepLock, Zenon DEF Typed
  <2>4. UNCHANGED <<engine, govBlocked, update>>
    BY <1>1, Zenon DEF shareVars
  <2>5. Held'
    BY <2>3, <2>4, Zenon DEF Typed, Held
  <2> QED
    BY <2>1, <2>2, <2>5, Zenon DEF Typed
<1>2. CASE running /\ ShareStep /\ UNCHANGED <<netVars, update, stopping>>
  <2>1. SharesTyped'
    BY <1>2, ShareStepTyped, Zenon DEF Typed
  <2>2. NetTyped'
    BY <1>2, NetKept, Zenon DEF Typed, NetTyped, netVars
  <2>3. Held'
    BY <1>2, ShareFrame, Zenon DEF Typed, Held, netVars, policyVars
  <2> QED
    BY <2>1, <2>2, <2>3, Zenon DEF Typed
<1>3. CASE UNCHANGED vars
  <2>1. UNCHANGED <<running, enforced, current, forwards, saved, tx>>
        /\ UNCHANGED <<exports, hub, savedShares, change, told, engine, govBlocked, update>>
    BY <1>3, Zenon DEF vars, netVars, shareVars
  <2>2. NetTyped' /\ SharesTyped'
    BY <2>1, NetKept, SharesKept, Zenon DEF Typed, NetTyped
  <2>3. Held'
    BY <2>1, Zenon DEF Typed, Held
  <2> QED
    BY <2>2, <2>3, Zenon DEF Typed
<1> QED
  BY <1>1, <1>2, <1>3, UpdateTyped, DownTyped, BootTyped, Zenon DEF Next

(* and the daemon starts with them.                                        *)
LEMMA InitTyped == ASSUME Init PROVE Typed
<1>1. PICK l \in Locals, o \in Orgs : NetBooted([local |-> l, org |-> o, ports |-> {}])
  BY Zenon DEF Init, NetInit
<1>2. /\ running = TRUE /\ saved = [local |-> l, org |-> o, ports |-> {}] /\ saved.org = o
      /\ enforced = [local |-> l, org |-> o] /\ current = enforced /\ forwards = {} /\ tx = Free
  BY <1>1, Zenon DEF NetBooted, Effective
<1>3. NetTyped
  BY <1>2, Zenon DEF NetTyped, Policies
<1>4. savedShares \in Shares /\ change = Idle /\ hub = "active" /\ told = savedShares /\ exports = Configured
  BY Zenon DEF Init, SharesBooted, Shares
<1>5. Idle.op = "none"
  BY Zenon DEF Idle
<1>6. SharesTyped
  BY <1>4, <1>5, ConfiguredTyped, Zenon DEF SharesTyped
<1>7. None.at \notin Inside /\ Free # Org
  BY Zenon DEF None, Inside, Free, Org
<1>8. Held
  BY <1>2, <1>7, Zenon DEF Held, Init
<1> QED
  BY <1>3, <1>6, <1>8, Zenon DEF Typed

--------------------------------------------------------------------------------
(* One generation.                                                             *)

(* A local request moves neither the generation of sandbox.json nor that   *)
(* of the policies.                                                        *)
LEMMA NetStepOrgs ==
    ASSUME NetTyped, NetStep, enforced.org = current.org, tx \in SetTx => tx.policy.org = current.org
    PROVE  /\ saved'.org = saved.org /\ current'.org = current.org /\ enforced'.org = current.org
           /\ tx' \in SetTx => tx'.policy.org = current.org
<1>0. Free \notin SetTx /\ \A x \in PortTx : x \notin SetTx
  BY Zenon DEF Free, SetTx, PortTx
<1>s. \A l \in Locals, ps \in SUBSET Forwards :
        [saved EXCEPT !.local = l].org = saved.org /\ [saved EXCEPT !.ports = ps].org = saved.org
  BY Zenon DEF NetTyped
<1>1. ASSUME NEW l \in Locals, Set(l)
      PROVE  /\ saved' = saved /\ current' = current /\ enforced'.org = current.org
             /\ tx'.policy.org = current.org
  BY <1>1, Zenon DEF Set, Effective
<1>2. ASSUME NEW outcome, SaveSet(outcome)
      PROVE  /\ saved'.org = saved.org /\ current'.org = current.org /\ enforced' = enforced
             /\ tx' \in SetTx => tx'.policy.org = current.org
  <2>1. tx \in SetTx /\ tx.policy.local \in Locals /\ [tx EXCEPT !.at = "undo"].policy = tx.policy
    <3>1. tx \in SetTx
      BY <1>2, TxKinds, Zenon DEF SaveSet
    <3> QED
      BY <3>1, Zenon DEF SetTx
  <2> QED
    BY <1>0, <1>s, <1>2, <2>1, Zenon DEF SaveSet, FileAfter
<1>3. ASSUME NEW fault, UndoSet(fault)
      PROVE  saved' = saved /\ current' = current /\ enforced'.org = current.org /\ tx' = Free
  BY <1>3, Zenon DEF UndoSet
<1>4. ASSUME NEW f \in Forwards, NEW persistent, Publish(f, persistent) \/ Unpublish(f, persistent)
      PROVE  saved' = saved /\ current' = current /\ enforced' = enforced /\ tx' \notin SetTx
  <2>1. \A a, l : /\ [op |-> "publish", at |-> a, forward |-> f, live |-> l] \notin SetTx
                  /\ [op |-> "unpublish", at |-> a, forward |-> f, live |-> l] \notin SetTx
    BY Zenon DEF SetTx
  <2> QED
    BY <1>0, <1>4, <2>1, Zenon DEF Publish, Unpublish
<1>5. ASSUME NEW outcome, SavePublish(outcome) \/ SaveUnpublish(outcome)
      PROVE  saved'.org = saved.org /\ current' = current /\ enforced' = enforced /\ tx' \notin SetTx
  <2>1. tx \in PortTx /\ tx.forward \in Forwards /\ [tx EXCEPT !.at = "undo"] \in PortTx
    BY <1>5, TxKinds, Zenon DEF SavePublish, SaveUnpublish
  <2>2. /\ Appended(saved.ports, tx.forward) \in SUBSET Forwards
        /\ WithoutKey(saved.ports, tx.forward) \in SUBSET Forwards
    BY <2>1, Zenon DEF NetTyped, Appended, WithoutKey
  <2>3. \/ saved' = saved
        \/ saved' = [saved EXCEPT !.ports = Appended(saved.ports, tx.forward)]
        \/ saved' = [saved EXCEPT !.ports = WithoutKey(saved.ports, tx.forward)]
    BY <1>5, Zenon DEF SavePublish, SaveUnpublish, FileAfter
  <2>4. current' = current /\ enforced' = enforced /\ (tx' = Free \/ tx' \in PortTx)
    BY <1>5, <2>1, Zenon DEF SavePublish, SaveUnpublish
  <2>5. saved'.org = saved.org
    <3>1. CASE saved' = saved
      BY <3>1, Zenon
    <3>2. CASE saved' = [saved EXCEPT !.ports = Appended(saved.ports, tx.forward)]
      BY <3>2, Zenon DEF NetTyped
    <3>3. CASE saved' = [saved EXCEPT !.ports = WithoutKey(saved.ports, tx.forward)]
      BY <3>3, Zenon DEF NetTyped
    <3> QED
      BY <2>3, <3>1, <3>2, <3>3, Zenon
  <2> QED
    BY <1>0, <2>4, <2>5, Zenon
<1>6. ASSUME NEW fault, UndoPublish(fault) \/ UndoUnpublish(fault)
      PROVE  saved' = saved /\ current' = current /\ enforced' = enforced /\ tx' = Free
  BY <1>6, Zenon DEF UndoPublish, UndoUnpublish
<1> QED
  BY <1>0, <1>1, <1>2, <1>3, <1>4, <1>5, <1>6, Zenon DEF NetStep, NetFinish

(* Every step of an update leaves the next one what it relies on.          *)
LEMMA UpdateGenerations ==
    ASSUME Typed, Generations, UpdateStep \/ \E org \in Orgs : Apply(org)
    PROVE  stopping' \/ Generations'
<1>0. /\ Org \notin SetTx /\ Free \notin SetTx
      /\ \A l, o : Effective(l, o).org = o
      /\ \A fs : FailClosedPolicy(fs) \in Barriers
  BY Zenon DEF Org, Free, SetTx, Effective, FailClosedPolicy, Barriers
<1>h. Held /\ NetTyped
  BY Zenon DEF Typed
<1> USE DEF Generations, Inside, Outside, Now, NowAt
<1>1. ASSUME NEW org \in Orgs, Apply(org) PROVE Generations'
  <2>1. update.at = "none" /\ update'.at = "block"
    BY <1>1, <1>h, UpdateKinds, Zenon DEF Apply
  <2>2. UNCHANGED <<enforced, current, saved, engine, tx>>
    BY <1>1, Zenon DEF Apply, netVars
  <2> QED
    BY <2>1, <2>2, Zenon
<1>2. CASE BlockShares
  <2>1. update.at = "block" /\ NowAt("enter") /\ UNCHANGED <<enforced, current, saved, engine, tx>>
    BY <1>2, <1>h, Steps, Zenon DEF BlockShares, netVars
  <2> QED
    BY <2>1, Zenon
<1>3. CASE EnterTransaction
  <2>1. update.at = "enter" /\ UNCHANGED <<enforced, current, saved, engine>>
        /\ \/ Now("barrier", current, update.failed) /\ tx' = Org
           \/ NowAt("release") /\ tx' = tx
    BY <1>3, <1>h, Steps, Zenon DEF EnterTransaction, shareVars
  <2> QED
    BY <1>0, <2>1, Zenon
<1>4. CASE Reconcile
  <2>1. update.at = "shares" /\ UNCHANGED <<enforced, current, saved, engine, tx>>
    BY <1>4, <1>h, Steps, Zenon DEF Reconcile, netVars, policyVars
  <2>2. NowAt("save") \/ Now("undo network", update.network, "if closed")
    BY <1>4, <1>h, Steps, Zenon
  <2> QED
    BY <2>1, <2>2, Zenon
<1>5. CASE PublishEngine
  <2>1. update.at = "publish" /\ NowAt("release") /\ engine' = update.org
        /\ UNCHANGED <<enforced, current, saved>> /\ tx' = Free
    BY <1>5, <1>h, Steps, Zenon DEF PublishEngine, LeaveTransaction
  <2> QED
    BY <1>0, <2>1, Zenon
<1>6. CASE ReleaseShares
  <2>1. update.at = "release" /\ NowAt("unblock") /\ UNCHANGED <<enforced, current, saved, engine, tx>>
    BY <1>6, <1>h, Steps, Zenon DEF ReleaseShares, netVars
  <2> QED
    BY <2>1, Zenon
<1>7. CASE Unblock
  <2>1. update.at = "unblock" /\ update'.at = "none" /\ UNCHANGED <<enforced, current, saved, engine, tx>>
    BY <1>7, <1>h, Steps, Zenon DEF Unblock, netVars
  <2> QED
    BY <2>1, Zenon
<1>8. CASE UndoShares
  <2>1. update.at = "undo shares" /\ UNCHANGED <<enforced, current, saved, engine, tx>>
    BY <1>8, <1>h, Steps, Zenon DEF UndoShares, netVars, policyVars
  <2>2. NowAt("undo network") \/ Now("undo network", update.network, "yes")
    BY <1>8, <1>h, Steps, Zenon
  <2> QED
    BY <2>1, <2>2, Zenon
<1>9. ASSUME NEW fault, EnterBarrier(fault) PROVE Generations'
  <2>1. update.at = "barrier" /\ NowAt(IF fault = "none" THEN "network" ELSE "release")
    BY <1>9, <1>h, Steps, Zenon
  <2>2. UNCHANGED <<saved, engine>> /\ (fault = "none" => enforced' \in Barriers /\ tx' = tx)
        /\ (fault # "none" => UNCHANGED <<enforced, current>> /\ tx' = Free)
    BY <1>0, <1>9, Zenon DEF EnterBarrier, ReplaceEffectivePolicy, LeaveTransaction, shareVars
  <2>3. tx \notin SetTx
    BY <1>0, <1>h, <2>1, Zenon DEF Held
  <2> QED
    BY <1>0, <2>1, <2>2, <2>3, Zenon
<1>10. ASSUME NEW fault, ApplyNetwork(fault) PROVE Generations'
  <2>1. update.at = "network" /\ (NowAt("shares") \/ NowAt("undo network"))
    BY <1>10, <1>h, Steps, Zenon
  <2>2. UNCHANGED <<saved, engine, tx>>
        /\ \/ enforced' = NextNetwork /\ current' = NextNetwork
           \/ UNCHANGED <<enforced, current>> /\ update'.at = "undo network"
    <3>1. Goto("undo network") => update'.at = "undo network"
      BY <1>h, <2>1, UpdateKinds, Moves, Zenon DEF Moved
    <3> QED
      BY <1>10, <3>1, Zenon DEF ApplyNetwork, ReplaceEffectivePolicy, shareVars
  <2>3. tx \notin SetTx /\ NextNetwork.org = update.org
    BY <1>0, <1>h, <2>1, Zenon DEF Held, NextNetwork
  <2> QED
    BY <1>0, <2>1, <2>2, <2>3, Zenon
<1>11. ASSUME NEW fault, UndoNetwork(fault) PROVE stopping' \/ Generations'
  <2>1. update.at = "undo network" /\ (NowAt("release") \/ update'.at = "none")
    BY <1>11, <1>h, Steps, Zenon
  <2>2. UNCHANGED <<saved, engine>> /\ tx' = Free
        /\ \/ stopping' = TRUE
           \/ enforced' = update.network /\ current' = update.network
    BY <1>11, Zenon DEF UndoNetwork, ReplaceEffectivePolicy, Settle, shareVars
  <2> QED
    BY <1>0, <2>1, <2>2, Zenon
<1>12. ASSUME NEW outcome, SavePolicy(outcome) PROVE Generations'
  <2>1. update.at = "save" /\ NowAt(IF outcome = "failed" THEN "undo shares" ELSE "publish")
    BY <1>12, <1>h, Steps, Zenon
  <2>2. UNCHANGED <<enforced, current, engine, tx>>
        /\ (outcome = "failed" => saved' = saved) /\ (outcome # "failed" => saved'.org = update.org)
    BY <1>12, <1>h, Zenon DEF SavePolicy, FileAfter, shareVars, NetTyped
  <2> QED
    BY <2>1, <2>2, Zenon
<1> QED
  BY <1>1, <1>2, <1>3, <1>4, <1>5, <1>6, <1>7, <1>8, <1>9, <1>10, <1>11, <1>12, Zenon DEF UpdateStep

(* A shutdown that was requested stays so until the daemon ends.           *)
LEMMA StaysStopping == ASSUME stopping, [Next]_vars PROVE stopping' \/ Down
  BY Zenon DEF Next, vars, UpdateStep, Apply, BlockShares, EnterTransaction, Reconcile, PublishEngine,
      ReleaseShares, Unblock, UndoShares, EnterBarrier, ApplyNetwork, UndoNetwork, Settle, SavePolicy, Boot

(* A daemon that is down or has just booted is of one generation.          *)
LEMMA Rebooted ==
    ASSUME Typed, Down \/ Boot
    PROVE  /\ update'.at = "none" /\ tx' = Free /\ UNCHANGED saved
           /\ engine' = saved.org /\ enforced' = BootPolicy /\ current' = BootPolicy
           /\ BootPolicy.org = saved.org
<1>1. None.at = "none" /\ BootPolicy.org = saved.org
  BY Zenon DEF None, BootPolicy, Effective
<1>2. Boot => update = None /\ engine = saved.org /\ tx = Free
  BY Zenon DEF Typed, Held, Boot, NetBoot
<1> QED
  BY <1>1, <1>2, Zenon DEF Down, NetDown, Boot, NetBoot, policyVars

(* No step of anyone parts the generations.                                *)
LEMMA GenerationsNext ==
    ASSUME Typed, stopping \/ Generations, [Next]_vars
    PROVE  stopping' \/ Generations'
<1>0. Free \notin SetTx
  BY Zenon DEF Free, SetTx
<1>1. CASE Down \/ Boot
  BY <1>0, <1>1, Rebooted, Zenon DEF Generations, Inside, Outside
<1>2. CASE stopping
  BY <1>1, <1>2, StaysStopping, Zenon
<1>3. CASE Generations /\ NetStep /\ UNCHANGED <<shareVars, update, stopping>>
  <2>1. tx # Org /\ UNCHANGED <<engine, update>>
    BY <1>3, NetStepLock, Zenon DEF Typed, shareVars
  <2>2. update.at \notin Inside /\ (update.at = "none" \/ update.at \in Outside)
    BY <2>1, UpdateKinds, Zenon DEF Typed, Held
  <2>3. enforced.org = engine /\ current.org = engine
    BY <1>3, <2>2, Zenon DEF Generations
  <2>4. /\ saved'.org = saved.org /\ current'.org = current.org /\ enforced'.org = current.org
        /\ tx' \in SetTx => tx'.policy.org = current.org
    BY <1>3, <2>3, NetStepOrgs, Zenon DEF Typed, Generations
  <2> QED
    BY <1>3, <2>1, <2>2, <2>3, <2>4, Zenon DEF Generations, Inside, Outside
<1>4. CASE Generations /\ \/ ShareStep /\ UNCHANGED <<netVars, update, stopping>>
                          \/ UNCHANGED vars
  <2>1. UNCHANGED <<enforced, current, saved, engine, update, tx>>
    BY <1>4, ShareFrame, Zenon DEF netVars, policyVars, shareVars, vars
  <2> QED
    BY <1>4, <2>1, Zenon DEF Generations
<1> QED
  BY <1>1, <1>2, <1>3, <1>4, UpdateGenerations, Zenon DEF Next

(* The daemon starts in one.                                               *)
LEMMA GenerationsInit == ASSUME Init PROVE Generations
<1>1. PICK l \in Locals, o \in Orgs : NetBooted([local |-> l, org |-> o, ports |-> {}])
  BY Zenon DEF Init, NetInit
<1>2. /\ engine = saved.org /\ enforced.org = saved.org /\ current.org = saved.org
      /\ tx = Free /\ Free \notin SetTx /\ update.at = "none"
  BY <1>1, Zenon DEF NetBooted, Effective, Init, Free, SetTx, None
<1> QED
  BY <1>2, Zenon DEF Generations, Inside, Outside

(* Outside an update the controller, the guard, the rollback copy and      *)
(* sandbox.json are of one organization policy.                            *)
THEOREM GenerationsAgree == Spec => []OneGeneration
<1>1. Typed /\ (stopping \/ Generations) => OneGeneration
  BY UpdateKinds, Zenon DEF Typed, Held, Generations, OneGeneration, Inside, Outside
<1>2. Init => Typed /\ (stopping \/ Generations)
  BY InitTyped, GenerationsInit, Zenon
<1>3. Typed /\ (stopping \/ Generations) /\ [Next]_vars => (Typed /\ (stopping \/ Generations))'
  BY NextTyped, GenerationsNext, Zenon
<1> QED
  BY <1>1, <1>2, <1>3, PTL DEF Spec

--------------------------------------------------------------------------------
(* Shares under the policy in force.                                           *)

(* What ReconcileOrganizationPolicy leaves behind.                         *)
LEMMA Reconciles ==
    ASSUME SharesTyped
    PROVE  /\ \A org : Reconciled(org) => JudgedBy(org, exports')
           /\ \A org : ReconcileUndone /\ Judged(org) => JudgedBy(org, exports')
<1>1. ASSUME NEW denied, SetPolicyAccess(denied), NEW t \in Tags, exports'[t] # NoShare
      PROVE  t \in Live /\ exports'[t].source = exports[t].source /\ exports'[t].denied = (t \in denied)
  <2>1. t \in Live /\ exports'[t] = [exports[t] EXCEPT !.denied = t \in denied]
    BY <1>1, Zenon DEF SetPolicyAccess
  <2>2. exports[t] \in Exported
    BY <2>1, Zenon DEF Live, SharesTyped
  <2> QED
    BY <2>1, <2>2, Zenon DEF Exported
<1>2. ASSUME NEW org, Reconciled(org) PROVE JudgedBy(org, exports')
  BY <1>1, <1>2 DEF Reconciled, DeniedBy, JudgedBy
<1>3. ASSUME NEW org, ReconcileUndone, Judged(org) PROVE JudgedBy(org, exports')
  <2>1. \A t \in Live : exports[t].denied \in BOOLEAN
    BY Zenon DEF Live, SharesTyped, Exported
  <2> QED
    BY <1>1, <1>3, <2>1 DEF ReconcileUndone, PolicyDenied, Judged, JudgedBy, Live
<1> QED
  BY <1>2, <1>3, Zenon

(* A share request leaves the exports judged by a policy that allows it.   *)
LEMMA ShareJudged ==
    ASSUME SharesTyped, ShareStep, NEW org, Judged(org), change.op = "add" => Allowed(org, change.source)
    PROVE  JudgedBy(org, exports')
<1>1. ASSUME NEW manifest, Finish(manifest) PROVE JudgedBy(org, exports')
  <2>1. change \in Changes /\ change.tag \in Tags
    BY <1>1, ChangeKinds, Zenon DEF Finish
  <2>2. change.op = "add" \/ change.op = "promote" \/ change.op = "remove"
    BY <2>1, Zenon DEF Changes
  <2>3. \A t \in Tags : t # change.tag => exports'[t] = exports[t]
    BY <1>1, Zenon DEF Finish, SharesTyped
  <2>4. change.op = "remove" => exports'[change.tag] = NoShare
    BY <1>1, <2>1, Zenon DEF Finish, SharesTyped
  <2>5. change.op = "add" => /\ exports'[change.tag].denied = FALSE
                             /\ exports'[change.tag].source = change.source
    BY <1>1, <2>1, Zenon DEF Finish, SharesTyped, Export
  <2>6. change.op = "promote" => /\ exports[change.tag] # NoShare
                                 /\ exports'[change.tag].denied = exports[change.tag].denied
                                 /\ exports'[change.tag].source = exports[change.tag].source
    BY <1>1, <2>1, Zenon DEF Finish, SharesTyped, Exported
  <2> QED
    BY <2>1, <2>2, <2>3, <2>4, <2>5, <2>6, Zenon DEF Judged, JudgedBy
<1>2. CASE UNCHANGED exports
  BY <1>2, Zenon DEF Judged
<1> QED
  BY <1>1, <1>2, Zenon DEF ShareStep, ShareFinish, Add, Promote, Remove, ConfigureRestart, Forget, Save, Announce, Undo

(* The policy a share is added under is still in force when it is.         *)
LEMMA AuthorisedNext ==
    ASSUME Typed, Authorised, [Next]_vars
    PROVE  Authorised'
<1>1. CASE change'.op # "add"
  BY <1>1, Zenon DEF Authorised
<1>h. Held /\ NetTyped /\ SharesTyped
  BY Zenon DEF Typed
<1>2. CASE running /\ ShareStep /\ UNCHANGED <<netVars, update, stopping>>
  <2>1. UNCHANGED <<engine, govBlocked, update>>
    BY <1>2, ShareFrame, Zenon DEF policyVars
  <2>2. ASSUME NEW tag, NEW source, NEW persistent, NEW replace, Add(tag, source, persistent, replace)
        PROVE  Authorised'
    <3>1. update.at = "none" /\ Allowed(engine, source)
      BY <1>h, <2>2, UpdateKinds, Zenon DEF Add, Authorize, Held
    <3>2. change'.source = source
      BY <2>2, Zenon DEF Add, Begin
    <3> QED
      BY <2>1, <3>1, <3>2, Zenon DEF Authorised
  <2>3. CASE change'.op = change.op /\ change'.source = change.source
    BY <2>1, <2>3, Zenon DEF Authorised
  <2>4. ASSUME NEW tag, Promote(tag) \/ \E p, f : Remove(tag, p, f) PROVE change'.op # "add"
    BY <2>4 DEF Promote, Remove, Begin
  <2>5. ASSUME NEW x, Save(x) \/ Announce(x) \/ Finish(x) \/ \E m : Undo(x, m)
        PROVE  \/ change'.op # "add"
               \/ change'.op = change.op /\ change'.source = change.source
    <3>1. change \in Changes
      BY <1>h, <2>5, ChangeKinds, Zenon DEF Save, Announce, Finish, Undo
    <3>2. change' = Idle \/ \E at \in {"save", "announce", "publish", "undo"} : change' = [change EXCEPT !.at = at]
      BY <2>5, Zenon DEF Save, Announce, Finish, Undo
    <3>3. Idle.op # "add"
      BY Zenon DEF Idle
    <3> QED
      BY <3>1, <3>2, <3>3, Zenon DEF Changes
  <2>6. CASE UNCHANGED change
    BY <2>3, <2>6, Zenon
  <2> QED
    BY <1>1, <1>2, <2>2, <2>3, <2>4, <2>5, <2>6, Zenon DEF ShareStep, ShareFinish, ConfigureRestart, Forget
<1>3. CASE Down \/ Boot
  <2>1. change' = Idle /\ Idle.op # "add"
    BY <1>h, <1>3, Zenon DEF Down, Boot, NetBoot, Held, Idle
  <2> QED
    BY <1>1, <2>1, Zenon
<1>4. CASE UpdateStep \/ \E org \in Orgs : Apply(org)
  <2>1. CASE Reconcile \/ UndoShares
    <3>1. change' = Idle /\ Idle.op # "add"
      BY <1>h, <2>1, ReconcileTyped, ChangeKinds, Zenon DEF Reconcile, UndoShares
    <3> QED
      BY <1>1, <3>1, Zenon
  <2>2. CASE PublishEngine
    <3>1. update.at = "publish" /\ UNCHANGED change
      BY <2>2, Zenon DEF PublishEngine
    <3> QED
      BY <1>1, <3>1, Zenon DEF Authorised
  <2>3. CASE ~ (Reconcile \/ UndoShares \/ PublishEngine)
    <3>1. UNCHANGED <<engine, change>>
      BY <1>4, <2>3, Zenon DEF UpdateStep, Apply, BlockShares, EnterTransaction, ReleaseShares, Unblock,
          EnterBarrier, ApplyNetwork, UndoNetwork, SavePolicy, shareVars
    <3>2. \/ update'.at \notin {"save", "publish", "undo shares"}
          \/ update.at = "save"
      <4>1. ASSUME NEW org, Apply(org) PROVE update'.at = "block"
        BY <4>1, Zenon DEF Apply
      <4> QED
        BY <1>4, <1>h, <2>3, <4>1, Steps, Zenon DEF UpdateStep, Now, NowAt
    <3> QED
      BY <3>1, <3>2, Zenon DEF Authorised
  <2> QED
    BY <2>1, <2>2, <2>3, Zenon
<1>5. CASE UNCHANGED vars \/ (NetStep /\ UNCHANGED <<shareVars, update, stopping>>)
  BY <1>5, Zenon DEF vars, shareVars, Authorised
<1> QED
  BY <1>2, <1>3, <1>4, <1>5, Zenon DEF Next

(* A boot judges the shares it exports.                                    *)
LEMMA BootJudged ==
    ASSUME NEW org, savedShares \in Shares, SharesBootable(org)
    PROVE  JudgedBy(org, Configured)
<1>1. ASSUME NEW t \in Tags, Configured[t] # NoShare
      PROVE  Configured[t].denied = ~ Allowed(org, Configured[t].source)
  <2>1. savedShares[t] # NoShare /\ Configured[t] = Export(savedShares[t], FALSE)
    BY <1>1, Zenon DEF Configured
  <2>2. Configured[t].denied = FALSE /\ Configured[t].source = savedShares[t]
    BY <2>1 DEF Export
  <2>3. Allowed(org, savedShares[t])
    BY <2>1, Zenon DEF SharesBootable
  <2> QED
    BY <2>2, <2>3, Zenon
<1> QED
  BY <1>1, Zenon DEF JudgedBy

(* Every step of an update leaves the exports judged as the next expects.  *)
LEMMA UpdateJudged ==
    ASSUME Typed, Judgement, UpdateStep \/ \E org \in Orgs : Apply(org), ~ stopping'
    PROVE  Judgement'
<1>h. Held /\ NetTyped /\ SharesTyped
  BY Zenon DEF Typed
<1> USE DEF Judgement, Judged, Now, NowAt
<1>1. ASSUME NEW org \in Orgs, Apply(org) PROVE Judgement'
  <2>1. /\ update.at = "none" /\ update'.at = "block" /\ update'.engine = engine
        /\ UNCHANGED <<engine, exports, hub>>
    BY <1>1, <1>h, UpdateKinds, Zenon DEF Apply
  <2> QED
    BY <2>1, Zenon
<1>2. CASE BlockShares
  <2>1. /\ update.at = "block" /\ NowAt("enter") /\ (hub = "active" => hubBlocked' = TRUE)
        /\ UNCHANGED <<engine, exports, hub>>
    BY <1>2, <1>h, Steps, Zenon DEF BlockShares
  <2> QED
    BY <2>1, Zenon
<1>3. CASE EnterTransaction
  <2>1. /\ update.at = "enter" /\ update'.engine = update.engine /\ update'.at \in {"barrier", "release"}
        /\ UNCHANGED <<engine, exports, hub, hubBlocked>>
    BY <1>3, <1>h, Steps, Zenon DEF EnterTransaction, shareVars
  <2> QED
    BY <2>1, Zenon
<1>4. CASE Reconcile
  <2>1. update.at = "shares" /\ UNCHANGED <<engine, hubBlocked>>
    BY <1>4, <1>h, Steps, Zenon DEF Reconcile, policyVars
  <2>2. CASE Reconciled(update.org) /\ NowAt("save")
    <3>1. JudgedBy(update.org, exports') /\ hub' = hub
      BY <1>h, <2>2, Reconciles, Zenon DEF Reconciled
    <3> QED
      BY <2>1, <2>2, <3>1, Zenon
  <2>3. CASE ReconcileUndone /\ Now("undo network", update.network, "if closed")
    <3>1. (Judged(engine) => JudgedBy(engine, exports')) /\ hub' = hub
      BY <1>h, <2>3, Reconciles, Zenon DEF ReconcileUndone
    <3> QED
      BY <2>1, <2>3, <3>1, Zenon
  <2>4. CASE ReconcileFails
    BY <2>4, Zenon DEF ReconcileFails
  <2> QED
    BY <1>4, <1>h, <2>2, <2>3, <2>4, Steps, Zenon
<1>5. CASE PublishEngine
  <2>1. /\ update.at = "publish" /\ NowAt("release") /\ engine' = update.org
        /\ UNCHANGED <<exports, hub, hubBlocked>>
    BY <1>5, <1>h, Steps, Zenon DEF PublishEngine
  <2> QED
    BY <2>1, Zenon
<1>6. CASE ReleaseShares
  <2>1. update.at = "release" /\ NowAt("unblock") /\ UNCHANGED <<engine, exports, hub>>
    BY <1>6, <1>h, Steps, Zenon DEF ReleaseShares
  <2> QED
    BY <2>1, Zenon
<1>7. CASE Unblock
  <2>1. update.at = "unblock" /\ update'.at = "none" /\ UNCHANGED <<engine, exports, hub>>
    BY <1>7, <1>h, Steps, Zenon DEF Unblock
  <2> QED
    BY <2>1, Zenon
<1>8. CASE UndoShares
  <2>1. update.at = "undo shares" /\ UNCHANGED <<engine, hubBlocked>>
    BY <1>8, <1>h, Steps, Zenon DEF UndoShares, policyVars
  <2>2. CASE Reconciled(update.engine) /\ NowAt("undo network")
    <3>1. JudgedBy(update.engine, exports') /\ hub' = hub
      BY <1>h, <2>2, Reconciles, Zenon DEF Reconciled
    <3> QED
      BY <2>1, <2>2, <3>1, Zenon
  <2>3. CASE ReconcileUndone /\ Now("undo network", update.network, "yes")
    <3>1. hub' = hub
      BY <2>3, Zenon DEF ReconcileUndone
    <3> QED
      BY <2>1, <2>3, <3>1, Zenon
  <2>4. CASE ReconcileFails
    BY <2>4, Zenon DEF ReconcileFails
  <2> QED
    BY <1>8, <1>h, <2>2, <2>3, <2>4, Steps, Zenon
<1>9. ASSUME NEW fault, EnterBarrier(fault) \/ ApplyNetwork(fault) PROVE Judgement'
  <2>1. /\ \/ update.at = "barrier" /\ (NowAt("network") \/ NowAt("release"))
           \/ update.at = "network" /\ (NowAt("shares") \/ NowAt("undo network"))
        /\ UNCHANGED <<engine, exports, hub, hubBlocked>>
    BY <1>9, <1>h, Steps, Zenon DEF EnterBarrier, ApplyNetwork, shareVars
  <2> QED
    BY <2>1, Zenon
<1>10. ASSUME NEW fault, UndoNetwork(fault) PROVE Judgement'
  <2>1. update.at = "undo network" /\ (NowAt("release") \/ update'.at = "none")
    BY <1>10, <1>h, Steps, Zenon
  <2>2. UNCHANGED <<engine, exports, hub, hubBlocked>> /\ update.failed # "yes"
    BY <1>10, Zenon DEF UndoNetwork, Settle, shareVars
  <2> QED
    BY <2>1, <2>2, Zenon
<1>11. ASSUME NEW outcome, SavePolicy(outcome) PROVE Judgement'
  <2>1. /\ update.at = "save" /\ (NowAt("undo shares") \/ NowAt("publish"))
        /\ UNCHANGED <<engine, exports, hub, hubBlocked>>
    BY <1>11, <1>h, Steps, Zenon DEF SavePolicy, shareVars
  <2> QED
    BY <2>1, Zenon
<1> QED
  BY <1>1, <1>2, <1>3, <1>4, <1>5, <1>6, <1>7, <1>8, <1>9, <1>10, <1>11, Zenon DEF UpdateStep

(* Every step of anyone does.                                              *)
LEMMA JudgementNext ==
    ASSUME Typed, Authorised, running /\ ~ stopping => Judgement, [Next]_vars, running', ~ stopping'
    PROVE  Judgement'
<1>h. Held /\ NetTyped /\ SharesTyped
  BY Zenon DEF Typed
<1>1. CASE Boot
  <2>1. SharesBootable(engine) /\ exports' = Configured /\ UNCHANGED <<engine, hub>> /\ update'.at = "none"
    BY <1>h, <1>1, Rebooted, Zenon DEF Boot, Held, NetBoot, policyVars
  <2>2. JudgedBy(engine, exports')
    BY <1>h, <2>1, BootJudged, Zenon DEF SharesTyped
  <2> QED
    BY <2>1, <2>2, Zenon DEF Judgement, Judged
<1>2. CASE Down
  BY <1>2, Zenon DEF Down, NetDown
<1> SUFFICES ASSUME ~ Boot, ~ Down PROVE Judgement'
  BY <1>1, <1>2, Zenon
<1>3. ~ stopping
  BY StaysStopping, Zenon
<1>4. CASE running /\ ShareStep /\ UNCHANGED <<netVars, update, stopping>>
  <2>1. Judgement /\ UNCHANGED <<engine, hubBlocked, update>>
    BY <1>3, <1>4, ShareFrame, Zenon DEF policyVars
  <2>2. hub' = "active" => hub = "active"
    BY <1>4, Zenon DEF ShareStep, ShareFinish, Add, Promote, Remove, ConfigureRestart, Forget, Save, Announce, Undo, Finish
  <2>3. ASSUME update.at \in {"save", "publish"}, Judged(update.org) PROVE JudgedBy(update.org, exports')
    BY <1>h, <1>4, <2>3, ShareJudged, Zenon DEF Authorised
  <2>4. ASSUME Judged(engine) PROVE JudgedBy(engine, exports')
    BY <1>h, <1>4, <2>4, ShareJudged, Zenon DEF Authorised
  <2> QED
    BY <2>1, <2>2, <2>3, <2>4, Zenon DEF Judgement, Judged
<1>5. CASE \/ NetStep /\ UNCHANGED <<shareVars, update, stopping>>
           \/ UNCHANGED vars
  <2>1. running
    BY <1>h, <1>5, NetStepLock, Zenon DEF vars, netVars
  <2>2. UNCHANGED <<engine, exports, hub, hubBlocked, update>>
    BY <1>5, Zenon DEF shareVars, vars
  <2> QED
    BY <1>3, <2>1, <2>2, Zenon DEF Judgement, Judged
<1>6. CASE UpdateStep \/ \E org \in Orgs : Apply(org)
  <2>1. running
    <3>1. UpdateStep => update # None
      BY <1>h, UpdateKinds, Zenon DEF UpdateStep, BlockShares, EnterTransaction, Reconcile, PublishEngine,
          ReleaseShares, Unblock, UndoShares, EnterBarrier, ApplyNetwork, UndoNetwork, SavePolicy
    <3> QED
      BY <1>6, <1>h, <3>1, Zenon DEF Held, Apply
  <2> QED
    BY <1>3, <1>6, <2>1, UpdateJudged, Zenon
<1> QED
  BY <1>4, <1>5, <1>6, Zenon DEF Next

(* The organization's policy governs the guest's traffic and its shares at *)
(* every step of an update, a share change or a port change racing it.     *)
THEOREM PolicyAlwaysGoverns == Spec => []PolicyGoverns
<1> DEFINE Inv == /\ Typed /\ (stopping \/ Generations) /\ Authorised
                  /\ running /\ ~ stopping => Judgement
<1>1. Init => Inv
  <2>1. ASSUME Init PROVE Authorised /\ Judgement
    <3>1. /\ change = Idle /\ update = None /\ exports = Configured /\ SharesBootable(engine)
          /\ savedShares \in Shares
      BY <2>1, Zenon DEF Init, SharesBooted, Shares
    <3>2. Idle.op # "add" /\ None.at = "none"
      BY Zenon DEF Idle, None
    <3>3. JudgedBy(engine, exports)
      BY <3>1, BootJudged, Zenon
    <3> QED
      BY <3>1, <3>2, <3>3, Zenon DEF Authorised, Judgement, Judged
  <2> QED
    BY <2>1, InitTyped, GenerationsInit, Zenon
<1>2. Inv /\ [Next]_vars => Inv'
  BY NextTyped, GenerationsNext, AuthorisedNext, JudgementNext, Zenon
<1>3. Inv => PolicyGoverns
  <2> SUFFICES ASSUME Inv PROVE EgressGoverned /\ ExportsJudged
    BY Zenon DEF PolicyGoverns
  <2>h. Held /\ (update # None => govBlocked)
    BY Zenon DEF Typed, Held
  <2>1. EgressGoverned
    BY <2>h, UpdateKinds, Zenon DEF EgressGoverned, Generations, Inside, Outside
  <2>2. ExportsJudged
    BY <2>h, UpdateKinds, Zenon DEF ExportsJudged, Judgement, Judged, JudgedBy, Live
  <2> QED
    BY <2>1, <2>2, Zenon
<1> QED
  BY <1>1, <1>2, <1>3, PTL DEF Spec

--------------------------------------------------------------------------------
(* What the answers promised.                                                  *)

(* Every step of a share request keeps the promise or its way back.        *)
LEMMA SharePromised == ASSUME SharesTyped, Promised, ShareStep PROVE Promised'
<1>0. change = Idle \/ change \in Changes
  BY ChangeKinds, Zenon
<1>1. ASSUME NEW op, op # "none", NEW tag, NEW source, NEW persistent, NEW force,
             Begin(op, tag, source, persistent, force), change = Idle, UNCHANGED <<hub, savedShares, told>>
      PROVE  Promised'
  <2>1. /\ change' # Idle /\ change'.old = savedShares /\ change'.persistent = persistent
        /\ change'.at = IF persistent THEN "save" ELSE "announce"
    BY <1>1, Zenon DEF Begin, Idle
  <2> QED
    BY <1>1, <2>1, Zenon DEF Promised
<1>2. ASSUME NEW tag, NEW source, NEW persistent, NEW replace, Add(tag, source, persistent, replace)
      PROVE  Promised'
  BY <1>1, <1>2, Zenon DEF Add, Ready
<1>3. ASSUME NEW tag, Promote(tag) PROVE Promised'
  BY <1>1, <1>3, Zenon DEF Promote, Ready
<1>4. ASSUME NEW tag, NEW persistent, NEW force, Remove(tag, persistent, force) PROVE Promised'
  BY <1>1, <1>4, Zenon DEF Remove, Ready
<1>5. ASSUME NEW outcome, Save(outcome) PROVE Promised'
  <2>1. change \in Changes /\ change # Idle /\ change.at = "save"
    BY <1>5, ChangeKinds, Zenon DEF Save
  <2>2. CASE outcome = "failed"
    BY <1>5, <2>1, <2>2, Zenon DEF Save, FileAfter, Promised
  <2>3. CASE outcome # "failed"
    <3>1. /\ change' # Idle /\ change'.at = "announce" /\ change'.old = change.old
          /\ change'.persistent = change.persistent /\ change'.tag = change.tag /\ change'.source = change.source
      BY <1>5, <2>1, <2>3, ChangeMoves, Zenon DEF Save
    <3>2. /\ savedShares' = [savedShares EXCEPT ![change.tag] = change.source] /\ UNCHANGED <<hub, told>>
      BY <1>5, <2>3, Zenon DEF Save, FileAfter
    <3> QED
      BY <2>1, <3>1, <3>2, Zenon DEF Promised
  <2> QED
    BY <2>2, <2>3, Zenon
<1>6. ASSUME NEW manifest, Announce(manifest) PROVE Promised'
  <2>1. change \in Changes /\ change # Idle /\ change.at = "announce" /\ UNCHANGED <<hub, savedShares, told>>
    BY <1>6, ChangeKinds, Zenon DEF Announce
  <2>2. /\ change' # Idle /\ change'.at # "save" /\ change'.old = change.old
        /\ change'.persistent = change.persistent /\ change'.tag = change.tag /\ change'.source = change.source
    BY <1>6, <2>1, Zenon DEF Announce, Changes, Idle
  <2> QED
    BY <2>1, <2>2, Zenon DEF Promised
<1>7. ASSUME NEW outcome, NEW manifest, Undo(outcome, manifest) PROVE Promised'
  <2>1. change # Idle /\ change.at = "undo" /\ change' = Idle /\ UNCHANGED told
    BY <1>7, ChangeKinds, Zenon DEF Undo
  <2>2. hub' = "active" => hub = "active" /\ (savedShares' = IF change.persistent THEN change.old ELSE savedShares)
    BY <1>7, Zenon DEF Undo, FileAfter
  <2> QED
    BY <2>1, <2>2, Zenon DEF Promised
<1>8. ASSUME NEW manifest, Finish(manifest) PROVE Promised'
  <2>1. change # Idle /\ change.at = "publish" /\ change' = Idle /\ UNCHANGED savedShares
    BY <1>8, ChangeKinds, Zenon DEF Finish
  <2>2. /\ hub' = "active" => hub = "active"
        /\ told' = IF change.persistent THEN [told EXCEPT ![change.tag] = change.source] ELSE told
    BY <1>8, Zenon DEF Finish
  <2> QED
    BY <2>1, <2>2, Zenon DEF Promised
<1>9. ASSUME NEW tag, NEW source, NEW replace, NEW outcome, ConfigureRestart(tag, source, replace, outcome)
      PROVE  Promised'
  BY <1>9, Zenon DEF ConfigureRestart, Ready, FileAfter, Promised
<1>10. ASSUME NEW d, Forget(d) PROVE Promised'
  BY <1>10, Zenon DEF Forget, Promised
<1> QED
  BY <1>2, <1>3, <1>4, <1>5, <1>6, <1>7, <1>8, <1>9, <1>10, Zenon DEF ShareStep, ShareFinish

(* Between share transactions sandbox.json holds exactly the shares the    *)
(* answers promised.                                                       *)
THEOREM PromisesSaved == Spec => []SharesSaved
<1>1. Init => Promised
  BY Zenon DEF Init, SharesBooted, Promised
<1>2. ASSUME Typed, Promised, [Next]_vars PROVE Promised'
  <2>1. CASE ShareStep
    BY <1>2, <2>1, SharePromised, Zenon DEF Typed
  <2>2. CASE Down
    BY <2>2, Zenon DEF Down, Promised
  <2>3. CASE Reconcile \/ UndoShares
    <3>1. UNCHANGED <<savedShares, change, told>> /\ (hub' = "active" => hub = "active")
      BY <2>3, Zenon DEF Reconcile, UndoShares, Reconciled, ReconcileUndone, ReconcileFails
    <3> QED
      BY <1>2, <3>1, Zenon DEF Promised
  <2>4. CASE ~ (ShareStep \/ Down \/ Reconcile \/ UndoShares)
    <3>1. UNCHANGED <<hub, savedShares, change, told>>
      BY <1>2, <2>4, Zenon DEF Next, UpdateStep, Apply, BlockShares, EnterTransaction, PublishEngine,
          ReleaseShares, Unblock, EnterBarrier, ApplyNetwork, UndoNetwork, SavePolicy, Boot, vars, shareVars
    <3> QED
      BY <1>2, <3>1, Zenon DEF Promised
  <2> QED
    BY <2>1, <2>2, <2>3, <2>4, Zenon
<1>3. Promised => SharesSaved
  BY Zenon DEF Promised, SharesSaved
<1>4. Typed /\ Promised /\ [Next]_vars => (Typed /\ Promised)'
  BY <1>2, NextTyped, Zenon
<1> QED
  BY <1>1, <1>3, <1>4, InitTyped, PTL DEF Spec

--------------------------------------------------------------------------------
(* What a restart boots.                                                       *)

(* A policy serves every part of the ports it serves.                      *)
LEMMA ValidParts ==
    /\ \A p, fs, gs : ValidFor(p, fs) /\ gs \subseteq fs => ValidFor(p, gs)
    /\ \A p, fs, gs : ValidFor(p, fs) /\ ValidFor(p, gs) => ValidFor(p, fs \cup gs)
    /\ \A fs, f : WithoutKey(fs, f) \subseteq fs
  BY Zenon DEF ValidFor, WithoutKey

(* A holder of the lock is of one kind.                                    *)
LEMMA TxApart ==
    /\ Free \notin SetTx /\ Free \notin PortTx /\ Org \notin SetTx /\ Org \notin PortTx /\ Free # Org
    /\ \A x \in PortTx : x \notin SetTx
  BY Zenon DEF Free, Org, SetTx, PortTx

(* A local request keeps what runs and what would boot together.           *)
LEMMA NetStepAgreed ==
    ASSUME NetTyped, Held, Agreed, NetStep, CallFaults = {}
    PROVE  Agreed'
<1>0. running /\ running' /\ Faults = {"none"}
  BY NetStepLock, Zenon DEF Faults
<1>s. saved \in [local : Locals, org : Orgs, ports : SUBSET Forwards]
  BY Zenon DEF NetTyped
<1>1. ASSUME NEW l \in Locals, Set(l) PROVE Agreed'
  <2> DEFINE p == Effective(l, current.org)
  <2>1. /\ tx = Free /\ ValidFor(p, saved.ports) /\ ValidFor(p, forwards) /\ enforced' = p
        /\ tx' = [op |-> "set", at |-> "save", policy |-> p] /\ UNCHANGED <<running, forwards, current, saved>>
    BY <1>1, Zenon DEF Set
  <2>2. current = BootPolicy /\ p.org = saved.org
    BY <2>1 DEF Agreed, BootPolicy, Effective
  <2> HIDE DEF p
  <2>3. tx' \notin PortTx /\ tx' # Free /\ tx'.policy = p
    BY <2>1, Zenon DEF PortTx, Free
  <2>4. BootPolicy' = BootPolicy
    BY <2>1, Zenon DEF BootPolicy
  <2> QED
    BY <2>1, <2>2, <2>3, <2>4, Zenon DEF Agreed, Sound
<1>2. ASSUME NEW outcome, SaveSet(outcome) PROVE Agreed'
  <2>1. /\ tx \in SetTx /\ tx.policy \in [local : Locals, org : Orgs]
        /\ UNCHANGED <<running, enforced, forwards>>
    BY <1>2, TxKinds, Zenon DEF SaveSet
  <2>2. CASE outcome = "failed"
    <3>1. tx' = [tx EXCEPT !.at = "undo"] /\ UNCHANGED <<saved, current>>
      BY <1>2, <2>2, Zenon DEF SaveSet, FileAfter
    <3>2. tx' \in SetTx /\ tx'.policy = tx.policy
      BY <2>1, <3>1, Zenon DEF SetTx
    <3>3. BootPolicy' = BootPolicy
      BY <3>1, Zenon DEF BootPolicy
    <3> QED
      BY <2>1, <3>1, <3>2, <3>3, TxApart, Zenon DEF Agreed, Sound
  <2>3. CASE outcome # "failed"
    <3>1. tx' = Free /\ saved' = [saved EXCEPT !.local = tx.policy.local] /\ current' = tx.policy
      BY <1>2, <2>3, Zenon DEF SaveSet, FileAfter
    <3>2. saved'.local = tx.policy.local /\ saved'.org = saved.org /\ saved'.ports = saved.ports
      BY <1>s, <3>1, Zenon
    <3>3. tx.policy = [local |-> tx.policy.local, org |-> tx.policy.org]
      BY <2>1, Zenon
    <3>4. BootPolicy' = tx.policy
      BY <2>1, <3>2, <3>3, Zenon DEF BootPolicy, Effective, Agreed
    <3> QED
      BY <2>1, <3>1, <3>2, <3>4, TxApart, Zenon DEF Agreed, Sound
  <2> QED
    BY <2>2, <2>3, Zenon
<1>3. ASSUME NEW fault \in Faults, UndoSet(fault) PROVE Agreed'
  <2>1. tx \in SetTx /\ tx' = Free /\ UNCHANGED <<running, forwards, current, saved>> /\ fault = "none"
    BY <1>0, <1>3, TxKinds, Zenon DEF UndoSet
  <2>2. enforced' = current /\ current = BootPolicy
    BY <1>0, <1>3, <2>1, Zenon DEF UndoSet, Agreed
  <2> QED
    BY <2>1, <2>2, TxApart, Zenon DEF Agreed, BootPolicy
<1>4. ASSUME NEW f \in Forwards, NEW persistent, Publish(f, persistent) PROVE Agreed'
  <2>1. /\ tx = Free /\ ValidFor(enforced, {f}) /\ forwards' = forwards \cup {f}
        /\ \/ tx' = Free
           \/ tx' = [op |-> "publish", at |-> "save", forward |-> f, live |-> forwards]
        /\ UNCHANGED <<running, enforced, current, saved>>
    BY <1>4, Zenon DEF Publish
  <2>2. tx' \notin SetTx /\ (tx' \in PortTx => tx'.forward = f)
    BY <2>1, TxApart DEF SetTx
  <2>3. enforced = BootPolicy /\ current = BootPolicy /\ BootPolicy' = BootPolicy
    BY <2>1, Zenon DEF Agreed, BootPolicy
  <2>4. ValidFor(BootPolicy, forwards')
    BY <1>0, <2>1, <2>3, ValidParts, Zenon DEF Agreed
  <2> QED
    BY <2>1, <2>2, <2>3, <2>4, Zenon DEF Agreed
<1>5. ASSUME NEW f \in Forwards, NEW persistent, Unpublish(f, persistent) PROVE Agreed'
  <2>1. /\ tx = Free /\ forwards' = WithoutKey(forwards, f)
        /\ \/ tx' = Free
           \/ tx' = [op |-> "unpublish", at |-> "save", forward |-> f, live |-> forwards]
        /\ UNCHANGED <<running, enforced, current, saved>>
    BY <1>5, Zenon DEF Unpublish
  <2>2. tx' \notin SetTx /\ tx'.op # "publish"
    BY <2>1, TxApart DEF SetTx, Free
  <2>3. enforced = BootPolicy /\ current = BootPolicy /\ BootPolicy' = BootPolicy
    BY <2>1, Zenon DEF Agreed, BootPolicy
  <2>4. ValidFor(BootPolicy, forwards')
    BY <1>0, <2>1, ValidParts, Zenon DEF Agreed
  <2> QED
    BY <2>1, <2>2, <2>3, <2>4, Zenon DEF Agreed
<1>6. ASSUME NEW outcome, SavePublish(outcome) \/ SaveUnpublish(outcome) PROVE Agreed'
  <2>1. /\ tx \in PortTx /\ UNCHANGED <<running, enforced, forwards, current>>
        /\ tx' = Free \/ tx' = [tx EXCEPT !.at = "undo"]
    BY <1>6, TxKinds, Zenon DEF SavePublish, SaveUnpublish
  <2>2. tx' = Free \/ (tx' \in PortTx /\ tx'.op = tx.op /\ tx'.forward = tx.forward)
    BY <2>1, TxKinds, Zenon DEF PortTx
  <2>3. /\ saved'.local = saved.local /\ saved'.org = saved.org
        /\ \/ saved'.ports = saved.ports
           \/ saved'.ports = Appended(saved.ports, tx.forward) /\ tx.op = "publish"
           \/ saved'.ports = WithoutKey(saved.ports, tx.forward)
    BY <1>s, <1>6, Zenon DEF SavePublish, SaveUnpublish, FileAfter
  <2>4. BootPolicy' = BootPolicy
    BY <2>3, Zenon DEF BootPolicy
  <2>5. ValidFor(BootPolicy, saved'.ports)
    <3>1. ValidFor(BootPolicy, saved.ports)
      BY Zenon DEF Agreed
    <3>2. ValidFor(BootPolicy, WithoutKey(saved.ports, tx.forward))
      BY <3>1, Zenon DEF ValidFor, WithoutKey
    <3>3. CASE saved'.ports = Appended(saved.ports, tx.forward) /\ tx.op = "publish"
      <4>1. ValidFor(BootPolicy, {tx.forward})
        BY <2>1, <3>3, Zenon DEF Agreed
      <4> QED
        BY <3>2, <3>3, <4>1, Zenon DEF Appended, ValidFor
    <3> QED
      BY <2>3, <3>1, <3>2, <3>3, Zenon
  <2> QED
    BY <2>1, <2>2, <2>4, <2>5, TxApart, Zenon DEF Agreed
<1>7. ASSUME NEW fault, UndoPublish(fault) \/ UndoUnpublish(fault) PROVE Agreed'
  <2>1. /\ tx \in PortTx /\ tx' = Free /\ UNCHANGED <<running, enforced, current, saved>>
        /\ \/ forwards' = forwards
           \/ forwards' = WithoutKey(forwards, tx.forward)
           \/ forwards' = forwards \cup {tx.forward} /\ ValidFor(enforced, {tx.forward})
    BY <1>7, TxKinds, Zenon DEF UndoPublish, UndoUnpublish
  <2>2. enforced = BootPolicy /\ current = BootPolicy /\ BootPolicy' = BootPolicy
    BY <2>1, Zenon DEF Agreed, BootPolicy
  <2>3. ValidFor(BootPolicy, forwards')
    BY <1>0, <2>1, <2>2, ValidParts, Zenon DEF Agreed
  <2> QED
    BY <2>1, <2>2, <2>3, TxApart, Zenon DEF Agreed
<1> QED
  BY <1>1, <1>2, <1>3, <1>4, <1>5, <1>6, <1>7, Zenon DEF NetStep, NetFinish

(* So does every step of an update, whose backend calls succeed.           *)
LEMMA UpdateAgreed ==
    ASSUME NetTyped, Held, Agreed, Prepared, CallFaults = {}, UpdateStep \/ \E org \in Orgs : Apply(org)
    PROVE  Agreed' /\ Prepared'
<1>0. Faults = {"none"} /\ \A l, o : Effective(l, o).local = l /\ Effective(l, o).org = o
  BY Zenon DEF Faults, Effective
<1>s. saved \in [local : Locals, org : Orgs, ports : SUBSET Forwards]
  BY Zenon DEF NetTyped
<1>k. (tx = Org <=> update.at \in Inside) /\ (update.at \in Inside => running)
  BY UpdateKinds, Zenon DEF Held, Inside
<1>b. UNCHANGED saved => BootPolicy' = BootPolicy
  BY Zenon DEF BootPolicy
<1>n. ASSUME UNCHANGED <<saved, forwards>>, update'.org = update.org, update'.network = update.network
      PROVE  NextNetwork' = NextNetwork /\ (Sound(NextNetwork))' = Sound(NextNetwork)
  BY <1>n, Zenon DEF NextNetwork, Sound
<1> USE DEF Now, NowAt
<1>1. CASE UNCHANGED netVars /\ update'.at \in Outside \cup {"none"}
  BY <1>1, Zenon DEF netVars, Agreed, Prepared, BootPolicy, Sound, Inside, Outside
<1>2. CASE BlockShares \/ ReleaseShares \/ Unblock \/ \E org \in Orgs : Apply(org)
  <2>1. update'.at \in Outside \cup {"none"}
    <3>1. ASSUME NEW org, Apply(org) PROVE update'.at = "block"
      BY <3>1, Zenon DEF Apply
    <3> QED
      BY <1>2, <3>1, Steps, Zenon DEF Outside
  <2> QED
    BY <1>1, <1>2, <2>1, Zenon DEF BlockShares, ReleaseShares, Unblock, Apply
<1>3. CASE EnterTransaction
  <2>1. tx = Free /\ UNCHANGED <<running, enforced, forwards, current, saved>>
    BY <1>3, Zenon DEF EnterTransaction
  <2>2. CASE NowAt("release") /\ tx' = tx
    BY <1>1, <2>1, <2>2, Zenon DEF netVars, Outside
  <2>3. CASE Now("barrier", current, update.failed) /\ tx' = Org
    <3>1. enforced = BootPolicy /\ current = BootPolicy
      BY <2>1, Zenon DEF Agreed
    <3>2. ValidFor(Effective(current.local, update.org), saved.ports)
      BY <1>3, <2>1, <2>3, TxApart, Zenon DEF EnterTransaction
    <3>3. NextNetwork' = Effective(current.local, update.org)
      BY <2>3, Zenon DEF NextNetwork
    <3>4. Agreed'
      BY <1>b, <2>1, <2>3, TxApart, Zenon DEF Agreed
    <3>5. Prepared'
      BY <1>b, <2>1, <2>3, <3>1, <3>2, <3>3, Zenon DEF Prepared
    <3> QED
      BY <3>4, <3>5, Zenon
  <2> QED
    BY <1>3, <2>2, <2>3, Steps, Zenon
<1>4. ASSUME NEW fault \in Faults, EnterBarrier(fault) PROVE Agreed' /\ Prepared'
  <2>1. update.at = "barrier" /\ NowAt("network") /\ tx' = tx /\ UNCHANGED <<running, forwards, saved>>
    BY <1>0, <1>4, Steps, Zenon DEF EnterBarrier
  <2>2. Agreed'
    BY <1>b, <1>k, <2>1, TxApart, Zenon DEF Agreed, Inside
  <2>3. Prepared'
    BY <1>b, <1>n, <2>1, Zenon DEF Prepared, Inside
  <2> QED
    BY <2>2, <2>3, Zenon
<1>5. ASSUME NEW fault \in Faults, ApplyNetwork(fault) PROVE Agreed' /\ Prepared'
  <2>1. /\ update.at = "network" /\ (NowAt("shares") \/ NowAt("undo network")) /\ tx' = tx
        /\ UNCHANGED <<running, forwards, saved>>
    BY <1>5, Steps, Zenon DEF ApplyNetwork
  <2>2. Agreed'
    BY <1>b, <1>k, <2>1, TxApart, Zenon DEF Agreed, Inside
  <2>3. NowAt("shares") => enforced' = NextNetwork /\ current' = NextNetwork /\ Sound(NextNetwork)
    <3>1. Goto("undo network") => update'.at = "undo network"
      BY <2>1, UpdateKinds, Moves, Zenon DEF Moved, Inside
    <3>2. NowAt("shares") => ~ Goto("undo network")
      BY <3>1, Zenon
    <3>3. ValidFor(NextNetwork, saved.ports)
      BY <2>1, Zenon DEF Prepared
    <3> QED
      BY <1>5, <3>2, <3>3, Zenon DEF ApplyNetwork, ReplaceEffectivePolicy, Sound
  <2>4. Prepared'
    BY <1>b, <1>n, <2>1, <2>3, Zenon DEF Prepared, Inside
  <2> QED
    BY <2>2, <2>4, Zenon
<1>6. CASE Reconcile \/ UndoShares
  <2>1. /\ UNCHANGED <<running, enforced, forwards, current, saved, tx>>
        /\ \/ update.at = "shares" /\ update'.at \in {"save", "undo network"}
           \/ update.at = "undo shares" /\ update'.at = "undo network"
        /\ update'.org = update.org /\ update'.network = update.network
    BY <1>6, Steps, Zenon DEF Reconcile, UndoShares, netVars
  <2>2. Agreed'
    BY <1>b, <2>1, Zenon DEF Agreed, Sound
  <2>3. Prepared'
    BY <1>b, <1>n, <2>1, Zenon DEF Prepared, Inside
  <2> QED
    BY <2>2, <2>3, Zenon
<1>7. ASSUME NEW outcome, SavePolicy(outcome) PROVE Agreed' /\ Prepared'
  <2>1. /\ update.at = "save" /\ NowAt(IF outcome = "failed" THEN "undo shares" ELSE "publish")
        /\ UNCHANGED <<running, enforced, forwards, current, tx>>
    BY <1>7, Steps, Zenon DEF SavePolicy
  <2>2. tx \notin SetTx /\ tx \notin PortTx /\ tx # Free /\ running
    BY <1>k, <2>1, TxApart, Zenon DEF Inside
  <2>3. enforced = NextNetwork /\ current = NextNetwork /\ Sound(NextNetwork) /\ update.network = BootPolicy
    BY <2>1, Zenon DEF Prepared, Inside
  <2>4. CASE outcome = "failed"
    <3>1. UNCHANGED saved
      BY <1>7, <2>4, Zenon DEF SavePolicy, FileAfter
    <3>2. Agreed'
      BY <1>b, <2>1, <3>1, Zenon DEF Agreed, Sound
    <3>3. Prepared'
      BY <1>b, <1>n, <2>1, <2>3, <2>4, <3>1, Zenon DEF Prepared, Inside
    <3> QED
      BY <3>2, <3>3, Zenon
  <2>5. CASE outcome # "failed"
    <3>1. saved' = [saved EXCEPT !.org = update.org]
      BY <1>7, <2>5, Zenon DEF SavePolicy, FileAfter
    <3>2. saved'.local = saved.local /\ saved'.org = update.org /\ saved'.ports = saved.ports
      BY <1>s, <3>1, Zenon
    <3>3. NextNetwork' = NextNetwork /\ BootPolicy' = NextNetwork
      <4>1. NextNetwork' = NextNetwork
        BY <2>1, Zenon DEF NextNetwork
      <4>2. update.network.local = saved.local
        <5>1. BootPolicy.local = saved.local
          BY Zenon DEF BootPolicy, Effective
        <5> QED
          BY <2>3, <5>1, Zenon
      <4>3. NextNetwork = Effective(saved.local, update.org)
        BY <4>2, Zenon DEF NextNetwork
      <4>4. BootPolicy' = Effective(saved.local, update.org)
        BY <3>2, Zenon DEF BootPolicy
      <4> QED
        BY <4>1, <4>3, <4>4, Zenon
    <3>4. Agreed'
      BY <2>1, <2>2, <2>3, <3>2, <3>3, Zenon DEF Agreed, Sound
    <3>5. Prepared'
      BY <2>1, <2>3, <2>5, <3>2, <3>3, Zenon DEF Prepared, Sound, Inside
    <3> QED
      BY <3>4, <3>5, Zenon
  <2> QED
    BY <2>4, <2>5, Zenon
<1>8. CASE PublishEngine
  <2>1. /\ update.at = "publish" /\ NowAt("release") /\ tx' = Free
        /\ UNCHANGED <<running, enforced, forwards, current, saved>>
    BY <1>8, Steps, Zenon DEF PublishEngine, LeaveTransaction
  <2>2. enforced = BootPolicy /\ current = BootPolicy
    BY <2>1, Zenon DEF Prepared
  <2>3. Agreed'
    BY <1>b, <2>1, <2>2, TxApart, Zenon DEF Agreed
  <2>4. Prepared'
    BY <2>1, Zenon DEF Prepared, Inside
  <2> QED
    BY <2>3, <2>4, Zenon
<1>9. ASSUME NEW fault \in Faults, UndoNetwork(fault) PROVE Agreed' /\ Prepared'
  <2>1. /\ update.at = "undo network" /\ tx' = Free /\ UNCHANGED <<running, forwards, saved>>
        /\ update'.at = "release" \/ update'.at = "none"
    BY <1>9, Steps, Zenon DEF UndoNetwork, Settle
  <2>2. update.network = BootPolicy /\ ValidFor(BootPolicy, forwards)
    BY <1>k, <2>1, Zenon DEF Prepared, Agreed, Inside
  <2>3. enforced' = BootPolicy /\ current' = BootPolicy
    BY <1>0, <1>9, <2>2, Zenon DEF UndoNetwork, ReplaceEffectivePolicy
  <2>4. Agreed'
    BY <1>b, <2>1, <2>3, TxApart, Zenon DEF Agreed
  <2>5. Prepared'
    BY <2>1, Zenon DEF Prepared, Inside
  <2> QED
    BY <2>4, <2>5, Zenon
<1> QED
  BY <1>2, <1>3, <1>4, <1>5, <1>6, <1>7, <1>8, <1>9, Zenon DEF UpdateStep

(* When no backend call fails for reasons of its own, what a restart would *)
(* boot is what runs between transactions, and it boots.                   *)
THEOREM RestartAgrees == CallFaults = {} => (Spec => []BootAgrees)
<1> SUFFICES ASSUME CallFaults = {} PROVE Spec => []BootAgrees
  BY Zenon
<1> DEFINE Inv == Typed /\ Agreed /\ Prepared
<1>1. ASSUME Init PROVE Inv
  <2>1. PICK l \in Locals, o \in Orgs : NetBooted([local |-> l, org |-> o, ports |-> {}])
    BY <1>1, Zenon DEF Init, NetInit
  <2>2. /\ saved.ports = {} /\ forwards = {} /\ tx = Free /\ enforced = BootPolicy /\ current = BootPolicy
        /\ update.at = "none"
    BY <1>1, <2>1, Zenon DEF NetBooted, BootPolicy, Init, None
  <2>3. Agreed
    BY <2>2, TxApart, Zenon DEF Agreed, ValidFor
  <2>4. Prepared
    BY <2>2, Zenon DEF Prepared, Inside
  <2> QED
    BY <1>1, <2>3, <2>4, InitTyped, Zenon
<1>2. ASSUME Inv, [Next]_vars PROVE Inv'
  <2>h. NetTyped /\ Held /\ SharesTyped
    BY <1>2, Zenon DEF Typed
  <2>1. Typed'
    BY <1>2, NextTyped, Zenon
  <2>2. CASE NetStep /\ UNCHANGED <<shareVars, update, stopping>>
    <3>1. Agreed' /\ tx # Org
      BY <1>2, <2>h, <2>2, NetStepAgreed, NetStepLock, Zenon
    <3>2. update' = update /\ update.at \notin Inside
      BY <2>h, <2>2, <3>1, Zenon DEF Held
    <3> QED
      BY <2>1, <3>1, <3>2, Zenon DEF Prepared, Inside
  <2>3. CASE UpdateStep \/ \E org \in Orgs : Apply(org)
    BY <1>2, <2>1, <2>h, <2>3, UpdateAgreed, Zenon
  <2>4. CASE Down \/ Boot
    <3>1. /\ update'.at = "none" /\ tx' = Free /\ UNCHANGED saved
          /\ enforced' = BootPolicy /\ current' = BootPolicy /\ BootPolicy' = BootPolicy
      BY <1>2, <2>4, Rebooted, Zenon DEF BootPolicy
    <3>2. running' => ValidFor(BootPolicy, forwards')
      BY <1>2, <2>4, Zenon DEF Down, NetDown, Boot, NetBoot, Agreed
    <3>3. Agreed'
      BY <1>2, <3>1, <3>2, TxApart, Zenon DEF Agreed
    <3>4. Prepared'
      BY <3>1, Zenon DEF Prepared, Inside
    <3> QED
      BY <2>1, <3>3, <3>4, Zenon
  <2>5. CASE UNCHANGED <<netVars, update>>
    BY <1>2, <2>1, <2>5, Zenon DEF netVars, Agreed, Prepared, Sound, BootPolicy, NextNetwork
  <2> QED
    BY <1>2, <2>2, <2>3, <2>4, <2>5, Zenon DEF Next, vars
<1>3. Inv => BootAgrees
  BY Zenon DEF Agreed, BootAgrees, SavedPortsBoot, PolicyAgrees
<1>4. Init => Inv
  BY <1>1, Zenon
<1>5. Inv /\ [Next]_vars => Inv'
  BY <1>2, Zenon
<1> QED
  BY <1>3, <1>4, <1>5, PTL DEF Spec
================================================================================
