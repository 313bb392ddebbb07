-------------------------- MODULE PolicyFeedProofs --------------------------
(***************************************************************************)
(* The two ends of the policy feed, each on its own and joined, for any    *)
(* hosts, any bundles and any number of generations.                       *)
(*                                                                         *)
(* The receiver: what a host never does, whatever the service answers,     *)
(* however its saves fail and whenever its manager crashes.  Two inductive *)
(* invariants: Anchored, about the durable cursor, holds always; Covered,  *)
(* about the sandboxes, holds while no bundle expires.                     *)
(*                                                                         *)
(* The service: whatever the hosts report, what was sent stays recorded    *)
(* (Durable), and no held request sleeps through a change (NoLostWakeup,   *)
(* inductive given the types).                                             *)
(*                                                                         *)
(* The feed: joined, each end takes the steps it takes on its own, and     *)
(* Wired relates what one knows of the other; from FeedInv, all of these   *)
(* together, follow the properties of PolicyFeed and its refinement.       *)
(***************************************************************************)
EXTENDS PolicyFeed, TLAPS

-----------------------------------------------------------------------------
(* The receiver.                                                           *)

(* A cursor covers the host's history: nothing published for admission is  *)
(* newer than what it holds, and nothing else has its newest number.       *)
Covers(c, past) ==
    \A p \in past : /\ p.gen <= Desired(c).gen
                    /\ p.gen = Desired(c).gen => p = Desired(c)

(* f, s: the cursor on disk and in memory; rp: a restore is due; st: the   *)
(* receiver's step; past: the history; rep: the generation reported.       *)
AnchoredAt(f, s, rp, st, past, rep) ==
    /\ ValidCursor(f) /\ ValidCursor(s)
    /\ rp => Desired(s).gen # 0
    /\ st = "promote" => s.pgen # 0
    /\ Covers(f, past)
    /\ rep <= f.gen
    /\ st # "down" =>
         /\ Covers(s, past)
         /\ rep <= s.gen
         /\ s.gen <= f.gen
         /\ f.gen <= Desired(s).gen
         /\ Desired(f) = Desired(s) \/ Desired(f).gen > Desired(s).gen

HostAnchored(h) ==
    AnchoredAt(file[h], state[h], restorePending[h], step[h], history[h], reported[h])

Anchored == ReceiverTypeOK /\ OneBodyPerGeneration /\ \A h \in Hosts : HostAnchored(h)

(* fl: what the host's sandboxes enforce; ad: what admission enforces; cl: *)
(* who called Restore.                                                     *)
CoveredAt(f, s, rp, st, cl, fl, ad) ==
    /\ \A p \in fl : p.gen >= f.gen
    /\ st \in {"apply", "promote"} => ad = Desired(s)
    /\ st = "promote" => \A p \in fl : p.gen >= s.pgen
    /\ st = "restore" /\ cl = "boot" /\ Desired(s).gen # 0 => rp
    /\ st # "down" /\ ~ (cl = "boot" /\ st \in {"restore", "apply", "promote"}) =>
         ad.gen >= f.gen

HostCovered(h) ==
    CoveredAt(file[h], state[h], restorePending[h], step[h], caller[h], fleet[h], admitted[h])

Covered == expired = {} /\ \A h \in Hosts : HostCovered(h)

-----------------------------------------------------------------------------

(* What Restore applies is a snapshot at least as new as the applied       *)
(* generation, and a bundle when its number is not zero.                   *)
LEMMA DesiredFacts ==
    ASSUME NEW c \in Cursor, ValidCursor(c)
    PROVE  /\ Desired(c) \in Snapshot
           /\ Desired(c).gen \in Nat
           /\ c.gen <= Desired(c).gen
           /\ Desired(c).gen # 0 => Desired(c) \in [gen : Nat \ {0}, body : Bundles]
BY NoneIsNoBundle DEF Cursor, ValidCursor, Desired, Snapshot

(* The cursor of a host that has never been managed.                       *)
LEMMA BlankFacts ==
    Blank \in Cursor /\ ValidCursor(Blank) /\ Desired(Blank) = Unmanaged /\ Blank.gen = 0
BY NoneIsNoBundle, Zenon DEF Blank, Cursor, ValidCursor, Desired, Unmanaged

(* Promotion keeps the newest snapshot and makes it the applied one.       *)
LEMMA PromotedFacts ==
    ASSUME NEW c \in Cursor, ValidCursor(c), c.pgen # 0
    PROVE  /\ Promoted(c) \in Cursor
           /\ ValidCursor(Promoted(c))
           /\ Desired(Promoted(c)) = Desired(c)
           /\ Promoted(c).gen = Desired(c).gen
           /\ Desired(c).gen = c.pgen
           /\ Promoted(c).pgen = 0
BY NoneIsNoBundle, Zenon DEF Cursor, ValidCursor, Desired, Promoted, Blank

(* A staged response is newer than anything the cursor held.               *)
LEMMA StagedFacts ==
    ASSUME NEW c \in Cursor, ValidCursor(c), NEW r \in Responses,
           Refusal(c, r) = "none", r.gen \notin {c.gen, c.pgen}
    PROVE  /\ Staged(c, r) \in Cursor
           /\ ValidCursor(Staged(c, r))
           /\ Desired(Staged(c, r)).gen > Desired(c).gen
           /\ Desired(Staged(c, r)).gen # 0
           /\ Staged(c, r).gen = c.gen
<1>1. r.gen \in Nat \ {0} /\ r.body \in Bundles /\ r.etag \in Nat
  BY ResponsesTyped, Zenon
<1>2. ~ RollsBack(c, r)
  BY Zenon DEF Refusal
<1>3. c.gen \in Nat /\ c.pgen \in Nat /\ r.gen > c.gen /\ (c.pgen # 0 => r.gen > c.pgen)
  BY <1>1, <1>2 DEF RollsBack, Cursor
<1>. QED
  BY <1>1, <1>3, NoneIsNoBundle, Zenon DEF Cursor, ValidCursor, Desired, Staged

(* A new entity tag changes neither generation.                            *)
LEMMA RetaggedFacts ==
    ASSUME NEW c \in Cursor, ValidCursor(c), NEW e \in Nat
    PROVE  LET n == [c EXCEPT !.etag = e]
           IN  n \in Cursor /\ ValidCursor(n) /\ Desired(n) = Desired(c) /\ n.gen = c.gen
BY Zenon DEF Cursor, ValidCursor, Desired

(* Covering depends on the newest snapshot alone, and is kept by a newer.  *)
LEMMA CoversFacts ==
    ASSUME NEW c \in Cursor, NEW d \in Cursor, ValidCursor(c), ValidCursor(d),
           NEW past \in SUBSET [gen : Nat \ {0}, body : Bundles], Covers(c, past),
           Desired(d) = Desired(c) \/ Desired(d).gen > Desired(c).gen
    PROVE  Covers(d, past)
<1>1. CASE Desired(d) = Desired(c)
  BY <1>1, Zenon DEF Covers
<1>2. CASE Desired(d).gen > Desired(c).gen
  <2>. Desired(c).gen \in Nat /\ Desired(d).gen \in Nat
    BY DesiredFacts, Zenon
  <2>. SUFFICES ASSUME NEW p \in past
                PROVE  p.gen < Desired(d).gen
    BY DEF Covers
  <2>. QED
    BY <1>2 DEF Covers
<1>. QED
  BY <1>1, <1>2, Zenon

-----------------------------------------------------------------------------

(* Before the first start nothing is stored, reported or learnt.           *)
LEMMA InitAnchored == ReceiverInit => Anchored
<1>. SUFFICES ASSUME ReceiverInit PROVE Anchored
  BY Zenon
<1>1. ReceiverTypeOK
  BY BlankFacts DEF ReceiverInit, ReceiverTypeOK, NotRejected, Reasons, Steps, Callers, Unmanaged, Snapshot
<1>2. OneBodyPerGeneration
  BY Zenon DEF ReceiverInit, OneBodyPerGeneration
<1>3. ASSUME NEW h \in Hosts PROVE HostAnchored(h)
  BY BlankFacts DEF ReceiverInit, HostAnchored, AnchoredAt, Covers
<1>. QED
  BY <1>1, <1>2, <1>3, Zenon DEF Anchored

(* The types are kept: a snapshot is published only while a restore is     *)
(* due, and then the cursor names a bundle.                                *)
LEMMA TypeStep ==
    ASSUME Anchored, [ReceiverNext]_hostVars
    PROVE  ReceiverTypeOK'
<1>. USE DEF Anchored
<1>. SUFFICES ASSUME ReceiverNext PROVE ReceiverTypeOK'
  BY Zenon DEF hostVars, receiverVars, managerVars, ReceiverTypeOK
<1>0. ASSUME NEW h \in Hosts
      PROVE  /\ file[h] \in Cursor /\ state[h] \in Cursor
             /\ ValidCursor(file[h]) /\ ValidCursor(state[h])
  BY Zenon DEF ReceiverTypeOK, HostAnchored, AnchoredAt
<1>1. ASSUME NEW h \in Hosts, HostStep(h) PROVE ReceiverTypeOK'
  <2>. /\ Desired(state[h]) \in Snapshot
       /\ restorePending[h] => Desired(state[h]) \in [gen : Nat \ {0}, body : Bundles]
    BY <1>0, DesiredFacts, Zenon DEF HostAnchored, AnchoredAt
  <2>1. CASE NewReceiver(h)
    BY <2>1, Zenon DEF NewReceiver, ReceiverTypeOK, GoTo, Steps, Callers, Reasons, NotRejected, managerVars
  <2>2. CASE RestoreNothing(h)
    BY <2>2, Zenon DEF RestoreNothing, ReceiverTypeOK, Returned, GoTo, Steps, managerVars
  <2>3. CASE ApplyRefused(h)
    BY <2>3, Zenon DEF ApplyRefused, Failed, ReceiverTypeOK, Returned, GoTo, Steps, managerVars
  <2>4. CASE ApplyPublish(h)
    BY <2>4, Zenon DEF ApplyPublish, ReceiverTypeOK, GoTo, Steps
  <2>5. CASE ApplyIncomplete(h)
    BY <2>5 DEF ApplyIncomplete, Failed, ReceiverTypeOK, Returned, GoTo, Steps
  <2>6. CASE ApplyComplete(h)
    BY <2>6, Zenon DEF ApplyComplete, ReceiverTypeOK, Returned, GoTo, Steps
  <2>7. CASE Promote(h)
    <3>. Promoted(state[h]) \in Cursor
      BY <1>0, <2>7, PromotedFacts, Zenon DEF Promote, At, HostAnchored, AnchoredAt
    <3>1. file' \in [Hosts -> Cursor] /\ state' \in [Hosts -> Cursor]
      <4>1. PICK outcome \in SaveOutcomes :
              file' = [file EXCEPT ![h] = FileAfter(outcome, file[h], Promoted(state[h]))]
        BY <2>7, Zenon DEF Promote
      <4>2. file' \in [Hosts -> Cursor]
        BY <1>0, <4>1, Zenon DEF FileAfter, ReceiverTypeOK
      <4>3. state' = [state EXCEPT ![h] = Promoted(state[h])] \/ state' = state
        BY <2>7, Zenon DEF Promote
      <4>. QED
        BY <4>2, <4>3 DEF ReceiverTypeOK
    <3>2. attempted' \in [Hosts -> BOOLEAN] /\ restorePending' \in [Hosts -> BOOLEAN]
      BY <2>7, Zenon DEF Promote, ReceiverTypeOK
    <3>3. step' \in [Hosts -> Steps]
      BY <2>7, Zenon DEF Promote, ReceiverTypeOK, Returned, GoTo, Steps
    <3>. QED
      BY <2>7, <3>1, <3>2, <3>3, Zenon DEF Promote, ReceiverTypeOK, managerVars
  <2>8. CASE SyncStart(h)
    BY <2>8, Zenon DEF SyncStart, ReceiverTypeOK, GoTo, Steps, Callers, managerVars
  <2>9. CASE Crash(h)
    <3>. Blank \in Cursor /\ Unmanaged \in Snapshot /\ NotRejected \in [gen : Nat, reason : Reasons]
      BY BlankFacts, Zenon DEF Unmanaged, Snapshot, NotRejected, Reasons
    <3>. QED
      BY <2>9, Zenon DEF Crash, ReceiverTypeOK, GoTo, Steps, Callers
  <2>10. CASE StartSandbox(h)
    BY <2>10 DEF StartSandbox, ReceiverTypeOK, receiverVars
  <2>. QED
    BY <1>1, <2>1, <2>2, <2>3, <2>4, <2>5, <2>6, <2>7, <2>8, <2>9, <2>10, Zenon DEF HostStep
<1>2. ASSUME NEW h \in Hosts, Ask(h) PROVE ReceiverTypeOK'
  <2>. state[h].gen \in Nat
    BY <1>0, Zenon DEF Cursor
  <2>. QED
    BY <1>2, Zenon DEF Ask, ReceiverTypeOK, GoTo, Steps, managerVars
<1>3. ASSUME NEW h \in Hosts, NoNews(h) PROVE ReceiverTypeOK'
  BY <1>3, Zenon DEF NoNews, ReceiverTypeOK, GoTo, Steps, managerVars
<1>4. ASSUME NEW h \in Hosts, ReceiveInvalid(h) PROVE ReceiverTypeOK'
  BY <1>4, Zenon DEF ReceiveInvalid, Reject, ReceiverTypeOK, GoTo, Steps, Reasons, managerVars
<1>5. ASSUME NEW h \in Hosts, NEW r \in Responses, Receive(h, r) PROVE ReceiverTypeOK'
  <2>0. r.gen \in Nat /\ r.etag \in Nat
    BY ResponsesTyped, Zenon
  <2>1. CASE ReceiveRefused(h, r)
    <3>. [gen |-> r.gen, reason |-> Refusal(state[h], r)] \in [gen : Nat, reason : Reasons]
      BY <2>0, Zenon DEF Refusal, Reasons
    <3>. QED
      BY <2>1, Zenon DEF ReceiveRefused, Reject, ReceiverTypeOK, GoTo, Steps, managerVars
  <2>2. CASE ReceiveHeld(h, r)
    <3>. [state[h] EXCEPT !.etag = r.etag] \in Cursor
      BY <1>0, <2>0, RetaggedFacts, Zenon
    <3>. QED
      <4>1. /\ file' \in {file, [file EXCEPT ![h] = [state[h] EXCEPT !.etag = r.etag]]}
            /\ state' \in {state, [state EXCEPT ![h] = [state[h] EXCEPT !.etag = r.etag]]}
        BY <2>2, Zenon DEF ReceiveHeld, FileAfter, ReceiverTypeOK
      <4>. DEFINE n == [state[h] EXCEPT !.etag = r.etag]
      <4>. HIDE DEF n
      <4>2. file' \in [Hosts -> Cursor] /\ state' \in [Hosts -> Cursor]
        <5>. n \in Cursor /\ file \in [Hosts -> Cursor] /\ state \in [Hosts -> Cursor]
          BY Zenon DEF n, ReceiverTypeOK
        <5>. file' \in {file, [file EXCEPT ![h] = n]} /\ state' \in {state, [state EXCEPT ![h] = n]}
          BY <4>1, Zenon DEF n
        <5>. QED
          BY Zenon
      <4>3. step' \in [Hosts -> Steps]
        BY <2>2, Zenon DEF ReceiveHeld, GoTo, ReceiverTypeOK, Steps
      <4>. QED
        BY <2>2, <4>2, <4>3, Zenon DEF ReceiveHeld, ReceiverTypeOK, managerVars
  <2>3. CASE Stage(h, r)
    <3>. Staged(state[h], r) \in Cursor
      BY <1>0, <2>3, StagedFacts, Zenon DEF Stage
    <3>1. file' \in [Hosts -> Cursor] /\ state' \in [Hosts -> Cursor]
      BY <1>0, <2>3 DEF Stage, FileAfter, ReceiverTypeOK
    <3>2. attempted' \in [Hosts -> BOOLEAN] /\ restorePending' \in [Hosts -> BOOLEAN]
      <4>. /\ attempted' \in {attempted, [attempted EXCEPT ![h] = FALSE]}
           /\ restorePending' \in {restorePending, [restorePending EXCEPT ![h] = TRUE]}
        BY <2>3, Zenon DEF Stage
      <4>. QED
        BY Zenon DEF ReceiverTypeOK
    <3>3. step' \in [Hosts -> Steps] /\ caller' \in [Hosts -> Callers]
      BY <2>3, Zenon DEF Stage, ReceiverTypeOK, GoTo, Steps, Callers
    <3>4. rejected' \in [Hosts -> [gen : Nat, reason : Reasons]]
      <4>. NotRejected \in [gen : Nat, reason : Reasons]
        BY Zenon DEF NotRejected, Reasons
      <4>. QED
        BY <2>3 DEF Stage, ReceiverTypeOK
    <3>. QED
      BY <2>3, <3>1, <3>2, <3>3, <3>4, Zenon DEF Stage, ReceiverTypeOK, managerVars
  <2>. QED
    BY <1>5, <2>1, <2>2, <2>3, Zenon DEF Receive
<1>6. ASSUME NEW b \in Expiring, Expire(b) PROVE ReceiverTypeOK'
  BY <1>6, ExpiringKnown, Zenon DEF Expire, ReceiverTypeOK, receiverVars, managerVars
<1>. QED
  BY <1>1, <1>2, <1>3, <1>4, <1>5, <1>6, Zenon DEF ReceiverNext, Exchange

(* A step of one host leaves every other host alone.                       *)
Untouched(g) ==
    /\ file'[g] = file[g] /\ state'[g] = state[g]
    /\ restorePending'[g] = restorePending[g]
    /\ step'[g] = step[g] /\ caller'[g] = caller[g]
    /\ admitted'[g] = admitted[g] /\ fleet'[g] = fleet[g]
    /\ history'[g] = history[g] /\ reported'[g] = reported[g]

(* A step of one host keeps what holds of the others.                      *)
LEMMA OthersUntouched ==
    ASSUME ReceiverTypeOK, NEW g \in Hosts, NEW h \in Hosts, g # h, HostStep(h) \/ Exchange(h)
    PROVE  Untouched(g)
<1>. USE DEF Untouched, ReceiverTypeOK, GoTo, managerVars
<1>1. CASE NewReceiver(h)
  BY <1>1, Zenon DEF NewReceiver
<1>2. CASE RestoreNothing(h)
  BY <1>2, Zenon DEF RestoreNothing, Returned
<1>3. CASE ApplyRefused(h)
  BY <1>3, Zenon DEF ApplyRefused, Returned
<1>4. CASE ApplyPublish(h)
  BY <1>4, Zenon DEF ApplyPublish
<1>5. CASE ApplyIncomplete(h)
  BY <1>5, Zenon DEF ApplyIncomplete, Returned
<1>6. CASE ApplyComplete(h)
  BY <1>6, Zenon DEF ApplyComplete, Returned
<1>7. CASE Promote(h)
  BY <1>7 DEF Promote, Returned
<1>8. CASE SyncStart(h)
  BY <1>8, Zenon DEF SyncStart
<1>9. CASE Crash(h)
  BY <1>9, Zenon DEF Crash
<1>10. CASE StartSandbox(h)
  BY <1>10, Zenon DEF StartSandbox, receiverVars
<1>11. CASE Ask(h)
  BY <1>11, Zenon DEF Ask
<1>12. CASE NoNews(h)
  BY <1>12, Zenon DEF NoNews
<1>13. CASE ReceiveInvalid(h)
  BY <1>13, Zenon DEF ReceiveInvalid, Reject
<1>14. ASSUME NEW r \in Responses, ReceiveRefused(h, r) PROVE Untouched(g)
  BY <1>14, Zenon DEF ReceiveRefused, Reject
<1>15. ASSUME NEW r \in Responses, ReceiveHeld(h, r) PROVE Untouched(g)
  BY <1>15, Zenon DEF ReceiveHeld
<1>16. ASSUME NEW r \in Responses, Stage(h, r) PROVE Untouched(g)
  BY <1>16 DEF Stage
<1>. HIDE DEF Untouched, ReceiverTypeOK, GoTo, managerVars
<1>. QED
  BY Zenon, <1>1, <1>2, <1>3, <1>4, <1>5, <1>6, <1>7, <1>8, <1>9, <1>10, <1>11, <1>12, <1>13,
     <1>14, <1>15, <1>16 DEF HostStep, Exchange, Receive

(* The anchor, one step at a time, in the values of one host.              *)
LEMMA AnchorStep ==
    ASSUME Anchored, [ReceiverNext]_hostVars, NEW g \in Hosts
    PROVE  HostAnchored(g)'
<1>. DEFINE f == file[g]
            s == state[g]
            past == history[g]
            rep == reported[g]
            Up == step[g] # "down"
<1>1. ReceiverTypeOK /\ HostAnchored(g)
  BY Zenon DEF Anchored
<1>2. /\ f \in Cursor /\ s \in Cursor /\ rep \in Nat
      /\ past \in SUBSET [gen : Nat \ {0}, body : Bundles]
  BY <1>1, Zenon DEF ReceiverTypeOK
<1>3. ValidCursor(f) /\ ValidCursor(s) /\ Covers(f, past) /\ rep <= f.gen
  BY <1>1, Zenon DEF HostAnchored, AnchoredAt
<1>4. restorePending[g] => Desired(s).gen # 0
  BY <1>1, Zenon DEF HostAnchored, AnchoredAt
<1>5. step[g] = "promote" => s.pgen # 0
  BY <1>1, Zenon DEF HostAnchored, AnchoredAt
<1>6. Up => /\ Covers(s, past)
            /\ rep <= s.gen
            /\ s.gen <= f.gen
            /\ f.gen <= Desired(s).gen
            /\ Desired(f) = Desired(s) \/ Desired(f).gen > Desired(s).gen
  BY <1>1, Zenon DEF HostAnchored, AnchoredAt
<1>7. f.gen \in Nat /\ s.gen \in Nat
  BY <1>2, Zenon DEF Cursor
<1>8. /\ Desired(f).gen \in Nat /\ f.gen <= Desired(f).gen
      /\ Desired(s).gen \in Nat /\ s.gen <= Desired(s).gen
  BY <1>2, <1>3, DesiredFacts, Zenon
<1>9. ASSUME Untouched(g) PROVE HostAnchored(g)'
  BY <1>1, <1>9, Zenon DEF HostAnchored, Untouched
<1>10. ASSUME file'[g] = f, state'[g] = s, history'[g] = past, reported'[g] = rep, Up,
              restorePending'[g] => restorePending[g],
              step'[g] = "promote" => s.pgen # 0
       PROVE  HostAnchored(g)'
  BY <1>3, <1>4, <1>6, <1>10, Zenon DEF HostAnchored, AnchoredAt
<1>11. CASE UNCHANGED hostVars
  BY <1>9, <1>11, Zenon DEF hostVars, receiverVars, managerVars, Untouched
<1>12. ASSUME NEW h \in Hosts, HostStep(h) \/ Exchange(h), g # h PROVE HostAnchored(g)'
  BY <1>1, <1>9, <1>12, OthersUntouched, Zenon
<1>13. CASE NewReceiver(g)
  <2>1. /\ file'[g] = f /\ state'[g] = f /\ step'[g] = "restore"
        /\ history'[g] = past /\ reported'[g] = rep
        /\ restorePending'[g] => f.pgen # 0 \/ f.gen # 0
    BY <1>1, <1>13, Zenon DEF NewReceiver, GoTo, ReceiverTypeOK, managerVars
  <2>2. f.pgen # 0 \/ f.gen # 0 => Desired(f).gen # 0
    BY Zenon DEF Desired
  <2>. HIDE DEF f
  <2>. QED
    BY <1>3, <1>7, <1>8, <2>1, <2>2 DEF HostAnchored, AnchoredAt
<1>14. CASE RestoreNothing(g)
  BY <1>1, <1>10, <1>14, Zenon DEF RestoreNothing, Returned, GoTo, At, ReceiverTypeOK, managerVars
<1>15. CASE ApplyRefused(g)
  BY <1>1, <1>10, <1>15, Zenon DEF ApplyRefused, Returned, GoTo, At, ReceiverTypeOK, managerVars
<1>16. CASE ApplyIncomplete(g)
  BY <1>1, <1>10, <1>16, Zenon DEF ApplyIncomplete, Returned, GoTo, At, ReceiverTypeOK
<1>17. CASE ApplyComplete(g)
  BY <1>1, <1>10, <1>17, Zenon DEF ApplyComplete, Returned, GoTo, At, ReceiverTypeOK
<1>18. CASE SyncStart(g)
  BY <1>1, <1>10, <1>18, Zenon DEF SyncStart, GoTo, At, ReceiverTypeOK, managerVars
<1>19. CASE ApplyPublish(g)
  <2>1. /\ file'[g] = f /\ state'[g] = s /\ step'[g] = "apply"
        /\ restorePending'[g] = restorePending[g] /\ reported'[g] = rep
        /\ history'[g] = past \cup {Desired(s)} /\ Up
    BY <1>1, <1>19, Zenon DEF ApplyPublish, GoTo, At, ReceiverTypeOK
  <2>. HIDE DEF f, s, past, rep
  <2>2. Covers(s, past \cup {Desired(s)})
    BY <1>6, <1>8, <2>1 DEF Covers
  <2>3. Covers(f, past \cup {Desired(s)})
    BY <1>3, <1>6, <1>8, <2>1, <2>2 DEF Covers
  <2>. QED
    BY <1>3, <1>4, <1>6, <2>1, <2>2, <2>3, Zenon DEF HostAnchored, AnchoredAt
<1>20. CASE Promote(g)
  <2>. DEFINE n == Promoted(s)
  <2>1. PICK outcome \in SaveOutcomes :
          /\ file' = [file EXCEPT ![g] = FileAfter(outcome, f, n)]
          /\ outcome = "ok" => /\ state' = [state EXCEPT ![g] = n]
                               /\ restorePending' = [restorePending EXCEPT ![g] = FALSE]
          /\ outcome # "ok" => UNCHANGED <<state, restorePending>>
    BY <1>20, Zenon DEF Promote
  <2>2. /\ Up /\ step[g] = "promote" /\ step'[g] \in {"ask", "idle"}
        /\ history'[g] = past /\ reported'[g] = rep
    BY <1>1, <1>20, Zenon DEF Promote, Returned, GoTo, At, ReceiverTypeOK, managerVars
  <2>3. \/ file'[g] = n /\ state'[g] = n /\ ~ restorePending'[g]
        \/ /\ file'[g] \in {f, n} /\ state'[g] = s
           /\ restorePending'[g] = restorePending[g]
    BY <1>1, <2>1, Zenon DEF FileAfter, ReceiverTypeOK
  <2>4. n \in Cursor /\ ValidCursor(n) /\ Desired(n) = Desired(s) /\ n.gen = Desired(s).gen
    BY <1>2, <1>3, <1>5, <2>2, PromotedFacts, Zenon
  <2>5. Covers(n, past)
    BY <1>6, <2>2, <2>4, Zenon DEF Covers
  <2>. HIDE DEF n, f, s, past, rep
  <2>6. rep <= n.gen /\ s.gen <= n.gen /\ n.gen <= Desired(n).gen
    BY <1>2, <1>6, <1>7, <1>8, <2>2, <2>4
  <2>7. CASE file'[g] = n /\ state'[g] = n /\ ~ restorePending'[g]
    BY <2>2, <2>4, <2>5, <2>6, <2>7, Zenon DEF HostAnchored, AnchoredAt
  <2>8. CASE file'[g] = n /\ state'[g] = s /\ restorePending'[g] = restorePending[g]
    BY <1>3, <1>4, <1>6, <2>2, <2>4, <2>5, <2>6, <2>8, Zenon DEF HostAnchored, AnchoredAt
  <2>9. CASE file'[g] = f /\ state'[g] = s /\ restorePending'[g] = restorePending[g]
    BY <1>10, <2>2, <2>9, Zenon DEF f, s, past, rep
  <2>. QED
    BY <2>3, <2>7, <2>8, <2>9, Zenon
<1>21. CASE Crash(g)
  <2>1. /\ file'[g] = f /\ state'[g] = Blank /\ step'[g] = "down"
        /\ history'[g] = past /\ reported'[g] = rep /\ ~ restorePending'[g]
    BY <1>1, <1>21, Zenon DEF Crash, GoTo, ReceiverTypeOK
  <2>. QED
    BY <1>3, <2>1, BlankFacts, Zenon DEF HostAnchored, AnchoredAt
<1>22. CASE StartSandbox(g)
  BY <1>1, <1>22, Zenon DEF StartSandbox, receiverVars, HostAnchored
<1>23. CASE Ask(g)
  <2>1. /\ file'[g] = f /\ state'[g] = s /\ step'[g] = "reply" /\ Up
        /\ restorePending'[g] = restorePending[g] /\ history'[g] = past
        /\ reported'[g] \in {rep, s.gen}
    BY <1>1, <1>23, Zenon DEF ReceiverTypeOK, Ask, GoTo, At, managerVars
  <2>. HIDE DEF f, s, past, rep
  <2>2. reported'[g] <= s.gen /\ reported'[g] <= f.gen
    BY <1>3, <1>6, <1>7, <2>1
  <2>. QED
    BY <1>3, <1>4, <1>6, <2>1, <2>2, Zenon DEF HostAnchored, AnchoredAt
<1>24. CASE NoNews(g) \/ ReceiveInvalid(g)
  BY <1>1, <1>10, <1>24, Zenon DEF NoNews, ReceiveInvalid, Reject, GoTo, At, ReceiverTypeOK, managerVars
<1>25. ASSUME NEW r \in Responses, ReceiveRefused(g, r) PROVE HostAnchored(g)'
  BY <1>1, <1>10, <1>25, Zenon DEF ReceiveRefused, Reject, GoTo, At, ReceiverTypeOK, managerVars
<1>26. ASSUME NEW r \in Responses, ReceiveHeld(g, r) PROVE HostAnchored(g)'
  <2>. DEFINE n == [s EXCEPT !.etag = r.etag]
  <2>1. /\ Up /\ step'[g] = "idle" /\ restorePending'[g] = restorePending[g]
        /\ history'[g] = past /\ reported'[g] = rep
    BY <1>1, <1>26, Zenon DEF ReceiveHeld, GoTo, At, ReceiverTypeOK, managerVars
  <2>2. \/ file'[g] \in {f, n} /\ state'[g] = s
        \/ file'[g] = n /\ state'[g] = n
    BY <1>1, <1>26, Zenon DEF ReceiveHeld, FileAfter, ReceiverTypeOK
  <2>3. n \in Cursor /\ ValidCursor(n) /\ Desired(n) = Desired(s) /\ n.gen = s.gen
    BY <1>2, <1>3, ResponsesTyped, RetaggedFacts, Zenon
  <2>4. Covers(n, past)
    BY <1>6, <2>1, <2>3, Zenon DEF Covers
  <2>. HIDE DEF n, f, s, past, rep
  <2>5. CASE file'[g] = f /\ state'[g] = s
    BY <1>10, <2>1, <2>5, Zenon DEF f, s, past, rep
  <2>6. CASE file'[g] = n /\ state'[g] = s
    BY <1>3, <1>4, <1>6, <1>7, <1>8, <2>1, <2>3, <2>4, <2>6 DEF HostAnchored, AnchoredAt
  <2>7. CASE file'[g] = n /\ state'[g] = n
    BY <1>4, <1>6, <1>7, <1>8, <2>1, <2>3, <2>4, <2>7 DEF HostAnchored, AnchoredAt
  <2>. QED
    BY <2>2, <2>5, <2>6, <2>7, Zenon
<1>27. ASSUME NEW r \in Responses, Stage(g, r) PROVE HostAnchored(g)'
  <2>. DEFINE n == Staged(s, r)
  <2>1. /\ n \in Cursor /\ ValidCursor(n) /\ n.gen = s.gen
        /\ Desired(n).gen > Desired(s).gen /\ Desired(n).gen # 0
    BY <1>2, <1>3, <1>27, StagedFacts, Zenon DEF Stage
  <2>2. Up /\ history'[g] = past /\ reported'[g] = rep
    BY <1>1, <1>27, Zenon DEF Stage, At, managerVars
  <2>3. step'[g] \in {"restore", "idle"}
    BY <1>1, <1>27, Zenon DEF Stage, GoTo, ReceiverTypeOK
  <2>4. \/ file'[g] = n /\ state'[g] = n
        \/ /\ file'[g] \in {f, n} /\ state'[g] = s
           /\ restorePending'[g] = restorePending[g]
    BY <1>1, <1>27 DEF Stage, FileAfter, ReceiverTypeOK
  <2>5. Desired(n).gen \in Nat
    BY <2>1, DesiredFacts, Zenon
  <2>6. Covers(n, past)
    BY <1>2, <1>3, <1>6, <2>1, <2>2, CoversFacts, Zenon
  <2>. HIDE DEF n, f, s, past, rep
  <2>7. rep <= n.gen /\ n.gen <= Desired(n).gen /\ n.gen \in Nat
    <3>1. rep <= s.gen
      BY <1>6, <2>2, Zenon
    <3>2. n.gen = s.gen /\ Desired(n).gen > Desired(s).gen
      BY <2>1, Zenon
    <3>. QED
      BY <1>7, <1>8, <2>5, <3>1, <3>2
  <2>8. CASE file'[g] = f /\ state'[g] = s /\ restorePending'[g] = restorePending[g]
    BY <1>10, <2>2, <2>3, <2>8, Zenon DEF f, s, past, rep
  <2>9. CASE file'[g] = n /\ state'[g] = s /\ restorePending'[g] = restorePending[g]
    <3>1. s.gen <= n.gen /\ n.gen <= Desired(s).gen
      BY <1>7, <1>8, <2>1
    <3>2. rep <= s.gen /\ Covers(s, past)
      BY <1>6, <2>2, Zenon
    <3>. QED
      BY <1>3, <1>4, <2>1, <2>2, <2>3, <2>6, <2>7, <2>9, <3>1, <3>2, Zenon DEF HostAnchored, AnchoredAt
  <2>10. CASE file'[g] = n /\ state'[g] = n
    BY <2>1, <2>2, <2>3, <2>6, <2>7, <2>10 DEF HostAnchored, AnchoredAt
  <2>. QED
    BY <2>4, <2>8, <2>9, <2>10, Zenon
<1>28. ASSUME NEW b \in Expiring, Expire(b) PROVE HostAnchored(g)'
  BY <1>9, <1>28, Zenon DEF Expire, receiverVars, managerVars, Untouched
<1>29. CASE HostStep(g) \/ Exchange(g)
  BY Zenon, <1>13, <1>14, <1>15, <1>16, <1>17, <1>18, <1>19, <1>20, <1>21, <1>22, <1>23, <1>24,
     <1>25, <1>26, <1>27, <1>29 DEF HostStep, Exchange, Receive
<1>. QED
  BY <1>11, <1>12, <1>28, <1>29, Zenon DEF ReceiverNext

(* A step changes the history of at most one host, and only by publishing  *)
(* what that host's running receiver holds as newest.                      *)
LEMMA HistoryStep ==
    ASSUME ReceiverTypeOK, [ReceiverNext]_hostVars, NEW g \in Hosts
    PROVE  \/ history'[g] = history[g] /\ admitted'[g] \in {admitted[g], Unmanaged}
           \/ /\ history'[g] = history[g] \cup {Desired(state[g])}
              /\ admitted'[g] = Desired(state[g])
              /\ ~ At(g, "down")
<1>1. CASE UNCHANGED hostVars
  BY <1>1, Zenon DEF hostVars, managerVars
<1>2. ASSUME NEW h \in Hosts, HostStep(h)
      PROVE  \/ history' = history /\ admitted' = admitted
             \/ history' = history /\ admitted' = [admitted EXCEPT ![h] = Unmanaged]
             \/ /\ history' = [history EXCEPT ![h] = @ \cup {Desired(state[h])}]
                /\ admitted' = [admitted EXCEPT ![h] = Desired(state[h])]
                /\ At(h, "restore")
  BY <1>2, Zenon DEF HostStep, NewReceiver, RestoreNothing, ApplyRefused, ApplyPublish,
     ApplyIncomplete, ApplyComplete, Promote, SyncStart, Crash, StartSandbox, managerVars
<1>3. ASSUME NEW h \in Hosts, Exchange(h)
      PROVE  history' = history /\ admitted' = admitted
  BY <1>3, Zenon DEF Exchange, Ask, NoNews, ReceiveInvalid, Receive, ReceiveRefused, Reject,
     ReceiveHeld, Stage, managerVars
<1>4. ASSUME NEW b \in Expiring, Expire(b)
      PROVE  history' = history /\ admitted' = admitted
  BY <1>4, Zenon DEF Expire, managerVars
<1>5. CASE \E h \in Hosts : HostStep(h)
  <2>. PICK h \in Hosts : HostStep(h)
    BY <1>5, Zenon
  <2>. QED
    <3>1. CASE history' = history /\ admitted' = admitted
      BY <3>1, Zenon
    <3>2. CASE history' = history /\ admitted' = [admitted EXCEPT ![h] = Unmanaged]
      BY <3>2, Zenon DEF ReceiverTypeOK
    <3>3. CASE /\ history' = [history EXCEPT ![h] = @ \cup {Desired(state[h])}]
               /\ admitted' = [admitted EXCEPT ![h] = Desired(state[h])]
               /\ At(h, "restore")
      BY <3>3, Zenon DEF ReceiverTypeOK, At
    <3>. QED
      BY <1>2, <3>1, <3>2, <3>3, Zenon
<1>. QED
  BY <1>1, <1>3, <1>4, <1>5, Zenon DEF ReceiverNext

(* No step makes a host know two bundles under one number.                 *)
LEMMA OneBodyStep ==
    ASSUME Anchored, [ReceiverNext]_hostVars
    PROVE  OneBodyPerGeneration'
<1>. SUFFICES ASSUME NEW g \in Hosts, NEW p \in history'[g], NEW q \in history'[g],
                     p.gen = q.gen
              PROVE  p = q
  BY Zenon DEF OneBodyPerGeneration
<1>1. CASE history'[g] = history[g]
  BY <1>1, Zenon DEF Anchored, OneBodyPerGeneration
<1>2. CASE history'[g] = history[g] \cup {Desired(state[g])} /\ ~ At(g, "down")
  <2>. Covers(state[g], history[g])
    BY <1>2, Zenon DEF Anchored, HostAnchored, AnchoredAt, At
  <2>. QED
    BY <1>2, Zenon DEF Anchored, OneBodyPerGeneration, Covers
<1>. QED
  BY <1>1, <1>2, HistoryStep, Zenon DEF Anchored

(* What the host stores, holds and reports stays anchored in its history.  *)
LEMMA AlwaysAnchored == ReceiverSpec => []Anchored
<1>1. Anchored /\ [ReceiverNext]_hostVars => Anchored'
  BY TypeStep, OneBodyStep, AnchorStep, Zenon DEF Anchored
<1>. QED
  BY InitAnchored, <1>1, PTL DEF ReceiverSpec

(* ReceiverTypeOK holds, and only verified bundles are published for admission.    *)
THEOREM ReceiverTyping == ReceiverSpec => []ReceiverTypeOK
BY AlwaysAnchored, PTL DEF Anchored

(* No crash, answer or failed save leaves a cursor on disk that the next   *)
(* boot of the manager would refuse as malformed.                          *)
THEOREM CursorAlwaysValid == ReceiverSpec => []RestartAccepts
<1>1. Anchored => RestartAccepts
  BY Zenon DEF Anchored, HostAnchored, AnchoredAt, RestartAccepts
<1>. QED
  BY AlwaysAnchored, <1>1, PTL

(* A host never enforces two bundles under one generation number.          *)
THEOREM GenerationsImmutable == ReceiverSpec => []OneBodyPerGeneration
BY AlwaysAnchored, PTL DEF Anchored

(* What the service was told is applied is on the host's disk.             *)
THEOREM ReportsDurable == ReceiverSpec => []ReportedIsDurable
<1>1. Anchored => ReportedIsDurable
  BY Zenon DEF Anchored, HostAnchored, AnchoredAt, ReportedIsDurable
<1>. QED
  BY AlwaysAnchored, <1>1, PTL

(* Admission never returns to an older generation, for every answer of the *)
(* service, every outcome of a save and every crash.                       *)
THEOREM NoRollback == ReceiverSpec => NeverRollsBack
<1>. DEFINE Kept ==
       \A h \in Hosts :
         admitted'[h] # admitted[h] /\ admitted'[h] # Unmanaged =>
             \A p \in history[h] : p.gen <= admitted'[h].gen
<1>1. ASSUME Anchored, [ReceiverNext]_hostVars PROVE Kept
  <2>. SUFFICES ASSUME NEW h \in Hosts,
                       admitted'[h] # admitted[h], admitted'[h] # Unmanaged
                PROVE  \A p \in history[h] : p.gen <= admitted'[h].gen
    BY Zenon
  <2>. admitted'[h] = Desired(state[h]) /\ ~ At(h, "down")
    BY <1>1, HistoryStep, Zenon DEF Anchored
  <2>. QED
    BY <1>1, Zenon DEF Anchored, HostAnchored, AnchoredAt, At, Covers
<1>. QED
  BY AlwaysAnchored, <1>1, PTL DEF ReceiverSpec, NeverRollsBack

-----------------------------------------------------------------------------

(* Before the first start no sandbox runs.                                 *)
LEMMA InitCovered == ReceiverInit => Covered
BY BlankFacts DEF ReceiverInit, Covered, HostCovered, CoveredAt, Unmanaged

(* No response leaves an applied generation on disk newer than before.     *)
LEMMA ExchangeFile ==
    ASSUME ReceiverTypeOK, NEW g \in Hosts, Exchange(g)
    PROVE  file'[g] = file[g] \/ file'[g].gen = state[g].gen
<1>0. state[g] \in Cursor
  BY Zenon DEF ReceiverTypeOK
<1>1. CASE Ask(g) \/ NoNews(g) \/ ReceiveInvalid(g)
  BY <1>1, Zenon DEF Ask, NoNews, ReceiveInvalid, Reject
<1>2. ASSUME NEW r \in Responses, ReceiveRefused(g, r) PROVE file'[g] = file[g]
  BY <1>2, Zenon DEF ReceiveRefused, Reject
<1>3. ASSUME NEW r \in Responses, ReceiveHeld(g, r)
      PROVE  file'[g] = file[g] \/ file'[g].gen = state[g].gen
  <2>. file'[g] \in {file[g], [state[g] EXCEPT !.etag = r.etag]}
    BY <1>3, Zenon DEF ReceiveHeld, FileAfter, ReceiverTypeOK
  <2>. QED
    BY <1>0, Zenon DEF Cursor
<1>4. ASSUME NEW r \in Responses, Stage(g, r)
      PROVE  file'[g] = file[g] \/ file'[g].gen = state[g].gen
  <2>. file'[g] \in {file[g], Staged(state[g], r)}
    BY <1>4, Zenon DEF Stage, FileAfter, ReceiverTypeOK
  <2>. QED
    BY <1>0, Zenon DEF Cursor, Staged
<1>. QED
  BY <1>1, <1>2, <1>3, <1>4, Zenon DEF Exchange, Receive

(* An exchange with the service changes neither admission nor a sandbox.   *)
LEMMA ExchangeMoves ==
    ASSUME ReceiverTypeOK, NEW g \in Hosts, Exchange(g)
    PROVE  /\ step[g] \in {"ask", "reply"} /\ step'[g] \in {"reply", "idle", "restore"}
           /\ step'[g] = "restore" => caller'[g] = "stage"
           /\ fleet'[g] = fleet[g] /\ admitted'[g] = admitted[g]
<1>. USE DEF ReceiverTypeOK, GoTo, At, managerVars
<1>1. CASE Ask(g) \/ NoNews(g) \/ ReceiveInvalid(g)
  BY <1>1, Zenon DEF Ask, NoNews, ReceiveInvalid, Reject
<1>2. ASSUME NEW r \in Responses, ReceiveRefused(g, r)
      PROVE  /\ step[g] = "reply" /\ step'[g] = "idle"
             /\ fleet'[g] = fleet[g] /\ admitted'[g] = admitted[g]
  BY <1>2, Zenon DEF ReceiveRefused, Reject
<1>3. ASSUME NEW r \in Responses, ReceiveHeld(g, r)
      PROVE  /\ step[g] = "reply" /\ step'[g] = "idle"
             /\ fleet'[g] = fleet[g] /\ admitted'[g] = admitted[g]
  BY <1>3, Zenon DEF ReceiveHeld
<1>4. ASSUME NEW r \in Responses, Stage(g, r)
      PROVE  /\ step[g] = "reply" /\ step'[g] \in {"idle", "restore"}
             /\ step'[g] = "restore" => caller'[g] = "stage"
             /\ fleet'[g] = fleet[g] /\ admitted'[g] = admitted[g]
  <2>1. \/ step' = [step EXCEPT ![g] = "idle"]
        \/ step' = [step EXCEPT ![g] = "restore"] /\ caller' = [caller EXCEPT ![g] = "stage"]
    BY <1>4, Zenon DEF Stage
  <2>. QED
    BY <1>4, <2>1, Zenon DEF Stage
<1>. HIDE DEF ReceiverTypeOK, GoTo, At, managerVars
<1>. QED
  BY <1>1, <1>2, <1>3, <1>4, Zenon DEF Exchange, Receive

(* While no bundle expires, every host's sandboxes and its admission stay  *)
(* at least as new as the cursor on its disk.                              *)
LEMMA CoverStep ==
    ASSUME Expiring = {}, Anchored, Covered, [ReceiverNext]_hostVars, NEW g \in Hosts
    PROVE  HostCovered(g)'
<1>. DEFINE f == file[g]
            s == state[g]
            fl == fleet[g]
            ad == admitted[g]
            Open(st, cl) == st # "down" /\ ~ (cl = "boot" /\ st \in {"restore", "apply", "promote"})
<1>1. ReceiverTypeOK /\ HostAnchored(g) /\ HostCovered(g)
  BY Zenon DEF Anchored, Covered
<1>2. f \in Cursor /\ s \in Cursor /\ fl \subseteq Snapshot /\ ad \in Snapshot
  BY <1>1, Zenon DEF ReceiverTypeOK
<1>3. ad.gen \in Nat /\ (\A p \in fl : p.gen \in Nat)
  BY <1>2, Zenon DEF Snapshot
<1>4. ValidCursor(s) /\ (step[g] = "promote" => s.pgen # 0)
  BY <1>1, Zenon DEF HostAnchored, AnchoredAt
<1>5. step[g] # "down" => s.gen <= f.gen /\ f.gen <= Desired(s).gen
  BY <1>1, Zenon DEF HostAnchored, AnchoredAt
<1>6. f.gen \in Nat /\ s.gen \in Nat
  BY <1>2, Zenon DEF Cursor
<1>7. Desired(s).gen \in Nat
  BY <1>2, <1>4, DesiredFacts, Zenon
<1>8. s.pgen # 0 => Desired(s).gen = s.pgen
  BY Zenon DEF Desired
<1>9. \A p \in fl : p.gen >= f.gen
  BY <1>1, Zenon DEF HostCovered, CoveredAt
<1>10. step[g] \in {"apply", "promote"} => ad = Desired(s)
  BY <1>1, Zenon DEF HostCovered, CoveredAt
<1>11. step[g] = "promote" => \A p \in fl : p.gen >= s.pgen
  BY <1>1, Zenon DEF HostCovered, CoveredAt
<1>12. step[g] = "restore" /\ caller[g] = "boot" /\ Desired(s).gen # 0 => restorePending[g]
  BY <1>1, Zenon DEF HostCovered, CoveredAt
<1>13. Open(step[g], caller[g]) => ad.gen >= f.gen
  BY <1>1, Zenon DEF HostCovered, CoveredAt
<1>14. ASSUME Untouched(g) PROVE HostCovered(g)'
  BY <1>1, <1>14, Zenon DEF HostCovered, Untouched
<1>15. CASE UNCHANGED hostVars
  BY <1>14, <1>15, Zenon DEF hostVars, receiverVars, managerVars, Untouched
<1>16. ASSUME NEW h \in Hosts, HostStep(h) \/ Exchange(h), g # h PROVE HostCovered(g)'
  BY <1>1, <1>14, <1>16, OthersUntouched, Zenon
<1>. HIDE DEF Open
<1>17. CASE NewReceiver(g)
  <2>1. /\ file'[g] = f /\ state'[g] = f /\ step'[g] = "restore"
        /\ caller'[g] = "boot" /\ fleet'[g] = fl
        /\ f.pgen # 0 \/ f.gen # 0 => restorePending'[g]
    BY <1>1, <1>17, Zenon DEF NewReceiver, GoTo, ReceiverTypeOK, managerVars
  <2>2. Desired(f).gen # 0 => f.pgen # 0 \/ f.gen # 0
    BY Zenon DEF Desired
  <2>. HIDE DEF f, fl
  <2>. QED
    BY <1>9, <2>1, <2>2, Zenon DEF HostCovered, CoveredAt
<1>18. CASE RestoreNothing(g)
  <2>1. /\ file'[g] = f /\ step[g] = "restore" /\ ~ restorePending[g]
        /\ step'[g] \in {"ask", "idle"} /\ caller'[g] = caller[g]
        /\ fleet'[g] = fl /\ admitted'[g] = ad
    BY <1>1, <1>18, Zenon DEF RestoreNothing, Returned, GoTo, At, ReceiverTypeOK, managerVars
  <2>. HIDE DEF f, s, fl, ad
  <2>2. caller[g] = "boot" => f.gen = 0
    BY <1>5, <1>6, <1>12, <2>1
  <2>3. ad.gen >= f.gen
    <3>1. CASE caller[g] = "boot"
      BY <1>3, <2>2, <3>1
    <3>2. CASE caller[g] # "boot"
      BY <1>13, <2>1, <3>2, Zenon DEF Open
    <3>. QED
      BY <3>1, <3>2, Zenon
  <2>. QED
    BY <1>9, <2>1, <2>3, Zenon DEF HostCovered, CoveredAt
<1>19. CASE ApplyRefused(g)
  <2>1. caller[g] # "boot"
    BY <1>19, Zenon DEF ApplyRefused, Covered
  <2>2. /\ file'[g] = f /\ step[g] = "restore" /\ step'[g] \in {"ask", "idle"}
        /\ caller'[g] = caller[g] /\ fleet'[g] = fl /\ admitted'[g] = ad
    BY <1>1, <1>19, Zenon DEF ApplyRefused, Returned, GoTo, At, ReceiverTypeOK, managerVars
  <2>. HIDE DEF f, s, fl, ad
  <2>. QED
    BY <1>9, <1>13, <2>1, <2>2, Zenon DEF HostCovered, CoveredAt, Open
<1>20. CASE ApplyPublish(g)
  <2>1. /\ file'[g] = f /\ state'[g] = s /\ step[g] = "restore"
        /\ step'[g] = "apply" /\ fleet'[g] = fl \cup {Desired(s)}
        /\ admitted'[g] = Desired(s)
    BY <1>1, <1>20, Zenon DEF ApplyPublish, GoTo, At, ReceiverTypeOK
  <2>. HIDE DEF f, s, fl, ad
  <2>2. f.gen <= Desired(s).gen /\ Desired(s).gen >= f.gen
    BY <1>5, <1>6, <1>7, <2>1, Zenon
  <2>. QED
    BY <1>9, <2>1, <2>2, Zenon DEF HostCovered, CoveredAt
<1>21. CASE ApplyIncomplete(g) \/ ApplyComplete(g)
  <2>1. /\ file'[g] = f /\ state'[g] = s /\ step[g] = "apply"
        /\ step'[g] \in {"ask", "idle", "promote"} /\ admitted'[g] = ad
    BY <1>1, <1>21, Zenon DEF ApplyIncomplete, ApplyComplete, Returned, GoTo, At, ReceiverTypeOK
  <2>2. /\ fleet'[g] = fl \/ fleet'[g] = {Desired(s)}
        /\ step'[g] = "promote" => s.pgen # 0 /\ fleet'[g] = {Desired(s)}
    BY <1>1, <1>21, Zenon DEF ApplyIncomplete, ApplyComplete, Returned, GoTo, ReceiverTypeOK
  <2>. HIDE DEF f, s, fl, ad
  <2>3. f.gen <= Desired(s).gen /\ ad = Desired(s)
    BY <1>5, <1>10, <2>1, Zenon
  <2>4. \A p \in fleet'[g] : p.gen >= f.gen
    BY <1>6, <1>7, <1>9, <2>2, <2>3, Zenon
  <2>5. step'[g] = "promote" => \A p \in fleet'[g] : p.gen >= s.pgen
    BY <1>7, <1>8, <2>2
  <2>6. ad.gen >= f.gen
    BY <1>6, <1>7, <2>3, Zenon
  <2>. QED
    BY <2>1, <2>3, <2>4, <2>5, <2>6, Zenon DEF HostCovered, CoveredAt
<1>22. CASE Promote(g)
  <2>1. /\ step[g] = "promote" /\ step'[g] \in {"ask", "idle"}
        /\ fleet'[g] = fl /\ admitted'[g] = ad
    BY <1>1, <1>22, Zenon DEF Promote, Returned, GoTo, At, ReceiverTypeOK, managerVars
  <2>2. file'[g] \in {f, Promoted(s)}
    BY <1>1, <1>22, Zenon DEF Promote, FileAfter, ReceiverTypeOK
  <2>3. Promoted(s).gen = s.pgen /\ s.pgen = Desired(s).gen
    BY <1>2, <1>4, <2>1, PromotedFacts, Zenon
  <2>. HIDE DEF f, s, fl, ad
  <2>4. \A p \in fl : p.gen >= file'[g].gen
    BY <1>9, <1>11, <2>1, <2>2, <2>3, Zenon
  <2>5. ad.gen >= file'[g].gen
    BY <1>5, <1>6, <1>7, <1>10, <2>1, <2>2, <2>3
  <2>. QED
    BY <2>1, <2>4, <2>5, Zenon DEF HostCovered, CoveredAt
<1>23. CASE SyncStart(g)
  <2>1. /\ file'[g] = f /\ step[g] = "idle" /\ step'[g] = "restore" /\ caller'[g] = "sync"
        /\ fleet'[g] = fl /\ admitted'[g] = ad
    BY <1>1, <1>23, Zenon DEF SyncStart, GoTo, At, ReceiverTypeOK, managerVars
  <2>. HIDE DEF f, s, fl, ad
  <2>. QED
    BY <1>9, <1>13, <2>1, Zenon DEF HostCovered, CoveredAt, Open
<1>24. CASE Crash(g)
  <2>1. file'[g] = f /\ step'[g] = "down" /\ fleet'[g] = fl
    BY <1>1, <1>24, Zenon DEF Crash, GoTo, ReceiverTypeOK
  <2>. HIDE DEF f, s, fl, ad
  <2>. QED
    BY <1>9, <2>1, Zenon DEF HostCovered, CoveredAt
<1>25. CASE StartSandbox(g)
  <2>1. /\ file'[g] = f /\ state'[g] = s /\ step'[g] = step[g]
        /\ restorePending'[g] = restorePending[g] /\ caller'[g] = caller[g]
        /\ admitted'[g] = ad /\ fleet'[g] = fl \cup {ad}
    BY <1>1, <1>25, Zenon DEF StartSandbox, ReceiverTypeOK, receiverVars
  <2>2. Open(step[g], caller[g])
    BY <1>25, Zenon DEF StartSandbox, Serving, Booting, At, Open
  <2>. HIDE DEF f, s, fl, ad
  <2>3. \A p \in fl \cup {ad} : p.gen >= f.gen
    BY <1>9, <1>13, <2>2, Zenon
  <2>4. step[g] = "promote" => \A p \in fl \cup {ad} : p.gen >= s.pgen
    BY <1>4, <1>7, <1>8, <1>10, <1>11
  <2>. QED
    BY <1>10, <1>12, <1>13, <2>1, <2>3, <2>4, Zenon DEF HostCovered, CoveredAt, Open
<1>26. CASE Exchange(g)
  <2>1. /\ step[g] \in {"ask", "reply"} /\ step'[g] \in {"reply", "idle", "restore"}
        /\ step'[g] = "restore" => caller'[g] = "stage"
        /\ fleet'[g] = fl /\ admitted'[g] = ad
    BY <1>1, <1>26, ExchangeMoves, Zenon
  <2>2. file'[g] = f \/ file'[g].gen = s.gen
    BY <1>1, <1>26, ExchangeFile, Zenon
  <2>. HIDE DEF f, s, fl, ad
  <2>3. file'[g].gen \in Nat /\ file'[g].gen <= f.gen
    BY <1>5, <1>6, <2>1, <2>2
  <2>4. ad.gen >= f.gen
    BY <1>13, <2>1, Zenon DEF Open
  <2>5. ad.gen >= file'[g].gen /\ \A p \in fl : p.gen >= file'[g].gen
    BY <1>3, <1>6, <1>9, <2>3, <2>4
  <2>. QED
    BY <2>1, <2>5, Zenon DEF HostCovered, CoveredAt
<1>27. CASE HostStep(g)
  BY <1>17, <1>18, <1>19, <1>20, <1>21, <1>22, <1>23, <1>24, <1>25, <1>27, Zenon DEF HostStep
<1>. QED
  BY <1>15, <1>16, <1>26, <1>27, Zenon DEF ReceiverNext

(* No step of a host lets a bundle expire.                                 *)
LEMMA ExpiryIsTime ==
    ASSUME NEW h \in Hosts, HostStep(h) \/ Exchange(h)
    PROVE  expired' = expired
<1>1. CASE HostStep(h)
  BY <1>1, Zenon DEF HostStep, NewReceiver, RestoreNothing, ApplyRefused, ApplyPublish,
     ApplyIncomplete, ApplyComplete, Promote, SyncStart, Crash, StartSandbox
<1>2. CASE Ask(h) \/ NoNews(h) \/ ReceiveInvalid(h)
  BY <1>2, Zenon DEF Ask, NoNews, ReceiveInvalid, Reject
<1>3. ASSUME NEW r \in Responses, Receive(h, r) PROVE expired' = expired
  BY <1>3, Zenon DEF Receive, ReceiveRefused, Reject, ReceiveHeld, Stage
<1>. QED
  BY <1>1, <1>2, <1>3, Zenon DEF Exchange

(* While no bundle expires, admission and the fleet cover the file.        *)
LEMMA AlwaysCovered == ASSUME Expiring = {} PROVE ReceiverSpec => []Covered
<1>1. ASSUME Anchored, Covered, [ReceiverNext]_hostVars PROVE Covered'
  <2>1. expired' = {}
    BY <1>1, ExpiryIsTime, Zenon DEF Covered, ReceiverNext, hostVars
  <2>. QED
    BY <1>1, <2>1, CoverStep, Zenon DEF Covered
<1>. QED
  BY InitCovered, AlwaysAnchored, <1>1, PTL DEF ReceiverSpec

(* While no bundle expires, a manager that accepts requests admits them    *)
(* under a generation at least as new as the one it acknowledged.          *)
THEOREM AdmissionSurvivesRestart ==
    ASSUME Expiring = {} PROVE ReceiverSpec => []AdmissionRestored
<1>1. Anchored /\ Covered => AdmissionRestored
  <2>. SUFFICES ASSUME Anchored, Covered, NEW h \in Hosts, Serving(h)
                PROVE  admitted[h].gen >= state[h].gen
    BY Zenon DEF AdmissionRestored
  <2>1. admitted[h].gen >= file[h].gen /\ file[h].gen >= state[h].gen
    BY Zenon DEF Anchored, Covered, HostCovered, CoveredAt, HostAnchored, AnchoredAt, Serving, Booting, At
  <2>2. admitted[h].gen \in Nat /\ file[h].gen \in Nat /\ state[h].gen \in Nat
    BY Zenon DEF Anchored, ReceiverTypeOK, Cursor, Snapshot
  <2>. QED
    BY <2>1, <2>2
<1>. QED
  BY AlwaysAnchored, AlwaysCovered, <1>1, PTL

(* While no bundle expires, every sandbox of a host enforces at least the  *)
(* generation the host has reported as applied.                            *)
THEOREM ReportsEnforced ==
    ASSUME Expiring = {} PROVE ReceiverSpec => []ReportedIsEnforced
<1>1. Anchored /\ Covered => ReportedIsEnforced
  <2>. SUFFICES ASSUME Anchored, Covered, NEW h \in Hosts, NEW p \in fleet[h]
                PROVE  p.gen >= reported[h]
    BY Zenon DEF ReportedIsEnforced
  <2>1. p.gen >= file[h].gen /\ file[h].gen >= reported[h]
    BY Zenon DEF Anchored, Covered, HostCovered, CoveredAt, HostAnchored, AnchoredAt
  <2>2. p.gen \in Nat /\ file[h].gen \in Nat /\ reported[h] \in Nat
    BY DEF Anchored, ReceiverTypeOK, Cursor, Snapshot
  <2>. QED
    BY <2>1, <2>2
<1>. QED
  BY AlwaysAnchored, AlwaysCovered, <1>1, PTL

(* While no bundle expires, every restart is accepted and admits under at  *)
(* least the acknowledged generation.                                      *)
THEOREM RestartsSound ==
    ASSUME Expiring = {} PROVE ReceiverSpec => []RestartSound
<1>1. ReceiverSpec => []AdmissionRestored
  BY AdmissionSurvivesRestart, Zenon
<1>. QED
  BY CursorAlwaysValid, <1>1, PTL DEF RestartSound

(* While no bundle expires, what a host reports is enforced and durable.   *)
THEOREM ReportsAreTrue ==
    ASSUME Expiring = {} PROVE ReceiverSpec => []ReportsTrue
<1>1. ReceiverSpec => []ReportedIsEnforced
  BY ReportsEnforced, Zenon
<1>. QED
  BY ReportsDurable, <1>1, PTL DEF ReportsTrue

-----------------------------------------------------------------------------
(* The service: types, and what a step does to the stored state.           *)

(* t is s with the record of host h changed.                               *)
Rehosted(s, t, h) ==
    /\ DOMAIN t = DOMAIN s
    /\ t.gens = s.gens /\ t.ring = s.ring /\ t.rollout = s.rollout /\ t.draft = s.draft
    /\ DOMAIN t.host = DOMAIN s.host
    /\ \A g \in Hosts \ {h} : t.host[g] = s.host[g]

(* A save that wants to store next leaves memory and file each with it or  *)
(* with what they had.                                                     *)
Saves(next) == mem' \in {mem, next} /\ disk' \in {disk, next} /\ dirty' \in BOOLEAN

(* A save whose error is returned stored next, or memory was left as it    *)
(* was; the file too, unless the error came after the file was replaced.   *)
Undone(next) ==
    \/ mem' = next /\ disk' = next
    \/ mem' = mem /\ (disk' = disk \/ (disk' = next /\ "committed" \in SaveFaults))

(* The three ways a handler saves, and whom they wake.                     *)
LEMMA SavesStore ==
    ASSUME NEW next
    PROVE  /\ SaveAnyway(next) => Saves(next) /\ mem' = next
           /\ SaveOrUndo(next) => Saves(next) /\ Undone(next)
           /\ SaveOrUndoNotify(next) => /\ Saves(next) /\ Undone(next)
                                        /\ request' = Woken \/ UNCHANGED <<mem, request>>
<1>1. ASSUME NEW outcome \in SaveOutcomes, disk' = FileAfter(outcome, disk, next)
      PROVE  /\ disk' \in {disk, next}
             /\ outcome = "ok" => disk' = next
             /\ disk' = disk \/ outcome = "ok" \/ (disk' = next /\ "committed" \in SaveFaults)
  BY <1>1, KnownFaults, Zenon DEF FileAfter, SaveOutcomes
<1> QED
  BY <1>1, Zenon DEF Saves, Undone, SaveAnyway, SaveOrUndo, SaveOrUndoNotify

(* s with the record r for the host h.                                     *)
Written(s, h, r) == [s EXCEPT !.host = [@ EXCEPT ![h] = r]]

(* Whatever is written to the record of one host, the others stay.         *)
LEMMA HostWritten ==
    ASSUME NEW s, StateOK(s), NEW h \in Hosts, NEW r \in Host
    PROVE  /\ StateOK(Written(s, h, r)) /\ Rehosted(s, Written(s, h, r), h)
           /\ Written(s, h, r).host[h] = r
<1> DEFINE t == Written(s, h, r)
<1>1. Rehosted(s, t, h) /\ t.host[h] = r /\ t.host = [s.host EXCEPT ![h] = r]
  BY Zenon DEF StateOK, Rehosted, Written
<1> HIDE DEF t
<1>2. t.host \in [Hosts -> Host]
  BY <1>1, Zenon DEF StateOK
<1>3. StateOK(t)
  BY <1>1, <1>2, Zenon DEF StateOK, Rehosted
<1> QED
  BY <1>1, <1>3, Zenon DEF t

(* The record r says of the feed what q says.                              *)
Known(r, q) == r.served = q.served /\ r.ack = q.ack /\ r.report = q.report

(* Each of the next operations wants to store a new record for its host:   *)
(* an enrollment,                                                          *)
LEMMA EnrollWrites ==
    ASSUME StateOK(mem), NEW h \in Hosts, NEW i \in RingIds, Enroll(h, i)
    PROVE  \E r \in Host : Known(r, mem.host[h]) /\ SaveOrUndo(Written(mem, h, r))
<1> DEFINE r == [mem.host[h] EXCEPT !.enrolled = "yes", !.ring = i]
<1>1. r \in Host /\ Known(r, mem.host[h])
  <2>1. mem.host[h] \in Host
    BY Zenon DEF StateOK
  <2> QED
    BY <2>1, Zenon DEF Host, Known
<1>2. [mem EXCEPT !.host[h].enrolled = "yes", !.host[h].ring = i] = Written(mem, h, r)
  BY Zenon DEF StateOK, Host, Written
<1>3. SaveOrUndo(Written(mem, h, r))
  BY <1>2, Zenon DEF Enroll
<1> HIDE DEF r
<1> QED
  BY <1>1, <1>3, Zenon

(* a change of ring,                                                       *)
LEMMA UpdateWrites ==
    ASSUME StateOK(mem), NEW h \in Hosts, NEW i \in RingIds, UpdateHost(h, i)
    PROVE  \E r \in Host : Known(r, mem.host[h]) /\ SaveOrUndoNotify(Written(mem, h, r))
<1> DEFINE r == [mem.host[h] EXCEPT !.ring = i]
<1>1. r \in Host /\ Known(r, mem.host[h])
  <2>1. mem.host[h] \in Host
    BY Zenon DEF StateOK
  <2> QED
    BY <2>1, Zenon DEF Host, Known
<1>2. [mem EXCEPT !.host[h].ring = i] = Written(mem, h, r)
  BY Zenon DEF StateOK, Host, Written
<1>3. SaveOrUndoNotify(Written(mem, h, r))
  BY <1>2, Zenon DEF UpdateHost
<1> HIDE DEF r
<1> QED
  BY <1>1, <1>3, Zenon

(* a revocation,                                                           *)
LEMMA RevokeWrites ==
    ASSUME StateOK(mem), NEW h \in Hosts, Revoke(h)
    PROVE  \E r \in Host : Known(r, mem.host[h]) /\ SaveOrUndoNotify(Written(mem, h, r))
<1> DEFINE r == [mem.host[h] EXCEPT !.enrolled = "revoked"]
<1>1. r \in Host /\ Known(r, mem.host[h])
  <2>1. mem.host[h] \in Host
    BY Zenon DEF StateOK
  <2> QED
    BY <2>1, Zenon DEF Host, Known
<1>2. [mem EXCEPT !.host[h].enrolled = "revoked"] = Written(mem, h, r)
  BY Zenon DEF StateOK, Host, Written
<1>3. SaveOrUndoNotify(Written(mem, h, r))
  BY <1>2, Zenon DEF Revoke
<1> HIDE DEF r
<1> QED
  BY <1>1, <1>3, Zenon

(* and a poll, which records what the host reports and perhaps an          *)
(* acknowledgement.                                                        *)
LEMMA PollWrites ==
    ASSUME StateOK(mem), dirty \in BOOLEAN, NEW h \in Hosts, NEW header \in Header, NEW etag,
           Poll(h, header, etag)
    PROVE  \E r \in Host : /\ Saves(Written(mem, h, r)) /\ mem' = Written(mem, h, r)
                           /\ r.served = mem.host[h].served /\ r.report.applied = header.applied
                           /\ r.ack => mem.host[h].ack \/ header.applied >= mem.host[h].served
<1> DEFINE report == Seen(header)
           ack == mem.host[h].ack \/ (mem.host[h].served # 0 /\ report.applied >= mem.host[h].served)
           r == [mem.host[h] EXCEPT !.report = report, !.ack = ack]
<1>1. report \in Report /\ report.applied = header.applied
  <2>1. Matches(header) \in BOOLEAN
    BY Zenon DEF Matches
  <2> QED
    BY <2>1, Zenon DEF Seen, Header, Report
<1>2. r \in Host /\ r.served = mem.host[h].served /\ r.report = report /\ r.ack = ack
  <2>1. mem.host[h] \in Host
    BY Zenon DEF StateOK
  <2>2. ack \in BOOLEAN
    BY Zenon
  <2> HIDE DEF report, ack
  <2> QED
    BY <1>1, <2>1, <2>2, Zenon DEF Host
<1>3. Recorded(h, report) = Written(mem, h, r)
  BY Zenon DEF StateOK, Host, Written, Recorded
<1>4. Saves(Recorded(h, report)) /\ mem' = Recorded(h, report)
  BY SavesStore, Zenon DEF Poll, Saves
<1>5. ack => mem.host[h].ack \/ header.applied >= mem.host[h].served
  BY <1>1, Zenon
<1> HIDE DEF r, report, ack
<1> QED
  BY <1>1, <1>2, <1>3, <1>4, <1>5, Zenon

(* The generation a host should have is one of the numbers.                *)
LEMMA TargetTyped ==
    ASSUME StateOK(mem), NEW h \in Hosts
    PROVE  Target(h) \in Generations /\ mem.host[h].served \in Generations /\ Target(h) >= mem.host[h].served
<1>1. mem.host[h] \in Host /\ mem.ring \in [RingIds -> Generations]
  BY Zenon DEF StateOK
<1>2. mem.host[h].ring \in RingIds /\ mem.host[h].served \in Generations
  BY <1>1, Zenon DEF Host
<1>3. mem.ring[mem.host[h].ring] \in Generations
  BY <1>1, <1>2, Zenon
<1> QED
  BY <1>2, <1>3, RingsAssumption DEF Target, Generations

(* Serving raises the floor of the host, or leaves the stored state alone. *)
LEMMA ServeWrites ==
    ASSUME StateOK(mem), NEW h \in Hosts, Serve(h)
    PROVE  \/ UNCHANGED <<mem, disk, dirty>> /\ mem.host[h].served = Target(h)
           \/ \E r \in Host : /\ Saves(Written(mem, h, r)) /\ mem' = Written(mem, h, r)
                              /\ r.served = Target(h) /\ ~ r.ack /\ r.report = mem.host[h].report
<1> DEFINE r == [mem.host[h] EXCEPT !.served = Target(h), !.ack = FALSE]
<1>1. r \in Host /\ r.served = Target(h) /\ ~ r.ack /\ r.report = mem.host[h].report
  <2>1. mem.host[h] \in Host
    BY Zenon DEF StateOK
  <2> QED
    BY <2>1, TargetTyped, Zenon DEF Host
<1>2. [mem EXCEPT !.host[h].served = Target(h), !.host[h].ack = FALSE] = Written(mem, h, r)
  BY Zenon DEF StateOK, Host, Written
<1>3. \/ UNCHANGED <<mem, disk, dirty>> /\ ~ (Target(h) > mem.host[h].served)
      \/ SaveAnyway(Written(mem, h, r))
  BY <1>2, Zenon DEF Serve
<1>4. Target(h) > mem.host[h].served \/ mem.host[h].served = Target(h)
  BY TargetTyped, RingsAssumption DEF Generations
<1> HIDE DEF r
<1> QED
  BY <1>1, <1>3, <1>4, SavesStore, Zenon

(* While the mutex is held for a publication there is room for it.         *)
Typed == ServiceTypeOK /\ (~ Free => publishing.bundle \in Bundles /\ Latest < MaxGeneration)

(* A publication appends its bundle,                                       *)
LEMMA PublishedTyped ==
    ASSUME StateOK(mem), Latest < MaxGeneration, NEW b \in Bundles, NEW i
    PROVE  /\ StateOK(Published(b, i)) /\ Published(b, i).gens = Append(mem.gens, b)
           /\ Published(b, i).host = mem.host
<1> DEFINE t == Published(b, i)
           ring == [j \in RingIds |-> IF j <= i THEN Latest + 1 ELSE mem.ring[j]]
<1>1. /\ DOMAIN t = DOMAIN mem /\ t.gens = Append(mem.gens, b) /\ t.rollout = Latest + 1
      /\ t.ring = ring /\ t.host = mem.host /\ (t.draft = None \/ t.draft = mem.draft)
  BY Zenon DEF Published, StateOK
<1>2. Latest \in Nat /\ Latest + 1 \in Generations /\ Len(Append(mem.gens, b)) = Latest + 1
      /\ Append(mem.gens, b) \in Seq(Bundles)
  BY RingsAssumption DEF StateOK, Latest, Generations
<1>3. ring \in [RingIds -> Generations]
  BY <1>2, Zenon DEF StateOK
<1> HIDE DEF t, ring
<1>4. t.gens \in Seq(Bundles) /\ Len(t.gens) <= MaxGeneration
  BY <1>1, <1>2, RingsAssumption DEF Generations
<1>5. StateOK(t)
  BY <1>1, <1>2, <1>3, <1>4, Zenon DEF StateOK
<1> QED
  BY <1>1, <1>5, Zenon DEF t

(* a promotion changes the rings alone,                                    *)
LEMMA PromotedTyped ==
    ASSUME StateOK(mem), NEW i
    PROVE  LET t == [mem EXCEPT !.ring =
                       [j \in RingIds |-> IF j <= i /\ @[j] < mem.rollout THEN mem.rollout ELSE @[j]]]
           IN  StateOK(t) /\ t.gens = mem.gens /\ t.host = mem.host
<1> DEFINE ring == [j \in RingIds |-> IF j <= i /\ mem.ring[j] < mem.rollout THEN mem.rollout ELSE mem.ring[j]]
           t == [mem EXCEPT !.ring = ring]
<1>1. ring \in [RingIds -> Generations]
  BY Zenon DEF StateOK
<1> HIDE DEF ring
<1>2. StateOK(t) /\ t.gens = mem.gens /\ t.host = mem.host
  BY <1>1, Zenon DEF StateOK
<1> QED
  BY <1>2, Zenon DEF ring

(* and a draft neither.                                                    *)
LEMMA DraftTyped ==
    ASSUME StateOK(mem), NEW d \in Drafts \cup {None}
    PROVE  LET t == [mem EXCEPT !.draft = d]
           IN  StateOK(t) /\ t.gens = mem.gens /\ t.host = mem.host /\ t.ring = mem.ring
BY Zenon DEF StateOK

(* A state that a step may want to store: generations are only added.      *)
Wanted(next) ==
    /\ StateOK(next)
    /\ next.gens = mem.gens \/ (\E b \in Bundles : next.gens = Append(mem.gens, b))

(* What a step does to the stored state.                                   *)
Stores ==
    \/ UNCHANGED <<mem, disk>> /\ dirty' \in BOOLEAN
    \/ mem' = disk /\ disk' = disk /\ dirty' = FALSE
    \/ \E next : /\ Wanted(next) /\ Saves(next)
                 /\ next.gens = mem.gens \/ Undone(next)

(* The record of one host is stored as Stores says,                        *)
LEMMA WrittenStores ==
    ASSUME StateOK(mem), NEW h \in Hosts, NEW r \in Host, Saves(Written(mem, h, r))
    PROVE  Stores
<1>1. Wanted(Written(mem, h, r)) /\ Written(mem, h, r).gens = mem.gens
  BY HostWritten, Zenon DEF Wanted, Rehosted
<1> QED
  BY <1>1, Zenon DEF Stores

(* so is what the administrator changes,                                   *)
LEMMA AdminStores == ASSUME Typed, AdminStep PROVE Stores
<1>0. StateOK(mem) /\ dirty \in BOOLEAN
  BY Zenon DEF Typed, ServiceTypeOK
<1>1. CASE \E h \in Hosts : Revoke(h)
  BY <1>0, <1>1, RevokeWrites, SavesStore, WrittenStores, Zenon
<1>2. CASE \E h \in Hosts, i \in RingIds : Enroll(h, i)
  BY <1>0, <1>2, EnrollWrites, SavesStore, WrittenStores, Zenon
<1>3. CASE \E h \in Hosts, i \in RingIds : UpdateHost(h, i)
  BY <1>0, <1>3, UpdateWrites, SavesStore, WrittenStores, Zenon
<1>4. CASE PublishAbandoned \/ \E b \in Bundles, i \in RingIds : PublishBundle(b, i)
  BY <1>0, <1>4, Zenon DEF PublishAbandoned, PublishBundle, Stores
<1>5. CASE PublishSave
  <2>1. publishing.bundle \in Bundles /\ Latest < MaxGeneration
    BY <1>5, Zenon DEF Typed, PublishSave
  <2>2. Wanted(Published(publishing.bundle, publishing.ring))
    BY <1>0, <2>1, PublishedTyped, Zenon DEF Wanted
  <2>3. /\ Saves(Published(publishing.bundle, publishing.ring))
        /\ Undone(Published(publishing.bundle, publishing.ring))
    BY <1>5, SavesStore, Zenon DEF PublishSave
  <2> QED
    BY <2>2, <2>3, Zenon DEF Stores
<1>6. CASE \E i \in RingIds : PromoteRing(i)
  BY <1>0, <1>6, PromotedTyped, SavesStore, Zenon DEF PromoteRing, Stores, Wanted
<1>7. CASE \E d \in Drafts \cup {None} : SetDraft(d)
  BY <1>0, <1>7, DraftTyped, SavesStore, Zenon DEF SetDraft, Stores, Wanted
<1> QED
  BY <1>1, <1>2, <1>3, <1>4, <1>5, <1>6, <1>7, Zenon DEF AdminStep

(* and what any step changes.                                              *)
LEMMA StepStores == ASSUME Typed, ServiceNext PROVE Stores
<1>0. StateOK(mem) /\ dirty \in BOOLEAN
  BY Zenon DEF Typed, ServiceTypeOK
<1>1. CASE FlushReports
  <2>1. Saves(mem) /\ Wanted(mem)
    BY <1>0, <1>1, SavesStore, Zenon DEF FlushReports, Wanted
  <2> QED
    BY <2>1, Zenon DEF Stores
<1>2. CASE Restart
  BY <1>2, Zenon DEF Restart, Stores
<1>3. CASE \E h \in Hosts : Serve(h)
  BY <1>0, <1>3, ServeWrites, WrittenStores, Zenon DEF Stores
<1>4. CASE \E h \in Hosts : Wait(h) \/ NotModified(h) \/ Refuse(h) \/ Disconnect(h)
  BY <1>0, <1>4, Zenon DEF Wait, NotModified, Refuse, Disconnect, Stores
<1>5. CASE \E h \in Hosts, c \in Headers, etag \in Generations : Poll(h, c, etag)
  BY <1>0, <1>5, PollWrites, HeadersTyped, WrittenStores, Zenon
<1> QED
  BY <1>1, <1>2, <1>3, <1>4, <1>5, AdminStores, Zenon DEF ServiceNext, FeedStep

(* The types of the rest.                                                  *)
Publications == [bundle : Bundles, ring : RingIds]
RequestRecord == [at : {"none", "checking", "waiting"}, etag : Generations, woken : BOOLEAN]
RequestsOK == request \in [Hosts -> RequestRecord]

(* Waking the held requests keeps their types.                             *)
LEMMA WokenTyped == RequestsOK => Woken \in [Hosts -> RequestRecord]
<1> SUFFICES ASSUME RequestsOK, NEW h \in Hosts
             PROVE  [request[h] EXCEPT !.woken = @ \/ request[h].at = "waiting"] \in RequestRecord
  BY Zenon DEF Woken
<1>1. request[h] \in RequestRecord /\ (request[h].woken \/ request[h].at = "waiting") \in BOOLEAN
  BY Zenon DEF RequestsOK
<1> QED
  BY <1>1, Zenon DEF RequestRecord

(* Every step leaves the requests typed.                                   *)
LEMMA RequestsTyped == ASSUME Typed, ServiceNext PROVE RequestsOK'
<1>0. RequestsOK /\ 0 \in Generations
  BY RingsAssumption DEF Typed, ServiceTypeOK, RequestsOK, RequestRecord, Generations
<1>1. CASE request' = Woken \/ UNCHANGED request
  BY <1>0, <1>1, WokenTyped, Zenon DEF RequestsOK
<1>2. ASSUME NEW h \in Hosts, NEW r \in RequestRecord, request' = [request EXCEPT ![h] = r]
      PROVE  RequestsOK'
  BY <1>0, <1>2, Zenon DEF RequestsOK
<1>3. NoRequest \in RequestRecord
  BY <1>0, Zenon DEF NoRequest, RequestRecord
<1>4. CASE AdminStep
  <2>1. request' = Woken \/ UNCHANGED request
    BY <1>4, SavesStore, Zenon DEF AdminStep, Enroll, UpdateHost, Revoke, PublishBundle,
         PublishAbandoned, PublishSave, PromoteRing, SetDraft
  <2> QED
    BY <1>1, <2>1, Zenon
<1>5. CASE FlushReports
  BY <1>1, <1>5, Zenon DEF FlushReports
<1>6. CASE Restart
  BY <1>3, <1>6, Zenon DEF Restart, RequestsOK
<1>7. CASE \E h \in Hosts : NotModified(h) \/ Refuse(h) \/ Serve(h) \/ Disconnect(h)
  BY <1>2, <1>3, <1>7, Zenon DEF NotModified, Refuse, Serve, Disconnect, Done
<1>8. ASSUME NEW h \in Hosts, Wait(h) PROVE RequestsOK'
  <2> DEFINE r == [request[h] EXCEPT !.at = "waiting", !.woken = FALSE]
  <2>1. r \in RequestRecord
    BY <1>0, Zenon DEF RequestsOK, RequestRecord
  <2>2. request' = [request EXCEPT ![h] = r]
    BY <1>0, <1>8, Zenon DEF Wait, RequestsOK, RequestRecord
  <2> HIDE DEF r
  <2> QED
    BY <1>2, <2>1, <2>2, Zenon
<1>9. ASSUME NEW h \in Hosts, NEW c, NEW etag \in Generations, Poll(h, c, etag) PROVE RequestsOK'
  <2>1. [at |-> "checking", etag |-> etag, woken |-> FALSE] \in RequestRecord
    BY Zenon DEF RequestRecord
  <2> QED
    BY <1>2, <1>9, <2>1, Zenon DEF Poll
<1> QED
  BY <1>4, <1>5, <1>6, <1>7, <1>8, <1>9, Zenon DEF ServiceNext, FeedStep

(* What a step does to the files, to the mutex and to what was sent.       *)
LEMMA OtherSteps ==
    ASSUME Typed, ServiceNext
    PROVE  /\ \/ UNCHANGED files
              \/ \E b \in Bundles : files' \in {files, [files EXCEPT ![Latest + 1] = b]}
           /\ \/ publishing' = Idle
              \/ UNCHANGED publishing /\ (Free \/ UNCHANGED mem)
              \/ publishing' \in Publications /\ Latest < MaxGeneration /\ UNCHANGED mem
           /\ \/ UNCHANGED sent
              \/ \E h \in Hosts : Readable(Target(h)) /\ sent' = [sent EXCEPT ![h] = @ \cup {Offer(h)}]
<1>1. CASE \E b \in Bundles, i \in RingIds : PublishBundle(b, i)
  <2>1. PICK b \in Bundles, i \in RingIds : PublishBundle(b, i)
    BY <1>1, Zenon
  <2>2. files' \in {files, [files EXCEPT ![Latest + 1] = b]}
    BY <2>1, Zenon DEF PublishBundle, FileAfter, Typed, ServiceTypeOK
  <2>3. publishing' = Idle \/ publishing' \in Publications
    BY <2>1 DEF PublishBundle, Publications
  <2> QED
    BY <2>1, <2>2, <2>3, Zenon DEF PublishBundle
<1>2. CASE \/ \E h \in Hosts : Revoke(h) \/ \E i \in RingIds : Enroll(h, i) \/ UpdateHost(h, i)
           \/ PublishAbandoned \/ PublishSave
           \/ \E i \in RingIds : PromoteRing(i)
           \/ \E d \in Drafts \cup {None} : SetDraft(d)
  BY <1>2, Zenon DEF Enroll, UpdateHost, Revoke, PublishAbandoned, PublishSave, PromoteRing, SetDraft
<1>3. CASE FlushReports \/ Restart
  BY <1>3, Zenon DEF FlushReports, Restart
<1>4. CASE \E h \in Hosts : FeedStep(h) \/ \E c \in Headers, etag \in Generations : Poll(h, c, etag)
  BY <1>4, Zenon DEF FeedStep, Wait, NotModified, Refuse, Serve, Disconnect, Poll, Checking
<1> QED
  BY <1>1, <1>2, <1>3, <1>4, Zenon DEF ServiceNext, AdminStep

(* The types hold at the start,                                            *)
LEMMA TypedInit == ServiceInit => Typed
<1> SUFFICES ASSUME ServiceInit PROVE Typed
  BY Zenon
<1>1. 0 \in Generations /\ 1 \in RingIds /\ 0 <= MaxGeneration
  BY RingsAssumption DEF Generations, RingIds
<1>2. Stranger \in Host
  BY <1>1, Zenon DEF Stranger, Host
<1>3. StateOK(mem) /\ disk = mem
  BY <1>1, <1>2 DEF ServiceInit, StateOK
<1>4. /\ files \in [1..MaxGeneration -> Bundles \cup {None}] /\ Free /\ dirty \in BOOLEAN
      /\ sent \in [Hosts -> SUBSET Snapshot]
  BY Zenon DEF ServiceInit, Free
<1>5. request \in [Hosts -> RequestRecord]
  BY <1>1, Zenon DEF ServiceInit, NoRequest, RequestRecord
<1> QED
  BY <1>3, <1>4, <1>5, Zenon DEF Typed, ServiceTypeOK, RequestRecord, Free

(* what a host is served is a recorded generation with its file's bytes,   *)
LEMMA OfferTyped ==
    ASSUME StateOK(mem), NEW h \in Hosts, Readable(Target(h))
    PROVE  /\ Offer(h) \in Snapshot
           /\ Offer(h).gen \in 1..Latest /\ mem.gens[Offer(h).gen] = Offer(h).body
           /\ files[Offer(h).gen] = Offer(h).body
<1>1. Target(h) \in 1..Latest /\ mem.gens[Target(h)] \in Bundles /\ Latest \in Nat
  BY DEF Readable, StateOK, Latest
<1> QED
  BY <1>1 DEF Offer, Snapshot, Readable

(* and every step keeps the types.                                         *)
LEMMA TypedStep == ASSUME Typed, ServiceNext PROVE Typed'
<1>1. StateOK(mem) /\ StateOK(disk)
  BY Zenon DEF Typed, ServiceTypeOK
<1>2. StateOK(mem)' /\ StateOK(disk)' /\ dirty' \in BOOLEAN
  <2>1. dirty \in BOOLEAN
    BY Zenon DEF Typed, ServiceTypeOK
  <2>2. (StateOK(mem)' <=> StateOK(mem')) /\ (StateOK(disk)' <=> StateOK(disk'))
    BY Zenon DEF StateOK
  <2> QED
    BY <1>1, <2>1, <2>2, StepStores, Zenon DEF Stores, Wanted, Saves
<1>3. files' \in [1..MaxGeneration -> Bundles \cup {None}]
  BY OtherSteps, Zenon DEF Typed, ServiceTypeOK
<1>4. /\ publishing' \in Publications \cup {Idle}
      /\ ~ Free' => publishing'.bundle \in Bundles /\ Latest' < MaxGeneration
  BY OtherSteps, Zenon DEF Typed, ServiceTypeOK, Free, Publications, Latest
<1>5. sent' \in [Hosts -> SUBSET Snapshot]
  <2>1. ASSUME NEW h \in Hosts, Readable(Target(h)), sent' = [sent EXCEPT ![h] = @ \cup {Offer(h)}]
        PROVE  sent' \in [Hosts -> SUBSET Snapshot]
    BY <1>1, <2>1, OfferTyped, Zenon DEF Typed, ServiceTypeOK
  <2> QED
    BY <2>1, OtherSteps, Zenon DEF Typed, ServiceTypeOK
<1> QED
  BY <1>2, <1>3, <1>4, <1>5, RequestsTyped, Zenon DEF Typed, ServiceTypeOK, RequestsOK, RequestRecord, Publications

(* The stored state, the requests and what was sent keep their types.      *)
THEOREM ServiceTyping == ServiceSpec => []ServiceTypeOK
<1>1. ServiceInit => Typed
  BY TypedInit, Zenon
<1>2. Typed /\ [ServiceNext]_serviceVars => Typed'
  <2>1. CASE Typed /\ UNCHANGED serviceVars
    BY <2>1, Zenon DEF serviceVars, Typed, ServiceTypeOK, StateOK, Free, Latest
  <2> QED
    BY <2>1, TypedStep, Zenon
<1>3. Typed => ServiceTypeOK
  BY Zenon DEF Typed
<1> QED
  BY <1>1, <1>2, <1>3, PTL DEF ServiceSpec

-----------------------------------------------------------------------------
(* What was sent.                                                          *)

(* The state file records at least the generations in memory: a save that  *)
(* took effect and reported an error leaves it one ahead.  What was sent   *)
(* is in memory, and so out of reach of the next publication.              *)
Durable ==
    /\ Latest <= Len(disk.gens)
    /\ \A n \in 1..Latest : disk.gens[n] = mem.gens[n]
    /\ \A h \in Hosts : \A p \in sent[h] :
          p.gen \in 1..Latest /\ mem.gens[p.gen] = p.body /\ files[p.gen] = p.body

(* An appended bundle leaves the generations there were.                   *)
LEMMA Grown ==
    ASSUME StateOK(mem), NEW next, Wanted(next)
    PROVE  /\ Latest \in Nat /\ Len(next.gens) \in Nat /\ Latest <= Len(next.gens)
           /\ \A n \in 1..Latest : next.gens[n] = mem.gens[n]
BY DEF StateOK, Wanted, Latest

(* Every step keeps the record of what was sent.                           *)
LEMMA DurableStep == ASSUME Typed, Durable, ServiceNext PROVE Durable'
<1>1. /\ StateOK(mem) /\ StateOK(disk) /\ Latest \in Nat /\ Len(disk.gens) \in Nat
      /\ files \in [1..MaxGeneration -> Bundles \cup {None}] /\ Latest <= MaxGeneration
  BY DEF Typed, ServiceTypeOK, StateOK, Latest
<1> DEFINE Prefix == /\ Latest' <= Len(disk'.gens) /\ Latest' \in Nat /\ Latest <= Latest'
                     /\ \A n \in 1..Latest' : disk'.gens[n] = mem'.gens[n]
                     /\ \A n \in 1..Latest : mem'.gens[n] = mem.gens[n]
<1>2. Prefix
  <2>1. CASE UNCHANGED <<mem, disk>> \/ (mem' = disk /\ disk' = disk)
    BY <1>1, <2>1 DEF Durable, Latest
  <2>2. ASSUME NEW next, Wanted(next), Saves(next), next.gens = mem.gens \/ Undone(next)
        PROVE  Prefix
    BY <1>1, <2>2, Grown DEF Durable, Latest, Saves, Undone
  <2> QED
    BY <2>1, <2>2, StepStores, Zenon DEF Stores
<1> HIDE DEF Prefix
<1>3. ASSUME NEW h \in Hosts, NEW p \in sent'[h]
      PROVE  p.gen \in 1..Latest /\ mem.gens[p.gen] = p.body /\ files[p.gen] = p.body
  <2>1. p \in sent[h] \/ (Readable(Target(h)) /\ p = Offer(h))
    BY OtherSteps DEF Typed, ServiceTypeOK
  <2> QED
    BY <1>1, <2>1, OfferTyped, Zenon DEF Durable
<1>4. \A n \in 1..Latest : files'[n] = files[n]
  <2>1. CASE UNCHANGED files
    BY <2>1, Zenon
  <2>2. ASSUME NEW b \in Bundles, files' \in {files, [files EXCEPT ![Latest + 1] = b]}
        PROVE  \A n \in 1..Latest : files'[n] = files[n]
    BY <1>1, <2>2, RingsAssumption
  <2> QED
    BY <2>1, <2>2, OtherSteps, Zenon
<1>5. \A n \in 1..Latest : n \in 1..Latest'
  BY <1>1, <1>2 DEF Prefix
<1> QED
  BY <1>2, <1>3, <1>4, <1>5, Zenon DEF Durable, Prefix

(* What a host was sent stays recorded under its number, and its file      *)
(* keeps the bytes, through failed saves, publications cut short and       *)
(* restarts.                                                               *)
THEOREM SentStaysDurable == ServiceSpec => []SentIsDurable
<1> DEFINE Inv == Typed /\ Durable
<1>1. ServiceInit => Inv
  <2>1. ServiceInit => Durable
    BY DEF ServiceInit, Durable, Latest
  <2> QED
    BY <2>1, TypedInit, Zenon
<1>2. Inv /\ [ServiceNext]_serviceVars => Inv'
  <2>1. CASE Inv /\ UNCHANGED serviceVars
    BY <2>1, Zenon DEF serviceVars, Typed, ServiceTypeOK, StateOK, Free, Latest, Durable
  <2> QED
    BY <2>1, TypedStep, DurableStep, Zenon
<1>3. Inv => SentIsDurable
  <2> SUFFICES ASSUME Inv, NEW h \in Hosts, NEW p \in sent[h]
               PROVE  p.gen \in 1..Len(disk.gens) /\ disk.gens[p.gen] = p.body /\ files[p.gen] = p.body
    BY Zenon DEF SentIsDurable
  <2>1. Latest \in Nat /\ Len(disk.gens) \in Nat
    BY DEF Typed, ServiceTypeOK, StateOK, Latest
  <2> QED
    BY <2>1 DEF Durable
<1> QED
  BY <1>1, <1>2, <1>3, PTL DEF ServiceSpec

-----------------------------------------------------------------------------
(* Held requests.                                                          *)

(* A held request that no one has woken.                                   *)
Asleep(h) == request[h].at = "waiting" /\ ~ request[h].woken

(* What a request that sleeps on has seen has not changed.                 *)
Unnoticed(h) ==
    Asleep(h)' => /\ Asleep(h) /\ request'[h].etag = request[h].etag
                  /\ mem'.host[h] = mem.host[h] /\ mem'.ring = mem.ring

(* After a notification no request sleeps on.                              *)
LEMMA WokenNotices ==
    ASSUME Typed, request' = Woken, NEW h \in Hosts PROVE Unnoticed(h)
<1>1. request[h] \in RequestRecord
  BY Zenon DEF Typed, ServiceTypeOK, RequestRecord
<1>2. request'[h] = [request[h] EXCEPT !.woken = @ \/ request[h].at = "waiting"]
  BY Zenon DEF Woken
<1>3. request'[h].at = request[h].at /\ (request[h].at = "waiting" => request'[h].woken)
  BY <1>1, <1>2, Zenon DEF RequestRecord
<1> QED
  BY <1>3, Zenon DEF Unnoticed, Asleep

(* A change to the record of another host concerns no request.             *)
LEMMA RehostedUnnoticed ==
    ASSUME NEW h \in Hosts, Rehosted(mem, mem', h), NEW g \in Hosts \ {h}, request'[g] = request[g]
    PROVE  Unnoticed(g)
BY Zenon DEF Rehosted, Unnoticed, Asleep

(* The steps of the administrator wake the requests they concern.          *)
LEMMA AdminNoticed ==
    ASSUME Typed, NoLostWakeup, AdminStep, NEW g \in Hosts PROVE Unnoticed(g)
<1>0. StateOK(mem)
  BY Zenon DEF Typed, ServiceTypeOK
<1>1. CASE request' = Woken \/ UNCHANGED <<mem, request>>
  BY <1>1, WokenNotices, Zenon DEF Unnoticed, Asleep
<1>2. CASE \E h \in Hosts : Revoke(h) \/ \E i \in RingIds : UpdateHost(h, i)
  BY <1>1, <1>2, SavesStore, Zenon DEF Revoke, UpdateHost
<1>3. CASE PublishAbandoned \/ PublishSave \/ (\E i \in RingIds : PromoteRing(i))
           \/ \E b \in Bundles, i \in RingIds : PublishBundle(b, i)
  BY <1>1, <1>3, SavesStore, Zenon DEF PublishAbandoned, PublishBundle, PublishSave, PromoteRing
<1>4. ASSUME NEW h \in Hosts, NEW i \in RingIds, Enroll(h, i) PROVE Unnoticed(g)
  <2>1. PICK r \in Host : SaveOrUndo(Written(mem, h, r))
    BY <1>0, <1>4, EnrollWrites, Zenon
  <2>2. mem' = mem \/ Rehosted(mem, mem', h)
    <3>1. mem' = mem \/ mem' = Written(mem, h, r)
      BY <2>1, SavesStore, Zenon DEF Saves
    <3>2. Rehosted(mem, Written(mem, h, r), h)
      BY <1>0, HostWritten, Zenon
    <3> QED
      BY <3>1, <3>2, Zenon
  <2>3. UNCHANGED request /\ ~ Asleep(h)
    BY <1>4, Zenon DEF Enroll, NoLostWakeup, Asleep, Enrolled
  <2> QED
    BY <1>1, <2>2, <2>3, RehostedUnnoticed, Zenon DEF Unnoticed, Asleep
<1>5. ASSUME NEW d \in Drafts \cup {None}, SetDraft(d) PROVE Unnoticed(g)
  <2>1. mem' = mem \/ mem' = [mem EXCEPT !.draft = d]
    BY <1>5, SavesStore, Zenon DEF SetDraft, Saves
  <2>2. mem'.host = mem.host /\ mem'.ring = mem.ring /\ UNCHANGED request
    BY <1>0, <1>5, <2>1, Zenon DEF SetDraft, StateOK
  <2> QED
    BY <2>2, Zenon DEF Unnoticed, Asleep
<1> QED
  BY <1>2, <1>3, <1>4, <1>5, Zenon DEF AdminStep

(* No held request sleeps through a new target or a revocation.            *)
LEMMA WakeupStep == ASSUME Typed, NoLostWakeup, ServiceNext PROVE NoLostWakeup'
<1>0. StateOK(mem) /\ request \in [Hosts -> RequestRecord]
  BY Zenon DEF Typed, ServiceTypeOK, RequestRecord
<1> SUFFICES ASSUME NEW g \in Hosts, Asleep(g)' PROVE Enrolled(g)' /\ UpToDate(g)'
  BY Zenon DEF NoLostWakeup, Asleep
<1>1. CASE Unnoticed(g)
  BY <1>1, Zenon DEF Unnoticed, NoLostWakeup, Asleep, Enrolled, UpToDate, Target
<1>2. CASE FlushReports
  BY <1>1, <1>2, SavesStore, Zenon DEF FlushReports, Unnoticed, Asleep
<1>3. CASE Restart
  BY <1>3, Zenon DEF Restart, Asleep, NoRequest
<1>4. ASSUME NEW h \in Hosts, Done(h), UNCHANGED mem PROVE Enrolled(g)' /\ UpToDate(g)'
  <2>1. g # h /\ request'[g] = request[g]
    BY <1>0, <1>4, Zenon DEF Done, Asleep, NoRequest
  <2> QED
    BY <1>1, <1>4, <2>1, Zenon DEF Unnoticed, Asleep
<1>5. CASE \E h \in Hosts : NotModified(h) \/ Refuse(h) \/ Disconnect(h)
  BY <1>4, <1>5, Zenon DEF NotModified, Refuse, Disconnect
<1>6. ASSUME NEW h \in Hosts, Wait(h) PROVE Enrolled(g)' /\ UpToDate(g)'
  <2>1. UNCHANGED mem /\ Enrolled(h) /\ UpToDate(h) /\ request'[h].etag = request[h].etag
    BY <1>0, <1>6, Zenon DEF Wait, RequestRecord
  <2>2. CASE g = h
    BY <2>1, <2>2, Zenon DEF Enrolled, UpToDate, Target
  <2>3. CASE g # h
    <3>1. request'[g] = request[g]
      BY <1>0, <1>6, <2>3, Zenon DEF Wait
    <3> QED
      BY <1>1, <2>1, <3>1, Zenon DEF Unnoticed, Asleep
  <2> QED
    BY <2>2, <2>3, Zenon
<1>7. ASSUME NEW h \in Hosts, Serve(h) PROVE Enrolled(g)' /\ UpToDate(g)'
  <2>1. g # h /\ request'[g] = request[g]
    BY <1>0, <1>7, Zenon DEF Serve, Done, Asleep, NoRequest
  <2>2. UNCHANGED mem \/ Rehosted(mem, mem', h)
    <3>1. CASE UNCHANGED mem
      BY <3>1, Zenon
    <3>2. CASE ~ UNCHANGED mem
      <4>1. PICK r \in Host : mem' = Written(mem, h, r)
        BY <1>0, <1>7, <3>2, ServeWrites, Zenon
      <4> QED
        BY <1>0, <4>1, HostWritten, Zenon
    <3> QED
      BY <3>1, <3>2, Zenon
  <2> QED
    BY <1>1, <2>1, <2>2, RehostedUnnoticed, Zenon DEF Unnoticed, Asleep
<1>8. ASSUME NEW h \in Hosts, NEW c \in Headers, NEW etag, Poll(h, c, etag)
      PROVE  Enrolled(g)' /\ UpToDate(g)'
  <2>1. g # h /\ request'[g] = request[g]
    BY <1>0, <1>8, Zenon DEF Poll, Asleep
  <2>2. Rehosted(mem, mem', h)
    <3>1. c \in Header /\ dirty \in BOOLEAN
      BY HeadersTyped, Zenon DEF Typed, ServiceTypeOK
    <3>2. PICK r \in Host : mem' = Written(mem, h, r)
      BY <1>0, <1>8, <3>1, PollWrites, Zenon
    <3> QED
      BY <1>0, <3>2, HostWritten, Zenon
  <2> QED
    BY <1>1, <2>1, <2>2, RehostedUnnoticed, Zenon
<1> QED
  BY <1>1, <1>2, <1>3, <1>5, <1>6, <1>7, <1>8, AdminNoticed, Zenon DEF ServiceNext, FeedStep

(* A held request is never left sleeping on a new target of its host or on *)
(* its host's revocation.                                                  *)
THEOREM NobodySleepsOn == ServiceSpec => []NoLostWakeup
<1> DEFINE Inv == Typed /\ NoLostWakeup
<1>1. ServiceInit => Inv
  <2>1. ServiceInit => NoLostWakeup
    BY DEF ServiceInit, NoLostWakeup, NoRequest
  <2> QED
    BY <2>1, TypedInit, Zenon
<1>2. Inv /\ [ServiceNext]_serviceVars => Inv'
  <2>1. CASE Inv /\ UNCHANGED serviceVars
    BY <2>1, Zenon DEF serviceVars, Typed, ServiceTypeOK, StateOK, Free, Latest, NoLostWakeup, Enrolled, UpToDate, Target
  <2> QED
    BY <2>1, TypedStep, WakeupStep, Zenon
<1> QED
  BY <1>1, <1>2, PTL DEF ServiceSpec

-----------------------------------------------------------------------------
(* The feed: what the two ends know of each other.                         *)

(* A cursor whose generations were sent, each with its number as its tag.  *)
Fetched(c, out) ==
    /\ {[gen |-> c.gen, body |-> c.body], [gen |-> c.pgen, body |-> c.pbody]}
          \subseteq out \cup {Unmanaged}
    /\ c.etag = c.gen /\ c.petag = c.pgen

(* What is on the wire is what the ends sent, and the host's cursors hold  *)
(* nothing else.                                                           *)
Exchanged(h) ==
    /\ \A p \in asked[h] : /\ p.header \in Headers /\ p.etag \in Generations
                           /\ p.header.applied <= reported[h]
    /\ answer[h] \subseteq sent[h]
    /\ rejected[h].gen \in Generations
    /\ Fetched(file[h], sent[h]) /\ Fetched(state[h], sent[h])

(* The service remembers the newest generation it sent, an answer under    *)
(* way is the newest, and the host has refused none.                       *)
Floored(h) ==
    /\ rejected[h].reason \notin {"rollback", "changed"}
    /\ \A p \in sent[h] : p.gen <= mem.host[h].served /\ \A r \in answer[h] : p.gen <= r.gen

(* What s records of a host is no more than the host reported.             *)
Told(s) ==
    \A h \in Hosts :
        /\ s.host[h].ack => s.host[h].served <= reported[h]
        /\ s.host[h].report # None => s.host[h].report.applied <= reported[h]

WireTyped == DOMAIN asked = Hosts /\ DOMAIN answer = Hosts

Wired ==
    /\ FeedWithin
    /\ WireTyped
    /\ \A h \in Hosts : Exchanged(h)
    /\ \A h \in Hosts \ lost : Floored(h)
    /\ Told(mem) /\ Told(disk)

FeedInv == Anchored /\ Covered /\ Typed /\ Durable /\ Wired

-----------------------------------------------------------------------------
(* Each end takes a step of its own specification, or none.                *)

(* What was sent is a published generation.                                *)
LEMMA SentKnown ==
    ASSUME Typed, Durable, NEW h \in Hosts, NEW p \in sent[h]
    PROVE  /\ p \in Snapshot /\ p.gen \in 1..MaxGeneration /\ p.gen \in Generations
           /\ p.gen \in 1..Latest /\ p.body \in Bundles /\ p.body = mem.gens[p.gen]
<1>1. p \in Snapshot /\ p.gen \in 1..Latest /\ p.body = mem.gens[p.gen]
  BY Zenon DEF Typed, ServiceTypeOK, Durable
<1>2. Latest \in Nat /\ Latest <= MaxGeneration /\ mem.gens \in Seq(Bundles) /\ Latest = Len(mem.gens)
  BY DEF Typed, ServiceTypeOK, StateOK, Latest
<1>3. p.gen \in 1..MaxGeneration /\ p.gen \in Generations
  BY <1>1, <1>2, RingsAssumption DEF Generations
<1>4. p.body \in Bundles
  BY <1>1, <1>2
<1> QED
  BY <1>1, <1>3, <1>4, Zenon

(* The generations of a fetched cursor are numbers and bundles.            *)
LEMMA FetchedKnown ==
    ASSUME Typed, Durable, NEW h \in Hosts, NEW c, Fetched(c, sent[h])
    PROVE  /\ c.gen \in Generations /\ c.pgen \in Generations
           /\ c.etag \in Generations /\ c.petag \in Generations
           /\ c.body \in Bundles \cup {None}
<1>1. \A p \in sent[h] \cup {Unmanaged} : p.gen \in Generations /\ p.body \in Bundles \cup {None}
  <2>1. 0 \in Generations
    BY RingsAssumption DEF Generations
  <2>2. Unmanaged.gen \in Generations /\ Unmanaged.body \in Bundles \cup {None}
    BY <2>1, Zenon DEF Unmanaged
  <2> QED
    BY <2>2, SentKnown, Zenon
<1>2. c.gen \in Generations /\ c.pgen \in Generations /\ c.body \in Bundles \cup {None}
  <2>1. [gen |-> c.gen, body |-> c.body] \in sent[h] \cup {Unmanaged}
    BY Zenon DEF Fetched
  <2>2. [gen |-> c.pgen, body |-> c.pbody] \in sent[h] \cup {Unmanaged}
    BY Zenon DEF Fetched
  <2> QED
    BY <1>1, <2>1, <2>2, Zenon
<1> QED
  BY <1>2, Zenon DEF Fetched

(* An answer is one that a service may give,                               *)
LEMMA AnswerKnown ==
    ASSUME Typed, Durable, Wired, NEW h \in Hosts, NEW r \in answer[h]
    PROVE  r \in sent[h] /\ [gen |-> r.gen, body |-> r.body, etag |-> r.gen] \in Responses
<1>1. r \in sent[h]
  BY Zenon DEF Wired, Exchanged
<1>2. r.gen \in 1..MaxGeneration /\ r.body \in Bundles
  BY <1>1, SentKnown, Zenon
<1>3. [gen |-> r.gen, body |-> r.body, etag |-> r.gen]
        \in [gen : 1..MaxGeneration, body : Bundles, etag : 1..MaxGeneration]
  BY <1>2, Zenon
<1> QED
  BY <1>1, <1>3, Zenon DEF Wired, FeedWithin

(* so the hosts take steps that they may take whatever the service does,   *)
LEMMA HostsStep == ASSUME FeedInv, Next PROVE [ReceiverNext]_hostVars
<1>1. CASE \E h \in Hosts : HostWork(h) \/ HostStarts(h) \/ HostCrash(h) \/ FanoutFails(h)
  BY <1>1, Zenon DEF HostWork, HostStarts, HostCrash, FanoutFails, ReceiverNext, HostStep
<1>2. CASE \E h \in Hosts : SendPoll(h) \/ Answered(h) \/ GiveUp(h)
  BY <1>2, Zenon DEF SendPoll, Answered, GiveUp, ReceiverNext, Exchange
<1>3. ASSUME NEW h \in Hosts, TakeAnswer(h) PROVE ReceiverNext
  BY <1>3, AnswerKnown, Zenon DEF FeedInv, TakeAnswer, ReceiverNext, Exchange
<1>4. CASE (\E h \in Hosts : FeedSide(h)) \/ Administer \/ ServiceRestart
  BY <1>4, Zenon DEF FeedSide, Arrive, ArriveUnknown, SendAnswer, ServeNothing, NoticeGone,
       Administer, ServiceRestart
<1> QED
  BY <1>1, <1>2, <1>3, <1>4, Zenon DEF Next, HostSide

(* and the service steps that it may take whatever the hosts do.           *)
LEMMA ServiceSteps == ASSUME FeedInv, Next PROVE [ServiceNext]_serviceVars
<1>1. CASE \E h \in Hosts : HostSide(h) \/ HostStarts(h) \/ GiveUp(h) \/ HostCrash(h) \/ FanoutFails(h)
  BY <1>1, Zenon DEF HostSide, HostWork, SendPoll, TakeAnswer, Answered, HostStarts, GiveUp,
       HostCrash, FanoutFails
<1>2. ASSUME NEW h \in Hosts, Arrive(h) PROVE ServiceNext
  BY <1>2, Zenon DEF FeedInv, Wired, Exchanged, Arrive, ServiceNext
<1>3. CASE \E h \in Hosts : ArriveUnknown(h) \/ SendAnswer(h) \/ ServeNothing(h) \/ NoticeGone(h)
  BY <1>3, Zenon DEF ArriveUnknown, SendAnswer, ServeNothing, NoticeGone, ServiceNext, FeedStep
<1>4. CASE Administer \/ ServiceRestart
  BY <1>4, Zenon DEF Administer, ServiceRestart, ServiceNext
<1> QED
  BY <1>1, <1>2, <1>3, <1>4, Zenon DEF Next, FeedSide

-----------------------------------------------------------------------------
(* What a step does to the cursors.                                        *)

(* A host by itself only promotes, reloads or forgets what it holds.       *)
Reworked(g) ==
    /\ file'[g] \in {file[g], Promoted(state[g])}
    /\ state'[g] \in {state[g], file[g], Promoted(state[g]), Blank}
    /\ rejected'[g] \in {rejected[g], NotRejected}

(* Every step of its own is of that kind,                                  *)
LEMMA HostReworks ==
    ASSUME ReceiverTypeOK, NEW h \in Hosts, HostStep(h) \/ NoNews(h)
    PROVE  reported' = reported /\ \A g \in Hosts : Reworked(g)
<1>1. CASE NewReceiver(h)
  BY <1>1, Zenon DEF NewReceiver, ReceiverTypeOK, Reworked
<1>2. CASE RestoreNothing(h) \/ ApplyRefused(h) \/ ApplyPublish(h) \/ ApplyIncomplete(h) \/ ApplyComplete(h)
           \/ SyncStart(h) \/ StartSandbox(h) \/ NoNews(h)
  BY <1>2, Zenon DEF RestoreNothing, ApplyRefused, ApplyPublish, ApplyIncomplete, ApplyComplete, SyncStart,
       StartSandbox, NoNews, receiverVars, managerVars, Reworked
<1>3. CASE Crash(h)
  BY <1>3, Zenon DEF Crash, ReceiverTypeOK, Reworked
<1>4. CASE Promote(h)
  <2>1. PICK outcome \in SaveOutcomes :
          /\ file' = [file EXCEPT ![h] = FileAfter(outcome, @, Promoted(state[h]))]
          /\ state' = [state EXCEPT ![h] = Promoted(@)] \/ UNCHANGED state
    BY <1>4, Zenon DEF Promote
  <2>2. \A old, new : FileAfter(outcome, old, new) \in {old, new}
    BY Zenon DEF FileAfter
  <2>3. rejected' = rejected /\ reported' = reported
    BY <1>4, Zenon DEF Promote
  <2> QED
    BY <2>1, <2>2, <2>3, Zenon DEF ReceiverTypeOK, Reworked
<1> QED
  BY <1>1, <1>2, <1>3, <1>4, Zenon DEF HostStep

(* An answer is refused, ignored, or staged.                               *)
Taken(g, r) ==
    /\ file'[g] \in {file[g], Staged(state[g], r)}
    /\ state'[g] \in {state[g], Staged(state[g], r)}
    /\ rejected'[g] \in {rejected[g], NotRejected, [gen |-> r.gen, reason |-> Refusal(state[g], r)]}

(* and an answer does that and no more.                                    *)
LEMMA HostTakes ==
    ASSUME ReceiverTypeOK, NEW h \in Hosts, NEW r, Receive(h, r),
           state[h].etag = state[h].gen, r.etag = r.gen
    PROVE  /\ reported' = reported /\ Taken(h, r)
           /\ \A g \in Hosts \ {h} : Reworked(g)
<1>1. CASE ReceiveRefused(h, r)
  BY <1>1, Zenon DEF ReceiveRefused, Reject, ReceiverTypeOK, Taken, Reworked
<1>2. CASE ReceiveHeld(h, r)
  <2>1. r.gen = state[h].pgen \/ r.etag = state[h].etag
    BY <1>2, Zenon DEF ReceiveHeld
  <2> QED
    BY <1>2, <2>1, Zenon DEF ReceiveHeld, managerVars, Taken, Reworked
<1>3. CASE Stage(h, r)
  <2>1. PICK outcome \in SaveOutcomes :
          /\ file' = [file EXCEPT ![h] = FileAfter(outcome, @, Staged(state[h], r))]
          /\ state' = [state EXCEPT ![h] = Staged(@, r)] \/ UNCHANGED state
          /\ rejected' = [rejected EXCEPT ![h] = NotRejected] \/ UNCHANGED rejected
    BY <1>3, Zenon DEF Stage
  <2>2. \A old, new : FileAfter(outcome, old, new) \in {old, new}
    BY Zenon DEF FileAfter
  <2>3. reported' = reported
    BY <1>3, Zenon DEF Stage
  <2> QED
    BY <2>1, <2>2, <2>3, Zenon DEF ReceiverTypeOK, Taken, Reworked
<1> QED
  BY <1>1, <1>2, <1>3, Zenon DEF Receive

(* What is done to a fetched cursor leaves it fetched.                     *)
LEMMA FetchedKept ==
    ASSUME NEW out, NEW c \in Cursor, Fetched(c, out)
    PROVE  /\ Fetched(Blank, out) /\ Fetched(Promoted(c), out)
           /\ \A r : [gen |-> r.gen, body |-> r.body] \in out /\ r.etag = r.gen => Fetched(Staged(c, r), out)
           /\ \A more : out \subseteq more => Fetched(c, more)
<1>1. Fetched(Blank, out)
  BY Zenon DEF Fetched, Blank, Unmanaged
<1>2. Fetched(Promoted(c), out)
  <2>1. /\ Promoted(c).gen = c.pgen /\ Promoted(c).body = c.pbody /\ Promoted(c).etag = c.petag
        /\ Promoted(c).pgen = 0 /\ Promoted(c).pbody = None /\ Promoted(c).petag = 0
    BY Zenon DEF Promoted, Blank
  <2> QED
    BY <2>1, Zenon DEF Fetched, Unmanaged
<1>3. ASSUME NEW r, [gen |-> r.gen, body |-> r.body] \in out, r.etag = r.gen
      PROVE  Fetched(Staged(c, r), out)
  <2>1. /\ Staged(c, r).gen = c.gen /\ Staged(c, r).body = c.body /\ Staged(c, r).etag = c.etag
        /\ Staged(c, r).pgen = r.gen /\ Staged(c, r).pbody = r.body /\ Staged(c, r).petag = r.etag
    BY Zenon DEF Staged, Cursor
  <2> QED
    BY <1>3, <2>1, Zenon DEF Fetched
<1>4. \A more : out \subseteq more => Fetched(c, more)
  BY Zenon DEF Fetched
<1> QED
  BY <1>1, <1>2, <1>3, <1>4, Zenon

-----------------------------------------------------------------------------
(* What a step of the feed does to each end.                               *)

(* What the receiver makes of an answer.                                   *)
Answer(r) == [gen |-> r.gen, body |-> r.body, etag |-> r.gen]

(* A host's cursors change by its own steps or by taking an answer, and    *)
(* what it has reported only grows.                                        *)
LEMMA HostEffect ==
    ASSUME FeedInv, Next, NEW g \in Hosts
    PROVE  /\ Reworked(g) \/ \E r \in answer[g] : Taken(g, Answer(r))
           /\ reported[g] \in Nat /\ reported'[g] \in Nat /\ reported'[g] >= reported[g]
<1>0. /\ ReceiverTypeOK /\ DOMAIN reported = Hosts
      /\ \A h \in Hosts : reported[h] \in Nat /\ state[h].gen \in Nat /\ state[h].etag = state[h].gen
  BY Zenon DEF FeedInv, Wired, Exchanged, Fetched, Anchored, ReceiverTypeOK, Cursor
<1>1. ASSUME NEW h \in Hosts, HostStep(h) \/ NoNews(h)
      PROVE  Reworked(g) /\ reported' = reported
  BY <1>0, <1>1, HostReworks, Zenon
<1>2. ASSUME NEW h \in Hosts, SendPoll(h)
      PROVE  Reworked(g) /\ reported'[g] \in Nat /\ reported'[g] >= reported[g]
  <2>1. Reworked(g)
    BY <1>2, Zenon DEF SendPoll, Ask, Reworked
  <2>2. reported' = [reported EXCEPT ![h] = IF state[h].gen > @ THEN state[h].gen ELSE @]
    BY <1>2, Zenon DEF SendPoll, Ask
  <2> QED
    BY <1>0, <2>1, <2>2
<1>3. ASSUME NEW h \in Hosts, TakeAnswer(h)
      PROVE  reported' = reported /\ (Reworked(g) \/ \E r \in answer[g] : Taken(g, Answer(r)))
  <2>1. PICK r \in answer[h] : Receive(h, Answer(r))
    BY <1>3, Zenon DEF TakeAnswer, Answer
  <2>2. Answer(r).etag = Answer(r).gen
    BY Zenon DEF Answer
  <2> QED
    BY <1>0, <2>1, <2>2, HostTakes, Zenon
<1>4. CASE UNCHANGED hostVars
  BY <1>0, <1>4 DEF hostVars, receiverVars, Reworked
<1>5. \/ \E h \in Hosts : HostStep(h) \/ NoNews(h) \/ SendPoll(h) \/ TakeAnswer(h)
      \/ UNCHANGED hostVars
  BY Zenon DEF Next, HostSide, HostWork, Answered, HostStarts, GiveUp, HostCrash, FanoutFails, HostStep,
       FeedSide, Arrive, ArriveUnknown, SendAnswer, ServeNothing, NoticeGone, Administer, ServiceRestart
<1>6. reported[g] \in Nat /\ (reported' = reported => reported'[g] \in Nat /\ reported'[g] >= reported[g])
  BY <1>0
<1> QED
  BY <1>0, <1>1, <1>2, <1>3, <1>4, <1>5, <1>6, Zenon

(* Only serving a host adds to what it was sent and puts an answer on its  *)
(* way.                                                                    *)
LEMMA WireEffect ==
    ASSUME FeedInv, Next, NEW g \in Hosts
    PROVE  /\ \/ SendAnswer(g) /\ sent'[g] = sent[g] \cup {Offer(g)} /\ answer'[g] = {Offer(g)}
              \/ sent'[g] = sent[g] /\ answer'[g] \subseteq answer[g]
           /\ asked'[g] \subseteq asked[g] \/ SendPoll(g)
<1>0. DOMAIN asked = Hosts /\ DOMAIN answer = Hosts /\ DOMAIN sent = Hosts
  BY Zenon DEF FeedInv, Wired, WireTyped, Typed, ServiceTypeOK
<1>1. CASE Administer \/ ServiceRestart
  <2>1. UNCHANGED <<asked, answer, sent>>
    BY <1>1, Zenon DEF Administer, ServiceRestart, Restart, FlushReports, AdminStep, Enroll, UpdateHost,
         Revoke, PublishBundle, PublishAbandoned, PublishSave, PromoteRing, SetDraft, wireVars
  <2> QED
    BY <1>0, <2>1, Zenon
<1>2. ASSUME NEW h \in Hosts, HostSide(h) \/ HostStarts(h) \/ GiveUp(h) \/ HostCrash(h) \/ FanoutFails(h)
      PROVE  /\ sent'[g] = sent[g] /\ answer'[g] \subseteq answer[g]
             /\ asked'[g] \subseteq asked[g] \/ SendPoll(g)
  <2>1. UNCHANGED sent
    BY <1>2, Zenon DEF HostSide, HostWork, SendPoll, TakeAnswer, Answered, HostStarts, GiveUp,
         HostCrash, FanoutFails, serviceVars
  <2>2. CASE SendPoll(h)
    BY <1>0, <2>1, <2>2, Zenon DEF SendPoll
  <2>3. Silence(h) \/ UNCHANGED <<asked, answer>> \/ SendPoll(h)
    BY <1>2, Zenon DEF HostSide, HostWork, TakeAnswer, Answered, HostStarts, GiveUp,
         HostCrash, FanoutFails, wireVars
  <2> QED
    BY <1>0, <2>1, <2>2, <2>3, Zenon DEF Silence
<1>3. ASSUME NEW h \in Hosts, Arrive(h) \/ ArriveUnknown(h) \/ ServeNothing(h) \/ NoticeGone(h)
      PROVE  /\ sent'[g] = sent[g] /\ answer'[g] \subseteq answer[g]
             /\ asked'[g] \subseteq asked[g]
  BY <1>0, <1>3, Zenon DEF Arrive, Poll, ArriveUnknown, ServeNothing, Wait, NotModified, Refuse,
       NoticeGone, Disconnect, serviceVars, wireVars
<1>4. ASSUME NEW h \in Hosts, SendAnswer(h)
      PROVE  /\ \/ SendAnswer(g) /\ sent'[g] = sent[g] \cup {Offer(g)} /\ answer'[g] = {Offer(g)}
                \/ sent'[g] = sent[g] /\ answer'[g] \subseteq answer[g]
             /\ asked'[g] \subseteq asked[g]
  <2>1. /\ sent' = [sent EXCEPT ![h] = @ \cup {Offer(h)}] /\ asked' = asked
        /\ answer' = [answer EXCEPT ![h] = {Offer(h)}]
    BY <1>4, Zenon DEF SendAnswer, Serve
  <2> QED
    BY <1>0, <1>4, <2>1, Zenon
<1> QED
  BY <1>1, <1>2, <1>3, <1>4, Zenon DEF Next, FeedSide

(* What the service may know of a host after a step: what it knew, what    *)
(* the host's poll says, or that the host was served its target.           *)
Learnt(q, g) ==
    \/ Known(q, mem.host[g])
    \/ \E p \in asked[g] :
          /\ q.served = mem.host[g].served /\ q.report.applied = p.header.applied
          /\ q.ack => mem.host[g].ack \/ p.header.applied >= mem.host[g].served
    \/ q.served = Target(g) /\ ~ q.ack /\ q.report = mem.host[g].report

(* The administrator changes nothing that a host said or was served.       *)
LEMMA AdminWrites ==
    ASSUME Typed, AdminStep \/ FlushReports
    PROVE  \/ UNCHANGED <<mem, disk>>
           \/ \E next : Saves(next) /\ \A g \in Hosts : Known(next.host[g], mem.host[g])
<1>0. StateOK(mem)
  BY Zenon DEF Typed, ServiceTypeOK
<1>1. ASSUME NEW h \in Hosts, NEW r \in Host, Known(r, mem.host[h])
      PROVE  \A g \in Hosts : Known(Written(mem, h, r).host[g], mem.host[g])
  <2> DEFINE t == Written(mem, h, r)
  <2>0. t.host[h] = r /\ Rehosted(mem, t, h)
    BY <1>0, HostWritten, Zenon
  <2> HIDE DEF t
  <2>1. t.host[h] = r /\ \A g \in Hosts \ {h} : t.host[g] = mem.host[g]
    BY <2>0, Zenon DEF Rehosted
  <2>2. ASSUME NEW g \in Hosts PROVE Known(t.host[g], mem.host[g])
    <3>1. CASE g = h
      BY <1>1, <2>1, <3>1, Zenon
    <3>2. CASE g # h
      BY <2>1, <3>2, Zenon DEF Known
    <3> QED
      BY <3>1, <3>2, Zenon
  <2> QED
    BY <2>2, Zenon DEF t
<1>2. CASE \E h \in Hosts : Revoke(h)
  BY <1>0, <1>1, <1>2, RevokeWrites, SavesStore, Zenon
<1>3. CASE \E h \in Hosts, i \in RingIds : Enroll(h, i)
  BY <1>0, <1>1, <1>3, EnrollWrites, SavesStore, Zenon
<1>4. CASE \E h \in Hosts, i \in RingIds : UpdateHost(h, i)
  BY <1>0, <1>1, <1>4, UpdateWrites, SavesStore, Zenon
<1>5. CASE PublishAbandoned \/ \E b \in Bundles, i \in RingIds : PublishBundle(b, i)
  BY <1>5, Zenon DEF PublishAbandoned, PublishBundle
<1>6. CASE PublishSave
  <2>1. publishing.bundle \in Bundles /\ Latest < MaxGeneration
    BY <1>6, Zenon DEF Typed, PublishSave
  <2> QED
    BY <1>0, <1>6, <2>1, PublishedTyped, SavesStore, Zenon DEF PublishSave, Known
<1>7. CASE \E i \in RingIds : PromoteRing(i)
  BY <1>0, <1>7, PromotedTyped, SavesStore, Zenon DEF PromoteRing, Known
<1>8. CASE \E d \in Drafts \cup {None} : SetDraft(d)
  BY <1>0, <1>8, DraftTyped, SavesStore, Zenon DEF SetDraft, Known
<1>9. CASE FlushReports
  BY <1>9, SavesStore, Zenon DEF FlushReports, Known
<1> QED
  BY <1>2, <1>3, <1>4, <1>5, <1>6, <1>7, <1>8, <1>9, Zenon DEF AdminStep

(* A state stored with what was learnt leaves memory and file with it.     *)
LEMMA SavedLearnt ==
    ASSUME NEW g \in Hosts, NEW next, Saves(next), Learnt(next.host[g], g)
    PROVE  Learnt(mem'.host[g], g) /\ (disk' = disk \/ Learnt(disk'.host[g], g))
<1>1. Learnt(mem.host[g], g)
  BY Zenon DEF Learnt, Known
<1> QED
  BY <1>1, Zenon DEF Saves

(* Nothing else is ever recorded of a host; a restart goes back to the     *)
(* file.                                                                   *)
LEMMA RecordsLearnt ==
    ASSUME FeedInv, Next, NEW g \in Hosts
    PROVE  /\ ServiceRestart \/ Learnt(mem'.host[g], g)
           /\ disk' = disk \/ Learnt(disk'.host[g], g)
<1>0. Typed /\ StateOK(mem) /\ dirty \in BOOLEAN
  BY Zenon DEF FeedInv, Typed, ServiceTypeOK
<1>1. ASSUME UNCHANGED <<mem, disk>>
      PROVE  Learnt(mem'.host[g], g) /\ disk' = disk
  BY <1>1, Zenon DEF Learnt, Known
<1>2. CASE AdminStep \/ FlushReports
  <2>1. ASSUME NEW next, Saves(next), \A h \in Hosts : Known(next.host[h], mem.host[h])
        PROVE  Learnt(mem'.host[g], g) /\ (disk' = disk \/ Learnt(disk'.host[g], g))
    BY <2>1, SavedLearnt, Zenon DEF Learnt
  <2> QED
    BY <1>0, <1>1, <1>2, <2>1, AdminWrites, Zenon
<1>3. ASSUME NEW h \in Hosts, NEW r \in Host, Saves(Written(mem, h, r)), h = g => Learnt(r, g)
      PROVE  Learnt(mem'.host[g], g) /\ (disk' = disk \/ Learnt(disk'.host[g], g))
  <2> DEFINE t == Written(mem, h, r)
  <2>0. t.host[h] = r /\ Rehosted(mem, t, h) /\ Saves(t)
    BY <1>0, <1>3, HostWritten, Zenon
  <2> HIDE DEF t
  <2>1. CASE g = h
    BY <1>3, <2>0, <2>1, SavedLearnt, Zenon
  <2>2. CASE g # h
    <3>1. t.host[g] = mem.host[g]
      BY <2>0, <2>2, Zenon DEF Rehosted
    <3>2. Learnt(t.host[g], g)
      BY <3>1, Zenon DEF Learnt, Known
    <3> QED
      BY <2>0, <3>2, SavedLearnt, Zenon
  <2> QED
    BY <2>1, <2>2, Zenon
<1>4. ASSUME NEW h \in Hosts, Arrive(h)
      PROVE  Learnt(mem'.host[g], g) /\ (disk' = disk \/ Learnt(disk'.host[g], g))
  <2>1. PICK p \in asked[h] : Poll(h, p.header, p.etag)
    BY <1>4, Zenon DEF Arrive
  <2>2. p.header \in Header
    BY <2>1, HeadersTyped, Zenon DEF FeedInv, Wired, Exchanged
  <2>3. PICK r \in Host : /\ Saves(Written(mem, h, r))
                          /\ r.served = mem.host[h].served /\ r.report.applied = p.header.applied
                          /\ r.ack => mem.host[h].ack \/ p.header.applied >= mem.host[h].served
    BY <1>0, <2>1, <2>2, PollWrites, Zenon
  <2>4. Learnt(r, h)
    BY <2>1, <2>3, Zenon DEF Learnt
  <2> QED
    BY <1>3, <2>3, <2>4, Zenon
<1>5. ASSUME NEW h \in Hosts, SendAnswer(h)
      PROVE  Learnt(mem'.host[g], g) /\ (disk' = disk \/ Learnt(disk'.host[g], g))
  <2>1. CASE \E r \in Host : /\ Saves(Written(mem, h, r))
                             /\ r.served = Target(h) /\ ~ r.ack /\ r.report = mem.host[h].report
    BY <1>3, <2>1, Zenon DEF Learnt
  <2>2. CASE UNCHANGED <<mem, disk, dirty>>
    BY <1>1, <2>2, Zenon
  <2> QED
    BY <1>0, <1>5, <2>1, <2>2, ServeWrites, Zenon DEF SendAnswer
<1>6. \/ UNCHANGED <<mem, disk>> \/ AdminStep \/ FlushReports \/ ServiceRestart
      \/ \E h \in Hosts : Arrive(h) \/ SendAnswer(h)
  <2>1. CASE \E h \in Hosts : HostSide(h) \/ HostStarts(h) \/ GiveUp(h) \/ HostCrash(h) \/ FanoutFails(h)
    BY <2>1, Zenon DEF HostSide, HostWork, SendPoll, TakeAnswer, Answered, HostStarts, GiveUp,
         HostCrash, FanoutFails, serviceVars
  <2>2. CASE \E h \in Hosts : ArriveUnknown(h) \/ ServeNothing(h) \/ NoticeGone(h)
    BY <2>2, Zenon DEF ArriveUnknown, ServeNothing, Wait, NotModified, Refuse, NoticeGone, Disconnect, serviceVars
  <2> QED
    BY <2>1, <2>2, Zenon DEF Next, FeedSide, Administer
<1>7. CASE ServiceRestart
  BY <1>7, Zenon DEF ServiceRestart, Restart
<1> QED
  BY <1>1, <1>2, <1>4, <1>5, <1>6, <1>7, Zenon

-----------------------------------------------------------------------------
(* The invariant of the feed is inductive.                                 *)

(* An answer that is the newest one sent is neither a rollback nor a       *)
(* change.                                                                 *)
LEMMA AnswerAccepted ==
    ASSUME FeedInv, NEW h \in Hosts, Floored(h), NEW r \in answer[h]
    PROVE  Refusal(state[h], Answer(r)) \notin {"rollback", "changed"}
<1> DEFINE c == state[h]
<1>1. r \in sent[h] /\ Fetched(c, sent[h])
  BY Zenon DEF FeedInv, Wired, Exchanged
<1>2. Answer(r).gen = r.gen /\ Answer(r).body = r.body
  BY Zenon DEF Answer
<1>3. r.gen \in Nat \ {0} /\ r.body = mem.gens[r.gen]
  BY <1>1, SentKnown DEF FeedInv
<1>4. ASSUME NEW n, NEW b, [gen |-> n, body |-> b] \in sent[h] \cup {Unmanaged}
      PROVE  ~ (r.gen < n) /\ (r.gen = n => r.body = b)
  <2> DEFINE p == [gen |-> n, body |-> b]
  <2>0. p.gen = n /\ p.body = b
    BY Zenon
  <2>1. CASE p \in sent[h]
    <3>1. p.gen <= r.gen /\ p.gen \in Nat /\ p.body = mem.gens[p.gen]
      BY <2>1, SentKnown, Zenon DEF Floored, FeedInv, Snapshot
    <3> HIDE DEF p
    <3> QED
      BY <1>3, <2>0, <3>1
  <2>2. CASE p = Unmanaged
    <3>1. n = 0
      BY <2>0, <2>2, Zenon DEF Unmanaged
    <3> QED
      BY <1>3, <3>1
  <2> QED
    BY <1>4, <2>1, <2>2, Zenon
<1>5. /\ ~ (r.gen < c.gen) /\ ~ (r.gen < c.pgen)
      /\ (r.gen = c.gen => r.body = c.body) /\ (r.gen = c.pgen => r.body = c.pbody)
  BY <1>1, <1>4, Zenon DEF Fetched
<1> HIDE DEF c
<1>6. ~ RollsBack(c, Answer(r)) /\ ~ Changes(c, Answer(r))
  BY <1>2, <1>5, Zenon DEF RollsBack, Changes
<1> QED
  BY <1>6, Zenon DEF Refusal, c

(* What is under way and what the hosts hold stays what was sent.          *)
LEMMA ExchangedStep ==
    ASSUME FeedInv, Next, NEW g \in Hosts PROVE Exchanged(g)'
<1>1. /\ Exchanged(g) /\ Typed /\ Durable /\ file[g] \in Cursor /\ state[g] \in Cursor
  BY Zenon DEF FeedInv, Wired, Anchored, ReceiverTypeOK
<1>2. sent[g] \subseteq sent'[g] /\ answer'[g] \subseteq sent'[g]
  BY <1>1, WireEffect, Zenon DEF Exchanged
<1>3. ASSUME NEW p \in asked'[g]
      PROVE  p.header \in Headers /\ p.etag \in Generations /\ p.header.applied <= reported'[g]
  <2>1. CASE p \in asked[g]
    <3>1. p.header \in Headers /\ p.etag \in Generations /\ p.header.applied <= reported[g]
      BY <1>1, <2>1, Zenon DEF Exchanged
    <3>2. p.header.applied \in Nat
      BY <3>1, HeadersTyped, Zenon DEF Header
    <3> QED
      BY <3>1, <3>2, HostEffect
  <2>2. CASE SendPoll(g)
    <3>1. p = [header |-> PollHeader(g), etag |-> IfNoneMatch(g)]
      BY <2>2, Zenon DEF SendPoll, FeedInv, Wired, WireTyped
    <3>2. /\ state[g].gen \in Generations /\ state[g].pgen \in Generations
          /\ state[g].etag \in Generations /\ state[g].petag \in Generations
          /\ state[g].body \in Bundles \cup {None} /\ rejected[g].gen \in Generations
      BY <1>1, FetchedKnown, Zenon DEF Exchanged
    <3>3. attempted[g] \in BOOLEAN
      BY Zenon DEF FeedInv, Anchored, ReceiverTypeOK
    <3>4. PollHeader(g) \in Headers /\ IfNoneMatch(g) \in Generations
      BY <3>2, <3>3, Zenon DEF FeedInv, Wired, FeedWithin, PollHeader, IfNoneMatch
    <3>5. reported'[g] = IF state[g].gen > reported[g] THEN state[g].gen ELSE reported[g]
      BY <2>2, Zenon DEF SendPoll, Ask, FeedInv, Anchored, ReceiverTypeOK
    <3>6. state[g].gen \in Nat /\ reported[g] \in Nat
      BY Zenon DEF FeedInv, Anchored, ReceiverTypeOK, Cursor
    <3>7. state[g].gen <= reported'[g]
      BY <3>5, <3>6
    <3>8. p.header = PollHeader(g) /\ p.etag = IfNoneMatch(g) /\ PollHeader(g).applied = state[g].gen
      BY <3>1, Zenon DEF PollHeader
    <3> QED
      BY <3>4, <3>7, <3>8, Zenon
  <2> QED
    BY <1>3, <2>1, <2>2, WireEffect, Zenon
<1>4. /\ Fetched(file'[g], sent'[g]) /\ Fetched(state'[g], sent'[g]) /\ rejected'[g].gen \in Generations
  <2>1. \A c \in Cursor : Fetched(c, sent[g]) => Fetched(c, sent'[g])
    BY <1>2, FetchedKept, Zenon
  <2>2. /\ Fetched(file[g], sent'[g]) /\ Fetched(state[g], sent'[g])
        /\ Fetched(Blank, sent'[g]) /\ Fetched(Promoted(state[g]), sent'[g])
        /\ rejected[g].gen \in Generations /\ NotRejected.gen \in Generations
    <3>1. Fetched(file[g], sent'[g]) /\ Fetched(state[g], sent'[g]) /\ rejected[g].gen \in Generations
      BY <1>1, <2>1, Zenon DEF Exchanged
    <3>2. NotRejected.gen \in Generations
      BY RingsAssumption DEF NotRejected, Generations
    <3> QED
      BY <1>1, <3>1, <3>2, FetchedKept, Zenon
  <2>3. CASE Reworked(g)
    BY <2>2, <2>3, Zenon DEF Reworked
  <2>4. ASSUME NEW r \in answer[g], Taken(g, Answer(r))
        PROVE  /\ Fetched(file'[g], sent'[g]) /\ Fetched(state'[g], sent'[g])
               /\ rejected'[g].gen \in Generations
    <3>1. r \in sent[g] /\ r \in Snapshot /\ r.gen \in Generations
      BY <1>1, <2>4, SentKnown, Zenon DEF Exchanged
    <3>2. [gen |-> Answer(r).gen, body |-> Answer(r).body] = r /\ Answer(r).etag = Answer(r).gen
          /\ Answer(r).gen = r.gen
      BY <3>1, Zenon DEF Answer, Snapshot
    <3>3. [gen |-> Answer(r).gen, body |-> Answer(r).body] \in sent'[g]
      BY <1>2, <3>1, <3>2, Zenon
    <3>4. Fetched(Staged(state[g], Answer(r)), sent'[g])
      BY <1>1, <2>2, <3>2, <3>3, FetchedKept, Zenon
    <3>5. \A x : [gen |-> Answer(r).gen, reason |-> x].gen \in Generations
      BY <3>1, <3>2, Zenon
    <3> QED
      BY <2>2, <2>4, <3>4, <3>5, Zenon DEF Taken
  <2> QED
    BY <2>3, <2>4, HostEffect, Zenon
<1> QED
  BY <1>2, <1>3, <1>4, Zenon DEF Exchanged

(* The service forgets what a host was served only when a restart goes     *)
(* back to a file without it.                                              *)
LEMMA ServedKept ==
    ASSUME FeedInv, Next, NEW g \in Hosts \ lost'
    PROVE  /\ g \notin lost
           /\ mem.host[g].served \in Nat /\ mem'.host[g].served \in Nat
           /\ mem'.host[g].served >= mem.host[g].served
<1>0. /\ StateOK(mem) /\ Target(g) \in Nat /\ Target(g) >= mem.host[g].served
      /\ mem.host[g].served \in Nat /\ disk.host[g].served \in Nat
  <2>1. StateOK(mem) /\ disk.host[g] \in Host
    BY Zenon DEF FeedInv, Typed, ServiceTypeOK, StateOK
  <2>2. Target(g) \in Generations /\ mem.host[g].served \in Generations /\ Target(g) >= mem.host[g].served
    BY <2>1, TargetTyped, Zenon
  <2>3. disk.host[g].served \in Generations
    BY <2>1, Zenon DEF Host
  <2> QED
    BY <2>1, <2>2, <2>3, RingsAssumption DEF Generations
<1>1. CASE ServiceRestart
  <2>1. /\ lost' = lost \cup {h \in Hosts : disk.host[h].served < mem.host[h].served}
        /\ mem' = disk
    BY <1>1, Zenon DEF ServiceRestart, Restart
  <2>2. g \notin lost /\ ~ (disk.host[g].served < mem.host[g].served)
    BY <2>1, Zenon
  <2> QED
    BY <1>0, <2>1, <2>2
<1>2. CASE Learnt(mem'.host[g], g) /\ ~ ServiceRestart
  <2>1. mem'.host[g].served \in {mem.host[g].served, Target(g)}
    BY <1>2, Zenon DEF Learnt, Known
  <2>2. lost' = lost
    BY <1>2, Zenon DEF Next, HostSide, HostWork, SendPoll, TakeAnswer, Answered, HostStarts, GiveUp,
         HostCrash, FanoutFails, FeedSide, Arrive, ArriveUnknown, SendAnswer, ServeNothing, NoticeGone,
         Administer, wireVars
  <2> QED
    BY <1>0, <2>1, <2>2
<1> QED
  BY <1>1, <1>2, RecordsLearnt, Zenon

(* What is sent next is at least as new as all that was sent.              *)
LEMMA FlooredStep ==
    ASSUME FeedInv, Next, NEW g \in Hosts \ lost' PROVE Floored(g)'
<1>0. Floored(g) /\ Exchanged(g)
  BY ServedKept, Zenon DEF FeedInv, Wired
<1>1. rejected'[g].reason \notin {"rollback", "changed"}
  <2>0. NotRejected.reason \notin {"rollback", "changed"} /\ rejected[g].reason \notin {"rollback", "changed"}
    BY <1>0, Zenon DEF NotRejected, Floored
  <2>1. CASE Reworked(g)
    BY <2>0, <2>1, Zenon DEF Reworked
  <2>2. ASSUME NEW r \in answer[g], Taken(g, Answer(r))
        PROVE  rejected'[g].reason \notin {"rollback", "changed"}
    <3>1. Refusal(state[g], Answer(r)) \notin {"rollback", "changed"}
      BY <1>0, <2>2, AnswerAccepted, Zenon
    <3>2. rejected'[g].reason \in {rejected[g].reason, NotRejected.reason, Refusal(state[g], Answer(r))}
      <4>1. rejected'[g] \in {rejected[g], NotRejected,
                             [gen |-> Answer(r).gen, reason |-> Refusal(state[g], Answer(r))]}
        BY <2>2, Zenon DEF Taken
      <4> QED
        BY <4>1
    <3> QED
      BY <2>0, <3>1, <3>2, Zenon
  <2> QED
    BY <2>1, <2>2, HostEffect, Zenon
<1>2. \A p \in sent[g] : p.gen \in Nat /\ p.gen <= mem.host[g].served /\ p.gen <= mem'.host[g].served
  <2>1. \A p \in sent[g] : p.gen \in Nat /\ p.gen <= mem.host[g].served
    BY <1>0, SentKnown, Zenon DEF FeedInv, Snapshot, Floored
  <2> QED
    BY <2>1, ServedKept
<1>3. CASE sent'[g] = sent[g] /\ answer'[g] \subseteq answer[g]
  <2>1. ASSUME NEW p \in sent'[g]
        PROVE  p.gen <= mem'.host[g].served /\ \A r \in answer'[g] : p.gen <= r.gen
    BY <1>0, <1>2, <1>3, <2>1, Zenon DEF Floored
  <2> QED
    BY <1>1, <2>1, Zenon DEF Floored
<1>4. CASE SendAnswer(g) /\ sent'[g] = sent[g] \cup {Offer(g)} /\ answer'[g] = {Offer(g)}
  <2>1. StateOK(mem)
    BY Zenon DEF FeedInv, Typed, ServiceTypeOK
  <2>2. mem'.host[g].served = Target(g)
    <3>1. CASE UNCHANGED <<mem, disk, dirty>> /\ mem.host[g].served = Target(g)
      BY <3>1, Zenon
    <3>2. ASSUME NEW r \in Host, mem' = Written(mem, g, r), r.served = Target(g)
          PROVE  mem'.host[g].served = Target(g)
      BY <2>1, <3>2, HostWritten, Zenon
    <3> QED
      BY <1>4, <2>1, <3>1, <3>2, ServeWrites, Zenon DEF SendAnswer
  <2>3. Offer(g).gen = Target(g) /\ Target(g) \in Nat
    <3>1. Target(g) \in Generations
      BY <2>1, TargetTyped, Zenon
    <3> QED
      BY <3>1, RingsAssumption DEF Offer, Generations
  <2>4. Target(g) <= Target(g)
    BY <2>3
  <2>5. \A p \in sent'[g] : p.gen <= Target(g)
    BY <1>2, <1>4, <2>2, <2>3, <2>4, Zenon
  <2> QED
    BY <1>1, <1>4, <2>2, <2>3, <2>5, Zenon DEF Floored
<1> QED
  BY <1>3, <1>4, WireEffect, Zenon

(* What the service records of a host, the host has reported.              *)
LEMMA ToldStep ==
    ASSUME FeedInv, Next PROVE Told(mem)' /\ Told(disk)'
<1> DEFINE Said(q, rep) == /\ q.ack => q.served <= rep
                           /\ q.report # None => q.report.applied <= rep
<1>1. ASSUME NEW g \in Hosts
      PROVE  /\ mem.host[g] \in Host /\ disk.host[g] \in Host /\ mem'.host[g] \in Host /\ disk'.host[g] \in Host
             /\ Said(mem.host[g], reported[g]) /\ Said(disk.host[g], reported[g])
  <2>1. Typed' /\ Typed
    <3>1. CASE UNCHANGED serviceVars
      BY <3>1, Zenon DEF FeedInv, serviceVars, Typed, ServiceTypeOK, StateOK, Free, Latest
    <3> QED
      BY <3>1, ServiceSteps, TypedStep, Zenon DEF FeedInv
  <2> QED
    BY <2>1, Zenon DEF FeedInv, Wired, Told, Typed, ServiceTypeOK, StateOK
<1>2. ASSUME NEW g \in Hosts, NEW q \in Host, Said(q, reported[g]) PROVE Said(q, reported'[g])
  <2>1. q.served \in Nat /\ (q.report # None => q.report.applied \in Nat)
    BY <1>2, RingsAssumption DEF Host, Generations, Report
  <2> QED
    BY <1>2, <2>1, HostEffect
<1>3. ASSUME NEW g \in Hosts, NEW q \in Host, Learnt(q, g) PROVE Said(q, reported'[g])
  <2>0. /\ q.served \in Nat /\ reported[g] \in Nat /\ mem.host[g].served \in Nat
    BY <1>1, <1>3, HostEffect, RingsAssumption DEF Host, Generations
  <2>1. CASE Known(q, mem.host[g])
    <3>1. Said(q, reported[g])
      BY <1>1, <2>1, Zenon DEF Known
    <3> QED
      BY <1>2, <1>3, <3>1, Zenon
  <2>2. ASSUME NEW p \in asked[g],
               q.served = mem.host[g].served, q.report.applied = p.header.applied,
               q.ack => mem.host[g].ack \/ p.header.applied >= mem.host[g].served
        PROVE  Said(q, reported[g])
    <3>1. p.header.applied \in Nat /\ p.header.applied <= reported[g]
      BY <2>2, HeadersTyped, Zenon DEF FeedInv, Wired, Exchanged, Header
    <3>2. mem.host[g].ack => mem.host[g].served <= reported[g]
      BY <1>1, Zenon
    <3>3. p.header.applied >= mem.host[g].served => mem.host[g].served <= reported[g]
      BY <2>0, <3>1
    <3> QED
      BY <2>2, <3>1, <3>2, <3>3, Zenon
  <2>3. CASE q.served = Target(g) /\ ~ q.ack /\ q.report = mem.host[g].report
    <3>1. Said(q, reported[g])
      BY <1>1, <2>3, Zenon
    <3> QED
      BY <1>2, <1>3, <3>1, Zenon
  <2> HIDE DEF Said
  <2> QED
    BY <1>2, <1>3, <2>1, <2>2, <2>3, Zenon DEF Learnt
<1>4. ASSUME NEW g \in Hosts PROVE Said(mem'.host[g], reported'[g]) /\ Said(disk'.host[g], reported'[g])
  <2> HIDE DEF Said
  <2>1. Said(mem.host[g], reported'[g]) /\ Said(disk.host[g], reported'[g])
    BY <1>1, <1>2, Zenon
  <2>2. CASE ServiceRestart
    BY <2>1, <2>2, Zenon DEF ServiceRestart, Restart
  <2> QED
    BY <1>1, <1>3, <2>1, <2>2, RecordsLearnt, Zenon
<1> QED
  BY <1>4, Zenon DEF Told

(* The invariant holds at the start                                        *)
LEMMA FeedInit == ASSUME FeedWithin, Init PROVE FeedInv
<1>1. ReceiverInit /\ ServiceInit
  BY Zenon DEF Init
<1>2. Anchored /\ Covered /\ Typed
  BY <1>1, InitAnchored, InitCovered, TypedInit, Zenon
<1>3. Durable
  BY <1>1 DEF ServiceInit, Durable, Latest
<1>4. ASSUME NEW h \in Hosts PROVE Exchanged(h) /\ Floored(h)
  <2>1. /\ asked[h] = {} /\ answer[h] = {} /\ sent[h] = {} /\ rejected[h] = NotRejected
        /\ file[h] = Blank /\ state[h] = Blank
    BY Zenon DEF Init, ReceiverInit, ServiceInit
  <2>2. NotRejected.gen \in Generations /\ NotRejected.reason \notin {"rollback", "changed"}
    BY RingsAssumption DEF NotRejected, Generations
  <2>3. Fetched(Blank, {})
    BY Zenon DEF Fetched, Blank, Unmanaged
  <2> QED
    BY <2>1, <2>2, <2>3, Zenon DEF Exchanged, Floored
<1>5. Told(mem) /\ Told(disk)
  <2>1. \A h \in Hosts : mem.host[h] = Stranger /\ disk.host[h] = Stranger
    BY <1>1, Zenon DEF ServiceInit
  <2>2. ~ Stranger.ack /\ Stranger.report = None
    BY Zenon DEF Stranger
  <2> QED
    BY <2>1, <2>2, Zenon DEF Told
<1> QED
  BY <1>2, <1>3, <1>4, <1>5, Zenon DEF FeedInv, Wired, WireTyped, Init

(* and is kept by every step.                                              *)
LEMMA FeedStepKeeps == ASSUME FeedInv, [Next]_vars PROVE FeedInv'
<1>1. CASE UNCHANGED vars
  <2>1. UNCHANGED <<file, state, restorePending, attempted, rejected, step, caller, admitted, fleet, history,
                    reported, expired>>
    BY <1>1, Zenon DEF vars, hostVars, receiverVars, managerVars
  <2>2. UNCHANGED <<mem, disk, files, publishing, dirty, request, sent, asked, answer, faults, lost>>
    BY <1>1, Zenon DEF vars, serviceVars, wireVars
  <2>3. Anchored' /\ Covered'
    BY <2>1, Zenon DEF FeedInv, Anchored, ReceiverTypeOK, OneBodyPerGeneration, HostAnchored, Covered, HostCovered
  <2>4. Typed' /\ Durable'
    BY <2>2, Zenon DEF FeedInv, Typed, ServiceTypeOK, Durable, Latest, Free
  <2>5. Wired'
    BY <2>1, <2>2, Zenon DEF FeedInv, Wired, WireTyped, Exchanged, Floored, Told
  <2> QED
    BY <2>3, <2>4, <2>5, Zenon DEF FeedInv
<1>2. CASE Next
  <2>1. [ReceiverNext]_hostVars /\ [ServiceNext]_serviceVars
    BY <1>2, HostsStep, ServiceSteps, Zenon
  <2>2. Anchored'
    BY <2>1, TypeStep, OneBodyStep, AnchorStep, Zenon DEF FeedInv, Anchored
  <2>3. Covered'
    <3>1. Expiring = {}
      BY Zenon DEF FeedInv, Wired, FeedWithin
    <3>2. expired' = {}
      BY <2>1, <3>1, ExpiryIsTime, Zenon DEF FeedInv, Covered, ReceiverNext, hostVars
    <3> QED
      BY <2>1, <3>1, <3>2, CoverStep, Zenon DEF FeedInv, Covered
  <2>4. Typed' /\ Durable'
    <3>1. CASE UNCHANGED serviceVars
      BY <3>1, Zenon DEF FeedInv, serviceVars, Typed, ServiceTypeOK, StateOK, Free, Latest, Durable
    <3> QED
      BY <2>1, <3>1, TypedStep, DurableStep, Zenon DEF FeedInv
  <2>5. Wired'
    <3>1. WireTyped'
      BY <1>2, Zenon DEF FeedInv, Wired, WireTyped, Next, HostSide, HostWork, SendPoll, TakeAnswer, Answered,
           HostStarts, GiveUp, HostCrash, FanoutFails, FeedSide, Arrive, ArriveUnknown, SendAnswer, ServeNothing,
           NoticeGone, Administer, ServiceRestart, Silence, wireVars
    <3>2. FeedWithin'
      BY Zenon DEF FeedInv, Wired, FeedWithin
    <3>3. \A g \in Hosts : Exchanged(g)'
      BY <1>2, ExchangedStep, Zenon
    <3>4. \A g \in Hosts \ lost' : Floored(g)'
      BY <1>2, FlooredStep, Zenon
    <3>5. Told(mem)' /\ Told(disk)'
      BY <1>2, ToldStep, Zenon
    <3> QED
      BY <3>1, <3>2, <3>3, <3>4, <3>5, Zenon DEF Wired
  <2> QED
    BY <2>2, <2>3, <2>4, <2>5, Zenon DEF FeedInv
<1> QED
  BY <1>1, <1>2, Zenon

-----------------------------------------------------------------------------
(* What the feed promises.                                                 *)

(* The invariant of the feed holds throughout.                             *)
LEMMA AlwaysFeed == ASSUME FeedWithin PROVE Spec => []FeedInv
<1>1. Init => FeedInv
  BY FeedInit, Zenon
<1> QED
  BY <1>1, FeedStepKeeps, PTL DEF Spec

(* Joined by the feed each end behaves as specified on its own, so that    *)
(* what is proved of a receiver under any answers, and of the service      *)
(* under any polls, holds of the two together.                             *)
THEOREM EndsAsSpecified == ASSUME FeedWithin PROVE Spec => ReceiverSpec /\ ServiceSpec
<1>1. Init => ReceiverInit /\ ServiceInit
  BY Zenon DEF Init
<1>2. FeedInv /\ [Next]_vars => [ReceiverNext]_hostVars /\ [ServiceNext]_serviceVars
  <2>1. CASE UNCHANGED vars
    BY <2>1, Zenon DEF vars
  <2> QED
    BY <2>1, HostsStep, ServiceSteps, Zenon
<1>3. Spec => []FeedInv
  BY AlwaysFeed, Zenon
<1> QED
  BY <1>1, <1>2, <1>3, PTL DEF Spec, ReceiverSpec, ServiceSpec

(* However hosts are moved, generations promoted and either end restarted, *)
(* the service never offers a host what the host must refuse, except after *)
(* a restart that forgot what the host was served.                         *)
THEOREM OffersAccepted == ASSUME FeedWithin PROVE Spec => []NeverRefused
<1>1. FeedInv => NeverRefused
  BY Zenon DEF FeedInv, Wired, Floored, NeverRefused
<1>2. Spec => []FeedInv
  BY AlwaysFeed, Zenon
<1> QED
  BY <1>1, <1>2, PTL

(* What the console shows of a rollout is true of the hosts, whatever      *)
(* order polls, answers, saves, crashes and restarts come in.              *)
THEOREM ConsoleIsHonest == ASSUME FeedWithin PROVE Spec => []ConsoleHonest
<1>1. ASSUME FeedInv PROVE ConsoleHonest
  <2>0. ASSUME NEW h \in Hosts
        PROVE  /\ mem.host[h] \in Host /\ file[h].gen \in Nat /\ reported[h] \in Nat
               /\ reported[h] <= file[h].gen /\ \A p \in fleet[h] : p.gen \in Nat /\ p.gen >= file[h].gen
    <3>1. mem.host[h] \in Host
      BY <1>1, Zenon DEF FeedInv, Typed, ServiceTypeOK, StateOK
    <3>2. file[h] \in Cursor /\ reported[h] \in Nat /\ fleet[h] \subseteq Snapshot
      BY <1>1, Zenon DEF FeedInv, Anchored, ReceiverTypeOK
    <3>3. reported[h] <= file[h].gen
      BY <1>1, Zenon DEF FeedInv, Anchored, HostAnchored, AnchoredAt
    <3>4. \A p \in fleet[h] : p.gen >= file[h].gen
      BY <1>1, Zenon DEF FeedInv, Covered, HostCovered, CoveredAt
    <3> QED
      BY <3>1, <3>2, <3>3, <3>4, Zenon DEF Cursor, Snapshot
  <2>1. AcknowledgedIsApplied
    <3> SUFFICES ASSUME NEW h \in Hosts, mem.host[h].ack PROVE file[h].gen >= mem.host[h].served
      BY Zenon DEF AcknowledgedIsApplied
    <3>1. mem.host[h].served <= reported[h]
      BY <1>1, Zenon DEF FeedInv, Wired, Told
    <3>2. mem.host[h].served \in Nat
      BY <2>0, RingsAssumption DEF Host, Generations
    <3> QED
      BY <2>0, <3>1, <3>2
  <2>2. CompleteMeansApplied
    <3> SUFFICES ASSUME Complete, NEW h \in Hosts, Enrolled(h)
                 PROVE  file[h].gen >= mem.rollout /\ \A p \in fleet[h] : p.gen >= mem.rollout
      BY Zenon DEF CompleteMeansApplied
    <3>1. Target(h) >= mem.rollout /\ Status(h) = "current"
      BY Zenon DEF Complete
    <3>2. mem.host[h].report # None /\ mem.host[h].report.applied >= Target(h)
      BY <3>1, Zenon DEF Status
    <3>3. mem.host[h].report.applied <= reported[h]
      BY <1>1, <3>2, Zenon DEF FeedInv, Wired, Told
    <3>4. mem.host[h].report.applied \in Nat
      BY <2>0, <3>2, Zenon DEF Host, Report
    <3>5. Target(h) \in Nat /\ mem.rollout \in Nat
      <4>1. Target(h) \in Generations /\ mem.rollout \in Generations
        BY <1>1, TargetTyped, Zenon DEF FeedInv, Typed, ServiceTypeOK, StateOK
      <4> QED
        BY <4>1, RingsAssumption DEF Generations
    <3> QED
      BY <2>0, <3>1, <3>2, <3>3, <3>4, <3>5
  <2> QED
    BY <2>1, <2>2, Zenon DEF ConsoleHonest
<1>2. Spec => []FeedInv
  BY AlwaysFeed, Zenon
<1> QED
  BY <1>1, <1>2, PTL

(* While a save that reports an error has not taken effect, memory and     *)
(* disk agree at both ends.                                                *)
HostAligned(h) == step[h] # "down" => state[h] = file[h]
Aligned == disk.gens = mem.gens /\ \A h \in Hosts : HostAligned(h)

(* The applied generation of a host changes when the pending one is        *)
(* promoted, and only then.                                                *)
LEMMA CursorStep ==
    ASSUME "committed" \notin SaveFaults, Anchored, NEW h \in Hosts, HostAligned(h), HostStep(h) \/ Exchange(h)
    PROVE  /\ HostAligned(h)'
           /\ \/ file'[h].gen = file[h].gen /\ file'[h].body = file[h].body
              \/ step[h] = "promote" /\ file'[h] = Promoted(state[h])
<1>0. ReceiverTypeOK /\ file[h] \in Cursor /\ state[h] \in Cursor
  BY Zenon DEF Anchored, ReceiverTypeOK
<1>1. \A old, new : \A outcome \in SaveOutcomes :
         FileAfter(outcome, old, new) = IF outcome = "ok" THEN new ELSE old
  BY KnownFaults, Zenon DEF SaveOutcomes, FileAfter
<1>2. ASSUME UNCHANGED <<file, state>>, step[h] # "down"
      PROVE  HostAligned(h)' /\ file'[h] = file[h]
  BY <1>2, Zenon DEF HostAligned
<1>3. CASE NewReceiver(h)
  BY <1>0, <1>3, Zenon DEF NewReceiver, ReceiverTypeOK, HostAligned
<1>4. CASE Crash(h)
  BY <1>0, <1>4, Zenon DEF Crash, GoTo, ReceiverTypeOK, HostAligned
<1>5. CASE RestoreNothing(h) \/ ApplyRefused(h) \/ ApplyPublish(h) \/ ApplyIncomplete(h) \/ ApplyComplete(h)
           \/ SyncStart(h) \/ StartSandbox(h)
  <2>1. step[h] # "down"
    BY <1>5, Zenon DEF RestoreNothing, ApplyRefused, ApplyPublish, ApplyIncomplete, ApplyComplete, SyncStart,
         StartSandbox, Serving, At
  <2>2. UNCHANGED <<file, state>>
    BY <1>5, Zenon DEF RestoreNothing, ApplyRefused, ApplyPublish, ApplyIncomplete, ApplyComplete, SyncStart,
         StartSandbox, receiverVars
  <2> QED
    BY <1>2, <2>1, <2>2, Zenon
<1>6. CASE Promote(h)
  <2>1. PICK outcome \in SaveOutcomes :
          /\ file' = [file EXCEPT ![h] = FileAfter(outcome, @, Promoted(state[h]))]
          /\ IF outcome = "ok" THEN state' = [state EXCEPT ![h] = Promoted(@)] ELSE UNCHANGED state
    BY <1>6, Zenon DEF Promote
  <2>2. step[h] = "promote" /\ step[h] # "down"
    BY <1>6, Zenon DEF Promote, At
  <2>3. CASE outcome = "ok"
    <3>1. file'[h] = Promoted(state[h]) /\ state'[h] = Promoted(state[h])
      BY <1>0, <1>1, <2>1, <2>3, Zenon DEF ReceiverTypeOK
    <3> QED
      BY <2>2, <3>1, Zenon DEF HostAligned
  <2>4. CASE outcome # "ok"
    <3>1. file'[h] = file[h] /\ state'[h] = state[h]
      BY <1>0, <1>1, <2>1, <2>4, Zenon DEF ReceiverTypeOK
    <3> QED
      BY <2>2, <3>1, Zenon DEF HostAligned
  <2> QED
    BY <2>3, <2>4, Zenon
<1>7. CASE Ask(h) \/ NoNews(h) \/ ReceiveInvalid(h)
  BY <1>2, <1>7, Zenon DEF Ask, NoNews, ReceiveInvalid, Reject, At
<1>8. ASSUME NEW r, ReceiveRefused(h, r) PROVE HostAligned(h)' /\ file'[h] = file[h]
  BY <1>2, <1>8, Zenon DEF ReceiveRefused, Reject, At
<1>9. ASSUME NEW r, ReceiveHeld(h, r) \/ Stage(h, r)
      PROVE  HostAligned(h)' /\ file'[h].gen = file[h].gen /\ file'[h].body = file[h].body
  <2>0. step[h] # "down" /\ state[h] = file[h]
    BY <1>9, Zenon DEF ReceiveHeld, Stage, At, HostAligned
  <2>1. ASSUME NEW next, NEW outcome \in SaveOutcomes, next.gen = state[h].gen, next.body = state[h].body,
               file' = [file EXCEPT ![h] = FileAfter(outcome, @, next)],
               state' = [state EXCEPT ![h] = IF outcome = "ok" THEN next ELSE @]
        PROVE  HostAligned(h)' /\ file'[h].gen = file[h].gen /\ file'[h].body = file[h].body
    <3>1. file'[h] \in {file[h], next} /\ state'[h] = file'[h]
      <4>1. CASE outcome = "ok"
        BY <1>0, <1>1, <2>1, <4>1, Zenon DEF ReceiverTypeOK
      <4>2. CASE outcome # "ok"
        <5>1. FileAfter(outcome, file[h], next) = file[h]
          BY <1>1, <4>2, Zenon
        <5>2. file'[h] = file[h] /\ state'[h] = state[h]
          BY <1>0, <2>1, <4>2, <5>1, Zenon DEF ReceiverTypeOK
        <5> QED
          BY <2>0, <5>2, Zenon
      <4> QED
        BY <4>1, <4>2, Zenon
    <3> QED
      BY <2>0, <2>1, <3>1, Zenon DEF HostAligned
  <2>2. CASE ReceiveHeld(h, r)
    <3> DEFINE next == [state[h] EXCEPT !.etag = r.etag]
    <3>1. next.gen = state[h].gen /\ next.body = state[h].body
      BY <1>0, Zenon DEF Cursor
    <3>2. \/ UNCHANGED <<file, state>>
          \/ \E outcome \in SaveOutcomes :
               /\ file' = [file EXCEPT ![h] = FileAfter(outcome, @, next)]
               /\ state' = [state EXCEPT ![h] = IF outcome = "ok" THEN next ELSE @]
      BY <2>2, Zenon DEF ReceiveHeld
    <3> HIDE DEF next
    <3> QED
      BY <1>2, <2>0, <2>1, <3>1, <3>2, Zenon
  <2>3. CASE Stage(h, r)
    <3> DEFINE next == Staged(state[h], r)
    <3>1. next.gen = state[h].gen /\ next.body = state[h].body
      BY <1>0, Zenon DEF Cursor, Staged
    <3>2. PICK outcome \in SaveOutcomes :
            /\ file' = [file EXCEPT ![h] = FileAfter(outcome, @, next)]
            /\ IF outcome = "ok" THEN state' = [state EXCEPT ![h] = next] ELSE UNCHANGED state
      BY <2>3, Zenon DEF Stage
    <3>3. state' = [state EXCEPT ![h] = IF outcome = "ok" THEN next ELSE @]
      BY <1>0, <3>2, Zenon DEF ReceiverTypeOK
    <3> HIDE DEF next
    <3> QED
      BY <2>1, <3>1, <3>2, <3>3, Zenon
  <2> QED
    BY <1>9, <2>2, <2>3, Zenon
<1> QED
  BY <1>3, <1>4, <1>5, <1>6, <1>7, <1>8, <1>9, Zenon DEF HostStep, Exchange, Receive

(* What a host has applied, as the abstract rollout sees it.               *)
AppliedBy(f) == [h \in Hosts |-> [gen |-> f[h].gen, body |-> f[h].body]]

(* The hosts stay aligned, and a step of theirs applies at most one        *)
(* generation, the pending one of a host.                                  *)
LEMMA HostsAligned ==
    ASSUME "committed" \notin SaveFaults, FeedInv, Aligned, [ReceiverNext]_hostVars
    PROVE  /\ \A g \in Hosts : HostAligned(g)'
           /\ \/ AppliedBy(file') = AppliedBy(file)
              \/ \E h \in Hosts :
                   /\ step[h] = "promote"
                   /\ AppliedBy(file') = [AppliedBy(file) EXCEPT ![h] =
                                            [gen |-> state[h].pgen, body |-> state[h].pbody]]
<1>0. Anchored /\ ReceiverTypeOK /\ \A g \in Hosts : HostAligned(g)
  BY Zenon DEF FeedInv, Anchored, Aligned
<1>1. CASE UNCHANGED hostVars
  BY <1>0, <1>1, Zenon DEF hostVars, receiverVars, HostAligned, AppliedBy
<1>2. ASSUME NEW h \in Hosts, HostStep(h) \/ Exchange(h)
      PROVE  /\ \A g \in Hosts : HostAligned(g)'
             /\ \/ AppliedBy(file') = AppliedBy(file)
                \/ /\ step[h] = "promote"
                   /\ AppliedBy(file') = [AppliedBy(file) EXCEPT ![h] =
                                            [gen |-> state[h].pgen, body |-> state[h].pbody]]
  <2>1. ASSUME NEW g \in Hosts, g # h PROVE file'[g] = file[g] /\ HostAligned(g)'
    BY <1>0, <1>2, <2>1, OthersUntouched, Zenon DEF Untouched, HostAligned
  <2>2. HostAligned(h)'
    BY <1>0, <1>2, CursorStep, Zenon
  <2>3. CASE file'[h].gen = file[h].gen /\ file'[h].body = file[h].body
    <3>1. \A g \in Hosts : file'[g].gen = file[g].gen /\ file'[g].body = file[g].body
      BY <2>1, <2>3, Zenon
    <3>2. AppliedBy(file') = AppliedBy(file)
      BY <3>1, Zenon DEF AppliedBy
    <3> QED
      BY <2>1, <2>2, <3>2, Zenon
  <2>4. CASE step[h] = "promote" /\ file'[h] = Promoted(state[h])
    <3>1. file'[h].gen = state[h].pgen /\ file'[h].body = state[h].pbody
      BY <2>4, Zenon DEF Promoted, Blank
    <3>2. AppliedBy(file') = [AppliedBy(file) EXCEPT ![h] = [gen |-> state[h].pgen, body |-> state[h].pbody]]
      BY <2>1, <3>1, Zenon DEF AppliedBy
    <3> QED
      BY <2>1, <2>2, <2>4, <3>2, Zenon
  <2> QED
    BY <1>0, <1>2, <2>3, <2>4, CursorStep, Zenon
<1>3. CASE \E b \in Expiring : Expire(b)
  BY <1>3, Zenon DEF FeedInv, Wired, FeedWithin
<1> QED
  BY <1>1, <1>2, <1>3, Zenon DEF ReceiverNext

(* The file and memory of the service stay aligned, and a step of it adds  *)
(* at most one generation.                                                 *)
LEMMA ServiceAligned ==
    ASSUME "committed" \notin SaveFaults, FeedInv, Aligned, [ServiceNext]_serviceVars
    PROVE  /\ disk'.gens = mem'.gens
           /\ disk'.gens = disk.gens \/ \E b \in Bundles : disk'.gens = Append(disk.gens, b)
<1>0. Typed /\ disk.gens = mem.gens
  BY Zenon DEF FeedInv, Aligned
<1>1. CASE UNCHANGED serviceVars
  BY <1>0, <1>1, Zenon DEF serviceVars
<1>2. CASE ServiceNext
  <2>1. CASE UNCHANGED <<mem, disk>> \/ (mem' = disk /\ disk' = disk)
    BY <1>0, <2>1, Zenon
  <2>2. ASSUME NEW next, Wanted(next), Saves(next), next.gens = mem.gens \/ Undone(next)
        PROVE  /\ disk'.gens = mem'.gens
               /\ disk'.gens = disk.gens \/ \E b \in Bundles : disk'.gens = Append(disk.gens, b)
    <3>1. CASE next.gens = mem.gens
      BY <1>0, <2>2, <3>1, Zenon DEF Saves
    <3>2. CASE Undone(next)
      BY <1>0, <2>2, <3>2, Zenon DEF Undone, Wanted
    <3> QED
      BY <2>2, <3>1, <3>2, Zenon
  <2> QED
    BY <1>0, <1>2, <2>1, <2>2, StepStores, Zenon DEF Stores
<1> QED
  BY <1>1, <1>2, Zenon

(* A pending generation is a published one, newer than the applied.        *)
LEMMA PendingPublished ==
    ASSUME FeedInv, Aligned, NEW h \in Hosts, step[h] = "promote"
    PROVE  /\ state[h].pgen \in 1..Len(disk.gens) /\ state[h].pbody = disk.gens[state[h].pgen]
           /\ state[h].pgen > file[h].gen
<1> DEFINE p == [gen |-> state[h].pgen, body |-> state[h].pbody]
<1>1. state[h].pgen # 0 /\ ValidCursor(state[h]) /\ state[h] \in Cursor
  BY Zenon DEF FeedInv, Anchored, HostAnchored, AnchoredAt, ReceiverTypeOK
<1>2. state[h] = file[h]
  BY Zenon DEF Aligned, HostAligned
<1>3. p \in sent[h]
  <2>1. p \in sent[h] \cup {Unmanaged}
    BY Zenon DEF FeedInv, Wired, Exchanged, Fetched
  <2>2. p.gen = state[h].pgen /\ Unmanaged.gen = 0
    BY Zenon DEF Unmanaged
  <2> QED
    BY <1>1, <2>1, <2>2, Zenon
<1>4. p.gen \in 1..Latest /\ p.body = mem.gens[p.gen]
  BY <1>3, SentKnown, Zenon DEF FeedInv
<1>5. state[h].pgen \in 1..Latest /\ state[h].pbody = mem.gens[state[h].pgen]
  BY <1>4, Zenon
<1>6. state[h].pgen > state[h].gen
  BY <1>1, Zenon DEF ValidCursor, Cursor
<1> QED
  BY <1>2, <1>5, <1>6, Zenon DEF Aligned, Latest

(* Unless a save takes effect and reports an error all the same, the feed  *)
(* implements the abstract rollout: generations are only added, and hosts  *)
(* only move to newer published ones.                                      *)
THEOREM FeedImplementsRollout ==
    ASSUME FeedWithin, "committed" \notin SaveFaults PROVE Spec => ImplementsRollout
<1> DEFINE Inv == FeedInv /\ Aligned
<1>1. Init => Inv /\ Rollout!Init
  <2> SUFFICES ASSUME Init PROVE Inv /\ Rollout!Init
    BY Zenon
  <2>1. Aligned
    BY Zenon DEF Init, ReceiverInit, ServiceInit, Aligned, HostAligned
  <2>2. Rollout!Init
    <3>1. disk.gens = <<>>
      BY Zenon DEF Init, ServiceInit
    <3>2. ASSUME NEW h \in Hosts PROVE [gen |-> file[h].gen, body |-> file[h].body] = Unmanaged
      BY Zenon DEF Init, ReceiverInit, Blank, Unmanaged
    <3> QED
      BY <3>1, <3>2, Zenon DEF Rollout!Init, Unmanaged, Rollout!Unmanaged
  <2> QED
    BY <2>1, <2>2, FeedInit, Zenon
<1>2. Inv /\ [Next]_vars => Inv' /\ [Rollout!Next]_<<disk.gens, AppliedBy(file)>>
  <2> SUFFICES ASSUME Inv, [Next]_vars PROVE Inv' /\ [Rollout!Next]_<<disk.gens, AppliedBy(file)>>
    BY Zenon
  <2>1. [ReceiverNext]_hostVars /\ [ServiceNext]_serviceVars /\ FeedInv'
    <3>1. CASE UNCHANGED vars
      BY <3>1, FeedStepKeeps, Zenon DEF vars
    <3> QED
      BY <3>1, HostsStep, ServiceSteps, FeedStepKeeps, Zenon
  <2>2. Aligned'
    BY <2>1, HostsAligned, ServiceAligned, Zenon DEF Aligned
  <2>3. UNCHANGED hostVars \/ UNCHANGED serviceVars
    BY Zenon DEF vars, Next, HostSide, HostWork, SendPoll, TakeAnswer, Answered, HostStarts, GiveUp,
         HostCrash, FanoutFails, FeedSide, Arrive, ArriveUnknown, SendAnswer, ServeNothing, NoticeGone,
         Administer, ServiceRestart
  <2>4. CASE UNCHANGED hostVars
    <3>1. AppliedBy(file)' = AppliedBy(file)
      BY <2>4, Zenon DEF hostVars, receiverVars, AppliedBy
    <3> QED
      BY <2>1, <2>2, <3>1, ServiceAligned, Zenon DEF Rollout!Next, Rollout!Publish, AppliedBy
  <2>5. CASE UNCHANGED serviceVars
    <3>1. disk'.gens = disk.gens
      BY <2>5, Zenon DEF serviceVars
    <3>2. CASE AppliedBy(file') = AppliedBy(file)
      BY <2>1, <2>2, <3>1, <3>2, Zenon DEF AppliedBy
    <3>3. ASSUME NEW h \in Hosts, step[h] = "promote",
                 AppliedBy(file') = [AppliedBy(file) EXCEPT ![h] = [gen |-> state[h].pgen, body |-> state[h].pbody]]
          PROVE  Rollout!Next
      <4>1. /\ state[h].pgen \in 1..Len(disk.gens) /\ state[h].pbody = disk.gens[state[h].pgen]
            /\ state[h].pgen > file[h].gen
        BY <3>3, PendingPublished, Zenon
      <4>2. PICK n \in 1..Len(disk.gens) : n = state[h].pgen
        BY <4>1, Zenon
      <4>3. Rollout!Apply(h, n)
        BY <3>1, <3>3, <4>1, <4>2, Zenon DEF Rollout!Apply, AppliedBy
      <4> QED
        BY <4>3, Zenon DEF Rollout!Next
    <3> QED
      BY <2>1, <2>2, <3>2, <3>3, HostsAligned, Zenon
  <2> QED
    BY <2>3, <2>4, <2>5, Zenon
<1> QED
  BY <1>1, <1>2, PTL DEF Spec, ImplementsRollout, Rollout!Spec, AppliedBy
==============================================================================
