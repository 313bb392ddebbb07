-------------------------- MODULE PolicyFanoutProofs --------------------------
(***************************************************************************)
(* What a fan-out promises for any number of sandboxes, snapshots, calls,  *)
(* slots and shards, however many calls are under way and whenever the     *)
(* manager dies.  Every step on a sandbox is taken under its shard lock    *)
(* and touches no other (Touches), so what such a step has to leave behind *)
(* is said once, of one sandbox and of the position of its worker.         *)
(***************************************************************************)
EXTENDS PolicyFanout, TLAPS

(* The steps of a controlled restart after its marker.                     *)
Restarting == {"stop", "save", "recover", "resume"}

(* The fan-out has still to visit s, or has it in hand.                    *)
Pending(s) == FanningOut /\ (s \in todo \/ (at[Feed] \in Exclusive /\ job[Feed].sandbox = s))

(* The parts of the state are functions on the sandboxes or the workers.   *)
Shaped ==
    /\ saved = [s \in Sandboxes |-> saved[s]] /\ live = [s \in Sandboxes |-> live[s]]
    /\ marker = [s \in Sandboxes |-> marker[s]]
    /\ at = [w \in Workers |-> at[w]] /\ job = [w \in Workers |-> job[w]]

(* Where a call and the feed can be, and with which job.                   *)
Called(c) ==
    /\ at[c] \in (Exclusive \ {"failclose"}) \cup {"idle", "barrier", "shard"}
    /\ at[c] # "idle" => job[c].sandbox \in Sandboxes /\ job[c].want \in Policies

Fed ==
    /\ at[Feed] \in (Exclusive \ {"stop"}) \cup {"idle", "barrier", "loop"}
    /\ at[Feed] = "barrier" => staged \in Snapshots
    /\ FanningOut => active \in Snapshots
    /\ at[Feed] \in Exclusive =>
         job[Feed].sandbox \in Sandboxes /\ job[Feed].want = active /\ job[Feed].restart = FALSE

(* The barrier keeps calls out of a fan-out, and the shard locks keep two  *)
(* calls off one sandbox.                                                  *)
Excluded ==
    /\ FanningOut => \A c \in Calls : ~ HoldsBarrier(c)
    /\ \A v, w \in Workers :
         v # w /\ at[v] \in Exclusive /\ at[w] \in Exclusive => job[v].sandbox # job[w].sandbox

(* A restart under way is recorded, and nobody boots its sandbox meanwhile.*)
InHand(w) ==
    at[w] \in Restarting =>
        /\ marker[job[w].sandbox] /\ Exists(job[w].sandbox)
        /\ at[w] # "stop" => ~ Running(job[w].sandbox)
        /\ at[w] = "resume" => saved[job[w].sandbox] = job[w].want
        /\ active # Unmanaged => job[w].want = active

(* A sandbox runs under the snapshot of its file, and one that was stopped *)
(* only to be resumed is stopped and marked.                               *)
Sound(s) ==
    /\ saved[s] \in Policies \cup {Absent} /\ live[s] \in {saved[s], Absent} /\ marker[s] \in BOOLEAN
    /\ s \in owed => marker[s] /\ ~ Running(s)

(* The fan-out has done with s what it has to, or said that it could not.  *)
Fine(s) ==
    /\ active # Unmanaged => live[s] \in {active, Absent} \/ s \in stuck
    /\ applied \/ (FanningOut /\ ~ incomplete) => saved[s] \in {active, Absent}

Inv ==
    /\ Shaped
    /\ active \in Policies /\ applied \in BOOLEAN /\ incomplete \in BOOLEAN
    /\ applied => active # Unmanaged /\ ~ FanningOut
    /\ todo \subseteq Sandboxes /\ owed \subseteq Sandboxes
    /\ \A c \in Calls : Called(c)
    /\ Fed
    /\ Excluded
    /\ \A w \in Workers : InHand(w)
    /\ \A s \in Sandboxes : Sound(s) /\ (Fine(s) \/ Pending(s))

-----------------------------------------------------------------------------

(* The workers are the calls and the feed.                                 *)
LEMMA Working ==
    /\ Feed \in Workers /\ Calls \subseteq Workers /\ \A c \in Calls : c # Feed
    /\ \A w \in Workers : w = Feed \/ w \in Calls
  BY FanoutConstants, Zenon DEF Workers

(* A request names a sandbox and a policy.                                 *)
LEMMA RequestKinds == \A j \in Requests : j.sandbox \in Sandboxes /\ j.want \in Policies
  BY Zenon DEF Requests, Plain, Policies

(* What a worker that holds a shard lock knows of its sandbox: a call that *)
(* no fan-out is under way, the feed that it brings the active snapshot.   *)
LEMMA HandFacts ==
    ASSUME Inv, NEW w \in Workers, at[w] \in Exclusive
    PROVE  /\ job[w].sandbox \in Sandboxes /\ job[w].want \in Policies
           /\ w # Feed => ~ FanningOut /\ Fine(job[w].sandbox)
           /\ w = Feed => FanningOut /\ active \in Snapshots /\ job[w].want = active /\ job[w].restart = FALSE
           /\ Sound(job[w].sandbox) /\ InHand(w)
           /\ Absent \notin Policies /\ Unmanaged \notin Snapshots
<1>1. Absent \notin Policies /\ Unmanaged \notin Snapshots
  BY FanoutConstants, Zenon DEF Policies
<1>2. CASE w = Feed
  BY <1>1, <1>2, Zenon DEF Inv, Fed, FanningOut, Policies
<1>3. CASE w \in Calls
  <2>1. job[w].sandbox \in Sandboxes /\ job[w].want \in Policies
    BY <1>3, Zenon DEF Inv, Called, Exclusive
  <2>2. ~ FanningOut
    BY <1>3, Zenon DEF Inv, Excluded, HoldsBarrier
  <2> QED
    BY <1>1, <1>3, <2>1, <2>2, Working, Zenon DEF Inv, Pending
<1> QED
  BY <1>2, <1>3, Working, Zenon

-----------------------------------------------------------------------------
(* A step on one sandbox.                                                  *)

(* Nothing changes for the sandboxes other than s.                         *)
Elsewhere(s) ==
    /\ owed' \subseteq owed \cup {s} /\ stuck \ {s} \subseteq stuck'
    /\ \A t \in Sandboxes \ {s} : saved'[t] = saved[t] /\ live'[t] = live[t] /\ marker'[t] = marker[t]

(* The worker goes on with its job, or has done with it.                   *)
Moves(w) ==
    /\ \A v \in Workers \ {w} : at'[v] = at[v] /\ job'[v] = job[v]
    /\ \/ at'[w] = IF w = Feed THEN "loop" ELSE "idle"
       \/ /\ at'[w] \in Exclusive \ {IF w = Feed THEN "stop" ELSE "failclose"}
          /\ job'[w] = job[w]

(* The step leaves the sandbox as the invariant wants it, or still in the  *)
(* hands of the fan-out.                                                   *)
Touches(w, s) ==
    /\ at[w] \in Exclusive /\ s = job[w].sandbox
    /\ Shaped'
    /\ Elsewhere(s)
    /\ Moves(w)
    /\ InHand(w)'
    /\ Sound(s)'
    /\ Fine(s)' \/ (w = Feed /\ at'[w] \in Exclusive)
    /\ UNCHANGED <<active, staged, applied, todo>>
    /\ incomplete' \in {incomplete, TRUE}

(* Such a step keeps the invariant.                                        *)
LEMMA TouchesKeeps == ASSUME Inv, NEW w \in Workers, NEW s, Touches(w, s) PROVE Inv'
<1>1. s \in Sandboxes
  BY HandFacts, Zenon DEF Touches
<1>2. FanningOut' = FanningOut
  BY Working DEF Touches, Moves, FanningOut
<1>3. ASSUME NEW c \in Calls PROVE Called(c)'
  <2>1. c # Feed /\ c \in Workers /\ Called(c)
    BY Working, Zenon DEF Inv
  <2>2. CASE c = w
    BY <2>1, <2>2, Zenon DEF Called, Touches, Moves, Exclusive
  <2>3. CASE c # w
    BY <2>1, <2>3, Zenon DEF Called, Touches, Moves
  <2> QED
    BY <2>2, <2>3, Zenon
<1>4. Fed'
  <2>1. Fed /\ UNCHANGED <<staged, active>>
    BY Zenon DEF Inv, Touches
  <2>2. CASE w = Feed
    <3>1. FanningOut /\ at[Feed] \in Exclusive
      BY <2>2, HandFacts, Zenon DEF Touches
    <3>2. at'[Feed] = "loop" \/ (at'[Feed] \in Exclusive \ {"stop"} /\ job'[Feed] = job[Feed])
      BY <2>2, Zenon DEF Touches, Moves
    <3> QED
      BY <1>2, <2>1, <3>1, <3>2, Zenon DEF Fed, Exclusive
  <2>3. CASE w # Feed
    <3>1. at'[Feed] = at[Feed] /\ job'[Feed] = job[Feed]
      BY <2>3, Working, Zenon DEF Touches, Moves
    <3> QED
      BY <1>2, <2>1, <3>1, Zenon DEF Fed
  <2> QED
    BY <2>2, <2>3, Zenon
<1>5. Excluded'
  <2>1. FanningOut' => \A c \in Calls : ~ HoldsBarrier(c)'
    BY <1>2, Working, Zenon DEF Inv, Excluded, HoldsBarrier, Touches, Moves
  <2>2. \A v \in Workers : at'[v] \in Exclusive => at[v] \in Exclusive /\ job'[v] = job[v]
    BY Zenon DEF Touches, Moves, Exclusive
  <2> QED
    BY <2>1, <2>2, Zenon DEF Inv, Excluded
<1>6. ASSUME NEW v \in Workers PROVE InHand(v)'
  <2>1. CASE v = w
    BY <2>1, Zenon DEF Touches
  <2>2. CASE v # w /\ at[v] \in Restarting
    <3>1. job[v].sandbox \in Sandboxes /\ job[v].sandbox # s
      <4>1. at[v] \in Exclusive
        BY <2>2, Zenon DEF Restarting, Exclusive
      <4> QED
        BY <2>2, <4>1, HandFacts, Zenon DEF Inv, Excluded, Touches
    <3>2. InHand(v)
      BY Zenon DEF Inv
    <3> QED
      BY <2>2, <3>1, <3>2 DEF InHand, Touches, Moves, Elsewhere, Exists, Running
  <2>3. CASE v # w /\ at[v] \notin Restarting
    BY <2>3, Zenon DEF InHand, Touches, Moves
  <2> QED
    BY <2>1, <2>2, <2>3, Zenon
<1>7. ASSUME NEW t \in Sandboxes PROVE Sound(t)' /\ (Fine(t)' \/ Pending(t)')
  <2>1. CASE t = s
    <3>1. w = Feed /\ at'[w] \in Exclusive => Pending(t)'
      <4>1. SUFFICES ASSUME w = Feed, at'[Feed] \in Exclusive PROVE Pending(t)'
        BY Zenon
      <4>2. at'[Feed] # "loop"
        BY <4>1, Zenon DEF Exclusive
      <4>3. job'[Feed] = job[Feed]
        BY <4>1, <4>2, Zenon DEF Touches, Moves
      <4>4. FanningOut'
        BY <4>1, Zenon DEF FanningOut
      <4> QED
        BY <2>1, <4>1, <4>3, <4>4, Zenon DEF Pending, Touches
    <3> QED
      BY <2>1, <3>1, Zenon DEF Touches
  <2>2. CASE t # s
    <3>1. Sound(t)'
      BY <2>2, Zenon DEF Inv, Sound, Running, Touches, Elsewhere
    <3>2. Fine(t) => Fine(t)'
      BY <2>2, <1>2, Zenon DEF Fine, Inv, Touches, Elsewhere
    <3>3. Pending(t) => Pending(t)'
      BY <2>2, <1>2, Working, Zenon DEF Pending, Touches, Moves
    <3> QED
      BY <3>1, <3>2, <3>3, Zenon DEF Inv
  <2> QED
    BY <2>1, <2>2, Zenon
<1>8. /\ Shaped' /\ active' \in Policies /\ applied' \in BOOLEAN /\ incomplete' \in BOOLEAN
      /\ (applied' => active' # Unmanaged /\ ~ FanningOut') /\ todo' \subseteq Sandboxes
  BY <1>2, Zenon DEF Inv, Touches
<1>9. owed' \subseteq Sandboxes
  BY <1>1, Zenon DEF Inv, Touches, Elsewhere
<1> QED
  BY <1>3, <1>4, <1>5, <1>6, <1>7, <1>8, <1>9, Zenon DEF Inv

(* Where a step leaves its worker.                                         *)
Left(w) ==
    /\ Moves(w) /\ FanningOut' = FanningOut
    /\ at' = [v \in Workers |-> at'[v]] /\ job' = [v \in Workers |-> job'[v]]

(* A worker that has done with its sandbox, or failed, has left it: a call *)
(* ends, and the feed goes back to its loop or on to stop the sandbox.     *)
LEMMA Ends ==
    ASSUME Inv, NEW w \in Workers, at[w] \in Exclusive
    PROVE  /\ Succeeded(w) => Left(w) /\ at'[w] \notin Restarting
           /\ Errored(w) => Left(w) /\ at'[w] \notin Restarting /\ (w = Feed => at'[w] \in Exclusive)
           /\ w = Feed /\ Done(w, "loop") => Left(w) /\ at'[w] \notin Restarting
           /\ w # Feed /\ Release(w) => Left(w) /\ at'[w] \notin Restarting
<1>1. at = [v \in Workers |-> at[v]] /\ job = [v \in Workers |-> job[v]]
  BY Zenon DEF Inv, Shaped
<1>2. CASE w = Feed
  <2>1. ASSUME Done(w, "loop") PROVE Left(w) /\ at'[w] \notin Restarting
    <3>1. /\ at' = [v \in Workers |-> at'[v]] /\ at'[w] = "loop"
          /\ \A v \in Workers \ {w} : at'[v] = at[v]
      BY <1>1, <2>1, Zenon DEF Done, GoTo
    <3>2. /\ job' = [v \in Workers |-> job'[v]]
          /\ \A v \in Workers \ {w} : job'[v] = job[v]
      BY <1>1, <2>1, Zenon DEF Done
    <3>3. FanningOut' /\ FanningOut /\ at'[w] \notin Restarting
      BY <1>2, <3>1, Zenon DEF FanningOut, Restarting
    <3> QED
      BY <1>2, <3>1, <3>2, <3>3, Zenon DEF Left, Moves
  <2>2. Errored(w) => Left(w) /\ at'[w] \notin Restarting /\ at'[w] \in Exclusive
    BY <1>1, <1>2 DEF Errored, GoTo, Left, Moves, FanningOut, Restarting, Exclusive
  <2> QED
    BY <1>2, <2>1, <2>2, Zenon DEF Succeeded
<1>3. CASE w # Feed
  <2>1. ASSUME Release(w) PROVE Left(w) /\ at'[w] \notin Restarting
    <3>1. /\ at' = [v \in Workers |-> at'[v]] /\ at'[w] = "idle"
          /\ \A v \in Workers \ {w} : at'[v] = at[v]
      BY <1>1, <2>1, Zenon DEF Release, Done, GoTo
    <3>2. /\ job' = [v \in Workers |-> job'[v]]
          /\ \A v \in Workers \ {w} : job'[v] = job[v]
      BY <1>1, <2>1, Zenon DEF Release, Done
    <3>3. at'[Feed] = at[Feed] /\ at'[w] \notin Restarting
      BY <1>3, <3>1, Working, Zenon DEF Restarting
    <3> QED
      BY <1>3, <3>1, <3>2, <3>3, Zenon DEF Left, Moves, FanningOut
  <2> QED
    BY <1>3, <2>1, Zenon DEF Succeeded, Errored
<1> QED
  BY <1>2, <1>3, Zenon

(* One that goes on with a restart keeps it.                               *)
LEMMA Goes ==
    ASSUME Inv, NEW w \in Workers, at[w] \in Exclusive, NEW step \in Restarting, w = Feed => step # "stop",
           GoTo(w, step), UNCHANGED job
    PROVE  Left(w) /\ at'[w] = step /\ job'[w] = job[w]
<1>1. at = [v \in Workers |-> at[v]] /\ job = [v \in Workers |-> job[v]]
  BY Zenon DEF Inv, Shaped
<1>2. step \in Exclusive \ {"failclose"}
  BY Zenon DEF Restarting, Exclusive
<1> QED
  BY <1>1, <1>2, Working DEF GoTo, Left, Moves, FanningOut

(* What an update of a function at one sandbox leaves.                     *)
LEMMA OneChanges ==
    ASSUME NEW f, NEW g, NEW s \in Sandboxes, f = [t \in Sandboxes |-> f[t]]
    PROVE  /\ \A x : g = [f EXCEPT ![s] = x] => g = [f EXCEPT ![s] = g[s]] /\ g[s] = x
           /\ g = f => g = [f EXCEPT ![s] = g[s]] /\ g[s] = f[s]
  BY Zenon

(* Only sandbox s changes.                                                 *)
Local(s) ==
    /\ saved' = [saved EXCEPT ![s] = saved'[s]] /\ live' = [live EXCEPT ![s] = live'[s]]
    /\ marker' = [marker EXCEPT ![s] = marker'[s]]
    /\ owed' \subseteq owed \cup {s} /\ stuck \ {s} \subseteq stuck'

(* What makes a step one that touches a single sandbox.                    *)
LEMMA TouchesWhen ==
    ASSUME Inv, NEW w \in Workers, at[w] \in Exclusive, NEW s, s = job[w].sandbox,
           Local(s), Left(w), InHand(w)', Sound(s)', Fine(s)' \/ (w = Feed /\ at'[w] \in Exclusive),
           UNCHANGED <<active, staged, applied, todo>>, incomplete' \in {incomplete, TRUE}
    PROVE  Touches(w, s)
<1>1. s \in Sandboxes
  BY HandFacts, Zenon
<1>2. Elsewhere(s) /\ saved' = [t \in Sandboxes |-> saved'[t]] /\ live' = [t \in Sandboxes |-> live'[t]]
      /\ marker' = [t \in Sandboxes |-> marker'[t]]
  BY <1>1, Zenon DEF Inv, Shaped, Local, Elsewhere
<1>3. Shaped'
  BY <1>2, Zenon DEF Shaped, Left
<1> QED
  BY <1>2, <1>3, Zenon DEF Touches, Left

(* What a step that ends a call on s may leave behind: a policy of the     *)
(* file's, the active one if the fan-out has been acknowledged, and a      *)
(* sandbox that is stopped, under the active snapshot, or known as stuck.  *)
Settles(s) ==
    /\ Local(s)
    /\ saved'[s] \in Policies \cup {Absent} /\ live'[s] \in {saved'[s], Absent} /\ marker'[s] \in BOOLEAN
    /\ s \in owed' => marker'[s] /\ live'[s] = Absent
    /\ active # Unmanaged => live'[s] \in {active, Absent} \/ s \in stuck'
    /\ applied => saved'[s] \in {active, Absent}

(* A call that leaves this behind touches only its sandbox.                *)
LEMMA Settled ==
    ASSUME Inv, NEW w \in Workers, at[w] \in Exclusive, w # Feed, NEW s, s = job[w].sandbox,
           Settles(s), Left(w), InHand(w)', UNCHANGED <<active, staged, applied, todo, incomplete>>
    PROVE  Touches(w, s)
<1>1. ~ FanningOut
  BY HandFacts, Zenon
<1>2. Sound(s)'
  BY Zenon DEF Sound, Running, Settles
<1>3. Fine(s)'
  BY <1>1, Zenon DEF Fine, Left, Settles
<1>4. Local(s)
  BY Zenon DEF Settles
<1> QED
  BY <1>2, <1>3, <1>4, TouchesWhen, Zenon

-----------------------------------------------------------------------------
(* The lifecycle calls.                                                    *)

(* A create or a start boots a sandbox under the active snapshot, if there *)
(* is one; a stop and a delete leave it stopped.                           *)
LEMMA LifecycleTouches ==
    ASSUME Inv, NEW c \in Calls, Create(c) \/ Start(c) \/ Stop(c) \/ Delete(c),
           NEW s, s = job[c].sandbox
    PROVE  Touches(c, s)
<1>1. c \in Workers /\ c # Feed /\ at[c] \in Exclusive /\ Release(c) /\ UNCHANGED feedVars
  BY Working, Zenon DEF Create, Start, Stop, Delete, Exclusive
<1>2. /\ s \in Sandboxes /\ job[c].want \in Policies /\ ~ FanningOut /\ Fine(s) /\ Sound(s)
      /\ Absent \notin Policies /\ active \in Policies
  BY <1>1, HandFacts, Zenon DEF Inv
<1>3. Left(c) /\ InHand(c)'
  BY <1>1, Ends, Zenon DEF InHand
<1>4. UNCHANGED <<active, staged, applied, todo, incomplete>>
  BY <1>1, Zenon DEF feedVars
<1>5. /\ saved = [t \in Sandboxes |-> saved[t]] /\ live = [t \in Sandboxes |-> live[t]]
      /\ marker = [t \in Sandboxes |-> marker[t]]
  BY Zenon DEF Inv, Shaped
<1>6. ASSUME Create(c) PROVE Settles(s)
  <2>1. PICK want \in Policies :
          /\ active # Unmanaged => want = active
          /\ saved' = [saved EXCEPT ![s] = want]
          /\ Boots(s, want) \/ UNCHANGED <<live, marker, ghostVars>>
    BY <1>2, <1>6, Zenon DEF Create
  <2>2. live[s] = Absent
    BY <1>6, Zenon DEF Create, Running
  <2>3. saved'[s] = want /\ saved' = [saved EXCEPT ![s] = saved'[s]] /\ (applied => want = active)
    BY <1>2, <1>5, <2>1, OneChanges, Zenon DEF Inv
  <2>4. CASE Boots(s, want)
    <3>1. /\ live'[s] = want /\ live' = [live EXCEPT ![s] = live'[s]]
          /\ marker'[s] = FALSE /\ marker' = [marker EXCEPT ![s] = marker'[s]]
      BY <1>2, <1>5, <2>4, OneChanges, Zenon DEF Boots
    <3>2. owed' = owed \ {s} /\ stuck' = stuck \ {s}
      BY <2>4, Zenon DEF Boots
    <3> QED
      BY <2>1, <2>3, <3>1, <3>2, Zenon DEF Settles, Local
  <2>5. CASE UNCHANGED <<live, marker, ghostVars>>
    <3>1. /\ live'[s] = Absent /\ live' = [live EXCEPT ![s] = live'[s]]
          /\ marker'[s] = marker[s] /\ marker' = [marker EXCEPT ![s] = marker'[s]]
      BY <1>2, <1>5, <2>2, <2>5, OneChanges, Zenon
    <3>2. owed' = owed /\ stuck' = stuck
      BY <2>5, Zenon DEF ghostVars
    <3> QED
      BY <1>2, <2>1, <2>2, <2>3, <3>1, <3>2, Zenon DEF Settles, Local, Sound
  <2> QED
    BY <2>1, <2>4, <2>5, Zenon
<1>7. ASSUME Start(c) PROVE Settles(s)
  <2>1. Boots(s, saved[s]) /\ saved' = saved /\ saved[s] # Absent /\ (active # Unmanaged => saved[s] = active)
    BY <1>7, Zenon DEF Start, Exists
  <2>2. /\ saved'[s] = saved[s] /\ saved' = [saved EXCEPT ![s] = saved'[s]]
        /\ live'[s] = saved[s] /\ live' = [live EXCEPT ![s] = live'[s]]
        /\ marker'[s] = FALSE /\ marker' = [marker EXCEPT ![s] = marker'[s]]
    BY <1>2, <1>5, <2>1, OneChanges, Zenon DEF Boots
  <2>3. owed' = owed \ {s} /\ stuck' = stuck \ {s}
    BY <2>1, Zenon DEF Boots
  <2>4. saved[s] \in Policies /\ (applied => active # Unmanaged)
    BY <1>2, <2>1, Zenon DEF Sound, Inv
  <2> QED
    BY <2>1, <2>2, <2>3, <2>4, Zenon DEF Settles, Local
<1>8. ASSUME Stop(c) PROVE Settles(s)
  <2>1. /\ live' = [live EXCEPT ![s] = Absent] /\ saved' = saved /\ marker' = marker
        /\ owed' = owed \ {s} /\ stuck' = stuck \ {s}
    BY <1>8, Zenon DEF Stop
  <2>2. /\ saved'[s] = saved[s] /\ saved' = [saved EXCEPT ![s] = saved'[s]]
        /\ live'[s] = Absent /\ live' = [live EXCEPT ![s] = live'[s]]
        /\ marker'[s] = marker[s] /\ marker' = [marker EXCEPT ![s] = marker'[s]]
    BY <1>2, <1>5, <2>1, OneChanges, Zenon
  <2> QED
    BY <1>2, <2>1, <2>2, Zenon DEF Settles, Local, Sound, Fine
<1>9. ASSUME Delete(c) PROVE Settles(s)
  <2>1. /\ live' = [live EXCEPT ![s] = Absent] /\ saved' \in {saved, [saved EXCEPT ![s] = Absent]}
        /\ marker' \in {marker, [marker EXCEPT ![s] = FALSE]}
        /\ owed' = owed \ {s} /\ stuck' = stuck \ {s}
    BY <1>9, Zenon DEF Delete
  <2>2. saved'[s] \in {saved[s], Absent} /\ saved' = [saved EXCEPT ![s] = saved'[s]]
    BY <1>2, <1>5, <2>1, OneChanges, Zenon
  <2>3. live'[s] = Absent /\ live' = [live EXCEPT ![s] = live'[s]]
    BY <1>2, <1>5, <2>1, OneChanges, Zenon
  <2>4. marker'[s] \in {marker[s], FALSE} /\ marker' = [marker EXCEPT ![s] = marker'[s]]
    BY <1>2, <1>5, <2>1, OneChanges, Zenon
  <2> QED
    BY <1>2, <2>1, <2>2, <2>3, <2>4, Zenon DEF Settles, Local, Sound, Fine
<1> QED
  BY <1>1, <1>3, <1>4, <1>6, <1>7, <1>8, <1>9, Settled, Zenon

-----------------------------------------------------------------------------
(* RolloutOrganizationPolicy.                                              *)

(* A rollout that has succeeded leaves the snapshot that was asked for.    *)
LEMMA RolledOut ==
    ASSUME Inv, NEW w \in Workers, at[w] \in Exclusive, NEW s, s = job[w].sandbox,
           Local(s), Sound(s)', active # Unmanaged => job[w].want = active, saved'[s] = job[w].want,
           Succeeded(w), UNCHANGED feedVars
    PROVE  Touches(w, s)
<1>1. Left(w) /\ InHand(w)'
  BY Ends, Zenon DEF InHand
<1>2. UNCHANGED <<active, staged, applied, todo, incomplete>>
  BY Zenon DEF feedVars
<1>3. applied \/ FanningOut => active # Unmanaged
  BY FanoutConstants, Zenon DEF Inv, Fed
<1>4. live'[s] \in {saved'[s], Absent}
  BY Zenon DEF Sound
<1>5. Fine(s)'
  BY <1>1, <1>2, <1>3, <1>4, Zenon DEF Fine, Left
<1> QED
  BY <1>1, <1>2, <1>5, TouchesWhen, Zenon

(* One that goes on, or fails, leaves the file as it was or as it was      *)
(* asked for; the feed still has the sandbox in hand.                      *)
LEMMA StillAt ==
    ASSUME Inv, NEW w \in Workers, at[w] \in Exclusive, NEW s, s = job[w].sandbox,
           Local(s), Sound(s)',
           saved'[s] = saved[s] \/ (saved'[s] = job[w].want /\ (active # Unmanaged => job[w].want = active)),
           w # Feed /\ active # Unmanaged => live'[s] \in {active, Absent} \/ s \in stuck',
           Left(w), InHand(w)', w = Feed => at'[w] \in Exclusive, UNCHANGED feedVars
    PROVE  Touches(w, s)
<1>1. UNCHANGED <<active, staged, applied, todo, incomplete>>
  BY Zenon DEF feedVars
<1>2. CASE w = Feed
  BY <1>1, <1>2, TouchesWhen, Zenon
<1>3. CASE w # Feed
  <2>1. ~ FanningOut /\ Fine(s) /\ (applied => active # Unmanaged)
    BY <1>3, HandFacts, Zenon DEF Inv
  <2>2. applied => saved'[s] \in {active, Absent}
    BY <2>1, Zenon DEF Fine
  <2>3. Fine(s)'
    BY <1>1, <1>3, <2>1, <2>2, Zenon DEF Fine, Left
  <2> QED
    BY <1>1, <2>3, TouchesWhen, Zenon
<1> QED
  BY <1>2, <1>3, Zenon

(* What holds when a rollout starts and between its steps.                 *)
LEMMA RolloutFacts ==
    ASSUME Inv, NEW w \in Workers, Rollout(w), NEW s, s = job[w].sandbox
    PROVE  /\ at[w] \in Exclusive /\ s \in Sandboxes /\ Sound(s) /\ job[w].want \in Policies
           /\ w # Feed => Fine(s)
           /\ saved = [t \in Sandboxes |-> saved[t]] /\ live = [t \in Sandboxes |-> live[t]]
           /\ marker = [t \in Sandboxes |-> marker[t]]
           /\ UNCHANGED feedVars
           /\ MayRollOut(w) \/ at[w] \in Restarting => (active # Unmanaged => job[w].want = active)
           /\ Absent \notin Policies
<1>1. at[w] \in Exclusive /\ UNCHANGED feedVars
  BY Zenon DEF Rollout, RolloutRefused, RolloutSame, RolloutLive, RolloutStopped, RolloutMark, RolloutInterrupted,
         RolloutStop, RolloutSave, RolloutResume, RolloutRecover, MayRollOut, Exclusive
<1>2. MayRollOut(w) \/ at[w] \in Restarting => (active # Unmanaged => job[w].want = active)
  BY <1>1, HandFacts, Zenon DEF MayRollOut, InHand
<1>3. /\ saved = [t \in Sandboxes |-> saved[t]] /\ live = [t \in Sandboxes |-> live[t]]
      /\ marker = [t \in Sandboxes |-> marker[t]]
  BY Zenon DEF Inv, Shaped
<1> QED
  BY <1>1, <1>2, <1>3, HandFacts, Zenon

(* A rollout that only moves its worker leaves the sandbox as it was.      *)
LEMMA AsItWas ==
    ASSUME Inv, NEW w \in Workers, Rollout(w), NEW s, s = job[w].sandbox, UNCHANGED <<sandboxVars, ghostVars>>
    PROVE  /\ Local(s) /\ Sound(s)' /\ saved'[s] = saved[s] /\ live'[s] = live[s] /\ marker'[s] = marker[s]
           /\ w # Feed /\ active # Unmanaged => live'[s] \in {active, Absent} \/ s \in stuck'
<1>1. UNCHANGED <<saved, live, marker, stuck, owed>>
  BY Zenon DEF sandboxVars, ghostVars
<1>2. /\ saved'[s] = saved[s] /\ saved' = [saved EXCEPT ![s] = saved'[s]]
      /\ live'[s] = live[s] /\ live' = [live EXCEPT ![s] = live'[s]]
      /\ marker'[s] = marker[s] /\ marker' = [marker EXCEPT ![s] = marker'[s]]
  BY <1>1, RolloutFacts, OneChanges, Zenon
<1>3. Local(s)
  BY <1>1, <1>2, Zenon DEF Local
<1>4. Sound(s)'
  BY <1>1, RolloutFacts, Zenon DEF Sound, Running
<1>5. w # Feed /\ active # Unmanaged => live'[s] \in {active, Absent} \/ s \in stuck'
  BY <1>1, RolloutFacts, Zenon DEF Fine
<1> QED
  BY <1>2, <1>3, <1>4, <1>5, Zenon

(* Every step of a rollout touches its sandbox only: those that decide     *)
(* what is to be done,                                                     *)
LEMMA DecisionsTouch ==
    ASSUME Inv, NEW w \in Workers, Rollout(w), NEW s, s = job[w].sandbox,
           RolloutRefused(w) \/ RolloutSame(w) \/ RolloutStopped(w) \/ RolloutMark(w) \/ RolloutInterrupted(w)
    PROVE  Touches(w, s)
<1>0. /\ at[w] \in Exclusive /\ s \in Sandboxes /\ Sound(s) /\ job[w].want \in Policies /\ (w # Feed => Fine(s))
      /\ saved = [t \in Sandboxes |-> saved[t]] /\ live = [t \in Sandboxes |-> live[t]]
      /\ marker = [t \in Sandboxes |-> marker[t]] /\ UNCHANGED feedVars /\ Absent \notin Policies
  BY RolloutFacts, Zenon
<1>1. CASE RolloutRefused(w)
  <2>1. Errored(w) /\ UNCHANGED <<sandboxVars, ghostVars>>
    BY <1>1, Zenon DEF RolloutRefused
  <2>2. Left(w) /\ InHand(w)' /\ (w = Feed => at'[w] \in Exclusive)
    BY <1>0, <2>1, Ends, Zenon DEF InHand
  <2> QED
    BY <1>0, <2>1, <2>2, AsItWas, StillAt, Zenon
<1>2. CASE RolloutSame(w)
  <2>1. /\ active # Unmanaged => job[w].want = active
        /\ saved[s] = job[w].want /\ saved' = saved /\ live' = live /\ UNCHANGED ghostVars
    BY <1>2, RolloutFacts, Zenon DEF RolloutSame, Same
  <2>2. CASE marker[s] /\ ~ Running(s)
    <3>1. GoTo(w, "resume") /\ job' = job /\ marker' = marker
      BY <1>2, <2>2, Zenon DEF RolloutSame
    <3>2. Left(w) /\ at'[w] = "resume" /\ job'[w] = job[w]
      BY <1>0, <3>1, Goes, Zenon DEF Restarting
    <3>3. UNCHANGED <<sandboxVars, ghostVars>>
      BY <2>1, <3>1, Zenon DEF sandboxVars
    <3>4. InHand(w)'
      BY <1>0, <2>1, <2>2, <3>1, <3>2, <1>2, Zenon DEF InHand, Exists, Running, feedVars
    <3>5. at'[w] \in Exclusive
      BY <3>2, Zenon DEF Exclusive
    <3> QED
      BY <1>0, <3>2, <3>3, <3>4, <3>5, AsItWas, StillAt, Zenon
  <2>3. CASE ~ (marker[s] /\ ~ Running(s))
    <3>1. Succeeded(w) /\ marker' = [marker EXCEPT ![s] = FALSE]
      BY <1>2, <2>3, Zenon DEF RolloutSame
    <3>2. UNCHANGED <<stuck, owed>>
      BY <2>1, Zenon DEF ghostVars
    <3>3. /\ saved'[s] = saved[s] /\ saved' = [saved EXCEPT ![s] = saved'[s]]
          /\ live'[s] = live[s] /\ live' = [live EXCEPT ![s] = live'[s]]
          /\ marker'[s] = FALSE /\ marker' = [marker EXCEPT ![s] = marker'[s]]
      BY <1>0, <2>1, <3>1, OneChanges, Zenon
    <3>4. Local(s)
      BY <3>2, <3>3, Zenon DEF Local
    <3>5. Sound(s)'
      BY <1>0, <2>3, <3>2, <3>3, Zenon DEF Sound, Running
    <3> QED
      BY <1>0, <2>1, <3>1, <3>3, <3>4, <3>5, RolledOut, Zenon
  <2> QED
    BY <2>2, <2>3, Zenon
<1>3. CASE RolloutStopped(w)
  <2>1. /\ active # Unmanaged => job[w].want = active
        /\ live[s] = Absent /\ marker[s] = FALSE /\ live' = live /\ marker' = marker /\ UNCHANGED ghostVars
    BY <1>0, <1>3, RolloutFacts, Zenon DEF RolloutStopped, Running, Sound
  <2>2. PICK outcome \in SaveOutcomes :
          /\ saved' = [saved EXCEPT ![s] = FileAfter(outcome, saved[s], job[w].want)]
          /\ IF outcome = "ok" THEN Succeeded(w) ELSE Errored(w)
    BY <1>3, Zenon DEF RolloutStopped
  <2>3. UNCHANGED <<stuck, owed>>
    BY <2>1, Zenon DEF ghostVars
  <2>4. /\ saved'[s] = FileAfter(outcome, saved[s], job[w].want) /\ saved' = [saved EXCEPT ![s] = saved'[s]]
        /\ live'[s] = live[s] /\ live' = [live EXCEPT ![s] = live'[s]]
        /\ marker'[s] = marker[s] /\ marker' = [marker EXCEPT ![s] = marker'[s]]
    BY <1>0, <2>1, <2>2, OneChanges, Zenon
  <2>5. Local(s)
    BY <2>3, <2>4, Zenon DEF Local
  <2>6. saved'[s] \in {saved[s], job[w].want} /\ (outcome = "ok" => saved'[s] = job[w].want)
    <3>1. saved'[s] = FileAfter(outcome, saved[s], job[w].want)
      BY <2>4, Zenon
    <3> QED
      BY <3>1, Zenon DEF FileAfter
  <2>7. Sound(s)'
    BY <1>0, <2>1, <2>3, <2>4, <2>6, Zenon DEF Sound, Running
  <2>8. CASE outcome = "ok"
    BY <1>0, <2>1, <2>2, <2>5, <2>6, <2>7, <2>8, RolledOut, Zenon
  <2>9. CASE outcome # "ok"
    <3>1. Left(w) /\ InHand(w)' /\ (w = Feed => at'[w] \in Exclusive)
      BY <1>0, <2>2, <2>9, Ends, Zenon DEF InHand
    <3> QED
      BY <1>0, <2>1, <2>4, <2>5, <2>6, <2>7, <3>1, StillAt, Zenon
  <2> QED
    BY <2>8, <2>9, Zenon
<1>4. CASE RolloutMark(w)
  <2>1. /\ active # Unmanaged => job[w].want = active
        /\ live[s] # Absent /\ saved[s] # Absent /\ job[w].restart /\ UNCHANGED <<saved, live, ghostVars>>
    BY <1>4, RolloutFacts, Zenon DEF RolloutMark, Running, MayRollOut, Exists
  <2>2. PICK outcome \in SaveOutcomes :
          /\ marker' = [marker EXCEPT ![s] = FileAfter(outcome, marker[s], TRUE)]
          /\ IF outcome = "ok" THEN GoTo(w, "stop") /\ job' = job ELSE Errored(w)
    BY <1>4, Zenon DEF RolloutMark
  <2>3. UNCHANGED <<stuck, owed, saved, live>> /\ w # Feed
    BY <1>0, <2>1, HandFacts, Zenon DEF ghostVars
  <2>4. /\ saved'[s] = saved[s] /\ saved' = [saved EXCEPT ![s] = saved'[s]]
        /\ live'[s] = live[s] /\ live' = [live EXCEPT ![s] = live'[s]]
        /\ marker'[s] = FileAfter(outcome, marker[s], TRUE) /\ marker' = [marker EXCEPT ![s] = marker'[s]]
    BY <1>0, <2>2, <2>3, OneChanges, Zenon
  <2>5. Local(s)
    BY <2>3, <2>4, Zenon DEF Local
  <2>6. marker'[s] \in {marker[s], TRUE} /\ (outcome = "ok" => marker'[s] = TRUE)
    <3>1. marker'[s] = FileAfter(outcome, marker[s], TRUE)
      BY <2>4, Zenon
    <3> QED
      BY <3>1, Zenon DEF FileAfter
  <2>7. Sound(s)' /\ (active # Unmanaged => live'[s] \in {active, Absent} \/ s \in stuck')
    BY <1>0, <2>1, <2>3, <2>4, <2>6, Zenon DEF Sound, Running, Fine
  <2>8. Left(w) /\ InHand(w)'
    <3>1. CASE outcome = "ok"
      <4>1. Left(w) /\ at'[w] = "stop" /\ job'[w] = job[w]
        BY <1>0, <2>2, <2>3, <3>1, Goes, Zenon DEF Restarting
      <4> QED
        BY <1>0, <2>1, <2>4, <2>6, <3>1, <4>1, Zenon DEF InHand, Exists, feedVars
    <3>2. CASE outcome # "ok"
      BY <1>0, <2>2, <3>2, Ends, Zenon DEF InHand
    <3> QED
      BY <3>1, <3>2, Zenon
  <2> QED
    BY <1>0, <2>3, <2>4, <2>5, <2>7, <2>8, StillAt, Zenon
<1>5. CASE RolloutInterrupted(w)
  <2>1. /\ active # Unmanaged => job[w].want = active
        /\ live[s] = Absent /\ saved[s] # Absent /\ marker[s] = TRUE
        /\ GoTo(w, "save") /\ job' = job /\ UNCHANGED <<sandboxVars, ghostVars>>
    BY <1>0, <1>5, RolloutFacts, Zenon DEF RolloutInterrupted, Running, MayRollOut, Exists, Sound
  <2>2. Left(w) /\ at'[w] = "save" /\ job'[w] = job[w]
    BY <1>0, <2>1, Goes, Zenon DEF Restarting
  <2>3. InHand(w)'
    BY <1>0, <2>1, <2>2, <1>5, Zenon DEF InHand, Exists, Running, feedVars, sandboxVars
  <2>4. at'[w] \in Exclusive
    BY <2>2, Zenon DEF Exclusive
  <2> QED
    BY <1>0, <2>1, <2>2, <2>3, <2>4, AsItWas, StillAt, Zenon
<1> QED
  BY <1>1, <1>2, <1>3, <1>4, <1>5, Zenon

(* the live update,                                                        *)
LEMMA LiveTouches ==
    ASSUME Inv, NEW w \in Workers, Rollout(w), NEW s, s = job[w].sandbox, RolloutLive(w)
    PROVE  Touches(w, s)
<1>0. /\ at[w] \in Exclusive /\ s \in Sandboxes /\ Sound(s) /\ job[w].want \in Policies /\ (w # Feed => Fine(s))
      /\ saved = [t \in Sandboxes |-> saved[t]] /\ live = [t \in Sandboxes |-> live[t]]
      /\ marker = [t \in Sandboxes |-> marker[t]] /\ UNCHANGED feedVars /\ Absent \notin Policies
  BY RolloutFacts, Zenon
<1>1. /\ active # Unmanaged => job[w].want = active
      /\ live[s] # Absent /\ saved[s] # Absent /\ UNCHANGED <<marker, owed>>
  BY <1>0, RolloutFacts, Zenon DEF RolloutLive, Running, MayRollOut, Exists
<1>2. s \notin owed
  BY <1>0, <1>1, Zenon DEF Sound, Running
<1>3. marker'[s] = marker[s] /\ marker' = [marker EXCEPT ![s] = marker'[s]]
  BY <1>0, <1>1, OneChanges, Zenon
<1>4. ASSUME Errored(w) PROVE Left(w) /\ InHand(w)' /\ (w = Feed => at'[w] \in Exclusive)
  BY <1>0, <1>4, Ends, Zenon DEF InHand
<1>5. ASSUME saved' = [saved EXCEPT ![s] = job[w].want], live' = [live EXCEPT ![s] = job[w].want],
             stuck' = stuck \ {s}, Succeeded(w) \/ Errored(w)
      PROVE  Touches(w, s)
  <2>1. /\ saved'[s] = job[w].want /\ saved' = [saved EXCEPT ![s] = saved'[s]]
        /\ live'[s] = job[w].want /\ live' = [live EXCEPT ![s] = live'[s]]
    BY <1>0, <1>5, OneChanges, Zenon
  <2>2. Local(s)
    BY <1>1, <1>3, <1>5, <2>1, Zenon DEF Local
  <2>3. Sound(s)' /\ (active # Unmanaged => live'[s] \in {active, Absent})
    BY <1>0, <1>1, <1>2, <1>3, <2>1, Zenon DEF Sound
  <2> QED
    BY <1>0, <1>1, <1>4, <1>5, <2>1, <2>2, <2>3, RolledOut, StillAt, Zenon
<1>6. ASSUME NEW outcome \in SaveOutcomes, saved' = [saved EXCEPT ![s] = FileAfter(outcome, saved[s], job[w].want)],
             live' = [live EXCEPT ![s] = Absent], stuck' = stuck \ {s},
             IF outcome = "ok" THEN Succeeded(w) ELSE Errored(w)
      PROVE  Touches(w, s)
  <2>1. /\ saved'[s] = FileAfter(outcome, saved[s], job[w].want) /\ saved' = [saved EXCEPT ![s] = saved'[s]]
        /\ live'[s] = Absent /\ live' = [live EXCEPT ![s] = live'[s]]
    BY <1>0, <1>6, OneChanges, Zenon
  <2>2. Local(s)
    BY <1>1, <1>3, <1>6, <2>1, Zenon DEF Local
  <2>3. saved'[s] \in {saved[s], job[w].want} /\ (outcome = "ok" => saved'[s] = job[w].want)
    <3>1. saved'[s] = FileAfter(outcome, saved[s], job[w].want)
      BY <2>1, Zenon
    <3> QED
      BY <3>1, Zenon DEF FileAfter
  <2>4. Sound(s)'
    BY <1>0, <1>1, <1>2, <1>3, <2>1, <2>3, Zenon DEF Sound
  <2> QED
    BY <1>0, <1>1, <1>4, <1>6, <2>1, <2>2, <2>3, <2>4, RolledOut, StillAt, Zenon
<1>7. ASSUME Errored(w), live' \in {live, [live EXCEPT ![s] = Absent]}, UNCHANGED <<saved, stuck>>
      PROVE  Touches(w, s)
  <2>1. saved'[s] = saved[s] /\ saved' = [saved EXCEPT ![s] = saved'[s]]
    BY <1>0, <1>7, OneChanges, Zenon
  <2>2. live'[s] \in {live[s], Absent} /\ live' = [live EXCEPT ![s] = live'[s]]
    BY <1>0, <1>7, OneChanges, Zenon
  <2>3. Local(s)
    BY <1>1, <1>3, <1>7, <2>1, <2>2, Zenon DEF Local
  <2>4. Sound(s)'
    BY <1>0, <1>1, <1>2, <1>3, <2>1, <2>2, Zenon DEF Sound
  <2>5. w # Feed /\ active # Unmanaged => live'[s] \in {active, Absent} \/ s \in stuck'
    BY <1>0, <1>7, <2>2, Zenon DEF Fine
  <2> QED
    BY <1>0, <1>4, <1>7, <2>1, <2>3, <2>4, <2>5, StillAt, Zenon
<1> QED
  BY <1>5, <1>6, <1>7, Zenon DEF RolloutLive

(* and the steps of a controlled restart.                                  *)
LEMMA RestartTouches ==
    ASSUME Inv, NEW w \in Workers, Rollout(w), NEW s, s = job[w].sandbox,
           RolloutStop(w) \/ RolloutSave(w) \/ RolloutResume(w) \/ RolloutRecover(w)
    PROVE  Touches(w, s)
<1>0. /\ at[w] \in Exclusive /\ s \in Sandboxes /\ Sound(s) /\ job[w].want \in Policies /\ (w # Feed => Fine(s))
      /\ saved = [t \in Sandboxes |-> saved[t]] /\ live = [t \in Sandboxes |-> live[t]]
      /\ marker = [t \in Sandboxes |-> marker[t]] /\ UNCHANGED feedVars /\ Absent \notin Policies
  BY RolloutFacts, Zenon
<1>1. at[w] \in Restarting
  BY Zenon DEF RolloutStop, RolloutSave, RolloutResume, RolloutRecover, Restarting
<1>2. /\ marker[s] = TRUE /\ saved[s] # Absent /\ (at[w] # "stop" => live[s] = Absent)
      /\ at[w] = "resume" => saved[s] = job[w].want
      /\ active # Unmanaged => job[w].want = active
  BY <1>0, <1>1, HandFacts, Zenon DEF InHand, Exists, Running, Sound
<1>3. ASSUME Errored(w) PROVE Left(w) /\ InHand(w)' /\ (w = Feed => at'[w] \in Exclusive)
  BY <1>0, <1>3, Ends, Zenon DEF InHand
<1>4. ASSUME RolloutStop(w) PROVE Touches(w, s)
  <2>1. w # Feed
    BY <1>4, Zenon DEF RolloutStop, Inv, Fed, Exclusive
  <2>2. CASE live' = [live EXCEPT ![s] = Absent] /\ owed' = owed \cup {s} /\ UNCHANGED <<marker, saved, stuck>>
             /\ ((GoTo(w, "save") /\ job' = job) \/ Errored(w))
    <3>1. /\ saved'[s] = saved[s] /\ saved' = [saved EXCEPT ![s] = saved'[s]]
          /\ live'[s] = Absent /\ live' = [live EXCEPT ![s] = live'[s]]
          /\ marker'[s] = marker[s] /\ marker' = [marker EXCEPT ![s] = marker'[s]]
      BY <1>0, <2>2, OneChanges, Zenon
    <3>2. Local(s)
      BY <2>2, <3>1, Zenon DEF Local
    <3>3. Sound(s)'
      BY <1>0, <1>2, <3>1, Zenon DEF Sound, Running
    <3>4. ASSUME GoTo(w, "save"), job' = job PROVE Left(w) /\ InHand(w)'
      <4>1. Left(w) /\ at'[w] = "save" /\ job'[w] = job[w]
        BY <1>0, <3>4, Goes, Zenon DEF Restarting
      <4> QED
        BY <1>0, <1>2, <3>1, <4>1, Zenon DEF InHand, Exists, Running, feedVars
    <3> QED
      BY <1>0, <1>3, <2>1, <2>2, <3>1, <3>2, <3>3, <3>4, StillAt, Zenon
  <2>3. CASE Running(s) /\ marker' = [marker EXCEPT ![s] = FALSE] /\ Errored(w)
             /\ UNCHANGED <<live, owed, saved, stuck>>
    <3>1. /\ saved'[s] = saved[s] /\ saved' = [saved EXCEPT ![s] = saved'[s]]
          /\ live'[s] = live[s] /\ live' = [live EXCEPT ![s] = live'[s]]
          /\ marker'[s] = FALSE /\ marker' = [marker EXCEPT ![s] = marker'[s]]
      BY <1>0, <2>3, OneChanges, Zenon
    <3>2. Local(s)
      BY <2>3, <3>1, Zenon DEF Local
    <3>3. Sound(s)' /\ (active # Unmanaged => live'[s] \in {active, Absent} \/ s \in stuck')
      BY <1>0, <2>1, <2>3, <3>1, Zenon DEF Sound, Fine
    <3> QED
      BY <1>0, <1>3, <2>1, <2>3, <3>1, <3>2, <3>3, StillAt, Zenon
  <2> QED
    BY <1>4, <2>2, <2>3, Zenon DEF RolloutStop
<1>5. ASSUME RolloutSave(w) PROVE Touches(w, s)
  <2>1. PICK outcome \in SaveOutcomes :
          /\ saved' = [saved EXCEPT ![s] = FileAfter(outcome, saved[s], job[w].want)]
          /\ GoTo(w, IF outcome = "ok" THEN "resume" ELSE "recover")
    BY <1>5, Zenon DEF RolloutSave
  <2>2. at[w] = "save" /\ UNCHANGED <<live, marker, job, stuck, owed>>
    BY <1>5, Zenon DEF RolloutSave, ghostVars
  <2>3. /\ saved'[s] = FileAfter(outcome, saved[s], job[w].want) /\ saved' = [saved EXCEPT ![s] = saved'[s]]
        /\ live'[s] = live[s] /\ live' = [live EXCEPT ![s] = live'[s]]
        /\ marker'[s] = marker[s] /\ marker' = [marker EXCEPT ![s] = marker'[s]]
    BY <1>0, <2>1, <2>2, OneChanges, Zenon
  <2>4. Local(s)
    BY <2>2, <2>3, Zenon DEF Local
  <2>5. saved'[s] \in {saved[s], job[w].want} /\ (outcome = "ok" => saved'[s] = job[w].want)
    <3>1. saved'[s] = FileAfter(outcome, saved[s], job[w].want)
      BY <2>3, Zenon
    <3> QED
      BY <3>1, Zenon DEF FileAfter
  <2>6. live'[s] = Absent
    BY <1>2, <2>2, <2>3, Zenon
  <2>7. Sound(s)'
    BY <1>0, <1>2, <2>2, <2>3, <2>5, <2>6, Zenon DEF Sound, Running
  <2>8. Left(w) /\ at'[w] \in {"resume", "recover"} /\ (at'[w] = "resume" => outcome = "ok") /\ job'[w] = job[w]
    BY <1>0, <2>1, <2>2, Goes, Zenon DEF Restarting
  <2>9. InHand(w)'
    BY <1>0, <1>2, <2>3, <2>5, <2>6, <2>8 DEF InHand, Exists, Running, feedVars
  <2>10. at'[w] \in Exclusive
    BY <2>8, Zenon DEF Exclusive
  <2> QED
    BY <1>0, <1>2, <2>4, <2>5, <2>6, <2>7, <2>8, <2>9, <2>10, StillAt, Zenon
<1>6. ASSUME RolloutResume(w) PROVE Touches(w, s)
  <2>1. at[w] = "resume" /\ saved' = saved
    BY <1>6, Zenon DEF RolloutResume
  <2>2. saved'[s] = saved[s] /\ saved' = [saved EXCEPT ![s] = saved'[s]] /\ saved[s] = job[w].want
    BY <1>0, <1>2, <2>1, OneChanges, Zenon
  <2>3. CASE Boots(s, saved[s]) /\ Succeeded(w)
    <3>1. /\ live'[s] = saved[s] /\ live' = [live EXCEPT ![s] = live'[s]]
          /\ marker'[s] = FALSE /\ marker' = [marker EXCEPT ![s] = marker'[s]]
      BY <1>0, <2>3, OneChanges, Zenon DEF Boots
    <3>2. owed' = owed \ {s} /\ stuck' = stuck \ {s}
      BY <2>3, Zenon DEF Boots
    <3>3. Local(s)
      BY <2>2, <3>1, <3>2, Zenon DEF Local
    <3>4. Sound(s)'
      BY <1>0, <2>2, <3>1, <3>2, Zenon DEF Sound
    <3> QED
      BY <1>0, <1>2, <2>2, <2>3, <3>3, <3>4, RolledOut, Zenon
  <2>4. CASE Errored(w) /\ UNCHANGED <<live, marker, stuck, owed>>
    <3>1. /\ live'[s] = live[s] /\ live' = [live EXCEPT ![s] = live'[s]]
          /\ marker'[s] = marker[s] /\ marker' = [marker EXCEPT ![s] = marker'[s]]
      BY <1>0, <2>4, OneChanges, Zenon
    <3>2. Local(s)
      BY <2>2, <2>4, <3>1, Zenon DEF Local
    <3>3. Sound(s)' /\ (w # Feed /\ active # Unmanaged => live'[s] \in {active, Absent} \/ s \in stuck')
      BY <1>0, <2>2, <2>4, <3>1, Zenon DEF Sound, Running, Fine
    <3> QED
      BY <1>0, <1>3, <2>2, <2>4, <3>2, <3>3, StillAt, Zenon
  <2> QED
    BY <1>6, <2>3, <2>4, Zenon DEF RolloutResume
<1>7. ASSUME RolloutRecover(w) PROVE Touches(w, s)
  <2>1. at[w] = "recover" /\ saved' = saved /\ Errored(w)
    BY <1>7, Zenon DEF RolloutRecover
  <2>2. saved'[s] = saved[s] /\ saved' = [saved EXCEPT ![s] = saved'[s]]
    BY <1>0, <2>1, OneChanges, Zenon
  <2>3. CASE live' = [live EXCEPT ![s] = saved[s]] /\ marker' = [marker EXCEPT ![s] = FALSE]
             /\ owed' = owed \ {s} /\ stuck' = stuck \cup {s}
    <3>1. /\ live'[s] = saved[s] /\ live' = [live EXCEPT ![s] = live'[s]]
          /\ marker'[s] = FALSE /\ marker' = [marker EXCEPT ![s] = marker'[s]]
      BY <1>0, <2>3, OneChanges, Zenon
    <3>2. Local(s) /\ s \in stuck'
      BY <2>2, <2>3, <3>1, Zenon DEF Local
    <3>3. Sound(s)'
      BY <1>0, <2>2, <2>3, <3>1, Zenon DEF Sound
    <3> QED
      BY <1>0, <1>3, <2>1, <2>2, <3>2, <3>3, StillAt, Zenon
  <2>4. CASE UNCHANGED <<live, marker, stuck, owed>>
    <3>1. /\ live'[s] = live[s] /\ live' = [live EXCEPT ![s] = live'[s]]
          /\ marker'[s] = marker[s] /\ marker' = [marker EXCEPT ![s] = marker'[s]]
      BY <1>0, <2>4, OneChanges, Zenon
    <3>2. Local(s)
      BY <2>2, <2>4, <3>1, Zenon DEF Local
    <3>3. Sound(s)' /\ (w # Feed /\ active # Unmanaged => live'[s] \in {active, Absent} \/ s \in stuck')
      BY <1>0, <2>2, <2>4, <3>1, Zenon DEF Sound, Running, Fine
    <3> QED
      BY <1>0, <1>3, <2>1, <2>2, <3>2, <3>3, StillAt, Zenon
  <2> QED
    BY <1>7, <2>3, <2>4, Zenon DEF RolloutRecover
<1> QED
  BY <1>4, <1>5, <1>6, <1>7, Zenon

-----------------------------------------------------------------------------
(* Steps that take or release a slot, the barrier or a shard.              *)

(* The sandboxes and the feed stay as they are when a call moves on.       *)
LEMMA CallMoves ==
    ASSUME Inv, NEW c \in Calls, NEW step \in {"idle", "barrier", "shard", "run"}, GoTo(c, step),
           job' = job \/ \E j : job' = [job EXCEPT ![c] = j],
           step # "idle" => job'[c].sandbox \in Sandboxes /\ job'[c].want \in Policies,
           step \in {"shard", "run"} => ~ FanningOut,
           step = "run" => \A v \in Workers \ {c} : at[v] \in Exclusive => job[v].sandbox # job'[c].sandbox,
           UNCHANGED <<sandboxVars, feedVars, ghostVars>>
    PROVE  Inv'
<1>1. UNCHANGED <<saved, live, marker, active, staged, applied, todo, incomplete, stuck, owed>>
  BY Zenon DEF sandboxVars, feedVars, ghostVars
<1>2. c \in Workers /\ c # Feed /\ Feed \in Workers
  BY Working, Zenon
<1>3. at = [v \in Workers |-> at[v]] /\ job = [v \in Workers |-> job[v]]
  BY Zenon DEF Inv, Shaped
<1>4. at' = [v \in Workers |-> at'[v]] /\ at'[c] = step /\ \A v \in Workers \ {c} : at'[v] = at[v]
  BY <1>2, <1>3, Zenon DEF GoTo
<1>5. job' = [v \in Workers |-> job'[v]] /\ \A v \in Workers \ {c} : job'[v] = job[v]
  <2>1. ASSUME NEW j, job' = [job EXCEPT ![c] = j]
        PROVE  job' = [v \in Workers |-> job'[v]] /\ \A v \in Workers \ {c} : job'[v] = job[v]
    BY <1>2, <1>3, <2>1, Zenon
  <2> QED
    BY <1>3, <2>1, Zenon
<1>6. at'[Feed] = at[Feed] /\ job'[Feed] = job[Feed] /\ FanningOut' = FanningOut
  BY <1>2, <1>4, <1>5, Zenon DEF FanningOut
<1>7. Shaped'
  BY <1>1, <1>4, <1>5, Zenon DEF Inv, Shaped
<1>8. ASSUME NEW d \in Calls PROVE Called(d)'
  <2>1. CASE d = c
    BY <1>4, <2>1, Zenon DEF Called, Exclusive
  <2>2. CASE d # c
    BY <1>4, <1>5, <2>2, Working, Zenon DEF Inv, Called
  <2> QED
    BY <2>1, <2>2, Zenon
<1>9. Fed'
  BY <1>1, <1>6, Zenon DEF Inv, Fed
<1>10. Excluded'
  <2>1. ASSUME FanningOut', NEW d \in Calls PROVE ~ HoldsBarrier(d)'
    <3>1. FanningOut /\ ~ HoldsBarrier(d)
      BY <1>6, <2>1, Zenon DEF Inv, Excluded
    <3>2. CASE d = c
      BY <1>4, <3>1, <3>2, Zenon DEF HoldsBarrier, Exclusive
    <3>3. CASE d # c
      BY <1>4, <3>1, <3>3, Working, Zenon DEF HoldsBarrier
    <3> QED
      BY <3>2, <3>3, Zenon
  <2>2. \A v \in Workers : at'[v] \in Exclusive => (v = c => step = "run") /\ (v # c => at[v] \in Exclusive)
    BY <1>4, Zenon DEF Exclusive
  <2>3. ASSUME NEW v \in Workers, NEW u \in Workers, v # u, at'[v] \in Exclusive, at'[u] \in Exclusive
        PROVE  job'[v].sandbox # job'[u].sandbox
    <3>1. CASE v = c
      BY <1>5, <2>2, <2>3, <3>1, Zenon
    <3>2. CASE u = c
      BY <1>5, <2>2, <2>3, <3>2, Zenon
    <3>3. CASE v # c /\ u # c
      BY <1>5, <2>2, <2>3, <3>3, Zenon DEF Inv, Excluded
    <3> QED
      BY <3>1, <3>2, <3>3, Zenon
  <2> QED
    BY <2>1, <2>3, Zenon DEF Excluded
<1>11. ASSUME NEW v \in Workers PROVE InHand(v)'
  <2>1. CASE v = c
    BY <1>4, <2>1, Zenon DEF InHand, Restarting
  <2>2. CASE v # c
    <3>1. at'[v] = at[v] /\ job'[v] = job[v] /\ InHand(v)
      BY <1>4, <1>5, <2>2, Zenon DEF Inv
    <3> QED
      BY <1>1, <3>1, Zenon DEF InHand, Exists, Running
  <2> QED
    BY <2>1, <2>2, Zenon
<1>12. ASSUME NEW t \in Sandboxes PROVE Sound(t)' /\ (Fine(t)' \/ Pending(t)')
  BY <1>1, <1>6, Zenon DEF Inv, Sound, Fine, Pending, Running
<1>13. /\ active' \in Policies /\ applied' \in BOOLEAN /\ incomplete' \in BOOLEAN
       /\ (applied' => active' # Unmanaged /\ ~ FanningOut') /\ todo' \subseteq Sandboxes /\ owed' \subseteq Sandboxes
  BY <1>1, <1>6, Zenon DEF Inv
<1> QED
  BY <1>7, <1>8, <1>9, <1>10, <1>11, <1>12, <1>13, Zenon DEF Inv

(* A call begins, passes the barrier, gets its shard or gives up.          *)
LEMMA CallKeeps ==
    ASSUME Inv, NEW c \in Calls, CallBarrier(c) \/ CallShard(c) \/ CallReturn(c) \/ \E j \in Requests : CallBegin(c, j)
    PROVE  Inv'
<1>0. /\ c \in Workers /\ c # Feed /\ Called(c)
      /\ job = [v \in Workers |-> job[v]] /\ UNCHANGED <<sandboxVars, feedVars, ghostVars>>
  BY Working, Zenon DEF Inv, Shaped, CallBarrier, CallShard, CallReturn, CallBegin
<1>1. CASE CallBarrier(c)
  <2>1. at[c] = "barrier" /\ ~ FanningOut /\ GoTo(c, "shard") /\ job' = job
    BY <1>1, Zenon DEF CallBarrier
  <2>2. job'[c].sandbox \in Sandboxes /\ job'[c].want \in Policies
    BY <1>0, <2>1, Zenon DEF Called
  <2> QED
    BY <1>0, <2>1, <2>2, CallMoves, Zenon
<1>2. CASE CallShard(c)
  <2>1. at[c] = "shard" /\ ShardFree(job[c].sandbox) /\ GoTo(c, "run") /\ job' = job
    BY <1>2, Zenon DEF CallShard
  <2>2. job'[c].sandbox \in Sandboxes /\ job'[c].want \in Policies
    BY <1>0, <2>1, Zenon DEF Called
  <2>3. ~ FanningOut
    BY <2>1, Zenon DEF Inv, Excluded, HoldsBarrier
  <2>4. \A v \in Workers \ {c} : at[v] \in Exclusive => job[v].sandbox # job'[c].sandbox
    BY <2>1, Zenon DEF ShardFree, SameShard
  <2> QED
    BY <1>0, <2>1, <2>2, <2>3, <2>4, CallMoves, Zenon
<1>3. CASE CallReturn(c)
  <2>1. GoTo(c, "idle") /\ job' = [job EXCEPT ![c] = NoJob]
    BY <1>3, Zenon DEF CallReturn, Release, Done
  <2> QED
    BY <1>0, <2>1, CallMoves, Zenon
<1>4. CASE \E j \in Requests : CallBegin(c, j)
  <2>1. PICK j \in Requests : GoTo(c, "barrier") /\ job' = [job EXCEPT ![c] = j]
    BY <1>4, Zenon DEF CallBegin
  <2>2. job'[c] = j
    BY <1>0, <2>1, Zenon
  <2>3. job'[c].sandbox \in Sandboxes /\ job'[c].want \in Policies
    BY <2>2, RequestKinds, Zenon
  <2> QED
    BY <1>0, <2>1, <2>3, CallMoves, Zenon
<1> QED
  BY <1>1, <1>2, <1>3, <1>4, Zenon

-----------------------------------------------------------------------------
(* The fan-out.                                                            *)

(* A step of the feed that leaves the sandboxes as they are keeps the      *)
(* invariant if its own part and that of each sandbox hold again.          *)
LEMMA FeedMoves ==
    ASSUME Inv, NEW step, GoTo(Feed, step), step \notin Restarting, UNCHANGED sandboxVars, owed' = owed,
           job' = job \/ \E j : job' = [job EXCEPT ![Feed] = j],
           active' \in Policies, applied' \in BOOLEAN, incomplete' \in BOOLEAN, todo' \subseteq Sandboxes,
           applied' => active' # Unmanaged /\ ~ FanningOut', Fed',
           active' = active \/ \A c \in Calls : ~ HoldsBarrier(c),
           FanningOut' => \A c \in Calls : ~ HoldsBarrier(c),
           step \in Exclusive => \A v \in Workers \ {Feed} : at[v] \in Exclusive => job[v].sandbox # job'[Feed].sandbox,
           \A s \in Sandboxes : Fine(s)' \/ Pending(s)'
    PROVE  Inv'
<1>1. UNCHANGED <<saved, live, marker>>
  BY Zenon DEF sandboxVars
<1>2. Feed \in Workers /\ \A c \in Calls : c \in Workers /\ c # Feed
  BY Working, Zenon
<1>3. at = [v \in Workers |-> at[v]] /\ job = [v \in Workers |-> job[v]]
  BY Zenon DEF Inv, Shaped
<1>4. at' = [v \in Workers |-> at'[v]] /\ at'[Feed] = step /\ \A v \in Workers \ {Feed} : at'[v] = at[v]
  BY <1>2, <1>3, Zenon DEF GoTo
<1>5. job' = [v \in Workers |-> job'[v]] /\ \A v \in Workers \ {Feed} : job'[v] = job[v]
  <2>1. ASSUME NEW j, job' = [job EXCEPT ![Feed] = j]
        PROVE  job' = [v \in Workers |-> job'[v]] /\ \A v \in Workers \ {Feed} : job'[v] = job[v]
    BY <1>2, <1>3, <2>1, Zenon
  <2> QED
    BY <1>3, <2>1, Zenon
<1>6. Shaped'
  BY <1>1, <1>4, <1>5, Zenon DEF Inv, Shaped
<1>7. \A c \in Calls : Called(c)'
  BY <1>2, <1>4, <1>5, Zenon DEF Inv, Called
<1>8. Excluded'
  <2>1. FanningOut' => \A c \in Calls : ~ HoldsBarrier(c)'
    BY <1>2, <1>4, Zenon DEF HoldsBarrier
  <2>2. ASSUME NEW v \in Workers, NEW u \in Workers, v # u, at'[v] \in Exclusive, at'[u] \in Exclusive
        PROVE  job'[v].sandbox # job'[u].sandbox
    <3>1. CASE v = Feed
      BY <1>4, <1>5, <2>2, <3>1, Zenon
    <3>2. CASE u = Feed
      BY <1>4, <1>5, <2>2, <3>2, Zenon
    <3>3. CASE v # Feed /\ u # Feed
      <4>1. at[v] \in Exclusive /\ at[u] \in Exclusive /\ job'[v] = job[v] /\ job'[u] = job[u]
        BY <1>4, <1>5, <2>2, <3>3, Zenon
      <4> QED
        BY <2>2, <4>1, Zenon DEF Inv, Excluded
    <3> QED
      BY <3>1, <3>2, <3>3, Zenon
  <2> QED
    BY <2>1, <2>2, Zenon DEF Excluded
<1>9. ASSUME NEW v \in Workers PROVE InHand(v)'
  <2>1. CASE v = Feed
    BY <1>4, <2>1, Zenon DEF InHand
  <2>2. CASE v # Feed
    <3>1. at'[v] = at[v] /\ job'[v] = job[v] /\ InHand(v) /\ v \in Calls
      BY <1>4, <1>5, <2>2, Working, Zenon DEF Inv
    <3>2. at[v] \in Restarting => HoldsBarrier(v)
      BY Zenon DEF HoldsBarrier, Restarting, Exclusive
    <3> QED
      BY <1>1, <3>1, <3>2, Zenon DEF InHand, Exists, Running
  <2> QED
    BY <2>1, <2>2, Zenon
<1>10. \A s \in Sandboxes : Sound(s)'
  BY <1>1, Zenon DEF Inv, Sound, Running
<1> QED
  BY <1>6, <1>7, <1>8, <1>9, <1>10, Zenon DEF Inv

(* The feed takes a slot,                                                  *)
LEMMA BeginKeeps == ASSUME Inv, NEW p \in Snapshots, FeedBegin(p) PROVE Inv'
<1>1. /\ at[Feed] = "idle" /\ staged' = p /\ GoTo(Feed, "barrier") /\ job' = job /\ UNCHANGED sandboxVars
      /\ UNCHANGED <<active, applied, todo, incomplete, ghostVars>>
  BY Zenon DEF FeedBegin
<1>2. at'[Feed] = "barrier"
  BY <1>1, Working, Zenon DEF GoTo, Inv, Shaped
<1>3. ~ FanningOut /\ ~ FanningOut' /\ "barrier" \notin Exclusive /\ "barrier" \notin Restarting
  BY <1>1, <1>2, Zenon DEF FanningOut, Exclusive, Restarting
<1>4. Fed'
  BY <1>1, <1>2, <1>3, Zenon DEF Fed
<1>5. \A s \in Sandboxes : Fine(s)'
  BY <1>1, <1>3, Zenon DEF Inv, Fine, Pending, ghostVars, sandboxVars
<1>6. owed' = owed
  BY <1>1, Zenon DEF ghostVars
<1>7. /\ active' \in Policies /\ applied' \in BOOLEAN /\ incomplete' \in BOOLEAN /\ todo' \subseteq Sandboxes
      /\ active' = active /\ (applied' => active' # Unmanaged)
  BY <1>1, Zenon DEF Inv
<1> QED
  BY <1>1, <1>3, <1>4, <1>5, <1>6, <1>7, FeedMoves, Zenon

(* publishes the snapshot once no call holds the barrier,                  *)
LEMMA PublishKeeps == ASSUME Inv, FeedPublish PROVE Inv'
<1>1. /\ at[Feed] = "barrier" /\ (\A c \in Calls : ~ HoldsBarrier(c)) /\ active' = staged /\ applied' = FALSE
      /\ GoTo(Feed, "loop") /\ job' = job /\ staged' = staged /\ owed' = owed /\ UNCHANGED sandboxVars
  BY Zenon DEF FeedPublish
<1>2. at'[Feed] = "loop" /\ "loop" \notin Exclusive /\ "loop" \notin Restarting
  BY <1>1, Working, Zenon DEF GoTo, Inv, Shaped, Exclusive, Restarting
<1>3. FanningOut'
  BY <1>2, Zenon DEF FanningOut
<1>4. staged \in Snapshots /\ staged \in Policies
  BY <1>1, Zenon DEF Inv, Fed, Policies
<1>5. Fed'
  BY <1>1, <1>2, <1>3, <1>4, Zenon DEF Fed
<1>6. UNCHANGED <<saved, live, marker>>
  BY <1>1, Zenon DEF sandboxVars
<1>7. /\ incomplete' \in BOOLEAN /\ todo' \subseteq Sandboxes
      /\ \A s \in Sandboxes : Fine(s)' \/ Pending(s)'
  <2>1. CASE todo' = {s \in Sandboxes : Exists(s)} /\ incomplete' = FALSE /\ stuck' = stuck
    <3>1. ASSUME NEW s \in Sandboxes, ~ Pending(s)' PROVE Fine(s)'
      <4>1. saved[s] = Absent
        BY <1>3, <2>1, <3>1, Zenon DEF Pending, Exists
      <4>2. live[s] = Absent
        BY <4>1, Zenon DEF Inv, Sound
      <4> QED
        BY <1>6, <4>1, <4>2, Zenon DEF Fine
    <3> QED
      BY <2>1, <3>1, Zenon
  <2>2. CASE todo' = {} /\ incomplete' = TRUE /\ stuck' = stuck \cup {s \in Sandboxes : Running(s) /\ live[s] # staged}
    <3>1. ASSUME NEW s \in Sandboxes PROVE Fine(s)'
      <4>1. live[s] \in {staged, Absent} \/ s \in stuck'
        BY <2>2, Zenon DEF Running
      <4> QED
        BY <1>1, <1>6, <2>2, <4>1, Zenon DEF Fine
    <3> QED
      BY <2>2, <3>1, Zenon
  <2> QED
    BY <2>1, <2>2, Zenon DEF FeedPublish
<1> QED
  BY <1>1, <1>2, <1>4, <1>5, <1>7, FeedMoves, Zenon

(* takes up one sandbox after the other,                                   *)
LEMMA TargetKeeps == ASSUME Inv, NEW s \in Sandboxes, FeedTarget(s) PROVE Inv'
<1>1. /\ at[Feed] = "loop" /\ s \in todo /\ ShardFree(s) /\ todo' = todo \ {s} /\ GoTo(Feed, "run")
      /\ job' = [job EXCEPT ![Feed] = [kind |-> "policy", sandbox |-> s, want |-> active, restart |-> FALSE]]
      /\ UNCHANGED sandboxVars /\ UNCHANGED <<active, staged, applied, incomplete, ghostVars>>
  BY Zenon DEF FeedTarget
<1>2. at'[Feed] = "run" /\ "run" \in Exclusive /\ "run" \notin Restarting
  BY <1>1, Working, Zenon DEF GoTo, Inv, Shaped, Exclusive, Restarting
<1>3. /\ job'[Feed] = [kind |-> "policy", sandbox |-> s, want |-> active, restart |-> FALSE]
  BY <1>1, Working, Zenon DEF Inv, Shaped
<1>4. job'[Feed].sandbox = s /\ job'[Feed].want = active /\ job'[Feed].restart = FALSE
  BY <1>3
<1>5. FanningOut /\ FanningOut'
  BY <1>1, <1>2, Zenon DEF FanningOut
<1>6. Fed'
  <2>1. active \in Snapshots
    BY <1>5, Zenon DEF Inv, Fed
  <2> QED
    BY <1>1, <1>2, <1>4, <2>1, Zenon DEF Fed, Exclusive
<1>7. UNCHANGED <<saved, live, marker, stuck, owed>>
  BY <1>1, Zenon DEF sandboxVars, ghostVars
<1>8. ASSUME NEW t \in Sandboxes PROVE Fine(t)' \/ Pending(t)'
  <2>1. CASE t = s
    BY <1>2, <1>4, <1>5, <2>1, Zenon DEF Pending
  <2>2. CASE t # s /\ t \in todo
    BY <1>1, <1>5, <2>2, Zenon DEF Pending
  <2>3. CASE t \notin todo
    <3>1. ~ Pending(t)
      BY <1>1, <2>3, Zenon DEF Pending, Exclusive
    <3>2. Fine(t)
      BY <3>1, Zenon DEF Inv
    <3> QED
      BY <1>1, <1>5, <1>7, <3>2, Zenon DEF Fine
  <2> QED
    BY <2>1, <2>2, <2>3, Zenon
<1>9. /\ active' \in Policies /\ applied' \in BOOLEAN /\ incomplete' \in BOOLEAN /\ todo' \subseteq Sandboxes
      /\ active' = active /\ applied' = FALSE
  BY <1>1, <1>5, Zenon DEF Inv
<1>10. \A c \in Calls : ~ HoldsBarrier(c)
  BY <1>5, Zenon DEF Inv, Excluded
<1>11. \A v \in Workers \ {Feed} : at[v] \in Exclusive => job[v].sandbox # job'[Feed].sandbox
  BY <1>1, <1>4, Zenon DEF ShardFree, SameShard
<1> QED
  BY <1>1, <1>2, <1>6, <1>7, <1>8, <1>9, <1>10, <1>11, FeedMoves, Zenon

(* stops those that did not reach the snapshot,                            *)
LEMMA FailClosedTouches ==
    ASSUME Inv, FeedFailClosed, NEW s, s = job[Feed].sandbox PROVE Touches(Feed, s)
<1>1. /\ at[Feed] = "failclose" /\ incomplete' = TRUE /\ Done(Feed, "loop")
      /\ UNCHANGED <<saved, marker, active, staged, applied, todo>>
  BY Zenon DEF FeedFailClosed
<1>2. at[Feed] \in Exclusive /\ Feed \in Workers
  BY <1>1, Working, Zenon DEF Exclusive
<1>3. /\ s \in Sandboxes /\ Sound(s) /\ Left(Feed) /\ InHand(Feed)'
      /\ saved = [t \in Sandboxes |-> saved[t]] /\ live = [t \in Sandboxes |-> live[t]]
      /\ marker = [t \in Sandboxes |-> marker[t]]
  BY <1>1, <1>2, HandFacts, Ends, Zenon DEF InHand, Inv, Shaped
<1>4. ~ applied
  BY <1>2, HandFacts, Zenon DEF Inv
<1>5. /\ saved'[s] = saved[s] /\ saved' = [saved EXCEPT ![s] = saved'[s]]
      /\ marker'[s] = marker[s] /\ marker' = [marker EXCEPT ![s] = marker'[s]]
  BY <1>1, <1>3, OneChanges, Zenon
<1>6. /\ live'[s] \in {live[s], Absent} /\ live' = [live EXCEPT ![s] = live'[s]]
      /\ owed' \subseteq owed /\ stuck \ {s} \subseteq stuck' /\ (live'[s] = Absent \/ s \in stuck')
  <2>1. CASE live' = [live EXCEPT ![s] = Absent] /\ stuck' = stuck \ {s} /\ owed' = owed \ {s}
    BY <1>3, <2>1, OneChanges, Zenon
  <2>2. CASE stuck' = stuck \cup {s} /\ live' = live /\ owed' = owed
    BY <1>3, <2>2, OneChanges, Zenon
  <2> QED
    BY <2>1, <2>2, Zenon DEF FeedFailClosed
<1>7. Local(s)
  BY <1>5, <1>6, Zenon DEF Local
<1>8. Sound(s)'
  BY <1>3, <1>5, <1>6, Zenon DEF Sound, Running
<1>9. Fine(s)'
  BY <1>1, <1>4, <1>6, Zenon DEF Fine
<1> QED
  BY <1>1, <1>2, <1>3, <1>7, <1>8, <1>9, TouchesWhen, Zenon

(* and returns.                                                            *)
LEMMA ReturnKeeps == ASSUME Inv, FeedReturn PROVE Inv'
<1>1. /\ at[Feed] = "loop" /\ todo = {} /\ applied' = ~ incomplete /\ incomplete' = FALSE
      /\ GoTo(Feed, "idle") /\ job' = [job EXCEPT ![Feed] = NoJob]
      /\ UNCHANGED sandboxVars /\ UNCHANGED <<active, staged, todo, ghostVars>>
  BY Zenon DEF FeedReturn, Release, Done
<1>2. at'[Feed] = "idle" /\ "idle" \notin Exclusive /\ "idle" \notin Restarting
  BY <1>1, Working, Zenon DEF GoTo, Inv, Shaped, Exclusive, Restarting
<1>3. FanningOut /\ ~ FanningOut'
  BY <1>1, <1>2, Zenon DEF FanningOut, Exclusive
<1>4. Fed'
  BY <1>2, <1>3, Zenon DEF Fed
<1>5. UNCHANGED <<saved, live, marker, stuck, owed>>
  BY <1>1, Zenon DEF sandboxVars, ghostVars
<1>6. ASSUME NEW s \in Sandboxes PROVE Fine(s)'
  <2>1. ~ Pending(s)
    BY <1>1, Zenon DEF Pending, Exclusive
  <2>2. Fine(s)
    BY <2>1, Zenon DEF Inv
  <2> QED
    BY <1>1, <1>3, <1>5, <2>2, Zenon DEF Fine
<1>7. active \in Snapshots /\ active # Unmanaged
  BY <1>3, FanoutConstants, Zenon DEF Inv, Fed
<1>8. /\ active' \in Policies /\ applied' \in BOOLEAN /\ incomplete' \in BOOLEAN /\ todo' \subseteq Sandboxes
      /\ active' = active
  BY <1>1, Zenon DEF Inv
<1> QED
  BY <1>1, <1>2, <1>3, <1>4, <1>5, <1>6, <1>7, <1>8, FeedMoves, Zenon

-----------------------------------------------------------------------------
(* What happens outside the manager's calls.                               *)

(* A sandbox that exits is stopped, and no longer one that runs on.        *)
LEMMA ExitKeeps == ASSUME Inv, NEW s \in Sandboxes, Exit(s) PROVE Inv'
<1>1. /\ live' = [live EXCEPT ![s] = Absent] /\ stuck' = stuck \ {s}
      /\ UNCHANGED <<saved, marker, at, job, owed>> /\ UNCHANGED <<active, staged, applied, todo, incomplete>>
  BY Zenon DEF Exit, feedVars
<1>2. live = [t \in Sandboxes |-> live[t]]
  BY Zenon DEF Inv, Shaped
<1>3. live' = [t \in Sandboxes |-> live'[t]] /\ live'[s] = Absent /\ \A t \in Sandboxes \ {s} : live'[t] = live[t]
  BY <1>1, <1>2, Zenon
<1>4. FanningOut' = FanningOut /\ \A c \in Calls : HoldsBarrier(c)' = HoldsBarrier(c)
  BY <1>1, Zenon DEF FanningOut, HoldsBarrier
<1>5. Shaped'
  BY <1>1, <1>3, Zenon DEF Inv, Shaped
<1>6. (\A c \in Calls : Called(c)') /\ Fed' /\ Excluded'
  BY <1>1, <1>4, Zenon DEF Inv, Called, Fed, Excluded
<1>7. ASSUME NEW w \in Workers PROVE InHand(w)'
  <2>1. SUFFICES ASSUME at[w] \in Restarting PROVE InHand(w)'
    BY <1>1, Zenon DEF InHand
  <2>2. InHand(w) /\ job[w].sandbox \in Sandboxes
    <3>1. at[w] \in Exclusive
      BY <2>1, Zenon DEF Restarting, Exclusive
    <3> QED
      BY <3>1, HandFacts, Zenon
  <2>3. ~ Running(job[w].sandbox) => ~ Running(job[w].sandbox)'
    BY <1>1, <1>3, <2>2, Zenon DEF Running
  <2> QED
    BY <1>1, <2>2, <2>3, Zenon DEF InHand, Exists
<1>8. ASSUME NEW t \in Sandboxes PROVE Sound(t)' /\ (Fine(t)' \/ Pending(t)')
  <2>1. Sound(t) /\ (Fine(t) \/ Pending(t))
    BY Zenon DEF Inv
  <2>2. live'[t] \in {live[t], Absent} /\ (live'[t] = Absent \/ (t \in stuck => t \in stuck'))
    BY <1>1, <1>3, Zenon
  <2>3. Sound(t)'
    BY <1>1, <2>1, <2>2, Zenon DEF Sound, Running
  <2>4. Fine(t) => Fine(t)'
    BY <1>1, <1>4, <2>2, Zenon DEF Fine
  <2>5. Pending(t) => Pending(t)'
    BY <1>1, <1>4, Zenon DEF Pending
  <2> QED
    BY <2>1, <2>3, <2>4, <2>5, Zenon
<1>9. /\ active' \in Policies /\ applied' \in BOOLEAN /\ incomplete' \in BOOLEAN
      /\ (applied' => active' # Unmanaged /\ ~ FanningOut') /\ todo' \subseteq Sandboxes /\ owed' \subseteq Sandboxes
  BY <1>1, <1>4, Zenon DEF Inv
<1> QED
  BY <1>5, <1>6, <1>7, <1>8, <1>9, Zenon DEF Inv

(* A manager that dies leaves the sandboxes as they are, and forgets the   *)
(* calls, the fan-out and the active snapshot.                             *)
LEMMA CrashKeeps == ASSUME Inv, Crash PROVE Inv'
<1>1. /\ active' = Unmanaged /\ applied' = FALSE /\ todo' = {} /\ incomplete' = FALSE
      /\ at' = [w \in Workers |-> "idle"] /\ job' = [w \in Workers |-> NoJob]
      /\ UNCHANGED <<saved, live, marker, staged, stuck, owed>>
  BY Zenon DEF Crash, sandboxVars, ghostVars
<1>2. \A w \in Workers : at'[w] = "idle"
  BY <1>1, Zenon
<1>3. "idle" \notin Exclusive /\ "idle" \notin Restarting
  BY Zenon DEF Exclusive, Restarting
<1>4. ~ FanningOut'
  BY <1>2, <1>3, Working, Zenon DEF FanningOut
<1>5. Shaped'
  BY <1>1, Zenon DEF Inv, Shaped
<1>6. (\A c \in Calls : Called(c)') /\ Fed'
  BY <1>2, <1>3, <1>4, Working, Zenon DEF Called, Fed
<1>7. Excluded' /\ \A w \in Workers : InHand(w)'
  BY <1>2, <1>3, <1>4, Zenon DEF Excluded, InHand
<1>8. \A t \in Sandboxes : Sound(t)' /\ Fine(t)'
  BY <1>1, <1>4, Zenon DEF Inv, Sound, Running, Fine
<1>9. active' \in Policies /\ applied' \in BOOLEAN /\ incomplete' \in BOOLEAN /\ todo' \subseteq Sandboxes
      /\ owed' \subseteq Sandboxes
  BY <1>1, Zenon DEF Policies, Inv
<1> QED
  BY <1>1, <1>5, <1>6, <1>7, <1>8, <1>9, Zenon DEF Inv

(* Nothing else that the invariant is about changes.                       *)
LEMMA RestKeeps ==
    ASSUME Inv, UNCHANGED <<saved, live, marker, active, staged, applied, todo, incomplete, at, job, stuck, owed>>
    PROVE  Inv'
<1>1. FanningOut' = FanningOut /\ \A c \in Calls : HoldsBarrier(c)' = HoldsBarrier(c)
  BY Zenon DEF FanningOut, HoldsBarrier
<1>2. Shaped' /\ (\A c \in Calls : Called(c)') /\ Fed' /\ Excluded'
  BY <1>1, Zenon DEF Inv, Shaped, Called, Fed, Excluded
<1>3. \A w \in Workers : InHand(w)'
  BY Zenon DEF Inv, InHand, Exists, Running
<1>4. \A t \in Sandboxes : Sound(t)' /\ (Fine(t)' \/ Pending(t)')
  BY <1>1, Zenon DEF Inv, Sound, Running, Fine, Pending
<1> QED
  BY <1>1, <1>2, <1>3, <1>4, Zenon DEF Inv

-----------------------------------------------------------------------------

(* The invariant holds at first,                                           *)
LEMMA InitInv == Init => Inv
<1> SUFFICES ASSUME Init PROVE Inv
  BY Zenon
<1>1. /\ saved = [s \in Sandboxes |-> Absent] /\ live = [s \in Sandboxes |-> Absent]
      /\ marker = [s \in Sandboxes |-> FALSE] /\ active = Unmanaged /\ applied = FALSE
      /\ at = [w \in Workers |-> "idle"] /\ job = [w \in Workers |-> NoJob] /\ todo = {} /\ incomplete = FALSE
      /\ owed = {}
  BY Zenon DEF Init
<1>2. (\A w \in Workers : at[w] = "idle") /\ \A s \in Sandboxes : saved[s] = Absent /\ live[s] = Absent /\ marker[s] = FALSE
  BY <1>1, Zenon
<1>3. "idle" \notin Exclusive /\ "idle" \notin Restarting
  BY Zenon DEF Exclusive, Restarting
<1>4. ~ FanningOut
  BY <1>2, <1>3, Working, Zenon DEF FanningOut
<1>5. Shaped
  BY <1>1, Zenon DEF Shaped
<1>6. (\A c \in Calls : Called(c)) /\ Fed
  BY <1>2, <1>3, <1>4, Working, Zenon DEF Called, Fed
<1>7. Excluded /\ \A w \in Workers : InHand(w)
  BY <1>2, <1>3, <1>4, Zenon DEF Excluded, InHand
<1>8. \A t \in Sandboxes : Sound(t) /\ Fine(t)
  BY <1>1, <1>2, <1>4, Zenon DEF Sound, Fine
<1>9. active \in Policies
  BY <1>1, Zenon DEF Policies
<1> QED
  BY <1>1, <1>5, <1>6, <1>7, <1>8, <1>9, Zenon DEF Inv

(* and every step keeps it.                                                *)
LEMMA NextInv == Inv /\ [Next]_vars => Inv'
<1> SUFFICES ASSUME Inv, [Next]_vars PROVE Inv'
  BY Zenon
<1>1. ASSUME NEW w \in Workers, Rollout(w) PROVE Inv'
  <2>1. PICK s : s = job[w].sandbox
    BY Zenon
  <2>2. Touches(w, s)
    BY <1>1, <2>1, DecisionsTouch, LiveTouches, RestartTouches, Zenon DEF Rollout
  <2> QED
    BY <2>2, TouchesKeeps, Zenon
<1>2. ASSUME NEW c \in Calls, CallStep(c) \/ \E j \in Requests : CallBegin(c, j) PROVE Inv'
  <2>1. c \in Workers
    BY Working, Zenon
  <2>2. ASSUME Create(c) \/ Start(c) \/ Stop(c) \/ Delete(c) PROVE Inv'
    <3>1. PICK s : s = job[c].sandbox
      BY Zenon
    <3> QED
      BY <2>1, <2>2, <3>1, LifecycleTouches, TouchesKeeps, Zenon
  <2> QED
    BY <1>1, <1>2, <2>1, <2>2, CallKeeps, Zenon DEF CallStep
<1>3. ASSUME FeedStep \/ \E p \in Snapshots : FeedBegin(p) PROVE Inv'
  <2>1. Feed \in Workers
    BY Working, Zenon
  <2>2. ASSUME FeedFailClosed PROVE Inv'
    <3>1. PICK s : s = job[Feed].sandbox
      BY Zenon
    <3> QED
      BY <2>1, <2>2, <3>1, FailClosedTouches, TouchesKeeps, Zenon
  <2> QED
    BY <1>1, <1>3, <2>1, <2>2, BeginKeeps, PublishKeeps, TargetKeeps, ReturnKeeps, Zenon DEF FeedStep
<1>4. ASSUME NEW s \in Sandboxes, ExecBegin(s) \/ ExecEnd(s) PROVE Inv'
  <2>1. UNCHANGED <<saved, live, marker, active, staged, applied, todo, incomplete, at, job, stuck, owed>>
    BY <1>4, Zenon DEF ExecBegin, ExecEnd, sandboxVars, feedVars, ghostVars
  <2> QED
    BY <2>1, RestKeeps, Zenon
<1>5. ASSUME Boot PROVE Inv'
  <2>1. UNCHANGED <<saved, live, marker, active, staged, applied, todo, incomplete, at, job, stuck, owed>>
    BY <1>5, Zenon DEF Boot, sandboxVars, feedVars, ghostVars
  <2> QED
    BY <2>1, RestKeeps, Zenon
<1>6. ASSUME UNCHANGED vars PROVE Inv'
  <2>1. UNCHANGED <<saved, live, marker, active, staged, applied, todo, incomplete, at, job, stuck, owed>>
    BY <1>6, Zenon DEF vars, sandboxVars, feedVars, ghostVars
  <2> QED
    BY <2>1, RestKeeps, Zenon
<1> QED
  BY <1>2, <1>3, <1>4, <1>5, <1>6, ExitKeeps, CrashKeeps, Zenon DEF Next

(* In every state the sandboxes, the files and markers, and the positions  *)
(* of the calls and of the feed fit together as the invariant says.        *)
THEOREM FanoutInvariant == Spec => []Inv
  BY InitInv, NextInv, PTL DEF Spec

(* A fan-out that is acknowledged reached every sandbox, and one that is   *)
(* not leaves none running under what it replaced, unless it said so       *)
(* (applyReceivedOrganizationPolicy, RolloutOrganizationPolicy).           *)
THEOREM RolloutsHonest == Spec => []RolloutHonest
<1>1. Inv => RolloutHonest
  <2> SUFFICES ASSUME Inv PROVE RolloutHonest
    BY Zenon
  <2>1. ASSUME applied, NEW s \in Sandboxes, saved[s] # Absent
        PROVE  saved[s] = active /\ live[s] \in {active, Absent}
    <3>1. ~ FanningOut
      BY <2>1, Zenon DEF Inv
    <3>2. Sound(s) /\ Fine(s)
      BY <3>1, Zenon DEF Inv, Pending
    <3> QED
      BY <2>1, <3>2, Zenon DEF Sound, Fine
  <2>2. ASSUME active # Unmanaged, ~ FanningOut, NEW s \in Sandboxes
        PROVE  live[s] \in {active, Absent} \/ s \in stuck
    BY <2>2, Zenon DEF Inv, Pending, Fine
  <2> QED
    BY <2>1, <2>2, Zenon DEF RolloutHonest, AppliedEverywhere, FailClosed, Exists
<1> QED
  BY <1>1, FanoutInvariant, PTL

(* A sandbox that a controlled restart has stopped keeps its marker until  *)
(* it runs again, whatever fails (RolloutOrganizationPolicy).              *)
THEOREM ResumesRemembered == Spec => []ResumeRemembered
<1>1. Inv => ResumeRemembered
  BY Zenon DEF Inv, Sound, ResumeRemembered
<1> QED
  BY <1>1, FanoutInvariant, PTL
===============================================================================
