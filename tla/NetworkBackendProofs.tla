------------------------ MODULE NetworkBackendProofs ------------------------
(***************************************************************************)
(* Both sides of the port calls, and with them every step, keep the        *)
(* invariant of NetworkWorkerProofs.  From it follow what the supervisor   *)
(* knows when its calls return, when it stops a worker, and that SetPolicy *)
(* is atomic to its callers (NetworkBackend).                              *)
(***************************************************************************)
EXTENDS NetworkWorkerProofs

(* A port call that returns tells the truth about the listeners.           *)
LEMMA PortReturnsWell ==
    ASSUME Inv, NEW call, NEW success, PortDone(call, success), NoPortsLeft,
           UNCHANGED <<workerVars, policyCall, mirror>>, portCall.at # "idle",
           portCall' \in PortCalls', portCall'.at = "idle", portCall'.txn = portCall.txn,
           call.publish = portCall.publish, call.forward = portCall.forward,
           Outcome = "applied" => success,
           Outcome # "applied" /\ success => Changed = bound
    PROVE  Inv'
<1> USE DEF Inv
<1>1. bound' = IF success THEN Changed ELSE bound
  BY Zenon DEF PortDone, Changed
<1>2. forwards = bound'
  BY <1>1, Zenon DEF PortInv, Opened
<1> DEFINE any == [from |-> "port", awaited |-> TRUE, op |-> "list", txn |-> 0,
                   publish |-> TRUE, forward |-> portCall.forward]
<1>3. any \in PortRequests
  BY Zenon DEF PortRequests, PortOps, PortInv, PortNumbers
<1> HIDE DEF any
<1>4. Asked("port", any)
  BY HangAsked, Zenon DEF PortDone, Callers
<1>5. Typed' /\ Wire' /\ PolicyInv'
  <2>1. bound' \subseteq Forwards
    BY <1>2, Zenon DEF Typed
  <2>2. UNCHANGED <<workerVars, policyCall, mirror, alive>>
    BY Zenon DEF PortDone
  <2>3. portCall'.at # "stopped"
    BY Zenon
  <2> QED
    BY <1>3, <1>4, <2>1, <2>2, <2>3, PortAskKeeps, Zenon
<1>6. PortRequestsSound'
  <2>0. inbox' = Abandoned("port") /\ DOMAIN inbox' = DOMAIN inbox
    BY AbandonedKeeps, Zenon DEF PortDone, Hang, Typed, Requests, Callers
  <2>1. \A j \in DOMAIN inbox : Kin(inbox'[j], inbox[j], "port")
    BY <2>0, AbandonedKeeps, Zenon DEF Typed, Requests, Callers
  <2> QED
    BY <2>0, <2>1 DEF Kin, NoPortsLeft, PortRequestsSound
<1>7. PortAnswer'
  BY <1>4, Zenon DEF PortAnswer, Asked
<1>8. UNCHANGED <<portTxns, forwards>>
  BY Zenon DEF workerVars
<1>9. PortNumbers' /\ OneListener' /\ Opened'
  BY <1>2, <1>8, Zenon DEF PortInv, PortNumbers, OneListener, Opened
<1> QED
  BY <1>5, <1>6, <1>7, <1>9, Zenon DEF PortInv

(* A step of the port call that changes nothing else of it.                *)
PortResuming(call, r) ==
    /\ call.txn = portCall.txn /\ call.publish = portCall.publish
    /\ call.forward = portCall.forward /\ call.attempt = portCall.attempt
    /\ call \in PortCalls /\ portCall.txn \in Nat \ {0} /\ portCall.forward \in Forwards
    /\ \/ NoPortsLeft /\ answer["port"].ok /\ r = answer["port"].reply
       \/ ~ r.ok

(* A return of Client.call gives the port's handler an answer that holds,  *)
(* or an error.                                                            *)
LEMMA PortResumed ==
    ASSUME Inv, portCall.at # "idle", NEW r \in Answered("port") \cup Unanswered(portCall)
    PROVE  PortResuming([portCall EXCEPT !.lost = @ + r.lost], r.reply)
<1>1. /\ r.lost \in {0, 1}
      /\ \/ NoPortsLeft /\ answer["port"].ok /\ r.reply = answer["port"].reply
         \/ ~ r.reply.ok
  BY DEF Answered, Unanswered, Inv, Wire, Refusal, NoPortsLeft
<1>2. portCall \in PortCalls /\ portCall.txn > 0 /\ portCall.forward \in Forwards
  BY Zenon DEF Inv, Typed, PortInv, PortNumbers
<1>3. portCall.lost + r.lost \in Nat
  BY <1>1, <1>2 DEF PortCalls
<1> QED
  BY <1>1, <1>2, <1>3 DEF PortCalls, PortResuming

(* A port call that asks stays typed,                                      *)
LEMMA PortAskTypes ==
    ASSUME NEW call \in PortCalls, call.forward = portCall.forward,
           NEW step \in {"mutate", "mutated", "list"}, NEW op, AskPort(call, step, op)
    PROVE  /\ portCall' \in PortCalls' /\ portCall'.at = step
           /\ portCall'.txn = call.txn /\ portCall'.publish = call.publish
           /\ portCall'.forward = call.forward /\ portCall'.attempt = call.attempt
  BY Zenon DEF AskPort, PortCalls

(* and so does one that returns.                                           *)
LEMMA PortDoneTypes ==
    ASSUME NEW call \in PortCalls, call.forward = portCall.forward, NEW success,
           PortDone(call, success)
    PROVE  /\ portCall' \in PortCalls' /\ portCall'.at = "idle"
           /\ portCall'.txn = call.txn
  BY Zenon DEF PortDone, PortCalls

(* Worker.Publish and Unpublish start with a mutation.                     *)
LEMMA MutateKeeps ==
    ASSUME Inv, NEW f \in Forwards, NEW publish \in BOOLEAN, Mutate(f, publish)
    PROVE  Inv'
<1> DEFINE call == [portCall EXCEPT !.txn = @ + 1, !.publish = publish, !.forward = f, !.lost = 0]
<1>1. /\ AskPort(call, "mutate", "mutate") /\ UNCHANGED <<workerVars, policyCall, mirror>>
      /\ portCall.at = "idle"
  BY Zenon DEF Mutate
<1>2. portCall \in PortCalls /\ portCall.txn \in Nat
  BY Zenon DEF Inv, Typed, PortCalls
<1>3. /\ call.txn = portCall.txn + 1 /\ call.publish = publish /\ call.forward = f
      /\ portCall' \in PortCalls' /\ portCall'.at = "mutate"
      /\ portCall'.txn = call.txn /\ portCall'.publish = publish /\ portCall'.forward = f
  <2>1. call = [at |-> portCall.at, txn |-> portCall.txn + 1, publish |-> publish, forward |-> f,
                attempt |-> portCall.attempt, lost |-> 0]
    <3> DEFINE a == [portCall EXCEPT !.txn = @ + 1]
               b == [a EXCEPT !.publish = publish]
               c == [b EXCEPT !.forward = f]
    <3>1. a = [at |-> portCall.at, txn |-> portCall.txn + 1, publish |-> portCall.publish,
               forward |-> portCall.forward, attempt |-> portCall.attempt, lost |-> portCall.lost]
      BY <1>2 DEF PortCalls
    <3> HIDE DEF a
    <3>2. b = [at |-> portCall.at, txn |-> portCall.txn + 1, publish |-> publish,
               forward |-> portCall.forward, attempt |-> portCall.attempt, lost |-> portCall.lost]
      BY <3>1
    <3> HIDE DEF b
    <3>3. c = [at |-> portCall.at, txn |-> portCall.txn + 1, publish |-> publish,
               forward |-> f, attempt |-> portCall.attempt, lost |-> portCall.lost]
      BY <3>2
    <3>4. call = [c EXCEPT !.lost = 0]
      BY Zenon DEF a, b
    <3> HIDE DEF c, call
    <3> QED
      BY <3>3, <3>4, Zenon
  <2> HIDE DEF call
  <2>2. portCall' = [at |-> "mutate", txn |-> portCall.txn + 1, publish |-> publish, forward |-> f,
                     attempt |-> portCall.attempt, lost |-> 0]
    BY <1>1, <2>1, Zenon DEF AskPort
  <2> QED
    BY <1>2, <2>1, <2>2 DEF PortCalls
<1> HIDE DEF call
<1>4. NoPortsLeft
  BY <1>1, Zenon DEF Inv, PortInv, PortRequestsSound, NoPortsLeft
<1> QED
  BY <1>1, <1>2, <1>3, <1>4, PortAsks DEF PortOps

(* What each return of a port call leads to.                               *)
LEMMA OnMutateKeeps ==
    ASSUME Inv, NEW call, NEW r, PortResuming(call, r), OnMutate(call, r), portCall.at = "mutate",
           UNCHANGED <<workerVars, policyCall, mirror>>
    PROVE  Inv' /\ alive' = alive
<1>1. CASE r.ok
  <2> DEFINE success == r.state = "applied"
  <2>1. PortDone(call, success)
    BY <1>1, Zenon DEF OnMutate
  <2>2. NoPortsLeft /\ (success <=> Outcome = "applied")
    BY <1>1, Zenon DEF PortResuming, Inv, PortInv, PortAnswer
  <2> HIDE DEF success
  <2>3. Inv'
    BY <2>1, <2>2, PortDoneTypes, PortReturnsWell, Zenon DEF PortResuming
  <2> QED
    BY <2>1, <2>3, Zenon DEF PortDone
<1>2. CASE ~ r.ok
  <2>1. AskPort(call, "mutated", "portStatus")
    BY <1>2, Zenon DEF OnMutate
  <2>2. Inv'
    BY <2>1, PortAskTypes, PortAsks, Zenon DEF PortResuming, PortOps, PortCalls
  <2> QED
    BY <2>1, <2>2, Zenon DEF AskPort
<1> QED
  BY <1>1, <1>2, Zenon

(* The status call after a mutation that failed keeps the invariant.       *)
LEMMA OnMutatedKeeps ==
    ASSUME Inv, NEW call, NEW r, PortResuming(call, r), OnMutated(call, r), portCall.at = "mutated",
           UNCHANGED <<workerVars, policyCall, mirror>>
    PROVE  Inv' /\ alive' = alive
<1>1. CASE r.ok /\ r.state # "unknown"
  <2> DEFINE success == r.state = "applied"
  <2>1. PortDone(call, success)
    BY <1>1, Zenon DEF OnMutated
  <2>2. NoPortsLeft /\ (success <=> Outcome = "applied")
    BY <1>1, Zenon DEF PortResuming, Inv, PortInv, PortAnswer
  <2> HIDE DEF success
  <2>3. Inv'
    BY <2>1, <2>2, PortDoneTypes, PortReturnsWell, Zenon DEF PortResuming
  <2> QED
    BY <2>1, <2>3, Zenon DEF PortDone
<1>2. CASE ~ (r.ok /\ r.state # "unknown")
  <2>0. RetryMutate(call)
    BY <1>2, Zenon DEF OnMutated
  <2>1. CASE call.attempt = 0
    <3> DEFINE next == [call EXCEPT !.attempt = 1]
    <3>1. AskPort(next, "mutate", "mutate")
      BY <2>0, <2>1, Zenon DEF RetryMutate
    <3>2. /\ next \in PortCalls /\ next.txn = portCall.txn /\ next.publish = portCall.publish
          /\ next.forward = portCall.forward
      BY Zenon DEF PortResuming, PortCalls
    <3> HIDE DEF next
    <3>3. Inv'
      BY <3>1, <3>2, PortAskTypes, PortAsks, Zenon DEF PortResuming, PortOps, PortCalls
    <3> QED
      BY <3>1, <3>3, Zenon DEF AskPort
  <2>2. CASE call.attempt # 0
    <3>1. AskPort(call, "list", "list") /\ call.attempt = 1
      BY <2>0, <2>2, Zenon DEF RetryMutate, PortResuming, PortCalls
    <3>2. Inv'
      BY <3>1, PortAskTypes, PortAsks, Zenon DEF PortResuming, PortOps, PortCalls
    <3> QED
      BY <3>1, <3>2, Zenon DEF AskPort
  <2> QED
    BY <2>1, <2>2, Zenon
<1> QED
  BY <1>1, <1>2, Zenon

(* Stopping the worker for a port leaves what is known as it is.           *)
LEMMA PortStops ==
    ASSUME Inv, NEW call \in PortCalls, stopAfterAmbiguousPort(call), portCall.at # "idle",
           UNCHANGED <<workerVars, policyCall, mirror>>,
           call.txn = portCall.txn, call.publish = portCall.publish, call.forward = portCall.forward
    PROVE  Inv'
<1> USE DEF Inv
<1>1. /\ portCall' \in PortCalls' /\ portCall'.at = "stopped" /\ portCall'.txn = portCall.txn
      /\ portCall'.publish = portCall.publish /\ portCall'.forward = portCall.forward
  BY Zenon DEF stopAfterAmbiguousPort, PortCalls
<1>2. inbox' = <<>> /\ alive' = FALSE /\ UNCHANGED <<answer, bound>>
  BY Zenon DEF stopAfterAmbiguousPort
<1>3. Typed'
  <2>1. inbox' \in Seq(PolicyRequests \cup PortRequests)
    <3>1. inbox' = <<>>
      BY <1>2, Zenon
    <3> QED
      BY <3>1
  <2>2. alive' \in BOOLEAN
    BY <1>2, Zenon
  <2>3. DOMAIN answer' = Callers /\ bound' \subseteq Forwards
    BY <1>2, Zenon DEF Typed
  <2> QED
    BY <1>1, <2>1, <2>2, <2>3, Zenon DEF Typed, workerVars
<1>4. Wire'
  BY <1>2 DEF Wire
<1>5. PolicyInv'
  <2>1. RequestsSound'
    BY <1>2 DEF RequestsSound
  <2>2. Numbers' /\ Enforces' /\ PolicyAnswer'
    BY <1>2 DEF PolicyInv, Numbers, Enforces, PolicyAnswer, AnswerHolds, workerVars
  <2> QED
    BY <2>1, <2>2, Zenon DEF PolicyInv
<1>6. Outcome' = Outcome /\ Changed' = Changed
  BY <1>1, <1>2, Zenon DEF Outcome, Remembered, Changed, workerVars
<1>7. PortRequestsSound'
  BY <1>2 DEF PortRequestsSound
<1>8. PortNumbers' /\ OneListener' /\ PortAnswer' /\ Opened'
  BY <1>1, <1>2, <1>6, Zenon DEF PortInv, PortNumbers, OneListener, PortAnswer, Opened, workerVars
<1> QED
  BY <1>3, <1>4, <1>5, <1>7, <1>8, Zenon DEF PortInv

(* The list of forwards decides: the change was applied, or it would       *)
(* change nothing, or it was not applied.                                  *)
LEMMA OnListKeeps ==
    ASSUME Inv, NEW call, NEW r, PortResuming(call, r), OnList(call, r), portCall.at = "list",
           UNCHANGED <<workerVars, policyCall, mirror>>
    PROVE  Inv' /\ (alive /\ ~ alive' => portCall'.attempt = 1)
<1>1. CASE r.ok
  <2> DEFINE success == portMutationEffective(call, r.forwards)
  <2>0. NoPortsLeft /\ r.forwards = forwards
    BY <1>1, Zenon DEF PortResuming, Inv, PortInv, PortAnswer
  <2>1. PortDone(call, success)
    BY <1>1, Zenon DEF OnList
  <2>2. success <=> IF portCall.publish THEN portCall.forward \in forwards
                    ELSE \A f \in forwards : ~ SameListener(f, portCall.forward)
    BY <2>0, Zenon DEF portMutationEffective, PortResuming
  <2>3. Outcome = "applied" => success
    BY <2>2, Zenon DEF Inv, PortInv, Opened, Changed
  <2>4. Outcome # "applied" /\ success => Changed = bound
    <3> SUFFICES ASSUME Outcome # "applied", success
                 PROVE  Changed = bound
      BY Zenon
    <3>1. forwards = bound
      BY Zenon DEF Inv, PortInv, Opened
    <3>2. \A f \in bound : SameListener(f, portCall.forward) =>
            portCall.publish /\ f = portCall.forward /\ portCall.forward \in bound
      BY <2>2, <3>1, Zenon DEF Inv, PortInv, OneListener
    <3> QED
      BY <2>2, <3>1, <3>2, Zenon DEF Changed
  <2> HIDE DEF success
  <2>5. Inv'
    BY <2>0, <2>1, <2>3, <2>4, PortDoneTypes, PortReturnsWell, Zenon DEF PortResuming
  <2> QED
    BY <2>1, <2>5, Zenon DEF PortDone
<1>2. CASE ~ r.ok
  <2>1. stopAfterAmbiguousPort(call) /\ call.attempt = 1
    BY <1>2, Zenon DEF OnList, PortResuming, Inv, PortInv, PortNumbers
  <2>2. Inv'
    BY <2>1, PortStops, Zenon DEF PortResuming
  <2> QED
    BY <2>1, <2>2, Zenon DEF stopAfterAmbiguousPort, PortResuming, PortCalls
<1> QED
  BY <1>1, <1>2, Zenon

(* What a port request can do: nothing, or the change and its record.      *)
PortKeeps(r, e) ==
    /\ e.forwards = forwards /\ e.portTxns = portTxns
    /\ \/ r.op # "portStatus" /\ e.reply = Refusal
       \/ /\ r.op = "mutate" /\ Remembered(r.txn)
          /\ e.reply = [ok |-> TRUE, state |-> RememberedState(r.txn)]
       \/ /\ r.op = "portStatus"
          /\ e.reply = [ok |-> TRUE,
                        state |-> IF Remembered(r.txn) THEN RememberedState(r.txn) ELSE "unknown"]
       \/ /\ r.op = "list"
          /\ e.reply = [ok |-> TRUE, state |-> "listed", forwards |-> forwards]
PortApplies(r, e, fault) ==
    LET after == PortChange(r, fault)
        state == IF after # forwards THEN "applied" ELSE "rejected"
    IN  /\ r.op = "mutate" /\ ~ Remembered(r.txn)
        /\ e.forwards = after
        /\ e.portTxns = rememberPortTransaction([txn |-> r.txn, state |-> state])
        /\ e.reply = [ok |-> TRUE, state |-> state]

(* handlePort does one of the two.                                         *)
LEMMA PortEffects ==
    ASSUME NEW r \in PortRequests, NEW fault, NEW e, e = PortEffect(r, fault)
    PROVE  PortKeeps(r, e) \/ PortApplies(r, e, fault)
<1>1. CASE r.op = "mutate"
  <2> DEFINE after == PortChange(r, fault)
             state == IF after # forwards THEN "applied" ELSE "rejected"
  <2>1. e = applyPortMutation(r, fault)
    BY <1>1, Zenon DEF PortEffect
  <2>2. \/ e = PortsKept(Refusal)
        \/ Remembered(r.txn) /\ e = PortsKept([ok |-> TRUE, state |-> RememberedState(r.txn)])
        \/ /\ ~ Remembered(r.txn)
           /\ e = [reply |-> [ok |-> TRUE, state |-> state], forwards |-> after,
                   portTxns |-> rememberPortTransaction([txn |-> r.txn, state |-> state])]
    BY <2>1, Zenon DEF applyPortMutation
  <2>3. CASE e = PortsKept(Refusal)
    BY <1>1, <2>3 DEF PortsKept, PortKeeps
  <2>4. CASE Remembered(r.txn) /\ e = PortsKept([ok |-> TRUE, state |-> RememberedState(r.txn)])
    BY <1>1, <2>4 DEF PortsKept, PortKeeps
  <2>5. CASE /\ ~ Remembered(r.txn)
             /\ e = [reply |-> [ok |-> TRUE, state |-> state], forwards |-> after,
                     portTxns |-> rememberPortTransaction([txn |-> r.txn, state |-> state])]
    BY <1>1, <2>5 DEF PortApplies
  <2> QED
    BY <2>2, <2>3, <2>4, <2>5, Zenon
<1>2. CASE r.op = "portStatus"
  BY <1>2, Zenon DEF PortEffect, portStatus, PortsKept, PortKeeps
<1>3. CASE r.op = "list"
  BY <1>3, Zenon DEF PortEffect, listPorts, PortsKept, PortKeeps
<1> QED
  BY <1>1, <1>2, <1>3, Zenon DEF PortRequests, PortOps

(* The record of the call's transaction is the last one.                   *)
LEMMA Records ==
    ASSUME Typed, PortNumbers, ~ Remembered(portCall.txn),
           NEW state \in {"applied", "rejected"},
           portTxns' = rememberPortTransaction([txn |-> portCall.txn, state |-> state]),
           UNCHANGED portCall
    PROVE  /\ portTxns' \in Seq(PortEntries) /\ Len(portTxns') <= CacheSize
           /\ \A i \in DOMAIN portTxns' :
                \/ portTxns'[i].txn < portCall.txn
                \/ portTxns'[i].txn = portCall.txn /\ i = Len(portTxns')
           /\ Outcome' = state
<1> DEFINE entry == [txn |-> portCall.txn, state |-> state]
           kept == IF Len(portTxns) = CacheSize THEN Tail(portTxns) ELSE portTxns
<1>0. /\ portTxns \in Seq(PortEntries) /\ CacheSize \in Nat \ {0} /\ portCall.txn \in Nat
      /\ Len(portTxns) \in Nat /\ Len(portTxns) <= CacheSize
  BY WorkerConstants DEF Typed, PortCalls, PortNumbers
<1>1. entry \in PortEntries /\ entry.txn = portCall.txn /\ entry.state = state
  BY <1>0, Zenon DEF PortEntries
<1>2. \A i \in DOMAIN portTxns : portTxns[i].txn < portCall.txn
  BY Zenon DEF PortNumbers, Remembered
<1>3. portTxns' = Append(kept, entry)
  BY Zenon DEF rememberPortTransaction
<1> HIDE DEF entry
<1>4. /\ kept \in Seq(PortEntries) /\ Len(kept) \in Nat /\ Len(kept) < CacheSize
      /\ \A i \in DOMAIN kept : kept[i].txn < portCall.txn
  <2>1. CASE Len(portTxns) = CacheSize
    <3>1. kept = Tail(portTxns) /\ portTxns # <<>>
      BY <1>0, <2>1, Zenon
    <3> HIDE DEF kept
    <3>2. /\ kept \in Seq(PortEntries) /\ Len(kept) = Len(portTxns) - 1
          /\ \A i \in 1 .. Len(portTxns) - 1 : kept[i] = portTxns[i + 1]
      BY <1>0, <3>1
    <3>3. ASSUME NEW i \in DOMAIN kept
          PROVE  kept[i].txn < portCall.txn
      <4>1. i \in 1 .. Len(portTxns) - 1 /\ i + 1 \in DOMAIN portTxns
        BY <1>0, <3>2, <3>3
      <4> QED
        BY <1>2, <3>2, <4>1, Zenon
    <3> QED
      BY <1>0, <2>1, <3>2, <3>3
  <2>2. CASE Len(portTxns) # CacheSize
    BY <1>0, <1>2, <2>2
  <2> QED
    BY <2>1, <2>2, Zenon
<1> HIDE DEF kept
<1>5. /\ portTxns' \in Seq(PortEntries) /\ Len(portTxns') = Len(kept) + 1
      /\ portTxns'[Len(kept) + 1] = entry
      /\ \A i \in 1 .. Len(kept) : portTxns'[i] = kept[i]
  <2>1. entry \in PortEntries /\ kept \in Seq(PortEntries)
    BY <1>1, <1>4, Zenon
  <2>2. /\ Append(kept, entry) \in Seq(PortEntries) /\ Len(Append(kept, entry)) = Len(kept) + 1
        /\ Append(kept, entry)[Len(kept) + 1] = entry
        /\ \A i \in 1 .. Len(kept) : Append(kept, entry)[i] = kept[i]
    BY <2>1
  <2> QED
    BY <1>3, <2>2, Zenon
<1>6. \A i \in DOMAIN portTxns' :
        \/ portTxns'[i].txn < portCall.txn
        \/ portTxns'[i].txn = portCall.txn /\ i = Len(portTxns')
  <2>1. Len(kept) \in Nat /\ DOMAIN portTxns' = 1 .. Len(kept) + 1 /\ DOMAIN kept = 1 .. Len(kept)
    BY <1>4, <1>5
  <2> QED
    BY <1>1, <1>4, <1>5, <2>1
<1>7. Remembered(portCall.txn)'
  BY <1>1, <1>4, <1>5 DEF Remembered
<1> QED
  BY <1>0, <1>1, <1>4, <1>5, <1>6, <1>7 DEF Outcome

(* A change that was made is the one asked for.                            *)
LEMMA ChangeMade ==
    ASSUME Inv, NEW r \in PortRequests, NEW fault, forwards = bound,
           r.publish = portCall.publish, r.forward = portCall.forward,
           NEW after, after = PortChange(r, fault)
    PROVE  /\ after = forwards \/ after = Changed
           /\ after \subseteq Forwards
           /\ \A f, g \in after : SameListener(f, g) => f = g
<1>0. r.forward \in Forwards /\ forwards \subseteq Forwards /\ OneListener
  BY Zenon DEF Inv, Typed, PortInv, PortRequests
<1>1. CASE after = forwards
  BY <1>0, <1>1, Zenon DEF OneListener
<1>2. CASE ~ r.publish /\ after = {f \in forwards : ~ SameListener(f, r.forward)}
  BY <1>0, <1>2, Zenon DEF OneListener, Changed
<1>3. CASE /\ r.publish /\ after = forwards \cup {r.forward}
           /\ \A f \in forwards : ~ SameListener(f, r.forward)
  <2>1. \A f, g \in after : SameListener(f, g) => f = g
    BY <1>0, <1>3, Zenon DEF OneListener, SameListener
  <2> QED
    BY <1>0, <1>3, <2>1, Zenon DEF Changed
<1> QED
  BY <1>1, <1>2, <1>3, Zenon DEF PortChange

(* The worker's handling of a port request keeps the invariant.            *)
LEMMA HandlePortKeeps ==
    ASSUME Inv, NEW r \in PortRequests, NEW fault, NEW e, Taken(r, e.reply),
           PortKeeps(r, e) \/ PortApplies(r, e, fault),
           forwards' = e.forwards, portTxns' = e.portTxns,
           UNCHANGED <<enforced, current, pending, alive, policyCall, portCall, mirror, bound>>
    PROVE  Inv'
<1> USE DEF Inv
<1>0. /\ ~ answer["port"].ok /\ r.from = "port"
      /\ answer'["port"].ok => r.awaited /\ answer'["port"].reply = e.reply
      /\ answer'["policy"] = answer["policy"]
      /\ r.txn = portCall.txn /\ r.publish = portCall.publish /\ r.forward = portCall.forward
      /\ portCall.at \in {"mutate", "mutated", "list"}
      /\ r.awaited => <<portCall.at, r.op>> \in
             {<<"mutate", "mutate">>, <<"mutated", "portStatus">>, <<"list", "list">>}
  BY Zenon DEF Taken, PortInv, PortRequestsSound, PortRequests, Callers
<1>1. Wire' /\ RequestsSound' /\ PortRequestsSound'
  BY TakenKeepsRequests, Zenon DEF Taken, PolicyInv, PortInv
<1>2. PolicyInv'
  <2>1. Numbers' /\ Enforces'
    BY Zenon DEF PolicyInv, Numbers, Enforces
  <2>2. PolicyAnswer'
    BY <1>0, Zenon DEF PolicyInv, PolicyAnswer, AnswerHolds
  <2> QED
    BY <1>1, <2>1, <2>2, Zenon DEF PolicyInv
<1>3. CASE PortKeeps(r, e)
  <2>1. UNCHANGED <<forwards, portTxns>>
    BY <1>3, Zenon DEF PortKeeps
  <2>2. Typed'
    BY <2>1, Zenon DEF Typed, Taken, Requests, PortCalls
  <2>3. Outcome' = Outcome /\ Changed' = Changed
    BY <2>1, Zenon DEF Outcome, Remembered, Changed
  <2>4. PortAnswer'
    BY <1>0, <1>3, <2>1, <2>3, OutcomeRemembered DEF PortKeeps, PortAnswer, PortInv, Refusal
  <2>5. PortNumbers' /\ OneListener' /\ Opened'
    BY <2>1, <2>3, Zenon DEF PortInv, PortNumbers, OneListener, Opened
  <2> QED
    BY <1>1, <1>2, <2>2, <2>4, <2>5, Zenon DEF PortInv
<1>4. CASE PortApplies(r, e, fault)
  <2> DEFINE after == PortChange(r, fault)
             state == IF after # forwards THEN "applied" ELSE "rejected"
  <2>1. /\ forwards' = after /\ ~ Remembered(portCall.txn) /\ r.op = "mutate"
        /\ portTxns' = rememberPortTransaction([txn |-> portCall.txn, state |-> state])
        /\ e.reply = [ok |-> TRUE, state |-> state]
    BY <1>0, <1>4, Zenon DEF PortApplies
  <2>2. state \in {"applied", "rejected"} /\ (state = "applied" <=> after # forwards)
    BY Zenon
  <2>3. Outcome = "unknown" /\ forwards = bound
    BY <2>1, OutcomeRemembered, Zenon DEF PortInv, Opened
  <2>4. /\ after = forwards \/ after = Changed
        /\ after \subseteq Forwards
        /\ \A f, g \in after : SameListener(f, g) => f = g
    BY <1>0, <2>3, ChangeMade, Zenon
  <2> HIDE DEF state, after
  <2>5. /\ portTxns' \in Seq(PortEntries) /\ Len(portTxns') <= CacheSize
        /\ \A i \in DOMAIN portTxns' :
             \/ portTxns'[i].txn < portCall.txn
             \/ portTxns'[i].txn = portCall.txn /\ i = Len(portTxns')
        /\ Outcome' = state
    BY <2>1, <2>2, Records, Zenon DEF PortInv
  <2>6. Typed'
    BY <2>1, <2>4, <2>5, Zenon DEF Typed, Taken, Requests, PortCalls
  <2>7. PortAnswer'
    BY <1>0, <2>1, <2>2, <2>5 DEF PortAnswer
  <2>8. Changed' = Changed
    BY Zenon DEF Changed
  <2>9. OneListener'
    BY <2>1, <2>4, Zenon DEF OneListener
  <2>11. Opened'
    BY <1>0, <2>1, <2>2, <2>3, <2>4, <2>5, <2>8, Zenon DEF Opened
  <2>10. PortNumbers'
    BY <2>5, Zenon DEF PortInv, PortNumbers
  <2>12. PortInv'
    BY <1>1, <2>7, <2>9, <2>10, <2>11, Zenon DEF PortInv
  <2> QED
    BY <1>1, <1>2, <2>6, <2>12, Zenon
<1> QED
  BY <1>3, <1>4, Zenon

(* Before a commit was sent, no return stops the worker.                   *)
LEMMA EarlyLives ==
    ASSUME NEW call, NEW r,
           OnSync(call, r) \/ OnClear(call, r) \/ OnCleared(call, r) \/ OnPrepare(call, r)
             \/ OnPrepared(call, r) \/ OnCommit(call, r)
    PROVE  alive' = alive
  BY Zenon DEF OnSync, OnClear, OnCleared, OnPrepare, OnPrepared, OnCommit, PrepareNext, AskPolicy,
     PolicyDone

(* Every return of SetPolicy's calls keeps the invariant.                  *)
LEMMA PolicyStepKeeps ==
    ASSUME Inv, PolicyStep
    PROVE  Inv' /\ Moves(policyCall) /\ StopJustified
           /\ UNCHANGED <<workerVars, portCall, bound>> /\ policyCall.at \notin {"idle", "stopped"}
<1> DEFINE Goal == Inv' /\ Moves(policyCall) /\ StopJustified
                   /\ UNCHANGED <<workerVars, portCall, bound>>
                   /\ policyCall.at \notin {"idle", "stopped"}
<1>1. CASE SyncReturns
  <2>1. /\ policyCall.at = "sync" /\ UNCHANGED <<workerVars, portCall, bound>>
        /\ \E r \in Answered("policy") \cup Unanswered(policyCall) :
             OnSync([policyCall EXCEPT !.lost = @ + r.lost], r.reply)
    BY <1>1, Zenon DEF SyncReturns, PolicyReturns
  <2>2. PICK call, reply : Resuming(call, reply) /\ OnSync(call, reply)
    BY <2>1, Resumed, Zenon
  <2>3. Inv' /\ Moves(call) /\ alive' = alive
    BY <2>1, <2>2, OnSyncKeeps, HandlersMove, EarlyLives, Zenon
  <2> QED
    BY <2>1, <2>2, <2>3, Zenon DEF Moves, Resuming, StopJustified
<1>2. CASE ClearReturns
  <2>1. /\ policyCall.at = "clear" /\ UNCHANGED <<workerVars, portCall, bound>>
        /\ \E r \in Answered("policy") \cup Unanswered(policyCall) :
             OnClear([policyCall EXCEPT !.lost = @ + r.lost], r.reply)
    BY <1>2, Zenon DEF ClearReturns, PolicyReturns
  <2>2. PICK call, reply : Resuming(call, reply) /\ OnClear(call, reply)
    BY <2>1, Resumed, Zenon
  <2>3. Inv' /\ Moves(call) /\ alive' = alive
    BY <2>1, <2>2, OnClearKeeps, HandlersMove, EarlyLives, Zenon
  <2> QED
    BY <2>1, <2>2, <2>3, Zenon DEF Moves, Resuming, StopJustified
<1>3. CASE ClearedReturns
  <2>1. /\ policyCall.at = "cleared" /\ UNCHANGED <<workerVars, portCall, bound>>
        /\ \E r \in Answered("policy") \cup Unanswered(policyCall) :
             OnCleared([policyCall EXCEPT !.lost = @ + r.lost], r.reply)
    BY <1>3, Zenon DEF ClearedReturns, PolicyReturns
  <2>2. PICK call, reply : Resuming(call, reply) /\ OnCleared(call, reply)
    BY <2>1, Resumed, Zenon
  <2>3. Inv' /\ Moves(call) /\ alive' = alive
    BY <2>1, <2>2, OnClearedKeeps, HandlersMove, EarlyLives, Zenon
  <2> QED
    BY <2>1, <2>2, <2>3, Zenon DEF Moves, Resuming, StopJustified
<1>4. CASE PrepareReturns
  <2>1. /\ policyCall.at = "prepare" /\ UNCHANGED <<workerVars, portCall, bound>>
        /\ \E r \in Answered("policy") \cup Unanswered(policyCall) :
             OnPrepare([policyCall EXCEPT !.lost = @ + r.lost], r.reply)
    BY <1>4, Zenon DEF PrepareReturns, PolicyReturns
  <2>2. PICK call, reply : Resuming(call, reply) /\ OnPrepare(call, reply)
    BY <2>1, Resumed, Zenon
  <2>3. Inv' /\ Moves(call) /\ alive' = alive
    BY <2>1, <2>2, OnPrepareKeeps, HandlersMove, EarlyLives, Zenon
  <2> QED
    BY <2>1, <2>2, <2>3, Zenon DEF Moves, Resuming, StopJustified
<1>5. CASE PreparedReturns
  <2>1. /\ policyCall.at = "prepared" /\ UNCHANGED <<workerVars, portCall, bound>>
        /\ \E r \in Answered("policy") \cup Unanswered(policyCall) :
             OnPrepared([policyCall EXCEPT !.lost = @ + r.lost], r.reply)
    BY <1>5, Zenon DEF PreparedReturns, PolicyReturns
  <2>2. PICK call, reply : Resuming(call, reply) /\ OnPrepared(call, reply)
    BY <2>1, Resumed, Zenon
  <2>3. Inv' /\ Moves(call) /\ alive' = alive
    BY <2>1, <2>2, OnPreparedKeeps, HandlersMove, EarlyLives, Zenon
  <2> QED
    BY <2>1, <2>2, <2>3, Zenon DEF Moves, Resuming, StopJustified
<1>6. CASE CommitReturns
  <2>1. /\ policyCall.at = "commit" /\ UNCHANGED <<workerVars, portCall, bound>>
        /\ \E r \in Answered("policy") \cup Unanswered(policyCall) :
             OnCommit([policyCall EXCEPT !.lost = @ + r.lost], r.reply)
    BY <1>6, Zenon DEF CommitReturns, PolicyReturns
  <2>2. PICK call, reply : Resuming(call, reply) /\ OnCommit(call, reply)
    BY <2>1, Resumed, Zenon
  <2>3. Inv' /\ Moves(call) /\ alive' = alive
    BY <2>1, <2>2, OnCommitKeeps, HandlersMove, EarlyLives, Zenon
  <2> QED
    BY <2>1, <2>2, <2>3, Zenon DEF Moves, Resuming, StopJustified
<1>7. CASE CommittedReturns
  <2>1. /\ policyCall.at = "committed" /\ UNCHANGED <<workerVars, portCall, bound>>
        /\ \E r \in Answered("policy") \cup Unanswered(policyCall) :
             OnCommitted([policyCall EXCEPT !.lost = @ + r.lost], r.reply)
    BY <1>7, Zenon DEF CommittedReturns, PolicyReturns
  <2>2. PICK call, reply : Resuming(call, reply) /\ OnCommitted(call, reply)
    BY <2>1, Resumed, Zenon
  <2>3. Inv' /\ Moves(call) /\ StopJustified
    BY <2>1, <2>2, OnCommittedKeeps, HandlersMove, Zenon
  <2> QED
    BY <2>1, <2>2, <2>3, Zenon DEF Moves, Resuming
<1>8. CASE UnwindReturns
  <2>1. /\ policyCall.at = "unwind" /\ UNCHANGED <<workerVars, portCall, bound>>
        /\ \E r \in Answered("policy") \cup Unanswered(policyCall) :
             OnUnwind([policyCall EXCEPT !.lost = @ + r.lost], r.reply)
    BY <1>8, Zenon DEF UnwindReturns, PolicyReturns
  <2>2. PICK call, reply : Resuming(call, reply) /\ OnUnwind(call, reply)
    BY <2>1, Resumed, Zenon
  <2>3. Inv' /\ Moves(call) /\ StopJustified
    BY <2>1, <2>2, OnUnwindKeeps, HandlersMove, Zenon
  <2> QED
    BY <2>1, <2>2, <2>3, Zenon DEF Moves, Resuming
<1>9. CASE UnwoundReturns
  <2>1. /\ policyCall.at = "unwound" /\ UNCHANGED <<workerVars, portCall, bound>>
        /\ \E r \in Answered("policy") \cup Unanswered(policyCall) :
             OnUnwound([policyCall EXCEPT !.lost = @ + r.lost], r.reply)
    BY <1>9, Zenon DEF UnwoundReturns, PolicyReturns
  <2>2. PICK call, reply : Resuming(call, reply) /\ OnUnwound(call, reply)
    BY <2>1, Resumed, Zenon
  <2>3. Inv' /\ Moves(call) /\ StopJustified
    BY <2>1, <2>2, OnUnwoundKeeps, HandlersMove, Zenon
  <2> QED
    BY <2>1, <2>2, <2>3, Zenon DEF Moves, Resuming
<1> QED
  BY <1>1, <1>2, <1>3, <1>4, <1>5, <1>6, <1>7, <1>8, <1>9, Zenon DEF PolicyStep

-----------------------------------------------------------------------------

(* A new worker and its supervisor satisfy the invariant.                  *)
LEMMA InitInv == Init => Inv
<1> SUFFICES ASSUME Init PROVE Inv
  BY Zenon
<1>1. Typed
  <2>1. policyCall \in PolicyCalls /\ portCall \in PortCalls
    BY WorkerConstants, Zenon DEF Init, PolicyCalls, PolicySteps, PortCalls, NoTxn
  <2>2. inbox \in Seq(PolicyRequests \cup PortRequests) /\ portTxns \in Seq(PortEntries)
    BY DEF Init
  <2> QED
    BY <2>1, <2>2, WorkerConstants, Zenon DEF Init, Typed, NoTxn, Nothing
<1>2. Wire /\ RequestsSound /\ PortRequestsSound
  BY DEF Init, Wire, RequestsSound, PortRequestsSound
<1>3. Numbers
  BY DEF Init, Numbers, Nothing, NoTxn, Early, Preparing, Committing
<1>5. Enforces /\ PolicyAnswer
  BY Zenon DEF Init, Enforces, PolicyAnswer, NoAnswer, Callers
<1>4. PortNumbers /\ OneListener /\ PortAnswer /\ Opened
  BY WorkerConstants DEF Init, PortNumbers, OneListener, PortAnswer, Opened, NoAnswer, NoTxn, Callers
<1> QED
  BY <1>1, <1>2, <1>3, <1>4, <1>5, Zenon DEF Inv, PolicyInv, PortInv

(* Whatever request the worker executes, however late, keeps the           *)
(* invariant.                                                              *)
LEMMA HandleKeeps == Inv /\ Handle => Inv'
<1> SUFFICES ASSUME Inv, Handle PROVE Inv'
  BY Zenon
<1> DEFINE r == Head(inbox)
<1>0. PICK fault \in {FALSE, Failing} :
        IF r.from = "policy"
        THEN LET e == PolicyEffect(r, fault)
             IN  /\ enforced' = e.enforced /\ current' = e.current /\ pending' = e.pending
                 /\ Reply(r, e.reply)
                 /\ UNCHANGED <<forwards, portTxns>>
        ELSE LET e == PortEffect(r, fault)
             IN  /\ forwards' = e.forwards /\ portTxns' = e.portTxns
                 /\ Reply(r, e.reply)
                 /\ UNCHANGED <<enforced, current, pending>>
  BY Zenon DEF Handle
<1>1. /\ alive /\ inbox # <<>> /\ inbox' = Tail(inbox)
      /\ UNCHANGED <<alive, policyCall, portCall, mirror, bound>>
  BY Zenon DEF Handle
<1>2. r \in PolicyRequests \cup PortRequests
  BY <1>1 DEF Inv, Typed
<1>3. CASE r.from = "policy"
  <2> DEFINE e == PolicyEffect(r, fault)
  <2>1. /\ enforced' = e.enforced /\ current' = e.current /\ pending' = e.pending
        /\ Reply(r, e.reply) /\ UNCHANGED <<forwards, portTxns>>
    BY <1>0, <1>3, Zenon
  <2>2. r \in PolicyRequests
    BY <1>2, <1>3, Zenon DEF PortRequests
  <2>3. Keeps(r, e) \/ Prepares(r, e) \/ Commits(r, e) \/ Aborts(r, e)
    BY <2>2, PolicyEffects, Zenon
  <2> HIDE DEF e
  <2>4. Taken(r, e.reply)
    BY <1>1, <2>1, HandleTakes, Zenon DEF Inv
  <2> HIDE DEF r
  <2> QED
    BY <1>1, <2>1, <2>2, <2>3, <2>4, HandlePolicyKeeps, Zenon
<1>4. CASE r.from # "policy"
  <2> DEFINE e == PortEffect(r, fault)
  <2>1. /\ forwards' = e.forwards /\ portTxns' = e.portTxns
        /\ Reply(r, e.reply) /\ UNCHANGED <<enforced, current, pending>>
    BY <1>0, <1>4, Zenon
  <2>2. r \in PortRequests
    BY <1>2, <1>4, Zenon DEF PolicyRequests
  <2>3. PortKeeps(r, e) \/ PortApplies(r, e, fault)
    BY <2>2, PortEffects, Zenon
  <2> HIDE DEF e
  <2>4. Taken(r, e.reply)
    BY <1>1, <2>1, HandleTakes, Zenon DEF Inv
  <2> HIDE DEF r
  <2> QED
    BY <1>1, <2>1, <2>2, <2>3, <2>4, HandlePortKeeps, Zenon
<1> QED
  BY <1>3, <1>4, Zenon

(* A worker that dies takes its connection with it.                        *)
LEMMA DieKeeps == Inv /\ Die => Inv'
<1> SUFFICES ASSUME Inv, Die PROVE Inv'
  BY Zenon
<1> USE DEF Inv
<1>1. inbox' = <<>> /\ alive' = FALSE
      /\ UNCHANGED <<workerVars, answer, policyCall, portCall, mirror, bound>>
  BY Zenon DEF Die
<1>2. Typed'
  <2>1. inbox' \in Seq(PolicyRequests \cup PortRequests)
    BY <1>1
  <2>2. alive' \in BOOLEAN
    BY <1>1, Zenon
  <2> QED
    BY <1>1, <2>1, <2>2, Zenon DEF Typed, workerVars, PortCalls
<1>3. Wire' /\ RequestsSound' /\ PortRequestsSound'
  BY <1>1 DEF Wire, RequestsSound, PortRequestsSound
<1>4. Numbers' /\ Enforces' /\ PolicyAnswer'
  <2>1. Numbers' /\ Enforces'
    BY <1>1, Zenon DEF PolicyInv, Numbers, Enforces, workerVars
  <2>2. PolicyAnswer'
    BY <1>1, Zenon DEF PolicyInv, PolicyAnswer, AnswerHolds, workerVars
  <2> QED
    BY <2>1, <2>2, Zenon
<1>5. Outcome' = Outcome /\ Changed' = Changed
  BY <1>1, Zenon DEF Outcome, Remembered, Changed, workerVars
<1>6. PortNumbers' /\ OneListener' /\ PortAnswer' /\ Opened'
  BY <1>1, <1>5, Zenon DEF PortInv, PortNumbers, OneListener, PortAnswer, Opened, workerVars
<1> QED
  BY <1>2, <1>3, <1>4, <1>6, Zenon DEF PolicyInv, PortInv

(* Every return of a port call keeps the invariant.                        *)
LEMMA PortStepKeeps ==
    ASSUME Inv, PortStep
    PROVE  /\ Inv' /\ alive' \in {alive, FALSE}
           /\ alive /\ ~ alive' => portCall'.attempt = 1
           /\ UNCHANGED <<workerVars, policyCall, mirror>>
<1>1. CASE MutateReturns
  <2>1. /\ portCall.at = "mutate" /\ UNCHANGED <<workerVars, policyCall, mirror>>
        /\ \E r \in Answered("port") \cup Unanswered(portCall) :
             OnMutate([portCall EXCEPT !.lost = @ + r.lost], r.reply)
    BY <1>1, Zenon DEF MutateReturns, PortReturns
  <2>2. PICK call, reply : PortResuming(call, reply) /\ OnMutate(call, reply)
    BY <2>1, PortResumed, Zenon
  <2> QED
    BY <2>1, <2>2, OnMutateKeeps, Zenon
<1>2. CASE MutatedReturns
  <2>1. /\ portCall.at = "mutated" /\ UNCHANGED <<workerVars, policyCall, mirror>>
        /\ \E r \in Answered("port") \cup Unanswered(portCall) :
             OnMutated([portCall EXCEPT !.lost = @ + r.lost], r.reply)
    BY <1>2, Zenon DEF MutatedReturns, PortReturns
  <2>2. PICK call, reply : PortResuming(call, reply) /\ OnMutated(call, reply)
    BY <2>1, PortResumed, Zenon
  <2> QED
    BY <2>1, <2>2, OnMutatedKeeps, Zenon
<1>3. CASE ListReturns
  <2>1. /\ portCall.at = "list" /\ UNCHANGED <<workerVars, policyCall, mirror>>
        /\ \E r \in Answered("port") \cup Unanswered(portCall) :
             OnList([portCall EXCEPT !.lost = @ + r.lost], r.reply)
    BY <1>3, Zenon DEF ListReturns, PortReturns
  <2>2. PICK call, reply : PortResuming(call, reply) /\ OnList(call, reply)
    BY <2>1, PortResumed, Zenon
  <2>3. alive' \in {alive, FALSE}
    BY <2>2, Zenon DEF OnList, PortDone, stopAfterAmbiguousPort
  <2> QED
    BY <2>1, <2>2, <2>3, OnListKeeps, Zenon
<1> QED
  BY <1>1, <1>2, <1>3, Zenon DEF PortStep

(* What StopsOnlyWhenAmbiguous says of one step.                           *)
Stopping ==
    alive /\ ~ alive' =>
        /\ policyCall'.at = "stopped" => policyCall'.attempt = 1 /\ policyCall'.lost > 0
        /\ portCall'.at = "stopped" => portCall'.attempt = 1

(* A step keeps the invariant, and stops a worker only as it should.       *)
LEMMA NextKeeps == ASSUME Inv, [Next]_vars PROVE Inv' /\ Stopping
<1>0. alive => policyCall.at # "stopped" /\ portCall.at # "stopped"
  BY Zenon DEF Inv, Wire
<1>1. CASE Handle
  BY <1>1, HandleKeeps, Zenon DEF Handle, Stopping
<1>2. CASE Die
  BY <1>0, <1>2, DieKeeps, Zenon DEF Die, Stopping
<1>3. CASE PolicyStep
  BY <1>0, <1>3, PolicyStepKeeps, Zenon DEF StopJustified, Stopping
<1>4. ASSUME NEW p \in Policies, SetPolicy(p)
      PROVE  Inv' /\ Stopping
  BY <1>4, SetPolicyKeeps, Zenon DEF SetPolicy, AskPolicy, Stopping
<1>5. CASE PortStep
  BY <1>0, <1>5, PortStepKeeps, Zenon DEF Stopping
<1>6. ASSUME NEW f \in Forwards, NEW publish \in BOOLEAN, Mutate(f, publish)
      PROVE  Inv' /\ Stopping
  BY <1>6, MutateKeeps, Zenon DEF Mutate, AskPort, Stopping
<1>7. CASE UNCHANGED vars
  <2> USE <1>7 DEF vars, workerVars
  <2>1. Outcome' = Outcome /\ Changed' = Changed
    BY Zenon DEF Outcome, Remembered, Changed
  <2>2. Typed' /\ Wire'
    BY Zenon DEF Inv, Typed, Wire, PortCalls
  <2>3. PolicyInv'
    <3>1. RequestsSound' /\ PolicyAnswer'
      BY Zenon DEF Inv, PolicyInv, RequestsSound, PolicyAnswer, AnswerHolds
    <3>2. Numbers' /\ Enforces'
      BY Zenon DEF Inv, PolicyInv, Numbers, Enforces
    <3> QED
      BY <3>1, <3>2, Zenon DEF PolicyInv
  <2>4. PortInv'
    BY <2>1, Zenon DEF Inv, PortInv, PortRequestsSound, PortNumbers, OneListener, PortAnswer, Opened
  <2> QED
    BY <2>2, <2>3, <2>4, Zenon DEF Inv, Stopping
<1> QED
  BY <1>1, <1>2, <1>3, <1>4, <1>5, <1>6, <1>7, Zenon DEF Next

(* Whatever is lost and however calls are repeated: the connection holds   *)
(* only what SetPolicy and the port calls know of (worker.go).             *)
THEOREM WorkerInvariant == Spec => []Inv
<1>1. Inv /\ [Next]_vars => Inv'
  BY NextKeeps, Zenon
<1> QED
  BY <1>1, InitInv, PTL DEF Spec

(* When SetPolicy and the port calls have returned, the supervisor's       *)
(* mirror is what the worker enforces and its ports are the open ones.     *)
THEOREM OutcomesAreKnown == Spec => []OutcomesKnown
<1>1. Inv => OutcomesKnown
  BY Zenon DEF Inv, PolicyInv, PortInv, Enforces, Opened, OutcomesKnown, MirrorEnforced, PortsKnown
<1> QED
  BY <1>1, WorkerInvariant, PTL

(* The worker is stopped only in the second attempt of a change, and for a *)
(* policy only after an answer was lost (stopAfterAmbiguousPolicy).        *)
THEOREM StopsAreJustified == Spec => StopsOnlyWhenAmbiguous
<1>1. Inv /\ [Next]_vars => [Stopping]_vars
  BY NextKeeps, Zenon
<1>2. [][Stopping]_vars => StopsOnlyWhenAmbiguous
  BY PTL DEF StopsOnlyWhenAmbiguous, Stopping
<1> QED
  BY <1>1, <1>2, WorkerInvariant, PTL DEF Spec

(* A UDP port is never open under a policy that drops its replies: a       *)
(* commit looks at the open ports, a publish at the enforced policy.       *)
THEOREM UdpRepliesProved == Spec => []UdpRepliesAllowed
<1>1. Init => UdpRepliesAllowed
  BY Zenon DEF Init, UdpRepliesAllowed, UdpConflict
<1>2. Inv /\ UdpRepliesAllowed /\ [Next]_vars => UdpRepliesAllowed'
  <2> SUFFICES ASSUME Inv, UdpRepliesAllowed, [Next]_vars PROVE UdpRepliesAllowed'
    BY Zenon
  <2>1. CASE UNCHANGED <<enforced, forwards>>
    BY <2>1, Zenon DEF UdpRepliesAllowed, UdpConflict
  <2>2. CASE Handle
    <3> DEFINE r == Head(inbox)
    <3>1. r \in PolicyRequests \cup PortRequests
      BY <2>2 DEF Handle, Inv, Typed
    <3>2. PICK fault \in {FALSE, Failing} :
            \/ /\ r.from = "policy"
               /\ enforced' = PolicyEffect(r, fault).enforced /\ UNCHANGED forwards
            \/ /\ r.from # "policy"
               /\ forwards' = PortEffect(r, fault).forwards /\ UNCHANGED enforced
      BY <2>2, Zenon DEF Handle
    <3> HIDE DEF r
    <3>3. CASE r.from = "policy"
      <4>1. r \in PolicyRequests
        BY <3>1, <3>3, Zenon DEF PortRequests
      <4> DEFINE e == PolicyEffect(r, fault)
      <4>2. Keeps(r, e) \/ Prepares(r, e) \/ Commits(r, e) \/ Aborts(r, e)
        BY <4>1, PolicyEffects, Zenon
      <4>3. enforced' = e.enforced /\ UNCHANGED forwards
        BY <3>2, <3>3, Zenon
      <4> HIDE DEF e
      <4>4. enforced' = enforced \/ (enforced' = pending.policy /\ ~ UdpConflict(pending.policy, forwards))
        BY <4>2, <4>3, Zenon DEF Keeps, Prepares, Commits, Aborts
      <4> QED
        BY <4>3, <4>4, Zenon DEF UdpRepliesAllowed, UdpConflict
    <3>4. CASE r.from # "policy"
      <4>1. r \in PortRequests
        BY <3>1, <3>4, Zenon DEF PolicyRequests
      <4> DEFINE e == PortEffect(r, fault)
      <4>2. PortKeeps(r, e) \/ PortApplies(r, e, fault)
        BY <4>1, PortEffects, Zenon
      <4>3. forwards' = e.forwards /\ UNCHANGED enforced
        BY <3>2, <3>4, Zenon
      <4> HIDE DEF e
      <4>4. forwards' = forwards \/ forwards' = PortChange(r, fault)
        BY <4>2, <4>3, Zenon DEF PortKeeps, PortApplies
      <4>5. \A f \in forwards' : f \in forwards \/ (f = r.forward /\ ~ UdpConflict(enforced, {r.forward}))
        BY <4>4, Zenon DEF PortChange
      <4> QED
        BY <4>3, <4>5, Zenon DEF UdpRepliesAllowed, UdpConflict
    <3> QED
      BY <3>3, <3>4, Zenon
  <2> QED
    <3>1. CASE PolicyStep \/ PortStep
      BY <2>1, <3>1, PolicyStepKeeps, PortStepKeeps, Zenon DEF workerVars
    <3>2. CASE Die \/ (\E p \in Policies : SetPolicy(p))
               \/ (\E f \in Forwards, publish \in BOOLEAN : Mutate(f, publish))
      BY <2>1, <3>2, Zenon DEF Die, SetPolicy, Mutate, workerVars
    <3>3. CASE UNCHANGED vars
      BY <2>1, <3>3, Zenon DEF vars, workerVars
    <3> QED
      BY <2>2, <3>1, <3>2, <3>3, Zenon DEF Next
<1> QED
  BY <1>1, <1>2, WorkerInvariant, PTL DEF Spec

(* The worker's handling of a request is an atomic change of the policy    *)
(* when it first commits the transaction of the call, and otherwise none.  *)
LEMMA HandleRefines ==
    ASSUME Inv, Handle
    PROVE  Backend!Apply \/ UNCHANGED Backend!vars
<1> DEFINE r == Head(inbox)
<1>0. PICK fault \in {FALSE, Failing} :
        \/ /\ r.from = "policy"
           /\ enforced' = PolicyEffect(r, fault).enforced /\ current' = PolicyEffect(r, fault).current
        \/ /\ r.from # "policy"
           /\ UNCHANGED <<enforced, current>>
  BY Zenon DEF Handle
<1>1. /\ r \in PolicyRequests \cup PortRequests /\ 1 \in DOMAIN inbox /\ r = inbox[1]
      /\ alive /\ UNCHANGED <<alive, policyCall, mirror>>
  BY DEF Handle, Inv, Typed
<1> HIDE DEF r
<1>2. CASE UNCHANGED <<enforced, current>>
  BY <1>1, <1>2, Zenon DEF Backend!vars
<1>3. CASE r.from = "policy"
  <2> DEFINE e == PolicyEffect(r, fault)
  <2>1. r \in PolicyRequests
    BY <1>1, <1>3, Zenon DEF PortRequests
  <2>2. Keeps(r, e) \/ Prepares(r, e) \/ Commits(r, e) \/ Aborts(r, e)
    BY <2>1, PolicyEffects, Zenon
  <2>3. enforced' = e.enforced /\ current' = e.current
    BY <1>0, <1>3, Zenon
  <2> HIDE DEF e
  <2>4. CASE ~ Commits(r, e)
    BY <1>2, <2>2, <2>3, <2>4, Zenon DEF Keeps, Prepares, Aborts
  <2>5. CASE Commits(r, e)
    <3>1. r.txn = policyCall.txn /\ policyCall.at \in Committing
      BY <1>1, <1>3, <2>5, Zenon DEF Inv, PolicyInv, RequestsSound, RequestSound, Commits
    <3>2. enforced' = policyCall.want /\ current'.txn = policyCall.txn
      BY <2>3, <2>5, <3>1 DEF Commits, Inv, PolicyInv, Numbers
    <3>3. policyCall.at \notin {"idle", "stopped"}
      BY <3>1, Zenon DEF Committing
    <3>4. CASE current.txn = policyCall.txn
      BY <1>1, <3>2, <3>3, <3>4, Zenon DEF Inv, PolicyInv, Enforces, Backend!vars
    <3>5. CASE current.txn # policyCall.txn
      BY <1>1, <3>2, <3>3, <3>5, Zenon DEF Backend!Apply
    <3> QED
      BY <3>4, <3>5, Zenon
  <2> QED
    BY <2>4, <2>5, Zenon
<1> QED
  BY <1>0, <1>2, <1>3, Zenon

(* A step of the supervisor's side of SetPolicy ends the call with the     *)
(* change, without it or with the worker stopped, or changes nothing.      *)
LEMMA PolicyStepRefines ==
    ASSUME Inv, PolicyStep
    PROVE  Backend!Succeed \/ Backend!Fail \/ Backend!Stop \/ UNCHANGED Backend!vars
<1>1. /\ Inv' /\ Moves(policyCall) /\ UNCHANGED <<enforced, current>>
      /\ policyCall.at \notin {"idle", "stopped"}
  BY PolicyStepKeeps, Zenon DEF workerVars
<1>2. CASE policyCall'.at \notin {"idle", "stopped"}
  BY <1>1, <1>2, Zenon DEF Moves, Backend!vars
<1>3. CASE policyCall'.at = "stopped"
  BY <1>1, <1>3, Zenon DEF Moves, Backend!Stop, Inv, Typed
<1>4. CASE policyCall'.at = "idle"
  <2>1. enforced' = mirror' /\ UNCHANGED alive /\ policyCall'.want = policyCall.want
    BY <1>1, <1>4, Zenon DEF Moves, Inv, PolicyInv, Enforces
  <2>2. CASE current.txn = policyCall.txn
    <3>1. mirror' = policyCall.want
      BY <1>1, <2>1, <2>2, Zenon DEF Inv, PolicyInv, Enforces
    <3> QED
      BY <1>1, <1>4, <2>1, <2>2, <3>1, Zenon DEF Backend!Succeed
  <2>3. CASE current.txn # policyCall.txn
    <3>1. mirror' = mirror
      BY <1>1, <2>1, <2>3, Zenon DEF Inv, PolicyInv, Enforces
    <3> QED
      BY <1>1, <1>4, <2>1, <2>3, <3>1, Zenon DEF Backend!Fail
  <2> QED
    BY <2>2, <2>3, Zenon
<1> QED
  BY <1>2, <1>3, <1>4, Zenon

(* To its callers Worker.SetPolicy, with its prepare, commit, status and   *)
(* abort requests, is one atomic change of the enforced policy or none.    *)
THEOREM WorkerImplementsBackend == Spec => BackendSpec
<1>1. Init => Backend!Init
  BY DEF Init, Backend!Init
<1>2. Inv /\ [Next]_vars => [Backend!Next]_(Backend!vars)
  <2> SUFFICES ASSUME Inv, [Next]_vars
               PROVE  Backend!Next \/ UNCHANGED Backend!vars
    BY Zenon
  <2>1. CASE Handle
    BY <2>1, HandleRefines, Zenon DEF Backend!Next
  <2>2. CASE Die
    BY <2>2, Zenon DEF Die, workerVars, Backend!Next, Backend!Stop
  <2>3. CASE PolicyStep
    BY <2>3, PolicyStepRefines, Zenon DEF Backend!Next
  <2>4. ASSUME NEW p \in Policies, SetPolicy(p)
        PROVE  Backend!Next
    <3>1. /\ alive /\ policyCall.at = "idle"
          /\ UNCHANGED <<workerVars, mirror, alive>>
          /\ policyCall' = [[policyCall EXCEPT !.txn = @ + 1, !.want = p, !.lost = 0] EXCEPT !.at = "sync"]
      BY <2>4, Zenon DEF SetPolicy, AskPolicy
    <3>2. policyCall'.at = "sync" /\ policyCall'.want = p
      BY <3>1, Zenon DEF Inv, Typed, PolicyCalls
    <3>3. current'.txn # policyCall'.txn
      <4>1. Numbers'
        BY <2>4, SetPolicyKeeps, Zenon DEF Inv, PolicyInv
      <4> QED
        BY <3>2, <4>1, Zenon DEF Numbers, Early
    <3>4. Backend!SetPolicy(p)
      BY <3>1, <3>2, <3>3, Zenon DEF Backend!SetPolicy, workerVars
    <3> QED
      BY <3>4, Zenon DEF Backend!Next
  <2>5. CASE PortStep
    <3>1. UNCHANGED <<enforced, current, policyCall, mirror>> /\ alive' \in {alive, FALSE}
      BY <2>5, PortStepKeeps, Zenon DEF workerVars
    <3>2. CASE alive' = alive
      BY <3>1, <3>2, Zenon DEF Backend!vars
    <3>3. CASE alive' # alive
      BY <3>1, <3>3, Zenon DEF Backend!Next, Backend!Stop
    <3> QED
      BY <3>2, <3>3, Zenon
  <2>6. ASSUME NEW f \in Forwards, NEW publish \in BOOLEAN, Mutate(f, publish)
        PROVE  UNCHANGED Backend!vars
    BY <2>6, Zenon DEF Mutate, AskPort, workerVars, Backend!vars
  <2>7. CASE UNCHANGED vars
    BY <2>7, Zenon DEF vars, workerVars, Backend!vars
  <2> QED
    BY <2>1, <2>2, <2>3, <2>4, <2>5, <2>6, <2>7, Zenon DEF Next
<1> QED
  BY <1>1, <1>2, WorkerInvariant, PTL DEF Spec, BackendSpec, Backend!Spec
=============================================================================
