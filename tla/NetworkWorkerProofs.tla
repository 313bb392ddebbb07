------------------------ MODULE NetworkWorkerProofs ------------------------
(***************************************************************************)
(* The supervisor and its worker agree although calls time out and their   *)
(* requests are executed later, for every number of calls and timeouts.    *)
(* The inductive invariant says what the connection may still hold: Wire   *)
(* for both callers, PolicyInv for SetPolicy and PortInv for the ports.    *)
(* Here it is stated, and kept by both sides of SetPolicy's calls and by   *)
(* the requests of the port calls; the rest of the port calls, and what    *)
(* the invariant implies, follow in NetworkBackendProofs.                  *)
(***************************************************************************)
EXTENDS NetworkWorker, TLAPS

PolicyOps == {"prepare", "commit", "abort", "status"}
PortOps == {"mutate", "portStatus", "list"}
PolicyRequests == [from : {"policy"}, awaited : BOOLEAN, op : PolicyOps, gen : Nat, txn : Nat,
                   policy : Policies]
PortRequests == [from : {"port"}, awaited : BOOLEAN, op : PortOps, txn : Nat,
                 publish : BOOLEAN, forward : Forwards]
PolicyCalls == [at : PolicySteps, txn : Nat, gen : Nat, want : Policies, attempt : {0, 1},
                prepared : BOOLEAN, lost : Nat]
PortCalls == [at : {"idle", "mutate", "mutated", "list", "stopped"}, txn : Nat, publish : BOOLEAN,
              forward : {portCall.forward}, attempt : {0, 1}, lost : Nat]

PortEntries == [txn : Nat, state : {"applied", "rejected"}]

(* The types the proofs need.                                              *)
Typed ==
    /\ enforced \in Policies /\ mirror \in Policies
    /\ current \in [gen : Nat, txn : Nat]
    /\ pending \in [gen : Nat, txn : Nat, policy : Policies]
    /\ forwards \subseteq Forwards /\ bound \subseteq Forwards
    /\ portTxns \in Seq(PortEntries)
    /\ alive \in BOOLEAN
    /\ inbox \in Seq(PolicyRequests \cup PortRequests)
    /\ DOMAIN answer = Callers
    /\ policyCall \in PolicyCalls
    /\ portCall \in PortCalls

(* The connection: at most the last request of a caller is awaited, and    *)
(* once it was answered none of the caller's requests is left.             *)
Wire ==
    /\ ~ alive => inbox = <<>>
    /\ policyCall.at = "stopped" \/ portCall.at = "stopped" => ~ alive
    /\ \A i \in DOMAIN inbox :
         /\ ~ answer[inbox[i].from].ok
         /\ inbox[i].awaited => \A j \in DOMAIN inbox : j > i => inbox[j].from # inbox[i].from

Early == {"sync", "clear", "cleared"}
Preparing == {"prepare", "prepared"}
Committing == {"commit", "committed", "unwind", "unwound"}

(* The request whose answer a step of SetPolicy awaits.                    *)
Awaits(call, r) ==
    CASE call.at \in {"sync", "cleared"} -> r.op = "status" /\ r.txn = NoTxn
      [] call.at = "clear" -> r.op = "abort"
      [] call.at = "prepare" -> r.op = "prepare" /\ r.txn = call.txn
      [] call.at = "commit" -> r.op = "commit"
      [] call.at \in {"prepared", "committed", "unwound"} -> r.op = "status" /\ r.txn = call.txn
      [] call.at = "unwind" -> r.op = "abort" /\ r.txn = call.txn /\ r.gen = call.gen
      [] OTHER -> FALSE

(* What may still come out of the connection: commits only of the call in  *)
(* its commit phase, preparations only with the policy it wants.           *)
RequestSound(call, r) ==
    /\ r.op # "status" => r.txn \in 1 .. call.txn
    /\ r.op = "commit" => r.txn = call.txn /\ call.at \in Committing
    /\ r.op = "prepare" /\ r.txn = call.txn =>
         /\ r.policy = call.want
         /\ call.at \notin Early
         /\ call.at # "idle" => r.gen = call.gen
    /\ call.prepared => r.op # "prepare"
    /\ r.awaited => Awaits(call, r)

RequestsSound == \A i \in DOMAIN inbox : inbox[i].from = "policy" => RequestSound(policyCall, inbox[i])

(* The numbers of the worker and of the call.                              *)
Numbers ==
    /\ policyCall.at # "idle" => policyCall.txn > 0
    /\ current.txn <= policyCall.txn /\ pending.txn <= policyCall.txn
    /\ policyCall.at \in Early \cup Preparing => current.txn # policyCall.txn /\ ~ policyCall.prepared
    /\ policyCall.at = "idle" => ~ policyCall.prepared
    /\ policyCall.at \in Early => pending.txn # policyCall.txn
    /\ pending.txn = policyCall.txn =>
         /\ pending.policy = policyCall.want
         /\ policyCall.at # "idle" => pending.gen = policyCall.gen
    /\ policyCall.at = "clear" => policyCall.gen = current.gen
    /\ policyCall.at \in Preparing \cup Committing /\ current.txn # policyCall.txn =>
         policyCall.gen = current.gen + 1
    /\ policyCall.prepared => pending = Nothing \/ pending.txn = policyCall.txn
    /\ policyCall.at = "unwind" => policyCall.prepared
    /\ policyCall.at \in {"unwind", "unwound"} => policyCall.attempt = 1
    /\ policyCall.at = "unwound" /\ alive => policyCall.lost > 0

(* An answer still holds when it is read.                                  *)
AnswerHolds(r) ==
    /\ policyCall.at # "idle"
    /\ policyCall.at \in {"sync", "cleared", "prepared", "committed", "unwind", "unwound"} => r.ok
    /\ r.ok => r.gen = current.gen /\ r.pendGen = pending.gen /\ r.pendTxn = pending.txn
    /\ r.ok /\ policyCall.at \in {"prepared", "committed", "unwind", "unwound"} =>
         r.state = StatusOf(current, pending, policyCall.txn).state
    /\ r.ok /\ policyCall.at = "commit" => current.txn = policyCall.txn
    /\ r.ok /\ policyCall.at \in {"clear", "unwind"} => pending = Nothing

PolicyAnswer == answer["policy"].ok => AnswerHolds(answer["policy"].reply)

(* The enforced policy is the one asked for once the worker has committed  *)
(* the call's transaction, and the mirror's before.                        *)
Enforces ==
    enforced = IF policyCall.at # "idle" /\ current.txn = policyCall.txn
               THEN policyCall.want ELSE mirror

PolicyInv == RequestsSound /\ Numbers /\ PolicyAnswer /\ Enforces

-----------------------------------------------------------------------------
(* Ports.                                                                  *)

(* What became of the transaction of the port call, as the worker knows.   *)
Outcome == IF Remembered(portCall.txn) THEN portTxns[Len(portTxns)].state ELSE "unknown"

(* The ports after the call's change.                                      *)
Changed ==
    {f \in bound : ~ SameListener(f, portCall.forward)}
      \cup (IF portCall.publish THEN {portCall.forward} ELSE {})

PortRequestsSound ==
    \A i \in DOMAIN inbox : inbox[i].from = "port" =>
        /\ inbox[i].txn = portCall.txn /\ inbox[i].publish = portCall.publish
        /\ inbox[i].forward = portCall.forward
        /\ portCall.at \in {"mutate", "mutated", "list"}
        /\ inbox[i].awaited => <<portCall.at, inbox[i].op>> \in
             {<<"mutate", "mutate">>, <<"mutated", "portStatus">>, <<"list", "list">>}

PortNumbers ==
    /\ portCall.at # "idle" => portCall.txn > 0 /\ portCall.forward \in Forwards
    /\ portCall.at = "list" => portCall.attempt = 1
    /\ Len(portTxns) <= CacheSize
    /\ \A i \in DOMAIN portTxns :
         portTxns[i].txn < portCall.txn \/ (portTxns[i].txn = portCall.txn /\ i = Len(portTxns))

PortAnswer ==
    answer["port"].ok =>
        LET r == answer["port"].reply
        IN  /\ portCall.at # "idle"
            /\ portCall.at = "mutated" => r.ok
            /\ r.ok /\ portCall.at \in {"mutate", "mutated"} => r.state = Outcome
            /\ r.ok /\ portCall.at = "mutate" => Outcome # "unknown"
            /\ r.ok /\ portCall.at = "list" => r.forwards = forwards

OneListener == \A f, g \in forwards : SameListener(f, g) => f = g

Opened == forwards = IF portCall.at # "idle" /\ Outcome = "applied" THEN Changed ELSE bound

PortInv == PortRequestsSound /\ PortNumbers /\ PortAnswer /\ OneListener /\ Opened

Requests == PolicyRequests \cup PortRequests

(* Every request is of a caller.                                           *)
LEMMA Senders == \A r \in Requests : r.from \in Callers
BY Zenon DEF Requests, PolicyRequests, PortRequests, Callers

(* A request of inbox' that was there before: its caller stopped awaiting  *)
(* it if it is c's, and nothing else about it changed.                     *)
Kin(new, old, c) ==
    /\ new.from = old.from /\ new.op = old.op /\ new.txn = old.txn
    /\ old.from = "policy" => new.gen = old.gen /\ new.policy = old.policy
    /\ old.from = "port" => new.publish = old.publish /\ new.forward = old.forward
    /\ old.from = c => ~ new.awaited
    /\ old.from # c => new = old

(* A worker is stopped in the second attempt, after an answer was lost.    *)
StopJustified == alive /\ ~ alive' => policyCall'.attempt = 1 /\ policyCall'.lost > 0

(* A stop of the worker is justified by the call that stops it.            *)
LEMMA JustifiedStop ==
    ASSUME NEW call \in PolicyCalls, stopAfterAmbiguousPolicy(call), call.attempt = 1,
           alive => call.lost > 0
    PROVE  StopJustified
<1>1. policyCall'.attempt = call.attempt /\ policyCall'.lost = call.lost
  BY Zenon DEF stopAfterAmbiguousPolicy, PolicyCalls
<1> QED
  BY <1>1, Zenon DEF StopJustified

(* Abandoning c's requests changes nothing but who awaits them.            *)
LEMMA AbandonedKeeps ==
    ASSUME inbox \in Seq(Requests), NEW c \in Callers
    PROVE  /\ Abandoned(c) \in Seq(Requests)
           /\ DOMAIN Abandoned(c) = DOMAIN inbox
           /\ Len(Abandoned(c)) = Len(inbox)
           /\ \A i \in DOMAIN inbox : Kin(Abandoned(c)[i], inbox[i], c)
<1> DEFINE new == Abandoned(c)
<1>1. \A i \in DOMAIN inbox : new[i] = [inbox[i] EXCEPT !.awaited = @ /\ inbox[i].from # c]
  BY Zenon DEF Abandoned
<1>2. ASSUME NEW i \in DOMAIN inbox
      PROVE  new[i] \in Requests /\ Kin(new[i], inbox[i], c)
  <2> DEFINE o == inbox[i]
             b == o.awaited /\ o.from # c
  <2>0. o \in Requests
    OBVIOUS
  <2>1. new[i] = [o EXCEPT !.awaited = b] /\ b \in BOOLEAN
    BY <1>1, Zenon
  <2>2. o.from # c => new[i] = o
    <3>1. o.awaited \in BOOLEAN
      BY <2>0, Zenon DEF Requests, PolicyRequests, PortRequests
    <3>2. o.from # c => b = o.awaited
      BY <3>1, Zenon
    <3> HIDE DEF b, new
    <3> QED
      BY <2>0, <2>1, <3>2 DEF Requests, PolicyRequests, PortRequests
  <2>3. o.from = c => ~ new[i].awaited
    <3>1. o.from = c => b = FALSE
      BY Zenon
    <3> HIDE DEF b, new
    <3> QED
      BY <2>0, <2>1, <3>1, Zenon DEF Requests, PolicyRequests, PortRequests
  <2> HIDE DEF b, new
  <2>4. new[i] \in Requests
    <3>1. o \in PolicyRequests => new[i] \in PolicyRequests
      BY <2>1, Zenon DEF PolicyRequests
    <3>2. o \in PortRequests => new[i] \in PortRequests
      BY <2>1, Zenon DEF PortRequests
    <3> QED
      BY <2>0, <3>1, <3>2, Zenon DEF Requests
  <2> QED
    BY <2>0, <2>1, <2>2, <2>3, <2>4, Zenon DEF Kin, Requests, PolicyRequests, PortRequests
<1>3. DOMAIN new = 1 .. Len(inbox)
  BY DEF Abandoned
<1> HIDE DEF new
<1>4. new \in Seq(Requests) /\ Len(new) = Len(inbox) /\ DOMAIN new = DOMAIN inbox
  <2>1. new \in [1 .. Len(inbox) -> Requests]
    <3>1. new = [i \in DOMAIN inbox |-> [inbox[i] EXCEPT !.awaited = @ /\ inbox[i].from # c]]
      BY Zenon DEF new, Abandoned
    <3> QED
      BY <3>1, <1>2, <1>3, Zenon
  <2> QED
    BY <2>1
<1> QED
  BY <1>2, <1>4, Zenon DEF new

(* What is in the connection after c asked: old requests, none of c's      *)
(* awaited, and perhaps the new one, last.                                 *)
Asked(c, request) ==
    /\ inbox' \in Seq(Requests)
    /\ ~ alive => inbox' = <<>>
    /\ \A j \in DOMAIN inbox' :
         \/ j \in DOMAIN inbox /\ Kin(inbox'[j], inbox[j], c)
         \/ j = Len(inbox) + 1 /\ inbox'[j] = request
    /\ \A j \in DOMAIN inbox' : j <= Len(inbox) + 1
    /\ DOMAIN answer' = Callers
    /\ ~ answer'[c].ok
    /\ \A d \in Callers \ {c} : answer'[d] = answer[d]

(* A new request joins the connection behind what is on it.                *)
LEMMA AskAsked ==
    ASSUME Typed, Wire, NEW c \in Callers, NEW call, NEW request \in Requests,
           Ask(c, call, request)
    PROVE  Asked(c, request)
<1> DEFINE new == Abandoned(c)
<1>0. inbox \in Seq(Requests)
  BY Zenon DEF Typed, Requests
<1>1. /\ new \in Seq(Requests) /\ DOMAIN new = DOMAIN inbox /\ Len(new) = Len(inbox)
      /\ \A i \in DOMAIN inbox : Kin(new[i], inbox[i], c)
  BY <1>0, AbandonedKeeps, Zenon
<1>2. \/ ~ alive /\ inbox' = inbox
      \/ alive /\ inbox' = Append(new, request)
      \/ alive /\ inbox' = new
  BY Zenon DEF Ask
<1> HIDE DEF new
<1>3. /\ DOMAIN answer' = Callers /\ ~ answer'[c].ok
      /\ \A d \in Callers \ {c} : answer'[d] = answer[d]
  BY Zenon DEF Ask, Typed, NoAnswer
<1>4. CASE ~ alive /\ inbox' = inbox
  BY <1>0, <1>3, <1>4 DEF Wire, Asked
<1>5. CASE alive /\ inbox' = new
  BY <1>0, <1>1, <1>3, <1>5 DEF Asked
<1>6. CASE alive /\ inbox' = Append(new, request)
  <2>1. /\ inbox' \in Seq(Requests) /\ Len(inbox') = Len(inbox) + 1
        /\ \A j \in 1 .. Len(inbox) : inbox'[j] = new[j]
        /\ inbox'[Len(inbox) + 1] = request
    BY <1>0, <1>1, <1>6
  <2> QED
    BY <1>0, <1>1, <1>3, <1>6, <2>1 DEF Asked
<1> QED
  BY <1>2, <1>4, <1>5, <1>6, Zenon

(* A call that returns without a request leaves its old ones abandoned.    *)
LEMMA HangAsked ==
    ASSUME Typed, Wire, NEW c \in Callers, Hang(c), NEW request
    PROVE  Asked(c, request)
<1> DEFINE new == Abandoned(c)
<1>0. inbox \in Seq(Requests)
  BY Zenon DEF Typed, Requests
<1>1. /\ new \in Seq(Requests) /\ DOMAIN new = DOMAIN inbox /\ Len(new) = Len(inbox)
      /\ \A i \in DOMAIN inbox : Kin(new[i], inbox[i], c)
  BY <1>0, AbandonedKeeps, Zenon
<1>2. inbox' = new
  BY Zenon DEF Hang
<1>3. /\ DOMAIN answer' = Callers /\ ~ answer'[c].ok
      /\ \A d \in Callers \ {c} : answer'[d] = answer[d]
  BY Zenon DEF Hang, Typed, NoAnswer
<1> HIDE DEF new
<1>4. ~ alive => inbox' = <<>>
  BY <1>0, <1>1, <1>2 DEF Wire
<1> QED
  BY <1>0, <1>1, <1>2, <1>3, <1>4 DEF Asked

(* A request of "policy" awaits, and disturbs nothing of the ports.        *)
LEMMA PolicyAskKeeps ==
    ASSUME Typed, Wire, PortInv, NEW request \in PolicyRequests, Asked("policy", request),
           policyCall' \in PolicyCalls, policyCall'.at # "stopped", mirror' \in Policies,
           UNCHANGED <<workerVars, portCall, bound, alive>>
    PROVE  Typed' /\ Wire' /\ PortInv'
<1>1. Typed'
  BY Zenon DEF Typed, Asked, Requests, workerVars, PortCalls
<1>2. \A j \in DOMAIN inbox' : inbox'[j].from = "port" => j \in DOMAIN inbox /\ inbox'[j] = inbox[j]
  BY Zenon DEF Asked, Kin, PolicyRequests
<1>3. \A j \in DOMAIN inbox' : inbox'[j].from \in Callers
  <2>1. inbox' \in Seq(Requests)
    BY <1>1, Zenon DEF Typed, Requests
  <2>2. \A j \in DOMAIN inbox' : inbox'[j] \in Requests
    BY <2>1
  <2> QED
    BY <2>2, Senders, Zenon
<1>4. Wire'
  <2>1. (~ alive => inbox = <<>>)' /\ (policyCall.at = "stopped" \/ portCall.at = "stopped" => ~ alive)'
    BY Zenon DEF Wire, Asked
  <2>2. ASSUME NEW j \in DOMAIN inbox'
        PROVE  ~ answer'[inbox'[j].from].ok
    BY <1>2, <1>3 DEF Wire, Asked, Callers
  <2>3. ASSUME NEW i \in DOMAIN inbox', NEW j \in DOMAIN inbox', inbox'[i].awaited, j > i
        PROVE  inbox'[j].from # inbox'[i].from
    <3>0. DOMAIN inbox = 1 .. Len(inbox) /\ Len(inbox) \in Nat /\ DOMAIN inbox' = 1 .. Len(inbox')
      BY <1>1 DEF Typed
    <3>1. CASE inbox'[i].from = "policy"
      <4>1. i = Len(inbox) + 1
        BY <3>1, <2>3, Zenon DEF Asked, Kin
      <4> QED
        BY <4>1, <2>3, <3>0 DEF Asked
    <3>2. CASE inbox'[i].from = "port"
      BY <3>2, <1>2, <2>3, Zenon DEF Wire
    <3> QED
      BY <1>3, <3>1, <3>2, Zenon DEF Callers
  <2> QED
    BY <2>1, <2>2, <2>3, Zenon DEF Wire
<1>5. answer'["port"] = answer["port"]
  BY Zenon DEF Asked, Callers
<1>6. Outcome' = Outcome
  BY Zenon DEF Outcome, Remembered, workerVars
<1>7. Changed' = Changed
  BY Zenon DEF Changed
<1>8. PortRequestsSound'
  BY <1>2 DEF PortInv, PortRequestsSound
<1>9. PortNumbers' /\ OneListener'
  BY Zenon DEF PortInv, PortNumbers, OneListener, workerVars
<1>10. PortAnswer' /\ Opened'
  BY <1>5, <1>6, <1>7, Zenon DEF PortInv, PortAnswer, Opened, workerVars
<1> QED
  BY <1>1, <1>4, <1>8, <1>9, <1>10, Zenon DEF PortInv

(* Stopping the worker empties the connection.                             *)
LEMMA PolicyStopKeeps ==
    ASSUME Typed, Wire, PortInv, NEW call \in PolicyCalls, stopAfterAmbiguousPolicy(call),
           UNCHANGED <<workerVars, portCall, bound>>
    PROVE  Typed' /\ Wire' /\ PortInv'
<1>1. Typed'
  <2>1. policyCall' \in PolicyCalls
    BY Zenon DEF stopAfterAmbiguousPolicy, PolicyCalls, PolicySteps
  <2>2. portCall' \in PortCalls'
    BY Zenon DEF Typed, PortCalls
  <2>3. inbox' = <<>> /\ alive' = FALSE /\ UNCHANGED <<answer, mirror>>
    BY Zenon DEF stopAfterAmbiguousPolicy
  <2>4. inbox' \in Seq(PolicyRequests \cup PortRequests)
    BY <2>3
  <2>5. alive' \in BOOLEAN
    BY <2>3, Zenon
  <2>6. DOMAIN answer' = Callers /\ mirror' \in Policies
    BY <2>3, Zenon DEF Typed
  <2> QED
    BY <2>1, <2>2, <2>4, <2>5, <2>6, Zenon DEF Typed, workerVars
<1>2. Wire'
  BY DEF Wire, stopAfterAmbiguousPolicy
<1>6. Outcome' = Outcome
  BY Zenon DEF Outcome, Remembered, workerVars
<1>7. Changed' = Changed
  BY Zenon DEF Changed
<1>8. PortRequestsSound'
  BY DEF PortRequestsSound, stopAfterAmbiguousPolicy
<1>9. PortNumbers' /\ OneListener'
  BY Zenon DEF PortInv, PortNumbers, OneListener, workerVars
<1>10. PortAnswer' /\ Opened'
  BY <1>6, <1>7, Zenon DEF PortInv, PortAnswer, Opened, workerVars, stopAfterAmbiguousPolicy
<1> QED
  BY <1>1, <1>2, <1>8, <1>9, <1>10, Zenon DEF PortInv

(* What SetPolicy makes of a return: the worker's answer, which still      *)
(* holds and after which nothing of the caller is left in the connection,  *)
(* or an error, which counts as a lost answer if the worker runs.          *)
LEMMA PolicyReturned ==
    ASSUME Typed, Wire, PolicyAnswer, NEW r \in Answered("policy") \cup Unanswered(policyCall)
    PROVE  /\ r.lost \in {0, 1}
           /\ \/ /\ r.lost = 0
                 /\ AnswerHolds(r.reply)
                 /\ \A i \in DOMAIN inbox : inbox[i].from # "policy"
              \/ /\ ~ r.reply.ok
                 /\ alive => r.lost = 1
  BY DEF Answered, Unanswered, Wire, PolicyAnswer, Refusal

Inv == Typed /\ Wire /\ PolicyInv /\ PortInv

-----------------------------------------------------------------------------
(* The worker handles a policy request.                                    *)

(* The worker took the request r off the connection and answered reply.    *)
Taken(r, reply) ==
    /\ r \in Requests /\ 1 \in DOMAIN inbox /\ r = inbox[1] /\ ~ answer[r.from].ok
    /\ \A j \in DOMAIN inbox' : j + 1 \in DOMAIN inbox /\ inbox'[j] = inbox[j + 1]
    /\ inbox' \in Seq(Requests)
    /\ DOMAIN answer' = Callers
    /\ \A c \in Callers \ {r.from} : answer'[c] = answer[c]
    /\ answer'[r.from].ok => r.awaited /\ answer'[r.from].reply = reply
    /\ Wire'

(* Handle takes the oldest request and answers its caller if it still      *)
(* waits.                                                                  *)
LEMMA HandleTakes ==
    ASSUME Typed, Wire, alive, inbox # <<>>, inbox' = Tail(inbox), NEW reply,
           Reply(Head(inbox), reply), UNCHANGED <<alive, policyCall, portCall>>
    PROVE  Taken(Head(inbox), reply)
<1> DEFINE r == Head(inbox)
<1>0. inbox \in Seq(Requests)
  BY Zenon DEF Typed, Requests
<1>1. /\ r \in Requests /\ r.from \in Callers /\ 1 \in DOMAIN inbox /\ r = inbox[1]
      /\ inbox' \in Seq(Requests)
      /\ \A j \in DOMAIN inbox' : j + 1 \in DOMAIN inbox /\ inbox'[j] = inbox[j + 1]
      /\ DOMAIN inbox' \subseteq Nat \ {0}
  <2>1. r \in Requests /\ 1 \in DOMAIN inbox /\ r = inbox[1]
    BY <1>0
  <2>2. r.from \in Callers
    BY <2>1, Zenon DEF Requests, PolicyRequests, PortRequests, Callers
  <2>3. inbox' \in Seq(Requests) /\ Len(inbox') = Len(inbox) - 1
        /\ \A j \in 1 .. Len(inbox) - 1 : inbox'[j] = inbox[j + 1]
    BY <1>0
  <2>4. Len(inbox) \in Nat /\ DOMAIN inbox = 1 .. Len(inbox) /\ DOMAIN inbox' = 1 .. Len(inbox) - 1
    BY <1>0, <2>3
  <2> QED
    BY <2>1, <2>2, <2>3, <2>4
<1>2. /\ DOMAIN answer' = Callers
      /\ \A c \in Callers \ {r.from} : answer'[c] = answer[c]
      /\ r.awaited => answer'[r.from].reply = reply
      /\ ~ r.awaited => answer' = answer
  BY <1>1, Zenon DEF Reply, Typed
<1> HIDE DEF r
<1>3. ~ answer[r.from].ok
  BY <1>1, Zenon DEF Wire
<1>4. Wire'
  <2>1. ASSUME NEW j \in DOMAIN inbox'
        PROVE  ~ answer'[inbox'[j].from].ok
    <3>1. inbox[j + 1].from \in Callers /\ ~ answer[inbox[j + 1].from].ok /\ j + 1 > 1
      BY <1>0, <1>1 DEF Wire, Requests, PolicyRequests, PortRequests, Callers
    <3>2. CASE r.awaited
      <4>1. inbox[j + 1].from # r.from
        BY <1>1, <3>1, <3>2, Zenon DEF Wire
      <4> QED
        BY <1>1, <1>2, <3>1, <4>1, Zenon
    <3>3. CASE ~ r.awaited
      BY <1>1, <1>2, <3>1, <3>3, Zenon
    <3> QED
      BY <3>2, <3>3, Zenon
  <2>2. ASSUME NEW i \in DOMAIN inbox', NEW j \in DOMAIN inbox', inbox'[i].awaited, j > i
        PROVE  inbox'[j].from # inbox'[i].from
    <3>1. j + 1 > i + 1 /\ i + 1 \in DOMAIN inbox /\ j + 1 \in DOMAIN inbox
      BY <1>1, <2>2
    <3> QED
      BY <1>1, <2>2, <3>1 DEF Wire
  <2> QED
    BY <2>1, <2>2, Zenon DEF Wire
<1> QED
  BY <1>1, <1>2, <1>3, <1>4, Zenon DEF Taken, r

(* What is left of the connection after a request is taken is sound if     *)
(* what the requests are judged by did not change.                         *)
LEMMA TakenKeepsRequests ==
    ASSUME NEW r, NEW reply, Taken(r, reply), RequestsSound, PortRequestsSound,
           UNCHANGED <<policyCall, portCall>>
    PROVE  RequestsSound' /\ PortRequestsSound'
  BY DEF Taken, RequestsSound, PortRequestsSound

(* The four things a policy request can do.                                *)
Keeps(r, e) ==
    /\ e.enforced = enforced /\ e.current = current /\ e.pending = pending
    /\ \/ /\ r.op # "status" /\ e.reply = Refusal
          /\ r.op = "abort" => ~ (pending.gen = r.gen /\ pending.txn = r.txn) /\ pending # Nothing
       \/ /\ e.reply = StatusOf(current, pending, r.txn)
          /\ r.op = "commit" => current.txn = r.txn
          /\ r.op = "abort" => pending = Nothing
Prepares(r, e) ==
    LET next == [gen |-> r.gen, txn |-> r.txn, policy |-> r.policy]
    IN  /\ r.op = "prepare" /\ pending = Nothing
        /\ e.enforced = enforced /\ e.current = current /\ e.pending = next
        /\ e.reply = StatusOf(current, next, r.txn)
Commits(r, e) ==
    LET next == [gen |-> r.gen, txn |-> r.txn]
    IN  /\ r.op = "commit" /\ pending.txn = r.txn /\ pending.gen = r.gen
        /\ ~ UdpConflict(pending.policy, forwards)
        /\ e.enforced = pending.policy /\ e.current = next /\ e.pending = Nothing
        /\ e.reply = StatusOf(next, Nothing, r.txn)
Aborts(r, e) ==
    /\ r.op = "abort"
    /\ e.enforced = enforced /\ e.current = current /\ e.pending = Nothing
    /\ e.reply = StatusOf(current, Nothing, r.txn)

(* handlePolicy does one of the four.                                      *)
LEMMA PolicyEffects ==
    ASSUME NEW r \in PolicyRequests, NEW fault, NEW e, e = PolicyEffect(r, fault)
    PROVE  Keeps(r, e) \/ Prepares(r, e) \/ Commits(r, e) \/ Aborts(r, e)
<1>1. CASE r.op = "prepare"
  <2>1. e = preparePolicy(r)
    BY <1>1, Zenon DEF PolicyEffect
  <2> DEFINE next == [gen |-> r.gen, txn |-> r.txn, policy |-> r.policy]
  <2>2. \/ e = Kept(StatusOf(current, pending, r.txn))
        \/ e = Kept(Refusal)
        \/ /\ pending = Nothing
           /\ e = [reply |-> StatusOf(current, next, r.txn),
                   enforced |-> enforced, current |-> current, pending |-> next]
    BY <2>1, Zenon DEF preparePolicy
  <2> QED
    BY <1>1, <2>2 DEF Kept, Keeps, Prepares
<1>2. CASE r.op = "commit"
  <2>1. e = commitPolicy(r, fault)
    BY <1>2, Zenon DEF PolicyEffect
  <2> DEFINE next == [gen |-> r.gen, txn |-> r.txn]
  <2>2. \/ current = next /\ e = Kept(StatusOf(current, pending, r.txn))
        \/ e = Kept(Refusal)
        \/ /\ pending.gen = r.gen /\ pending.txn = r.txn /\ ~ UdpConflict(pending.policy, forwards)
           /\ e = [reply |-> StatusOf(next, Nothing, r.txn),
                   enforced |-> pending.policy, current |-> next, pending |-> Nothing]
    BY <2>1, Zenon DEF commitPolicy
  <2> QED
    BY <1>2, <2>2 DEF Kept, Keeps, Commits
<1>3. CASE r.op = "abort"
  <2>1. e = abortPolicy(r)
    BY <1>3, Zenon DEF PolicyEffect
  <2>2. \/ pending = Nothing /\ e = Kept(StatusOf(current, pending, r.txn))
        \/ /\ ~ (pending.gen = r.gen /\ pending.txn = r.txn) /\ pending # Nothing
           /\ e = Kept(Refusal)
        \/ e = [reply |-> StatusOf(current, Nothing, r.txn),
                enforced |-> enforced, current |-> current, pending |-> Nothing]
    BY <2>1, Zenon DEF abortPolicy
  <2> QED
    BY <1>3, <2>2 DEF Kept, Keeps, Aborts
<1>4. CASE r.op = "status"
  BY <1>4, Zenon DEF PolicyEffect, Kept, Keeps
<1> QED
  BY <1>1, <1>2, <1>3, <1>4, Zenon DEF PolicyRequests, PolicyOps

(* Handling a sound request keeps the numbers, and the enforced policy     *)
(* that of the caller's.                                                   *)
LEMMA NumbersHandled ==
    ASSUME Numbers, Enforces, current \in [gen : Nat, txn : Nat], policyCall.txn \in Nat,
           pending \in [gen : Nat, txn : Nat, policy : Policies],
           NEW r \in PolicyRequests, NEW e, RequestSound(policyCall, r),
           Keeps(r, e) \/ Prepares(r, e) \/ Commits(r, e) \/ Aborts(r, e),
           enforced' = e.enforced, current' = e.current, pending' = e.pending,
           UNCHANGED <<policyCall, mirror, alive>>
    PROVE  Numbers' /\ Enforces'
<1>1. CASE Keeps(r, e)
  BY <1>1, Zenon DEF Keeps, Numbers, Enforces
<1>2. CASE Prepares(r, e)
  <2>1. /\ r.txn \in 1 .. policyCall.txn /\ ~ policyCall.prepared
        /\ pending' = [gen |-> r.gen, txn |-> r.txn, policy |-> r.policy]
        /\ r.txn = policyCall.txn =>
             /\ r.policy = policyCall.want /\ policyCall.at \notin Early
             /\ policyCall.at # "idle" => r.gen = policyCall.gen
        /\ UNCHANGED <<enforced, current>>
    BY <1>2, Zenon DEF RequestSound, Prepares
  <2>2. Enforces'
    BY <2>1, Zenon DEF Enforces
  <2>3. Numbers'
    BY <2>1 DEF Numbers
  <2> QED
    BY <2>2, <2>3, Zenon
<1>3. CASE Commits(r, e)
  <2>1. /\ r.txn = policyCall.txn /\ policyCall.at \in Committing
        /\ enforced' = pending.policy /\ pending.txn = policyCall.txn
        /\ current' = [gen |-> r.gen, txn |-> r.txn] /\ pending' = Nothing
    BY <1>3, Zenon DEF RequestSound, Commits
  <2>2. policyCall.at \notin Early \cup Preparing /\ policyCall.at # "idle" /\ policyCall.at # "clear"
    BY <2>1, Zenon DEF Committing, Early, Preparing
  <2>3. Enforces'
    BY <2>1, <2>2 DEF Enforces, Numbers
  <2>4. Numbers'
    BY <2>1, <2>2 DEF Numbers, Nothing, NoTxn
  <2> QED
    BY <2>3, <2>4, Zenon
<1>4. CASE Aborts(r, e)
  <2>1. pending' = Nothing /\ UNCHANGED <<enforced, current>> /\ policyCall.txn > 0
    BY <1>4 DEF Aborts, RequestSound
  <2>2. Enforces'
    BY <2>1, Zenon DEF Enforces
  <2>3. Numbers'
    BY <2>1 DEF Numbers, Nothing, NoTxn
  <2> QED
    BY <2>2, <2>3, Zenon
<1> QED
  BY <1>1, <1>2, <1>3, <1>4, Zenon

(* The answer to a request that is still awaited holds.                    *)
LEMMA AnswerHandled ==
    ASSUME Numbers,
           NEW r \in PolicyRequests, NEW e, RequestSound(policyCall, r),
           Keeps(r, e) \/ Prepares(r, e) \/ Commits(r, e) \/ Aborts(r, e),
           enforced' = e.enforced, current' = e.current, pending' = e.pending,
           r.awaited, UNCHANGED <<policyCall, alive>>
    PROVE  AnswerHolds(e.reply)'
<1>1. Awaits(policyCall, r)
  BY Zenon DEF RequestSound
<1>2. CASE Keeps(r, e)
  <2>1. CASE /\ e.reply = StatusOf(current, pending, r.txn)
             /\ r.op = "commit" => current.txn = r.txn
             /\ r.op = "abort" => pending = Nothing
    <3>1. UNCHANGED <<current, pending, policyCall>>
      BY <1>2, Zenon DEF Keeps
    <3>2. e.reply.ok /\ e.reply.gen = current.gen /\ e.reply.pendGen = pending.gen /\ e.reply.pendTxn = pending.txn
      BY <2>1 DEF StatusOf
    <3>3. r.txn = policyCall.txn => e.reply.state = StatusOf(current, pending, policyCall.txn).state
      BY <2>1, Zenon
    <3>4. policyCall.at \in {"prepared", "committed", "unwind", "unwound", "commit"} => r.txn = policyCall.txn
      BY <1>1, Zenon DEF RequestSound, Awaits
    <3>5. policyCall.at # "idle" /\ (policyCall.at = "commit" => r.op = "commit")
          /\ (policyCall.at \in {"clear", "unwind"} => r.op = "abort")
      BY <1>1, Zenon DEF Awaits
    <3> QED
      BY <2>1, <3>1, <3>2, <3>3, <3>4, <3>5, Zenon DEF AnswerHolds
  <2>2. CASE e.reply = Refusal /\ r.op # "status"
    <3>1. policyCall.at # "unwind"
      BY <1>1, <1>2, <2>2 DEF Keeps, Awaits, StatusOf, Refusal, Numbers
    <3> QED
      BY <1>1, <2>2, <3>1 DEF Awaits, AnswerHolds, Refusal
  <2> QED
    BY <1>2, <2>1, <2>2, Zenon DEF Keeps
<1>3. CASE Prepares(r, e)
  BY <1>1, <1>3 DEF Prepares, Awaits, AnswerHolds, StatusOf
<1>4. CASE Commits(r, e)
  BY <1>1, <1>4 DEF Commits, Awaits, AnswerHolds, StatusOf, RequestSound
<1>5. CASE Aborts(r, e)
  BY <1>1, <1>5 DEF Aborts, Awaits, AnswerHolds, StatusOf
<1> QED
  BY <1>2, <1>3, <1>4, <1>5, Zenon

(* The request the worker executes is sound, so its effect is.             *)
LEMMA HandlePolicyKeeps ==
    ASSUME Inv, NEW r \in PolicyRequests, NEW e, Taken(r, e.reply),
           Keeps(r, e) \/ Prepares(r, e) \/ Commits(r, e) \/ Aborts(r, e),
           enforced' = e.enforced, current' = e.current, pending' = e.pending,
           UNCHANGED <<forwards, portTxns, alive, policyCall, portCall, mirror, bound>>
    PROVE  Inv'
<1> USE DEF Inv
<1>0. /\ RequestSound(policyCall, r) /\ ~ answer["policy"].ok /\ r.from = "policy"
      /\ answer'["policy"].ok => r.awaited /\ answer'["policy"].reply = e.reply
      /\ answer'["port"] = answer["port"]
  BY Zenon DEF Taken, PolicyInv, RequestsSound, PolicyRequests, Callers
<1>t. /\ current \in [gen : Nat, txn : Nat] /\ pending \in [gen : Nat, txn : Nat, policy : Policies]
      /\ Nothing \in [gen : Nat, txn : Nat, policy : Policies]
      /\ policyCall.txn \in Nat
  BY WorkerConstants, Zenon DEF Typed, Nothing, NoTxn, PolicyCalls
<1>1. /\ enforced' \in Policies /\ current' \in [gen : Nat, txn : Nat]
      /\ pending' \in [gen : Nat, txn : Nat, policy : Policies]
  BY <1>t DEF Keeps, Prepares, Commits, Aborts, Typed, PolicyRequests
<1>2. Typed'
  BY <1>1, Zenon DEF Typed, Taken, Requests, PortCalls
<1>3. Wire' /\ RequestsSound' /\ PortRequestsSound'
  BY TakenKeepsRequests, Zenon DEF Taken, PolicyInv, PortInv
<1>4. PortInv'
  <2>1. Outcome' = Outcome /\ Changed' = Changed
    BY Zenon DEF Outcome, Remembered, Changed
  <2> QED
    BY <1>0, <1>3, <2>1, Zenon DEF PortInv, PortNumbers, PortAnswer, OneListener, Opened
<1>5. Numbers' /\ Enforces'
  BY <1>0, <1>t, NumbersHandled, Zenon DEF PolicyInv
<1>6. PolicyAnswer'
  <2> SUFFICES ASSUME answer'["policy"].ok
               PROVE  AnswerHolds(e.reply)'
    BY <1>0, Zenon DEF PolicyAnswer
  <2> QED
    BY <1>0, AnswerHandled, Zenon DEF PolicyInv
<1> QED
  BY <1>2, <1>3, <1>4, <1>5, <1>6, Zenon DEF PolicyInv

-----------------------------------------------------------------------------
(* The policy calls of the supervisor.                                     *)

(* The call goes on, from a to b, in a way that its requests still in the  *)
(* connection do not notice.                                               *)
Advances(a, b) ==
    /\ b.txn = a.txn /\ b.want = a.want
    /\ a.at \in Early \/ b.gen = a.gen \/ b.at = "idle"
    /\ b.at \in Early => a.at \in Early
    /\ a.at \in Committing => b.at \in Committing
    /\ b.prepared => a.prepared

NoneLeft == \A i \in DOMAIN inbox : inbox[i].from # "policy"

(* What an earlier step of the call left on the connection stays sound.    *)
LEMMA OldSound ==
    ASSUME NEW a \in PolicyCalls, NEW b \in PolicyCalls, Advances(a, b), a.at # "idle",
           NEW old \in PolicyRequests, NEW new, Kin(new, old, "policy"), RequestSound(a, old)
    PROVE  RequestSound(b, new)
  BY Zenon DEF Advances, Kin, RequestSound, PolicyRequests, PolicyCalls, PolicySteps, Early, Preparing, Committing

(* A call that asks keeps the invariant if its own numbers are right.      *)
LEMMA PolicyAsks ==
    ASSUME Inv, NEW call \in PolicyCalls, NEW step \in PolicySteps \ {"idle", "stopped"},
           NEW request \in PolicyRequests, AskPolicy(call, step, request),
           UNCHANGED <<workerVars, portCall, bound>>, policyCall.at # "idle",
           NoneLeft \/ Advances(policyCall, policyCall'),
           RequestSound(policyCall', request), Numbers', Enforces'
    PROVE  Inv'
<1> USE DEF Inv
<1>1. Asked("policy", request)
  BY AskAsked, Zenon DEF AskPolicy, Callers, Requests
<1>2. policyCall' \in PolicyCalls /\ policyCall'.at = step
  BY Zenon DEF AskPolicy, PolicyCalls
<1>3. Typed' /\ Wire' /\ PortInv'
  <2>1. mirror' \in Policies /\ UNCHANGED <<workerVars, portCall, bound, alive>>
    BY Zenon DEF AskPolicy, Typed
  <2> QED
    BY <1>1, <1>2, <2>1, PolicyAskKeeps, Zenon
<1>4. PolicyAnswer'
  BY <1>1, Zenon DEF PolicyAnswer, Asked
<1>5. RequestsSound'
  <2> SUFFICES ASSUME NEW j \in DOMAIN inbox', inbox'[j].from = "policy"
               PROVE  RequestSound(policyCall', inbox'[j])
    BY Zenon DEF RequestsSound
  <2>1. CASE inbox'[j] = request
    BY <2>1, Zenon
  <2>2. CASE j \in DOMAIN inbox /\ Kin(inbox'[j], inbox[j], "policy")
    <3>1. inbox[j] \in PolicyRequests
      BY <2>2 DEF Typed, Kin, PortRequests
    <3>2. Advances(policyCall, policyCall') /\ RequestSound(policyCall, inbox[j])
      BY <2>2, Zenon DEF NoneLeft, Kin, PolicyInv, RequestsSound
    <3> QED
      BY <1>2, <2>2, <3>1, <3>2, OldSound, Zenon DEF Typed
  <2> QED
    BY <1>1, <2>1, <2>2, Zenon DEF Asked
<1> QED
  BY <1>3, <1>4, <1>5, Zenon DEF PolicyInv

(* A call that returns keeps it if success and error mean what they say.   *)
LEMMA PolicyReturnsWell ==
    ASSUME Inv, NEW call \in PolicyCalls, NEW success \in BOOLEAN, PolicyDone(call, success),
           UNCHANGED <<workerVars, portCall, bound>>, policyCall.at # "idle",
           call.txn = policyCall.txn, call.want = policyCall.want,
           NoneLeft \/ policyCall.at \in Early \cup Preparing,
           success <=> current.txn = policyCall.txn
    PROVE  Inv'
<1> USE DEF Inv
<1> DEFINE any == Status(NoTxn)
<1>0. any \in PolicyRequests
  BY WorkerConstants, Zenon DEF Status, PolicyRequest, PolicyRequests, PolicyOps, NoTxn
<1> HIDE DEF any
<1>1. Asked("policy", any)
  BY HangAsked, Zenon DEF PolicyDone, Callers
<1>2. /\ policyCall' \in PolicyCalls /\ policyCall'.at = "idle" /\ ~ policyCall'.prepared
      /\ policyCall'.txn = policyCall.txn /\ policyCall'.want = policyCall.want
  BY Zenon DEF PolicyDone, PolicyCalls, PolicySteps
<1>3. Typed' /\ Wire' /\ PortInv'
  <2>1. mirror' \in Policies
    BY Zenon DEF PolicyDone, Typed, PolicyCalls
  <2>2. UNCHANGED <<workerVars, portCall, bound, alive>>
    BY Zenon DEF PolicyDone
  <2> QED
    BY <1>0, <1>1, <1>2, <2>1, <2>2, PolicyAskKeeps, Zenon
<1>4. PolicyAnswer'
  BY <1>1, Zenon DEF PolicyAnswer, Asked
<1>5. RequestsSound'
  <2>0. inbox' = Abandoned("policy") /\ DOMAIN inbox' = DOMAIN inbox
    BY AbandonedKeeps, Zenon DEF PolicyDone, Hang, Typed, Requests, Callers
  <2> SUFFICES ASSUME NEW j \in DOMAIN inbox, inbox'[j].from = "policy"
               PROVE  RequestSound(policyCall', inbox'[j])
    BY <2>0, Zenon DEF RequestsSound
  <2>1. Kin(inbox'[j], inbox[j], "policy")
    BY <2>0, AbandonedKeeps, Zenon DEF Typed, Requests, Callers
  <2>2. inbox[j] \in PolicyRequests /\ RequestSound(policyCall, inbox[j])
    BY <2>1 DEF Typed, Kin, PortRequests, PolicyInv, RequestsSound
  <2>3. Advances(policyCall, policyCall')
    BY <1>2, <2>1, <2>2, Zenon DEF Advances, NoneLeft, Kin, PolicyRequests, Early, Preparing, Committing
  <2> QED
    BY <1>2, <2>1, <2>2, <2>3, OldSound, Zenon DEF Typed
<1>6. Numbers'
  BY <1>2, Zenon DEF PolicyInv, Numbers, workerVars, Early, Preparing, Committing
<1>7. Enforces'
  BY <1>2, Zenon DEF PolicyInv, Enforces, PolicyDone, workerVars
<1> QED
  BY <1>3, <1>4, <1>5, <1>6, <1>7, Zenon DEF PolicyInv

(* So does one that stops the worker.                                      *)
LEMMA PolicyStops ==
    ASSUME Inv, NEW call \in PolicyCalls, stopAfterAmbiguousPolicy(call), policyCall.at # "idle",
           UNCHANGED <<workerVars, portCall, bound>>,
           call.txn = policyCall.txn, call.want = policyCall.want, call.gen = policyCall.gen,
           call.prepared = policyCall.prepared
    PROVE  Inv'
<1> USE DEF Inv
<1>1. Typed' /\ Wire' /\ PortInv'
  BY PolicyStopKeeps, Zenon
<1>2. policyCall'.at = "stopped" /\ policyCall'.txn = policyCall.txn /\ policyCall'.want = policyCall.want
      /\ policyCall'.gen = policyCall.gen /\ policyCall'.prepared = policyCall.prepared
  BY Zenon DEF stopAfterAmbiguousPolicy, PolicyCalls
<1>3. RequestsSound' /\ ~ alive'
  BY DEF RequestsSound, stopAfterAmbiguousPolicy
<1>4. Numbers'
  BY <1>2, <1>3, Zenon DEF PolicyInv, Numbers, workerVars, Early, Preparing, Committing
<1>5. PolicyAnswer'
  BY <1>2, Zenon DEF PolicyInv, PolicyAnswer, AnswerHolds, stopAfterAmbiguousPolicy, workerVars
<1>6. Enforces'
  BY <1>2, Zenon DEF PolicyInv, Enforces, stopAfterAmbiguousPolicy, workerVars
<1> QED
  BY <1>1, <1>3, <1>4, <1>5, <1>6, Zenon DEF PolicyInv

(* The requests SetPolicy sends have the types of requests.                *)
LEMMA RequestTypes ==
    ASSUME NEW call \in PolicyCalls, NEW n \in Nat, NEW k \in Nat
    PROVE  /\ Status(n) \in PolicyRequests
           /\ PolicyRequest("abort", k, n) \in PolicyRequests
           /\ Prepare(call) \in PolicyRequests
           /\ Commit(call) \in PolicyRequests
  BY WorkerConstants, Zenon
     DEF Status, PolicyRequest, Prepare, Commit, PolicyRequests, PolicyOps, PolicyCalls

(* SetPolicy begins with a transaction nobody has seen.                    *)
LEMMA SetPolicyKeeps ==
    ASSUME Inv, NEW p \in Policies, SetPolicy(p)
    PROVE  Inv'
<1> USE DEF Inv
<1> DEFINE call == [policyCall EXCEPT !.txn = @ + 1, !.want = p, !.lost = 0]
           request == Status(NoTxn)
<1>0. request \in PolicyRequests /\ Boot \in Policies
  BY WorkerConstants, Zenon DEF Status, PolicyRequest, PolicyRequests, PolicyOps, NoTxn
<1>1. /\ policyCall' = [call EXCEPT !.at = "sync"] /\ Ask("policy", call, request)
      /\ UNCHANGED <<mirror, alive, workerVars, portCall, bound>> /\ policyCall.at = "idle"
  BY Zenon DEF SetPolicy, AskPolicy
<1>2. /\ policyCall' \in PolicyCalls
      /\ policyCall'.at = "sync" /\ policyCall'.txn = policyCall.txn + 1
      /\ policyCall'.prepared = policyCall.prepared /\ policyCall.txn \in Nat
  <2>1. policyCall \in PolicyCalls
    BY Zenon DEF Typed
  <2>2. call \in PolicyCalls /\ call.txn = policyCall.txn + 1 /\ call.prepared = policyCall.prepared
    <3> DEFINE a == [policyCall EXCEPT !.txn = @ + 1]
               b == [a EXCEPT !.want = p]
    <3>1. a \in PolicyCalls /\ a.txn = policyCall.txn + 1 /\ a.prepared = policyCall.prepared
      BY <2>1 DEF PolicyCalls
    <3> HIDE DEF a
    <3>2. b \in PolicyCalls /\ b.txn = a.txn /\ b.prepared = a.prepared
      BY <3>1, Zenon DEF PolicyCalls
    <3>3. call = [b EXCEPT !.lost = 0]
      BY Zenon DEF a
    <3> HIDE DEF b, call
    <3> QED
      BY <3>1, <3>2, <3>3, Zenon DEF PolicyCalls
  <2> HIDE DEF call
  <2> QED
    BY <1>1, <2>1, <2>2, Zenon DEF PolicyCalls, PolicySteps
<1> HIDE DEF call
<1>3. Asked("policy", request)
  BY <1>0, <1>1, AskAsked, Zenon DEF Callers, Requests
<1>4. Typed' /\ Wire' /\ PortInv'
  <2>1. mirror' \in Policies
    BY <1>1, Zenon DEF Typed
  <2> QED
    BY <1>0, <1>1, <1>2, <1>3, <2>1, PolicyAskKeeps, Zenon
<1>5. PolicyAnswer'
  BY <1>3, Zenon DEF PolicyAnswer, Asked
<1>6. current.txn \in Nat /\ pending.txn \in Nat
  BY Zenon DEF Typed
<1>7. Numbers'
  BY <1>1, <1>2, <1>6 DEF PolicyInv, Numbers, workerVars, Early, Preparing, Committing
<1>8. Enforces'
  BY <1>1, <1>2, <1>6 DEF PolicyInv, Numbers, Enforces, workerVars
<1>9. RequestsSound'
  <2> SUFFICES ASSUME NEW j \in DOMAIN inbox', inbox'[j].from = "policy"
               PROVE  RequestSound(policyCall', inbox'[j])
    BY Zenon DEF RequestsSound
  <2>1. CASE inbox'[j] = request
    BY <1>2, <2>1 DEF RequestSound, Awaits, Status, PolicyRequest, PolicyInv, Numbers
  <2>2. CASE j \in DOMAIN inbox /\ Kin(inbox'[j], inbox[j], "policy")
    <3>1. inbox[j] \in PolicyRequests /\ RequestSound(policyCall, inbox[j])
      BY <2>2 DEF Typed, Kin, PortRequests, PolicyInv, RequestsSound
    <3> QED
      BY <1>1, <1>2, <2>2, <3>1
         DEF RequestSound, Kin, PolicyRequests, PolicyInv, Numbers, Committing
  <2> QED
    BY <1>3, <2>1, <2>2, Zenon DEF Asked
<1> QED
  BY <1>4, <1>5, <1>7, <1>8, <1>9, Zenon DEF PolicyInv

(* The call as it goes on after a return that gave it r: the worker's      *)
(* answer, or an error, with a lost answer on record if the worker runs.   *)
Resuming(call, r) ==
    /\ call \in PolicyCalls /\ policyCall.txn > 0
    /\ call.txn = policyCall.txn /\ call.gen = policyCall.gen /\ call.want = policyCall.want
    /\ call.attempt = policyCall.attempt /\ call.prepared = policyCall.prepared
    /\ policyCall.lost <= call.lost
    /\ \/ AnswerHolds(r) /\ NoneLeft
       \/ ~ r.ok /\ (alive => call.lost > 0)

(* A return of Client.call gives the handler an answer that holds, or an   *)
(* error.                                                                  *)
LEMMA Resumed ==
    ASSUME Inv, policyCall.at # "idle", NEW r \in Answered("policy") \cup Unanswered(policyCall)
    PROVE  Resuming([policyCall EXCEPT !.lost = @ + r.lost], r.reply)
<1>1. /\ r.lost \in {0, 1}
      /\ \/ AnswerHolds(r.reply) /\ NoneLeft
         \/ ~ r.reply.ok /\ (alive => r.lost = 1)
  BY PolicyReturned, Zenon DEF Inv, PolicyInv, NoneLeft
<1>2. policyCall \in PolicyCalls /\ policyCall.txn > 0
  BY Zenon DEF Inv, Typed, PolicyInv, Numbers
<1>3. policyCall.lost + r.lost \in Nat
  BY <1>1, <1>2 DEF PolicyCalls
<1> QED
  BY <1>1, <1>2, <1>3 DEF PolicyCalls, Resuming

(* From here on: what each return leads to keeps the invariant.            *)
LEMMA PreparesNext ==
    ASSUME Inv, NEW call, NEW r, Resuming(call, r), NoneLeft,
           PrepareNext(call, current.gen), policyCall.at \in Early,
           UNCHANGED <<workerVars, portCall, bound>>
    PROVE  Inv'
<1> DEFINE next == [call EXCEPT !.gen = current.gen + 1]
<1>0. current.gen \in Nat /\ call \in PolicyCalls
  BY Zenon DEF Inv, Typed, Resuming
<1>1. /\ next \in PolicyCalls /\ next.txn = policyCall.txn /\ next.gen = current.gen + 1
      /\ next.want = policyCall.want /\ next.prepared = policyCall.prepared
  BY <1>0 DEF Resuming, PolicyCalls
<1>2. AskPolicy(next, "prepare", Prepare(next))
  BY Zenon DEF PrepareNext
<1> HIDE DEF next
<1>3. /\ policyCall'.at = "prepare" /\ policyCall'.txn = policyCall.txn
      /\ policyCall'.gen = current.gen + 1 /\ policyCall'.want = policyCall.want
      /\ policyCall'.prepared = policyCall.prepared
  BY <1>1, <1>2, Zenon DEF AskPolicy, PolicyCalls
<1>4. Numbers' /\ Enforces'
  BY <1>2, <1>3, Zenon DEF Inv, PolicyInv, Numbers, Enforces, workerVars, AskPolicy, Early, Preparing, Committing, Resuming
<1>5. RequestSound(policyCall', Prepare(next))
  <2>1. ~ policyCall.prepared /\ policyCall.txn \in Nat \ {0}
    BY <1>0 DEF Inv, PolicyInv, Numbers, Resuming, PolicyCalls
  <2> QED
    BY <1>1, <1>3, <2>1 DEF RequestSound, Awaits, Prepare, PolicyRequest, Early
<1> QED
  <2>1. Prepare(next) \in PolicyRequests /\ "prepare" \in PolicySteps \ {"idle", "stopped"}
    BY <1>1, RequestTypes, Zenon DEF PolicySteps
  <2> QED
    BY <1>1, <1>2, <1>4, <1>5, <2>1, PolicyAsks, Zenon DEF Early

(* syncPolicyState keeps the invariant.                                    *)
LEMMA OnSyncKeeps ==
    ASSUME Inv, NEW call, NEW r, Resuming(call, r), OnSync(call, r), policyCall.at = "sync",
           UNCHANGED <<workerVars, portCall, bound>>
    PROVE  Inv'
<1>1. CASE ~ r.ok
  <2>1. PolicyDone(call, FALSE)
    BY <1>1, Zenon DEF OnSync
  <2>2. current.txn # policyCall.txn
    BY Zenon DEF Inv, PolicyInv, Numbers, Early
  <2> QED
    BY <2>1, <2>2, PolicyReturnsWell, Zenon DEF Early, Resuming
<1>2. CASE r.ok
  <2>1. NoneLeft /\ r.gen = current.gen /\ r.pendGen = pending.gen /\ r.pendTxn = pending.txn
    BY <1>2, Zenon DEF AnswerHolds, Resuming
  <2>2. CASE r.pendTxn = NoTxn
    BY <1>2, <2>1, <2>2, PreparesNext, Zenon DEF OnSync, Early
  <2>3. CASE r.pendTxn # NoTxn
    <3> DEFINE next == [call EXCEPT !.gen = r.gen]
               request == PolicyRequest("abort", r.pendGen, r.pendTxn)
    <3>0. call \in PolicyCalls /\ current.gen \in Nat /\ pending.gen \in Nat /\ pending.txn \in Nat \ {0}
      BY <2>1, <2>3, Zenon DEF Inv, Typed, Resuming, NoTxn
    <3>1. /\ next \in PolicyCalls /\ next.txn = policyCall.txn /\ next.gen = current.gen
          /\ next.want = policyCall.want /\ next.prepared = policyCall.prepared
      BY <3>0, <2>1, Zenon DEF Resuming, PolicyCalls
    <3>2. AskPolicy(next, "clear", request)
      BY <1>2, <2>3, Zenon DEF OnSync
    <3> HIDE DEF next
    <3>3. /\ policyCall'.at = "clear" /\ policyCall'.txn = policyCall.txn
          /\ policyCall'.gen = current.gen /\ policyCall'.want = policyCall.want
          /\ policyCall'.prepared = policyCall.prepared
      BY <3>1, <3>2, Zenon DEF AskPolicy, PolicyCalls
    <3>4. Numbers' /\ Enforces'
      BY <3>2, <3>3, Zenon DEF Inv, PolicyInv, Numbers, Enforces, workerVars, AskPolicy, Early, Preparing, Committing, Resuming
    <3>5. RequestSound(policyCall', request)
      <4>1. pending.txn <= policyCall.txn /\ policyCall.txn \in Nat
        BY Zenon DEF Inv, PolicyInv, Numbers, Typed, PolicyCalls
      <4> QED
        BY <3>0, <3>1, <3>3, <2>1, <4>1 DEF RequestSound, Awaits, PolicyRequest, Early
    <3>6. request \in PolicyRequests /\ "clear" \in PolicySteps \ {"idle", "stopped"}
      BY <3>0, <2>1, WorkerConstants, Zenon DEF PolicyRequest, PolicyRequests, PolicyOps, PolicySteps
    <3> HIDE DEF request
    <3> QED
      BY <2>1, <3>1, <3>2, <3>4, <3>5, <3>6, PolicyAsks, Zenon
  <2> QED
    BY <2>2, <2>3, Zenon
<1> QED
  BY <1>1, <1>2, Zenon

Successive ==
    {<<"clear", "cleared">>, <<"prepare", "prepared">>, <<"prepare", "commit">>,
     <<"prepared", "commit">>, <<"commit", "committed">>, <<"committed", "commit">>,
     <<"committed", "unwind">>, <<"unwind", "unwound">>}

RequestOf(step, call) ==
    CASE step = "cleared" -> Status(NoTxn)
      [] step = "commit" -> Commit(call)
      [] step = "unwind" -> PolicyRequest("abort", call.gen, call.txn)
      [] OTHER -> Status(call.txn)

(* The steps at which the call keeps its generation.                       *)
LEMMA Proceeds ==
    ASSUME Inv, NEW call \in PolicyCalls, NEW step,
           call.txn = policyCall.txn, call.gen = policyCall.gen, call.want = policyCall.want,
           \/ call.prepared = policyCall.prepared
           \/ call.prepared /\ NoneLeft /\ pending.txn = policyCall.txn
              /\ policyCall.at = "committed",
           <<policyCall.at, step>> \in Successive,
           step = "unwind" => call.prepared /\ call.attempt = 1,
           step = "unwound" => call.attempt = 1 /\ (alive => call.lost > 0),
           AskPolicy(call, step, RequestOf(step, call)),
           UNCHANGED <<workerVars, portCall, bound>>
    PROVE  Inv'
<1> DEFINE request == RequestOf(step, call)
<1>0. /\ policyCall \in PolicyCalls /\ policyCall.txn \in Nat \ {0} /\ call.gen \in Nat
      /\ policyCall.at # "idle" /\ step \in PolicySteps \ {"idle", "stopped"}
  <2>1. policyCall \in PolicyCalls /\ (policyCall.at # "idle" => policyCall.txn > 0)
    BY Zenon DEF Inv, Typed, PolicyInv, Numbers
  <2>2. policyCall.at # "idle" /\ step \in PolicySteps \ {"idle", "stopped"}
    BY Zenon DEF PolicySteps, Successive
  <2> QED
    BY <2>1, <2>2 DEF PolicyCalls
<1>1. request \in PolicyRequests
  <2>1. Status(NoTxn) \in PolicyRequests
    BY RequestTypes, Zenon DEF NoTxn
  <2> QED
    BY <1>0, <2>1, RequestTypes, Zenon DEF RequestOf
<1>2. /\ policyCall' \in PolicyCalls /\ policyCall'.at = step /\ policyCall'.txn = call.txn
      /\ policyCall'.gen = call.gen /\ policyCall'.want = call.want
      /\ policyCall'.prepared = call.prepared /\ policyCall'.attempt = call.attempt
      /\ policyCall'.lost = call.lost
  BY <1>0, Zenon DEF AskPolicy, PolicyCalls
<1>3. UNCHANGED <<mirror, alive>>
  BY Zenon DEF AskPolicy
<1>4. Enforces'
  BY <1>0, <1>2, <1>3, Zenon DEF Inv, PolicyInv, Enforces, workerVars
<1>5. Numbers'
  BY <1>0, <1>2, <1>3, Zenon
     DEF Inv, PolicyInv, Numbers, workerVars, Early, Preparing, Committing, Successive
<1>6. RequestSound(policyCall', request)
  BY <1>0, <1>2 DEF RequestSound, Awaits, RequestOf, Status, Commit, PolicyRequest, Early,
     Committing, Successive
<1>7. NoneLeft \/ Advances(policyCall, policyCall')
  BY <1>0, <1>2, Zenon DEF Advances, Early, Committing, Successive
<1> HIDE DEF request
<1> QED
  BY <1>0, <1>1, <1>4, <1>5, <1>6, <1>7, PolicyAsks, Zenon DEF request

(* So does the abort of an earlier call's transaction,                     *)
LEMMA OnClearKeeps ==
    ASSUME Inv, NEW call, NEW r, Resuming(call, r), OnClear(call, r), policyCall.at = "clear",
           UNCHANGED <<workerVars, portCall, bound>>
    PROVE  Inv'
<1>1. CASE r.ok
  <2>1. NoneLeft /\ call.gen = current.gen
    BY <1>1, Zenon DEF Resuming, Inv, PolicyInv, Numbers
  <2> QED
    BY <1>1, <2>1, PreparesNext, Zenon DEF OnClear, Early
<1>2. CASE ~ r.ok
  BY <1>2, Proceeds DEF OnClear, Resuming, Successive, RequestOf
<1> QED
  BY <1>1, <1>2, Zenon

(* the status call that checks on that abort,                              *)
LEMMA OnClearedKeeps ==
    ASSUME Inv, NEW call, NEW r, Resuming(call, r), OnCleared(call, r), policyCall.at = "cleared",
           UNCHANGED <<workerVars, portCall, bound>>
    PROVE  Inv'
<1>1. CASE r.ok /\ r.pendTxn = NoTxn
  <2>1. NoneLeft /\ r.gen = current.gen
    BY <1>1, Zenon DEF Resuming, AnswerHolds
  <2> QED
    BY <1>1, <2>1, PreparesNext, Zenon DEF OnCleared, Early
<1>2. CASE ~ (r.ok /\ r.pendTxn = NoTxn)
  <2>1. PolicyDone(call, FALSE)
    BY <1>2, Zenon DEF OnCleared
  <2>2. current.txn # policyCall.txn
    BY Zenon DEF Inv, PolicyInv, Numbers, Early
  <2> QED
    BY <2>1, <2>2, PolicyReturnsWell, Zenon DEF Early, Resuming
<1> QED
  BY <1>1, <1>2, Zenon

(* the prepare call,                                                       *)
LEMMA OnPrepareKeeps ==
    ASSUME Inv, NEW call, NEW r, Resuming(call, r), OnPrepare(call, r), policyCall.at = "prepare",
           UNCHANGED <<workerVars, portCall, bound>>
    PROVE  Inv'
  BY Proceeds DEF OnPrepare, Resuming, Successive, RequestOf

(* the status call after a prepare that failed,                            *)
LEMMA OnPreparedKeeps ==
    ASSUME Inv, NEW call, NEW r, Resuming(call, r), OnPrepared(call, r), policyCall.at = "prepared",
           UNCHANGED <<workerVars, portCall, bound>>
    PROVE  Inv'
<1>1. CASE r.ok /\ r.state = "prepared"
  BY <1>1, Proceeds DEF OnPrepared, Resuming, Successive, RequestOf
<1>2. CASE ~ (r.ok /\ r.state = "prepared")
  <2>1. current.txn # policyCall.txn
    BY Zenon DEF Inv, PolicyInv, Numbers, Preparing
  <2>2. ~ (r.ok /\ r.state = "committed")
    BY <2>1, Zenon DEF Resuming, AnswerHolds, StatusOf
  <2>3. PolicyDone(call, FALSE)
    BY <1>2, <2>2, Zenon DEF OnPrepared
  <2> QED
    BY <2>1, <2>3, PolicyReturnsWell, Zenon DEF Preparing, Resuming
<1> QED
  BY <1>1, <1>2, Zenon

(* and the commit call.                                                    *)
LEMMA OnCommitKeeps ==
    ASSUME Inv, NEW call, NEW r, Resuming(call, r), OnCommit(call, r), policyCall.at = "commit",
           UNCHANGED <<workerVars, portCall, bound>>
    PROVE  Inv'
<1>1. CASE r.ok
  <2>1. current.txn = policyCall.txn /\ NoneLeft /\ PolicyDone(call, TRUE)
    BY <1>1, Zenon DEF Resuming, AnswerHolds, OnCommit
  <2> QED
    BY <2>1, PolicyReturnsWell, Zenon DEF Resuming
<1>2. CASE ~ r.ok
  BY <1>2, Proceeds DEF OnCommit, Resuming, Successive, RequestOf
<1> QED
  BY <1>1, <1>2, Zenon

(* A second commit keeps the invariant.                                    *)
LEMMA RetryCommitKeeps ==
    ASSUME Inv, NEW call \in PolicyCalls, RetryCommit(call), policyCall.at = "committed",
           UNCHANGED <<workerVars, portCall, bound>>,
           call.txn = policyCall.txn, call.gen = policyCall.gen, call.want = policyCall.want,
           \/ call.prepared = policyCall.prepared /\ (alive => call.lost > 0)
           \/ call.prepared /\ NoneLeft /\ pending.txn = policyCall.txn
    PROVE  Inv' /\ StopJustified
<1>1. CASE call.attempt = 0
  <2> DEFINE next == [call EXCEPT !.attempt = 1]
  <2>1. AskPolicy(next, "commit", Commit(call)) /\ next.txn = call.txn /\ next.gen = call.gen
    BY <1>1, Zenon DEF RetryCommit, PolicyCalls
  <2>2. /\ next \in PolicyCalls /\ next.want = call.want /\ next.prepared = call.prepared
    BY Zenon DEF PolicyCalls
  <2> HIDE DEF next
  <2>3. Commit(call) = Commit(next)
    BY <2>1, Zenon DEF Commit
  <2>4. <<policyCall.at, "commit">> \in Successive /\ RequestOf("commit", next) = Commit(next)
    BY Zenon DEF Successive, RequestOf
  <2>5. Inv'
    BY <2>1, <2>2, <2>3, <2>4, Proceeds, Zenon
  <2> QED
    BY <2>1, <2>5, Zenon DEF StopJustified, AskPolicy
<1>2. CASE call.attempt # 0 /\ call.prepared
  <2>1. AskPolicy(call, "unwind", RequestOf("unwind", call))
    BY <1>2, Zenon DEF RetryCommit, RequestOf
  <2>2. call.attempt = 1 /\ <<policyCall.at, "unwind">> \in Successive
    BY <1>2, Zenon DEF PolicyCalls, Successive
  <2>3. Inv'
    BY <1>2, <2>1, <2>2, Proceeds, Zenon
  <2> QED
    BY <2>1, <2>3, Zenon DEF StopJustified, AskPolicy
<1>3. CASE call.attempt # 0 /\ ~ call.prepared
  <2>1. stopAfterAmbiguousPolicy(call)
    BY <1>3, Zenon DEF RetryCommit
  <2>2. call.attempt = 1 /\ call.prepared = policyCall.prepared /\ (alive => call.lost > 0)
    BY <1>3, Zenon DEF PolicyCalls
  <2>3. Inv'
    BY <2>1, <2>2, PolicyStops, Zenon
  <2> QED
    BY <2>1, <2>2, <2>3, JustifiedStop, Zenon
<1> QED
  BY <1>1, <1>2, <1>3, Zenon

(* A status says how the call ended, unless the policy is still prepared.  *)
LEMMA ConcludeKeeps ==
    ASSUME Inv, NEW call, NEW r, Resuming(call, r), r.ok, Conclude(call, r),
           policyCall.at \in {"committed", "unwind", "unwound"},
           policyCall.at = "committed" => r.state # "prepared",
           UNCHANGED <<workerVars, portCall, bound>>
    PROVE  Inv' /\ StopJustified
<1>0. /\ NoneLeft /\ r.gen = current.gen /\ r.state = StatusOf(current, pending, policyCall.txn).state
      /\ policyCall.at = "unwind" => pending.txn = NoTxn
      /\ policyCall.txn \in Nat \ {0} /\ current.gen \in Nat
  BY DEF Resuming, AnswerHolds, Nothing, Inv, Typed, PolicyCalls
<1>1. CASE r.state = "committed"
  <2>1. current.txn = policyCall.txn /\ PolicyDone(call, TRUE)
    BY <1>0, <1>1, Zenon DEF Conclude, StatusOf, NoTxn
  <2>2. Inv'
    BY <1>0, <2>1, PolicyReturnsWell, Zenon DEF Resuming
  <2> QED
    BY <2>1, <2>2, Zenon DEF StopJustified, PolicyDone
<1>2. CASE r.state # "committed"
  <2>1. current.txn # policyCall.txn
    BY <1>0, <1>2, Zenon DEF StatusOf, NoTxn
  <2>2. call.gen = current.gen + 1
    BY <2>1, Zenon DEF Resuming, Inv, PolicyInv, Numbers, Committing
  <2>3. CASE r.state = "unknown"
    <3>0. r.gen < call.gen
      BY <1>0, <2>2
    <3>1. PolicyDone(call, FALSE)
      BY <1>2, <2>3, <3>0, Zenon DEF Conclude
    <3>2. Inv'
      BY <1>0, <2>1, <3>1, PolicyReturnsWell, Zenon DEF Resuming
    <3> QED
      BY <3>1, <3>2, Zenon DEF StopJustified, PolicyDone
  <2>4. CASE r.state # "unknown"
    <3>1. r.state = "prepared" /\ pending.txn = policyCall.txn
      BY <1>0, <1>2, <2>4, Zenon DEF StatusOf, NoTxn
    <3>2. policyCall.at = "unwound"
      BY <1>0, <3>1, Zenon DEF NoTxn
    <3>3. policyCall.attempt = 1 /\ (alive => policyCall.lost > 0) /\ policyCall \in PolicyCalls
      BY <3>2, Zenon DEF Inv, PolicyInv, Numbers, Typed
    <3>4. stopAfterAmbiguousPolicy(call)
      BY <1>2, <2>4, Zenon DEF Conclude
    <3>5. Inv'
      BY <3>4, PolicyStops, Zenon DEF Resuming
    <3>6. call \in PolicyCalls /\ call.attempt = 1 /\ policyCall.lost <= call.lost
      BY <3>3, Zenon DEF Resuming
    <3>7. alive => call.lost > 0
      BY <3>3, <3>6 DEF PolicyCalls
    <3> QED
      BY <3>4, <3>5, <3>6, <3>7, JustifiedStop, Zenon
  <2> QED
    BY <2>3, <2>4, Zenon
<1> QED
  BY <1>1, <1>2, Zenon

(* The status call after a commit that failed keeps the invariant,         *)
LEMMA OnCommittedKeeps ==
    ASSUME Inv, NEW call, NEW r, Resuming(call, r), OnCommitted(call, r),
           policyCall.at = "committed", UNCHANGED <<workerVars, portCall, bound>>
    PROVE  Inv' /\ StopJustified
<1>1. CASE ~ r.ok
  <2>1. alive => call.lost > 0
    BY <1>1, Zenon DEF Resuming, AnswerHolds
  <2> QED
    BY <1>1, <2>1, RetryCommitKeeps, Zenon DEF OnCommitted, Resuming
<1>2. CASE r.ok /\ r.state = "prepared"
  <2> DEFINE next == [call EXCEPT !.prepared = TRUE]
  <2>1. RetryCommit(next) /\ NoneLeft /\ pending.txn = policyCall.txn
    BY <1>2, Zenon DEF OnCommitted, Resuming, AnswerHolds, StatusOf
  <2>2. /\ next \in PolicyCalls /\ next.prepared = TRUE /\ next.txn = call.txn
        /\ next.gen = call.gen /\ next.want = call.want
    BY Zenon DEF Resuming, PolicyCalls
  <2> HIDE DEF next
  <2> QED
    BY <2>1, <2>2, RetryCommitKeeps, Zenon DEF Resuming
<1>3. CASE r.ok /\ r.state # "prepared"
  BY <1>3, ConcludeKeeps, Zenon DEF OnCommitted
<1> QED
  BY <1>1, <1>2, <1>3, Zenon

(* and so does the abort of a transaction that was never committed,        *)
LEMMA OnUnwindKeeps ==
    ASSUME Inv, NEW call, NEW r, Resuming(call, r), OnUnwind(call, r), policyCall.at = "unwind",
           UNCHANGED <<workerVars, portCall, bound>>
    PROVE  Inv' /\ StopJustified
<1>1. CASE r.ok
  BY <1>1, ConcludeKeeps, Zenon DEF OnUnwind
<1>2. CASE ~ r.ok
  <2>1. AskPolicy(call, "unwound", RequestOf("unwound", call))
    BY <1>2, Zenon DEF OnUnwind, RequestOf
  <2>2. call.attempt = 1 /\ (alive => call.lost > 0)
    BY <1>2, Zenon DEF Resuming, AnswerHolds, Inv, PolicyInv, Numbers
  <2>3. Inv'
    BY <2>1, <2>2, Proceeds, Zenon DEF Resuming, Successive
  <2> QED
    BY <2>1, <2>3, Zenon DEF StopJustified, AskPolicy
<1> QED
  BY <1>1, <1>2, Zenon

(* and the status call that decides whether the worker is stopped.         *)
LEMMA OnUnwoundKeeps ==
    ASSUME Inv, NEW call, NEW r, Resuming(call, r), OnUnwound(call, r), policyCall.at = "unwound",
           UNCHANGED <<workerVars, portCall, bound>>
    PROVE  Inv' /\ StopJustified
<1>1. CASE r.ok
  BY <1>1, ConcludeKeeps, Zenon DEF OnUnwound
<1>2. CASE ~ r.ok
  <2>1. stopAfterAmbiguousPolicy(call)
    BY <1>2, Zenon DEF OnUnwound
  <2>2. call.attempt = 1 /\ (alive => call.lost > 0)
    BY <1>2, Zenon DEF Resuming, AnswerHolds, Inv, PolicyInv, Numbers
  <2>3. Inv'
    BY <2>1, PolicyStops, Zenon DEF Resuming
  <2>4. call \in PolicyCalls
    BY Zenon DEF Resuming
  <2> QED
    BY <2>1, <2>2, <2>3, <2>4, JustifiedStop, Zenon
<1> QED
  BY <1>1, <1>2, Zenon

(* How a return changes what a caller of SetPolicy sees: not at all, or it *)
(* is the caller's, or the worker is stopped.                              *)
Moves(call) ==
    /\ policyCall'.txn = call.txn /\ policyCall'.want = call.want
    /\ \/ policyCall'.at \notin {"idle", "stopped"} /\ UNCHANGED <<alive, mirror>>
       \/ policyCall'.at = "idle" /\ UNCHANGED alive
       \/ policyCall'.at = "stopped" /\ ~ alive' /\ UNCHANGED mirror

(* A call that goes on changes nothing a caller sees,                      *)
LEMMA AskMoves ==
    ASSUME NEW call \in PolicyCalls, NEW step, step \notin {"idle", "stopped"}, NEW request,
           AskPolicy(call, step, request)
    PROVE  Moves(call)
  BY Zenon DEF AskPolicy, Moves, PolicyCalls

(* one that returns ends the call,                                         *)
LEMMA DoneMoves ==
    ASSUME NEW call \in PolicyCalls, NEW success, PolicyDone(call, success)
    PROVE  Moves(call)
  BY Zenon DEF PolicyDone, Moves, PolicyCalls

(* and one that gives up stops the worker.                                 *)
LEMMA StopMoves ==
    ASSUME NEW call \in PolicyCalls, stopAfterAmbiguousPolicy(call)
    PROVE  Moves(call)
  BY Zenon DEF stopAfterAmbiguousPolicy, Moves, PolicyCalls

(* A call with another generation, attempt or flag moves like the call.    *)
LEMMA LikeMoves ==
    ASSUME NEW call \in PolicyCalls, NEW gen \in Nat, Inv
    PROVE  /\ [call EXCEPT !.gen = gen] \in PolicyCalls
           /\ [call EXCEPT !.attempt = 1] \in PolicyCalls
           /\ [call EXCEPT !.prepared = TRUE] \in PolicyCalls
           /\ Moves([call EXCEPT !.gen = gen]) => Moves(call)
           /\ Moves([call EXCEPT !.attempt = 1]) => Moves(call)
           /\ Moves([call EXCEPT !.prepared = TRUE]) => Moves(call)
  BY Zenon DEF Moves, PolicyCalls

(* So for the second commit,                                               *)
LEMMA RetryMoves ==
    ASSUME Inv, NEW call \in PolicyCalls, RetryCommit(call)
    PROVE  Moves(call)
<1>1. CASE call.attempt = 0
  <2>1. AskPolicy([call EXCEPT !.attempt = 1], "commit", Commit(call))
    BY <1>1, Zenon DEF RetryCommit
  <2> QED
    BY <2>1, AskMoves, LikeMoves, Zenon
<1>2. CASE call.attempt # 0
  BY <1>2, AskMoves, StopMoves, Zenon DEF RetryCommit
<1> QED
  BY <1>1, <1>2, Zenon

(* the end of an unknown commit,                                           *)
LEMMA ConcludeMoves ==
    ASSUME NEW call \in PolicyCalls, NEW r, Conclude(call, r)
    PROVE  Moves(call)
  BY Zenon, DoneMoves, StopMoves DEF Conclude

(* and the prepare of the next generation.                                 *)
LEMMA PrepareNextMoves ==
    ASSUME Inv, NEW call \in PolicyCalls, NEW gen \in Nat, PrepareNext(call, gen)
    PROVE  Moves(call)
<1> DEFINE next == [call EXCEPT !.gen = gen + 1]
<1>1. AskPolicy(next, "prepare", Prepare(next))
  BY Zenon DEF PrepareNext
<1>2. next \in PolicyCalls /\ (Moves(next) => Moves(call))
  <2> DEFINE k == gen + 1
  <2>1. k \in Nat
    OBVIOUS
  <2> HIDE DEF k
  <2>2. [call EXCEPT !.gen = k] \in PolicyCalls /\ (Moves([call EXCEPT !.gen = k]) => Moves(call))
    BY <2>1, LikeMoves, Zenon
  <2> QED
    BY <2>2, Zenon DEF k
<1> HIDE DEF next
<1> QED
  BY <1>1, <1>2, AskMoves, Zenon

(* What every return of SetPolicy's calls does, by the step it awaited.    *)
LEMMA HandlersMove ==
    ASSUME Inv, NEW call, NEW r, Resuming(call, r)
    PROVE  /\ OnSync(call, r) => Moves(call)
           /\ OnClear(call, r) => Moves(call)
           /\ OnCleared(call, r) => Moves(call)
           /\ OnPrepare(call, r) => Moves(call)
           /\ OnPrepared(call, r) => Moves(call)
           /\ OnCommit(call, r) => Moves(call)
           /\ OnCommitted(call, r) => Moves(call)
           /\ OnUnwind(call, r) => Moves(call)
           /\ OnUnwound(call, r) => Moves(call)
<1>0. call \in PolicyCalls /\ call.gen \in Nat /\ current.gen \in Nat
      /\ (r.ok => r.gen = current.gen)
  BY Zenon DEF Resuming, PolicyCalls, Inv, Typed, AnswerHolds
<1>1. OnSync(call, r) => Moves(call)
  <2>1. CASE ~ r.ok
    BY <1>0, <2>1, DoneMoves, Zenon DEF OnSync
  <2>2. CASE r.ok /\ r.pendTxn = NoTxn
    BY <1>0, <2>2, PrepareNextMoves, Zenon DEF OnSync
  <2>3. CASE r.ok /\ r.pendTxn # NoTxn
    <3> DEFINE next == [call EXCEPT !.gen = r.gen]
    <3>1. next \in PolicyCalls /\ (Moves(next) => Moves(call))
      BY <1>0, <2>3, LikeMoves, Zenon
    <3>2. OnSync(call, r) => AskPolicy(next, "clear", PolicyRequest("abort", r.pendGen, r.pendTxn))
      BY <2>3, Zenon DEF OnSync
    <3> HIDE DEF next
    <3> QED
      BY <3>1, <3>2, AskMoves, Zenon
  <2> QED
    BY <2>1, <2>2, <2>3, Zenon
<1>2. OnClear(call, r) => Moves(call)
  BY <1>0, PrepareNextMoves, AskMoves, Zenon DEF OnClear
<1>3. OnCleared(call, r) => Moves(call)
  <2>1. CASE r.ok /\ r.pendTxn = NoTxn
    BY <1>0, <2>1, PrepareNextMoves, Zenon DEF OnCleared
  <2>2. CASE ~ (r.ok /\ r.pendTxn = NoTxn)
    BY <1>0, <2>2, DoneMoves, Zenon DEF OnCleared
  <2> QED
    BY <2>1, <2>2, Zenon
<1>4. OnPrepare(call, r) => Moves(call)
  BY <1>0, AskMoves, Zenon DEF OnPrepare
<1>5. OnPrepared(call, r) => Moves(call)
  <2>1. CASE r.ok /\ r.state = "prepared"
    BY <1>0, <2>1, AskMoves, Zenon DEF OnPrepared
  <2>2. CASE ~ (r.ok /\ r.state = "prepared")
    BY <1>0, <2>2, DoneMoves, Zenon DEF OnPrepared
  <2> QED
    BY <2>1, <2>2, Zenon
<1>6. OnCommit(call, r) => Moves(call)
  <2>1. CASE r.ok
    BY <1>0, <2>1, DoneMoves, Zenon DEF OnCommit
  <2>2. CASE ~ r.ok
    BY <1>0, <2>2, AskMoves, Zenon DEF OnCommit
  <2> QED
    BY <2>1, <2>2, Zenon
<1>7. OnCommitted(call, r) => Moves(call)
  BY <1>0, RetryMoves, LikeMoves, ConcludeMoves, Zenon DEF OnCommitted
<1>8. OnUnwind(call, r) => Moves(call)
  BY <1>0, AskMoves, ConcludeMoves, Zenon DEF OnUnwind
<1>9. OnUnwound(call, r) => Moves(call)
  BY <1>0, StopMoves, ConcludeMoves, Zenon DEF OnUnwound
<1> QED
  BY <1>1, <1>2, <1>3, <1>4, <1>5, <1>6, <1>7, <1>8, <1>9, Zenon


-----------------------------------------------------------------------------

(* Ports.  A transaction the worker remembers is its last one.             *)
LEMMA SomeEntry ==
    ASSUME NEW S, NEW f, NEW t, NEW k0 \in S, f[k0].txn = t
    PROVE  /\ (CHOOSE k \in S : f[k].txn = t) \in S
           /\ f[CHOOSE k \in S : f[k].txn = t].txn = t
  BY Zenon

(* The entries of the worker's port transactions are typed.                *)
LEMMA EntryTypes ==
    ASSUME Typed, NEW i \in DOMAIN portTxns
    PROVE  portTxns[i].txn \in Nat /\ portTxns[i].state \in {"applied", "rejected"}
<1>1. portTxns[i] \in PortEntries
  BY DEF Typed
<1> QED
  BY <1>1, Zenon DEF PortEntries

(* The worker remembers the transaction of the call as its last or not at  *)
(* all.                                                                    *)
LEMMA OutcomeRemembered ==
    ASSUME Typed, PortNumbers
    PROVE  /\ Remembered(portCall.txn) =>
                /\ RememberedState(portCall.txn) = Outcome
                /\ Outcome \in {"applied", "rejected"}
           /\ ~ Remembered(portCall.txn) => Outcome = "unknown"
<1> SUFFICES ASSUME Remembered(portCall.txn)
             PROVE  /\ RememberedState(portCall.txn) = Outcome
                    /\ Outcome \in {"applied", "rejected"}
  BY Zenon DEF Outcome
<1> DEFINE i == CHOOSE k \in DOMAIN portTxns : portTxns[k].txn = portCall.txn
<1>1. i \in DOMAIN portTxns /\ portTxns[i].txn = portCall.txn
  <2>1. PICK k \in DOMAIN portTxns : portTxns[k].txn = portCall.txn
    BY Zenon DEF Remembered
  <2> QED
    BY <2>1, SomeEntry, Zenon
<1>2. portTxns[i].txn \in Nat /\ portTxns[i].state \in {"applied", "rejected"}
  BY <1>1, EntryTypes, Zenon
<1>3. RememberedState(portCall.txn) = portTxns[i].state
  BY Zenon DEF RememberedState
<1> HIDE DEF i
<1>4. i = Len(portTxns)
  BY <1>1, <1>2 DEF PortNumbers
<1> QED
  BY <1>2, <1>3, <1>4, Zenon DEF Outcome

(* The connection is the port caller's too.                                *)
LEMMA PortAskKeeps ==
    ASSUME Typed, Wire, PolicyInv, NEW request \in PortRequests, Asked("port", request),
           (portCall \in PortCalls)', portCall'.at # "stopped", bound' \subseteq Forwards,
           UNCHANGED <<workerVars, policyCall, mirror, alive>>
    PROVE  Typed' /\ Wire' /\ PolicyInv'
<1>1. Typed'
  BY Zenon DEF Typed, Asked, Requests, workerVars
<1>2. \A j \in DOMAIN inbox' : inbox'[j].from = "policy" => j \in DOMAIN inbox /\ inbox'[j] = inbox[j]
  BY Zenon DEF Asked, Kin, PortRequests
<1>3. \A j \in DOMAIN inbox' : inbox'[j].from \in Callers
  <2>1. inbox' \in Seq(Requests)
    BY <1>1, Zenon DEF Typed, Requests
  <2>2. \A j \in DOMAIN inbox' : inbox'[j] \in Requests
    BY <2>1
  <2> QED
    BY <2>2, Senders, Zenon
<1>4. Wire'
  <2>1. (~ alive => inbox = <<>>)' /\ (policyCall.at = "stopped" \/ portCall.at = "stopped" => ~ alive)'
    BY Zenon DEF Wire, Asked
  <2>2. ASSUME NEW j \in DOMAIN inbox'
        PROVE  ~ answer'[inbox'[j].from].ok
    BY <1>2, <1>3 DEF Wire, Asked, Callers
  <2>3. ASSUME NEW i \in DOMAIN inbox', NEW j \in DOMAIN inbox', inbox'[i].awaited, j > i
        PROVE  inbox'[j].from # inbox'[i].from
    <3>0. DOMAIN inbox = 1 .. Len(inbox) /\ Len(inbox) \in Nat /\ DOMAIN inbox' = 1 .. Len(inbox')
      BY <1>1 DEF Typed
    <3>1. CASE inbox'[i].from = "port"
      <4>1. i = Len(inbox) + 1
        BY <3>1, <2>3, Zenon DEF Asked, Kin
      <4> QED
        BY <4>1, <2>3, <3>0 DEF Asked
    <3>2. CASE inbox'[i].from = "policy"
      BY <3>2, <1>2, <2>3, Zenon DEF Wire
    <3> QED
      BY <1>3, <3>1, <3>2, Zenon DEF Callers
  <2> QED
    BY <2>1, <2>2, <2>3, Zenon DEF Wire
<1>5. answer'["policy"] = answer["policy"]
  BY Zenon DEF Asked, Callers
<1>6. RequestsSound'
  BY <1>2, Zenon DEF PolicyInv, RequestsSound
<1>7. Numbers' /\ Enforces'
  BY Zenon DEF PolicyInv, Numbers, Enforces, workerVars
<1>8. PolicyAnswer'
  BY <1>5, Zenon DEF PolicyInv, PolicyAnswer, AnswerHolds, workerVars
<1> QED
  BY <1>1, <1>4, <1>6, <1>7, <1>8, Zenon DEF PolicyInv

(* The ports are what the caller will be told, whatever it is told.        *)
NoPortsLeft == \A i \in DOMAIN inbox : inbox[i].from # "port"

(* The next request of a port call keeps the invariant.                    *)
LEMMA PortAsks ==
    ASSUME Inv, NEW call, NEW step, NEW op \in PortOps, AskPort(call, step, op),
           UNCHANGED <<workerVars, policyCall, mirror>>,
           portCall' \in PortCalls', portCall'.at = step,
           portCall'.txn = call.txn, portCall'.publish = call.publish, portCall'.forward = call.forward,
           call.txn \in Nat \ {0}, call.publish \in BOOLEAN, call.forward \in Forwards,
           <<step, op>> \in {<<"mutate", "mutate">>, <<"mutated", "portStatus">>, <<"list", "list">>},
           step = "list" => portCall'.attempt = 1,
           \/ NoPortsLeft
           \/ /\ call.txn = portCall.txn /\ call.publish = portCall.publish
              /\ call.forward = portCall.forward,
           \/ /\ portCall.at # "idle"
              /\ call.txn = portCall.txn /\ call.publish = portCall.publish
              /\ call.forward = portCall.forward
           \/ portCall.at = "idle" /\ call.txn = portCall.txn + 1
    PROVE  Inv'
<1> USE DEF Inv
<1> DEFINE request == PortRequest(call, op)
<1>0. request \in PortRequests
  BY Zenon DEF PortRequest, PortRequests
<1>1. /\ request.txn = call.txn /\ request.publish = call.publish /\ request.forward = call.forward
      /\ request.op = op
  BY Zenon DEF PortRequest
<1> HIDE DEF request
<1>2. Asked("port", request)
  <2>1. request \in Requests
    BY <1>0, Zenon DEF Requests
  <2> QED
    BY <2>1, AskAsked, Zenon DEF AskPort, Callers, request
<1>3. Typed' /\ Wire' /\ PolicyInv'
  <2>1. bound' \subseteq Forwards /\ UNCHANGED <<workerVars, policyCall, mirror, alive>>
    BY Zenon DEF AskPort, Typed
  <2>2. portCall'.at # "stopped"
    BY Zenon
  <2> QED
    BY <1>0, <1>2, <2>1, <2>2, PortAskKeeps, Zenon
<1>4. PortRequestsSound'
  <2> SUFFICES ASSUME NEW j \in DOMAIN inbox', inbox'[j].from = "port"
               PROVE  /\ inbox'[j].txn = portCall'.txn /\ inbox'[j].publish = portCall'.publish
                      /\ inbox'[j].forward = portCall'.forward
                      /\ portCall'.at \in {"mutate", "mutated", "list"}
                      /\ inbox'[j].awaited => <<portCall'.at, inbox'[j].op>> \in
                           {<<"mutate", "mutate">>, <<"mutated", "portStatus">>, <<"list", "list">>}
    BY Zenon DEF PortRequestsSound
  <2>0. portCall'.at \in {"mutate", "mutated", "list"}
    BY Zenon
  <2>1. CASE inbox'[j] = request
    BY <1>1, <2>0, <2>1, Zenon
  <2>2. CASE j \in DOMAIN inbox /\ Kin(inbox'[j], inbox[j], "port")
    BY <2>0, <2>2, Zenon DEF Kin, NoPortsLeft, PortInv, PortRequestsSound
  <2> QED
    BY <1>2, <2>1, <2>2, Zenon DEF Asked
<1>5. PortAnswer'
  BY <1>2, Zenon DEF PortAnswer, Asked
<1>6. UNCHANGED <<portTxns, forwards, bound>>
  BY Zenon DEF AskPort, workerVars
<1>t. portCall.txn \in Nat
  BY Zenon DEF Typed, PortCalls
<1>u. /\ portCall'.txn = portCall.txn \/ portCall'.txn = portCall.txn + 1
      /\ portCall.at = "idle" => portCall'.txn = portCall.txn + 1
  BY Zenon
<1>7. PortNumbers'
  <2>1. ASSUME NEW i \in DOMAIN portTxns
        PROVE  portTxns[i].txn < portCall'.txn \/ (portTxns[i].txn = portCall'.txn /\ i = Len(portTxns))
    <3>1. portTxns[i].txn \in Nat
      BY EntryTypes, Zenon
    <3>2. portTxns[i].txn < portCall.txn \/ (portTxns[i].txn = portCall.txn /\ i = Len(portTxns))
      BY Zenon DEF PortInv, PortNumbers
    <3> QED
      BY <1>t, <1>u, <3>1, <3>2
  <2> QED
    BY <1>6, <2>1 DEF PortInv, PortNumbers
<1>8. OneListener'
  BY <1>6, Zenon DEF PortInv, OneListener
<1>9. Opened'
  <2>1. CASE portCall.at # "idle"
    <3>1. Outcome' = Outcome /\ Changed' = Changed
      BY <1>6, <2>1, Zenon DEF Outcome, Remembered, Changed
    <3> QED
      BY <1>6, <2>1, <3>1, Zenon DEF PortInv, Opened
  <2>2. CASE portCall.at = "idle"
    <3>1. ASSUME NEW i \in DOMAIN portTxns
          PROVE  portTxns[i].txn # portCall'.txn
      <4>1. portTxns[i].txn \in Nat
        BY EntryTypes, Zenon
      <4>2. portTxns[i].txn <= portCall.txn
        BY <1>t, <4>1 DEF PortInv, PortNumbers
      <4> QED
        BY <1>t, <1>u, <2>2, <4>1, <4>2
    <3>2. Outcome' = "unknown"
      BY <1>6, <3>1, Zenon DEF Outcome, Remembered
    <3> QED
      BY <1>6, <2>2, <3>2, Zenon DEF PortInv, Opened
  <2> QED
    BY <2>1, <2>2, Zenon
<1> QED
  BY <1>3, <1>4, <1>5, <1>7, <1>8, <1>9, Zenon DEF PortInv

=============================================================================
