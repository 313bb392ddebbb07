--------------------------- MODULE OperationStore ---------------------------
(***************************************************************************)
(* The manager's operation store (manager/operationstate/store.go): the    *)
(* sole owner of operation records, of the routing from idempotency keys   *)
(* to operations, and of the event subscriptions.  Every operation of the  *)
(* store runs under one mutex, so each is one action here.                 *)
(*                                                                         *)
(* An operation identifier is the store's generation counter: the source   *)
(* draws 128 random bits and pairs them with that counter in the Owner     *)
(* capability, so the counter alone tells two operations apart.            *)
(***************************************************************************)
EXTENDS Integers, Sequences, FiniteSets

CONSTANTS Keys,            \* idempotency keys a client may send
          NoKey,           \* the request carries no Idempotency-Key header
          Fingerprints,    \* digests of method, path and body
          MaxOperations,   \* managerMaxOperations
          MaxSubscribers,  \* managerMaxSubscribers
          EventBuffer      \* managerEventBuffer

ASSUME LimitsPositive ==
    /\ MaxOperations \in Nat \ {0}
    /\ MaxSubscribers \in Nat \ {0}
    /\ EventBuffer \in Nat \ {0}

ASSUME NoKeyIsNoKey == NoKey \notin Keys

VARIABLES records,         \* operation id -> [phase, key, fingerprint]
          order,           \* ids in admission order
          idempotency,     \* key -> [operation, fingerprint]
          nextGeneration,
          subscribers,     \* subscription ids registered for events
          channel,         \* subscription id -> events buffered for it
          received,        \* subscription id -> last event its reader took
          nextEvent

storeVars == <<records, order, idempotency, nextGeneration>>
eventVars == <<subscribers, channel, received, nextEvent>>
vars == <<storeVars, eventVars>>

Terminal == {"succeeded", "failed"}
Phases == {"running"} \cup Terminal
Record == [phase : Phases, key : Keys \cup {NoKey}, fingerprint : Fingerprints]
Routing == [operation : Nat, fingerprint : Fingerprints]
Event == [id : Nat, operation : Nat, phase : Phases]

New ==
    /\ records = <<>> /\ order = <<>> /\ idempotency = <<>>
    /\ nextGeneration = 0
    /\ subscribers = {} /\ channel = <<>> /\ received = <<>>
    /\ nextEvent = 0

-----------------------------------------------------------------------------

(* ownedRunningLocked: the record is retained and still running.           *)
OwnedRunning(id) == id \in DOMAIN records /\ records[id].phase = "running"

(* Mutant: evicts the oldest record whatever its phase.                    *)
OldestWhateverPhase(i) == i = 1

(* The position of the oldest record that has completed: the first one in  *)
(* admission order that removeOldestCompletedLocked does not skip.         *)
OldestCompleted(i) ==
    /\ ~ OwnedRunning(order[i])
    /\ \A j \in 1..(i - 1) : OwnedRunning(order[j])

KeyOf(id) == {records[x].key : x \in DOMAIN records \cap {id}}

RemoveAt(s, i) == [j \in 1..(Len(s) - 1) |-> IF j < i THEN s[j] ELSE s[j + 1]]
Without(f, S) == [x \in DOMAIN f \ S |-> f[x]]
With(f, x, v) == [y \in DOMAIN f \cup {x} |-> IF y = x THEN v ELSE f[y]]

(* publishLocked: a non-blocking send to every subscriber; one whose       *)
(* buffer is full is closed and unregistered, and keeps what it holds.     *)
Publish(id, phase) ==
    LET event == [id |-> nextEvent + 1, operation |-> id, phase |-> phase]
        open == {s \in subscribers : Len(channel[s]) < EventBuffer}
    IN  /\ nextEvent' = nextEvent + 1
        /\ subscribers' = open
        /\ channel' = [s \in DOMAIN channel |->
                          IF s \in open THEN Append(channel[s], event) ELSE channel[s]]
        /\ UNCHANGED received

(* The tail of Begin: the new record, its place in the order and its key.  *)
(* pruneLocked follows in the source; the capacity test before it leaves   *)
(* it nothing to remove (CapacityKept).                                    *)
Admit(k, f, keptRecords, keptOrder, keptKeys) ==
    LET id == nextGeneration + 1
    IN  /\ nextGeneration' = id
        /\ records' = With(keptRecords, id, [phase |-> "running", key |-> k, fingerprint |-> f])
        /\ order' = Append(keptOrder, id)
        /\ idempotency' = IF k = NoKey THEN keptKeys
                          ELSE With(keptKeys, k, [operation |-> id, fingerprint |-> f])
        /\ Publish(id, "running")

(* Begin goes on to a new operation only when the key is not routed; a     *)
(* routed key is answered from its record or refused, and changes nothing. *)
KeyFree(k) == k = NoKey \/ k \notin DOMAIN idempotency

BeginFree(k, f) ==
    /\ KeyFree(k)
    /\ Cardinality(DOMAIN records) < MaxOperations
    /\ Admit(k, f, records, order, idempotency)

(* At the limit a completed record makes room; its key is forgotten with   *)
(* it.  When every record is still running, Begin fails instead.           *)
BeginEvicting(k, f) ==
    /\ KeyFree(k)
    /\ Cardinality(DOMAIN records) >= MaxOperations
    /\ \E i \in 1..Len(order) :
         /\ OldestCompleted(i)
         /\ Admit(k, f, Without(records, {order[i]}), RemoveAt(order, i),
                  Without(idempotency, KeyOf(order[i])))

Begin(k, f) == BeginFree(k, f) \/ BeginEvicting(k, f)

OwnsIdempotency(id, k) ==
    k = NoKey \/ /\ k \in DOMAIN idempotency
                 /\ idempotency[k].operation = id
                 /\ OwnedRunning(id)

Finish(id, phase) ==
    /\ OwnedRunning(id)
    /\ records' = [records EXCEPT ![id].phase = phase]
    /\ UNCHANGED <<order, idempotency, nextGeneration>>
    /\ Publish(id, phase)

Subscribe ==
    /\ Cardinality(subscribers) < MaxSubscribers
    /\ LET s == Len(channel) + 1
       IN  /\ subscribers' = subscribers \cup {s}
           /\ channel' = Append(channel, <<>>)
           /\ received' = Append(received, nextEvent)
    /\ UNCHANGED <<storeVars, nextEvent>>

(* The cancel function Subscribe returns.                                  *)
Unsubscribe(s) ==
    /\ s \in subscribers
    /\ subscribers' = subscribers \ {s}
    /\ UNCHANGED <<storeVars, channel, received, nextEvent>>

(* handleEvents takes the next buffered event; a closed channel still      *)
(* yields what was buffered before the close.                              *)
Receive(s) ==
    /\ channel[s] # <<>>
    /\ received' = [received EXCEPT ![s] = Head(channel[s]).id]
    /\ channel' = [channel EXCEPT ![s] = Tail(channel[s])]
    /\ UNCHANGED <<storeVars, subscribers, nextEvent>>

Next ==
    \/ \E k \in Keys \cup {NoKey}, f \in Fingerprints : Begin(k, f)
    \/ \E id \in DOMAIN records, phase \in Terminal : Finish(id, phase)
    \/ Subscribe
    \/ \E s \in subscribers : Unsubscribe(s)
    \/ \E s \in DOMAIN channel : Receive(s)

Spec == New /\ [][Next]_vars

-----------------------------------------------------------------------------

(* The types of the store's fields.                                        *)
TypeOK ==
    /\ nextGeneration \in Nat /\ nextEvent \in Nat
    /\ DOMAIN records \subseteq 1..nextGeneration
    /\ \A id \in DOMAIN records : records[id] \in Record
    /\ order \in Seq(1..nextGeneration)
    /\ DOMAIN idempotency \subseteq Keys
    /\ \A k \in DOMAIN idempotency : idempotency[k] \in Routing
    /\ channel \in Seq(Seq(Event))
    /\ received \in Seq(Nat) /\ Len(received) = Len(channel)
    /\ subscribers \subseteq DOMAIN channel

(* The order list names exactly the retained records, each once and oldest *)
(* first: an eviction never leaves a dangling entry, nor a record that     *)
(* later evictions could not find.                                         *)
OrderMatchesRecords ==
    /\ {order[i] : i \in 1..Len(order)} = DOMAIN records
    /\ \A i, j \in 1..Len(order) : i < j => order[i] < order[j]

(* Every key routes to a retained record that carries that key and that    *)
(* fingerprint, so Begin's "idempotency record expired" cannot be reached; *)
(* and every record with a key is the one its key routes to.               *)
RoutingMatchesRecords ==
    /\ \A k \in DOMAIN idempotency :
          LET r == idempotency[k]
          IN  /\ r.operation \in DOMAIN records
              /\ records[r.operation].key = k
              /\ records[r.operation].fingerprint = r.fingerprint
    /\ \A id \in DOMAIN records :
          records[id].key # NoKey =>
              /\ records[id].key \in DOMAIN idempotency
              /\ idempotency[records[id].key].operation = id

(* While the record of a keyed operation is retained no other operation    *)
(* holds its key: a retry is answered from the first attempt's record.     *)
OneOperationPerKey ==
    \A i, j \in DOMAIN records :
        records[i].key = records[j].key /\ records[i].key # NoKey => i = j

(* A running operation still owns its key: the recheck under the lifecycle *)
(* lock (lifecycleCallReady) never finds the operation superseded.         *)
RunningOwnsItsKey ==
    \A id \in DOMAIN records :
        records[id].phase = "running" => OwnsIdempotency(id, records[id].key)

(* Eviction before admission keeps the store within maxOperations.         *)
CapacityKept == Cardinality(DOMAIN records) <= MaxOperations

(* A subscriber never misses an event silently: its buffer continues from  *)
(* the last event its reader took, and as long as it stays registered it   *)
(* is complete up to the newest event.                                     *)
GapFree ==
    \A s \in DOMAIN channel :
        /\ \A i \in 1..Len(channel[s]) : channel[s][i].id = received[s] + i
        /\ s \in subscribers => received[s] + Len(channel[s]) = nextEvent

(* Routing and event streams agree with the records.                       *)
StoreConsistent == RoutingMatchesRecords /\ GapFree

(* No step discards a running operation or rewrites a completed one.       *)
Stable ==
    \A id \in DOMAIN records :
        /\ records[id].phase = "running" => id \in DOMAIN records'
        /\ id \in DOMAIN records' =>
              /\ records[id].phase \in Terminal => records'[id] = records[id]
              /\ records'[id].key = records[id].key

(* The outcome a client polls for is the one its own attempt reported.     *)
OutcomesStable == [][Stable]_vars
=============================================================================
