--------------------------- MODULE ManagerProofs ----------------------------
(***************************************************************************)
(* What the operation store keeps, for any keys, fingerprints and limits;  *)
(* and what holds of managers over one state directory for any number of   *)
(* processes, requests and operations.  The store's proofs carry over:     *)
(* every step of a manager is a step of its store, leaves it alone, or     *)
(* comes with a new one.  On the store's types stands the rest, one        *)
(* inductive invariant per property, and last the store's capacity.        *)
(***************************************************************************)
EXTENDS ManagerRuntime, TLAPS

(* A sequence over a set is one over any larger set.                       *)
LEMMA SeqMonotonic == ASSUME NEW S, NEW T, S \subseteq T, NEW s \in Seq(S) PROVE s \in Seq(T)
    OBVIOUS

(* Appending adds one position and leaves the others.                      *)
LEMMA Appended ==
    ASSUME NEW T, NEW s \in Seq(T), NEW x \in T
    PROVE  /\ Len(s) \in Nat /\ DOMAIN s = 1..Len(s) /\ DOMAIN Append(s, x) = 1..(Len(s) + 1)
           /\ Append(s, x)[Len(s) + 1] = x
           /\ \A i \in 1..Len(s) : Append(s, x)[i] = s[i]
    OBVIOUS

(* Removing position i of a sequence leaves the others in their order.     *)
LEMMA RemoveAtFacts ==
    ASSUME NEW T, NEW s \in Seq(T), NEW i \in 1..Len(s)
    PROVE  /\ RemoveAt(s, i) \in Seq(T)
           /\ Len(RemoveAt(s, i)) = Len(s) - 1
           /\ \A j \in 1..(Len(s) - 1) :
                 RemoveAt(s, i)[j] = IF j < i THEN s[j] ELSE s[j + 1]
    BY DEF RemoveAt

-----------------------------------------------------------------------------

(* Publishing keeps the types of the event streams.                        *)
LEMMA PublishTyped ==
    ASSUME TypeOK, NEW id \in Nat, NEW phase \in Phases, Publish(id, phase)
    PROVE  /\ nextEvent' = nextEvent + 1 /\ nextEvent' \in Nat
           /\ channel' \in Seq(Seq(Event)) /\ Len(channel') = Len(channel)
           /\ received' = received
           /\ subscribers' \subseteq DOMAIN channel'
<1> DEFINE event == [id |-> nextEvent + 1, operation |-> id, phase |-> phase]
           open == {s \in subscribers : Len(channel[s]) < EventBuffer}
<1>1. event \in Event
    BY DEF TypeOK, Event
<1>2. channel' = [s \in DOMAIN channel |->
                    IF s \in open THEN Append(channel[s], event) ELSE channel[s]]
    BY Zenon DEF Publish
<1>3. \A s \in DOMAIN channel : channel[s] \in Seq(Event)
    BY DEF TypeOK
<1>4. \A s \in DOMAIN channel : Append(channel[s], event) \in Seq(Event)
    BY <1>1, <1>3
<1>5. DOMAIN channel = 1..Len(channel)
    BY DEF TypeOK
<1>6. channel' \in Seq(Seq(Event)) /\ Len(channel') = Len(channel)
    <2> HIDE DEF event, open
    <2> QED BY <1>2, <1>3, <1>4, <1>5 DEF TypeOK
<1> QED
    BY <1>6 DEF TypeOK, Publish

(* The tail of Begin keeps the types, whichever records it started from.   *)
LEMMA AdmitTyped ==
    ASSUME TypeOK, NEW k \in Keys \cup {NoKey}, NEW f \in Fingerprints,
           NEW keptRecords, NEW keptOrder, NEW keptKeys,
           DOMAIN keptRecords \subseteq 1..nextGeneration,
           \A id \in DOMAIN keptRecords : keptRecords[id] \in Record,
           keptOrder \in Seq(1..nextGeneration),
           DOMAIN keptKeys \subseteq Keys,
           \A x \in DOMAIN keptKeys : keptKeys[x] \in Routing,
           Admit(k, f, keptRecords, keptOrder, keptKeys)
    PROVE  TypeOK'
<1> DEFINE id == nextGeneration + 1
           new == [phase |-> "running", key |-> k, fingerprint |-> f]
           route == [operation |-> id, fingerprint |-> f]
<1>1. id \in Nat /\ new \in Record /\ route \in Routing
    BY DEF TypeOK, Record, Routing, Phases
<1>2. /\ nextGeneration' = id
      /\ records' = With(keptRecords, id, new)
      /\ order' = Append(keptOrder, id)
      /\ idempotency' = IF k = NoKey THEN keptKeys ELSE With(keptKeys, k, route)
      /\ Publish(id, "running")
    BY Zenon DEF Admit
<1>3. 1..nextGeneration \subseteq 1..id /\ id \in 1..id
    BY DEF TypeOK
<1> HIDE DEF id, new, route
<1>4. /\ DOMAIN records' \subseteq 1..nextGeneration'
      /\ \A x \in DOMAIN records' : records'[x] \in Record
    BY <1>1, <1>2, <1>3, Zenon DEF With
<1>5. order' \in Seq(1..nextGeneration')
    <2>1. keptOrder \in Seq(1..id)
        BY <1>3, SeqMonotonic, Zenon
    <2> QED
        BY <1>2, <1>3, <2>1
<1>6. /\ DOMAIN idempotency' \subseteq Keys
      /\ \A x \in DOMAIN idempotency' : idempotency'[x] \in Routing
    <2>1. CASE k = NoKey
        BY <1>2, <2>1, Zenon
    <2>2. CASE k # NoKey
        BY <1>1, <1>2, <2>2, Zenon DEF With
    <2> QED
        BY <2>1, <2>2, Zenon
<1>7. /\ nextEvent' \in Nat
      /\ channel' \in Seq(Seq(Event)) /\ Len(channel') = Len(channel)
      /\ received' = received
      /\ subscribers' \subseteq DOMAIN channel'
    BY <1>1, <1>2, PublishTyped, Zenon DEF Phases
<1> QED
    BY <1>1, <1>2, <1>4, <1>5, <1>6, <1>7, Zenon DEF TypeOK

(* An empty store is typed.                                                *)
LEMMA InitTyped == New => TypeOK
    BY DEF New, TypeOK

(* Every operation of the store keeps its fields typed.                    *)
LEMMA NextTyped == TypeOK /\ [Next]_vars => TypeOK'
<1> SUFFICES ASSUME TypeOK, [Next]_vars PROVE TypeOK'
    BY Zenon
<1>1. ASSUME NEW k \in Keys \cup {NoKey}, NEW f \in Fingerprints, BeginFree(k, f)
      PROVE  TypeOK'
    BY <1>1, AdmitTyped, Zenon DEF TypeOK, BeginFree
<1>2. ASSUME NEW k \in Keys \cup {NoKey}, NEW f \in Fingerprints, BeginEvicting(k, f)
      PROVE  TypeOK'
    <2>1. PICK i \in 1..Len(order) :
             Admit(k, f, Without(records, {order[i]}), RemoveAt(order, i),
                   Without(idempotency, KeyOf(order[i])))
        BY <1>2, Zenon DEF BeginEvicting
    <2>2. RemoveAt(order, i) \in Seq(1..nextGeneration)
        BY RemoveAtFacts, Zenon DEF TypeOK
    <2>3. /\ DOMAIN Without(records, {order[i]}) \subseteq 1..nextGeneration
          /\ \A id \in DOMAIN Without(records, {order[i]}) :
                 Without(records, {order[i]})[id] \in Record
        BY Zenon DEF TypeOK, Without
    <2>4. /\ DOMAIN Without(idempotency, KeyOf(order[i])) \subseteq Keys
          /\ \A x \in DOMAIN Without(idempotency, KeyOf(order[i])) :
                 Without(idempotency, KeyOf(order[i]))[x] \in Routing
        BY Zenon DEF TypeOK, Without
    <2> QED
        BY <2>1, <2>2, <2>3, <2>4, AdmitTyped, Zenon
<1>3. ASSUME NEW id \in DOMAIN records, NEW phase \in Terminal, Finish(id, phase)
      PROVE  TypeOK'
    <2>1. /\ DOMAIN records' = DOMAIN records
          /\ \A x \in DOMAIN records' : records'[x] \in Record
        BY <1>3, Zenon DEF TypeOK, Finish, Record, Terminal, Phases
    <2>2. id \in Nat /\ phase \in Phases
        BY DEF TypeOK, Phases
    <2>3. /\ nextEvent' \in Nat
          /\ channel' \in Seq(Seq(Event)) /\ Len(channel') = Len(channel)
          /\ received' = received
          /\ subscribers' \subseteq DOMAIN channel'
        BY <1>3, <2>2, PublishTyped, Zenon DEF Finish
    <2> QED
        BY <1>3, <2>1, <2>3, Zenon DEF TypeOK, Finish
<1>4. CASE Subscribe
    BY <1>4 DEF TypeOK, Subscribe, storeVars
<1>5. ASSUME NEW s \in subscribers, Unsubscribe(s)
      PROVE  TypeOK'
    BY <1>5, Zenon DEF TypeOK, Unsubscribe, storeVars
<1>6. ASSUME NEW s \in DOMAIN channel, Receive(s)
      PROVE  TypeOK'
    <2>1. /\ channel[s] \in Seq(Event) /\ channel[s] # <<>>
          /\ Head(channel[s]).id \in Nat /\ Tail(channel[s]) \in Seq(Event)
        <3>1. channel[s] \in Seq(Event) /\ channel[s] # <<>>
            BY <1>6 DEF TypeOK, Receive
        <3>2. Head(channel[s]) \in Event /\ Tail(channel[s]) \in Seq(Event)
            BY <3>1
        <3> QED
            BY <3>1, <3>2, Zenon DEF Event
    <2>2. channel' \in Seq(Seq(Event)) /\ Len(channel') = Len(channel)
        BY <1>6, <2>1 DEF TypeOK, Receive
    <2>3. received' \in Seq(Nat) /\ Len(received') = Len(received)
        BY <1>6, <2>1 DEF TypeOK, Receive
    <2> QED
        BY <1>6, <2>2, <2>3, Zenon DEF TypeOK, Receive, storeVars
<1>7. CASE UNCHANGED vars
    BY <1>7, Zenon DEF TypeOK, vars, storeVars, eventVars
<1> QED
    BY <1>1, <1>2, <1>3, <1>4, <1>5, <1>6, <1>7, Zenon DEF Next, Begin

(* The fields of the store keep their types.                               *)
THEOREM Typing == Spec => []TypeOK
    BY InitTyped, NextTyped, PTL DEF Spec

-----------------------------------------------------------------------------

(* OrderMatchesRecords and RoutingMatchesRecords of the given maps, which  *)
(* Begin builds in two stages: an eviction, then the admission.            *)
Ordered(r, o) ==
    /\ {o[i] : i \in 1..Len(o)} = DOMAIN r
    /\ \A i, j \in 1..Len(o) : i < j => o[i] < o[j]

Routed(r, m) ==
    /\ \A k \in DOMAIN m :
          /\ m[k].operation \in DOMAIN r
          /\ r[m[k].operation].key = k
          /\ r[m[k].operation].fingerprint = m[k].fingerprint
    /\ \A id \in DOMAIN r :
          r[id].key # NoKey => r[id].key \in DOMAIN m /\ m[r[id].key].operation = id

Consistent == TypeOK /\ OrderMatchesRecords /\ RoutingMatchesRecords

(* The two invariants say of the fields what Ordered and Routed say of any. *)
LEMMA ConsistentParts ==
    /\ OrderMatchesRecords <=> Ordered(records, order)
    /\ RoutingMatchesRecords <=> Routed(records, idempotency)
    BY Zenon DEF OrderMatchesRecords, RoutingMatchesRecords, Ordered, Routed

(* Removing position i from the order, with its record, keeps them equal.  *)
LEMMA EvictOrdered ==
    ASSUME TypeOK, Ordered(records, order), NEW i \in 1..Len(order)
    PROVE  Ordered(Without(records, {order[i]}), RemoveAt(order, i))
<1> DEFINE o == RemoveAt(order, i)
           r == Without(records, {order[i]})
           n == Len(order)
<1>1. n \in Nat /\ \A j \in 1..n : order[j] \in Nat
    BY DEF TypeOK
<1>2. /\ Len(o) = n - 1
      /\ \A j \in 1..(n - 1) : o[j] = IF j < i THEN order[j] ELSE order[j + 1]
    <2>1. order \in Seq(1..nextGeneration)
        BY Zenon DEF TypeOK
    <2> QED
        BY <2>1, RemoveAtFacts, Zenon
<1>3. DOMAIN r = DOMAIN records \ {order[i]}
    BY Zenon DEF Without
<1>4. \A j \in 1..n : j # i => order[j] # order[i]
    BY <1>1 DEF Ordered
<1>5. ASSUME NEW id \in DOMAIN r PROVE \E j \in 1..Len(o) : o[j] = id
    <2>1. PICK j \in 1..n : order[j] = id /\ j # i
        BY <1>3, <1>5, Zenon DEF Ordered
    <2>2. CASE j < i
        BY <1>1, <1>2, <2>1, <2>2
    <2>3. CASE j > i
        <3>1. j - 1 \in 1..(n - 1) /\ ~ (j - 1 < i) /\ (j - 1) + 1 = j
            BY <1>1, <2>3
        <3> QED
            BY <1>2, <2>1, <3>1, Zenon
    <2> QED
        BY <1>1, <2>1, <2>2, <2>3
<1>6. ASSUME NEW j \in 1..Len(o) PROVE o[j] \in DOMAIN r
    BY <1>1, <1>2, <1>3, <1>4 DEF Ordered
<1>7. ASSUME NEW j \in 1..Len(o), NEW k \in 1..Len(o), j < k PROVE o[j] < o[k]
    <2> DEFINE p(x) == IF x < i THEN x ELSE x + 1
    <2>1. p(j) \in 1..n /\ p(k) \in 1..n /\ p(j) < p(k)
        BY <1>1, <1>2, <1>7
    <2>2. o[j] = order[p(j)] /\ o[k] = order[p(k)]
        BY <1>2, Zenon
    <2> QED
        BY <2>1, <2>2, Zenon DEF Ordered
<1> HIDE DEF o, r
<1> QED
    BY <1>5, <1>6, <1>7, Zenon DEF Ordered, o, r

(* Removing a record together with its key keeps the routing exact.        *)
LEMMA EvictRouted ==
    ASSUME TypeOK, Routed(records, idempotency), NEW id \in DOMAIN records
    PROVE  Routed(Without(records, {id}), Without(idempotency, KeyOf(id)))
<1>1. KeyOf(id) = {records[id].key}
    BY Zenon DEF KeyOf
<1> QED
    BY <1>1 DEF Routed, Without

(* Admitting a fresh id at the end keeps the order increasing.             *)
LEMMA AdmitOrdered ==
    ASSUME TypeOK, NEW r, NEW o \in Seq(1..nextGeneration), NEW new, Ordered(r, o)
    PROVE  Ordered(With(r, nextGeneration + 1, new), Append(o, nextGeneration + 1))
<1> DEFINE id == nextGeneration + 1
           a == Append(o, id)
<1>1. /\ Len(o) \in Nat /\ Len(a) = Len(o) + 1 /\ a[Len(o) + 1] = id
      /\ \A j \in 1..Len(o) : a[j] = o[j] /\ o[j] \in Nat /\ o[j] < id
    BY DEF TypeOK
<1>2. DOMAIN With(r, id, new) = DOMAIN r \cup {id}
    BY Zenon DEF With
<1>3. {a[j] : j \in 1..Len(a)} = {o[j] : j \in 1..Len(o)} \cup {id}
    <2> HIDE DEF a, id
    <2>1. 1..Len(a) = 1..Len(o) \cup {Len(o) + 1}
        BY <1>1
    <2> QED
        BY <1>1, <2>1
<1>4. \A j, k \in 1..Len(a) : j < k => a[j] < a[k]
    <2> HIDE DEF a, id
    <2> QED
        BY <1>1 DEF Ordered
<1> HIDE DEF a
<1> QED
    BY <1>2, <1>3, <1>4, Zenon DEF Ordered, a

(* Admitting a fresh id under an unused key keeps the routing exact.       *)
LEMMA AdmitRouted ==
    ASSUME NEW r, NEW m, NEW id, NEW k \in Keys \cup {NoKey}, NEW f,
           Routed(r, m), id \notin DOMAIN r, DOMAIN m \subseteq Keys,
           k = NoKey \/ k \notin DOMAIN m
    PROVE  Routed(With(r, id, [phase |-> "running", key |-> k, fingerprint |-> f]),
                  IF k = NoKey THEN m
                  ELSE With(m, k, [operation |-> id, fingerprint |-> f]))
<1> DEFINE new == [phase |-> "running", key |-> k, fingerprint |-> f]
           route == [operation |-> id, fingerprint |-> f]
<1>1. CASE k = NoKey
    BY <1>1, NoKeyIsNoKey DEF Routed, With
<1>2. CASE k # NoKey
    <2> DEFINE R == With(r, id, new)
               M == With(m, k, route)
    <2>1. /\ DOMAIN R = DOMAIN r \cup {id} /\ R[id] = new
          /\ \A x \in DOMAIN r : R[x] = r[x]
        BY Zenon DEF With
    <2>2. /\ DOMAIN M = DOMAIN m \cup {k} /\ M[k] = route
          /\ \A x \in DOMAIN m : M[x] = m[x]
        BY <1>2, Zenon DEF With
    <2>3. new.key = k /\ new.fingerprint = f /\ route.operation = id /\ route.fingerprint = f
        BY Zenon
    <2>4. \A x \in DOMAIN r : r[x].key # k
        BY <1>2, Zenon DEF Routed
    <2> HIDE DEF R, M, new, route
    <2>5. Routed(R, M)
        BY <2>1, <2>2, <2>3, <2>4 DEF Routed
    <2> QED
        BY <1>2, <2>5, Zenon DEF R, M, new, route
<1> QED
    BY <1>1, <1>2, Zenon

(* Every operation of the store keeps order, records and routing in step.  *)
LEMMA NextConsistent == Consistent /\ [Next]_vars => Consistent'
<1> SUFFICES ASSUME Consistent, [Next]_vars PROVE Consistent'
    BY Zenon
<1>0. TypeOK' /\ TypeOK /\ Ordered(records, order) /\ Routed(records, idempotency)
    BY NextTyped, ConsistentParts, Zenon DEF Consistent
<1> SUFFICES Ordered(records, order)' /\ Routed(records, idempotency)'
    BY <1>0, Zenon DEF Consistent, OrderMatchesRecords, RoutingMatchesRecords, Ordered, Routed
<1>1. ASSUME NEW k \in Keys \cup {NoKey}, NEW f, NEW r, NEW o \in Seq(1..nextGeneration), NEW m,
             DOMAIN r \subseteq DOMAIN records, DOMAIN m \subseteq DOMAIN idempotency,
             KeyFree(k), Ordered(r, o), Routed(r, m), Admit(k, f, r, o, m)
      PROVE  Ordered(records, order)' /\ Routed(records, idempotency)'
    <2>1. nextGeneration + 1 \notin DOMAIN r /\ DOMAIN m \subseteq Keys
        BY <1>0, <1>1 DEF TypeOK
    <2>2. k = NoKey \/ k \notin DOMAIN m
        BY <1>1, Zenon DEF KeyFree
    <2>3. /\ records' = With(r, nextGeneration + 1, [phase |-> "running", key |-> k, fingerprint |-> f])
          /\ order' = Append(o, nextGeneration + 1)
          /\ idempotency' = IF k = NoKey THEN m
                            ELSE With(m, k, [operation |-> nextGeneration + 1, fingerprint |-> f])
        BY <1>1, Zenon DEF Admit
    <2>4. Ordered(records', order')
        BY <1>0, <1>1, <2>3, AdmitOrdered, Zenon
    <2>5. Routed(records', idempotency')
        BY <1>1, <2>1, <2>2, <2>3, AdmitRouted, Zenon
    <2> QED
        BY <2>4, <2>5, Zenon DEF Ordered, Routed
<1>2. ASSUME NEW k \in Keys \cup {NoKey}, NEW f \in Fingerprints, BeginFree(k, f)
      PROVE  Ordered(records, order)' /\ Routed(records, idempotency)'
    BY <1>0, <1>1, <1>2, Zenon DEF BeginFree, TypeOK
<1>3. ASSUME NEW k \in Keys \cup {NoKey}, NEW f \in Fingerprints, BeginEvicting(k, f)
      PROVE  Ordered(records, order)' /\ Routed(records, idempotency)'
    <2>1. PICK i \in 1..Len(order) :
             Admit(k, f, Without(records, {order[i]}), RemoveAt(order, i),
                   Without(idempotency, KeyOf(order[i])))
        BY <1>3, Zenon DEF BeginEvicting
    <2>2. order[i] \in DOMAIN records
        BY <1>0, Zenon DEF Ordered
    <2>3. RemoveAt(order, i) \in Seq(1..nextGeneration)
        BY <1>0, RemoveAtFacts, Zenon DEF TypeOK
    <2>4. Ordered(Without(records, {order[i]}), RemoveAt(order, i))
        BY <1>0, EvictOrdered, Zenon
    <2>5. Routed(Without(records, {order[i]}), Without(idempotency, KeyOf(order[i])))
        BY <1>0, <2>2, EvictRouted, Zenon
    <2>6. /\ DOMAIN Without(records, {order[i]}) \subseteq DOMAIN records
          /\ DOMAIN Without(idempotency, KeyOf(order[i])) \subseteq DOMAIN idempotency
        BY Zenon DEF Without
    <2>7. KeyFree(k)
        BY <1>3, Zenon DEF BeginEvicting
    <2> QED
        BY <1>1, <2>1, <2>3, <2>4, <2>5, <2>6, <2>7, Zenon
<1>4. ASSUME NEW id \in DOMAIN records, NEW phase \in Terminal, Finish(id, phase)
      PROVE  Ordered(records, order)' /\ Routed(records, idempotency)'
    <2>1. /\ order' = order /\ idempotency' = idempotency
          /\ DOMAIN records' = DOMAIN records
          /\ \A x \in DOMAIN records : /\ records'[x].key = records[x].key
                                       /\ records'[x].fingerprint = records[x].fingerprint
        BY <1>0, <1>4, Zenon DEF Finish, TypeOK, Record
    <2> QED
        BY <1>0, <2>1 DEF Ordered, Routed
<1>5. CASE UNCHANGED storeVars
    BY <1>0, <1>5 DEF storeVars, Ordered, Routed
<1> QED
    BY <1>2, <1>3, <1>4, <1>5, Zenon
    DEF Next, Begin, Subscribe, Unsubscribe, Receive, vars

(* An empty store is consistent.                                           *)
LEMMA InitConsistent == New => Consistent
<1> SUFFICES ASSUME New PROVE Consistent
    BY Zenon
<1>1. TypeOK
    BY InitTyped, Zenon
<1>2. DOMAIN records = {} /\ DOMAIN idempotency = {} /\ Len(order) = 0
    BY DEF New
<1> QED
    BY <1>1, <1>2 DEF Consistent, OrderMatchesRecords, RoutingMatchesRecords

(* The order list names exactly the retained records, oldest first, after  *)
(* any sequence of admissions, completions and evictions.                  *)
THEOREM OrderCorrect == Spec => []OrderMatchesRecords
<1>1. Consistent => OrderMatchesRecords
    BY Zenon DEF Consistent
<1> QED
    BY <1>1, InitConsistent, NextConsistent, PTL DEF Spec

(* A key and the record it belongs to are evicted together and never part. *)
THEOREM RoutingCorrect == Spec => []RoutingMatchesRecords
<1>1. Consistent => RoutingMatchesRecords
    BY Zenon DEF Consistent
<1> QED
    BY <1>1, InitConsistent, NextConsistent, PTL DEF Spec

(* Two retained operations never hold the same idempotency key.            *)
THEOREM KeysExclusive == Spec => []OneOperationPerKey
<1>1. Consistent => OneOperationPerKey
    BY DEF Consistent, RoutingMatchesRecords, OneOperationPerKey
<1> QED
    BY <1>1, InitConsistent, NextConsistent, PTL DEF Spec

(* A running operation always passes the ownership recheck its executor    *)
(* makes after it waited for the lifecycle locks.                          *)
THEOREM NeverSuperseded == Spec => []RunningOwnsItsKey
<1>1. Consistent => RunningOwnsItsKey
    BY Zenon DEF Consistent, RoutingMatchesRecords, RunningOwnsItsKey, OwnsIdempotency, OwnedRunning
<1> QED
    BY <1>1, InitConsistent, NextConsistent, PTL DEF Spec

-----------------------------------------------------------------------------

(* No step discards a running operation or rewrites a completed one.       *)
LEMMA NextStable == ASSUME Consistent, [Next]_vars PROVE Stable
<1> USE DEF Stable
<1>0. TypeOK
    BY Zenon DEF Consistent
<1>1. ASSUME NEW k \in Keys \cup {NoKey}, NEW f \in Fingerprints, BeginFree(k, f)
      PROVE  Stable
    BY <1>0, <1>1 DEF BeginFree, Admit, With, TypeOK
<1>2. ASSUME NEW k \in Keys \cup {NoKey}, NEW f \in Fingerprints, BeginEvicting(k, f)
      PROVE  Stable
    <2>1. PICK i \in 1..Len(order) :
             /\ ~ OwnedRunning(order[i])
             /\ Admit(k, f, Without(records, {order[i]}), RemoveAt(order, i),
                      Without(idempotency, KeyOf(order[i])))
        BY <1>2, Zenon DEF BeginEvicting, OldestCompleted
    <2>2. records' = With(Without(records, {order[i]}), nextGeneration + 1,
                          [phase |-> "running", key |-> k, fingerprint |-> f])
        BY <2>1, Zenon DEF Admit
    <2>3. nextGeneration + 1 \notin DOMAIN records
        BY <1>0 DEF TypeOK
    <2>4. /\ DOMAIN records' = (DOMAIN records \ {order[i]}) \cup {nextGeneration + 1}
          /\ \A id \in DOMAIN records \ {order[i]} : records'[id] = records[id]
        BY <2>2, <2>3, Zenon DEF With, Without
    <2> QED
        BY <2>1, <2>3, <2>4, Zenon DEF OwnedRunning
<1>3. ASSUME NEW id \in DOMAIN records, NEW phase \in Terminal, Finish(id, phase)
      PROVE  Stable
    BY <1>0, <1>3, Zenon DEF Finish, OwnedRunning, Terminal, TypeOK, Record
<1>4. CASE UNCHANGED storeVars
    BY <1>4, Zenon DEF storeVars, Stable
<1> QED
    BY <1>1, <1>2, <1>3, <1>4, Zenon
    DEF Next, Begin, Subscribe, Unsubscribe, Receive, vars

(* The outcome a client polls for is the one its own attempt reported.     *)
THEOREM OutcomesPermanent == Spec => OutcomesStable
<1>1. Consistent /\ [Next]_vars => [Stable]_vars
    BY NextStable, Zenon
<1> QED
    BY <1>1, InitConsistent, NextConsistent, PTL DEF Spec, OutcomesStable

-----------------------------------------------------------------------------

(* Publishing appends the new event to every stream that stays registered. *)
LEMMA PublishGapFree ==
    ASSUME TypeOK, GapFree, NEW id, NEW phase, Publish(id, phase)
    PROVE  GapFree'
<1> DEFINE event == [id |-> nextEvent + 1, operation |-> id, phase |-> phase]
           open == {s \in subscribers : Len(channel[s]) < EventBuffer}
<1>1. /\ nextEvent' = nextEvent + 1 /\ nextEvent \in Nat /\ event.id = nextEvent + 1
      /\ subscribers' = open /\ received' = received
      /\ DOMAIN channel' = DOMAIN channel
      /\ \A s \in DOMAIN channel :
            channel'[s] = IF s \in open THEN Append(channel[s], event) ELSE channel[s]
    BY Zenon DEF Publish, TypeOK
<1>2. \A s \in DOMAIN channel : channel[s] \in Seq(Event) /\ received[s] \in Nat
    BY DEF TypeOK
<1> HIDE DEF event
<1> SUFFICES ASSUME NEW s \in DOMAIN channel
             PROVE  /\ \A i \in 1..Len(channel'[s]) : channel'[s][i].id = received[s] + i
                    /\ s \in open => received[s] + Len(channel'[s]) = nextEvent + 1
    BY <1>1, Zenon DEF GapFree
<1>3. CASE s \in open
    <2>1. /\ channel'[s] = Append(channel[s], event)
          /\ Len(channel[s]) \in Nat /\ received[s] + Len(channel[s]) = nextEvent
        BY <1>1, <1>2, <1>3 DEF GapFree
    <2>2. /\ Len(channel'[s]) = Len(channel[s]) + 1
          /\ channel'[s][Len(channel[s]) + 1] = event
          /\ \A i \in 1..Len(channel[s]) : channel'[s][i] = channel[s][i]
        BY <1>2, <2>1
    <2>3. \A i \in 1..Len(channel'[s]) : i = Len(channel[s]) + 1 \/ i \in 1..Len(channel[s])
        BY <2>1, <2>2
    <2> QED
        BY <1>1, <1>2, <2>1, <2>2, <2>3 DEF GapFree
<1>4. CASE s \notin open
    BY <1>1, <1>4 DEF GapFree
<1> QED
    BY <1>3, <1>4, Zenon

(* Every operation keeps the open streams complete.                        *)
LEMMA NextGapFree == GapFree /\ TypeOK /\ [Next]_vars => GapFree'
<1> SUFFICES ASSUME GapFree, TypeOK, [Next]_vars PROVE GapFree'
    BY Zenon
<1>1. ASSUME NEW k \in Keys \cup {NoKey}, NEW f \in Fingerprints, Begin(k, f)
      PROVE  GapFree'
    BY <1>1, PublishGapFree, Zenon DEF Begin, BeginFree, BeginEvicting, Admit
<1>2. ASSUME NEW id \in DOMAIN records, NEW phase \in Terminal, Finish(id, phase)
      PROVE  GapFree'
    BY <1>2, PublishGapFree, Zenon DEF Finish
<1>3. CASE Subscribe
    <2>1. /\ channel' = Append(channel, <<>>) /\ received' = Append(received, nextEvent)
          /\ subscribers' = subscribers \cup {Len(channel) + 1} /\ nextEvent' = nextEvent
        BY <1>3, Zenon DEF Subscribe
    <2>2. /\ Len(channel) \in Nat /\ DOMAIN channel = 1..Len(channel)
          /\ DOMAIN channel' = 1..(Len(channel) + 1)
          /\ channel'[Len(channel) + 1] = <<>> /\ received'[Len(channel) + 1] = nextEvent
          /\ \A s \in 1..Len(channel) : channel'[s] = channel[s] /\ received'[s] = received[s]
        <3>1. /\ channel \in Seq(Seq(Event)) /\ received \in Seq(Nat) /\ nextEvent \in Nat
              /\ Len(received) = Len(channel) /\ <<>> \in Seq(Event)
            BY DEF TypeOK
        <3> QED
            BY <2>1, <3>1, Appended
    <2> QED
        BY <2>1, <2>2 DEF GapFree, TypeOK
<1>4. ASSUME NEW s \in subscribers, Unsubscribe(s)
      PROVE  GapFree'
    BY <1>4, Zenon DEF GapFree, Unsubscribe
<1>5. ASSUME NEW s \in DOMAIN channel, Receive(s)
      PROVE  GapFree'
    <2>1. channel[s] \in Seq(Event) /\ channel[s] # <<>> /\ received[s] \in Nat
        BY <1>5 DEF TypeOK, Receive
    <2>2. /\ Len(channel[s]) \in Nat \ {0} /\ Head(channel[s]) = channel[s][1]
          /\ Len(Tail(channel[s])) = Len(channel[s]) - 1
          /\ \A i \in 1..(Len(channel[s]) - 1) : Tail(channel[s])[i] = channel[s][i + 1]
        BY <2>1
    <2>3. Head(channel[s]).id = received[s] + 1
        BY <2>2 DEF GapFree
    <2>4. /\ DOMAIN channel' = DOMAIN channel /\ s \in DOMAIN received
          /\ channel'[s] = Tail(channel[s]) /\ received'[s] = received[s] + 1
          /\ \A x \in DOMAIN channel \ {s} : channel'[x] = channel[x] /\ received'[x] = received[x]
          /\ subscribers' = subscribers /\ nextEvent' = nextEvent
        BY <1>5, <2>3 DEF TypeOK, Receive
    <2>5. ASSUME NEW i \in 1..Len(channel'[s]) PROVE channel'[s][i].id = received'[s] + i
        <3>1. i \in 1..(Len(channel[s]) - 1) /\ i + 1 \in 1..Len(channel[s])
            BY <2>2, <2>4
        <3>2. channel'[s][i] = channel[s][i + 1]
            BY <2>2, <2>4, <3>1, Zenon
        <3>3. channel[s][i + 1].id = received[s] + (i + 1)
            BY <3>1, Zenon DEF GapFree
        <3> QED
            BY <2>1, <2>4, <3>1, <3>2, <3>3
    <2>6. s \in subscribers => received'[s] + Len(channel'[s]) = nextEvent
        BY <2>1, <2>2, <2>4 DEF GapFree
    <2>7. ASSUME NEW x \in DOMAIN channel \ {s}
          PROVE  /\ \A i \in 1..Len(channel'[x]) : channel'[x][i].id = received'[x] + i
                 /\ x \in subscribers' => received'[x] + Len(channel'[x]) = nextEvent'
        BY <2>4, Zenon DEF GapFree
    <2>8. ASSUME NEW x \in DOMAIN channel'
          PROVE  /\ \A i \in 1..Len(channel'[x]) : channel'[x][i].id = received'[x] + i
                 /\ x \in subscribers' => received'[x] + Len(channel'[x]) = nextEvent'
        <3>1. CASE x = s
            BY <2>4, <2>5, <2>6, <3>1, Zenon
        <3>2. CASE x # s
            BY <2>4, <2>7, <3>2, Zenon
        <3> QED
            BY <3>1, <3>2, Zenon
    <2> QED
        BY <2>8, Zenon DEF GapFree
<1>6. CASE UNCHANGED vars
    BY <1>6, Zenon DEF vars, eventVars, GapFree
<1> QED
    BY <1>1, <1>2, <1>3, <1>4, <1>5, <1>6, Zenon DEF Next

(* However slow its reader, a subscriber's stream has no silent gap: it is *)
(* complete, or it has been closed.                                        *)
THEOREM StreamsGapFree == Spec => []GapFree
<1>1. New => GapFree
    BY DEF New, GapFree
<1> QED
    BY <1>1, InitTyped, NextTyped, NextGapFree, PTL DEF Spec


-----------------------------------------------------------------------------
(* What a step leaves alone.                                               *)

(* Only some steps of the owner touch the store, the feed or the tasks.    *)
LEMMA MainFrame ==
    ASSUME NEW p \in Processes, MainStep(p)
    PROVE  /\ UNCHANGED <<req, flag>>
           /\ UNCHANGED vars \/ StoreLost
           /\ OpenFeeds(p) \/ UNCHANGED <<tasks, governed, policy>>
           /\ OpenFeeds(p) \/ FeedRefused(p) \/ UNCHANGED files
           /\ ChooseFeed(p) \/ UNCHANGED configured
           /\ AddListener(p) \/ UNCHANGED bound
<1> USE DEF feedVars, dirVars
<1>1. CASE BootFails(p) \/ HoldLock(p) \/ ChooseFeed(p) \/ AddListener(p)
    BY <1>1, Zenon DEF BootFails, HoldLock, ChooseFeed, AddListener
<1>2. CASE OpenFeeds(p) \/ FeedRefused(p) \/ StartServers(p)
    BY <1>2, Zenon DEF OpenFeeds, FeedRefused, StartServers
<1>3. CASE StopAdmission(p) \/ Shutdown(p) \/ JoinRequests(p) \/ JoinBackground(p)
    BY <1>3, Zenon DEF StopAdmission, Shutdown, JoinRequests, JoinBackground, CloseStep
<1>4. CASE CloseReceivers(p) \/ RemoveEndpoints(p) \/ Unlock(p)
    BY <1>4, Zenon DEF CloseReceivers, RemoveEndpoints, Unlock, CloseStep
<1> QED
    BY <1>1, <1>2, <1>3, <1>4, Zenon DEF MainStep

(* Only some steps of a handler touch anything but the store.              *)
LEMMA RequestFrame ==
    ASSUME NEW r \in Requests, HandlerStep(r) \/ ClientStep(r)
    PROVE  /\ UNCHANGED <<pc, flag, bound, lock, socket>>
           /\ StartPull(r) \/ StartReceiver(r) \/ UNCHANGED tasks
           /\ AttachReceiver(r) \/ UNCHANGED receiver
           /\ SyncActivate(r) \/ UNCHANGED <<policy, governed>>
           /\ StartReceiver(r) \/ UNCHANGED configured
           /\ PrepareEnrollment(r) \/ InstallEnrollment(r) \/ MarkActivated(r) \/ UNCHANGED files
<1> USE DEF processVars, feedVars, dirVars
<1>1. CASE \/ Answered(r) \/ AdmitCall(r) \/ CallFails(r) \/ CompleteCall(r) \/ PullRefused(r)
           \/ StartPull(r)
           \/ \E k \in Keys \cup {NoKey}, f \in Fingerprints : BeginOperation(r, k, f)
           \/ \E p \in Processes, kind \in StoreKinds \cup FeedKinds : Accept(r, p, kind)
    BY <1>1, Zenon DEF Answered, AdmitCall, CallFails, CompleteCall, PullRefused, FinishOperation,
        StartPull, BeginOperation, Accept
<1>2. CASE \/ OpenStream(r) \/ StreamEvent(r) \/ StreamOver(r) \/ EndStream(r)
           \/ OpenSession(r) \/ SessionOver(r) \/ EndSession(r)
    BY <1>2, Zenon DEF OpenStream, StreamEvent, StreamOver, EndStream, OpenSession, SessionOver,
        EndSession
<1>3. CASE PrepareEnrollment(r) \/ InstallEnrollment(r) \/ BeginActivate(r) \/ SyncActivate(r)
    BY <1>3, Zenon DEF PrepareEnrollment, InstallEnrollment, BeginActivate, SyncActivate
<1>4. CASE MarkActivated(r) \/ AttachReceiver(r) \/ StartReceiver(r)
    BY <1>4, Zenon DEF MarkActivated, AttachReceiver, StartReceiver
<1> QED
    BY <1>1, <1>2, <1>3, <1>4, Zenon DEF HandlerStep, ClientStep

-----------------------------------------------------------------------------
(* Types.                                                                  *)

(* A step of the owner keeps the types.                                    *)
LEMMA MainTyped == ASSUME ManagerTypeOK, NEW p \in Processes, MainStep(p) PROVE ManagerTypeOK'
<1> USE DEF ManagerTypeOK, Goto, processVars, feedVars, dirVars
<1>1. CASE BootFails(p)
    BY <1>1, Zenon DEF BootFails
<1>2. CASE HoldLock(p)
    BY <1>2, Zenon DEF HoldLock
<1>3. CASE ChooseFeed(p)
    <2>1. PICK b \in BOOLEAN : configured' = [configured EXCEPT ![p] = b]
        BY Zenon, <1>3 DEF ChooseFeed
    <2>2. configured' \in [Processes -> BOOLEAN]
        BY <2>1, Zenon
    <2> QED
        BY <1>3, <2>2, Zenon DEF ChooseFeed
<1>4. CASE AddListener(p)
    BY <1>4, Zenon DEF AddListener
<1>5. CASE OpenFeeds(p)
    <2>1. CASE ~ configured[p]
        BY Zenon, <1>5, <2>1 DEF OpenFeeds
    <2>2. CASE configured[p]
        <3>1. PICK restored \in BOOLEAN :
                 /\ policy' = [policy EXCEPT ![p] = restored]
                 /\ governed' = (governed \/ restored)
            BY <1>5, <2>2, Zenon DEF OpenFeeds
        <3>2. policy' \in [Processes -> BOOLEAN] /\ governed' \in BOOLEAN
            BY <3>1, Zenon
        <3>3. tasks' \in [Processes -> SUBSET Nat]
            BY <1>5, <2>2 DEF OpenFeeds, FeedTask
        <3> QED
            BY Zenon, <1>5, <2>2, <3>2, <3>3 DEF OpenFeeds
    <2> QED
        BY <2>1, <2>2, Zenon
<1>6. CASE FeedRefused(p)
    BY <1>6, Zenon DEF FeedRefused
<1>7. CASE StartServers(p)
    BY <1>7, Zenon DEF StartServers
<1>8. CASE StopAdmission(p)
    BY <1>8, Zenon DEF StopAdmission, CloseStep
<1>9. CASE Shutdown(p)
    BY <1>9, Zenon DEF Shutdown, CloseStep
<1>10. CASE JoinRequests(p) \/ JoinBackground(p)
    BY Zenon, <1>10 DEF JoinRequests, JoinBackground, CloseStep
<1>11. CASE CloseReceivers(p)
    BY <1>11, Zenon DEF CloseReceivers, CloseStep
<1>12. CASE RemoveEndpoints(p)
    BY <1>12, Zenon DEF RemoveEndpoints, CloseStep
<1>13. CASE Unlock(p)
    BY <1>13, Zenon DEF Unlock, CloseStep
<1> QED
    BY <1>1, <1>2, <1>3, <1>4, <1>5, <1>6, <1>7, <1>8, <1>9, <1>10, <1>11, <1>12, <1>13, Zenon
    DEF MainStep

(* A request that ends, or goes on to its next step, is a request.         *)
LEMMA RequestKept ==
    ASSUME req \in [Requests -> Request], NEW r \in Requests,
           \/ End(r)
           \/ \E step \in {"running", "tunnel", "syncing", "marking", "attaching", "starting"} :
                 To(r, step)
           \/ UNCHANGED req
    PROVE  req' \in [Requests -> Request]
    BY DEF End, To, Free, Request

(* An operation or a stream gives the request a number.                    *)
LEMMA RequestNumbered ==
    ASSUME req \in [Requests -> Request], NEW r \in Requests, NEW n \in Nat,
           NEW step \in {"begun", "streaming"},
           req' = [req EXCEPT ![r].step = step, ![r].op = n]
    PROVE  req' \in [Requests -> Request]
<1>1. req[r] \in Request
    BY Zenon
<1>2. [[req[r] EXCEPT !.step = step] EXCEPT !.op = n] \in Request
    BY Zenon, <1>1 DEF Request
<1> QED
    BY <1>2, Zenon

(* A step of a handler or of its client keeps the types.                   *)
LEMMA RequestTyped ==
    ASSUME ManagerTypeOK, TypeOK', NEW r \in Requests, HandlerStep(r) \/ ClientStep(r)
    PROVE  ManagerTypeOK'
<1>1. req' \in [Requests -> Request]
    <2>0. req \in [Requests -> Request] /\ nextGeneration' \in Nat /\ Len(channel') \in Nat
        BY DEF ManagerTypeOK, TypeOK
    <2>1. ASSUME NEW k \in Keys \cup {NoKey}, NEW f \in Fingerprints, BeginOperation(r, k, f)
          PROVE  req' \in [Requests -> Request]
        BY Zenon, <2>0, <2>1, RequestNumbered DEF BeginOperation
    <2>2. CASE OpenStream(r)
        BY Zenon, <2>0, <2>2, RequestNumbered DEF OpenStream
    <2>3. ASSUME NEW p \in Processes, NEW kind \in StoreKinds \cup FeedKinds, Accept(r, p, kind)
          PROVE  req' \in [Requests -> Request]
        BY <2>0, <2>3, Zenon DEF Accept, Request
    <2>4. CASE \/ Answered(r) \/ CallFails(r) \/ CompleteCall(r) \/ PullRefused(r) \/ StartPull(r)
               \/ StreamEvent(r) \/ StreamOver(r) \/ EndStream(r) \/ SessionOver(r)
               \/ EndSession(r) \/ PrepareEnrollment(r) \/ InstallEnrollment(r) \/ StartReceiver(r)
        <3>1. End(r) \/ UNCHANGED req
            BY <2>4, Zenon DEF Answered, CallFails, CompleteCall, PullRefused, FinishOperation, StartPull,
                StreamEvent, StreamOver, EndStream, SessionOver, EndSession, PrepareEnrollment,
                InstallEnrollment, StartReceiver
        <3> QED
            BY <2>0, <3>1, RequestKept, Zenon
    <2>5. CASE \/ AdmitCall(r) \/ OpenSession(r) \/ BeginActivate(r) \/ SyncActivate(r)
               \/ MarkActivated(r) \/ AttachReceiver(r)
        BY <2>0, <2>5, RequestKept, Zenon DEF AdmitCall, OpenSession, BeginActivate, SyncActivate,
            MarkActivated, AttachReceiver
    <2> QED
        BY <2>1, <2>2, <2>3, <2>4, <2>5, Zenon DEF HandlerStep, ClientStep
<1>2. tasks' \in [Processes -> SUBSET Nat]
    <2>1. req[r].op \in Nat
        BY Zenon DEF ManagerTypeOK, Request
    <2>2. CASE StartPull(r)
        BY Zenon, <2>1, <2>2 DEF StartPull, ManagerTypeOK
    <2>3. CASE StartReceiver(r)
        BY <2>3 DEF StartReceiver, FeedTask, ManagerTypeOK
    <2> QED
        BY <2>2, <2>3, RequestFrame, Zenon DEF ManagerTypeOK
<1>3. receiver' \in [Processes -> {"none", "open", "closed"}]
    BY RequestFrame DEF AttachReceiver, ManagerTypeOK
<1>4. policy' \in [Processes -> BOOLEAN] /\ governed' \in BOOLEAN
    <2>1. CASE SyncActivate(r)
        <3>1. PICK b \in BOOLEAN, c \in BOOLEAN :
                 policy' = [policy EXCEPT ![req[r].proc] = b] /\ governed' = c
            BY Zenon, <2>1 DEF SyncActivate
        <3> QED
            BY Zenon, <3>1 DEF ManagerTypeOK
    <2> QED
        BY <2>1, RequestFrame, Zenon DEF ManagerTypeOK
<1>5. configured' \in [Processes -> BOOLEAN]
    <2>1. CASE StartReceiver(r)
        BY Zenon, <2>1 DEF StartReceiver, ManagerTypeOK
    <2> QED
        BY <2>1, RequestFrame, Zenon DEF ManagerTypeOK
<1>6. files' \subseteq {"dir", "request", "public", "feeds", "installed", "activated"}
    BY Zenon, RequestFrame DEF PrepareEnrollment, InstallEnrollment, InstallWrites, MarkActivated,
        ManagerTypeOK
<1> QED
    BY <1>1, <1>2, <1>3, <1>4, <1>5, <1>6, RequestFrame, Zenon DEF ManagerTypeOK

(* Every step of the managers keeps the types.                             *)
LEMMA ManagerTyped ==
    ASSUME ManagerTypeOK, TypeOK', [ManagerNext]_managerVars
    PROVE  ManagerTypeOK'
<1> USE DEF ManagerTypeOK, Goto, processVars, feedVars, dirVars
<1>2. ASSUME NEW p \in Processes, TaskStep(p)
      PROVE  ManagerTypeOK'
    <2>1. tasks' \in [Processes -> SUBSET Nat]
        BY <1>2 DEF TaskStep, FeedEnds, PullEnds
    <2> QED
        BY Zenon, <1>2, <2>1 DEF TaskStep, FeedEnds, PullEnds
<1>3. ASSUME NEW p \in Processes, FeedApplies(p) \/ ServeEnds(p)
      PROVE  ManagerTypeOK'
    BY Zenon, <1>3 DEF FeedApplies, ServeEnds
<1>4. ASSUME NEW p \in Processes, Crash(p)
      PROVE  ManagerTypeOK'
    BY <1>4, Zenon DEF Crash, Free, Request
<1>5. ASSUME NEW p \in Processes, NEW f \in {"none", "staged", "other"}, Launch(p, f)
      PROVE  ManagerTypeOK'
    BY <1>5, Zenon DEF Launch
<1>6. CASE UNCHANGED managerVars
    BY <1>6, Zenon DEF managerVars
<1> QED
    BY <1>2, <1>3, <1>4, <1>5, <1>6, MainTyped, RequestTyped, Zenon DEF ManagerNext

(* The managers start typed.                                               *)
LEMMA ManagerInitTyped == ASSUME ManagerInit PROVE ManagerTypeOK
    BY Zenon DEF ManagerInit, ManagerTypeOK, Free, Request

-----------------------------------------------------------------------------
(* Ownership.                                                              *)

(* Where a process surely holds the lock, and where it may have requests   *)
(* and tasks.                                                              *)
Holding == {"locked", "chosen", "stopping"} \cup Listening
Taking == {"serving", "stopping", "refusing", "draining", "cancelled", "shut"}
Working == {"ready", "joined"} \cup Taking

(* What a process has it has together with the lock: a request until it is *)
(* joined, then tasks, then the receiver, and the socket file last.        *)
Ownership ==
    /\ \A p \in Processes :
         /\ pc[p] \in Holding => lock = p
         /\ lock = p => pc[p] \notin Exited \cup {"new"}
         /\ tasks[p] # {} => lock = p /\ pc[p] \in Working
         /\ receiver[p] = "open" => lock = p /\ pc[p] \in Working \cup {"idle"}
         /\ bound[p] => lock = p \/ pc[p] \in {"stopped", "gone"}
         /\ pc[p] \in Listening => socket = p
    /\ \A r \in Requests :
         req[r].proc # None => lock = req[r].proc /\ pc[req[r].proc] \in Taking

(* A process that has requests may take on tasks and a receiver.           *)
LEMMA OwnershipGains ==
    ASSUME Ownership, UNCHANGED <<pc, bound, lock, socket>>, NEW o,
           o \in Processes => lock = o /\ pc[o] \in Taking,
           \A p \in Processes : p # o => tasks'[p] = tasks[p] /\ receiver'[p] = receiver[p],
           \A r \in Requests : req'[r].proc \in {None, req[r].proc}
    PROVE  Ownership'
    BY Zenon DEF Ownership, Working

(* A request that goes on or ends disturbs no ownership.                   *)
LEMMA OwnershipQuiet ==
    ASSUME Ownership, UNCHANGED <<pc, bound, tasks, receiver, lock, socket>>,
           \A r \in Requests : req'[r].proc \in {None, req[r].proc}
    PROVE  Ownership'
    BY Zenon DEF Ownership

(* A step of the owner.                                                    *)
LEMMA OwnershipMain ==
    ASSUME ManagerTypeOK, Ownership, NEW p \in Processes, MainStep(p)
    PROVE  Ownership'
<1>0. /\ \A r \in Requests : req[r].proc \in Processes \cup {None}
      /\ pc = [q \in Processes |-> pc[q]] /\ receiver = [q \in Processes |-> receiver[q]]
      /\ bound = [q \in Processes |-> bound[q]] /\ tasks = [q \in Processes |-> tasks[q]]
    BY Zenon DEF Request, ManagerTypeOK
<1> USE NoneIsNone DEF Ownership, Holding, Taking, Working, Listening, Exited,
        Goto, processVars, feedVars, dirVars
<1>1. CASE BootFails(p)
    BY <1>0, <1>1, Zenon DEF BootFails
<1>2. CASE HoldLock(p)
    BY <1>0, <1>2, Zenon DEF HoldLock
<1>3. CASE ChooseFeed(p)
    BY <1>0, <1>3, Zenon DEF ChooseFeed
<1>4. CASE AddListener(p)
    BY <1>0, <1>4, Zenon DEF AddListener
<1>5. CASE OpenFeeds(p)
    <2>1. /\ pc[p] = "listening" /\ pc' = [pc EXCEPT ![p] = "ready"]
          /\ \A q \in Processes : q # p => receiver'[q] = receiver[q] /\ tasks'[q] = tasks[q]
          /\ UNCHANGED <<bound, lock, socket, req>>
        BY <1>0, <1>5, Zenon DEF OpenFeeds
    <2> QED
        BY <1>0, <2>1
<1>6. CASE FeedRefused(p)
    BY <1>0, <1>6, Zenon DEF FeedRefused
<1>7. CASE StartServers(p)
    BY <1>0, <1>7, Zenon DEF StartServers
<1>8. CASE StopAdmission(p)
    BY <1>0, <1>8 DEF StopAdmission, CloseStep
<1>9. CASE Shutdown(p)
    BY <1>0, <1>9, Zenon DEF Shutdown, CloseStep
<1>10. CASE JoinRequests(p) \/ JoinBackground(p)
    BY <1>0, <1>10 DEF JoinRequests, JoinBackground, CloseStep
<1>11. CASE CloseReceivers(p)
    BY <1>0, <1>11, Zenon DEF CloseReceivers, CloseStep
<1>12. CASE RemoveEndpoints(p)
    BY <1>0, <1>12, Zenon DEF RemoveEndpoints, CloseStep
<1>13. CASE Unlock(p)
    BY <1>0, <1>13, Zenon DEF Unlock, CloseStep
<1> QED
    BY Zenon, <1>1, <1>2, <1>3, <1>4, <1>5, <1>6, <1>7, <1>8, <1>9, <1>10, <1>11, <1>12, <1>13
    DEF MainStep

(* A request stays with its process, and is admitted but once.             *)
Onward(r, q) ==
    /\ q # r => req'[q] = req[q]
    /\ req'[q].proc \in {None, req[q].proc}
    /\ req'[q].step = "admitted" => req'[q] = req[q]
    /\ req'[q].step = "begun" => req'[q] = req[q] \/ req'[q].op = nextGeneration + 1
    /\ req'[q].kind # "none" => req'[q].proc = req[q].proc /\ req'[q].kind = req[q].kind

(* Every step of a handler, or its client's leaving, moves requests on.    *)
LEMMA RequestProc ==
    ASSUME ManagerTypeOK, NEW r \in Requests, HandlerStep(r) \/ EndStream(r) \/ EndSession(r)
    PROVE  \A q \in Requests : Onward(r, q)
<1> USE DEF Onward, ManagerTypeOK, End, To, Free, Request
<1>1. ASSUME NEW k \in Keys \cup {NoKey}, NEW f \in Fingerprints, BeginOperation(r, k, f)
      PROVE  \A q \in Requests : Onward(r, q)
    <2>1. nextGeneration' = nextGeneration + 1
        BY Zenon, <1>1 DEF BeginOperation, Begin, BeginFree, BeginEvicting, Admit
    <2> QED
        BY <1>1, <2>1 DEF BeginOperation
<1>2. CASE OpenStream(r)
    BY <1>2 DEF OpenStream
<1>3. CASE End(r) \/ UNCHANGED req
    BY <1>3
<1>4. ASSUME NEW step, step \notin {"admitted", "begun"}, To(r, step)
      PROVE  \A q \in Requests : Onward(r, q)
    BY <1>4
<1>5. CASE AdmitCall(r) \/ OpenSession(r) \/ BeginActivate(r) \/ SyncActivate(r)
           \/ MarkActivated(r) \/ AttachReceiver(r)
    <2>1. End(r) \/ UNCHANGED req \/ \E step : step \notin {"admitted", "begun"} /\ To(r, step)
        BY Zenon, <1>5 DEF AdmitCall, OpenSession, BeginActivate, SyncActivate, MarkActivated,
            AttachReceiver
    <2> QED
        BY <2>1, <1>3, <1>4, Zenon
<1>6. CASE Answered(r) \/ CallFails(r) \/ CompleteCall(r) \/ PullRefused(r) \/ StartPull(r)
           \/ StreamEvent(r) \/ StreamOver(r) \/ EndStream(r) \/ SessionOver(r) \/ EndSession(r)
           \/ PrepareEnrollment(r) \/ InstallEnrollment(r) \/ StartReceiver(r)
    <2>1. End(r) \/ UNCHANGED req
        BY Zenon, <1>6 DEF Answered, CallFails, CompleteCall, PullRefused, FinishOperation, StartPull,
            StreamEvent, StreamOver, EndStream, SessionOver, EndSession, PrepareEnrollment,
            InstallEnrollment, StartReceiver
    <2> QED
        BY <2>1, <1>3, Zenon
<1> QED
    BY Zenon, <1>1, <1>2, <1>5, <1>6 DEF HandlerStep

(* A step of a handler or of its client.                                   *)
LEMMA OwnershipRequest ==
    ASSUME ManagerTypeOK, Ownership, NEW r \in Requests, HandlerStep(r) \/ ClientStep(r)
    PROVE  Ownership'
<1> USE NoneIsNone DEF processVars, feedVars, dirVars
<1>0. \A q \in Requests : req[q].proc \in Processes \cup {None}
    BY Zenon DEF Request, ManagerTypeOK
<1>1. ASSUME NEW p \in Processes, NEW kind \in StoreKinds \cup FeedKinds, Accept(r, p, kind)
      PROVE  Ownership'
    BY <1>0, <1>1 DEF Accept, Ownership, Admitting, Holding, Taking, Listening, ManagerTypeOK
<1>2. CASE StartPull(r) \/ AttachReceiver(r) \/ StartReceiver(r)
    <2>1. \A q \in Requests : req'[q].proc \in {None, req[q].proc}
        BY Zenon, <1>2, RequestProc DEF HandlerStep, Onward
    <2>2. req[r].proc \in Processes => lock = req[r].proc /\ pc[req[r].proc] \in Taking
        BY Zenon DEF Ownership
    <2>3. \A p \in Processes : p # req[r].proc => tasks'[p] = tasks[p] /\ receiver'[p] = receiver[p]
        BY Zenon, <1>2 DEF StartPull, AttachReceiver, StartReceiver, ManagerTypeOK
    <2>4. UNCHANGED <<pc, bound, lock, socket>>
        BY Zenon, <1>2 DEF StartPull, AttachReceiver, StartReceiver
    <2> QED
        BY Zenon, <2>1, <2>2, <2>3, <2>4, OwnershipGains
<1>3. CASE ~ (StartPull(r) \/ AttachReceiver(r) \/ StartReceiver(r))
           /\ (HandlerStep(r) \/ EndStream(r) \/ EndSession(r))
    <2>1. \A q \in Requests : req'[q].proc \in {None, req[q].proc}
        BY <1>3, RequestProc, Zenon DEF Onward
    <2>2. UNCHANGED <<pc, bound, tasks, receiver, lock, socket>>
        BY <1>3, RequestFrame, Zenon DEF ClientStep
    <2> QED
        BY <2>1, <2>2, OwnershipQuiet, Zenon
<1> QED
    BY <1>1, <1>2, <1>3, Zenon DEF ClientStep

(* Every step of the managers.                                             *)
LEMMA OwnershipKept ==
    ASSUME ManagerTypeOK, Ownership, [ManagerNext]_managerVars
    PROVE  Ownership'
<1> USE NoneIsNone DEF Goto, processVars, feedVars, dirVars
<1>0. \A q \in Requests : req[q].proc \in Processes \cup {None}
    BY Zenon DEF Request, ManagerTypeOK
<1>1. ASSUME NEW p \in Processes, TaskStep(p)
      PROVE  Ownership'
    BY <1>0, <1>1 DEF TaskStep, FeedEnds, PullEnds, Ownership, ManagerTypeOK
<1>2. ASSUME NEW p \in Processes, FeedApplies(p)
      PROVE  Ownership'
    BY <1>2, OwnershipQuiet, Zenon DEF FeedApplies
<1>3. ASSUME NEW p \in Processes, ServeEnds(p)
      PROVE  Ownership'
    BY <1>0, <1>3
    DEF ServeEnds, Ownership, ManagerTypeOK, Holding, Taking, Working, Listening, Exited
<1>4. ASSUME NEW p \in Processes, Crash(p)
      PROVE  Ownership'
    BY <1>0, <1>4
    DEF Crash, Free, Ownership, ManagerTypeOK, Holding, Taking, Working, Listening, Exited
<1>5. ASSUME NEW p \in Processes, NEW f \in {"none", "staged", "other"}, Launch(p, f)
      PROVE  Ownership'
    BY <1>0, <1>5
    DEF Launch, Ownership, ManagerTypeOK, Holding, Taking, Working, Listening, Exited
<1>6. CASE UNCHANGED managerVars
    BY <1>6, OwnershipQuiet, Zenon DEF managerVars
<1> QED
    BY <1>1, <1>2, <1>3, <1>4, <1>5, <1>6, OwnershipMain, OwnershipRequest, Zenon DEF ManagerNext

(* No process starts with anything.                                        *)
LEMMA OwnershipInit == ASSUME ManagerInit PROVE Ownership
    BY NoneIsNone, Zenon DEF ManagerInit, Ownership, Free, Holding, Listening, Exited

(* The invariant the other properties stand on.                            *)
Base == TypeOK /\ ManagerTypeOK /\ Ownership

(* It is inductive as far as the store's types are.                        *)
LEMMA BaseKept ==
    ASSUME Base, TypeOK', [ManagerNext]_managerVars
    PROVE  Base'
    BY ManagerTyped, OwnershipKept, Zenon DEF Base

-----------------------------------------------------------------------------
(* Running operations.                                                     *)

(* An admitted request has no operation yet, so it can be dropped, one     *)
(* that has begun has; and one that is not free is some process's.         *)
Unbegun ==
    \A r \in Requests :
        /\ req[r].step = "admitted" => req[r].op = 0
        /\ req[r].step = "begun" => req[r].op # 0
        /\ req[r].kind # "none" => req[r].proc # None

(* No step gives an admitted request an operation.                         *)
LEMMA UnbegunKept ==
    ASSUME Base, Unbegun, [ManagerNext]_managerVars
    PROVE  Unbegun'
<1>0. ManagerTypeOK /\ nextGeneration \in Nat
    BY Zenon DEF Base, TypeOK
<1>1. ASSUME NEW r \in Requests, HandlerStep(r) \/ EndStream(r) \/ EndSession(r)
      PROVE  Unbegun'
    BY <1>0, <1>1, RequestProc DEF Onward, Unbegun
<1>2. ASSUME NEW r \in Requests, NEW p \in Processes, NEW kind \in StoreKinds \cup FeedKinds,
             Accept(r, p, kind)
      PROVE  Unbegun'
    BY <1>0, <1>2, NoneIsNone, Zenon DEF Accept, Unbegun, ManagerTypeOK
<1>3. ASSUME NEW p \in Processes, Crash(p)
      PROVE  Unbegun'
    BY Zenon, <1>3 DEF Crash, Unbegun, Free
<1>4. ASSUME NEW p \in Processes, MainStep(p) \/ TaskStep(p) \/ FeedApplies(p) \/ ServeEnds(p)
      PROVE  UNCHANGED req
    BY <1>4, MainFrame, Zenon DEF TaskStep, FeedEnds, PullEnds, FeedApplies, ServeEnds
<1>5. ASSUME UNCHANGED req
      PROVE  Unbegun'
    BY <1>5, Zenon DEF Unbegun
<1> QED
    BY <1>1, <1>2, <1>3, <1>4, <1>5, Zenon DEF ManagerNext, ClientStep, Launch, managerVars

Calling(r) == req[r].kind \in {"call", "pull"} /\ req[r].op # 0

(* A step that leaves the records, the operations of requests and the      *)
(* pulls alone.                                                            *)
LEMMA OrphansQuiet ==
    ASSUME TypeOK, NoOrphans, UNCHANGED records,
           \A p \in Processes : tasks[p] \subseteq tasks'[p] \cup {FeedTask},
           \A r \in Requests : Calling(r) => req'[r].kind = req[r].kind /\ req'[r].op = req[r].op
    PROVE  NoOrphans'
<1>1. 0 \notin DOMAIN records
    BY DEF TypeOK
<1> QED
    BY <1>1, Zenon DEF NoOrphans, Calling, FeedTask

(* Finishing an operation.                                                 *)
LEMMA OrphansFinish ==
    ASSUME TypeOK, NoOrphans, NEW id, NEW phase \in Terminal, Finish(id, phase),
           \A p \in Processes : tasks[p] \subseteq tasks'[p] \cup {id},
           \A r \in Requests : req'[r] = req[r] \/ req[r].op = id
    PROVE  NoOrphans'
<1>1. DOMAIN records' = DOMAIN records
    BY Zenon DEF Finish
<1>2. \A i \in DOMAIN records : i # id => records'[i] = records[i]
    BY Zenon DEF Finish
<1>3. id \in DOMAIN records => records'[id].phase # "running"
    <2>1. id \in DOMAIN records => records[id] \in Record
        BY Zenon DEF TypeOK
    <2> QED
        BY <2>1, Zenon DEF Finish, Terminal, Record
<1> QED
    BY <1>1, <1>2, <1>3 DEF NoOrphans

(* Beginning an operation: the record that is new is the request's.        *)
LEMMA OrphansBegin ==
    ASSUME TypeOK, ManagerTypeOK, NoOrphans, Unbegun, NEW r \in Requests,
           NEW k \in Keys \cup {NoKey}, NEW f \in Fingerprints, BeginOperation(r, k, f)
    PROVE  NoOrphans'
<1>1. \A i \in DOMAIN records' : i # nextGeneration' => i \in DOMAIN records /\ records'[i] = records[i]
    <2>1. CASE BeginFree(k, f)
        BY <2>1, Zenon DEF BeginFree, Admit, With
    <2>2. CASE BeginEvicting(k, f)
        <3>1. PICK i \in 1..Len(order) :
                 Admit(k, f, Without(records, {order[i]}), RemoveAt(order, i),
                       Without(idempotency, KeyOf(order[i])))
            BY Zenon, <2>2 DEF BeginEvicting
        <3> QED
            BY Zenon, <3>1 DEF Admit, With, Without
    <2> QED
        BY <2>1, <2>2, Zenon DEF BeginOperation, Begin
<1>2. /\ req'[r].op = nextGeneration' /\ req'[r].kind \in {"call", "pull"}
      /\ \A q \in Requests \ {r} : req'[q] = req[q]
    BY DEF BeginOperation, ManagerTypeOK, Request
<1>3. req[r].op = 0 /\ 0 \notin DOMAIN records
    BY DEF BeginOperation, Unbegun, TypeOK
<1>4. UNCHANGED tasks
    BY Zenon DEF BeginOperation, processVars
<1> QED
    BY <1>1, <1>2, <1>3, <1>4 DEF NoOrphans

(* A step of a handler or of its client.                                   *)
LEMMA OrphansRequest ==
    ASSUME TypeOK, ManagerTypeOK, NoOrphans, Unbegun, NEW r \in Requests,
           HandlerStep(r) \/ ClientStep(r)
    PROVE  NoOrphans'
<1> USE DEF processVars, feedVars
<1>0. Len(channel) \in Nat
    BY DEF TypeOK
<1>1. CASE CallFails(r) \/ CompleteCall(r) \/ PullRefused(r)
    <2>1. PICK phase \in Terminal : FinishOperation(r, phase)
        BY <1>1, Zenon DEF CallFails, CompleteCall, PullRefused, Terminal
    <2> QED
        BY <2>1, OrphansFinish, Zenon DEF FinishOperation, End, ManagerTypeOK
<1>2. CASE StartPull(r)
    <2>1. req[r].proc \in Processes
        BY <1>2, Zenon DEF StartPull, At, Unbegun, ManagerTypeOK, Request
    <2>2. req[r].op \in tasks'[req[r].proc] /\ \A p \in Processes : tasks[p] \subseteq tasks'[p]
        BY <1>2, <2>1, Zenon DEF StartPull, ManagerTypeOK
    <2>3. UNCHANGED records /\ \A q \in Requests \ {r} : req'[q] = req[q]
        BY <1>2, Zenon DEF StartPull, End, ManagerTypeOK, vars, storeVars
    <2> QED
        BY <2>1, <2>2, <2>3 DEF NoOrphans
<1>3. CASE HandlerStep(r) \/ ClientStep(r)
    <2>1. CASE \/ Answered(r) \/ AdmitCall(r) \/ OpenStream(r) \/ StreamEvent(r) \/ StreamOver(r)
               \/ OpenSession(r) \/ SessionOver(r) \/ EndStream(r) \/ EndSession(r)
               \/ PrepareEnrollment(r) \/ InstallEnrollment(r) \/ BeginActivate(r)
               \/ SyncActivate(r) \/ MarkActivated(r) \/ AttachReceiver(r) \/ StartReceiver(r)
               \/ \E p \in Processes, kind \in StoreKinds \cup FeedKinds : Accept(r, p, kind)
        <3>1. UNCHANGED records
            BY Zenon, <2>1 DEF Answered, AdmitCall, OpenStream, StreamEvent, StreamOver, OpenSession,
                SessionOver, EndStream, EndSession, PrepareEnrollment, InstallEnrollment,
                BeginActivate, SyncActivate, MarkActivated, AttachReceiver, StartReceiver, Accept,
                Subscribe, Unsubscribe, Receive, vars, storeVars
        <3>2. \A p \in Processes : tasks[p] \subseteq tasks'[p] \cup {FeedTask}
            BY <1>3, RequestFrame DEF StartPull, StartReceiver, ManagerTypeOK
        <3>3. \A q \in Requests \ {r} : req'[q] = req[q]
            BY Zenon, <2>1, RequestProc DEF HandlerStep, Onward, Accept, ManagerTypeOK
        <3>4. Calling(r) => req'[r].kind = req[r].kind /\ req'[r].op = req[r].op
            <4>1. CASE AdmitCall(r)
                BY <4>1 DEF AdmitCall, To, ManagerTypeOK, Request
            <4>2. CASE ~ AdmitCall(r)
                <5>1. CASE Answered(r) \/ req[r] = Free
                    <6>1. Answered(r) => req[r].op = 0
                        BY Zenon DEF Answered, Unbegun
                    <6>2. req[r] = Free => req[r].op = 0
                        BY DEF Free
                    <6> QED
                        BY <5>1, <6>1, <6>2, Zenon DEF Calling
                <5>2. CASE req[r].kind \in {"events", "session", "prepare", "install", "activate"}
                    BY <5>2, Zenon DEF Calling
                <5> QED
                    BY Zenon, <2>1, <4>2, <5>1, <5>2 DEF OpenStream, StreamEvent, StreamOver,
                        OpenSession, SessionOver, EndStream, EndSession, PrepareEnrollment,
                        InstallEnrollment, BeginActivate, SyncActivate, MarkActivated,
                        AttachReceiver, StartReceiver, Accept, At, Enter
            <4> QED
                BY <4>1, <4>2, Zenon
        <3> QED
            BY Zenon, <3>1, <3>2, <3>3, <3>4, OrphansQuiet DEF Calling
    <2> QED
        BY <1>1, <1>2, <1>3, <2>1, OrphansBegin, Zenon DEF HandlerStep, ClientStep
<1> QED
    BY <1>3, Zenon

(* Every step of the managers: one that dies without the lock has nothing  *)
(* in hand, and one that has it takes its store with it.                   *)
LEMMA OrphansKept ==
    ASSUME Base, Unbegun, NoOrphans, [ManagerNext]_managerVars
    PROVE  NoOrphans'
<1> USE DEF Base, processVars, vars, storeVars
<1>1. CASE StoreLost
    BY <1>1 DEF StoreLost, NoOrphans
<1>2. ASSUME NEW p \in Processes, Crash(p), lock # p
      PROVE  NoOrphans'
    <2>1. \A r \in Requests : req[r].proc # p
        BY <1>2, NoneIsNone, Zenon DEF Ownership
    <2>2. tasks[p] = {}
        BY <1>2, Zenon DEF Ownership
    <2> QED
        BY <1>2, <2>1, <2>2, OrphansQuiet, Zenon DEF Crash, ManagerTypeOK
<1>3. ASSUME NEW p \in Processes, NEW id \in tasks[p], PullEnds(p, id)
      PROVE  NoOrphans'
    <2>1. \A q \in Processes : tasks[q] \subseteq tasks'[q] \cup {id}
        BY <1>3, Zenon DEF PullEnds, ManagerTypeOK
    <2> QED
        BY <1>3, <2>1, OrphansFinish, Zenon DEF PullEnds
<1>4. ASSUME NEW p \in Processes, FeedEnds(p)
      PROVE  NoOrphans'
    <2>1. \A q \in Processes : tasks[q] \subseteq tasks'[q] \cup {FeedTask}
        BY <1>4, Zenon DEF FeedEnds, ManagerTypeOK
    <2> QED
        BY Zenon, <1>4, <2>1, OrphansQuiet DEF FeedEnds
<1>5. ASSUME NEW p \in Processes, MainStep(p), UNCHANGED vars
      PROVE  NoOrphans'
    <2>1. \A q \in Processes : tasks[q] \subseteq tasks'[q] \cup {FeedTask}
        <3>1. CASE OpenFeeds(p)
            <4>1. tasks[p] = {}
                BY <3>1, Zenon DEF OpenFeeds, Ownership, Working, Taking
            <4> QED
                BY <3>1, <4>1, Zenon DEF OpenFeeds, ManagerTypeOK
        <3>2. CASE ~ OpenFeeds(p)
            BY Zenon, <1>5, <3>2, MainFrame
        <3> QED
            BY <3>1, <3>2, Zenon
    <2> QED
        BY Zenon, <1>5, <2>1, MainFrame, OrphansQuiet
<1>7. ASSUME NEW p \in Processes, NEW f \in {"none", "staged", "other"},
             FeedApplies(p) \/ ServeEnds(p) \/ Launch(p, f)
      PROVE  NoOrphans'
    BY Zenon, <1>7, OrphansQuiet DEF FeedApplies, ServeEnds, Launch
<1>8. CASE UNCHANGED managerVars
    BY Zenon, <1>8, OrphansQuiet DEF managerVars
<1>9. ASSUME NEW p \in Processes, Crash(p)
      PROVE  NoOrphans'
    BY Zenon, <1>1, <1>2, <1>9 DEF Crash
<1> QED
    BY Zenon, <1>1, <1>3, <1>4, <1>5, <1>7, <1>8, <1>9, MainFrame, OrphansRequest DEF ManagerNext, TaskStep

-----------------------------------------------------------------------------
(* Policy feeds.                                                           *)

Choosing == {"chosen"} \cup Listening

(* What is on disk is written in an order that lets a start after any      *)
(* crash see that a feed was there: the feed's directory is made before a  *)
(* policy of it is published, the marker of the installation after all     *)
(* that it stands for, the marker of the activation after that.            *)
Enrolled ==
    /\ "installed" \in files => {"request", "public", "feeds"} \subseteq files
    /\ "activated" \in files => "installed" \in files
    /\ governed => "feeds" \in files
    /\ \A p \in Processes : FeedTask \in tasks[p] => "feeds" \in files
    /\ \A r \in Requests :
         req[r].kind = "activate" /\ req[r].step # "admitted" => "installed" \in files

(* A manager that got past the choice of its feed has the policy or a      *)
(* receiver that will get it.                                              *)
Governing == governed => \A p \in Processes : pc[p] \in Choosing => policy[p] \/ configured[p]

(* Steps that touch neither the files nor the feed.                        *)
LEMMA EnrolledQuiet ==
    ASSUME ManagerTypeOK, Enrolled, UNCHANGED <<files, governed>>,
           \A p \in Processes : FeedTask \in tasks'[p] => FeedTask \in tasks[p],
           \A r \in Requests : \/ req'[r].kind # "activate" \/ req'[r].step = "admitted"
                               \/ req[r].kind = "activate" /\ req[r].step # "admitted"
    PROVE  Enrolled'
    BY Zenon DEF Enrolled

(* A step of the owner keeps the order of the writes.                      *)
LEMMA EnrolledMain ==
    ASSUME ManagerTypeOK, Enrolled, NEW p \in Processes, MainStep(p)
    PROVE  Enrolled'
<1>0. UNCHANGED req
    BY MainFrame, Zenon
<1>1. CASE OpenFeeds(p)
    <2>1. CASE configured[p]
        <3>1. files' = files \cup {"feeds"}
            BY <1>1, <2>1, Zenon DEF OpenFeeds
        <3> QED
            BY <1>0, <3>1, Zenon DEF Enrolled
    <2>2. CASE ~ configured[p]
        BY Zenon, <1>0, <1>1, <2>2, EnrolledQuiet DEF OpenFeeds
    <2> QED
        BY <2>1, <2>2, Zenon
<1>2. CASE FeedRefused(p)
    BY <1>0, <1>2, Zenon DEF FeedRefused, Enrolled
<1>3. CASE ~ OpenFeeds(p) /\ ~ FeedRefused(p)
    <2>1. UNCHANGED <<files, governed, tasks>>
        BY <1>3, MainFrame, Zenon
    <2> QED
        BY <1>0, <2>1, EnrolledQuiet, Zenon
<1> QED
    BY <1>1, <1>2, <1>3, Zenon

(* A step of a handler or of its client does.                              *)
LEMMA EnrolledRequest ==
    ASSUME ManagerTypeOK, Unbegun, Enrolled, NEW r \in Requests, HandlerStep(r) \/ ClientStep(r)
    PROVE  Enrolled'
<1> USE DEF processVars, dirVars, feedVars
<1>1. ASSUME NEW p \in Processes, NEW kind \in StoreKinds \cup FeedKinds, Accept(r, p, kind)
      PROVE  Enrolled'
    BY <1>1, EnrolledQuiet, Zenon DEF Accept, ManagerTypeOK
<1>2. ASSUME HandlerStep(r) \/ EndStream(r) \/ EndSession(r)
      PROVE  /\ \A q \in Requests : Onward(r, q)
             /\ \A q \in Requests \ {r} : req'[q] = req[q]
             /\ req'[r].kind = "activate" => req[r].kind = "activate"
    BY Zenon, <1>2, RequestProc DEF Onward
<1>3. CASE PrepareEnrollment(r)
    BY Zenon, <1>2, <1>3 DEF PrepareEnrollment, HandlerStep, Enrolled, Enter, At
<1>4. CASE InstallEnrollment(r)
    BY Zenon, <1>2, <1>4 DEF InstallEnrollment, InstallWrites, HandlerStep, Enrolled, Enter, At
<1>5. CASE BeginActivate(r)
    BY Zenon, <1>2, <1>5 DEF BeginActivate, Installed, HandlerStep, Enrolled
<1>6. CASE SyncActivate(r)
    <2>1. "installed" \in files
        BY Zenon, <1>6 DEF SyncActivate, At, Enrolled
    <2>2. UNCHANGED <<files, tasks>>
        BY <1>6, Zenon DEF SyncActivate
    <2> QED
        BY Zenon, <2>1, <2>2 DEF Enrolled
<1>7. CASE MarkActivated(r)
    <2>1. "installed" \in files
        BY <1>7, Zenon DEF MarkActivated, At, Enrolled
    <2>2. files \subseteq files' /\ files' \subseteq files \cup {"activated"} /\ UNCHANGED <<tasks, governed>>
        BY <1>7, Zenon DEF MarkActivated
    <2> QED
        BY <2>1, <2>2, Zenon DEF Enrolled
<1>8. CASE AttachReceiver(r) \/ StartReceiver(r)
    <2>1. "installed" \in files
        BY Zenon, <1>8 DEF AttachReceiver, StartReceiver, At, Enrolled
    <2>2. UNCHANGED <<files, governed>>
        BY Zenon, <1>8 DEF AttachReceiver, StartReceiver
    <2> QED
        BY <2>1, <2>2, Zenon DEF Enrolled
<1>9. ASSUME req[r].kind # "activate" \/ Answered(r), UNCHANGED <<files, governed>>,
             HandlerStep(r) \/ EndStream(r) \/ EndSession(r),
             \A p \in Processes : FeedTask \in tasks'[p] => FeedTask \in tasks[p]
      PROVE  Enrolled'
    <2>1. Answered(r) => req'[r].kind # "activate"
        BY DEF Answered, End, Free, ManagerTypeOK
    <2> QED
        BY <1>2, <1>9, <2>1, EnrolledQuiet, Zenon
<1>10. CASE StartPull(r)
    <2>1. req[r].op # FeedTask /\ req[r].kind # "activate"
        BY Zenon, <1>10 DEF StartPull, At, Unbegun, FeedTask
    <2>2. \A p \in Processes : FeedTask \in tasks'[p] => FeedTask \in tasks[p]
        BY <1>10, <2>1, Zenon DEF StartPull, ManagerTypeOK
    <2> QED
        BY Zenon, <1>9, <1>10, <2>1, <2>2 DEF StartPull, HandlerStep
<1>11. ASSUME HandlerStep(r) \/ EndStream(r) \/ EndSession(r), ~ StartPull(r),
              ~ PrepareEnrollment(r), ~ InstallEnrollment(r), ~ BeginActivate(r),
              ~ SyncActivate(r), ~ MarkActivated(r), ~ AttachReceiver(r), ~ StartReceiver(r)
       PROVE  Enrolled'
    <2>1. req[r].kind # "activate" \/ Answered(r)
        BY Zenon, <1>11 DEF HandlerStep, AdmitCall, CallFails, CompleteCall, PullRefused, OpenStream,
            StreamEvent, StreamOver, EndStream, OpenSession, SessionOver, EndSession,
            BeginOperation, At
    <2>2. UNCHANGED <<files, governed, tasks>>
        BY <1>11, RequestFrame, Zenon DEF ClientStep
    <2> QED
        BY Zenon, <1>9, <1>11, <2>1, <2>2
<1> QED
    BY <1>1, <1>3, <1>4, <1>5, <1>6, <1>7, <1>8, <1>10, <1>11, Zenon DEF ClientStep

(* Every step of the managers does.                                        *)
LEMMA EnrolledKept ==
    ASSUME Base, Unbegun, Enrolled, [ManagerNext]_managerVars
    PROVE  Enrolled'
<1>0. ManagerTypeOK
    BY Zenon DEF Base
<1>1. ASSUME NEW p \in Processes, TaskStep(p)
      PROVE  Enrolled'
    <2>1. \A q \in Processes : tasks'[q] \subseteq tasks[q]
        BY <1>0, <1>1 DEF TaskStep, FeedEnds, PullEnds, ManagerTypeOK
    <2> QED
        BY Zenon, <1>0, <1>1, <2>1, EnrolledQuiet DEF TaskStep, FeedEnds, PullEnds, dirVars
<1>2. ASSUME NEW p \in Processes, FeedApplies(p)
      PROVE  Enrolled'
    BY Zenon, <1>2 DEF FeedApplies, Enrolled
<1>3. ASSUME NEW p \in Processes, NEW f \in {"none", "staged", "other"},
             ServeEnds(p) \/ Launch(p, f)
      PROVE  Enrolled'
    BY Zenon, <1>0, <1>3, EnrolledQuiet DEF ServeEnds, Launch, dirVars
<1>4. ASSUME NEW p \in Processes, Crash(p)
      PROVE  Enrolled'
    <2>1. \A q \in Processes : tasks'[q] \subseteq tasks[q]
        BY Zenon, <1>0, <1>4 DEF Crash, ManagerTypeOK
    <2>2. \A r \in Requests : req'[r] = req[r] \/ req'[r].kind # "activate"
        BY Zenon, <1>4 DEF Crash, Free
    <2> QED
        BY Zenon, <1>0, <1>4, <2>1, <2>2, EnrolledQuiet DEF Crash
<1>5. CASE UNCHANGED managerVars
    BY Zenon, <1>0, <1>5, EnrolledQuiet DEF managerVars, processVars, dirVars
<1> QED
    BY <1>0, <1>1, <1>2, <1>3, <1>4, <1>5, EnrolledMain, EnrolledRequest, Zenon DEF ManagerNext

(* Steps that publish nothing and bring no process past its choice.        *)
LEMMA GoverningQuiet ==
    ASSUME Governing, UNCHANGED governed,
           \A p \in Processes :
              /\ pc'[p] \in Choosing => pc[p] \in Choosing
              /\ policy[p] => policy'[p]
              /\ configured[p] => configured'[p]
    PROVE  Governing'
    BY Zenon DEF Governing

(* Whoever publishes is the only process that is past its choice.          *)
LEMMA GoverningPublished ==
    ASSUME Ownership', NEW p \in Processes, lock' = p, policy'[p] \/ configured'[p]
    PROVE  Governing'
    BY Zenon DEF Governing, Ownership, Choosing, Holding

(* A step of the owner leaves nobody ungoverned.                           *)
LEMMA GoverningMain ==
    ASSUME Base, Ownership', Enrolled, Governing, NEW p \in Processes, MainStep(p)
    PROVE  Governing'
<1> USE DEF Goto, feedVars, dirVars
<1>0. ManagerTypeOK /\ Ownership
    BY Zenon DEF Base
<1>1. CASE ChooseFeed(p)
    <2>1. CASE governed
        <3>1. "feeds" \in files
            BY <2>1, Zenon DEF Enrolled
        <3>2. PICK f \in FeedChoices(flag[p]) : configured' = [configured EXCEPT ![p] = f # "none"]
            BY Zenon, <1>1 DEF ChooseFeed
        <3>3. f # "none"
            BY <3>1, <3>2, Zenon DEF FeedChoices
        <3>4. configured'[p]
            BY Zenon, <1>0, <3>2, <3>3 DEF ManagerTypeOK
        <3>5. lock' = p
            BY Zenon, <1>0, <1>1 DEF ChooseFeed, Ownership, Holding
        <3> QED
            BY <3>4, <3>5, GoverningPublished, Zenon
    <2>2. CASE ~ governed
        BY Zenon, <1>1, <2>2 DEF ChooseFeed, Governing
    <2> QED
        BY <2>1, <2>2, Zenon
<1>2. CASE OpenFeeds(p)
    <2>1. pc[p] \in Choosing /\ \A q \in Processes : q # p => pc'[q] = pc[q]
        BY <1>0, <1>2, Zenon DEF OpenFeeds, Choosing, Listening, ManagerTypeOK
    <2>2. CASE configured[p]
        <3>1. lock' = p /\ configured'[p]
            BY Zenon, <1>0, <1>2, <2>2 DEF OpenFeeds, Ownership, Holding, Listening
        <3> QED
            BY <3>1, GoverningPublished, Zenon
    <2>3. CASE ~ configured[p]
        BY <1>2, <2>1, <2>3, GoverningQuiet, Zenon DEF OpenFeeds
    <2> QED
        BY <2>2, <2>3, Zenon
<1>3. CASE ~ ChooseFeed(p) /\ ~ OpenFeeds(p)
    <2>1. UNCHANGED <<governed, policy, configured>>
        BY <1>3, MainFrame, Zenon
    <2>2. \A q \in Processes : pc'[q] \in Choosing => pc[q] \in Choosing
        <3>1. \E to : pc' = [pc EXCEPT ![p] = to] /\ (to \in Choosing => pc[p] \in Choosing)
            <4>1. CASE AddListener(p) \/ StartServers(p)
                BY <4>1, Zenon DEF AddListener, StartServers, Choosing, Listening
            <4>2. CASE BootFails(p) \/ HoldLock(p) \/ FeedRefused(p)
                BY <4>2, Zenon DEF BootFails, HoldLock, FeedRefused, Choosing, Listening
            <4>3. CASE StopAdmission(p)
                BY <4>3, Zenon DEF StopAdmission, CloseStep, Choosing, Listening
            <4>4. CASE Shutdown(p) \/ JoinRequests(p) \/ JoinBackground(p) \/ CloseReceivers(p)
                       \/ RemoveEndpoints(p) \/ Unlock(p)
                BY Zenon, <4>4 DEF Shutdown, JoinRequests, JoinBackground, CloseReceivers,
                    RemoveEndpoints, Unlock, CloseStep, Choosing, Listening
            <4> QED
                BY <1>3, <4>1, <4>2, <4>3, <4>4, Zenon DEF MainStep
        <3> QED
            BY <1>0, <3>1, Zenon DEF ManagerTypeOK
    <2> QED
        BY <2>1, <2>2, GoverningQuiet, Zenon
<1> QED
    BY <1>1, <1>2, <1>3, Zenon

(* A step of a handler or of its client does not either.                   *)
LEMMA GoverningRequest ==
    ASSUME Base, Ownership', Unbegun, Governing, NEW r \in Requests, HandlerStep(r) \/ ClientStep(r)
    PROVE  Governing'
<1> USE DEF processVars, feedVars, dirVars
<1>0. ManagerTypeOK /\ Ownership
    BY Zenon DEF Base
<1>1. CASE SyncActivate(r)
    <2>1. req[r].proc \in Processes /\ lock = req[r].proc
        BY Zenon, <1>0, <1>1 DEF SyncActivate, At, Unbegun, ManagerTypeOK, Request, Ownership
    <2>2. PICK published \in BOOLEAN :
             /\ policy' = [policy EXCEPT ![req[r].proc] = @ \/ published]
             /\ governed' = (governed \/ published)
        BY Zenon, <1>1 DEF SyncActivate
    <2>3. CASE published
        <3>1. policy'[req[r].proc]
            BY Zenon, <1>0, <2>1, <2>2, <2>3 DEF ManagerTypeOK
        <3> QED
            BY Zenon, <1>1, <2>1, <3>1, GoverningPublished DEF SyncActivate
    <2>4. CASE ~ published
        <3>1. governed' = governed
            BY <1>0, <2>2, <2>4, Zenon DEF ManagerTypeOK
        <3>2. \A p \in Processes : policy[p] => policy'[p]
            BY <1>0, <2>1, <2>2, Zenon DEF ManagerTypeOK
        <3> QED
            BY Zenon, <1>1, <3>1, <3>2, GoverningQuiet DEF SyncActivate
    <2> QED
        BY <2>3, <2>4, Zenon
<1>2. CASE StartReceiver(r)
    <2>1. \A p \in Processes : configured[p] => configured'[p]
        BY <1>0, <1>2, Zenon DEF StartReceiver, ManagerTypeOK
    <2> QED
        BY Zenon, <1>2, <2>1, GoverningQuiet DEF StartReceiver
<1>3. CASE ~ SyncActivate(r) /\ ~ StartReceiver(r)
    <2>1. UNCHANGED <<governed, pc, policy, configured>>
        BY <1>3, RequestFrame, Zenon
    <2> QED
        BY <2>1, GoverningQuiet, Zenon
<1> QED
    BY <1>1, <1>2, <1>3, Zenon

(* No step of the managers leaves one ungoverned.                          *)
LEMMA GoverningKept ==
    ASSUME Base, Unbegun, Enrolled, Governing, [ManagerNext]_managerVars
    PROVE  Governing'
<1> USE DEF Goto, feedVars, dirVars
<1>0. ManagerTypeOK /\ Ownership /\ Ownership'
    BY OwnershipKept, Zenon DEF Base
<1>1. ASSUME NEW p \in Processes, TaskStep(p)
      PROVE  Governing'
    BY Zenon, <1>1, GoverningQuiet DEF TaskStep, FeedEnds, PullEnds
<1>2. ASSUME NEW p \in Processes, FeedApplies(p)
      PROVE  Governing'
    <2>1. lock' = p /\ policy'[p]
        BY <1>0, <1>2, Zenon DEF FeedApplies, Ownership, ManagerTypeOK
    <2> QED
        BY <1>0, <2>1, GoverningPublished, Zenon
<1>3. ASSUME NEW p \in Processes, NEW f \in {"none", "staged", "other"},
             ServeEnds(p) \/ Launch(p, f) \/ Crash(p)
      PROVE  Governing'
    <2>1. \A q \in Processes : pc'[q] \in Choosing => pc[q] \in Choosing
        BY <1>0, <1>3 DEF ServeEnds, Launch, Crash, ManagerTypeOK, Choosing, Listening
    <2> QED
        BY <1>3, <2>1, GoverningQuiet, Zenon DEF ServeEnds, Launch, Crash
<1>4. CASE UNCHANGED managerVars
    BY Zenon, <1>4, GoverningQuiet DEF managerVars, processVars
<1> QED
    BY <1>0, <1>1, <1>2, <1>3, <1>4, GoverningMain, GoverningRequest, Zenon DEF ManagerNext


-----------------------------------------------------------------------------
(* The store under the manager.                                            *)

(* A step of the manager uses its store, or loses it.                      *)
LEMMA StoreUse == ASSUME [ManagerNext]_managerVars PROVE [Next]_vars \/ StoreLost
<1>1. ASSUME NEW p \in Processes, MainStep(p)
      PROVE  UNCHANGED vars \/ StoreLost
    BY <1>1, MainFrame, Zenon
<1>2. ASSUME NEW p \in Processes, TaskStep(p)
      PROVE  [Next]_vars
    BY <1>2, Zenon DEF TaskStep, FeedEnds, PullEnds, Finish, OwnedRunning, Next
<1>3. ASSUME NEW p \in Processes, NEW f \in {"none", "staged", "other"},
             FeedApplies(p) \/ ServeEnds(p) \/ Crash(p) \/ Launch(p, f)
      PROVE  UNCHANGED vars \/ StoreLost
    BY <1>3, Zenon DEF FeedApplies, ServeEnds, Crash, Launch
<1>4. ASSUME NEW r \in Requests, HandlerStep(r)
      PROVE  [Next]_vars
    <2>1. ASSUME NEW k \in Keys \cup {NoKey}, NEW f \in Fingerprints,
                 BeginOperation(r, k, f)
          PROVE  [Next]_vars
        BY <2>1, Zenon DEF BeginOperation, Next
    <2>2. CASE CallFails(r) \/ CompleteCall(r) \/ PullRefused(r)
        BY <2>2, Zenon DEF CallFails, CompleteCall, PullRefused, FinishOperation, Finish,
            OwnedRunning, Terminal, Next
    <2>3. CASE OpenStream(r) \/ StreamEvent(r) \/ StreamOver(r)
        BY <2>3, Zenon DEF OpenStream, StreamEvent, StreamOver, EndStream, Unsubscribe, Next
    <2>4. CASE Answered(r) \/ AdmitCall(r) \/ StartPull(r) \/ OpenSession(r) \/ SessionOver(r)
               \/ PrepareEnrollment(r) \/ InstallEnrollment(r) \/ BeginActivate(r)
               \/ SyncActivate(r) \/ MarkActivated(r) \/ AttachReceiver(r) \/ StartReceiver(r)
        BY <2>4, Zenon DEF Answered, AdmitCall, StartPull, OpenSession, SessionOver, EndSession,
            PrepareEnrollment, InstallEnrollment, BeginActivate, SyncActivate,
            MarkActivated, AttachReceiver, StartReceiver
    <2> QED
        BY <1>4, <2>1, <2>2, <2>3, <2>4, Zenon DEF HandlerStep
<1>5. ASSUME NEW r \in Requests, ClientStep(r)
      PROVE  [Next]_vars
    BY <1>5, Zenon DEF ClientStep, Accept, EndStream, EndSession, Unsubscribe, Next
<1>6. CASE UNCHANGED managerVars
    BY <1>6, Zenon DEF managerVars
<1> QED
    BY <1>1, <1>2, <1>3, <1>4, <1>5, <1>6, Zenon DEF ManagerNext

StoreInv == Consistent /\ GapFree

(* The store of a manager that starts has nothing in it.                   *)
LEMMA LostStoreFresh == ASSUME StoreLost PROVE StoreInv'
<1>1. TypeOK'
    BY DEF StoreLost, TypeOK
<1>2. OrderMatchesRecords' /\ RoutingMatchesRecords' /\ GapFree'
    BY DEF StoreLost, OrderMatchesRecords, RoutingMatchesRecords, GapFree
<1> QED
    BY <1>1, <1>2, Zenon DEF StoreInv, Consistent

(* The invariant of the store survives every step of the managers.         *)
LEMMA StoreInvKept == ASSUME StoreInv, [ManagerNext]_managerVars PROVE StoreInv'
<1>1. CASE [Next]_vars
    BY <1>1, NextConsistent, NextGapFree, Zenon DEF StoreInv, Consistent
<1> QED
    BY <1>1, StoreUse, LostStoreFresh, Zenon

(* The store starts consistent.                                            *)
LEMMA StoreInvInit == ASSUME ManagerInit PROVE StoreInv
<1>1. New
    BY Zenon DEF ManagerInit
<1>2. GapFree
    BY <1>1 DEF New, GapFree
<1> QED
    BY <1>1, <1>2, InitConsistent, Zenon DEF StoreInv

(* Records, routing and streams agree in every manager, whatever crashes.  *)
THEOREM ManagerStoreConsistent == ManagerSpec => []StoreConsistent
<1>1. StoreInv => StoreConsistent
    BY Zenon DEF StoreInv, Consistent, StoreConsistent
<1> QED
    BY <1>1, StoreInvInit, StoreInvKept, PTL DEF ManagerSpec

(* While its process lives no operation is lost or changes its outcome.    *)
THEOREM ManagerKeepsOutcomes == ManagerSpec => OutcomesKept
<1>1. ASSUME StoreInv, [ManagerNext]_managerVars
      PROVE  nextGeneration' # 0 => Stable
    BY <1>1, StoreUse, NextStable, Zenon DEF StoreInv, StoreLost
<1> QED
    BY <1>1, StoreInvInit, StoreInvKept, PTL DEF ManagerSpec, OutcomesKept

-----------------------------------------------------------------------------
(* Ownership, running operations and policy feeds.                         *)

(* The types and the ownership hold in every reachable state.              *)
LEMMA BaseHolds == ManagerSpec => [](StoreInv /\ Base)
<1>1. StoreInv => TypeOK
    BY Zenon DEF StoreInv, Consistent
<1>2. ManagerInit => StoreInv /\ Base
    BY <1>1, StoreInvInit, ManagerInitTyped, OwnershipInit, Zenon DEF Base
<1>3. StoreInv /\ Base /\ [ManagerNext]_managerVars => (StoreInv /\ Base)'
    <2>1. ASSUME StoreInv, [ManagerNext]_managerVars
          PROVE  StoreInv' /\ TypeOK'
        BY <2>1, StoreInvKept, Zenon DEF StoreInv, Consistent
    <2> QED
        BY <2>1, BaseKept, Zenon
<1> QED
    BY <1>2, <1>3, PTL DEF ManagerSpec

(* A manager has requests, tasks, receivers and listeners only while it    *)
(* holds the lock, for any number of processes that start, stop and die.   *)
THEOREM OwnershipProved == ManagerSpec => []OwnedUntilReleased
<1>1. Base => OwnedUntilReleased
    BY Zenon, NoneIsNone DEF Base, Ownership, OwnedUntilReleased, Holding
<1> QED
    BY <1>1, BaseHolds, PTL

(* Every running operation has somebody who will finish it.                *)
THEOREM NobodyOrphaned == ManagerSpec => []NoOrphans
<1>1. ManagerInit => Unbegun /\ NoOrphans
    BY DEF ManagerInit, New, Unbegun, NoOrphans, Free
<1>2. Base /\ Unbegun /\ NoOrphans /\ [ManagerNext]_managerVars => (Unbegun /\ NoOrphans)'
    BY UnbegunKept, OrphansKept, Zenon
<1> QED
    BY <1>1, <1>2, BaseHolds, PTL DEF ManagerSpec

(* No operation is left behind, no key misrouted and no stream has a gap.  *)
THEOREM OperationsStaySound == ManagerSpec => []OperationsSound
    BY ManagerStoreConsistent, NobodyOrphaned, PTL DEF OperationsSound

(* Once governed, a manager of this state directory stays governed over    *)
(* every crash and every restart.                                          *)
THEOREM GovernedForGood == ManagerSpec => []StaysGoverned
<1> DEFINE Inv == Unbegun /\ Enrolled /\ Governing
<1>1. ManagerInit => Inv
    BY DEF ManagerInit, Unbegun, Enrolled, Governing, Free
<1>2. Base /\ Inv /\ [ManagerNext]_managerVars => Inv'
    BY UnbegunKept, EnrolledKept, GoverningKept, Zenon
<1>3. Inv => StaysGoverned
    BY Zenon DEF Enrolled, Governing, StaysGoverned, Installed, Choosing, Listening
<1> QED
    BY <1>1, <1>2, <1>3, BaseHolds, PTL DEF ManagerSpec
-----------------------------------------------------------------------------
(* Capacity.                                                               *)

(* The library's facts about finite sets, needed from here on only,        *)
FST == INSTANCE FiniteSetTheorems

(* whose finite sets are the ones of this module.                          *)
LEMMA SameFinite == \A S : FST!IsFiniteSet(S) <=> IsFiniteSet(S)
    BY Zenon DEF FST!IsFiniteSet, IsFiniteSet

(* The same of their cardinalities.                                        *)
LEMMA SameCardinality == \A S : FST!Cardinality(S) = Cardinality(S)
    BY Zenon DEF FST!Cardinality, Cardinality

(* Only finitely many operations are retained.                             *)
LEMMA RecordsFinite == TypeOK => IsFiniteSet(DOMAIN records)
<1> SUFFICES ASSUME TypeOK PROVE IsFiniteSet(DOMAIN records)
    BY Zenon
<1>1. nextGeneration \in Nat /\ DOMAIN records \in SUBSET (1..nextGeneration)
    BY Zenon DEF TypeOK
<1>2. IsFiniteSet(1..nextGeneration)
    BY <1>1, FST!FS_Interval, SameFinite
<1> QED
    BY <1>1, <1>2, FST!FS_Subset, SameFinite, Zenon

(* Begin evicts before it admits, so no operation exceeds the capacity.    *)
LEMMA NextCapacity == CapacityKept /\ Consistent /\ [Next]_vars => CapacityKept'
<1> SUFFICES ASSUME CapacityKept, Consistent, [Next]_vars PROVE CapacityKept'
    BY Zenon
<1> DEFINE D == DOMAIN records
           id == nextGeneration + 1
<1>1. IsFiniteSet(D) /\ Cardinality(D) \in Nat /\ id \notin D /\ MaxOperations \in Nat
    BY RecordsFinite, FST!FS_CardinalityType, SameFinite, SameCardinality, LimitsPositive DEF Consistent, TypeOK
<1>2. ASSUME NEW k \in Keys \cup {NoKey}, NEW f \in Fingerprints, BeginFree(k, f)
      PROVE  CapacityKept'
    <2>1. DOMAIN records' = D \cup {id} /\ Cardinality(D) < MaxOperations
        BY <1>2, Zenon DEF BeginFree, Admit, With
    <2>2. Cardinality(D \cup {id}) = Cardinality(D) + 1
        BY <1>1, FST!FS_AddElement, SameFinite, SameCardinality, Zenon
    <2> QED
        BY <1>1, <2>1, <2>2 DEF CapacityKept
<1>3. ASSUME NEW k \in Keys \cup {NoKey}, NEW f \in Fingerprints, BeginEvicting(k, f)
      PROVE  CapacityKept'
    <2>1. PICK i \in 1..Len(order) : DOMAIN records' = (D \ {order[i]}) \cup {id}
        BY <1>3, Zenon DEF BeginEvicting, Admit, With, Without
    <2>2. order[i] \in D
        BY Zenon DEF Consistent, OrderMatchesRecords
    <2>3. IsFiniteSet(D \ {order[i]}) /\ Cardinality(D \ {order[i]}) = Cardinality(D) - 1
        BY <1>1, <2>2, FST!FS_RemoveElement, SameFinite, SameCardinality, Zenon
    <2>4. Cardinality((D \ {order[i]}) \cup {id}) = Cardinality(D \ {order[i]}) + 1
        BY <1>1, <2>3, FST!FS_AddElement, SameFinite, SameCardinality, Zenon
    <2>5. Cardinality(DOMAIN records') = Cardinality(D)
        BY <1>1, <2>1, <2>3, <2>4
    <2> QED
        BY <2>5, Zenon DEF CapacityKept
<1>4. ASSUME NEW x \in DOMAIN records, NEW phase \in Terminal, Finish(x, phase)
      PROVE  CapacityKept'
    BY <1>4, Zenon DEF Finish, CapacityKept
<1>5. CASE UNCHANGED storeVars
    BY <1>5, Zenon DEF storeVars, CapacityKept
<1> QED
    BY <1>2, <1>3, <1>4, <1>5, Zenon
    DEF Next, Begin, Subscribe, Unsubscribe, Receive, vars

(* The store never retains more than maxOperations records.                *)
THEOREM CapacityBounded == Spec => []CapacityKept
<1>1. New => CapacityKept
    BY FST!FS_EmptySet, SameCardinality, LimitsPositive DEF New, CapacityKept
<1> QED
    BY <1>1, InitConsistent, NextConsistent, NextCapacity, PTL DEF Spec
=============================================================================
