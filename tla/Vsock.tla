-------------------------------- MODULE Vsock --------------------------------
(***************************************************************************)
(* The virtio-vsock device: streams between a guest driver and host        *)
(* sockets.  Everything bound for the guest goes through one bounded FIFO  *)
(* (pending), which tryFlush moves into the buffers the driver posted; the *)
(* FIFO waits while its head lacks credit or a buffer.                     *)
(*                                                                         *)
(* Every section of core.mu is one step; in between, each connection has   *)
(* two goroutines that work off the lock, pumpHost (socket to FIFO) and    *)
(* pumpOut (outQ to socket).  A payload is one unit of credit, numbered in *)
(* the order it was written, and the counters of the wire protocol wrap at *)
(* Modulus (2^32).  Connection keys are not reused.  The driver, of a      *)
(* guest that keeps to the protocol, and the programs behind the sockets   *)
(* are external.                                                           *)
(***************************************************************************)
EXTENDS Integers, FiniteSets, SequencesExt

CONSTANTS Keys,       \* connection keys
          HostKeys,   \* those of connections the host opens (InjectConn)
          BufAlloc,   \* vsockBufAlloc: the credit the device grants
          GuestAlloc, \* the credit the guest grants
          Modulus,
          Capacity,   \* pendingRingCapacity
          Reserve,    \* vsockControlReserve
          OutQMax,    \* vsockOutQMaxPackets
          RxNum,      \* descriptors of the rx queue
          TxNum,      \* descriptors of the tx queue
          RxSizes,    \* buffers the guest posts: "whole" or "header" only
          Loads       \* bounds: [host, guest, ends], the payloads written on each
                      \* connection (one without a payload is not opened) and how
                      \* often connections end by their programs or by a reset

ASSUME VsockShape ==
    /\ HostKeys \subseteq Keys /\ RxSizes \subseteq {"whole", "header"}
    /\ Modulus \in Nat /\ BufAlloc \in 1..(Modulus - 1) /\ GuestAlloc \in 1..(Modulus - 1)
    /\ Reserve \in Nat /\ Capacity \in Nat /\ Reserve < Capacity
    /\ OutQMax \in Nat \ {0} /\ RxNum \in Nat \ {0} /\ TxNum \in Nat \ {0}

VARIABLES phase,  \* of the device: "up", "halted", "closing", "waiting", "closed"
          dev,    \* what core.mu guards: [pending, misses, conn, dropped]
          host,   \* k -> the program at the socket's other end
          guest,  \* k -> the driver's socket
          txq,    \* packets the driver made available
          rxq,    \* buffers the driver made available
          ends,   \* ends still to come
          kicked  \* the driver posted a buffer and has not notified yet

vars == <<phase, dev, host, guest, txq, rxq, kicked, ends>>

Ends == ends > 0 /\ ends' = ends - 1

Slots == 0..(Capacity - 1)
NoSlot == Capacity
NoPacket == [op |-> "none"]
Plus(a, b) == (a + b) % Modulus
Minus(a, b) == (a - b) % Modulus

conn == dev.conn
Live(c) == c.at \in {"requested", "open"}
Open(k) == Live(conn[k])

Wanted(k) == host[k].limit + guest[k].limit > 0

NoSocket == [at |-> "closed", sent |-> 0, fwd |-> 0, got |-> <<>>, read |-> 0, asked |-> 0, limit |-> 0]

NoPending == [slots |-> [s \in Slots |-> NoPacket], head |-> 0, count |-> 0,
              credit |-> [k \in Keys |-> NoSlot]]

Init ==
    /\ phase = "up"
    /\ dev = [pending |-> NoPending, misses |-> 0, dropped |-> {},
              conn |-> [k \in Keys |-> [at |-> "none", tx |-> 0, rx |-> 0, peerFwd |-> 0, guestTx |-> 0,
                                        outQ |-> <<>>, held |-> 0, shutdown |-> FALSE, sig |-> FALSE,
                                        out |-> "off", in |-> "off"]]]
    /\ \E load \in Loads :
         /\ ends = load.ends
         /\ host = [k \in Keys |-> [open |-> TRUE, sent |-> 0, got |-> <<>>, limit |-> load.host[k]]]
         /\ guest = [k \in Keys |-> [NoSocket EXCEPT !.at = "none", !.limit = load.guest[k]]]
    /\ txq = <<>> /\ rxq = <<>> /\ kicked = FALSE

--------------------------------------------------------------------------------
(* The bounded FIFO: pendingRing and pendingCredit.                        *)

Back(r) == (r.head + r.count) % Capacity
Used(r) == {(r.head + i) % Capacity : i \in 0..(r.count - 1)}
HeadOf(r) == r.slots[r.head]
Limit(op) == IF op = "rw" THEN Capacity - Reserve ELSE Capacity

(* The CREDIT_UPDATE of p's connection is still queued.                    *)
Coalesces(r, p) ==
    /\ p.op = "credit" /\ r.credit[p.key] # NoSlot
    /\ LET old == r.slots[r.credit[p.key]] IN old.op = "credit" /\ old.key = p.key

Admits(r, p) == Coalesces(r, p) \/ r.count < Limit(p.op)

queuePending(r, p) ==
    LET index(slot) == IF p.op = "credit" THEN [r.credit EXCEPT ![p.key] = slot] ELSE r.credit
    IN  IF Coalesces(r, p) THEN [r EXCEPT !.slots[r.credit[p.key]] = p]
        ELSE IF ~Admits(r, p) THEN [r EXCEPT !.credit = index(NoSlot)]
        ELSE [r EXCEPT !.slots[Back(r)] = p, !.count = @ + 1, !.credit = index(Back(r))]

popPending(r) ==
    LET p == HeadOf(r)
    IN  [r EXCEPT !.slots[r.head] = NoPacket, !.head = (@ + 1) % Capacity, !.count = @ - 1,
                  !.credit = IF p.op = "credit" /\ @[p.key] = r.head
                             THEN [@ EXCEPT ![p.key] = NoSlot] ELSE @]

(* Popping broadcasts spaceSig once a payload fits again.                  *)
Popped(d) ==
    LET r == popPending(d.pending)
    IN  [d EXCEPT !.pending = r,
                  !.conn = [k \in Keys |-> IF @[k].in = "parked" /\ r.count < Capacity - Reserve
                                           THEN [@[k] EXCEPT !.in = "have"] ELSE @[k]]]

Packet(op, k, fwd) == [op |-> op, key |-> k, fwd |-> fwd]

(* Mutated: closing leaves a parked pumpHost asleep.                       *)
ClosedSilently(c) == [c EXCEPT !.at = "closed", !.tx = 0, !.peerFwd = 0, !.guestTx = 0]

(* What closing does to a connection: done wakes a parked pumpHost, and    *)
(* the counters are not looked at again.                                   *)
Closed(c) ==
    [c EXCEPT !.at = "closed", !.tx = 0, !.peerFwd = 0, !.guestTx = 0,
              !.in = IF @ = "parked" THEN "have" ELSE @]

--------------------------------------------------------------------------------
(* tryFlush on a device d with guest sockets g and posted buffers rx, as   *)
(* f = [d, g, rx]: each buffer is tried in turn.                           *)

(* Mutated: one unit more than the guest granted.                          *)
CreditAndOne(c) ==
    LET inFlight == Minus(c.tx, c.peerFwd)
    IN  IF inFlight > GuestAlloc THEN 0 ELSE GuestAlloc + 1 - inFlight

peerCredit(c) ==
    LET inFlight == Minus(c.tx, c.peerFwd)
    IN  IF inFlight >= GuestAlloc THEN 0 ELSE GuestAlloc - inFlight

Stalled(d) ==
    \/ d.pending.count = 0
    \/ LET p == HeadOf(d.pending) IN p.op = "rw" /\ Live(d.conn[p.key]) /\ peerCredit(d.conn[p.key]) < 1

(* What the driver does with a packet.                                     *)
Received(g, p) ==
    LET seen == [g EXCEPT !.fwd = p.fwd]
    IN  CASE p.op = "request" -> [g EXCEPT !.at = "asked"]
          [] p.op = "response" /\ g.at = "connecting" -> [seen EXCEPT !.at = "open"]
          [] p.op = "rw" /\ g.at = "open" -> [seen EXCEPT !.got = Append(@, p.unit)]
          [] p.op = "credit" /\ g.at \in {"open", "closing"} -> seen
          [] p.op = "rst" -> [g EXCEPT !.at = "closed"]
          [] p.op \in {"response", "rw"} /\ g.at = "closed" -> [g EXCEPT !.at = "refusing"]
          [] OTHER -> g

(* After more misses than the ring has buffers the payload is dropped and  *)
(* its connection reset.                                                   *)
rxMiss(d) ==
    LET k == HeadOf(d.pending).key
        rest == [Popped(d) EXCEPT !.misses = 0, !.dropped = @ \cup {k}]
    IN  IF d.misses + 1 <= RxNum THEN [d EXCEPT !.misses = @ + 1]
        ELSE IF ~Live(d.conn[k]) THEN rest
        ELSE [rest EXCEPT !.conn[k] = Closed(@), !.pending = queuePending(@, Packet("rst", k, d.conn[k].rx))]

Carried(d) ==
    LET p == HeadOf(d.pending)
        sent == IF p.op = "rw" /\ Live(d.conn[p.key]) THEN [d EXCEPT !.conn[p.key].tx = Plus(@, 1)] ELSE d
    IN  [Popped(sent) EXCEPT !.misses = 0]

TryBuffer(f, size) ==
    LET p == HeadOf(f.d.pending)
    IN  IF Stalled(f.d) THEN [f EXCEPT !.rx = Append(@, size)]
        ELSE IF p.op = "rw" /\ size = "header" THEN [f EXCEPT !.d = rxMiss(@)]
        ELSE [f EXCEPT !.d = Carried(@), !.g[p.key] = Received(@, p)]

tryFlush(f) == FoldLeft(TryBuffer, [f EXCEPT !.rx = <<>>], f.rx)

(* Queue a packet for the guest and flush if it was admitted.              *)
Enqueue(f, p) ==
    LET queued == [f EXCEPT !.d.pending = queuePending(@, p)]
    IN  IF Admits(f.d.pending, p) THEN tryFlush(queued) ELSE queued

enqueueCtrl(f, op, k) ==
    Enqueue(f, Packet(op, k, IF Live(f.d.conn[k]) THEN f.d.conn[k].rx ELSE 0))

closeConn(f, k) ==
    IF ~Live(f.d.conn[k]) THEN f
    ELSE Enqueue([f EXCEPT !.d.conn[k] = Closed(@)], Packet("rst", k, f.d.conn[k].rx))

(* One section of core.mu that turns the state into f.                     *)
Now == [d |-> dev, g |-> guest, rx |-> rxq]
Becomes(f) == dev' = f.d /\ guest' = f.g /\ rxq' = f.rx

--------------------------------------------------------------------------------
(* handleTx: every packet the driver made available.  refused are the host *)
(* ports that cannot be dialled.                                           *)

Peer(f, p) == [f EXCEPT !.d.conn[p.key].peerFwd = p.fwd]

(* Without a slot for the RESPONSE the new connection is dropped.          *)
TxRequest(f, p, refused) ==
    LET started == [Peer(f, p) EXCEPT !.d.conn[p.key].at = "open", !.d.conn[p.key].out = "check",
                                      !.d.conn[p.key].in = "read"]
    IN  IF f.d.conn[p.key].at # "none" \/ p.key \in refused THEN enqueueCtrl(f, "rst", p.key)
        ELSE IF Admits(f.d.pending, Packet("response", p.key, 0)) THEN enqueueCtrl(started, "response", p.key)
        ELSE [f EXCEPT !.d.conn[p.key] = Closed(@)]

Beyond(c) == Minus(c.guestTx, c.rx) > BufAlloc \/ Len(c.outQ) + 1 > BufAlloc \/ Len(c.outQ) >= OutQMax

TxRw(f, p) ==
    LET counted == [Peer(f, p) EXCEPT !.d.conn[p.key].guestTx = Plus(@, 1)]
    IN  IF ~Live(f.d.conn[p.key]) THEN enqueueCtrl(f, "rst", p.key)
        ELSE IF Beyond(counted.d.conn[p.key]) THEN closeConn(counted, p.key)
        ELSE [counted EXCEPT !.d.conn[p.key].outQ = Append(@, p.unit), !.d.conn[p.key].sig = TRUE]

TxResponse(f, p) ==
    IF f.d.conn[p.key].at # "requested" THEN f
    ELSE [Peer(f, p) EXCEPT !.d.conn[p.key].at = "open", !.d.conn[p.key].in = "read"]

TxCreditReq(f, p) == IF Live(f.d.conn[p.key]) THEN enqueueCtrl(Peer(f, p), "credit", p.key) ELSE f

(* Mutated: new credit waits for the next packet to be noticed.            *)
CreditUnused(f, p) == IF Live(f.d.conn[p.key]) THEN Peer(f, p) ELSE f

TxCredit(f, p) == IF Live(f.d.conn[p.key]) THEN tryFlush(Peer(f, p)) ELSE f

(* Mutated: the connection closes before its last payloads are written.    *)
ShutdownAtOnce(f, p) == closeConn(f, p.key)

TxShutdown(f, p) ==
    IF Live(f.d.conn[p.key])
    THEN [f EXCEPT !.d.conn[p.key].shutdown = TRUE, !.d.conn[p.key].sig = TRUE] ELSE f

TxRst(f, p) == IF Live(f.d.conn[p.key]) THEN [f EXCEPT !.d.conn[p.key] = Closed(@)] ELSE f

handleTx(refused) ==
    LET step(f, p) ==
          CASE p.op = "request" -> TxRequest(f, p, refused)
            [] p.op = "rw" -> TxRw(f, p)
            [] p.op = "response" -> TxResponse(f, p)
            [] p.op = "creditreq" -> TxCreditReq(f, p)
            [] p.op = "credit" -> TxCredit(f, p)
            [] p.op = "shutdown" -> TxShutdown(f, p)
            [] p.op = "rst" -> TxRst(f, p)
    IN  /\ phase = "up" /\ txq # <<>>
        /\ Becomes(FoldLeft(step, Now, txq))
        /\ txq' = <<>>
        /\ UNCHANGED <<phase, host, kicked, ends>>

handleRx ==
    /\ phase = "up" /\ kicked
    /\ Becomes(tryFlush(Now))
    /\ kicked' = FALSE
    /\ UNCHANGED <<phase, host, txq, ends>>

--------------------------------------------------------------------------------
(* pumpOut: outQ to the socket, written off the lock.                      *)

Out(f, k, step) == [f EXCEPT !.d.conn[k].out = step]
OffLock == UNCHANGED <<phase, guest, txq, rxq, kicked, ends>>
OnLock == UNCHANGED <<phase, host, txq, kicked, ends>>

pumpOutTake(k) ==
    /\ conn[k].out = "check"
    /\ \/ conn[k].outQ = <<>> /\ conn[k].shutdown /\ Open(k) /\ Becomes(closeConn(Out(Now, k, "done"), k))
       \/ conn[k].outQ = <<>> /\ ~(conn[k].shutdown /\ Open(k)) /\ Becomes(Out(Now, k, "wait"))
       \/ /\ conn[k].outQ # <<>>
          /\ Becomes([Out(Now, k, "write") EXCEPT !.d.conn[k].held = Head(conn[k].outQ),
                                                  !.d.conn[k].outQ = Tail(conn[k].outQ)])
    /\ OnLock

pumpOutWake(k) ==
    /\ conn[k].out = "wait"
    /\ \/ conn[k].sig /\ dev' = [dev EXCEPT !.conn[k].sig = FALSE, !.conn[k].out = "check"]
       \/ conn[k].at = "closed" /\ dev' = [dev EXCEPT !.conn[k].out = "done"]
    /\ OffLock /\ UNCHANGED host

(* The write ends: the program took the payload, or the socket is closed.  *)
SocketWrite(k) ==
    /\ conn[k].out = "write"
    /\ IF Open(k) /\ host[k].open
       THEN /\ dev' = [dev EXCEPT !.conn[k].out = "credit"]
            /\ host' = [host EXCEPT ![k].got = Append(@, conn[k].held)]
       ELSE dev' = [dev EXCEPT !.conn[k].out = "failed"] /\ UNCHANGED host
    /\ OffLock

pumpOutCredit(k) ==
    /\ conn[k].out = "credit"
    /\ Becomes(IF Open(k) THEN enqueueCtrl([Out(Now, k, "check") EXCEPT !.d.conn[k].rx = Plus(@, 1)], "credit", k)
               ELSE Out(Now, k, "check"))
    /\ OnLock

pumpOutFail(k) ==
    /\ conn[k].out = "failed"
    /\ Becomes(closeConn(Out(Now, k, "done"), k))
    /\ OnLock

--------------------------------------------------------------------------------
(* pumpHost: the socket to the FIFO.                                       *)

In(f, k, step) == [f EXCEPT !.d.conn[k].in = step]

SocketRead(k) ==
    /\ conn[k].in = "read"
    /\ \/ /\ Open(k) /\ host[k].open /\ host[k].sent < host[k].limit
          /\ host' = [host EXCEPT ![k].sent = @ + 1]
          /\ dev' = [dev EXCEPT !.conn[k].in = "have"]
       \/ /\ ~(Open(k) /\ host[k].open)
          /\ dev' = [dev EXCEPT !.conn[k].in = "failed"] /\ UNCHANGED host
    /\ OffLock

Data(k) == [op |-> "rw", key |-> k, fwd |-> conn[k].rx, unit |-> host[k].sent]

pumpHostQueue(k) ==
    /\ conn[k].in = "have"
    /\ \/ ~Open(k) /\ Becomes(In(Now, k, "done"))
       \/ Open(k) /\ ~Admits(dev.pending, Data(k)) /\ Becomes(In(Now, k, "parked"))
       \/ Open(k) /\ Admits(dev.pending, Data(k)) /\ Becomes(Enqueue(In(Now, k, "read"), Data(k)))
    /\ OnLock

pumpHostFail(k) ==
    /\ conn[k].in = "failed"
    /\ Becomes(closeConn(In(Now, k, "done"), k))
    /\ OnLock

InjectConn(k) ==
    /\ phase \in {"up", "halted"} /\ conn[k].at = "none" /\ Wanted(k)
    /\ Admits(dev.pending, Packet("request", k, 0))
    /\ Becomes(enqueueCtrl([Out(Now, k, "check") EXCEPT !.d.conn[k].at = "requested"], "request", k))
    /\ OnLock

(* The program at the other end closes its socket.                         *)
HostCloses(k) ==
    /\ Open(k) /\ host[k].open
    /\ host' = [host EXCEPT ![k].open = FALSE]
    /\ Ends
    /\ UNCHANGED <<phase, dev, guest, txq, rxq, kicked>>

--------------------------------------------------------------------------------
(* The guest: virtio-vsock driver and the programs using it.               *)

GuestSends(k, g, p) ==
    /\ phase = "up" /\ Len(txq) < TxNum
    /\ guest' = [guest EXCEPT ![k] = g]
    /\ txq' = Append(txq, p)
    /\ UNCHANGED <<phase, dev, host, rxq, kicked>>

GuestDoes(k, g, p) == GuestSends(k, g, p) /\ UNCHANGED ends

(* Every packet carries the guest's fwd_cnt.                               *)
FromGuest(op, k) == Packet(op, k, guest[k].read % Modulus)

GuestConnect(k) ==
    guest[k].at = "none" /\ Wanted(k) /\ GuestDoes(k, [guest[k] EXCEPT !.at = "connecting"], FromGuest("request", k))

GuestAnswer(k) ==
    /\ guest[k].at = "asked"
    /\ \/ GuestDoes(k, [guest[k] EXCEPT !.at = "open"], FromGuest("response", k))
       \/ GuestDoes(k, [guest[k] EXCEPT !.at = "closed"], FromGuest("rst", k))

GuestCredit(k) == BufAlloc - Minus(guest[k].sent, guest[k].fwd)

GuestSend(k) ==
    /\ guest[k].at = "open" /\ guest[k].sent < guest[k].limit /\ GuestCredit(k) > 0
    /\ GuestDoes(k, [guest[k] EXCEPT !.sent = @ + 1],
                 [op |-> "rw", key |-> k, fwd |-> guest[k].read % Modulus, unit |-> guest[k].sent + 1])

(* Once for each time it runs out.                                         *)
GuestAsksCredit(k) ==
    /\ guest[k].at = "open" /\ guest[k].sent < guest[k].limit /\ GuestCredit(k) = 0
    /\ guest[k].asked # guest[k].sent
    /\ GuestDoes(k, [guest[k] EXCEPT !.asked = guest[k].sent], FromGuest("creditreq", k))

(* A program reads a payload; the driver reports the space.                *)
GuestRead(k) ==
    /\ guest[k].at = "open" /\ guest[k].read < Len(guest[k].got)
    /\ GuestDoes(k, [guest[k] EXCEPT !.read = @ + 1], Packet("credit", k, (guest[k].read + 1) % Modulus))

GuestShutdown(k) ==
    guest[k].at = "open" /\ GuestSends(k, [guest[k] EXCEPT !.at = "closing"], FromGuest("shutdown", k)) /\ Ends

(* A close that got no answer in time, or a packet for no socket.          *)
GuestReset(k) ==
    /\ guest[k].at \in {"closing", "refusing"}
    /\ GuestDoes(k, [guest[k] EXCEPT !.at = "closed"], FromGuest("rst", k))

GuestGivesUp(k) ==
    /\ phase = "up" /\ guest[k].at = "connecting"
    /\ guest' = [guest EXCEPT ![k].at = "closed"]
    /\ Ends
    /\ UNCHANGED <<phase, dev, host, txq, rxq, kicked>>

(* The driver posts receive buffers and then notifies the queue.           *)
GuestPosts(size) ==
    /\ phase = "up" /\ Len(rxq) < RxNum
    /\ rxq' = Append(rxq, size) /\ kicked' = TRUE
    /\ UNCHANGED <<phase, dev, host, guest, txq, ends>>

--------------------------------------------------------------------------------
(* Device reset by a rebooting guest, and the end of the machine.          *)

AllClosed == [k \in Keys |-> IF Open(k) THEN Closed(conn[k]) ELSE conn[k]]
NoDriver ==
    /\ guest' = [k \in Keys |-> IF guest[k].at = "none" THEN guest[k] ELSE NoSocket]
    /\ txq' = <<>> /\ rxq' = <<>> /\ kicked' = FALSE

reset ==
    /\ phase = "up"
    /\ dev' = [dev EXCEPT !.conn = AllClosed, !.pending = NoPending, !.misses = 0]
    /\ NoDriver /\ Ends
    /\ UNCHANGED <<phase, host>>

(* The vCPUs have been joined before the devices close (Machine).          *)
Halt ==
    /\ phase = "up" /\ phase' = "halted"
    /\ NoDriver
    /\ UNCHANGED <<dev, host, ends>>

(* Close: closing stops new connections, then every connection is closed   *)
(* and the goroutines are awaited.                                         *)
StartClose ==
    /\ phase = "halted" /\ phase' = "closing"
    /\ UNCHANGED <<dev, host, guest, txq, rxq, kicked, ends>>

CloseConns ==
    /\ phase = "closing" /\ phase' = "waiting"
    /\ dev' = [dev EXCEPT !.conn = AllClosed]
    /\ UNCHANGED <<host, guest, txq, rxq, kicked, ends>>

CloseReturns ==
    /\ phase = "waiting" /\ phase' = "closed"
    /\ \A k \in Keys : conn[k].out \in {"off", "done"} /\ conn[k].in \in {"off", "done"}
    /\ UNCHANGED <<dev, host, guest, txq, rxq, kicked, ends>>

--------------------------------------------------------------------------------
PumpOut(k) == SocketWrite(k) \/ pumpOutWake(k) \/ pumpOutTake(k) \/ pumpOutCredit(k) \/ pumpOutFail(k)
PumpHost(k) == SocketRead(k) \/ pumpHostQueue(k) \/ pumpHostFail(k)
Close == StartClose \/ CloseConns \/ CloseReturns

Next ==
    \/ \E refused \in SUBSET Keys : handleTx(refused)
    \/ handleRx \/ reset \/ Halt \/ Close
    \/ \E k \in Keys : PumpOut(k) \/ PumpHost(k) \/ HostCloses(k)
    \/ \E k \in HostKeys : InjectConn(k) \/ GuestAnswer(k)
    \/ \E k \in Keys \ HostKeys : GuestConnect(k)
    \/ \E k \in Keys : GuestRead(k) \/ GuestSend(k) \/ GuestAsksCredit(k) \/ GuestShutdown(k)
                       \/ GuestReset(k) \/ GuestGivesUp(k)
    \/ \E size \in RxSizes : GuestPosts(size)

Spec == Init /\ [][Next]_vars

(* The vCPU thread runs the handlers and Go runs the goroutines and hands  *)
(* them the mutex.  The guest's programs read what they get, its driver    *)
(* answers and keeps posting buffers that carry a payload, and the         *)
(* programs at the sockets keep reading.  Something of this happens as     *)
(* long as it can; each of it can happen only finitely often.              *)
Work ==
    \/ GuestPosts("whole") \/ Close
    \/ \E k \in Keys : GuestRead(k) \/ (guest[k].at = "refusing" /\ GuestReset(k)) \/ PumpOut(k) \/ PumpHost(k)
    \/ handleRx \/ handleTx({})
Fairness == WF_vars(Work)

FairSpec == Spec /\ Fairness

--------------------------------------------------------------------------------
Upto(n) == [i \in 1..n |-> i]

(* The guest's receive buffer of a live connection never holds more than   *)
(* the guest granted, although the counters wrap and credit arrives late,  *)
(* coalesced with other packets (peerCredit, tryFlush).                    *)
CreditKept == \A k \in Keys : Open(k) => Len(guest[k].got) - guest[k].read <= GuestAlloc

(* The guest reads what the host wrote, in order and without a hole, on    *)
(* every connection except one that was reset over an undeliverable        *)
(* payload (rxMiss).                                                       *)
GuestStream ==
    \A k \in Keys : Open(k) \/ k \notin dev.dropped => guest[k].got = Upto(Len(guest[k].got))

(* The host reads what the guest sent, in order, and a connection that     *)
(* ends with the guest's SHUTDOWN delivers all of it first ("every earlier *)
(* payload reaches nc first").                                             *)
HostStream ==
    \A k \in Keys :
        /\ host[k].got = Upto(Len(host[k].got))
        /\ guest[k].at = "closing" /\ conn[k].at = "closed" /\ host[k].open /\ phase = "up" /\ k \notin dev.dropped
             => Len(host[k].got) = guest[k].sent

(* Both directions of every connection, under stalls, coalesced credit,    *)
(* wrapped counters and half-closes (handleTx, pumpHost, tryFlush).        *)
StreamsIntact == GuestStream /\ HostStream

(* A slow side stalls a healthy stream and never breaks it: while both     *)
(* programs and the machine live, the device resets a connection only over *)
(* an undeliverable payload.  A guest that keeps to its credit is never    *)
(* taken for one that does not.                                            *)
NoSpuriousReset ==
    \A k \in Keys \ dev.dropped :
        guest[k].at = "open" /\ host[k].open /\ phase = "up" => conn[k].at # "closed"

(* The credit of either side is kept to: neither is sent more than it      *)
(* granted, and neither is reset while it keeps to what it was granted.    *)
CreditHonoured == CreditKept /\ NoSpuriousReset

(* What one side wrote the other gets, unless the connection or the        *)
(* machine ends: no stall of the FIFO, full or out of credit, lasts, and   *)
(* no wake-up of a goroutine is lost.                                      *)
Behind(k) == host[k].sent > Len(guest[k].got) \/ guest[k].sent > Len(host[k].got)
StreamsFlow == \A k \in Keys : []<>(~Open(k) \/ phase # "up" \/ ~Behind(k))

(* Close returns: no goroutine stays parked, blocked or asleep.            *)
CloseEnds == phase = "halted" ~> phase = "closed"
================================================================================
