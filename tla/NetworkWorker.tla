---------------------------- MODULE NetworkWorker ----------------------------
(***************************************************************************)
(* The network worker, a child process that enforces the egress policy and *)
(* holds the published ports (networkworker/state.go), and the supervisor  *)
(* that changes both through it (sandbox/networker/worker.go) over one     *)
(* ordered connection whose calls may time out (workerproto).              *)
(*                                                                         *)
(* A call that timed out is not withdrawn: its request is still executed,  *)
(* in its turn, and its answer is thrown away.                             *)
(***************************************************************************)
EXTENDS Integers, Sequences

CONSTANTS Policies, Boot,    \* egress policies, and the one of the bootstrap
          UdpReplies,        \* policies under which UDP ports may be published
          Unacceptable,      \* policies the worker refuses to prepare
          Forwards,          \* records proto, local, remote
          Unpublishable,     \* forwards refused before a transaction is recorded
          CacheSize,         \* maxPortTransactions
          Failing,           \* the worker's netstack may report errors
          MaxPolicyCalls, MaxPortCalls, MaxLost  \* bounds: calls, timeouts in one call

ASSUME WorkerConstants ==
    /\ Boot \in Policies /\ UdpReplies \subseteq Policies /\ Unacceptable \subseteq Policies
    /\ Unpublishable \subseteq Forwards
    /\ \A f \in Forwards : f.proto \in {"tcp", "udp"}
    /\ CacheSize \in Nat \ {0} /\ Failing \in BOOLEAN
    /\ {MaxPolicyCalls, MaxPortCalls, MaxLost} \subseteq Nat

VARIABLES enforced,   \* state.policy
          current,    \* state.gen and state.currentTxn
          pending,    \* state.pending, pendGen and pendingTxn, or Nothing
          forwards,   \* the listeners of the worker's stack
          portTxns,   \* remembered port transactions, oldest first
          alive,      \* the worker runs
          inbox,      \* requests the worker has still to execute
          answer,     \* the answer on its way to each caller
          policyCall, \* the SetPolicy under way
          portCall,   \* the Publish or Unpublish under way
          mirror,     \* the policy of the supervisor's mirror
          bound       \* the ports the supervisor was told are published

workerVars == <<enforced, current, pending, forwards, portTxns>>
vars == <<workerVars, alive, inbox, answer, policyCall, portCall, mirror, bound>>

Callers == {"policy", "port"}
NoTxn == 0
Nothing == [gen |-> 0, txn |-> NoTxn, policy |-> Boot]
NoAnswer == [ok |-> FALSE]

Init ==
    /\ enforced = Boot /\ mirror = Boot
    /\ current = [gen |-> 0, txn |-> NoTxn]
    /\ pending = Nothing
    /\ forwards = {} /\ bound = {}
    /\ portTxns = <<>>
    /\ alive = TRUE
    /\ inbox = <<>>
    /\ answer = [c \in Callers |-> NoAnswer]
    /\ policyCall = [at |-> "idle", txn |-> NoTxn, gen |-> 0, want |-> Boot,
                     attempt |-> 0, prepared |-> FALSE, lost |-> 0]
    /\ portCall = [at |-> "idle", txn |-> NoTxn, publish |-> TRUE, forward |-> {},
                   attempt |-> 0, lost |-> 0]

-----------------------------------------------------------------------------
(* The worker.                                                             *)

StatusOf(cur, pend, txn) ==
    [ok |-> TRUE, gen |-> cur.gen, pendGen |-> pend.gen, pendTxn |-> pend.txn,
     state |-> IF txn = NoTxn THEN "current"
               ELSE IF txn = cur.txn THEN "committed"
               ELSE IF txn = pend.txn THEN "prepared" ELSE "unknown"]

Refusal == [ok |-> FALSE]

(* What the worker does with a policy request: its answer and next state.  *)
Kept(reply) == [reply |-> reply, enforced |-> enforced, current |-> current, pending |-> pending]

(* Mutated forms, each a plausible slip: installing a policy at prepare,   *)
(* skipping the check against open UDP ports.                              *)
PrepareInstalls(r) ==
    IF pending # Nothing \/ r.gen # current.gen + 1 THEN Kept(Refusal)
    ELSE LET next == [gen |-> r.gen, txn |-> r.txn, policy |-> r.policy]
         IN  [reply |-> StatusOf(current, next, r.txn),
              enforced |-> r.policy, current |-> current, pending |-> next]

CommitUnchecked(r, fault) ==
    IF pending = Nothing \/ pending.gen # r.gen \/ pending.txn # r.txn THEN Kept(Refusal)
    ELSE LET next == [gen |-> r.gen, txn |-> r.txn]
         IN  [reply |-> StatusOf(next, Nothing, r.txn),
              enforced |-> pending.policy, current |-> next, pending |-> Nothing]

preparePolicy(r) ==
    LET next == [gen |-> r.gen, txn |-> r.txn, policy |-> r.policy]
    IN  IF current = [gen |-> r.gen, txn |-> r.txn] \/ pending = next
        THEN Kept(StatusOf(current, pending, r.txn))
        ELSE IF pending # Nothing \/ r.gen # current.gen + 1 \/ r.policy \in Unacceptable
        THEN Kept(Refusal)
        ELSE [reply |-> StatusOf(current, next, r.txn),
              enforced |-> enforced, current |-> current, pending |-> next]

UdpConflict(policy, active) ==
    policy \notin UdpReplies /\ \E f \in active : f.proto = "udp"

(* fault: the stack cannot list its forwards.                              *)
commitPolicy(r, fault) ==
    LET next == [gen |-> r.gen, txn |-> r.txn]
    IN  IF current = next THEN Kept(StatusOf(current, pending, r.txn))
        ELSE IF pending = Nothing \/ pending.gen # r.gen \/ pending.txn # r.txn
                \/ fault \/ UdpConflict(pending.policy, forwards)
        THEN Kept(Refusal)
        ELSE [reply |-> StatusOf(next, Nothing, r.txn),
              enforced |-> pending.policy, current |-> next, pending |-> Nothing]

abortPolicy(r) ==
    IF pending = Nothing THEN Kept(StatusOf(current, pending, r.txn))
    ELSE IF pending.gen = r.gen /\ pending.txn = r.txn
    THEN [reply |-> StatusOf(current, Nothing, r.txn),
          enforced |-> enforced, current |-> current, pending |-> Nothing]
    ELSE Kept(Refusal)

PolicyEffect(r, fault) ==
    CASE r.op = "prepare" -> preparePolicy(r)
      [] r.op = "commit" -> commitPolicy(r, fault)
      [] r.op = "abort" -> abortPolicy(r)
      [] r.op = "status" -> Kept(StatusOf(current, pending, r.txn))

(* The listener set after a port mutation, or the same set if refused.     *)
SameListener(f, g) == f.proto = g.proto /\ f.local = g.local
PortChange(r, fault) ==
    LET taken == \E f \in forwards : SameListener(f, r.forward)
    IN  IF fault THEN forwards
        ELSE IF ~ r.publish THEN {f \in forwards : ~ SameListener(f, r.forward)}
        ELSE IF taken \/ UdpConflict(enforced, {r.forward}) THEN forwards
        ELSE forwards \cup {r.forward}

Remembered(txn) == \E i \in DOMAIN portTxns : portTxns[i].txn = txn
RememberedState(txn) == portTxns[CHOOSE i \in DOMAIN portTxns : portTxns[i].txn = txn].state

(* Only the last CacheSize transactions are remembered.                    *)
rememberPortTransaction(entry) ==
    IF Len(portTxns) = CacheSize THEN Append(Tail(portTxns), entry) ELSE Append(portTxns, entry)

PortsKept(reply) == [reply |-> reply, forwards |-> forwards, portTxns |-> portTxns]

(* publishPort, unpublishPort and applyPortMutation.                       *)
applyPortMutation(r, fault) ==
    LET after == PortChange(r, fault)
        state == IF after # forwards THEN "applied" ELSE "rejected"
    IN  IF r.publish /\ r.forward \in Unpublishable THEN PortsKept(Refusal)
        ELSE IF Remembered(r.txn) THEN PortsKept([ok |-> TRUE, state |-> RememberedState(r.txn)])
        ELSE [reply |-> [ok |-> TRUE, state |-> state], forwards |-> after,
              portTxns |-> rememberPortTransaction([txn |-> r.txn, state |-> state])]

portStatus(r) ==
    PortsKept([ok |-> TRUE, state |-> IF Remembered(r.txn) THEN RememberedState(r.txn) ELSE "unknown"])

listPorts(fault) ==
    PortsKept(IF fault THEN Refusal ELSE [ok |-> TRUE, state |-> "listed", forwards |-> forwards])

PortEffect(r, fault) ==
    CASE r.op = "mutate" -> applyPortMutation(r, fault)
      [] r.op = "portStatus" -> portStatus(r)
      [] r.op = "list" -> listPorts(fault)

Reply(r, reply) ==
    answer' = IF r.awaited THEN [answer EXCEPT ![r.from] = [ok |-> TRUE, reply |-> reply]] ELSE answer

(* The worker executes its requests one after the other.                   *)
Handle ==
    /\ alive /\ inbox # <<>>
    /\ inbox' = Tail(inbox)
    /\ \E fault \in {FALSE, Failing} :
         LET r == Head(inbox)
         IN  IF r.from = "policy"
             THEN LET e == PolicyEffect(r, fault)
                  IN  /\ enforced' = e.enforced /\ current' = e.current /\ pending' = e.pending
                      /\ Reply(r, e.reply)
                      /\ UNCHANGED <<forwards, portTxns>>
             ELSE LET e == PortEffect(r, fault)
                  IN  /\ forwards' = e.forwards /\ portTxns' = e.portTxns
                      /\ Reply(r, e.reply)
                      /\ UNCHANGED <<enforced, current, pending>>
    /\ UNCHANGED <<alive, policyCall, portCall, mirror, bound>>

(* The process or its connection dies; the daemon ends the sandbox.        *)
Die ==
    /\ alive
    /\ alive' = FALSE
    /\ inbox' = <<>>
    /\ UNCHANGED <<workerVars, answer, policyCall, portCall, mirror, bound>>

-----------------------------------------------------------------------------
(* Calls of the supervisor.                                                *)

(* What a call returned: the worker's answer, or an error because the      *)
(* connection is closed or the call timed out.                             *)
Answered(c) == IF answer[c].ok THEN {[reply |-> answer[c].reply, lost |-> 0]} ELSE {}
Unanswered(call) ==
    IF alive THEN IF call.lost < MaxLost THEN {[reply |-> Refusal, lost |-> 1]} ELSE {}
    ELSE {[reply |-> Refusal, lost |-> 0]}

(* An earlier request of the caller is no longer awaited.                  *)
Abandoned(c) == [i \in DOMAIN inbox |-> [inbox[i] EXCEPT !.awaited = @ /\ inbox[i].from # c]]

(* A call may also time out while it waits to write its request.           *)
Ask(c, call, request) ==
    /\ inbox' \in IF ~ alive THEN {inbox}
                  ELSE {Append(Abandoned(c), request)}
                         \cup IF call.lost < MaxLost THEN {Abandoned(c)} ELSE {}
    /\ answer' = [answer EXCEPT ![c] = NoAnswer]

Hang(c) ==
    /\ inbox' = Abandoned(c)
    /\ answer' = [answer EXCEPT ![c] = NoAnswer]

-----------------------------------------------------------------------------
(* Worker.SetPolicy.                                                       *)

PolicyRequest(op, gen, txn) ==
    [from |-> "policy", awaited |-> TRUE, op |-> op, gen |-> gen, txn |-> txn, policy |-> Boot]

Status(txn) == PolicyRequest("status", 0, txn)
Prepare(call) == [PolicyRequest("prepare", call.gen, call.txn) EXCEPT !.policy = call.want]
Commit(call) == PolicyRequest("commit", call.gen, call.txn)

AskPolicy(call, step, request) ==
    /\ policyCall' = [call EXCEPT !.at = step]
    /\ Ask("policy", call, request)
    /\ UNCHANGED <<mirror, alive>>

(* The mirror follows once the worker is known to enforce the policy.      *)
PolicyDone(call, success) ==
    /\ policyCall' = [call EXCEPT !.at = "idle", !.gen = 0, !.attempt = 0, !.prepared = FALSE]
    /\ mirror' = IF success THEN call.want ELSE mirror
    /\ Hang("policy")
    /\ UNCHANGED alive

(* The outcome is not known: the worker is stopped.                        *)
stopAfterAmbiguousPolicy(call) ==
    /\ policyCall' = [call EXCEPT !.at = "stopped"]
    /\ alive' = FALSE /\ inbox' = <<>>
    /\ UNCHANGED <<answer, mirror>>

SetPolicy(p) ==
    /\ alive
    /\ policyCall.at = "idle" /\ policyCall.txn < MaxPolicyCalls
    /\ AskPolicy([policyCall EXCEPT !.txn = @ + 1, !.want = p, !.lost = 0], "sync", Status(NoTxn))
    /\ UNCHANGED <<workerVars, portCall, bound>>

PrepareNext(call, gen) ==
    LET next == [call EXCEPT !.gen = gen + 1] IN AskPolicy(next, "prepare", Prepare(next))

(* syncPolicyState: a transaction left by an earlier call is aborted.      *)
OnSync(call, r) ==
    IF ~ r.ok THEN PolicyDone(call, FALSE)
    ELSE IF r.pendTxn = NoTxn THEN PrepareNext(call, r.gen)
    ELSE AskPolicy([call EXCEPT !.gen = r.gen], "clear", PolicyRequest("abort", r.pendGen, r.pendTxn))

OnClear(call, r) ==
    IF r.ok THEN PrepareNext(call, call.gen) ELSE AskPolicy(call, "cleared", Status(NoTxn))

OnCleared(call, r) ==
    IF r.ok /\ r.pendTxn = NoTxn THEN PrepareNext(call, r.gen) ELSE PolicyDone(call, FALSE)

OnPrepare(call, r) ==
    IF r.ok THEN AskPolicy(call, "commit", Commit(call))
    ELSE AskPolicy(call, "prepared", Status(call.txn))

OnPrepared(call, r) ==
    IF r.ok /\ r.state = "prepared" THEN AskPolicy(call, "commit", Commit(call))
    ELSE PolicyDone(call, r.ok /\ r.state = "committed")

(* Mutated: the worker is stopped as soon as a commit fails.               *)
StopOnFailedCommit(call, r) ==
    IF r.ok THEN PolicyDone(call, TRUE) ELSE stopAfterAmbiguousPolicy(call)

OnCommit(call, r) ==
    IF r.ok THEN PolicyDone(call, TRUE) ELSE AskPolicy(call, "committed", Status(call.txn))

(* commitPolicyTransaction tries twice, then withdraws what is known to    *)
(* have been prepared.                                                     *)
(* Mutated: the attempts are not counted.                                  *)
RetryForever(call) == AskPolicy(call, "commit", Commit(call))

RetryCommit(call) ==
    IF call.attempt = 0 THEN AskPolicy([call EXCEPT !.attempt = 1], "commit", Commit(call))
    ELSE IF call.prepared
    THEN AskPolicy(call, "unwind", PolicyRequest("abort", call.gen, call.txn))
    ELSE stopAfterAmbiguousPolicy(call)

Conclude(call, r) ==
    IF r.state = "committed" THEN PolicyDone(call, TRUE)
    ELSE IF r.state = "unknown" /\ r.gen < call.gen THEN PolicyDone(call, FALSE)
    ELSE stopAfterAmbiguousPolicy(call)

(* Mutated: a lost status is taken for a commit that did not happen.       *)
LostMeansFailed(call, r) ==
    IF ~ r.ok THEN PolicyDone(call, FALSE)
    ELSE IF r.state = "prepared" THEN RetryCommit([call EXCEPT !.prepared = TRUE])
    ELSE Conclude(call, r)

OnCommitted(call, r) ==
    IF ~ r.ok THEN RetryCommit(call)
    ELSE IF r.state = "prepared" THEN RetryCommit([call EXCEPT !.prepared = TRUE])
    ELSE Conclude(call, r)

OnUnwind(call, r) ==
    IF r.ok THEN Conclude(call, r) ELSE AskPolicy(call, "unwound", Status(call.txn))

OnUnwound(call, r) ==
    IF r.ok THEN Conclude(call, r) ELSE stopAfterAmbiguousPolicy(call)

PolicyReturns(step, Handler(_, _)) ==
    /\ policyCall.at = step
    /\ \E r \in Answered("policy") \cup Unanswered(policyCall) :
         Handler([policyCall EXCEPT !.lost = @ + r.lost], r.reply)
    /\ UNCHANGED <<workerVars, portCall, bound>>

(* One action per call whose return is awaited.                            *)
SyncReturns == PolicyReturns("sync", OnSync)
ClearReturns == PolicyReturns("clear", OnClear)
ClearedReturns == PolicyReturns("cleared", OnCleared)
PrepareReturns == PolicyReturns("prepare", OnPrepare)
PreparedReturns == PolicyReturns("prepared", OnPrepared)
CommitReturns == PolicyReturns("commit", OnCommit)
CommittedReturns == PolicyReturns("committed", OnCommitted)
UnwindReturns == PolicyReturns("unwind", OnUnwind)
UnwoundReturns == PolicyReturns("unwound", OnUnwound)

PolicyStep ==
    \/ SyncReturns \/ ClearReturns \/ ClearedReturns \/ PrepareReturns \/ PreparedReturns
    \/ CommitReturns \/ CommittedReturns \/ UnwindReturns \/ UnwoundReturns

-----------------------------------------------------------------------------
(* Worker.Publish and Worker.Unpublish.                                    *)

PortRequest(call, op) ==
    [from |-> "port", awaited |-> TRUE, op |-> op, txn |-> call.txn,
     publish |-> call.publish, forward |-> call.forward]

AskPort(call, step, op) ==
    /\ portCall' = [call EXCEPT !.at = step]
    /\ Ask("port", call, PortRequest(call, op))
    /\ UNCHANGED <<bound, alive>>

PortDone(call, success) ==
    /\ portCall' = [call EXCEPT !.at = "idle", !.attempt = 0]
    /\ bound' = IF ~ success THEN bound
                ELSE {f \in bound : ~ SameListener(f, call.forward)}
                       \cup (IF call.publish THEN {call.forward} ELSE {})
    /\ Hang("port")
    /\ UNCHANGED alive

stopAfterAmbiguousPort(call) ==
    /\ portCall' = [call EXCEPT !.at = "stopped"]
    /\ alive' = FALSE /\ inbox' = <<>>
    /\ UNCHANGED <<answer, bound>>

Mutate(f, publish) ==
    /\ alive
    /\ portCall.at = "idle" /\ portCall.txn < MaxPortCalls
    /\ AskPort([portCall EXCEPT !.txn = @ + 1, !.publish = publish, !.forward = f, !.lost = 0],
               "mutate", "mutate")
    /\ UNCHANGED <<workerVars, policyCall, mirror>>

OnMutate(call, r) ==
    IF r.ok THEN PortDone(call, r.state = "applied") ELSE AskPort(call, "mutated", "portStatus")

RetryMutate(call) ==
    IF call.attempt = 0 THEN AskPort([call EXCEPT !.attempt = 1], "mutate", "mutate")
    ELSE AskPort(call, "list", "list")

OnMutated(call, r) ==
    IF r.ok /\ r.state # "unknown" THEN PortDone(call, r.state = "applied") ELSE RetryMutate(call)

portMutationEffective(call, listed) ==
    IF call.publish THEN call.forward \in listed
    ELSE \A f \in listed : ~ SameListener(f, call.forward)

OnList(call, r) ==
    IF r.ok THEN PortDone(call, portMutationEffective(call, r.forwards))
    ELSE stopAfterAmbiguousPort(call)

PortReturns(step, Handler(_, _)) ==
    /\ portCall.at = step
    /\ \E r \in Answered("port") \cup Unanswered(portCall) :
         Handler([portCall EXCEPT !.lost = @ + r.lost], r.reply)
    /\ UNCHANGED <<workerVars, policyCall, mirror>>

MutateReturns == PortReturns("mutate", OnMutate)
MutatedReturns == PortReturns("mutated", OnMutated)
ListReturns == PortReturns("list", OnList)
PortStep == MutateReturns \/ MutatedReturns \/ ListReturns

-----------------------------------------------------------------------------

Next ==
    \/ Handle \/ Die
    \/ PolicyStep \/ \E p \in Policies : SetPolicy(p)
    \/ PortStep \/ \E f \in Forwards, publish \in BOOLEAN : Mutate(f, publish)

Spec == Init /\ [][Next]_vars

(* The worker serves its connection and every call has a timeout.          *)
FairSpec == Spec /\ WF_vars(Handle) /\ WF_vars(PolicyStep) /\ WF_vars(PortStep)

-----------------------------------------------------------------------------

PolicySteps == {"idle", "sync", "clear", "cleared", "prepare", "prepared", "commit",
                "committed", "unwind", "unwound", "stopped"}

(* The types of the state.                                                 *)
TypeOK ==
    /\ {enforced, mirror} \subseteq Policies
    /\ current \in [gen : Nat, txn : 0 .. MaxPolicyCalls]
    /\ pending \in [gen : Nat, txn : 0 .. MaxPolicyCalls, policy : Policies]
    /\ pending # Nothing => pending.gen = current.gen + 1
    /\ forwards \cup bound \subseteq Forwards
    /\ portTxns \in Seq([txn : 1 .. MaxPortCalls, state : {"applied", "rejected"}])
    /\ Len(portTxns) <= CacheSize
    /\ alive \in BOOLEAN
    /\ policyCall.at \in PolicySteps /\ policyCall.want \in Policies
    /\ portCall.at \in {"idle", "mutate", "mutated", "list", "stopped"}

(* While no SetPolicy is under way, the worker enforces the policy of the  *)
(* supervisor's mirror: a success was applied, an error left the previous  *)
(* policy, and nothing that timed out is applied later.                    *)
MirrorEnforced == alive /\ policyCall.at = "idle" => enforced = mirror

(* The same for ports: no listener is open or closed behind an error.      *)
PortsKnown == alive /\ portCall.at = "idle" => forwards = bound

(* The supervisor knows what its worker does once its calls have returned, *)
(* although answers are lost and calls repeated (SetPolicy, mutatePort).   *)
OutcomesKnown == MirrorEnforced /\ PortsKnown

(* A UDP port is never open under a policy that drops its replies, however *)
(* a commit and a publish overlap.                                         *)
UdpRepliesAllowed == ~ UdpConflict(enforced, forwards)

(* The supervisor stops its worker only in the second attempt of a change, *)
(* and for a policy only if an answer was lost: what the first attempt and *)
(* a worker that answers leave behind is always reconciled.                *)
StopsOnlyWhenAmbiguous ==
    [][alive /\ ~ alive' =>
         /\ policyCall'.at = "stopped" => policyCall'.attempt = 1 /\ policyCall'.lost > 0
         /\ portCall'.at = "stopped" => portCall'.attempt = 1]_vars

(* Seen from its callers, SetPolicy is one atomic change or none.          *)
Backend ==
    INSTANCE NetworkBackend WITH
        policy <- enforced, told <- mirror, running <- alive, want <- policyCall.want,
        call <- IF policyCall.at \in {"idle", "stopped"} THEN "idle"
                ELSE IF current.txn = policyCall.txn THEN "applied" ELSE "asked"
BackendSpec == Backend!Spec

(* Every SetPolicy and every port call returns.                            *)
CallsReturn ==
    /\ policyCall.at = "sync" ~> policyCall.at \in {"idle", "stopped"}
    /\ portCall.at = "mutate" ~> portCall.at \in {"idle", "stopped"}
==============================================================================
