--------------------------- MODULE NetworkBackend ---------------------------
(***************************************************************************)
(* What the control layer relies on (control.NetworkBackend): a SetPolicy  *)
(* that returns no error replaced the enforced policy, one that returns an *)
(* error left it, and one whose outcome is unknown stopped the backend.    *)
(***************************************************************************)
CONSTANTS Policies, Boot

VARIABLES policy,   \* the policy the data path enforces
          told,     \* the policy of the last SetPolicy that returned no error
          running,
          call,     \* "idle", "asked" or "applied"
          want      \* the policy last asked for

vars == <<policy, told, running, call, want>>

Init == policy = Boot /\ told = Boot /\ running = TRUE /\ call = "idle" /\ want = Boot

SetPolicy(p) ==
    /\ running /\ call = "idle"
    /\ call' = "asked" /\ want' = p
    /\ UNCHANGED <<policy, told, running>>

Apply ==
    /\ running /\ call = "asked"
    /\ call' = "applied" /\ policy' = want
    /\ UNCHANGED <<told, running, want>>

Succeed ==
    /\ call = "applied"
    /\ call' = "idle" /\ told' = want
    /\ UNCHANGED <<policy, running, want>>

Fail ==
    /\ call = "asked"
    /\ call' = "idle"
    /\ UNCHANGED <<policy, told, running, want>>

(* The backend ends, by itself or because the call in progress gave up.    *)
Stop ==
    /\ running' = FALSE
    /\ call' \in {call, "idle"}
    /\ UNCHANGED <<policy, told, want>>

Next == Apply \/ Succeed \/ Fail \/ Stop \/ \E p \in Policies : SetPolicy(p)

Spec == Init /\ [][Next]_vars
==============================================================================
