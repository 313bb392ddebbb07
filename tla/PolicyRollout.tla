---------------------------- MODULE PolicyRollout ----------------------------
(***************************************************************************)
(* What publishing a policy promises the hosts, whatever the service and   *)
(* the receivers do to bring it about: generations are only ever added,    *)
(* each with one bundle, and a host only moves to a newer generation that  *)
(* was really published, never back and never to something else.           *)
(***************************************************************************)
EXTENDS PolicyTypes, Sequences

VARIABLES published,  \* the bundle of every generation
          applied     \* h -> the snapshot applied to all of h's sandboxes

Init ==
    /\ published = <<>>
    /\ applied = [h \in Hosts |-> Unmanaged]

Publish(b) ==
    /\ published' = Append(published, b)
    /\ UNCHANGED applied

Apply(h, n) ==
    /\ n > applied[h].gen
    /\ applied' = [applied EXCEPT ![h] = [gen |-> n, body |-> published[n]]]
    /\ UNCHANGED published

Next ==
    \/ \E b \in Bundles : Publish(b)
    \/ \E h \in Hosts, n \in 1..Len(published) : Apply(h, n)

Spec == Init /\ [][Next]_<<published, applied>>
==============================================================================
