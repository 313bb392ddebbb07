----------------------------- MODULE MCLivePolicy -----------------------------
(***************************************************************************)
(* Small instances of LivePolicy.                                          *)
(***************************************************************************)
EXTENDS LivePolicy, TLC

CONSTANTS none, old, new, x, y

OneUdp == {[proto |-> "udp", host |-> 1, guest |-> 1]}

NoForwards == {}
TagSymmetry == Permutations(Tags)

(* The new generation refuses the source y; nothing else is refused.       *)
NewDeniesY == {<<new, y>>}
================================================================================
