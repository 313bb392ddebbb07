--------------------------- MODULE MCNetworkWorker ---------------------------
(* One UDP port; its replies are dropped by some policies.                 *)
EXTENDS NetworkWorker

NoPorts == {}
OneUdpPort == {[proto |-> "udp", local |-> 1, remote |-> 1]}
===============================================================================
