--------------------------- MODULE MCNetworkControl ---------------------------
(***************************************************************************)
(* Small instances of NetworkControl.                                      *)
(***************************************************************************)
EXTENDS NetworkControl

Forward(proto, host, guest) == [proto |-> proto, host |-> host, guest |-> guest]

(* Three listeners, each leading to one guest port.                        *)
OneGuestEach == {Forward("tcp", 1, 1), Forward("udp", 1, 1), Forward("udp", 2, 1)}
(* One listener and two guest ports it may lead to.                        *)
TwoGuests == {Forward("tcp", 1, 1), Forward("tcp", 1, 2)}
================================================================================
