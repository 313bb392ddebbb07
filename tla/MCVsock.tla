------------------------------- MODULE MCVsock -------------------------------
(***************************************************************************)
(* Small instances of Vsock: the guest opens g and the host opens h.       *)
(***************************************************************************)
EXTENDS Vsock, TLC

CONSTANTS g, h

Load(hostG, hostH, guestG, guestH, ends_) ==
    [host |-> g :> hostG @@ h :> hostH, guest |-> g :> guestG @@ h :> guestH, ends |-> ends_]

(* One long stream in each direction, so that the counters wrap, and two   *)
(* connections that share the FIFO.                                        *)
MCLoads == {Load(3, 0, 0, 0, 1), Load(0, 0, 3, 0, 1), Load(2, 0, 0, 1, 0)}
================================================================================
