---------------------------- MODULE MCSandboxDaemon ----------------------------
(* A small sandbox: SSH and Dev Containers settings, one allocation to     *)
(* change, and a rest of the configuration with and without a feature that *)
(* needs the guest helper.                                                 *)
EXTENDS SandboxDaemon

MCSettings == [ssh : BOOLEAN, dev : BOOLEAN, cpus : {1, 2}]
MCValid == {s \in MCSettings : s.dev => s.ssh}

SetSSH(on) == [s \in MCSettings |-> [s EXCEPT !.ssh = on]]
EnableDev == [s \in MCSettings |-> [s EXCEPT !.dev = TRUE, !.ssh = TRUE]]
MoreCPUs == [s \in MCSettings |-> [s EXCEPT !.cpus = 2]]

MCUpdates == {SetSSH(TRUE), SetSSH(FALSE), EnableDev, MoreCPUs}
MCResourceUpdates == {MoreCPUs}
MCApplied == [settings |-> [ssh |-> FALSE, dev |-> FALSE, cpus |-> 1], other |-> "plain"]

(* The loads: settings change twice around another mutation; a settings    *)
(* change and a session meet a stop and a death; a policy is replaced      *)
(* while its timer runs; a start that needs the helper.                    *)
Load(some) == [e \in Events |-> IF e \in DOMAIN some THEN some[e] ELSE 0]
MCLoads ==
    {Load([configure |-> 2, mutation |-> 1]),
     Load([configure |-> 1, session |-> 1, stop |-> 1, death |-> 1]),
     Load([configure |-> 2, launch |-> 1]),
     Load([policy |-> 2, time |-> 3, stop |-> 1]),
     Load([mutation |-> 1, launch |-> 1, configure |-> 1, death |-> 1])}
================================================================================
