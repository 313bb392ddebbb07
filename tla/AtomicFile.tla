------------------------------ MODULE AtomicFile ------------------------------
(***************************************************************************)
(* Replacing a state file (atomicfile.writeTo): it succeeds, fails with    *)
(* the old file in place, or reports an error after the new file became    *)
(* visible (the parent directory could not be synced).                     *)
(***************************************************************************)
CONSTANT SaveFaults   \* how replacing a file may go wrong

ASSUME KnownFaults == SaveFaults \subseteq {"failed", "committed"}

SaveOutcomes == {"ok"} \cup SaveFaults
FileAfter(outcome, old, new) == IF outcome = "failed" THEN old ELSE new
===============================================================================
