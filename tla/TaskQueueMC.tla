---------------------------- MODULE TaskQueueMC ----------------------------
(***************************************************************************)
(* Instance of TaskQueue for TLC.  Two task keys: "purge" is posted with  *)
(* normal priority and no keep time (statistics server), "move" with high *)
(* priority, a keep time and a caller who waits for it (folder API).      *)
(***************************************************************************)
EXTENDS TaskQueue, TLC

MCKeys     == {"purge", "move"}
MCPriority == [k \in MCKeys |-> IF k = "move" THEN 10 ELSE 20]
MCKept     == {"move"}
MCWaited   == {"move"}

\* Faults may strike anywhere in the main function.
MCFaults   == MainPoints \ {"off"}
=============================================================================
