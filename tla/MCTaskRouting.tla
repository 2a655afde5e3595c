--------------------------- MODULE MCTaskRouting ----------------------------
(* Small instances of TaskRouting for TLC. *)
EXTENDS TaskRouting, TLC

CONSTANTS a1, a2, a3, h1, c1

MCAgents == {a1, a2, a3}
MCHumans == {h1}
MCCallers == {c1}
\* Among and out of the statuses that can be re-routed.
MCEvents == {"TASK_STARTED", "IMPLEMENTATION_SUBMITTED"}

MCSymmetry == Permutations(MCAgents)
=============================================================================
