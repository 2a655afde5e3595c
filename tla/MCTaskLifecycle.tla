-------------------------- MODULE MCTaskLifecycle ---------------------------
(* Small instances of TaskLifecycle for TLC. *)
EXTENDS TaskLifecycle, TLC

CONSTANTS c1, c2, p1, p2, v1

MCClients == {c1, c2}
MCAccounts == {p1, p2}
MCRuns == {v1}
\* Enough for a second round of implementation and verification.
MCTwice == {"TASK_ACCEPTED", "IMPLEMENTATION_SUBMITTED", "TASK_VERIFICATION_STARTED"}

MCSymmetry == Permutations(MCClients) \cup Permutations(MCAccounts)
=============================================================================
