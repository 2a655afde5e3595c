---------------------------- MODULE MCEventFeed -----------------------------
(* Small instances of EventFeed for TLC. *)
EXTENDS EventFeed, TLC

CONSTANTS t1, t2, a1, a2, k1, k2, b1, b2

MCTxns == {t1, t2}
MCAggregates == {a1, a2}
MCKeys == {k1, k2}
MCBodies == {b1, b2}

\* Transactions, aggregates, keys and bodies are interchangeable.
MCSymmetry ==
  Permutations(MCTxns) \cup Permutations(MCAggregates)
    \cup Permutations(MCKeys) \cup Permutations(MCBodies)
=============================================================================
