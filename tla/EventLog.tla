------------------------------ MODULE EventLog ------------------------------
(***************************************************************************)
(* What the append-only event log promises to its users: one set of        *)
(* Events that only grows, by whole transactions; every aggregate is a     *)
(* gapless hash chain; an idempotency key is spent at most once.  Nothing  *)
(* is said about locks, savepoints, waiting or recorded order.             *)
(***************************************************************************)
EXTENDS Naturals

CONSTANTS Aggregates,  \* aggregate streams, (workspace, type, id)
          Keys,        \* idempotency keys, (workspace, actor, scope, key)
          Bodies,      \* canonical request bodies (request_body_hash)
          NoHash       \* previous_hash of the first Event of an aggregate

VARIABLE log           \* the committed Events

\* An Event.  recorded_seq is unique and never reused, so it also stands for
\* event_id and for content_hash, which is a collision-free digest of the row.
Event == [agg : Aggregates, seq : Nat \ {0}, key : Keys, body : Bodies,
          prev : Nat \cup {NoHash}, rec : Nat]

\* verify_chain on one aggregate: the Event is the first of its aggregate or
\* it directly follows the Event whose content_hash it carries.
Chained(e, S) ==
  \/ e.seq = 1 /\ e.prev = NoHash
  \/ \E p \in S : /\ p.agg = e.agg
                  /\ p.seq + 1 = e.seq
                  /\ p.rec = e.prev

\* No two Events share a place in an aggregate.
OneEventPerPlace(S) ==
  \A e, f \in S : e.agg = f.agg /\ e.seq = f.seq => e = f

\* No two Events share an idempotency key.
OneEventPerKey(S) == \A e, f \in S : e.key = f.key => e = f

WellFormed(S) ==
  /\ S \subseteq Event
  /\ \A e \in S : Chained(e, S)
  /\ OneEventPerPlace(S)
  /\ OneEventPerKey(S)

LogInit == log = {}

\* One transaction's Events become visible together.
AppendBatch ==
  /\ log \subseteq log'
  /\ WellFormed(log')

LogSpec == LogInit /\ [][AppendBatch]_log
=============================================================================
