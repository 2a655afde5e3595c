----------------------------- MODULE EventStore -----------------------------
(***************************************************************************)
(* PostgresEventStore.append under concurrent command transactions         *)
(* (server/events/postgres_store.py).  Every command runs in one READ      *)
(* COMMITTED transaction (session_scope): a statement sees what is         *)
(* committed when it starts plus the transaction's own rows.  append takes *)
(* an advisory lock per aggregate that is held to the end of the           *)
(* transaction, looks the idempotency key up, reads the head of the        *)
(* aggregate, checks expected_seq and inserts under the two unique indexes *)
(* of the table; recorded_seq comes from a sequence when the row is        *)
(* inserted, not when it is committed.                                     *)
(***************************************************************************)
EXTENDS Naturals

CONSTANTS Txns,        \* command transactions that may run concurrently
          Aggregates,
          Keys,
          Bodies,
          None,        \* Python's None: no hash, no lock holder, no request
          MaxRec       \* bound: recorded_seq values the sequence hands out

ASSUME NoneAssumption == None \notin Nat /\ None \notin Txns

VARIABLES
  committed,  \* rows of table events every statement can see
  pending,    \* rows inserted by each open transaction
  lock,       \* advisory lock of each aggregate: its holder
  pc,         \* where each transaction is inside append
  req,        \* the AppendRequest each transaction is working on
  head,       \* aggregate_seq and previous_hash chosen from the last row read
  nextRec,    \* next value of the recorded_seq sequence
  got,        \* AppendResults of the open transaction
  answers     \* AppendResults that reached a caller: the transaction committed

vars == <<committed, pending, lock, pc, req, head, nextRec, got, answers>>

Event == [agg : Aggregates, seq : Nat \ {0}, key : Keys, body : Bodies,
          prev : Nat \cup {None}, rec : Nat]
Request == [agg : Aggregates, key : Keys, body : Bodies,
            expected : Nat \cup {None}]
Place == [seq : Nat \ {0}, prev : Nat \cup {None}]
Answer == [key : Keys, body : Bodies, rec : Nat]

\* What a statement of transaction t sees.
Visible(t) == committed \cup pending[t]
Rows == committed \cup UNION {pending[t] : t \in Txns}
OfAggregate(S, a) == {e \in S : e.agg = a}

\* h is the place after the last row of aggregate a in S.
IsHead(h, S, a) ==
  \/ OfAggregate(S, a) = {} /\ h = [seq |-> 1, prev |-> None]
  \/ \E e \in OfAggregate(S, a) :
        /\ \A f \in OfAggregate(S, a) : f.seq <= e.seq
        /\ h = [seq |-> e.seq + 1, prev |-> e.rec]
HeadsOf(S, a) ==
  {h \in {[seq |-> 1, prev |-> None]}
           \cup {[seq |-> e.seq + 1, prev |-> e.rec] : e \in S} :
     IsHead(h, S, a)}

Init ==
  /\ committed = {}
  /\ pending = [t \in Txns |-> {}]
  /\ lock = [a \in Aggregates |-> None]
  /\ pc = [t \in Txns |-> "idle"]
  /\ req = [t \in Txns |-> None]
  /\ head = [t \in Txns |-> None]
  /\ nextRec = 1
  /\ got = [t \in Txns |-> {}]
  /\ answers = {}

-----------------------------------------------------------------------------
(***************************************************************************)
(* The end of a transaction: xact locks are released either way.           *)
(***************************************************************************)
Leave(t, where) ==  \* append is over, its locals are gone
  /\ pc' = [pc EXCEPT ![t] = where]
  /\ req' = [req EXCEPT ![t] = None]
  /\ head' = [head EXCEPT ![t] = None]

Unlocked(t) == [a \in Aggregates |-> IF lock[a] = t THEN None ELSE lock[a]]

\* session.rollback(): an exception of any step, a deadlock victim, a crash.
RollbackAs(t) ==
  /\ pending' = [pending EXCEPT ![t] = {}]
  /\ got' = [got EXCEPT ![t] = {}]
  /\ lock' = Unlocked(t)
  /\ Leave(t, "idle")
  /\ UNCHANGED <<committed, answers>>

Rollback(t) == pc[t] # "idle" /\ RollbackAs(t) /\ UNCHANGED nextRec

\* session.commit(), once no append is in progress.
Commit(t) ==
  /\ pc[t] = "open"
  /\ committed' = committed \cup pending[t]
  /\ answers' = answers \cup got[t]
  /\ pending' = [pending EXCEPT ![t] = {}]
  /\ got' = [got EXCEPT ![t] = {}]
  /\ lock' = Unlocked(t)
  /\ Leave(t, "idle")
  /\ UNCHANGED nextRec

-----------------------------------------------------------------------------
(***************************************************************************)
(* append, statement by statement.                                         *)
(***************************************************************************)
\* A handler loads the stream without a lock and calls append with the seq it
\* expects next, or with none.
Begin(t, a, k, b) ==
  /\ pc[t] \in {"idle", "open"}
  /\ nextRec <= MaxRec
  /\ \E x \in {None} \cup {h.seq : h \in HeadsOf(Visible(t), a)} :
        req' = [req EXCEPT ![t] = [agg |-> a, key |-> k, body |-> b,
                                   expected |-> x]]
  /\ pc' = [pc EXCEPT ![t] = "lock"]
  /\ UNCHANGED <<committed, pending, lock, head, nextRec, got, answers>>

\* Mutant of Lock: pg_try_advisory_xact_lock, its answer not looked at.
LockTried(t) ==
  /\ pc[t] = "lock"
  /\ lock' = [lock EXCEPT ![req[t].agg] = t]
  /\ pc' = [pc EXCEPT ![t] = "find"]
  /\ UNCHANGED <<committed, pending, req, head, nextRec, got, answers>>

\* _lock: waits for the holder, reentrant within the transaction.
Lock(t) ==
  /\ pc[t] = "lock"
  /\ lock[req[t].agg] \in {None, t}
  /\ lock' = [lock EXCEPT ![req[t].agg] = t]
  /\ pc' = [pc EXCEPT ![t] = "find"]
  /\ UNCHANGED <<committed, pending, req, head, nextRec, got, answers>>

\* Mutant of Prior: the key is looked up in the request's aggregate only.
PriorInAggregate(t) ==
  {e \in Visible(t) : e.key = req[t].key /\ e.agg = req[t].agg}

\* _find_idempotent: the row that has spent the request's key.
Prior(t) == {e \in Visible(t) : e.key = req[t].key}

\* _replay: the original AppendResult, nothing is written.
Replay(t) ==
  /\ \E e \in Prior(t) :
        /\ e.body = req[t].body
        /\ got' = [got EXCEPT ![t] = @ \cup
                     {[key |-> e.key, body |-> e.body, rec |-> e.rec]}]
  /\ Leave(t, "open")
  /\ UNCHANGED <<committed, pending, lock, answers>>

\* _replay: the key was spent on another body, IDEMPOTENCY_CONFLICT.
KeyConflict(t) == \E e \in Prior(t) : e.body # req[t].body

FindIdempotent(t) ==
  /\ pc[t] = "find"
  /\ \/ Replay(t) /\ UNCHANGED nextRec
     \/ KeyConflict(t) /\ RollbackAs(t) /\ UNCHANGED nextRec
     \/ /\ Prior(t) = {}
        /\ pc' = [pc EXCEPT ![t] = "read"]
        /\ UNCHANGED <<committed, pending, lock, req, head, nextRec, got,
                       answers>>

\* Read the last row of the aggregate; SEQUENCE_CONFLICT when the caller
\* expected another place.
ReadHead(t) ==
  /\ pc[t] = "read"
  /\ \E h \in HeadsOf(Visible(t), req[t].agg) :
        IF req[t].expected \in {None, h.seq}
        THEN /\ head' = [head EXCEPT ![t] = h]
             /\ pc' = [pc EXCEPT ![t] = "insert"]
             /\ UNCHANGED <<committed, pending, lock, req, nextRec, got,
                            answers>>
        ELSE RollbackAs(t) /\ UNCHANGED nextRec

\* Mutant of NewEvent: previous_hash is left empty.
NewEventUnchained(t) ==
  [agg |-> req[t].agg, seq |-> head[t].seq, key |-> req[t].key,
   body |-> req[t].body, prev |-> None, rec |-> nextRec]

NewEvent(t) ==
  [agg |-> req[t].agg, seq |-> head[t].seq, key |-> req[t].key,
   body |-> req[t].body, prev |-> head[t].prev, rec |-> nextRec]

\* The unique index (workspace, aggregate, aggregate_seq).
PlaceTaken(t, S) ==
  \E e \in S : e.agg = req[t].agg /\ e.seq = head[t].seq

\* Mutant of InsertWaits: the table has no unique index on the key.
InsertWaitsForPlace(t) == \E u \in Txns \ {t} : PlaceTaken(t, pending[u])

\* Another open transaction has inserted a row with the same index entry: the
\* INSERT waits for the end of that transaction.
InsertWaits(t) ==
  \E u \in Txns \ {t} : \/ \E e \in pending[u] : e.key = req[t].key
                        \/ PlaceTaken(t, pending[u])

\* The INSERT in its savepoint.  A row that violates the idempotency index
\* (the same key was committed on another aggregate meanwhile) is looked up
\* again and replayed; recorded_seq is drawn from the sequence either way.
Insert(t) ==
  /\ pc[t] = "insert"
  /\ nextRec <= MaxRec
  /\ ~InsertWaits(t)
  /\ nextRec' = nextRec + 1
  /\ \/ /\ Prior(t) = {} /\ ~PlaceTaken(t, Visible(t))
        /\ pending' = [pending EXCEPT ![t] = @ \cup {NewEvent(t)}]
        /\ got' = [got EXCEPT ![t] = @ \cup
                     {[key |-> req[t].key, body |-> req[t].body,
                       rec |-> nextRec]}]
        /\ Leave(t, "open")
        /\ UNCHANGED <<committed, lock, answers>>
     \/ Replay(t)
     \/ /\ KeyConflict(t) \/ (Prior(t) = {} /\ PlaceTaken(t, Visible(t)))
        /\ RollbackAs(t)

Next ==
  \E t \in Txns :
    \/ \E a \in Aggregates, k \in Keys, b \in Bodies : Begin(t, a, k, b)
    \/ Lock(t)
    \/ FindIdempotent(t)
    \/ ReadHead(t)
    \/ Insert(t)
    \/ Commit(t)
    \/ Rollback(t)

Spec == Init /\ [][Next]_vars

-----------------------------------------------------------------------------
(***************************************************************************)
(* Properties.                                                             *)
(***************************************************************************)
\* The type of every variable; a transaction inside append has a request, and
\* one about to INSERT has read a head.
TypeOK ==
  /\ committed \subseteq Event
  /\ pending \in [Txns -> SUBSET Event]
  /\ lock \in [Aggregates -> Txns \cup {None}]
  /\ pc \in [Txns -> {"idle", "lock", "find", "read", "insert", "open"}]
  /\ req \in [Txns -> Request \cup {None}]
  /\ head \in [Txns -> Place \cup {None}]
  /\ nextRec \in Nat
  /\ got \in [Txns -> SUBSET Answer]
  /\ answers \subseteq Answer
  /\ \A t \in Txns :
        /\ pc[t] \in {"lock", "find", "read", "insert"} => req[t] \in Request
        /\ pc[t] = "insert" => head[t] \in Place

\* EventLog, on the committed rows.
Log == INSTANCE EventLog WITH NoHash <- None, log <- committed

\* verify_events finds nothing: whatever transactions interleave, every
\* aggregate's committed Events are numbered without gap or repetition, each
\* carries the hash of its predecessor, and recorded order agrees with it.
ChainIntact ==
  /\ \A e \in committed : Log!Chained(e, committed)
  /\ Log!OneEventPerPlace(committed)
  /\ \A e, f \in committed :
        e.agg = f.agg /\ e.seq < f.seq => e.rec < f.rec

\* A request retried under its idempotency key, concurrently or later, on the
\* same aggregate or another, is answered with one and the same committed
\* Event, whose body is the body of the request (_replay).
AnswersAgree ==
  /\ \A x \in answers : \E e \in committed :
        e.key = x.key /\ e.body = x.body /\ e.rec = x.rec
  /\ \A x, y \in answers : x.key = y.key => x = y

\* Because the aggregate lock is held from before the head is read until the
\* transaction ends, the branch of append that handles a violated
\* aggregate_seq index is never reached.
PlaceStaysFree ==
  \A t \in Txns : pc[t] = "insert" => ~PlaceTaken(t, Rows)

\* The store implements the abstract log: Events appear by whole
\* transactions, are never changed or removed, and every state is well formed.
ImplementsLog == Log!LogSpec
=============================================================================
