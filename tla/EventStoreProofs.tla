-------------------------- MODULE EventStoreProofs --------------------------
(***************************************************************************)
(* Proofs about PostgresEventStore.append for any number of transactions,  *)
(* aggregates, keys and bodies, and about the stream of Server-Sent Events *)
(* that reads the store.                                                   *)
(***************************************************************************)
EXTENDS EventFeed, TLAPS

-----------------------------------------------------------------------------
(***************************************************************************)
(* The inductive invariant.                                                *)
(***************************************************************************)
\* Locks cover what they protect: the aggregate a transaction is reading and
\* every aggregate it has inserted into.
LockInv ==
  /\ \A t \in Txns : pc[t] \in {"find", "read", "insert"}
                        => lock[req[t].agg] = t
  /\ \A t \in Txns : \A e \in pending[t] : lock[e.agg] = t
  /\ \A t \in Txns : pc[t] = "idle" => pending[t] = {} /\ got[t] = {}

\* The head a transaction is about to use is still the head: nobody else can
\* add to the aggregate while the lock is held.
HeadInv ==
  \A t \in Txns : pc[t] = "insert"
                     => IsHead(head[t], Visible(t), req[t].agg)

\* Every row follows a row that is at least as visible as itself.
ChainInv ==
  /\ \A e \in committed : Log!Chained(e, committed)
  /\ \A t \in Txns : \A e \in pending[t] : Log!Chained(e, Visible(t))

\* Places, keys and recorded order, over committed and uncommitted rows.
RowInv ==
  \A e, f \in Rows :
    /\ e.rec < nextRec
    /\ e.agg = f.agg /\ e.seq = f.seq => e = f
    /\ e.agg = f.agg /\ e.seq < f.seq => e.rec < f.rec
    /\ e.key = f.key => e = f

\* Results handed out name a row their transaction can see.
Names(x, S) ==
  \E e \in S : e.key = x.key /\ e.body = x.body /\ e.rec = x.rec
AnswerInv ==
  /\ \A x \in answers : Names(x, committed)
  /\ \A t \in Txns : \A x \in got[t] : Names(x, Visible(t))

SafeInv == LockInv /\ HeadInv /\ ChainInv /\ RowInv /\ AnswerInv

-----------------------------------------------------------------------------
\* A row of the table is committed or belongs to an open transaction.
LEMMA RowsAre ==
  \A e : e \in Rows <=> e \in committed \/ \E t \in Txns : e \in pending[t]
BY DEF Rows

\* What HeadsOf offers is the place after the aggregate's last row.
LEMMA HeadsAre ==
  ASSUME NEW S, NEW a, NEW h \in HeadsOf(S, a)
  PROVE  IsHead(h, S, a)
BY DEF HeadsOf

\* The place after the last row is well typed.
LEMMA HeadsArePlaces ==
  ASSUME NEW S, S \subseteq Event, NEW a, NEW h \in HeadsOf(S, a)
  PROVE  h \in Place
BY DEF HeadsOf, Place, Event

-----------------------------------------------------------------------------
(***************************************************************************)
(* Type correctness.                                                       *)
(***************************************************************************)
\* Every variable keeps its type, and append never reaches its INSERT without
\* a request and a place read from the aggregate.
THEOREM StoreTypeOK == Spec => []TypeOK
<1>1. Init => TypeOK
  BY NoneAssumption DEF Init, TypeOK
<1>2. TypeOK /\ [Next]_vars => TypeOK'
  <2> SUFFICES ASSUME TypeOK, [Next]_vars PROVE TypeOK'
    OBVIOUS
  <2> USE DEF TypeOK
  <2>1. ASSUME NEW t \in Txns, NEW a \in Aggregates, NEW k \in Keys,
               NEW b \in Bodies, Begin(t, a, k, b)
        PROVE  TypeOK'
    <3>1. Visible(t) \subseteq Event
      BY DEF Visible
    <3>2. PICK x \in {None} \cup {h.seq : h \in HeadsOf(Visible(t), a)} :
             req' = [req EXCEPT ![t] = [agg |-> a, key |-> k, body |-> b,
                                        expected |-> x]]
      BY <2>1 DEF Begin
    <3>3. x \in Nat \cup {None}
      BY <3>1, HeadsArePlaces DEF Place
    <3>4. req'[t] \in Request /\ req' \in [Txns -> Request \cup {None}]
      BY <3>2, <3>3 DEF Request
    <3> QED
      BY <2>1, <3>2, <3>4 DEF Begin
  <2>2. ASSUME NEW t \in Txns, Lock(t) PROVE TypeOK'
    BY <2>2 DEF Lock, Request
  <2>3. ASSUME NEW t \in Txns, RollbackAs(t), nextRec' \in Nat PROVE TypeOK'
    BY <2>3 DEF RollbackAs, Leave, Unlocked
  <2>4. ASSUME NEW t \in Txns, Replay(t), nextRec' \in Nat PROVE TypeOK'
    <3>1. PICK e \in Prior(t) :
            got' = [got EXCEPT ![t] = @ \cup
                      {[key |-> e.key, body |-> e.body, rec |-> e.rec]}]
      BY <2>4 DEF Replay
    <3>2. e \in Event
      BY DEF Prior, Visible
    <3>3. [key |-> e.key, body |-> e.body, rec |-> e.rec] \in Answer
      BY <3>2 DEF Event, Answer
    <3> QED
      BY <2>4, <3>1, <3>3 DEF Replay, Leave
  <2>5. ASSUME NEW t \in Txns, FindIdempotent(t) PROVE TypeOK'
    BY <2>5, <2>3, <2>4 DEF FindIdempotent
  <2>6. ASSUME NEW t \in Txns, ReadHead(t) PROVE TypeOK'
    <3>1. Visible(t) \subseteq Event
      BY DEF Visible
    <3>2. \A h \in HeadsOf(Visible(t), req[t].agg) : h \in Place
      BY <3>1, HeadsArePlaces
    <3> QED
      BY <2>6, <2>3, <3>2 DEF ReadHead
  <2>7. ASSUME NEW t \in Txns, Insert(t) PROVE TypeOK'
    <3>1. nextRec' \in Nat /\ req[t] \in Request /\ head[t] \in Place
      BY <2>7 DEF Insert
    <3>2. NewEvent(t) \in Event
      BY <3>1 DEF NewEvent, Event, Request, Place
    <3>3. [key |-> req[t].key, body |-> req[t].body, rec |-> nextRec]
             \in Answer
      BY <3>1 DEF Answer, Request
    <3> QED
      BY <2>7, <2>3, <2>4, <3>1, <3>2, <3>3 DEF Insert, Leave
  <2>8. ASSUME NEW t \in Txns, Commit(t) PROVE TypeOK'
    BY <2>8 DEF Commit, Leave, Unlocked
  <2>9. ASSUME NEW t \in Txns, Rollback(t) PROVE TypeOK'
    BY <2>9, <2>3 DEF Rollback
  <2>10. CASE UNCHANGED vars
    BY <2>10 DEF vars
  <2> QED
    BY <2>1, <2>2, <2>5, <2>6, <2>7, <2>8, <2>9, <2>10 DEF Next
<1> QED
  BY <1>1, <1>2, PTL DEF Spec

-----------------------------------------------------------------------------
(***************************************************************************)
(* The invariant, one lemma per kind of step.                              *)
(***************************************************************************)
\* session.rollback(): the transaction's rows, locks and answers go.
LEMMA RollbackKeeps ==
  ASSUME TypeOK, SafeInv, NEW t \in Txns, RollbackAs(t),
         nextRec' \in Nat, nextRec <= nextRec'
  PROVE  SafeInv'
<1> USE DEF TypeOK
<1>1. /\ pending' = [pending EXCEPT ![t] = {}]
      /\ got' = [got EXCEPT ![t] = {}]
      /\ lock' = Unlocked(t)
      /\ pc' = [pc EXCEPT ![t] = "idle"]
      /\ req' = [req EXCEPT ![t] = None]
      /\ head' = [head EXCEPT ![t] = None]
      /\ committed' = committed
      /\ answers' = answers
  BY DEF RollbackAs, Leave
<1>2. \A u \in Txns \ {t} : /\ Visible(u)' = Visible(u)
                           /\ pending'[u] = pending[u]
                           /\ got'[u] = got[u] /\ pc'[u] = pc[u]
                           /\ req'[u] = req[u] /\ head'[u] = head[u]
  BY <1>1 DEF Visible
<1>3. \A u \in Txns \ {t} : \A a \in Aggregates :
         lock[a] = u => lock'[a] = u
  BY <1>1, NoneAssumption DEF Unlocked
<1>4. pending'[t] = {} /\ got'[t] = {} /\ pc'[t] = "idle"
  BY <1>1
<1>5. LockInv'
  <2>1. \A u \in Txns : pc'[u] \in {"find", "read", "insert"}
                            => lock'[req'[u].agg] = u
    BY <1>2, <1>3, <1>4 DEF SafeInv, LockInv, Request
  <2>2. \A u \in Txns : \A e \in pending'[u] : lock'[e.agg] = u
    BY <1>2, <1>3, <1>4 DEF SafeInv, LockInv, Event
  <2> QED
    BY <2>1, <2>2, <1>2, <1>4 DEF SafeInv, LockInv
<1>6. HeadInv'
  <2>1. ASSUME NEW u \in Txns, pc'[u] = "insert"
        PROVE  IsHead(head'[u], Visible(u)', req'[u].agg)
    <3>1. u # t
      BY <1>4, <2>1
    <3> QED
      BY <1>2, <2>1, <3>1 DEF SafeInv, HeadInv
  <2> QED
    BY <2>1 DEF HeadInv
<1>7. ChainInv'
  BY <1>1, <1>2, <1>4 DEF SafeInv, ChainInv, Log!Chained
<1>8. RowInv'
  <2>1. \A e \in Rows' : e \in Rows /\ e.rec \in Nat
    BY <1>1, <1>2, <1>4, RowsAre DEF Rows, Event
  <2> QED
    BY <2>1 DEF SafeInv, RowInv
<1>9. AnswerInv'
  BY <1>1, <1>2, <1>4 DEF SafeInv, AnswerInv, Names
<1> QED
  BY <1>5, <1>6, <1>7, <1>8, <1>9 DEF SafeInv

\* _replay answers with a row that is visible and writes nothing.
LEMMA ReplayKeeps ==
  ASSUME TypeOK, SafeInv, NEW t \in Txns, Replay(t),
         pc[t] \in {"find", "insert"},
         nextRec' \in Nat, nextRec <= nextRec'
  PROVE  SafeInv'
<1> USE DEF TypeOK
<1>1. PICK e \in Prior(t) :
        got' = [got EXCEPT ![t] = @ \cup
                  {[key |-> e.key, body |-> e.body, rec |-> e.rec]}]
  BY DEF Replay
<1>2. /\ pc' = [pc EXCEPT ![t] = "open"]
      /\ req' = [req EXCEPT ![t] = None]
      /\ head' = [head EXCEPT ![t] = None]
      /\ UNCHANGED <<committed, pending, lock, answers>>
  BY DEF Replay, Leave
<1>3. \A u \in Txns : Visible(u)' = Visible(u)
  BY <1>2 DEF Visible
<1>4. Rows' = Rows
  BY <1>2 DEF Rows
<1>5. LockInv'
  BY <1>1, <1>2 DEF SafeInv, LockInv
<1>6. HeadInv'
  BY <1>2, <1>3 DEF SafeInv, HeadInv, IsHead, OfAggregate
<1>7. ChainInv'
  BY <1>2, <1>3 DEF SafeInv, ChainInv, Log!Chained
<1>8. RowInv'
  <2>1. \A f \in Rows : f.rec \in Nat
    BY RowsAre DEF Event
  <2> QED
    BY <1>4, <2>1 DEF SafeInv, RowInv
<1>9. AnswerInv'
  <2>1. e \in Visible(t)
    BY DEF Prior
  <2>2. \A x \in got'[t] : Names(x, Visible(t))
    BY <1>1, <2>1 DEF SafeInv, AnswerInv, Names
  <2> QED
    BY <1>1, <1>2, <1>3, <2>2 DEF SafeInv, AnswerInv, Names
<1> QED
  BY <1>5, <1>6, <1>7, <1>8, <1>9 DEF SafeInv

\* session.commit(): the transaction's rows and answers become visible.
LEMMA CommitKeeps ==
  ASSUME TypeOK, SafeInv, NEW t \in Txns, Commit(t)
  PROVE  SafeInv'
<1> USE DEF TypeOK
<1>1. /\ committed' = committed \cup pending[t]
      /\ answers' = answers \cup got[t]
      /\ pending' = [pending EXCEPT ![t] = {}]
      /\ got' = [got EXCEPT ![t] = {}]
      /\ lock' = Unlocked(t)
      /\ pc' = [pc EXCEPT ![t] = "idle"]
      /\ req' = [req EXCEPT ![t] = None]
      /\ head' = [head EXCEPT ![t] = None]
      /\ nextRec' = nextRec
  BY DEF Commit, Leave
<1>2. \A u \in Txns \ {t} : /\ pending'[u] = pending[u]
                           /\ got'[u] = got[u] /\ pc'[u] = pc[u]
                           /\ req'[u] = req[u] /\ head'[u] = head[u]
  BY <1>1
<1>3. \A u \in Txns \ {t} : \A a \in Aggregates :
         lock[a] = u => lock'[a] = u
  BY <1>1, NoneAssumption DEF Unlocked
<1>4. pending'[t] = {} /\ got'[t] = {} /\ pc'[t] = "idle"
  BY <1>1
<1>5. LockInv'
  <2>1. \A u \in Txns : pc'[u] \in {"find", "read", "insert"}
                            => lock'[req'[u].agg] = u
    BY <1>2, <1>3, <1>4 DEF SafeInv, LockInv, Request
  <2>2. \A u \in Txns : \A e \in pending'[u] : lock'[e.agg] = u
    BY <1>2, <1>3, <1>4 DEF SafeInv, LockInv, Event
  <2> QED
    BY <2>1, <2>2, <1>2, <1>4 DEF SafeInv, LockInv
\* t's Events become visible to u, but u holds the lock of the aggregate it
\* is inserting into, so none of them belongs to that aggregate.
<1>6. HeadInv'
  <2>1. ASSUME NEW u \in Txns, pc'[u] = "insert"
        PROVE  IsHead(head'[u], Visible(u)', req'[u].agg)
    <3>1. u # t /\ pc[u] = "insert" /\ lock[req[u].agg] = u
      BY <1>2, <1>4, <2>1 DEF SafeInv, LockInv
    <3>2. \A e \in pending[t] : e.agg # req[u].agg
      BY <3>1 DEF SafeInv, LockInv
    <3>3. OfAggregate(Visible(u)', req[u].agg)
            = OfAggregate(Visible(u), req[u].agg)
      BY <1>1, <1>2, <3>1, <3>2 DEF OfAggregate, Visible
    <3>4. IsHead(head[u], Visible(u), req[u].agg)
      BY <3>1 DEF SafeInv, HeadInv
    <3> QED
      BY <1>2, <3>1, <3>3, <3>4 DEF IsHead
  <2> QED
    BY <2>1 DEF HeadInv
<1>7. ChainInv'
  <2>1. \A e \in committed' : Log!Chained(e, committed')
    BY <1>1 DEF SafeInv, ChainInv, Log!Chained, Visible
  <2>2. ASSUME NEW u \in Txns, NEW e \in pending'[u]
        PROVE  Log!Chained(e, Visible(u)')
    <3>1. u # t /\ e \in pending[u] /\ Visible(u) \subseteq Visible(u)'
      BY <1>1, <1>2, <1>4, <2>2 DEF Visible
    <3> QED
      BY <3>1 DEF SafeInv, ChainInv, Log!Chained
  <2> QED
    BY <2>1, <2>2 DEF ChainInv
<1>8. RowInv'
  <2>1. \A e \in Rows' : e \in Rows
    BY <1>1, <1>2, <1>4, RowsAre DEF Rows
  <2> QED
    BY <1>1, <2>1 DEF SafeInv, RowInv
<1>9. AnswerInv'
  <2>1. \A x \in answers' : Names(x, committed')
    BY <1>1 DEF SafeInv, AnswerInv, Names, Visible
  <2>2. ASSUME NEW u \in Txns, NEW x \in got'[u]
        PROVE  Names(x, Visible(u)')
    <3>1. u # t /\ x \in got[u] /\ Visible(u) \subseteq Visible(u)'
      BY <1>1, <1>2, <1>4, <2>2 DEF Visible
    <3> QED
      BY <3>1 DEF SafeInv, AnswerInv, Names
  <2> QED
    BY <2>1, <2>2 DEF AnswerInv
<1> QED
  BY <1>5, <1>6, <1>7, <1>8, <1>9 DEF SafeInv

\* The INSERT that succeeds.
NewRow(t) ==
  /\ pc[t] = "insert"
  /\ ~InsertWaits(t)
  /\ nextRec' = nextRec + 1
  /\ Prior(t) = {} /\ ~PlaceTaken(t, Visible(t))
  /\ pending' = [pending EXCEPT ![t] = @ \cup {NewEvent(t)}]
  /\ got' = [got EXCEPT ![t] = @ \cup
               {[key |-> req[t].key, body |-> req[t].body, rec |-> nextRec]}]
  /\ Leave(t, "open")
  /\ UNCHANGED <<committed, lock, answers>>

\* The INSERT of a new row at the place that was read under the lock.
LEMMA NewRowKeeps ==
  ASSUME TypeOK, SafeInv, NEW t \in Txns, NewRow(t)
  PROVE  SafeInv'
<1> USE DEF TypeOK
<1> DEFINE n == NewEvent(t)
<1>1. /\ pending' = [pending EXCEPT ![t] = @ \cup {n}]
      /\ got' = [got EXCEPT ![t] = @ \cup
               {[key |-> req[t].key, body |-> req[t].body, rec |-> nextRec]}]
      /\ pc' = [pc EXCEPT ![t] = "open"]
      /\ req' = [req EXCEPT ![t] = None]
      /\ head' = [head EXCEPT ![t] = None]
      /\ nextRec' = nextRec + 1
      /\ UNCHANGED <<committed, lock, answers>>
  BY DEF NewRow, Leave
<1>2. /\ pc[t] = "insert" /\ req[t] \in Request /\ head[t] \in Place
      /\ lock[req[t].agg] = t
      /\ IsHead(head[t], Visible(t), req[t].agg)
  BY DEF NewRow, SafeInv, LockInv, HeadInv
<1>3. /\ n.agg = req[t].agg /\ n.seq = head[t].seq /\ n.key = req[t].key
      /\ n.body = req[t].body /\ n.prev = head[t].prev /\ n.rec = nextRec
  BY DEF NewEvent
<1>4. \A u \in Txns \ {t} : /\ pending'[u] = pending[u]
                           /\ got'[u] = got[u] /\ pc'[u] = pc[u]
                           /\ req'[u] = req[u] /\ head'[u] = head[u]
                           /\ Visible(u)' = Visible(u)
  BY <1>1 DEF Visible
<1>5. pending'[t] = pending[t] \cup {n} /\ Visible(t)' = Visible(t) \cup {n}
  BY <1>1 DEF Visible
<1> HIDE DEF n
\* A row of the aggregate is visible to t: others would need t's lock.
<1>6. \A e \in Rows : e.agg = n.agg => e \in Visible(t) /\ e.seq < n.seq
  <2>1. \A e \in Rows : e.agg = n.agg => e \in Visible(t)
    BY <1>2, <1>3, RowsAre DEF SafeInv, LockInv, Visible
  <2>2. \A e \in Visible(t) : e.seq \in Nat
    BY DEF Visible, Event
  <2>3. \A e \in Visible(t) : e.agg = n.agg => e.seq < n.seq
    BY <1>2, <1>3, <2>2 DEF IsHead, OfAggregate
  <2> QED
    BY <2>1, <2>3
<1>7. \A e \in Rows : e.key # n.key
  BY <1>3, RowsAre DEF NewRow, InsertWaits, Prior, Visible
<1>8. LockInv'
  <2>1. \A u \in Txns : pc'[u] \in {"find", "read", "insert"}
                            => lock'[req'[u].agg] = u
    BY <1>1, <1>4 DEF SafeInv, LockInv
  <2>2. \A u \in Txns : \A e \in pending'[u] : lock'[e.agg] = u
    BY <1>1, <1>2, <1>3, <1>4, <1>5 DEF SafeInv, LockInv
  <2> QED
    BY <2>1, <2>2, <1>1, <1>4 DEF SafeInv, LockInv
<1>9. HeadInv'
  <2>1. ASSUME NEW u \in Txns, pc'[u] = "insert"
        PROVE  IsHead(head'[u], Visible(u)', req'[u].agg)
    <3>1. u # t
      BY <1>1, <2>1
    <3> QED
      BY <1>4, <2>1, <3>1 DEF SafeInv, HeadInv
  <2> QED
    BY <2>1 DEF HeadInv
<1>10. ChainInv'
  <2>1. Log!Chained(n, Visible(t)')
    <3>1. CASE head[t] = [seq |-> 1, prev |-> None]
      BY <1>3, <3>1 DEF Log!Chained
    <3>2. ASSUME NEW e \in OfAggregate(Visible(t), req[t].agg),
                 head[t] = [seq |-> e.seq + 1, prev |-> e.rec]
          PROVE  Log!Chained(n, Visible(t)')
      BY <1>3, <1>5, <3>2 DEF Log!Chained, OfAggregate
    <3> QED
      BY <1>2, <3>1, <3>2 DEF IsHead
  <2>2. ASSUME NEW u \in Txns, NEW e \in pending'[u]
        PROVE  Log!Chained(e, Visible(u)')
    <3>1. CASE u = t
      BY <1>5, <2>1, <2>2, <3>1 DEF SafeInv, ChainInv, Log!Chained
    <3>2. CASE u # t
      BY <1>4, <2>2, <3>2 DEF SafeInv, ChainInv, Log!Chained
    <3> QED
      BY <3>1, <3>2
  <2> QED
    BY <1>1, <2>2 DEF SafeInv, ChainInv, Log!Chained
<1>11. RowInv'
  <2>1. \A e \in Rows' : e \in Rows \/ e = n
    BY <1>1, <1>4, <1>5, RowsAre DEF Rows
  <2>2. \A e \in Rows : e.rec \in Nat /\ e.seq \in Nat /\ e.rec < nextRec
    BY RowsAre DEF Event, SafeInv, RowInv
  <2>3. n.rec = nextRec /\ n.seq \in Nat
    BY <1>2, <1>3 DEF Place
  <2> SUFFICES ASSUME NEW e \in Rows', NEW f \in Rows'
               PROVE  /\ e.rec < nextRec'
                      /\ e.agg = f.agg /\ e.seq = f.seq => e = f
                      /\ e.agg = f.agg /\ e.seq < f.seq => e.rec < f.rec
                      /\ e.key = f.key => e = f
    BY DEF RowInv
  <2>4. CASE e \in Rows /\ f \in Rows
    BY <1>1, <2>2, <2>4 DEF SafeInv, RowInv
  <2>5. CASE e \in Rows /\ f = n
    BY <1>1, <1>6, <1>7, <2>2, <2>3, <2>5
  <2>6. CASE e = n /\ f \in Rows
    BY <1>1, <1>6, <1>7, <2>2, <2>3, <2>6
  <2>7. CASE e = n /\ f = n
    BY <1>1, <2>3, <2>7
  <2> QED
    BY <2>1, <2>4, <2>5, <2>6, <2>7
<1>12. AnswerInv'
  <2>1. \A x \in got'[t] : Names(x, Visible(t)')
    BY <1>1, <1>3, <1>5 DEF SafeInv, AnswerInv, Names
  <2> QED
    BY <1>1, <1>4, <2>1 DEF SafeInv, AnswerInv, Names
<1> QED
  BY <1>8, <1>9, <1>10, <1>11, <1>12 DEF SafeInv

\* Steps that only move a transaction along.
LEMMA LocalStepKeeps ==
  ASSUME TypeOK, SafeInv, NEW t \in Txns,
         UNCHANGED <<committed, pending, nextRec, got, answers>>,
         \/ \E a \in Aggregates, k \in Keys, b \in Bodies : Begin(t, a, k, b)
         \/ Lock(t)
         \/ /\ pc[t] = "find" /\ pc' = [pc EXCEPT ![t] = "read"]
            /\ UNCHANGED <<lock, req, head>>
         \/ \E h \in HeadsOf(Visible(t), req[t].agg) :
               /\ pc[t] = "read" /\ pc' = [pc EXCEPT ![t] = "insert"]
               /\ head' = [head EXCEPT ![t] = h]
               /\ UNCHANGED <<lock, req>>
  PROVE  SafeInv'
<1> USE DEF TypeOK
<1>1. \A u \in Txns : Visible(u)' = Visible(u)
  BY DEF Visible
<1>2. Rows' = Rows
  BY DEF Rows
<1>3. ChainInv' /\ AnswerInv'
  BY <1>1 DEF SafeInv, ChainInv, AnswerInv, Log!Chained, Names
<1>4. RowInv'
  BY <1>2 DEF SafeInv, RowInv
<1>5. CASE \E a \in Aggregates, k \in Keys, b \in Bodies : Begin(t, a, k, b)
  <2>1. /\ pc[t] \in {"idle", "open"} /\ pc' = [pc EXCEPT ![t] = "lock"]
        /\ UNCHANGED <<lock, head>>
        /\ \A u \in Txns \ {t} : req'[u] = req[u]
    BY <1>5 DEF Begin
  <2>2. LockInv'
    BY <2>1 DEF SafeInv, LockInv
  <2>3. HeadInv'
    <3>1. ASSUME NEW u \in Txns, pc'[u] = "insert"
          PROVE  IsHead(head'[u], Visible(u)', req'[u].agg)
      <4>1. u # t
        BY <2>1, <3>1
      <4> QED
        BY <1>1, <2>1, <3>1, <4>1 DEF SafeInv, HeadInv
    <3> QED
      BY <3>1 DEF HeadInv
  <2> QED
    BY <1>3, <1>4, <2>2, <2>3 DEF SafeInv
<1>6. CASE Lock(t)
  <2>1. /\ pc[t] = "lock" /\ pc' = [pc EXCEPT ![t] = "find"]
        /\ lock[req[t].agg] \in {None, t} /\ req[t] \in Request
        /\ lock' = [lock EXCEPT ![req[t].agg] = t]
        /\ UNCHANGED <<req, head>>
    BY <1>6 DEF Lock
  <2>2. \A u \in Txns \ {t} : \A a \in Aggregates :
           lock[a] = u => lock'[a] = u
    BY <2>1, NoneAssumption DEF Request
  <2>3. \A a \in Aggregates : lock[a] = t => lock'[a] = t
    BY <2>1 DEF Request
  <2>4. LockInv'
    <3>1. \A u \in Txns : pc'[u] \in {"find", "read", "insert"}
                              => lock'[req'[u].agg] = u
      BY <2>1, <2>2 DEF SafeInv, LockInv, Request
    <3>2. \A u \in Txns : \A e \in pending'[u] : lock'[e.agg] = u
      BY <2>2, <2>3 DEF SafeInv, LockInv, Event
    <3> QED
      BY <2>1, <3>1, <3>2 DEF SafeInv, LockInv
  <2>5. HeadInv'
    <3>1. ASSUME NEW u \in Txns, pc'[u] = "insert"
          PROVE  IsHead(head'[u], Visible(u)', req'[u].agg)
      <4>1. u # t
        BY <2>1, <3>1
      <4> QED
        BY <1>1, <2>1, <3>1, <4>1 DEF SafeInv, HeadInv
    <3> QED
      BY <3>1 DEF HeadInv
  <2> QED
    BY <1>3, <1>4, <2>4, <2>5 DEF SafeInv
<1>7. CASE /\ pc[t] = "find" /\ pc' = [pc EXCEPT ![t] = "read"]
           /\ UNCHANGED <<lock, req, head>>
  <2>1. LockInv'
    BY <1>7 DEF SafeInv, LockInv
  <2>2. HeadInv'
    <3>1. ASSUME NEW u \in Txns, pc'[u] = "insert"
          PROVE  IsHead(head'[u], Visible(u)', req'[u].agg)
      BY <1>1, <1>7, <3>1 DEF SafeInv, HeadInv
    <3> QED
      BY <3>1 DEF HeadInv
  <2> QED
    BY <1>3, <1>4, <2>1, <2>2 DEF SafeInv
<1>8. ASSUME NEW h \in HeadsOf(Visible(t), req[t].agg),
             pc[t] = "read", pc' = [pc EXCEPT ![t] = "insert"],
             head' = [head EXCEPT ![t] = h], UNCHANGED <<lock, req>>
      PROVE  SafeInv'
  <2>1. LockInv'
    BY <1>8 DEF SafeInv, LockInv
  <2>2. HeadInv'
    <3>1. IsHead(h, Visible(t), req[t].agg)
      BY <1>8, HeadsAre
    <3>2. ASSUME NEW u \in Txns, pc'[u] = "insert"
          PROVE  IsHead(head'[u], Visible(u)', req'[u].agg)
      <4>1. CASE u = t
        BY <1>1, <1>8, <3>1, <4>1
      <4>2. CASE u # t
        BY <1>1, <1>8, <3>2, <4>2 DEF SafeInv, HeadInv
      <4> QED
        BY <4>1, <4>2
    <3> QED
      BY <3>2 DEF HeadInv
  <2> QED
    BY <1>3, <1>4, <2>1, <2>2 DEF SafeInv
<1> QED
  BY <1>5, <1>6, <1>7, <1>8

\* Every step of a command transaction keeps the invariant.
LEMMA StepKeeps == TypeOK /\ SafeInv /\ [Next]_vars => SafeInv'
<1> SUFFICES ASSUME TypeOK, SafeInv, [Next]_vars PROVE SafeInv'
  OBVIOUS
<1>0. nextRec \in Nat /\ nextRec <= nextRec
  BY DEF TypeOK
<1>1. ASSUME NEW t \in Txns, NEW a \in Aggregates, NEW k \in Keys,
             NEW b \in Bodies, Begin(t, a, k, b)
      PROVE  SafeInv'
  <2>1. UNCHANGED <<committed, pending, nextRec, got, answers>>
    BY <1>1 DEF Begin
  <2> QED
    BY <1>1, <2>1, LocalStepKeeps
<1>2. ASSUME NEW t \in Txns, Lock(t) PROVE SafeInv'
  <2>1. UNCHANGED <<committed, pending, nextRec, got, answers>>
    BY <1>2 DEF Lock
  <2> QED
    BY <1>2, <2>1, LocalStepKeeps
<1>3. ASSUME NEW t \in Txns, FindIdempotent(t) PROVE SafeInv'
  <2>1. CASE Replay(t) /\ UNCHANGED nextRec
    BY <1>0, <1>3, <2>1, ReplayKeeps DEF FindIdempotent
  <2>2. CASE RollbackAs(t) /\ UNCHANGED nextRec
    BY <1>0, <2>2, RollbackKeeps
  <2>3. CASE /\ pc' = [pc EXCEPT ![t] = "read"]
             /\ UNCHANGED <<committed, pending, lock, req, head, nextRec, got,
                            answers>>
    BY <1>3, <2>3, LocalStepKeeps DEF FindIdempotent
  <2> QED
    BY <1>3, <2>1, <2>2, <2>3 DEF FindIdempotent
<1>4. ASSUME NEW t \in Txns, ReadHead(t) PROVE SafeInv'
  <2>1. CASE RollbackAs(t) /\ UNCHANGED nextRec
    BY <1>0, <2>1, RollbackKeeps
  <2>2. ASSUME NEW h \in HeadsOf(Visible(t), req[t].agg),
               head' = [head EXCEPT ![t] = h],
               pc' = [pc EXCEPT ![t] = "insert"],
               UNCHANGED <<committed, pending, lock, req, nextRec, got,
                           answers>>
        PROVE  SafeInv'
    BY <1>4, <2>2, LocalStepKeeps DEF ReadHead
  <2> QED
    BY <1>4, <2>1, <2>2 DEF ReadHead
<1>5. ASSUME NEW t \in Txns, Insert(t) PROVE SafeInv'
  <2>0. nextRec' \in Nat /\ nextRec <= nextRec'
    BY <1>5 DEF Insert, TypeOK
  <2>1. CASE NewRow(t)
    BY <2>1, NewRowKeeps
  <2>2. CASE Replay(t)
    BY <1>5, <2>0, <2>2, ReplayKeeps DEF Insert
  <2>3. CASE RollbackAs(t)
    BY <2>0, <2>3, RollbackKeeps
  <2> QED
    BY <1>5, <2>1, <2>2, <2>3 DEF Insert, NewRow
<1>6. ASSUME NEW t \in Txns, Commit(t) PROVE SafeInv'
  BY <1>6, CommitKeeps
<1>7. ASSUME NEW t \in Txns, Rollback(t) PROVE SafeInv'
  BY <1>0, <1>7, RollbackKeeps DEF Rollback
<1>8. CASE UNCHANGED vars
  <2> USE <1>8 DEF vars
  <2>1. LockInv' /\ RowInv'
    BY DEF SafeInv, LockInv, RowInv, Rows
  <2>2. HeadInv'
    BY DEF SafeInv, HeadInv, Visible, IsHead, OfAggregate
  <2>3. ChainInv' /\ AnswerInv'
    BY DEF SafeInv, ChainInv, AnswerInv, Visible, Names, Log!Chained
  <2> QED
    BY <2>1, <2>2, <2>3 DEF SafeInv
<1> QED
  BY <1>1, <1>2, <1>3, <1>4, <1>5, <1>6, <1>7, <1>8 DEF Next

\* The inductive invariant holds in every reachable state.
LEMMA StoreSafeInv == Spec => []SafeInv
<1>1. Init => SafeInv
  BY DEF Init, SafeInv, LockInv, HeadInv, ChainInv, RowInv, AnswerInv, Rows
<1>2. QED
  BY <1>1, StepKeeps, StoreTypeOK, PTL DEF Spec

-----------------------------------------------------------------------------
(***************************************************************************)
(* What the store guarantees.                                              *)
(***************************************************************************)
\* verify_events never finds a broken chain: gapless, unrepeated aggregate
\* sequence numbers, matching previous hashes, recorded order in agreement.
THEOREM StoreChainIntact == Spec => []ChainIntact
<1>1. TypeOK /\ SafeInv => ChainIntact
  BY DEF TypeOK, SafeInv, ChainInv, RowInv, Rows, ChainIntact,
         Log!OneEventPerPlace
<1> QED
  BY <1>1, StoreTypeOK, StoreSafeInv, PTL

\* Retries under one idempotency key are all answered with one Event.
THEOREM StoreAnswersAgree == Spec => []AnswersAgree
<1>1. TypeOK /\ SafeInv => AnswersAgree
  <2> SUFFICES ASSUME TypeOK, SafeInv PROVE AnswersAgree
    OBVIOUS
  <2>1. \A x \in answers : Names(x, committed)
    BY DEF SafeInv, AnswerInv
  <2>2. ASSUME NEW x \in answers, NEW y \in answers, x.key = y.key
        PROVE  x = y
    <3>1. PICK e \in committed :
             e.key = x.key /\ e.body = x.body /\ e.rec = x.rec
      BY <2>1 DEF Names
    <3>2. PICK f \in committed :
             f.key = y.key /\ f.body = y.body /\ f.rec = y.rec
      BY <2>1 DEF Names
    <3>3. e = f
      BY <2>2, <3>1, <3>2 DEF SafeInv, RowInv, Rows
    <3> QED
      BY <2>2, <3>1, <3>2, <3>3 DEF TypeOK, Answer
  <2> QED
    BY <2>1, <2>2 DEF AnswersAgree, Names
<1> QED
  BY <1>1, StoreTypeOK, StoreSafeInv, PTL

\* The handler of a violated aggregate_seq index is dead code.
THEOREM StorePlaceStaysFree == Spec => []PlaceStaysFree
<1>1. TypeOK /\ SafeInv => PlaceStaysFree
  <2> SUFFICES ASSUME TypeOK, SafeInv, NEW t \in Txns, pc[t] = "insert",
                      NEW e \in Rows, e.agg = req[t].agg
               PROVE  e.seq # head[t].seq
    BY DEF PlaceStaysFree, PlaceTaken
  <2>1. IsHead(head[t], Visible(t), req[t].agg) /\ lock[req[t].agg] = t
    BY DEF SafeInv, HeadInv, LockInv
  <2>2. e \in Visible(t)
    BY <2>1, RowsAre DEF SafeInv, LockInv, Visible
  <2>3. \A f \in Visible(t) : f.seq \in Nat
    BY DEF TypeOK, Visible, Event
  <2>4. e \in OfAggregate(Visible(t), req[t].agg)
    BY <2>2 DEF OfAggregate
  <2>5. PICK h \in OfAggregate(Visible(t), req[t].agg) :
           /\ \A f \in OfAggregate(Visible(t), req[t].agg) : f.seq <= h.seq
           /\ head[t] = [seq |-> h.seq + 1, prev |-> h.rec]
    BY <2>1, <2>4 DEF IsHead
  <2>6. h.seq \in Nat /\ e.seq \in Nat /\ e.seq <= h.seq
    BY <2>2, <2>3, <2>4, <2>5 DEF OfAggregate
  <2> QED
    BY <2>5, <2>6
<1> QED
  BY <1>1, StoreTypeOK, StoreSafeInv, PTL

\* Committed Events stay committed.
LEMMA CommittedGrows == [Next]_vars => committed \subseteq committed'
BY DEF Next, vars, Begin, Lock, FindIdempotent, Replay, RollbackAs, ReadHead,
       Insert, Commit, Rollback

\* The store implements the abstract log: the committed rows start empty, only
\* grow, and are well formed after every step.
THEOREM StoreImplementsLog == Spec => ImplementsLog
<1>1. Init => Log!LogInit
  BY DEF Init, Log!LogInit
<1>2. TypeOK /\ SafeInv => Log!WellFormed(committed)
  BY DEF TypeOK, SafeInv, ChainInv, RowInv, Rows, Log!WellFormed,
         Log!OneEventPerPlace, Log!OneEventPerKey, Log!Event, Event
<1>3. TypeOK' /\ SafeInv' => Log!WellFormed(committed')
  BY DEF TypeOK, SafeInv, ChainInv, RowInv, Rows, Log!WellFormed,
         Log!OneEventPerPlace, Log!OneEventPerKey, Log!Event, Event
<1>4. TypeOK' /\ SafeInv' /\ [Next]_vars => [Log!AppendBatch]_committed
  BY <1>3, CommittedGrows DEF Log!AppendBatch
<1> QED
  BY <1>1, <1>4, StoreTypeOK, StoreSafeInv, PTL
     DEF Spec, ImplementsLog, Log!LogSpec

-----------------------------------------------------------------------------
(***************************************************************************)
(* The stream of Server-Sent Events.                                       *)
(***************************************************************************)
\* recorded_seq names one row, committed or not.
RecordedOnce == \A e, f \in Rows : e.rec = f.rec => e = f

\* A step of the store adds no row, or one with the sequence's next value.
LEMMA RowsGrow ==
  ASSUME TypeOK, [Next]_vars
  PROVE  \/ Rows' \subseteq Rows
         \/ \E r : r.rec = nextRec /\ Rows' \subseteq Rows \cup {r}
<1>1. ASSUME NEW t \in Txns, RollbackAs(t) PROVE Rows' \subseteq Rows
  BY <1>1 DEF TypeOK, RollbackAs, Rows
<1>2. ASSUME UNCHANGED <<committed, pending>> PROVE Rows' \subseteq Rows
  BY <1>2 DEF Rows
<1>3. ASSUME NEW t \in Txns, Commit(t) PROVE Rows' \subseteq Rows
  BY <1>3 DEF TypeOK, Commit, Rows
<1>4. ASSUME NEW t \in Txns,
             pending' = [pending EXCEPT ![t] = @ \cup {NewEvent(t)}],
             UNCHANGED committed
      PROVE  NewEvent(t).rec = nextRec /\ Rows' \subseteq Rows \cup {NewEvent(t)}
  <2>1. NewEvent(t).rec = nextRec
    BY DEF NewEvent
  <2>2. \A u \in Txns : pending'[u] \subseteq pending[u] \cup {NewEvent(t)}
    BY <1>4 DEF TypeOK
  <2> QED
    BY <1>4, <2>1, <2>2 DEF Rows
<1>5. CASE UNCHANGED vars
  BY <1>2, <1>5 DEF vars
<1>6. ASSUME NEW t \in Txns, Insert(t)
      PROVE  \/ Rows' \subseteq Rows
             \/ \E r : r.rec = nextRec /\ Rows' \subseteq Rows \cup {r}
  BY <1>1, <1>2, <1>4, <1>6 DEF Insert, Replay
<1>7. ASSUME NEW t \in Txns,
             \/ \E a \in Aggregates, k \in Keys, b \in Bodies : Begin(t, a, k, b)
             \/ Lock(t) \/ FindIdempotent(t) \/ ReadHead(t) \/ Rollback(t)
      PROVE  Rows' \subseteq Rows
  BY <1>1, <1>2, <1>7
     DEF Begin, Lock, FindIdempotent, Replay, ReadHead, Rollback
<1> QED
  BY <1>3, <1>5, <1>6, <1>7 DEF Next

\* The sequence hands every value out once: RowInv keeps all rows below
\* nextRec.
LEMMA StoreRecordedOnce == Spec => []RecordedOnce
<1>1. Init => RecordedOnce
  BY DEF Init, RecordedOnce, Rows
<1>2. TypeOK /\ SafeInv /\ RecordedOnce /\ [Next]_vars => RecordedOnce'
  <2> SUFFICES ASSUME TypeOK, SafeInv, RecordedOnce, [Next]_vars
               PROVE  RecordedOnce'
    OBVIOUS
  <2>1. \A e \in Rows : e.rec \in Nat /\ e.rec < nextRec
    BY RowsAre DEF TypeOK, Event, SafeInv, RowInv
  <2>2. nextRec \in Nat
    BY DEF TypeOK
  <2> QED
    BY <2>1, <2>2, RowsGrow DEF RecordedOnce
<1> QED
  BY <1>1, <1>2, StoreTypeOK, StoreSafeInv, PTL DEF Spec

\* The stream's state: what has been read and not yet received is committed
\* and above the cursor.
FeedInv ==
  /\ received \in Seq(Nat)
  /\ batch \subseteq committed
  /\ \A e \in batch : Cursor < e.rec
  /\ FeedInOrder

\* The cursor is the largest value received.
LEMMA CursorIsLast ==
  ASSUME received \in Seq(Nat), FeedInOrder
  PROVE  /\ Cursor \in Nat
         /\ \A i \in 1 .. Len(received) : received[i] <= Cursor
<1>1. CASE received = <<>>
  BY <1>1 DEF Cursor
<1>2. CASE received # <<>>
  <2>1. Len(received) \in Nat /\ Len(received) \in 1 .. Len(received)
    BY <1>2
  <2>2. \A i \in 1 .. Len(received) : received[i] \in Nat
    OBVIOUS
  <2> QED
    BY <1>2, <2>1, <2>2 DEF Cursor, FeedInOrder
<1> QED
  BY <1>1, <1>2

\* A client receives only committed Events, in recorded order, none twice,
\* whatever transactions commit and however often its connection breaks.
THEOREM StoreFeedInOrder == FeedSpec => []FeedInOrder
<1>1. FeedInit => FeedInv
  BY DEF FeedInit, FeedInv, FeedInOrder
<1>2. TypeOK /\ RecordedOnce /\ FeedInv /\ [FeedNext]_<<vars, feedVars>>
         => FeedInv'
  <2> SUFFICES ASSUME TypeOK, RecordedOnce, FeedInv,
                      [FeedNext]_<<vars, feedVars>>
               PROVE  FeedInv'
    OBVIOUS
  <2>0. \A e \in committed : e.rec \in Nat
    BY DEF TypeOK, Event
  <2>1. Cursor \in Nat /\ \A i \in 1 .. Len(received) : received[i] <= Cursor
    BY CursorIsLast DEF FeedInv
  <2>2. ASSUME [Next]_vars, UNCHANGED feedVars PROVE FeedInv'
    BY <2>2, CommittedGrows DEF feedVars, FeedInv, FeedInOrder, Cursor
  <2>3. CASE Poll
    <3>1. batch' \subseteq After(Cursor) /\ UNCHANGED <<committed, received>>
      BY <2>3 DEF Poll, vars
    <3> QED
      BY <3>1 DEF After, FeedInv, FeedInOrder, Cursor
  <2>4. CASE Receive
    <3>1. PICK e \in batch : /\ \A f \in batch : e.rec <= f.rec
                             /\ batch' = batch \ {e}
                             /\ received' = Append(received, e.rec)
      BY <2>4 DEF Receive
    <3>2. UNCHANGED committed
      BY <2>4 DEF Receive, vars
    <3>3. e \in committed /\ e.rec \in Nat /\ Cursor < e.rec
      BY <2>0 DEF FeedInv
    <3>4. /\ received' \in Seq(Nat) /\ Len(received') = Len(received) + 1
          /\ received'[Len(received')] = e.rec
          /\ \A i \in 1 .. Len(received) : received'[i] = received[i]
          /\ Len(received) \in Nat
      BY <3>1, <3>3 DEF FeedInv
    <3>5. Cursor' = e.rec
      BY <3>4 DEF Cursor
    <3>6. \A f \in batch' : Cursor' < f.rec
      <4> SUFFICES ASSUME NEW f \in batch' PROVE e.rec < f.rec
        BY <3>5
      <4>1. f \in batch /\ f # e /\ f \in committed /\ f.rec \in Nat
        BY <2>0, <3>1 DEF FeedInv
      <4>2. e.rec # f.rec
        BY <3>3, <4>1 DEF RecordedOnce, Rows
      <4> QED
        BY <3>1, <3>3, <4>1, <4>2
    <3>7. \A i \in 1 .. Len(received') : i \in 1 .. Len(received) \/ i = Len(received')
      BY <3>4
    <3>8. \A i \in 1 .. Len(received') : \E f \in committed' : f.rec = received'[i]
      BY <3>2, <3>3, <3>4, <3>7 DEF FeedInv, FeedInOrder
    <3>9. \A i, j \in 1 .. Len(received') : i < j => received'[i] < received'[j]
      <4> SUFFICES ASSUME NEW i \in 1 .. Len(received'),
                          NEW j \in 1 .. Len(received'), i < j
                   PROVE  received'[i] < received'[j]
        OBVIOUS
      <4>1. i \in 1 .. Len(received) /\ received[i] <= Cursor
            /\ received[i] \in Nat
        BY <2>1, <3>4 DEF FeedInv
      <4>2. CASE j = Len(received')
        BY <2>1, <3>3, <3>4, <4>1, <4>2
      <4>3. CASE j \in 1 .. Len(received)
        BY <3>4, <4>1, <4>3 DEF FeedInv, FeedInOrder
      <4> QED
        BY <3>7, <4>2, <4>3
    <3> QED
      BY <3>1, <3>2, <3>4, <3>6, <3>8, <3>9 DEF FeedInv, FeedInOrder
  <2>5. CASE Reconnect
    BY <2>5 DEF Reconnect, vars, FeedInv, FeedInOrder, Cursor
  <2>6. CASE UNCHANGED <<vars, feedVars>>
    BY <2>2, <2>6
  <2> QED
    BY <2>2, <2>3, <2>4, <2>5, <2>6 DEF FeedNext
<1>3. FeedSpec => Spec
  <2>1. FeedInit => Init
    BY DEF FeedInit
  <2>2. [FeedNext]_<<vars, feedVars>> => [Next]_vars
    BY DEF FeedNext, Poll, Receive, Reconnect
  <2> QED
    BY <2>1, <2>2, PTL DEF FeedSpec, Spec
<1>4. FeedInv => FeedInOrder
  BY DEF FeedInv
<1> QED
  BY <1>1, <1>2, <1>3, <1>4, StoreTypeOK, StoreRecordedOnce, PTL DEF FeedSpec
=============================================================================
