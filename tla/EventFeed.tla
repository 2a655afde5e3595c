------------------------------ MODULE EventFeed -----------------------------
(***************************************************************************)
(* The Server-Sent Events stream over the event store                      *)
(* (server/api/v1/events.py, PostgresEventStore.read_since): a client reads*)
(* batches of committed Events above its cursor, in recorded_seq order, and*)
(* reconnects with the id of the last Event it received.                   *)
(***************************************************************************)
EXTENDS EventStore, Sequences, FiniteSets

CONSTANT BatchLimit  \* most Events one read_since returns

VARIABLES batch,     \* Events read by the server and not yet received
          received   \* recorded_seq of the Events the client has, in order

feedVars == <<batch, received>>

\* Last-Event-ID, or 0 for a client that has received nothing.
Cursor == IF received = <<>> THEN 0 ELSE received[Len(received)]

FeedInit == Init /\ batch = {} /\ received = <<>>

\* Mutant of After: the Event at the cursor is read again.
AfterInclusive(n) == {e \in committed : e.rec >= n}

After(n) == {e \in committed : e.rec > n}

\* read_since(cursor, limit): the lowest recorded_seq values above the cursor.
\* An empty batch makes the server sleep and poll again.
Poll ==
  /\ batch = {}
  /\ batch' = {e \in After(Cursor) :
                 Cardinality({f \in After(Cursor) : f.rec < e.rec})
                   < BatchLimit}
  /\ UNCHANGED <<vars, received>>

\* The next chunk reaches the client.
Receive ==
  /\ \E e \in batch :
        /\ \A f \in batch : e.rec <= f.rec
        /\ batch' = batch \ {e}
        /\ received' = Append(received, e.rec)
  /\ UNCHANGED vars

\* The connection breaks: what was read but not received is lost, the client
\* reconnects with its Last-Event-ID.
Reconnect ==
  /\ batch # {}
  /\ batch' = {}
  /\ UNCHANGED <<vars, received>>

FeedNext ==
  \/ Next /\ UNCHANGED feedVars
  \/ Poll
  \/ Receive
  \/ Reconnect

FeedSpec == FeedInit /\ [][FeedNext]_<<vars, feedVars>>

-----------------------------------------------------------------------------
\* Whatever commits, disconnects and reconnections happen between its polls,
\* a client receives only committed Events, in recorded order and none twice.
FeedInOrder ==
  /\ \A i \in 1 .. Len(received) : \E e \in committed : e.rec = received[i]
  /\ \A i, j \in 1 .. Len(received) : i < j => received[i] < received[j]

\* "clients resume with Last-Event-ID without gaps": an Event at or below the
\* client's cursor has been received.
FeedNoGap ==
  \A e \in committed :
    e.rec <= Cursor => \E i \in 1 .. Len(received) : received[i] = e.rec
=============================================================================
