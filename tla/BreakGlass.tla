------------------------------ MODULE BreakGlass ------------------------------
(***************************************************************************)
(* Break-glass sessions (server/security/breakglass.py): an owner opens an *)
(* emergency session with a recovery code, ends it or lets the sweep end   *)
(* it, and every ended session gets a Task for its review in a transaction *)
(* of its own.  Codes are rows that an UPDATE takes once; the end of a     *)
(* session is an Event with the session as its idempotency key.  TOTP, the *)
(* rate limit and ownership only refuse; one account is modelled, because  *)
(* sessions of different accounts share nothing.                           *)
(***************************************************************************)
EXTENDS Integers, Sequences, FiniteSets

CONSTANTS
  Hands,        \* requests in flight
  Sessions,     \* session ids
  Codes         \* the account's recovery codes

ASSUME BreakGlassAssumption == {"none", "replaced"} \cap Codes = {}

VARIABLES
  bg,           \* breakglass_sessions: ended, code, late, posthoc
  ending,       \* BREAK_GLASS_ENDED Events per session: reasons, in order
  told,         \* announcements (outbox dedupe keys) per session
  spent,        \* recovery codes with used_at
  codeLock,     \* codes a transaction has updated, with the transaction
  bgLock,       \* sessions whose row is locked, with the transaction
  hand,         \* the request in each hand
  review        \* review Tasks created per session

breakGlassVars == <<bg, ending, told, spent, codeLock, bgLock, hand, review>>

NoBreakGlass == [ended |-> "NEVER", code |-> "none", late |-> FALSE, posthoc |-> FALSE]
EmptyHand == [op |-> "idle", at |-> "none", code |-> "none", due |-> {}, read |-> {}]

BreakGlassInit ==
  /\ bg = [s \in Sessions |-> NoBreakGlass]
  /\ ending = [s \in Sessions |-> <<>>]
  /\ told = [s \in Sessions |-> {}]
  /\ spent = {} /\ codeLock = {} /\ bgLock = {}
  /\ hand = [h \in Hands |-> EmptyHand]
  /\ review = [s \in Sessions |-> 0]

SessionActive(s) == bg[s].ended = "NO"
ReleaseHand(h) ==
  /\ codeLock' = {l \in codeLock : l[2] # h}
  /\ bgLock' = {l \in bgLock : l[2] # h}

-----------------------------------------------------------------------------
\* UPDATE recovery_codes ... WHERE used_at IS NULL: waits for a transaction
\* that has updated the row, and finds it used or not.
CodeFree(c) == c \notin spent /\ \A l \in codeLock : l[1] # c

\* POST /activate: consume_recovery_code, the first write.
ConsumeRecoveryCode(h, c) ==
  /\ hand[h].op = "idle" /\ CodeFree(c)
  /\ codeLock' = codeLock \cup {<<c, h>>}
  /\ hand' = [hand EXCEPT ![h] = [EmptyHand EXCEPT !.op = "activate", !.code = c]]
  /\ UNCHANGED <<bg, ending, told, spent, bgLock, review>>

\* active_session_for: any active session, unless it is overdue, refuses;
\* no lock keeps another transaction from opening one meanwhile.
CheckActive(h) ==
  /\ hand[h].op = "activate"
  /\ \A s \in Sessions : SessionActive(s) => bg[s].late
  /\ hand' = [hand EXCEPT ![h].op = "insert"]
  /\ UNCHANGED <<bg, ending, told, spent, codeLock, bgLock, review>>

\* activate: BREAK_GLASS_STARTED, the row, the announcement; commit.
Activate(h, s) ==
  /\ hand[h].op = "insert" /\ bg[s] = NoBreakGlass
  /\ bg' = [bg EXCEPT ![s] = [NoBreakGlass EXCEPT !.ended = "NO", !.code = hand[h].code]]
  /\ told' = [told EXCEPT ![s] = {"STARTED"}]
  /\ spent' = spent \cup {hand[h].code}
  /\ hand' = [hand EXCEPT ![h] = EmptyHand]
  /\ ReleaseHand(h)
  /\ UNCHANGED <<ending, review>>

\* issue_recovery_codes replaces the codes: none is left in use or used.
IssueRecoveryCodes ==
  /\ codeLock = {}
  /\ spent # {} /\ spent' = {}
  /\ bg' = [s \in Sessions |->
              IF bg[s] = NoBreakGlass THEN bg[s] ELSE [bg[s] EXCEPT !.code = "replaced"]]
  /\ UNCHANGED <<ending, told, codeLock, bgLock, hand, review>>

-----------------------------------------------------------------------------
RowFreeFor(s) == \A l \in bgLock : l[1] # s

\* terminate: _load FOR UPDATE of an active session.
LoadSession(h, s) ==
  /\ hand[h].op = "idle" /\ RowFreeFor(s) /\ SessionActive(s)
  /\ bgLock' = bgLock \cup {<<s, h>>}
  /\ hand' = [hand EXCEPT ![h] = [EmptyHand EXCEPT !.op = "terminate", !.at = s]]
  /\ UNCHANGED <<bg, ending, told, spent, codeLock, review>>

\* Mutant of EndEvent: the Event is appended without an idempotency key.
EndEventUnkeyed(stream, reason) == Append(stream, reason)

\* The append of BREAK_GLASS_ENDED: the key answers a second one with the
\* first when the payload is the same.
EndEvent(stream, reason) == IF stream = <<>> THEN <<reason>> ELSE stream
EndConflicts(s, reason) == ending[s] # <<>> /\ ending[s] # <<reason>>

\* _end of every session in S with one reason, committed.  The request goes
\* on to the reviews.
EndSessions(h, S, reason) ==
  /\ ending' = [s \in Sessions |-> IF s \in S THEN EndEvent(ending[s], reason) ELSE ending[s]]
  /\ bg' = [s \in Sessions |-> IF s \in S THEN [bg[s] EXCEPT !.ended = reason] ELSE bg[s]]
  /\ told' = [s \in Sessions |-> IF s \in S THEN told[s] \cup {"ENDED"} ELSE told[s]]
  /\ hand' = [hand EXCEPT ![h] = [EmptyHand EXCEPT !.op = "reviews", !.due = S]]
  /\ ReleaseHand(h)
  /\ UNCHANGED <<spent, review>>

TerminateSession(h) ==
  /\ hand[h].op = "terminate" /\ ~EndConflicts(hand[h].at, "TERMINATED")
  /\ EndSessions(h, {hand[h].at}, "TERMINATED")

\* expire_sessions: the overdue sessions are read without a lock ...
ReadOverdue(h) ==
  LET S == {s \in Sessions : SessionActive(s) /\ bg[s].late} IN
  /\ hand[h].op = "idle" /\ S # {}
  /\ hand' = [hand EXCEPT ![h] = [EmptyHand EXCEPT !.op = "expire", !.due = S]]
  /\ UNCHANGED <<bg, ending, told, spent, codeLock, bgLock, review>>

\* ... each is locked, and ended whether or not it still is active ...
LockOverdue(h, s) ==
  /\ hand[h].op = "expire" /\ s \in hand[h].due \ hand[h].read /\ RowFreeFor(s)
  /\ ~EndConflicts(s, "EXPIRED")
  /\ bgLock' = bgLock \cup {<<s, h>>}
  /\ hand' = [hand EXCEPT ![h].read = @ \cup {s}]
  /\ UNCHANGED <<bg, ending, told, spent, codeLock, review>>

\* ... and the sweep commits.
ExpireSessions(h) ==
  /\ hand[h].op = "expire" /\ hand[h].read = hand[h].due
  /\ EndSessions(h, hand[h].due, "EXPIRED")

\* open_posthoc, in a transaction per session: FOR UPDATE, once, only for a
\* session that has ended.  The Task's creation may be refused (_skip), and
\* a Task whose run could not be created is not recorded.
OpenPosthoc(h, s) ==
  /\ hand[h].op = "reviews" /\ s \in hand[h].due /\ RowFreeFor(s)
  /\ hand' = [hand EXCEPT ![h].due = @ \ {s}]
  /\ IF SessionActive(s) \/ bg[s].posthoc THEN UNCHANGED <<bg, review>>
     ELSE \/ /\ bg' = [bg EXCEPT ![s].posthoc = TRUE]
             /\ review' = [review EXCEPT ![s] = @ + 1]
          \/ UNCHANGED <<bg, review>>
  /\ UNCHANGED <<ending, told, spent, codeLock, bgLock>>

\* A refusal (BREAK_GLASS_ALREADY_ACTIVE, IDEMPOTENCY_CONFLICT in the sweep)
\* or a crash rolls the open transaction back; the reviews that were still to
\* be opened are forgotten.
Abandon(h) ==
  /\ hand[h].op # "idle" /\ hand' = [hand EXCEPT ![h] = EmptyHand] /\ ReleaseHand(h)
  /\ UNCHANGED <<bg, ending, told, spent, review>>

\* expires_at passes.
Overrun(s) ==
  /\ SessionActive(s) /\ ~bg[s].late /\ bg' = [bg EXCEPT ![s].late = TRUE]
  /\ UNCHANGED <<ending, told, spent, codeLock, bgLock, hand, review>>

BreakGlassNext ==
  \/ \E h \in Hands :
       \/ \E c \in Codes : ConsumeRecoveryCode(h, c)
       \/ CheckActive(h) \/ \E s \in Sessions : Activate(h, s)
       \/ \E s \in Sessions : LoadSession(h, s) \/ LockOverdue(h, s) \/ OpenPosthoc(h, s)
       \/ TerminateSession(h) \/ ReadOverdue(h) \/ ExpireSessions(h) \/ Abandon(h)
  \/ IssueRecoveryCodes
  \/ \E s \in Sessions : Overrun(s)

BreakGlassSpec == BreakGlassInit /\ [][BreakGlassNext]_breakGlassVars

-----------------------------------------------------------------------------
BreakGlassTypeOK ==
  /\ \A s \in Sessions :
       /\ bg[s].ended \in {"NEVER", "NO", "TERMINATED", "EXPIRED"}
       /\ bg[s].code \in Codes \cup {"none", "replaced"}
       /\ bg[s].late \in BOOLEAN /\ bg[s].posthoc \in BOOLEAN
  /\ spent \subseteq Codes /\ codeLock \subseteq Codes \X Hands
  /\ bgLock \subseteq Sessions \X Hands /\ review \in [Sessions -> Nat]

\* Whatever a terminating owner, two overlapping sweeps and failed review
\* transactions do: a session ends with one Event whose reason the row keeps,
\* no two sessions were opened with one recovery code, a session has at most
\* one recorded review Task and only after its end, and it is announced in
\* both directions once it has ended (terminate, expire_sessions, _end,
\* open_posthoc, consume_recovery_code).
SessionEndsOnce ==
  \A s \in Sessions :
    /\ ending[s] = IF bg[s].ended \in {"NEVER", "NO"} THEN <<>> ELSE <<bg[s].ended>>
    /\ bg[s].ended \in {"TERMINATED", "EXPIRED"} <=> told[s] = {"STARTED", "ENDED"}
    /\ review[s] > 0 => review[s] = 1 /\ ~SessionActive(s) /\ bg[s].posthoc
    /\ \A r \in Sessions \ {s} : bg[s].code \in Codes => bg[r].code # bg[s].code
    /\ bg[s].code \in Codes => bg[s].code \in spent
===============================================================================
