----------------------------- MODULE Brainstorm -----------------------------
(***************************************************************************)
(* A brainstorm session (server/application/brainstorm.py and              *)
(* server/brainstorm/).  A command loads the session without a lock,       *)
(* decides from what it loaded, and appends its Event behind whatever the  *)
(* stream holds by then; only the UNIQUE sequence of the transcript        *)
(* notices that the session moved in between.                              *)
(***************************************************************************)
EXTENDS Integers, Sequences, FiniteSets
Seats == INSTANCE SequencesExt

CONSTANTS
  Callers,      \* requests handled at once
  BsRequests,   \* requests, each with one idempotency key; a retry repeats it
  Asked,        \* what the requests may ask for: verb and account of each
  Agents,       \* accounts of Agents
  Humans,       \* accounts of Humans
  LimitChoices, \* limits a facilitator may set: consecutive, perAgent, total
  ActionItems,  \* action items of the Decision
  MaxCalls      \* bound: how many requests are made, retries included

Accounts == Agents \cup Humans
BsVerbs == {"contribute", "join", "pause", "resume", "close", "summarize", "approve", "decide", "taskify"}

ASSUME BrainstormAssumption ==
  /\ BsRequests \subseteq Nat \ {0} /\ Agents \cap Humans = {} /\ IsFiniteSet(Accounts) /\ MaxCalls \in Nat
  /\ Asked \subseteq [BsRequests -> [verb : BsVerbs, who : Accounts]]
  /\ LimitChoices \subseteq [consecutive : Nat, perAgent : Nat, total : Nat]

VARIABLES
  request,   \* what each request asks for: verb and account
  session,   \* row of brainstorms with its participants
  stream,    \* Events of the session and of its Decision
  turns,     \* brainstorm_turns
  turnItems, \* brainstorm_turn work items: turn and Agent
  summary,   \* the summary: none, DRAFT, APPROVED; and how often it was posted
  decision,  \* the Decision: status, and the Task linked to each action item
  made,      \* Tasks created from action items: item and request
  guidance,  \* guidance requests queued for the facilitator
  call,      \* what each caller is doing
  calls      \* number of requests made

brainstormVars == <<request, session, stream, turns, turnItems, summary, decision, made, guidance, call, calls>>

NoCall == [req |-> 0, at |-> "idle", saw |-> <<>>, linked |-> {}]

\* next_agent: round robin over the Agents' seats.
AgentSeats(s) == SelectSeq(s.seats, LAMBDA a : a \in Agents)
NextAgent(s) == LET seats == AgentSeats(s) IN
  IF seats = <<>> THEN "nobody" ELSE seats[(s.turnIndex % Len(seats)) + 1]

\* _deliver_next_turn: one work item for each turn number, whoever it was for.
DeliverNextTurn(s, items) ==
  IF s.status # "OPEN" \/ NextAgent(s) = "nobody" \/ (\E i \in items : i.turn = s.turnNo + 1) THEN items
  ELSE items \cup {[turn |-> s.turnNo + 1, agent |-> NextAgent(s)]}

\* start_brainstorm has opened the session and seated its participants.
Opened(seats, limits) ==
  [status |-> "OPEN", turnNo |-> 0, turnIndex |-> 0, last |-> "nobody", consecutive |-> 0,
   seats |-> seats, taken |-> [a \in Accounts |-> 0], limits |-> limits]

BrainstormInit ==
  /\ request \in Asked
  /\ \E seats \in Seats!SetToSeqs(Accounts), n \in 1..Cardinality(Accounts), l \in LimitChoices :
       session = Opened(SubSeq(seats, 1, n), l)
  /\ stream = <<[type |-> "BRAINSTORM_OPENED", key |-> 0, body |-> 0]>>
  /\ turnItems = DeliverNextTurn(session, {})
  /\ turns = <<>> /\ made = {} /\ guidance = {} /\ calls = 0
  /\ summary = [status |-> "none", posts |-> 0]
  /\ decision = [status |-> "none", links |-> {}]
  /\ call = [c \in Callers |-> NoCall]

-----------------------------------------------------------------------------
\* A caller takes a request up: _state, load.
ReadSession(c, r) ==
  /\ call[c] = NoCall /\ calls < MaxCalls /\ calls' = calls + 1
  /\ call' = [call EXCEPT ![c] = [req |-> r, at |-> request[r].verb, saw |-> session,
                                  linked |-> {l.item : l \in decision.links}]]
  /\ UNCHANGED <<request, session, stream, turns, turnItems, summary, decision, made, guidance>>

SessionSeen(c) == call[c].saw
CallerOf(c) == request[call[c].req].who
CallAt(c, verb) == call[c].at = verb
EndCall(c) == call' = [call EXCEPT ![c] = NoCall]

\* _append: a request with the key of an Event of this kind answers from it if
\* it asks for the same, and fails if not.
PriorEvent(type, key) == SelectSeq(stream, LAMBDA e : e.type = type /\ e.key = key)
FreshEvent(type, key) == PriorEvent(type, key) = <<>>
SameBody(type, key, body) == PriorEvent(type, key) # <<>> /\ PriorEvent(type, key)[1].body = body
AppendEvent(type, key, body) == stream' = Append(stream, [type |-> type, key |-> key, body |-> body])

\* Every other end of a command leaves the session alone: a refusal, a replay,
\* a conflict, a violated constraint, a lost connection.
RefuseCall(c) ==
  /\ call[c] # NoCall /\ EndCall(c)
  /\ UNCHANGED <<request, session, stream, turns, turnItems, summary, decision, made, guidance, calls>>

-----------------------------------------------------------------------------
\* limits.check, for the session the command loaded.  A limit of 0 is none.
OverLimit(n, limit) == limit # 0 /\ n > limit
ConsecutiveOf(s, a) == IF s.last = a THEN s.consecutive + 1 ELSE 1
Breach(s, a) ==
  \/ OverLimit(ConsecutiveOf(s, a), s.limits.consecutive)
  \/ a \in Agents /\ OverLimit(s.taken[a] + 1, s.limits.perAgent)
  \/ OverLimit(s.turnNo + 1, s.limits.total)

MayContribute(s, a) == s.status = "OPEN" /\ a \in Seats!ToSet(s.seats)
HoldsTurn(s, a) == a \in Humans \/ NextAgent(s) = a

\* Mutant of SeqFree: no UNIQUE (brainstorm_id, seq).
SeqUnchecked(seq) == TRUE

\* turns.record: UNIQUE (brainstorm_id, seq).
SeqFree(seq) == \A i \in DOMAIN turns : turns[i].seq # seq

\* engine.advance: turn_no and turns_taken count up from the row, the rest is
\* computed from what the command loaded.
AdvanceTurn(saw, a) ==
  [session EXCEPT !.turnNo = @ + 1, !.turnIndex = IF a \in Agents THEN saw.turnIndex + 1 ELSE saw.turnIndex,
                  !.last = a, !.consecutive = ConsecutiveOf(saw, a), !.taken[a] = @ + 1]

\* contribute_turn
ContributeTurn(c) ==
  LET saw == SessionSeen(c)  a == CallerOf(c)  r == call[c].req IN
  /\ CallAt(c, "contribute") /\ MayContribute(saw, a) /\ ~Breach(saw, a) /\ HoldsTurn(saw, a)
  /\ FreshEvent("IDEA_RECORDED", r) /\ SeqFree(saw.turnNo + 1)
  /\ AppendEvent("IDEA_RECORDED", r, saw.turnNo + 1)
  /\ turns' = Append(turns, [seq |-> saw.turnNo + 1, who |-> a])
  /\ session' = AdvanceTurn(saw, a)
  /\ turnItems' = DeliverNextTurn(session', turnItems)
  /\ EndCall(c) /\ UNCHANGED <<request, summary, decision, made, guidance, calls>>

\* A breach: the contribution fails, and the session is loaded again to be
\* paused in a transaction of its own.
BreachFound(c) ==
  /\ CallAt(c, "contribute") /\ MayContribute(SessionSeen(c), CallerOf(c)) /\ Breach(SessionSeen(c), CallerOf(c))
  /\ session.status = "OPEN"
  /\ call' = [call EXCEPT ![c] = [@ EXCEPT !.at = "breach", !.saw = session]]
  /\ UNCHANGED <<request, session, stream, turns, turnItems, summary, decision, made, guidance, calls>>

\* _pause, _request_guidance (a pause after a breach has a key of its own, here
\* a type of its own): also when the append answered from an old Event.
PauseSession(c, type) ==
  LET r == call[c].req IN
  /\ \/ FreshEvent(type, r) /\ AppendEvent(type, r, 0)
     \/ SameBody(type, r, 0) /\ UNCHANGED stream
  /\ session' = [session EXCEPT !.status = "PAUSED"]
  /\ guidance' = guidance \cup {<<type, r>>}
  /\ EndCall(c) /\ UNCHANGED <<request, turns, turnItems, summary, decision, made, calls>>
PauseOnBreach(c) == CallAt(c, "breach") /\ PauseSession(c, "BREACH_PAUSED")
PauseBrainstorm(c) == CallAt(c, "pause") /\ SessionSeen(c).status = "OPEN" /\ PauseSession(c, "BRAINSTORM_PAUSED")

\* resume_brainstorm: with other limits if the facilitator gives them.
ResumeBrainstorm(c, limits) ==
  /\ CallAt(c, "resume") /\ SessionSeen(c).status = "PAUSED" /\ FreshEvent("BRAINSTORM_RESUMED", call[c].req)
  /\ AppendEvent("BRAINSTORM_RESUMED", call[c].req, 0)
  /\ session' = [session EXCEPT !.status = "OPEN", !.limits = limits, !.consecutive = 0]
  /\ turnItems' = DeliverNextTurn(session', turnItems)
  /\ EndCall(c) /\ UNCHANGED <<request, turns, summary, decision, made, guidance, calls>>

CloseBrainstorm(c) ==
  /\ CallAt(c, "close") /\ SessionSeen(c).status # "CLOSED" /\ FreshEvent("BRAINSTORM_CLOSED", call[c].req)
  /\ AppendEvent("BRAINSTORM_CLOSED", call[c].req, SessionSeen(c).turnNo)
  /\ session' = [session EXCEPT !.status = "CLOSED"]
  /\ EndCall(c) /\ UNCHANGED <<request, turns, turnItems, summary, decision, made, guidance, calls>>

\* join_brainstorm, add_participant: a seat behind the last; no turn is dealt.
JoinBrainstorm(c) ==
  /\ CallAt(c, "join") /\ SessionSeen(c).status # "CLOSED"
  /\ session' = [session EXCEPT !.seats = IF CallerOf(c) \in Seats!ToSet(@) THEN @ ELSE Append(@, CallerOf(c))]
  /\ EndCall(c) /\ UNCHANGED <<request, stream, turns, turnItems, summary, decision, made, guidance, calls>>

-----------------------------------------------------------------------------
\* summarize_brainstorm: a draft, with its artifact.
SummarizeBrainstorm(c) ==
  /\ CallAt(c, "summarize") /\ SessionSeen(c).status # "CLOSED" /\ FreshEvent("SUMMARY_RECORDED", call[c].req)
  /\ summary.status = "none"
  /\ AppendEvent("SUMMARY_RECORDED", call[c].req, SessionSeen(c).turnNo)
  /\ summary' = [summary EXCEPT !.status = "DRAFT"]
  /\ EndCall(c) /\ UNCHANGED <<request, session, turns, turnItems, decision, made, guidance, calls>>

\* approve_summary, _post_summary: the outbox has one row for a summary.
ApproveSummary(c) ==
  /\ CallAt(c, "approve") /\ summary.status = "DRAFT"
  /\ summary' = [status |-> "APPROVED", posts |-> 1]
  /\ EndCall(c) /\ UNCHANGED <<request, session, stream, turns, turnItems, decision, made, guidance, calls>>

\* insert: the brainstorm_decisions row, with no Task linked.
InsertDecision(row) == [row EXCEPT !.status = "recorded"]

\* record_decision, with the action items it found valid.
RecordDecision(c) ==
  /\ CallAt(c, "decide") /\ SessionSeen(c).status # "CLOSED" /\ decision.status = "none"
  /\ AppendEvent("DECISION_RECORDED", call[c].req, 0)
  /\ decision' = InsertDecision(decision)
  /\ EndCall(c) /\ UNCHANGED <<request, session, turns, turnItems, summary, made, guidance, calls>>

\* taskify_decision: a Task for every item that had none when the Decision was
\* loaded; the key of each is derived from the request's.  A link that exists
\* by now stays (ON CONFLICT DO NOTHING).
CreateItemTasks(c) == {[item |-> i, req |-> call[c].req] : i \in ActionItems \ call[c].linked}
LinkTasks(links, tasks) == links \cup {t \in tasks : \A l \in links : l.item # t.item}
TaskifyDecision(c) ==
  LET new == CreateItemTasks(c) IN
  /\ CallAt(c, "taskify") /\ decision.status # "none"
  /\ made' = made \cup new
  /\ decision' = [status |-> "taskified", links |-> LinkTasks(decision.links, new)]
  /\ EndCall(c) /\ UNCHANGED <<request, session, stream, turns, turnItems, summary, guidance, calls>>

BrainstormNext == \E c \in Callers :
  \/ \E r \in BsRequests : ReadSession(c, r)
  \/ \E limits \in LimitChoices : ResumeBrainstorm(c, limits)
  \/ RefuseCall(c) \/ ContributeTurn(c) \/ BreachFound(c) \/ PauseOnBreach(c) \/ PauseBrainstorm(c)
  \/ CloseBrainstorm(c) \/ JoinBrainstorm(c) \/ SummarizeBrainstorm(c) \/ ApproveSummary(c)
  \/ RecordDecision(c) \/ TaskifyDecision(c)

BrainstormSpec == BrainstormInit /\ [][BrainstormNext]_brainstormVars

-----------------------------------------------------------------------------
BrainstormTypeOK ==
  /\ session.status \in {"OPEN", "PAUSED", "CLOSED"} /\ session.limits \in LimitChoices
  /\ Seats!ToSet(session.seats) \subseteq Accounts
  /\ summary.status \in {"none", "DRAFT", "APPROVED"}
  /\ decision.status \in {"none", "recorded", "taskified"} /\ decision.links \subseteq made
  /\ \A c \in Callers : call[c].at \in BsVerbs \cup {"idle", "breach"}

\* The counters agree with the transcript, the transcript with the stream, and
\* no limit is exceeded, although every contribution is checked against a
\* session that was loaded without a lock: the transcript has the turns
\* 1..turn_no, the cursor counts the Agents' turns, no Agent has more turns than
\* the most generous limits gave it, nor has the session.
TurnsWithinLimits ==
  LET By(a) == {i \in DOMAIN turns : turns[i].who = a} IN
  /\ session.turnNo = Len(turns)
  /\ \A i \in DOMAIN turns : turns[i].seq = i
  /\ Cardinality({i \in DOMAIN stream : stream[i].type = "IDEA_RECORDED"}) = Len(turns)
  /\ session.turnIndex = Cardinality({i \in DOMAIN turns : turns[i].who \in Agents})
  /\ \A a \in Accounts : session.taken[a] = Cardinality(By(a))
  /\ \A a \in Agents : \E l \in LimitChoices : ~OverLimit(Cardinality(By(a)), l.perAgent)
  /\ \E l \in LimitChoices : ~OverLimit(Len(turns), l.total)
==============================================================================
