# Agent-Colab: a TLA+ verification project

Agent-Colab is a Python server on PostgreSQL on which humans and AI Agents share
Tasks. This directory holds TLA+ models of the parts of the server in which
concurrent transactions, retries, timeouts and crashes meet, TLC configurations
that check them on small instances, and TLAPS proofs of the properties that
matter most. `PROJECT.json` lists runs, properties, hazards, theorems and, for
every definition that models code, the lines it models.

## The system

One process (`server/api`) serves REST, SSE and MCP; a *gateway* process
(`server/channels/gateway.py`) drains outboxes and runs periodic maintenance;
*scheduler workers* (`server/schedules/worker.py`) execute scheduled runs; a
*sidecar* on the Agent's host hands out secrets. They share nothing but the
database. Every command is one `session_scope` transaction at READ COMMITTED: a
statement sees what is committed when the statement starts, so two statements of
one command may see different states. Row locks (`FOR UPDATE`), advisory locks
and unique indexes are all the synchronisation there is.

| part | state it keeps | operations | interacts with | what makes it correct |
|---|---|---|---|---|
| event store (`events/`) | append-only `events`, hash-chained per aggregate | append, replay under an idempotency key, read | everything appends through it | gapless unforked chains; a retry gets the first answer; nothing is changed or removed |
| event feed (`api/v1/events.py`) | a cursor per connection | poll, send, reconnect | reads the store | order, no duplicate, no gap |
| task lifecycle (`domain/task.py`, `application/tasks.py`, `projections/`) | Event streams, `tasks_projection` | create, delegate, reassign, accept, start, progress, wait, submit, verify, complete, cancel | store, verification, orchestration | only table transitions; only verified work completes; projection = fold of the log |
| verification (`verification/`, `application/verification.py`) | `verification_runs`, revisions, evidence | create, assign, start, verdict, fix, recheck, cancel | writes the verdict the Task folds | row, verdict Events and Task agree |
| work inbox (`work/`) | `work_items`, receipts | enqueue, poll, ack, start, reject, result, cancel, sweep | Agents poll; sweep re-routes Tasks | ends once and eventually; bounded redelivery; no lost ack |
| orchestration, re-routing (`application/orchestration.py`, `agents/rerouting.py`, `tasks/graph.py`) | assignments, edges, joins | after_assignment, reroute, create sub-Task, join | Task + inbox | one live item per assignment; bounded re-routes; a join is recorded once |
| verifier assignment (`verification/assignment.py`) | offers with ranks | offer, accept, time out, replace | verification runs, maintenance loop | a started run is never taken away; one successor per offer |
| schedules (`schedules/`, `application/schedules.py`) | schedules, versions, runs, leases, retries | plan, claim, execute, retry, cancel, time out | creates Tasks, reserves budget | no occurrence lost; concurrency policy; work is reserved |
| approvals (`approvals/`) | grants, decisions, consumptions | request, decide, consume, cancel, revoke, expire | gates commands, hard delete | independent quorum; consumed within its uses, never after its end |
| secrets, sidecar (`secrets/`, `sidecar/`) | grants, leases, revocation feed, sidecar session | issue, resolve, revoke, rotate, watch | ends with the Task | a single-use handle yields once; nothing after revocation |
| documents, publishing (`documents/`, `application/publishing.py`) | versions, files, reviews, publications | draft, finalise, review, publish, archive | Tasks, verdicts, destinations | only final, approved text is outside |
| channels, notifications (`channels/`, `notifications/`) | delivery outbox, bridge mappings, bindings, channel and member rows | enqueue, claim, send, retry; relay; route a command | chat providers | sent as often as tried; no echo; one effect per message |
| brainstorm (`brainstorm/`, `application/brainstorm.py`) | session, transcript, summary, decision | join, contribute, pause, resume, summarize, decide, taskify, close | inbox, Tasks | turns within limits, counters = transcript |
| agent registry and limits (`application/agents.py`, `application/accounts.py`, `agents/limits.py`) | agents and accounts rows, tokens, counters | register, activate, suspend, revoke, heartbeat, sweep; enforce | routing, work API | revocation is final; bounded overrun |
| usage and budget (`usage/`) | usage records, pricing, reservations | record, report, reserve, settle, release | limits, schedules | a result is metered once; work is reserved |
| identity, policy, security (`identity/`, `policy/`, `security/`) | roles, versions, assignments, break-glass sessions | create, commit, assign, revoke, authorize; activate, end | every command | rows follow Events; a session ends once |
| setup, settings, hard delete (`setup/`, `settings/`, `application/hard_delete.py`) | wizard state, sealed file, settings; requests, keys, tombstones | bootstrap, reconfigure; request, approve, execute, export, restore | everything | one Owner; destruction is final |
| artifacts (`artifacts/`, `application/artifacts.py`) | blobs, rows, quarantine ledger, links | upload, register, scan, quarantine, release, verify, archive | Tasks, hard delete | bytes whole; nothing visible unscanned |
| audit chain, web admin, tools, schemas | rows and files | append, display, check | | not modelled, see below |

### What is hard here

- *Unlocked reads that are used later.* `load_task` folds streams read by
  several statements; the work sweep decides on rows it has not locked; the
  schedule recovery overwrites a status it read earlier.
- *One decision, two streams.* A Task's status depends on its own stream and on
  those of its verification runs, but the compare-and-swap covers only the
  stream that is appended to.
- *Sequence order is not commit order.* `recorded_seq` is drawn at INSERT.
- *Retries.* Idempotency keys are looked up before, and enforced by an index
  after, concurrent work.
- *One transaction over many items.* One row that has moved on rolls back a
  whole sweep.
- *Leases and timeouts racing late answers*, in the inbox, verifier offers,
  schedules, secret leases.
- *The world outside the transaction.* A post is made, a file written, a blob
  unlinked before the commit; a crash in between leaves one without the other.
- *Locks in part.* A command locks the row it changes and reads another without
  (a lease and its grant, a session and its limits, a Task and its children).

`PROJECT.json` lists each at its line under `hazards`, with the properties
that cover it.

## Modules

| module | models | depends on |
|---|---|---|
| `EventLog` | abstract specification: a set of well-formed Events that grows by whole transactions | |
| `EventStore` | `PostgresEventStore.append`, statement by statement, in concurrent transactions | refines `EventLog` |
| `EventFeed` | SSE stream and `read_since` over the store | extends `EventStore` |
| `TaskTable` | the transition table of a Task (`domain/task.py`) | |
| `TaskLifecycle` | a Task, its verification runs, its projection, concurrent commands | extends `TaskTable` |
| `WorkInbox` | work items, Agents, timers, the maintenance sweep | |
| `TaskRouting` | assignment revisions of a Task with their work items, and `reroute_task` in concurrent transactions | extends `TaskTable` |
| `Subtasks` | sub-Tasks under graph limits, joins, the parent's completion | |
| `VerifierAssignment` | offers to verifiers and their timeout | |
| `ScheduleTable` | statuses, transitions and pure decisions of schedules (`schedules/contract.py`) | |
| `ScheduleRuns` | claims with leases, execution, budget, retries, timeouts, cancellation | extends `ScheduleTable` |
| `SchedulePlanner` | lifecycle and versions of a Schedule, the occurrence planner | extends `ScheduleTable` |
| `Approvals` | approval grants | |
| `Secrets` | secret broker and sidecar | |
| `BreakGlass` | break-glass sessions | |
| `HardDelete` | hard delete, retention, tombstone ledger, backup and restore | |
| `Setup` | bootstrap, restart, reconfiguration | |
| `AgentRegistry` | an Agent, its account and its tokens | |
| `AgentLimits` | limits and usage of an Agent | |
| `Access` | roles, assignments, a channel and its members | |
| `Delivery` | delivery outbox and its two drains | |
| `Bridge` | Telegram bridge | |
| `InboundCommands` | commands from chat and their dispatch | extends `TaskTable` |
| `Brainstorm` | a brainstorm session | |
| `Documents` | versions, reviews, publications of a document | |
| `Artifacts` | blobs and Artifact rows | |
| `EventStoreProofs` | theorems about `EventStore`, `EventFeed` | the modules they are about |
| `TaskLifecycleProofs` | about `TaskLifecycle` | |
| `OrchestrationProofs` | about `TaskRouting`, `SchedulePlanner`, `ScheduleRuns` | |
| `AgentProofs` | about `AgentRegistry`, `Access`, `AgentLimits`, `WorkInbox` | |
| `GovernanceProofs` | about `Approvals`, `Secrets`, `BreakGlass`, `Setup`, `HardDelete`, `MCGovernance` | cites `AgentProofs` |
| `ChannelProofs` | about `InboundCommands`, `Delivery`, `Bridge` | |
| `VerifierProofs` | about `VerifierAssignment` | |
| `CollaborationProofs` | about `Subtasks`, `Artifacts`, `Documents`, `Brainstorm`, `MCCollaboration` | cites `ChannelProofs`, `VerifierProofs` |
| `MCEventFeed`, `MCTaskLifecycle`, `MCWorkInbox`, `MCTaskRouting` | instances for TLC | |
| `MCSchedules`, `MCGovernance`, `MCCollaboration` | instances of several modules: the variable `part` picks which of them runs, the others rest in one initial state | |

The modules put side by side in the last three share the database but, in the
code, touch one another only through calls that a module includes as part of its
own actions (a Run starts a Task, a revocation re-routes one, a hard delete asks
for a grant). Their interleavings are therefore explored one module at a time.

Operators whose comment starts with "Mutant of" are never used by a
specification. Each changes one definition the way a plausible bug would;
`PROJECT.json` (`mutants`) says which property notices.

### EventStore and EventFeed

A transaction's `pc` follows `append`: `lock` (`pg_advisory_xact_lock`, reentrant,
held to the end of the transaction), `find` (`_find_idempotent`), `read` (the last
row of the aggregate and the check of `expected_seq`), `insert` (the INSERT in
its savepoint, which first waits for any open transaction that holds one of its
index entries), `open` (append has returned). A transaction may append several
times before it commits. `Rollback` stands for every exception, deadlock victim
or crash. A hash is represented by the `recorded_seq` of the row it is the hash
of: hashes are assumed collision free. `Begin` passes the number that an unlocked
read of the stream gave, or none, as handlers do.

`EventFeed` adds a client: `Poll` is one `read_since` at the cursor, `Receive` the
arrival of one chunk, `Reconnect` the loss of everything sent and not received.

### TaskLifecycle

The table `TRANSITIONS`, `apply_event` and `fold` are translated as operators; a
`TaskTransitionError` in `fold` is the status `BROKEN`, from which every command
fails as `load_task` does. A client runs one command at a time: lock the run's
row if the command is about a run (`BeginRun`), read the task stream (`BeginTask`
or `LoadForRun`), read the verification streams (`LoadRuns`, a separate statement),
decide, append under the stream's lock with the compare-and-swap (`AppendEvent`),
reload after a verdict (`Reload`), write the projection and commit (`Commit`). The
projection row is written and committed in one step, because the upsert's row
lock makes the order of writes the order of commits. `MoveRun` is `_simple_move`,
which writes no Event. Of `recorded_seq` only the order is kept: a number lost in
a rollback is used again, so the state space stays finite.

Left out: criteria gates, document prerequisites, limits (they can only refuse,
which `Rollback` includes), join annotations, the hooks into other components,
retries of a command (they find their Event and change nothing; `EventStore`
is about them).

### WorkInbox

Every operation of an Agent locks its row, so it is one action. The sweep is a
transaction of several steps: `SweepBegin` reads and decides for all open items,
`SweepItem` locks and changes one row if `transition` still allows it,
`SweepReroute` is the part of `process_sweep` that touches the inbox,
`SweepCommit` publishes all of it, `SweepAbort` is the uncaught
`WORK_ITEM_TRANSITION_INVALID`, `SweepCrash` the death of the process. A row the
sweep has changed stays locked (`Unlocked`) until the sweep ends. `due` and
`past` say whose timer and deadline have run out. The maintenance job passes no
`reroute_counts`, so `next_action` never answers WAITING. One gateway process
sweeps; two would be a different system (see the hazard at
`agents/maintenance.py`).

### TaskRouting

The state of one Task as far as it concerns who works on it: its status, the rows
of `task_assignments` (`assigned`: the account, and for a re-route the revision
it started from), the status of the work item of each revision (`item`), and the
revisions for which MarkWaiting's idempotency key is used (`waits`). Beside it,
per transaction, where it is in `reroute_task` and what it has read.

A trigger (`WorkReject`, `AgentUnavailable`, `BudgetExceeded`, `SweepWorkItems`)
opens a transaction and may end items, which stay locked until it commits
(`ended`). Then, for each re-route: `LoadTask` (first load, NOOP unless
re-routable), `SelectAssignee` (former assignees, count, candidate: separate
reads, each of some state since the load), and either `Reroute` (ReassignTask
with `after_assignment`) or `CancelAssignments` and `MarkWaiting`. Both commands
load the Task again; both are replayed when their idempotency key, which names
the revision loaded *first*, is already in the stream. `Commit` publishes,
`Rollback` is every exception. `DelegateTask`, `ReassignTask` and `Move` are
commands by hand, `Ack`, `Start` and `Result` the Agents' operations.

Two reductions keep this small. A transaction that has appended to the task
stream holds its advisory lock to the end, so what it does from then on is
applied at once and `lock` keeps the others from looking: whatever another
transaction could do meanwhile commutes with it to the left. For the same reason
a command by hand whose compare-and-swap succeeds is one step, one whose
compare-and-swap fails is none, and a transaction that rolls back after its append
is the same as one that rolls back before. Whether a candidate is online, member,
capable, has capacity and is allowed by policy is any choice at the moment of the
selection. Queued and delivered items are one state, UNACKED.

### Subtasks

One parent and its children. `kid` is a child's status as `evaluate_join` tells
them apart (OPEN for all that is neither done nor cancelled), `joins` the
TASK_JOIN_SATISFIED Events, `joinRow` the row of `task_join_state`. A worker of the
`Crew` finishes a child (`BeginFinish`: its Event is appended and its stream held),
loads the parent (`LoadParent`), reads the children (`JudgeJoin`) and appends with the
sequence number it loaded (`AppendJoin`), or creates a child (`BeginCreate`,
`CheckSubtaskCreation`, `InsertSubtask`), or completes the parent. `cancel_task` does
not evaluate the join, and neither does `CancelSubtask`.

### VerifierAssignment

`vrun` is a row of `verification_runs` with who started it and what ended it, `offer`
the rows of `verifier_assignments` per Task, `parked` the Tasks sent to WAITING. Creation
reads candidates (`PickVerifier`) and inserts run and offer (`CreateVerificationRun`)
later; a user's move reads and locks a run and commits in a second step. The sweep
reads due offers (`ReadDueOffers`), locks a run at a time (`LockDueRun`) and accepts,
replaces or gives up (`SweepTimeouts`); one run that has moved aborts all of it
(`SweepAborts`). Who is eligible, `rank_candidates` included, is computed from a
`Standings` record per verifier, any one of which may be found at a selection.

### ScheduleTable, ScheduleRuns, SchedulePlanner

`ScheduleTable` has the status tables and the pure decisions of
`schedules/contract.py`: which transition is allowed, what a concurrency policy
answers, which missed occurrences get a Run, whether another attempt follows.

`ScheduleRuns` has the Runs of one Schedule (`runs`), their Tasks (`task`), the
retry queue (`retry`), the daily reservation (`held`, `link`) and the workers. A
claim takes a lease; a lease may lapse and another worker take over. Executing a
Run reads in one step (the policy check, the budget lock, who else is active) and
decides in the next: WAIT, SKIP, START, FAIL or another attempt. Recovery and the
Task's terminal hook read without a lock and write from what they read.

`SchedulePlanner` has the Schedule's status, version and planned window (`sched`), a
row per occurrence or request key (`rows`) and the planner's notes (`noted`). A tick
and a command hold the Schedule's row lock for one transaction, hence one step
each; the clock may move any distance between ticks, which is downtime. Cron
expressions and time zones are the sets `OccurrencesOf` and `Gaps`.

### Approvals

`grant` is the row of `approval_grants`, `history` its Event stream, `decisions` and
`uses` the two unique tables. Every command first takes the row lock
(`LoadGrant`) and later decides from what it read then; `expire_approvals` is one
step for all overdue grants that are not locked (SKIP LOCKED). `RequestApproval`
looks its key up before it inserts. Accounts have principals (`PrincipalOf`), so an
approver may be the requester under another name.

### Secrets

`sgrant`, `lease` and the revocation `feed` of the broker, and the sidecar's session (`side`).
`IssueLease` reads its grant without a lock, `ResolveSecret` locks the lease and reads
the grant, `HandOut` commits the use; a revocation updates leases, then grants, and
commits in a later step. `given` counts values that left the broker; `dark` is set
when a resolver handed one out though a revocation had committed before it locked.
The sidecar watches the feed from the last number it saw.

### BreakGlass

`bg` is a row of `breakglass_sessions`, `ending` its end Events, `told` its
announcements, `review` its post-hoc Tasks, `spent` the used recovery codes. Two
`Hands` activate, terminate or sweep; a sweep reads overdue sessions unlocked, locks
and ends them, and opens the review Tasks in transactions of their own.

### HardDelete

`hd` is a request with its approvals and waiting period, `dek` the data keys,
`ledger` the tombstone chain, `exported` and `dump` what left the database. An
execution is `BeginExecution`, `ShredKey` (blobs are unlinked with it, before the
commit), `ExecuteHardDelete`; `Undo` is a rollback in between. `Restore` brings old
keys back, `ReconcileTombstones` applies the exported ledger, and the system serves
again after that.

### Setup

The wizard's `machine` in memory, the sealed `file`, the `row` of `setup_state`, and the
number of `owners`. The bootstrap applies database, key provider, then Owner,
integrations and commit, with file and row written where the code writes them;
`KillProcess` may fall anywhere and `Restart` reconciles the two with or without the
database. A reconfiguration session has a deadline, needs maintenance mode, and
its settings are compare-and-swap on their version.

### AgentRegistry

One Agent: `agentRow`, `account`, active `credentials`, the Agent's Event stream `log`. An
Agent command locks the agents row (`BeginAgent`), an account command the accounts
row (`BeginAccount`); each needs the other row later and waits for it.
`RefreshState` rewrites the row from the stream. `SweepOffline` acts on Agents that
`ListAgents` read without a lock.

### AgentLimits

One Agent's `rateWindows`, Tasks, items and `usageRows`. A request is `EnforceLimits`
(reads without a lock), `CountRequest` (the upsert that holds the window's row to
the commit), and its effect. A result locks its item (`LoadResultItem`) and records
usage if a pricing version is active. `denied` and `budgetMoves` are what
transactions of their own keep although the request fails.

### Access

Roles with their versions, assignments, a channel, its members, and the Event
streams (`authority`) of all of them. A command is authorised on the rows as
they are (`Authorized` evaluates the effective roles' policies), locks what its
handler locks, looks its idempotency key up, appends, and writes rows. Clients send any
command of one of the `SubmittedSets` any number of times.

### Delivery

`outbox` holds one row per key: task and approval card, notification, reminder,
digest. A drain claims with SKIP LOCKED (`Claim`), calls the provider row by row
(`DeliverCard`, `SendNotification`, whose answer may be lost) and commits; a crash
forgets what was not committed but not what was posted (`post`).

### Bridge

`chat` is everything written on both platforms, `relay` the mapping, outbox row and
dead letter of each message. A handler checks a message (direction, loop, known
mapping) and inserts in a second step under the unique index; the drain posts
copies and completes mappings. Copies appear in `chat` and are handled like any other
message: that is what the loop checks are for.

### InboundCommands

A `worker` takes a delivered message through admission (signature, nonce, link, bridge
policy), plan, commands and reply. The reading transaction stays open while each
command runs in its own, on another connection of a pool of `PoolSize`.
`commandLog` is what took effect, by idempotency key. A crash may fall anywhere, and a
message may be delivered again.

### Brainstorm

`session` (status, counters, seats, limits), `turns` (the transcript, with a UNIQUE
sequence), `stream`, `summary`, `decision`. `ReadSession` loads without a lock, the verbs
act later on what was loaded. `made` has the Tasks of a decision, `decision.links`
those it knows of.

### Documents

`docVersions`, `files`, `docStream`, `reviews`, `publication` and what each destination
shows (`outside`). A version is computed (`ReadForDraft`), its file written once
(`StoreVersion`), its row and Event committed (`PersistVersion`); publishing calls the
destination before it commits. A text is known by the sources and the verdict it
was made from.

### Artifacts

`blob` is the file of each content (none, partial, whole), `artifact` the row,
`ledger` the quarantine, `scans` and `links` their tables. An upload writes to a
temporary file, moves it into place, and then registers, reads back, scans,
quarantines or links in one transaction; `register` and `RegisterExternal` are the
command. `MimeMatches` and `CheckOutcomes` are the content checks by family.

## Runs

| run | instance | shows |
|---|---|---|
| `event_feed` | 2 transactions, 2 aggregates, 2 keys, 2 bodies, 3 sequence numbers, batches of 2 | `ChainIntact`, `AnswersAgree`, `PlaceStaysFree`, `FeedInOrder`, refinement of `EventLog` |
| `event_feed_gap` | the same | finding: `FeedNoGap` fails |
| `task_lifecycle` | 2 clients, 2 accounts, 1 run, 10 Events | `CompletionVerified`, `AcceptedByAssignee`, `RunMatchesStream`, `ProjectionFaithful` |
| `task_cancel_verdict` | the same | finding: `EventsFollowTable` fails |
| `work_inbox` | an assignment and another item, 2 redeliveries, 1 crash | `EndsOnce`, `DeliveriesBounded`, `AckNeverLost`, `EventuallyEnds` |
| `work_ack_timeout` | the same | finding: `AckTimeoutUnacked` fails |
| `task_routing` | 3 Agents, 1 Human, 1 command and the sweep, limit 1, 1 reassignment by hand | `OneAgentAtWork`, `ReroutesBounded`, `NeverBack` |
| `task_no_candidate` | the same | finding: `NoCandidateWaits` fails |
| `schedules` | 2 workers, 2 Runs, FORBID with and without a daily budget and REPLACE, 2 attempts; 5 instants, 2 versions, a gap, 3 missed-run policies | `OneRunAtWork`, `WorkIsReserved`, `NoOccurrenceLost` |
| `schedule_terminal` | the same | finding: `EndedStaysEnded` fails |
| `governance` | eight modules in turn, two concurrent transactions each | `ApprovalCounts`, `HandleYieldsOnce`, `SessionEndsOnce`, `DestructionIsFinal`, `OneOwner`, `RevokedIsFinal`, `PolicyFollowsEvents`, `MeteredWithinLimits`, types |
| `collaboration` | eight modules in turn, two concurrent transactions each | `TimeoutReplacesOnlyUnstarted`, `JoinRecordedOnce`, `SentOnce`, `RelayedOnce`, `EffectOncePerMessage`, `TurnsWithinLimits`, `OnlyApprovedIsOutside`, `TakenInIsSound`, types |

What the properties of the last four say, in a sentence each:

- `OneRunAtWork`: FORBID never has two Runs at work, and with a daily budget two
  overlapping Runs are not both skipped for each other.
- `WorkIsReserved`: a Run at work is covered by an open reservation.
- `NoOccurrenceLost`: every occurrence in the planned window has a Run or a note that
  says why not; a Schedule that is not enabled has nothing left to run.
- `ApprovalCounts`: granted by a quorum of accounts other than the requester, consumed
  at most `max_uses` times, between grant and end only; row = rebuild from Events.
- `HandleYieldsOnce`: a single-use handle yields one value; none after a revocation
  that had committed before the lease was locked.
- `SessionEndsOnce`: one end, one reason, one review, one session per recovery code.
- `DestructionIsFinal`: the tombstone chain is unbroken and names the destroyed keys,
  also after a restore; executed means approved twice and waited.
- `OneOwner`: through kills and restarts, one Owner, and no LOCKED before there is one.
- `RevokedIsFinal`: after AGENT_REVOKED nothing brings the Agent back.
- `PolicyFollowsEvents`: role versions, channel status and members are what the
  streams say, under retries and interleaved commands.
- `MeteredWithinLimits`: a result is metered once; limits are passed by at most the
  number of other requests in flight.
- `TimeoutReplacesOnlyUnstarted`: a started run is not timed out; a timed-out offer has
  exactly one successor, for another account.
- `JoinRecordedOnce`: one join Event, for children that are done and enough for the
  policy, and the row agrees.
- `SentOnce`: sent means posted; posts are bounded by tries and crashes; one
  NOTIFICATION_SENT Event.
- `RelayedOnce`: no copy is relayed back, threads survive the crossing, mapping, outbox
  row and dead letter agree.
- `EffectOncePerMessage`: however often a message is delivered, each of its commands
  takes effect once and it is replied to once (a bot's cancel, twice at most); OK
  means it did.
- `TurnsWithinLimits`: counters = transcript = stream, within the limits, although
  sessions are read without a lock.
- `OnlyApprovedIsOutside`: a destination shows only final text that was approved.
- `TakenInIsSound`: a row's bytes are whole on disk, and nothing is visible unscanned.

### Bounds

- `event_feed`: two transactions and two keys on two aggregates are what a race
  on one aggregate, a race of one key on two aggregates, and a transaction with
  two appends need. Three numbers let two Events commit out of order and a
  third follow, or one be burnt. The theorems have none of these bounds.
- `task_lifecycle`: ten Events carry a Task from delegation through a failed or
  blocked verification, a second implementation and a second verdict to its
  completion. `Twice` names the Event types that may occur twice, the others
  occur once; of the steps that lead back (`Detours`: progress, waiting,
  reassignment) `MaxDetours` happen, so a history has one reassignment race or
  one interruption. Races are between two commands by nature: each appends one
  Event. With one run, verdicts of a superseded run are not explored.
- `work_inbox`: two items, because one row aborting the sweep of another is the
  case of interest; a limit of two redeliveries instead of three; `MaxCrashes`
  bounds crashes, without which a sweep that always dies would never end
  anything.

- `task_routing`: two transactions that re-route (one of a command, one of the
  sweep) are a race; with three Agents a re-route has a choice after a
  reassignment by hand. `Limit` is 1 as in `defaults.TASK_ASSIGNMENT_REROUTES`;
  `MaxByHand` is 1, which already separates `ReroutesBounded` from the plain
  limit. `Events` holds a command that stays among and one that leaves the
  re-routable statuses; WAITING is reached through re-routes. The theorems have
  no such bounds.

- `schedules`: two workers and two Runs are an overlap; two attempts are a retry, one
  fault (`MaxFaults`: a lapsed lease or a lost worker) and one command race with
  them. In the planner, five instants and a horizon of one let the server sleep over
  an occurrence, a gap lies among them, and `MaxPlanCommands` of 5 is create,
  version, enable, pause, resume.
- `governance`, `collaboration`: two processes per module, since every hazard in them is
  one transaction between two steps of another; a second key, lease, session, code,
  message or version where two of them are told apart; one crash, kill or restore
  (`MaxKills`, `MaxRestores`, `MaxDrainCrashes`, `MaxDocCrashes`, `MaxArtCrashes`). `Access` and
  `Brainstorm` run scenarios (`MCSubmitted`, `MCAsked`): sets of requests, in any order
  and interleaving. `Delivery` and `Bridge` start with part of their bounds used up, in
  two ways, so that each behaviour has either the failures or the changes.
  `InboundCommands` starts from statuses in which one of its messages has something
  to do. An Agent's calls are three within two minutes, which passes a limit of one.

Deadlock checking is off in `task_lifecycle`, `work_inbox`, `schedules`, `governance` and
`collaboration`: a completed Task, an ended item, a deleted channel and an exhausted
bound are legitimate ends.

### Fairness

Only `WorkInbox` assumes any. Deadlines pass because time does. `SweepBegin` and
the steps of a sweep are weakly fair because `ChannelGateway._loop` runs
`maintenance_once` every 30 s, catches what it raises and goes on. Agents
are never assumed to poll, acknowledge or answer; they may also make any number
of sweeps abort, and `EventuallyEnds` holds nevertheless, because an item past
its deadline can be expired from every open state.

### Findings

1. `event_feed_gap`. A transaction draws number 1, another draws 2 and commits,
   the client receives 2, the first commits: the client never gets Event 1.
   `api/v1/events.py` promises resumption "without gaps or duplicates".
   Duplicates are indeed excluded (`FeedInOrder`).
2. `task_cancel_verdict`. A cancel request and a PASSED verdict are both decided
   on a VERIFYING Task. They append to different streams, so neither
   compare-and-swap fails; when the verdict has the lower number the fold meets
   TASK_CANCEL_REQUESTED in VERIFIED and raises, for every later command on
   that Task. `projections/tasks.py` states that such Events cannot come from the
   command handlers. `Crossed` describes exactly this race; outside it
   `ProjectionFaithful` holds, and a Task is VERIFYING only while a run is open.
3. `work_ack_timeout`. The sweep decides to expire an unacknowledged item, the
   Agent acknowledges, the sweep locks the row: ACKED may expire too, so the item
   ends with reason ACK_TIMEOUT although it was acknowledged.
4. `task_no_candidate`. A re-route finds no candidate and sets the Task WAITING
   under the key `reroute-wait:<task>:<revision>`; the Task is started again, which
   does not change its revision; the next re-route without a candidate cancels
   the Task's items, and its MarkWaiting is answered with the old Event. The Task
   stays RUNNING with nobody at work, and the outcome says WAITING.
5. `schedule_terminal`. Recovery reads a Run that is over its time, the Task's
   terminal hook ends it and settles its budget, recovery writes CANCEL_REQUESTED over
   it (`schedules/recovery.py:80`). `docs/protocol/schedule-contract.md` promises that
   any write to a terminal Run is RUN_TERMINAL_CONFLICT.

`ReroutesBounded` is worth a remark too: "assigned exactly once" in
`agents/rerouting.py` holds without reassignments by hand. With one, a trigger
that counted before and one that loaded after it use different keys, and two
re-routes pass the limit of one; the bound is tight.

### Observations

Modelling showed other behaviours that no run above refutes: a property excludes
them explicitly, or they are matters of intent. A maintainer may want to know.

- *Routing and work.* `reroute_task` does not ask whether the rejected or overdue item
  belongs to the present assignee, and two overdue items of a Task in one sweep
  re-route it twice (`agents/rerouting.py:156, 261, 339`). `sweep_offline` and an
  acknowledgement timeout, unlike `mark_offline`, never re-route
  (`application/agents.py:728`, `work/timeouts.py:83`). Two gateways would sweep at once
  (`agents/maintenance.py:85`).
- *Locks.* Aggregate, row and audit-chain locks are taken in different orders
  (`application/verification.py:378`, and agents against accounts rows); PostgreSQL
  aborts one of the two, which every `Rollback` here includes.
- *Sub-Tasks.* Two children that finish at once under "ALL" each see the other
  open, and no join is recorded (`application/orchestration.py:246`); the loser of two
  joins loses its own Event with SEQUENCE_CONFLICT; `create_subtask` reads without a lock, so
  fan-out may be exceeded and a COMPLETED parent gain a child; `cancel_task`
  (`application/tasks.py:746`) never evaluates the join.
- *Verifiers.* A run that waits for a recheck counts as not started; concurrent
  creations may offer twice or not at all; one bad run stops each sweep
  (`verification/assignment.py:452, 468`).
- *Schedules.* Two Runs claimed in one tick under REPLACE cancel each other; a
  cancel or pause releases no budget and leaves the Task; a row cancelled by a pause
  keeps its occurrence from being planned again after resume within the
  horizon; `run_now` on a paused Schedule makes a Run that the policy check skips.
- *Approvals and break-glass.* The quorum of a CRITICAL grant counts accounts, not
  principals; a decision below quorum writes no Event. A crash between the end of a
  session and its review transaction leaves the review to the next sweep that
  finds it, and nothing does; two activations at once both succeed.
- *Secrets.* The feed has the gap of finding 1, so a revocation may never reach the
  sidecar (`application/secrets.py:391`); a value stored after the commit escapes a
  revocation in between.
- *Hard delete.* A rollback after blobs were unlinked leaves rows without bytes;
  the approval's own expiry may fall into the waiting period; a blob may be shared
  with another Artifact; files of documents stay.
- *Setup.* A restart without the database after the Owner commit, and a new
  bootstrap, puts the row back to BOOTSTRAPPING (`setup/wizard.py:680`).
- *Agents and limits.* `suspend_account` writes no Agent Event, so the next
  `refresh_state` undoes it in the agents row; with `per_task_cost_units` set every acceptance
  fails (`agents/limits.py:212`); a repeated ReportUsage counts twice.
- *Access.* `assign_role` and `revoke_role` write rows even when the Event was replayed
  (`application/roles.py:311-385`), which is why `PolicyFollowsEvents` says nothing of
  assignments; a Task may open between `deletion_blockers` and the deletion.
- *Delivery and bridge.* The notification drain claims rows of every kind; a digest
  item that joins a sent row is lost; a crash posts twice; edits are not relayed, and
  a letter can be replayed once.
- *Brainstorm.* A pause or resume decided earlier reopens a CLOSED session
  (`application/brainstorm.py:166, 263, 554`); two taskify calls make Tasks that no
  decision links.
- *Documents.* A file left by a crash blocks its version for ever; a failed
  publication's row is rolled back with it; two finalisations write two versions.
- *Artifacts.* A retried upload with a link fails as a duplicate; `verify_artifact` reads
  without a lock and may overwrite `archived`.

## Proofs

Every safety property that a passing run checks is also a theorem, for any
number of clients, workers, rows, keys and messages and for every value of the
bounds. `EventuallyEnds` is the one property left to TLC.

Each proof has the same outline: a strengthening of the property that every
action preserves, the fact that the initial states have it, and the fact that
it implies the property. Where an invariant is about one row or one transaction
it is a predicate of that row (`GrantOK`, `HandOK`, `UploadGood`), so that an action
that writes another row leaves it alone by one lemma. What the strengthenings
have in common is the code's own discipline: *what a transaction read under a
lock is still true when it writes*; what it read without one is harmless
because a unique key, a sequence number or a status check fails later, and the
invariant says which.

### The store and the feed: `EventStoreProofs`

`StoreTypeOK`, `StoreChainIntact`, `StoreAnswersAgree`, `StorePlaceStaysFree`,
`StoreImplementsLog` (every step of `EventStore` is a step of `EventLog` or leaves the
committed rows alone), `StoreFeedInOrder`. `ChainIntact` is not inductive: what a
transaction will insert depends on what it read before. `SafeInv` adds that a
transaction between `find` and its end holds the lock of its aggregate, that
uncommitted rows of an aggregate belong to its lock holder, that what was read is
still the head of the aggregate when the row is inserted, that keys and recorded
numbers are unique over committed *and* pending rows, and that every answer held by
a transaction names a row it can see. `FeedInv` adds for the stream that what was read
and not yet received is committed and above the cursor. Assumption: `None` is
neither a number nor a transaction.

### The Task: `TaskLifecycleProofs`

`LifeTypes`, `LifeRunMatchesStream`, `LifeCompletionVerified`, `LifeAcceptedByAssignee`,
`LifeProjectionFaithful`. The streams of a Task are merged by number and folded, and a
command may have folded a prefix of one and all of another. `LifeInv` speaks of the
*committed* fold while the history is `Quiet` (no verdict has crossed a cancel
request): it is not broken, the projection is equal to it, a VERIFYING Task has its run,
VERIFIED follows a PASSED later than every submission. Each open
transaction then either decided on the fold of all committed Events, or is stale and
will fail its sequence number, or is one of the two commands that cross:
a cancel request of a Task whose verdict is in (`Late`), a verdict whose Task has a
cancel request right behind its start (`CanCross`). After a crossing the Task is not
`Live`: only TASK_CANCELLED can still be appended, so it is never completed. For each run the row,
locked by its transaction, counts the verdict Events of its stream. `Fold` is
recursive; what the proof needs of it (appending the latest Event is one more
`ApplyEvent`) follows by induction over numbers, see below.

### Routing and schedules: `OrchestrationProofs`

- `RoutingTypeOK`, `RoutingOneAgentAtWork`, `RoutingReroutesBounded`, `RoutingNeverBack`. `TypeInv`
  adds to the types that no two transactions lock one row and that a transaction
  inside a re-route has loaded an assigned Task and, before ReassignTask, picked an
  Agent; with it `OneAgentAtWork` is inductive. The bound needs `RouteInv`: re-routes start
  from different revisions (the idempotency key), all of them at most `Limit` plus
  the number of reassignments by hand, and this already holds of the revision a
  transaction is about to use (`PickInv`). The reason is a count: a transaction that saw
  fewer than `Limit` re-routes among m revisions saw at most `Limit` plus the manual
  ones; distinct numbers in 1..(Limit + ByHand) are at most as many (pigeonhole).
- `PlannerTypes`, `PlannerNoOccurrenceLost`: with the types, `NoOccurrenceLost` is inductive as
  it stands; a lemma per command and one for the planner's pass show it.
- `RunsOneAtWork`, `RunsWorkReserved`. `RunsInv`: an open execution's row is CLAIMED and
  no other transaction executes it; what recovery or the terminal hook holds has left the
  queue for good; under FORBID an execution that saw nobody at work is the only such one, and
  one that saw somebody names a Run that was not skipped; a row at work
  has its reservation.

Assumptions: limits and bounds are natural numbers, Agents are not Humans, `None`,
`Nobody` and the sweeper are nobody else's name, the other commands' Event types are
not assignments.

### Agents: `AgentProofs`

- `InboxTypeOK`, `InboxEndsOnce`, `InboxDeliveriesBounded`, `InboxAckNeverLost`. `InboxInv` adds what
  makes the sweep's stale decisions harmless: a row the sweep has changed keeps a
  status that allowed the change (it is locked), a decision to give up was taken
  after the last permitted delivery and the count cannot grow meanwhile, a decision to
  redeliver leaves room for one more.
- `RegistryRevokedIsFinal`. `RegistryInv`: a command on the Agent has its row locked, so
  what it loaded is the row; `refresh_state` folds the Events, and a fold that met
  AGENT_REVOKED stays revoked.
- `AgentMeteredWithinLimits`. `LimitsInv` counts, per limit, what was admitted beside the
  requests still between check and write: their number is the overrun.
- `AccessFollowsEvents`. `AccessInv`: a command on a role has locked its row, so the version it read is
  the row's and its key is not in the stream yet; a membership is what the last
  Events about the account said.

### Governance: `GovernanceProofs`

- `ApprovalsTypes`, `ApprovalsCounts`. The row lock makes what a command read true until it
  writes (`GrantWorkInv`); `GrantOK` ties each grant to its decisions, uses and history.
- `SecretsYieldOnce`, `SecretsTypes`. `SecretsInv`: a transaction holds the rows it loaded
  `FOR UPDATE` and what it loaded is fresh, so `uses` is read and counted once. The
  bound on the revocation feed needs `FeedInv`: the numbers drawn by committed
  and open revocations are distinct and at most `feedSeq`, hence at most that many entries.
- `BreakGlassEndsOnce`, `SetupOneOwner`, `HardDeleteIsFinal`: `BreakGlassInv` relates each session to
  its ends and reviews and each hand to the locks it has; `SetupInv` says that
  whoever has passed the Owner's creation has seen one; `HardDeleteInv` holds of the database *and*
  of the dump that a restore brings back, and of the exported chain.
- `GovernanceTypes`, of the composition, see below.

### Channels: `ChannelProofs`

- `InboundEffectOnce`. `InboundInv`: replies made and owed are at most the outcomes
  taken, and only a bot's cancel has two outcomes; Mattermost slash commands and Telegram
  updates are handled once (a nonce, a receipt), a button's repetition is answered from
  its Event, and CANCELLED is absorbing.
- `InboundTypesKept`, with the pool: the connections that requests hold never exceed `PoolSize`.
- `DeliverySentOnce`, `DeliveryTypes`. `DeliveryInv`: a drain holds due pending rows that nobody
  else has locked, each once in what is left to do or among the answers; a row with an
  answer may have been posted once more than it was tried. `ShownInv`: the text of a
  card is that of an Event of the Task.
- `BridgeRelayedOnce`, `BridgeTypes`. `BridgeInv`: messages do not change once posted, so what a
  handler knows of them stays true; a copy can be told from what a human wrote; the
  target of a reply is the thread of its root; posts that are not yet recorded are
  copies of their source, and copies are counted by the calls that made them. `DestKnown`: a handler
  works for a channel the bridge relays to.

### Sharing work: `VerifierProofs` and `CollaborationProofs`

- `VerifierTimeoutReplaces`. `VerInv` is a book of runs and offers (a run that replaces another has a timed-out
  one behind it, every offer has a run of its own), with what users and the sweep saw
  of the runs they lock. The sweep resolves all due offers in one transaction; the proof carries
  `Book` through its loop: the offers not reached yet are as the sweep saw them, unless
  the search for their Task has ended (`StillDue`), the runs it has not locked keep their
  status, and there is an unused run for each offer that is left.
- `SubtasksJoinOnce`: a transaction that has yet to record the join has loaded a
  sequence number that is no longer free once another has recorded it.
- `BrainTurnsWithinLimits`, `BrainTypes`. `BrainInv`: a session that was loaded is not ahead of the row, and as
  long as its turn is the last its counters are the row's; a stale contribution meets
  UNIQUE (brainstorm, seq). `BrainRest`: only accounts have seats, and links lead to Tasks that exist.
- `DocumentsOnlyApproved`, `ArtifactsTakenIn`: a scribe that holds the document's lock has seen its
  last version; an uploader past the move has its bytes whole on disk.
- `CollaborationTypes`, of the composition.

### The compositions

`GovernanceTypes` and `CollaborationTypes` are about `MCGovernance!MCSpec` and
`MCCollaboration!MCSpec`, in which one module of eight runs. A step of the composition is
a step of its part's module or leaves its variables alone (`GovernancePartSteps`,
`CollaborationPartSteps`), and the part never changes; temporal reasoning then makes
each module's theorem one about the composition.

### What the theorems rest on

Only the named assumptions on constants: limits and bounds are natural numbers
(`MaxEvents` of `Delivery` included), a name that stands for nobody is nobody's name, disjoint kinds of accounts,
the types of the scenarios (`Asked`, `SubmittedSets`, `Standings`), and that runs,
Tasks, keys, requests and accounts that are counted or searched are finitely many. TLC evaluates
each on the instances.

Induction is by the least counterexample: the provers cannot instantiate the library's
induction theorems, which take an operator, so `Induction` and `LeastNumber` are stated
for *sets* of numbers, proved from the well-foundedness of `<` or by a
function, and recursive functions are unfolded one step at a time. That suffices for every recursive
definition here, since each recurs on a number or on a length.

### Only model-checked

`EventuallyEnds`: liveness under fairness, and ENABLED, are beyond the prover. The
five findings: they are violations, which TLC exhibits. That the properties are not
vacuous: each has a mutant of the code that breaks it.

## Plan

Done: the store everything rests on, the Task whose history it holds, the inbox that
drives Agents, the routing that composes them, a module for each other part in
which transactions meet, and a proof of every safety property the runs check.
What is left, in this order:

1. Liveness: a DELEGATED Task is accepted, re-routed or WAITING; a claimed Run ends;
   an outbox row is sent or dead.
2. Composition: Runs with Tasks that are verified and completed; secrets revoked by
   the end of a Task; two sweeping gateways. The theorems of the parts are stated so
   that a composition can cite them.
3. Links of accounts to chat identities (`identity/external_links.py`).

## Not modelled

- *Audit chain and observability.* The chain is the protocol of `EventStore` under one
  global lock; its rows are written in the transactions of the commands that are
  modelled. Metrics, traces and logs change nothing.
- *Web admin, schemas and migrations.* Display and declarations; the indexes, triggers
  and constraints of migrations are guards of the actions that meet them.
- *Transports and providers.* HTTP, MCP, Mattermost, Telegram, BookStack and webhook
  clients are I/O: an answer is success, refusal or lost.
- *Pure data.* Rendering, validation and redaction of payloads, cryptography, cron and
  time zone arithmetic, content sniffing beyond families.
- *Command line tools*, apart from backup and restore.
- *Links of accounts to chat identities*: planned.

`PROJECT.json` says per component what is modelled and what is left out of it.
