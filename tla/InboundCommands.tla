--------------------------- MODULE InboundCommands ---------------------------
(***************************************************************************)
(* Commands that come in from chat: slash commands and bot replies         *)
(* (server/channels/router.py), buttons of cards (actions.py), Telegram    *)
(* (telegram/commands.py, api/v1/providers_telegram.py), and the dispatch  *)
(* every command goes through (api/dispatch.py).  A verb reads the state   *)
(* in one transaction, which stays open, and runs one to three commands,   *)
(* each in a transaction of its own on another connection of the pool.     *)
(* What a command does to a Task or a run is one step of its transition    *)
(* table; TaskLifecycle has the commands themselves.                       *)
(***************************************************************************)
EXTENDS TaskTable, Integers, Sequences, FiniteSets

CONSTANTS
  Requesters,      \* requests handled at once
  Messages,     \* messages, posts and button presses that carry a command
  PoolSize,     \* connections of the engine's pool
  MaxDeliveries \* bound: how often the messages are delivered, in all

ASSUME InboundAssumption == PoolSize \in Nat \ {0} /\ MaxDeliveries \in Nat

VARIABLES
  message,      \* what each message is: source and verb
  seen,         \* provider_nonces and telegram_update_receipts
  worker,       \* what each worker is doing
  taskStatus,   \* status of the Task a message is about; "none": to be created
  runStatus,    \* status of the Task's latest verification run
  approvalStatus, \* an approval of the Task, "PENDING" or decided
  commandLog,   \* the commands that took effect, in order
  replies,      \* public replies made for each message
  bound,        \* messages whose new Task has its thread bound
  answers,      \* how each delivery ended
  deliveries    \* number of deliveries

inboundVars == <<message, seen, worker, taskStatus, runStatus, approvalStatus, commandLog, replies, bound, answers, deliveries>>

Verbs == {"create", "delegate", "reassign", "accept", "progress", "submit", "cancel", "verdict",
          "complete", "request", "decide", "verify"}
\* What the Bridge of a Telegram chat says of commands: none may write, this
\* verb may not, or it may.
BridgePolicies == {"read_only", "verb_denied", "open"}
RunStates == {"none", "PLANNED", "ASSIGNED", "RUNNING", "DONE"}
Sources == {"slash", "telegram", "button", "bot"}
NoRequestHandled == [msg |-> "none", at |-> "idle", held |-> 0, plan |-> <<>>, replayed |-> FALSE, bind |-> FALSE]

InboundInit ==
  /\ message \in [Messages -> [source : Sources, verb : Verbs, linked : BOOLEAN, policy : BridgePolicies]]
  /\ \A m \in Messages : message[m].source = "button" => message[m].verb \in {"accept", "cancel", "verdict"}
  /\ \A m \in Messages : message[m].source # "telegram" => message[m].policy = "open"
  /\ taskStatus \in {"OPEN", "DELEGATED", "ACCEPTED", "RUNNING", "VERIFIED"} /\ approvalStatus = "PENDING"
  /\ runStatus \in {"none", "PLANNED", "ASSIGNED", "RUNNING"}
  /\ seen = {} /\ worker = [w \in Requesters |-> NoRequestHandled] /\ commandLog = <<>>
  /\ replies = [m \in Messages |-> 0] /\ bound = {} /\ answers = {} /\ deliveries = 0

-----------------------------------------------------------------------------
\* The pool: the connections that the workers hold (a handling needs two at
\* most, the endpoint's and the verb's), and whether one more can be had.
Connections == {x \in Requesters \X (1 .. 2) : x[2] <= worker[x[1]].held}
InUse == Cardinality(Connections)
FreeConnection == InUse < PoolSize

\* A delivery of a message of that source begins.
BeginDelivery(w, m, source, held) ==
  /\ message[m].source = source /\ worker[w] = NoRequestHandled /\ FreeConnection
  /\ deliveries < MaxDeliveries /\ deliveries' = deliveries + 1
  /\ worker' = [worker EXCEPT ![w] = [NoRequestHandled EXCEPT !.msg = m, !.at = "route", !.held = held]]
  /\ UNCHANGED <<message, taskStatus, runStatus, approvalStatus, commandLog, replies, bound, answers>>

\* consume_nonce, committed before the command runs.  slash_command refuses a
\* trigger that was used; a button only remembers that it was.
ConsumeNonce(m) == seen' = seen \cup {m}
AdmitSlash(w, m) == m \notin seen /\ BeginDelivery(w, m, "slash", 0) /\ ConsumeNonce(m)
AdmitButton(w, m) == BeginDelivery(w, m, "button", 0) /\ ConsumeNonce(m)

\* telegram_update: an update with a receipt is only acknowledged.  The receipt
\* is committed at the end, on a connection of its own, and the endpoint
\* handles one update at a time.
AdmitTelegram(w, m) ==
  /\ m \notin seen /\ BeginDelivery(w, m, "telegram", 1) /\ UNCHANGED seen
  /\ \A v \in Requesters : worker[v].at # "idle" => message[worker[v].msg].source # "telegram"

\* BotReplyIntake: a post of a bot, again if it is seen again.
AdmitBot(w, m) == BeginDelivery(w, m, "bot", 0) /\ UNCHANGED seen

\* The commands of each verb, from what the open transaction reads.  The first
\* progress report or submission starts the Task; a verdict assigns and starts
\* the run, if need be; a Task that runs is asked to cancel.
Starting == IF taskStatus = "ACCEPTED" THEN <<"TASK_STARTED">> ELSE <<>>
TaskCreate == <<"TASK_CREATED", "post", "TASK_DELEGATED">>
TaskDelegate == <<"TASK_DELEGATED", "post">>
TaskReassign == <<"TASK_REASSIGNED", "post">>
TaskAccept == <<"TASK_ACCEPTED", "post">>
TaskProgress == Starting \o <<"TASK_PROGRESS_REPORTED", "post">>
TaskSubmit == Starting \o <<"IMPLEMENTATION_SUBMITTED", "post">>
TaskCancel ==
  IF taskStatus \in {"OPEN", "DELEGATED", "ACCEPTED"} THEN <<"TASK_CANCELLED", "post">>
  ELSE <<"TASK_CANCEL_REQUESTED", "post">>
TaskComplete == <<"TASK_COMPLETED", "post">>
VerifyAssign == IF taskStatus = "OPEN" THEN <<>> ELSE <<"create_run", "assign_run", "post">>
ApproveRequest == <<"request", "post">>
ApproveDecide == <<"decide", "post">>
VerifyVerdict ==
  CASE runStatus = "none" -> <<>>
    [] runStatus = "PLANNED" -> <<"assign", "start", "verdict", "post">>
    [] runStatus = "ASSIGNED" -> <<"start", "verdict", "post">>
    [] OTHER -> <<"verdict", "post">>
ButtonPlan(verb) ==
  CASE verb = "accept" -> <<"TASK_ACCEPTED">>
    [] verb = "cancel" -> <<"TASK_CANCEL_REQUESTED">>
    [] OTHER -> IF runStatus \in {"ASSIGNED", "RUNNING"} THEN <<"verdict">> ELSE <<>>
Plan(verb) ==
  CASE verb = "create" -> TaskCreate [] verb = "delegate" -> TaskDelegate [] verb = "reassign" -> TaskReassign
    [] verb = "accept" -> TaskAccept [] verb = "progress" -> TaskProgress [] verb = "submit" -> TaskSubmit
    [] verb = "cancel" -> TaskCancel [] verb = "complete" -> TaskComplete [] verb = "request" -> ApproveRequest
    [] verb = "verify" -> VerifyAssign
    [] verb = "decide" -> ApproveDecide [] OTHER -> VerifyVerdict

\* parse_command: someone without an active link gets help and link verbs only.
Parsed(m, plan) == IF message[m].linked THEN plan ELSE <<>>

\* handle: the Bridge is asked before anything is parsed, and its refusal, like
\* that of someone whose link is not active, is only a reply.
GatewayAllows(m) == message[m].policy = "open"

RunPlan(w, plan, more) ==
  /\ worker[w].at = "route" /\ FreeConnection
  /\ worker' = [worker EXCEPT ![w].at = IF plan = <<>> THEN "refused" ELSE "run", ![w].plan = plan,
                              ![w].held = @ + more]
  /\ UNCHANGED <<message, seen, taskStatus, runStatus, approvalStatus, commandLog, replies, bound, answers, deliveries>>

\* Router.route (slash commands and bots) and TelegramCommandGateway.handle
\* keep their transaction open while the commands run; a button closes it.
RouteSlash(w) == LET m == worker[w].msg IN
  worker[w].at = "route" /\ message[m].source \in {"slash", "bot"} /\ RunPlan(w, Parsed(m, Plan(message[m].verb)), 1)
RouteTelegram(w) == LET m == worker[w].msg IN
  worker[w].at = "route" /\ message[m].source = "telegram"
  /\ RunPlan(w, IF GatewayAllows(m) THEN Parsed(m, Plan(message[m].verb)) ELSE <<>>, 1)
HandleAction(w) == LET m == worker[w].msg IN
  worker[w].at = "route" /\ message[m].source = "button" /\ RunPlan(w, Parsed(m, ButtonPlan(message[m].verb)), 0)

-----------------------------------------------------------------------------
\* Mutant of IdempotencyKey: the key is made anew for every delivery.
IdempotencyKeyOfDelivery(m) == <<m, deliveries>>

\* idempotency_key, command_seed: from the post, trigger or message id.
IdempotencyKey(m) == <<m, 0>>

RunMoves == {<<"PLANNED", "assign", "ASSIGNED">>, <<"ASSIGNED", "start", "RUNNING">>, <<"RUNNING", "verdict", "DONE">>}
OwnTask(m) == \E i \in DOMAIN commandLog : commandLog[i].cmd = "TASK_CREATED" /\ commandLog[i].key[1] = m
Took(cmd, key) == \E i \in DOMAIN commandLog : commandLog[i].cmd = cmd /\ commandLog[i].key = key

\* What a command does, or that it is refused.  A new Task is delegated once,
\* and a new approval or run is nobody else's.  A decision may be one of several that
\* the approval needs; a completion also needs the Task's document, a
\* run an independent verifier.
Effect(m, cmd) ==
  IF message[m].verb \in {"create", "request", "verify"} THEN UNCHANGED <<taskStatus, runStatus, approvalStatus>>
  ELSE CASE cmd \in {"assign", "start", "verdict"} ->
              /\ \E x \in RunMoves : x[1] = runStatus /\ x[2] = cmd /\ runStatus' = x[3]
              /\ UNCHANGED <<taskStatus, approvalStatus>>
         [] cmd = "decide" -> /\ approvalStatus = "PENDING" /\ approvalStatus' \in {"PENDING", "DECIDED"}
                              /\ UNCHANGED <<taskStatus, runStatus>>
         [] OTHER -> /\ Allowed(taskStatus, cmd) /\ taskStatus' = NextStatus(taskStatus, cmd)
                     /\ UNCHANGED <<runStatus, approvalStatus>>
CommandFails(m, cmd) ==
  IF cmd \in {"TASK_COMPLETED", "create_run"} THEN TRUE
  ELSE IF message[m].verb \in {"create", "request", "verify"} THEN FALSE
  ELSE CASE cmd = "decide" -> approvalStatus # "PENDING"
         [] cmd \in {"assign", "start", "verdict"} -> ~\E x \in RunMoves : x[1] = runStatus /\ x[2] = cmd
         [] OTHER -> ~Allowed(taskStatus, cmd)

NextCommand(w) == Head(worker[w].plan)
WaitingToRun(w) == worker[w].at = "run" /\ worker[w].plan # <<>> /\ NextCommand(w) # "post"

\* execute_command: a command that took effect under this key answers again;
\* a new one commits with its card.
ExecuteCommand(w) ==
  LET m == worker[w].msg  cmd == NextCommand(w)  key == IdempotencyKey(m) IN
  /\ WaitingToRun(w) /\ FreeConnection
  /\ IF Took(cmd, key) THEN UNCHANGED <<taskStatus, runStatus, approvalStatus, commandLog>>
     ELSE Effect(m, cmd) /\ commandLog' = Append(commandLog, [cmd |-> cmd, key |-> key])
  /\ worker' = [worker EXCEPT ![w].plan = Tail(@), ![w].replayed = Took(cmd, key)]
  /\ UNCHANGED <<message, seen, replies, bound, answers, deliveries>>

\* A refused command ends the verb with an error; the ones before it stay.
CommandRefused(w) ==
  LET m == worker[w].msg IN
  /\ WaitingToRun(w) /\ FreeConnection
  /\ ~Took(NextCommand(w), IdempotencyKey(m)) /\ CommandFails(m, NextCommand(w))
  /\ worker' = [worker EXCEPT ![w] = [@ EXCEPT !.at = "error", !.plan = <<>>]]
  /\ UNCHANGED <<message, seen, taskStatus, runStatus, approvalStatus, commandLog, replies, bound, answers, deliveries>>

\* _reply: the public reply, none for a replayed command; the post of a new
\* Task becomes its thread when the transaction of the verb commits.
Reply(w) ==
  LET t == worker[w] IN
  /\ t.at = "run" /\ t.plan # <<>> /\ NextCommand(w) = "post"
  /\ replies' = IF t.replayed THEN replies ELSE [replies EXCEPT ![t.msg] = @ + 1]
  /\ worker' = [worker EXCEPT ![w].plan = Tail(@),
                              ![w].bind = message[t.msg].verb = "create" /\ ~t.replayed]
  /\ UNCHANGED <<message, seen, taskStatus, runStatus, approvalStatus, commandLog, bound, answers, deliveries>>

\* The transaction of the verb commits and the message is answered.
Answer(w) ==
  LET t == worker[w]
      code == IF t.at = "run" THEN "ok" ELSE t.at IN
  /\ t.at \in {"run", "refused", "error"} /\ t.plan = <<>>
  /\ answers' = answers \cup {<<t.msg, code>>}
  /\ bound' = IF t.bind THEN bound \cup {t.msg} ELSE bound
  /\ seen' = IF message[t.msg].source = "telegram" THEN seen \cup {t.msg} ELSE seen
  /\ worker' = [worker EXCEPT ![w] = NoRequestHandled]
  /\ UNCHANGED <<message, taskStatus, runStatus, approvalStatus, commandLog, replies, deliveries>>

\* The handling stops: the pool gave no connection in time, or the process
\* died.  Open transactions are gone, committed commands are not.
PoolTimeout(w) ==
  /\ worker[w].at = "route" \/ WaitingToRun(w)
  /\ ~FreeConnection /\ worker' = [worker EXCEPT ![w] = NoRequestHandled]
  /\ UNCHANGED <<message, seen, taskStatus, runStatus, approvalStatus, commandLog, replies, bound, answers, deliveries>>
CrashWorker(w) ==
  /\ worker[w].at = "run" /\ worker' = [worker EXCEPT ![w] = NoRequestHandled]
  /\ UNCHANGED <<message, seen, taskStatus, runStatus, approvalStatus, commandLog, replies, bound, answers, deliveries>>

InboundNext ==
  \E w \in Requesters :
    \/ RouteSlash(w) \/ RouteTelegram(w) \/ HandleAction(w) \/ ExecuteCommand(w) \/ CommandRefused(w) \/ Reply(w) \/ Answer(w)
    \/ PoolTimeout(w) \/ CrashWorker(w)
    \/ \E m \in Messages : AdmitSlash(w, m) \/ AdmitButton(w, m) \/ AdmitTelegram(w, m) \/ AdmitBot(w, m)

InboundSpec == InboundInit /\ [][InboundNext]_inboundVars

-----------------------------------------------------------------------------
InboundTypeOK ==
  /\ seen \subseteq Messages /\ bound \subseteq Messages /\ InUse \in 0 .. PoolSize
  /\ taskStatus \in Statuses /\ runStatus \in RunStates /\ approvalStatus \in {"PENDING", "DECIDED"}
  /\ answers \subseteq Messages \X {"ok", "refused", "error"}

\* The Event by which a verb is said to have succeeded.
Outcomes(m) ==
  CASE message[m].verb = "create" -> {"TASK_CREATED"}
    [] message[m].verb = "delegate" -> {"TASK_DELEGATED"}
    [] message[m].verb = "reassign" -> {"TASK_REASSIGNED"}
    [] message[m].verb = "accept" -> {"TASK_ACCEPTED"}
    [] message[m].verb = "progress" -> {"TASK_PROGRESS_REPORTED"}
    [] message[m].verb = "submit" -> {"IMPLEMENTATION_SUBMITTED"}
    [] message[m].verb = "cancel" -> {"TASK_CANCELLED", "TASK_CANCEL_REQUESTED"}
    [] message[m].verb = "complete" -> {"TASK_COMPLETED"}
    [] message[m].verb = "verify" -> {"assign_run"}
    [] message[m].verb \in {"request", "decide"} -> {message[m].verb}
    [] OTHER -> {"verdict"}

\* However often a message is delivered, by however many workers, and wherever
\* its handling stops: each of its commands takes effect at most once and it is
\* replied to at most once; a message answered with OK has had its effect, one
\* from someone unlinked, or that its Bridge does not allow, has had none; and a
\* thread is bound only to a Task that was created, and created once, for its
\* message.  Only a cancel posted by a bot may be replied to twice: two handlers
\* that read the Task before and after it starts run two commands of one key
\* (Router, ActionHandler, TelegramCommandGateway, execute_command).
Repliable(m) == IF message[m].source = "bot" /\ message[m].verb = "cancel" THEN 2 ELSE 1
EffectOncePerMessage ==
  \A m \in Messages :
    LET mine == {i \in DOMAIN commandLog : commandLog[i].key[1] = m} IN
    /\ \A i, j \in mine : commandLog[i].cmd = commandLog[j].cmd => i = j
    /\ replies[m] <= Repliable(m)
    /\ <<m, "ok">> \in answers => \E i \in mine : commandLog[i].cmd \in Outcomes(m)
    /\ ~message[m].linked \/ ~GatewayAllows(m) => mine = {} /\ <<m, "ok">> \notin answers
    /\ m \in bound => OwnTask(m) /\ replies[m] = 1
==============================================================================
