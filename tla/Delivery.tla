------------------------------- MODULE Delivery -------------------------------
(***************************************************************************)
(* The delivery outbox (server/channels/outbox.py,                         *)
(* server/notifications/outbox.py) with what is put into it (task and      *)
(* approval cards, notifications, reminders, hourly digests) and the two   *)
(* drains that empty it.  A row is written with the Event it renders.  A   *)
(* drain claims the due rows with FOR UPDATE SKIP LOCKED, calls the        *)
(* provider for each, and commits what came of it; a post is made, or not, *)
(* before the commit.  One Task with its card and one recipient.           *)
(***************************************************************************)
EXTENDS Integers, Sequences, FiniteSets
Keys == INSTANCE SequencesExt

CONSTANTS
  Drainers,     \* drain processes
  DrainOf,      \* drainer -> "channels" or "notifications"
  MaxEvents,    \* bound: Events of the Task
  MaxTries,     \* max_attempts
  MaxNotes,     \* bound: notified Events and preference changes
  MaxDrainCrashes    \* bound: drain processes that crash

ASSUME DeliveryAssumption ==
  /\ DrainOf \in [Drainers -> {"channels", "notifications"}] /\ MaxTries \in Nat \ {0}
  /\ MaxEvents \in Nat

VARIABLES
  outbox,       \* delivery_outbox by dedupe key: st, tries, text, due
  queue,        \* the keys in the order of next_attempt_at
  taskSeq,      \* number of Events of the Task, which its card shows
  post,         \* the posts outside: shown text of the card, creations per key
  delivered,    \* what each process remembers having posted
  drain,        \* the open transaction of each drainer
  pref,         \* the recipient's preference: plain, digest or muted
  notes,        \* Events notified, and preference changes
  sentEvents,   \* NOTIFICATION_SENT Events
  noteStatus,   \* notifications.status
  digestSent,   \* items of the digest that went out
  mishaps       \* crashes

deliveryVars == <<outbox, queue, taskSeq, post, delivered, drain, pref, notes, sentEvents,
                  noteStatus, digestSent, mishaps>>

Card == <<"card", 0>>
Patch(n) == <<"patch", n>>
Note == <<"notification", 0>>
Reminder == <<"reminder", 0>>
Digest == <<"digest", 0>>
OutboxKeys == {Card, Note, Reminder, Digest} \cup {Patch(n) : n \in 1 .. MaxEvents}
ChannelKind(k) == k[1] \in {"card", "patch"}

NoRow == [st |-> "none", tries |-> 0, text |-> 0, due |-> FALSE]
NoDrain == [op |-> "idle", todo |-> <<>>, held |-> {}, ok |-> {}, failed |-> {}, items |-> 0]

\* The Task may have Events from before it had a channel; what is left of the
\* bounds is part of the initial state.
DeliveryInit ==
  /\ outbox = [k \in OutboxKeys |-> NoRow] /\ queue = <<>>
  /\ taskSeq \in 0 .. MaxEvents /\ notes \in (0 .. MaxNotes) \X (0 .. MaxNotes)
  /\ post = [shown |-> 0, made |-> [k \in OutboxKeys |-> 0]]
  /\ delivered = [d \in Drainers |-> {}] /\ drain = [d \in Drainers |-> NoDrain]
  /\ pref \in {"plain", "digest"}
  /\ sentEvents = 0 /\ noteStatus = "none" /\ digestSent = 0 /\ mishaps = 0

\* The keys of S in a sequence of keys, in their order.
InOrder(s, S) ==
  LET upto[i \in 0 .. Len(s)] ==
        IF i = 0 THEN <<>> ELSE IF s[i] \in S THEN Append(upto[i - 1], s[i]) ELSE upto[i - 1]
  IN  upto[Len(s)]

RowLocked(k) == \E d \in Drainers : k \in drain[d].held

-----------------------------------------------------------------------------
\* enqueue_delivery, enqueue: ON CONFLICT (dedupe_key) DO NOTHING.
PendingRow(text) == [st |-> "pending", tries |-> 0, text |-> text, due |-> TRUE]
Enqueue(texts) ==
  LET new == {k \in DOMAIN texts : outbox[k].st = "none"} IN
  /\ outbox' = [k \in OutboxKeys |-> IF k \in new THEN PendingRow(texts[k]) ELSE outbox[k]]
  /\ queue' = queue \o Keys!SetToSeq(new)

\* card_post_id: the card is known once its row was sent.
CardPosted == outbox[Card].st = "sent"

\* render_task_event, render_approval_event: the first Event puts the card
\* into the outbox, and so does every later one until the card is posted, with
\* the same key; after that a patch per Event edits the post.
RenderEvent ==
  /\ taskSeq < MaxEvents /\ taskSeq' = taskSeq + 1
  /\ Enqueue([k \in {IF CardPosted THEN Patch(taskSeq + 1) ELSE Card} |-> taskSeq + 1])
  /\ UNCHANGED <<post, delivered, drain, pref, notes, sentEvents, noteStatus, digestSent, mishaps>>

\* enqueue_digest: an item joins the row of its hour, sent or not.
EnqueueDigest ==
  IF outbox[Digest].st = "none" THEN Enqueue([k \in {Digest} |-> 1])
  ELSE /\ ~RowLocked(Digest) /\ outbox' = [outbox EXCEPT ![Digest].text = @ + 1]
       /\ UNCHANGED queue

\* schedule_reminders: a notification has its row and a reminder's.
WithReminders == [k \in {Note, Reminder} |-> 1]

\* plan_notifications: what the preference makes of an Event.
PlanNotification ==
  CASE pref = "muted"  -> UNCHANGED <<outbox, queue, noteStatus>>
    [] pref = "digest" -> EnqueueDigest /\ UNCHANGED noteStatus
    [] OTHER -> /\ Enqueue(WithReminders)
                /\ noteStatus' = IF noteStatus = "none" THEN "queued" ELSE noteStatus

\* NotificationEngine.on_event: once per dedupe key.
OnEvent ==
  /\ notes[1] < MaxNotes /\ notes' = [notes EXCEPT ![1] = @ + 1] /\ PlanNotification
  /\ UNCHANGED <<taskSeq, post, delivered, drain, pref, sentEvents, digestSent, mishaps>>

\* set_preferences.
SetPreferences(p) ==
  /\ notes[2] < MaxNotes /\ pref # p /\ notes' = [notes EXCEPT ![2] = @ + 1] /\ pref' = p
  /\ UNCHANGED <<outbox, queue, taskSeq, post, delivered, drain, sentEvents, noteStatus, digestSent, mishaps>>

\* cancel_pending: a pending reminder dies; a row in a drain is waited for.
CancelPending ==
  /\ outbox[Reminder].st = "pending" /\ ~RowLocked(Reminder)
  /\ outbox' = [outbox EXCEPT ![Reminder].st = "dead"]
  /\ UNCHANGED <<queue, taskSeq, post, delivered, drain, pref, notes, sentEvents, noteStatus, digestSent, mishaps>>

\* next_attempt_at of a failed row passes.
BackoffOver(k) ==
  /\ outbox[k].st = "pending" /\ ~outbox[k].due
  /\ outbox' = [outbox EXCEPT ![k].due = TRUE]
  /\ UNCHANGED <<queue, taskSeq, post, delivered, drain, pref, notes, sentEvents, noteStatus, digestSent, mishaps>>

-----------------------------------------------------------------------------
\* Mutant of ClaimableRow: the rows are selected without FOR UPDATE SKIP LOCKED.
ClaimableUnlocked(k) == outbox[k].st = "pending" /\ outbox[k].due

ClaimableRow(k) == outbox[k].st = "pending" /\ outbox[k].due /\ ~RowLocked(k)

\* drain, drain_channels: the due rows of every kind, in order.
Claim(d) ==
  LET rows == InOrder(queue, {k \in OutboxKeys : ClaimableRow(k)}) IN
  /\ drain[d] = NoDrain /\ rows # <<>>
  /\ drain' = [drain EXCEPT ![d] = [NoDrain EXCEPT !.op = "open", !.todo = rows, !.held = Keys!ToSet(rows)]]
  /\ UNCHANGED <<outbox, queue, taskSeq, post, delivered, pref, notes, sentEvents, noteStatus, digestSent, mishaps>>

\* The drain of channels leaves the other kinds alone; the one of
\* notifications offers every row to a provider that refuses what is no
\* notification.
NotMine(d, k) == DrainOf[d] = "channels" /\ ~ChannelKind(k)
Refuses(d, k) == DrainOf[d] = "notifications" /\ ChannelKind(k)

Handled(d, ok, failed, items) ==
  drain' = [drain EXCEPT ![d].todo = Tail(@), ![d].ok = @ \cup ok,
                         ![d].failed = @ \cup failed, ![d].items = items]

\* One row is offered to its provider, which acts unless it refuses or has
\* nothing to do (silent); the call may still fail after it has acted ("lost").
\* What a process posted it remembers, and does not post again.
Offer(d, k, answer, silent) ==
  LET known == k \in delivered[d]
      acts == answer # "refused" /\ ~known /\ ~silent
  IN /\ drain[d].op = "open" /\ ~NotMine(d, k)
     /\ (known /\ ~Refuses(d, k)) \/ silent => answer = "ok"
     /\ post' = IF ~acts THEN post
                ELSE [shown |-> IF ChannelKind(k) THEN outbox[k].text ELSE post.shown,
                      made |-> [post.made EXCEPT ![k] = @ + 1]]
     /\ delivered' = IF answer = "ok" /\ acts
                     THEN [delivered EXCEPT ![d] = @ \cup {k}] ELSE delivered
     /\ Handled(d, IF answer = "ok" THEN {k} ELSE {}, IF answer = "ok" THEN {} ELSE {k},
                IF k = Digest /\ answer = "ok" THEN outbox[k].text ELSE drain[d].items)
     /\ UNCHANGED <<outbox, queue, taskSeq, pref, notes, sentEvents, noteStatus, digestSent, mishaps>>

\* MattermostChannelProvider.deliver: a card is posted, or patched in place.
DeliverCard(d, answer) ==
  /\ drain[d].todo # <<>> /\ ChannelKind(Head(drain[d].todo))
  /\ Refuses(d, Head(drain[d].todo)) => answer = "refused"
  /\ Offer(d, Head(drain[d].todo), answer, FALSE)

\* MattermostNotificationProvider.send: nothing for a muted recipient.
SendNotification(d, answer) ==
  /\ drain[d].todo # <<>> /\ ~ChannelKind(Head(drain[d].todo))
  /\ Offer(d, Head(drain[d].todo), answer, pref = "muted")

SkipKind(d) ==
  /\ drain[d].op = "open" /\ drain[d].todo # <<>> /\ NotMine(d, Head(drain[d].todo))
  /\ Handled(d, {}, {}, drain[d].items)
  /\ UNCHANGED <<outbox, queue, taskSeq, post, delivered, pref, notes, sentEvents, noteStatus, digestSent, mishaps>>

\* A failure is retried after a delay, max_attempts times.
Retried(r) ==
  IF r.tries + 1 >= MaxTries THEN [r EXCEPT !.st = "dead", !.tries = @ + 1]
  ELSE [r EXCEPT !.tries = @ + 1, !.due = FALSE]

\* The drain commits: rows sent, retried or dead, the notification's status and
\* its one NOTIFICATION_SENT Event.
CommitDrain(d) ==
  LET t == drain[d] IN
  /\ t.op = "open" /\ t.todo = <<>>
  /\ outbox' = [k \in OutboxKeys |-> IF k \in t.ok THEN [outbox[k] EXCEPT !.st = "sent", !.tries = @ + 1]
                               ELSE IF k \in t.failed THEN Retried(outbox[k]) ELSE outbox[k]]
  /\ queue' = InOrder(queue, OutboxKeys \ (t.ok \cup t.failed)) \o InOrder(queue, t.failed)
  /\ noteStatus' = IF Note \in t.ok /\ noteStatus = "queued" THEN "sent" ELSE noteStatus
  /\ sentEvents' = IF Note \in t.ok THEN sentEvents + 1 ELSE sentEvents
  /\ digestSent' = IF Digest \in t.ok THEN t.items ELSE digestSent
  /\ drain' = [drain EXCEPT ![d] = NoDrain]
  /\ UNCHANGED <<taskSeq, post, delivered, pref, notes, mishaps>>

\* The process dies: the transaction and what it remembered are gone, the
\* posts are not.
CrashDrain(d) ==
  /\ mishaps < MaxDrainCrashes /\ drain[d] # NoDrain /\ mishaps' = mishaps + 1
  /\ drain' = [drain EXCEPT ![d] = NoDrain] /\ delivered' = [delivered EXCEPT ![d] = {}]
  /\ UNCHANGED <<outbox, queue, taskSeq, post, pref, notes, sentEvents, noteStatus, digestSent>>

DeliveryNext ==
  \/ RenderEvent \/ OnEvent \/ CancelPending
  \/ \E p \in {"plain", "digest", "muted"} : SetPreferences(p)
  \/ \E k \in OutboxKeys : BackoffOver(k)
  \/ \E d \in Drainers :
       \/ Claim(d) \/ SkipKind(d) \/ CommitDrain(d) \/ CrashDrain(d)
       \/ \E answer \in {"ok", "refused", "lost"} : DeliverCard(d, answer) \/ SendNotification(d, answer)

DeliverySpec == DeliveryInit /\ [][DeliveryNext]_deliveryVars

-----------------------------------------------------------------------------
DeliveryTypeOK ==
  /\ \A k \in OutboxKeys : /\ outbox[k].st \in {"none", "pending", "sent", "dead"}
                     /\ outbox[k].tries \in Nat /\ outbox[k].text \in Nat
  /\ Keys!ToSet(queue) \subseteq OutboxKeys /\ taskSeq \in 0 .. MaxEvents
  /\ pref \in {"plain", "digest", "muted"} /\ sentEvents \in Nat
  /\ noteStatus \in {"none", "queued", "sent"} /\ post.shown \in 0 .. MaxEvents

\* What the outbox keeps through competing drains, failing providers and
\* crashes: a row that counts as sent was posted (or its recipient is muted);
\* nothing is posted more often than its row was tried and a process crashed;
\* a notification is sent with exactly one NOTIFICATION_SENT Event; and a row
\* that gave up was tried max_attempts times, unless it is a cancelled
\* reminder (enqueue_delivery, drain, drain_channels, deliver).
SentOnce ==
  /\ \A k \in OutboxKeys :
       /\ ChannelKind(k) /\ outbox[k].st = "sent" => post.made[k] > 0
       /\ post.made[k] <= outbox[k].tries + mishaps + IF RowLocked(k) THEN 1 ELSE 0
       /\ outbox[k].st = "dead" => outbox[k].tries = MaxTries \/ k = Reminder
  /\ sentEvents = IF noteStatus = "sent" THEN 1 ELSE 0
  /\ (noteStatus = "sent") = (outbox[Note].st = "sent")
===============================================================================
