-------------------------------- MODULE Bridge --------------------------------
(***************************************************************************)
(* The Telegram bridge (server/channels/telegram/bridge.py with the        *)
(* contract of telegram_contract.py, the gateway that feeds and drains it  *)
(* and the intake of updates).  A message seen on one platform is checked  *)
(* and mapped in one transaction; the drain posts its copy on the other    *)
(* platform and completes the mapping in another.  Messages are numbered   *)
(* as they appear, on whichever platform; an inbound event may be handled  *)
(* again (a webhook is retried, an update polled again, a message edited). *)
(***************************************************************************)
EXTENDS Integers, Sequences, FiniteSets

CONSTANTS
  Handlers,       \* inbound handlers that run at once
  MaxHuman,       \* bound: messages written by people
  MaxMessages,    \* bound: messages on both platforms
  MaxBridgeTries, \* BRIDGE_MAX_ATTEMPTS
  MaxFailures,    \* bound: crashes and failed commits of the drain
  MaxChanges      \* bound: changes of the bridge's configuration

ASSUME BridgeAssumption ==
  /\ MaxBridgeTries \in Nat \ {0} /\ MaxHuman <= MaxMessages
  /\ MaxMessages \in Nat /\ MaxFailures \in Nat /\ MaxChanges \in Nat

VARIABLES
  bridge,      \* the telegram_bridges row, and whether the bot has a bot account
  chat,        \* the messages of both platforms
  relay,       \* message -> mapping, outbox row and dead letter
  handler,     \* the open transaction of each handler
  bridgeDrain, \* the open transaction of the drain
  remembered,  \* message -> copy, as the providers of the process remember it
  upsets,      \* crashes and failed commits, changes of the configuration
  bridgeEvents \* BRIDGE_DELIVERY_FAILED Events, by message

bridgeVars == <<bridge, chat, relay, handler, bridgeDrain, remembered, upsets, bridgeEvents>>

MessageIds == 1 .. MaxMessages
OtherSide(p) == IF p = "mm" THEN "tg" ELSE "mm"
Directions == {"mm", "tg", "both"}

NoPayload == [thread |-> 0, opens |-> FALSE, marked |-> FALSE]
NoRelay == [map |-> "none", row |-> "none", tries |-> 0, dest |-> 0, payload |-> NoPayload, due |-> FALSE,
            letter |-> "none"]
NoHandler == [id |-> 0, payload |-> NoPayload]
NoBridgeDrain == [open |-> FALSE, todo |-> {}, ok |-> {}, failed |-> {}]

BridgeInit ==
  /\ bridge \in [enabled : {TRUE}, direction : Directions, showSender : BOOLEAN, botAccount : BOOLEAN,
                 topics : BOOLEAN]
  /\ chat = <<>> /\ relay = [i \in MessageIds |-> NoRelay]
  /\ handler = [h \in Handlers |-> NoHandler] /\ bridgeDrain = NoBridgeDrain
  /\ remembered = [i \in MessageIds |-> 0] /\ bridgeEvents = {}
  /\ upsets \in (0 .. MaxFailures) \X (0 .. MaxChanges)

-----------------------------------------------------------------------------
\* Someone writes on a platform.  A Mattermost post is a root or hangs on one.
\* A Telegram message is in General or in a topic, which a message opened, and
\* may reply to a message there.
WriteMessage(p, thread, reply) ==
  LET new == Len(chat) + 1 IN
  /\ Cardinality({i \in DOMAIN chat : chat[i].of = 0}) < MaxHuman /\ Len(chat) < MaxMessages
  /\ thread \in {0} \cup {i \in DOMAIN chat : chat[i].platform = p
                                              /\ chat[i].thread = IF p = "mm" THEN 0 ELSE i}
                \cup IF p = "tg" THEN {new} ELSE {}
  /\ reply \in {0} \cup IF p = "mm" THEN {}
                        ELSE {i \in DOMAIN chat : chat[i].platform = "tg" /\ chat[i].thread = thread}
  /\ chat' = Append(chat, [platform |-> p, thread |-> thread, reply |-> reply, of |-> 0, bot |-> FALSE,
                           marked |-> FALSE])
  /\ UNCHANGED <<bridge, relay, handler, bridgeDrain, remembered, upsets, bridgeEvents>>

\* completed_mappings.
MappingSent(i) == relay[i].map = "sent"

\* The two messages of a completed mapping.
OnMattermost(j) == IF chat[j].platform = "mm" THEN j ELSE relay[j].dest
OnTelegram(j) == IF chat[j].platform = "tg" THEN j ELSE relay[j].dest
RootOf(i) == IF chat[i].thread = 0 THEN i ELSE chat[i].thread

\* Mutant of CheckLoop: the origin mark is not looked at.
CheckLoopBotOnly(i) == ~chat[i].bot

\* check_loop: written by the bridge's bot, or with an origin mark.
CheckLoop(i) == ~chat[i].bot /\ ~chat[i].marked

\* check_direction.
CheckDirection(i) == bridge.direction \in {"both", chat[i].platform}

\* resolve_target.  A Mattermost root goes to a topic of its own or to General;
\* its replies follow it, once its mapping is complete, and are dropped before.
\* A Telegram reply follows the message it answers; a message in a topic goes
\* under the root that stands for the topic; any other one becomes a root.
MappingKnown(j) == j \in DOMAIN chat /\ MappingSent(j)
Threads(i) ==
  LET root == {j \in MessageIds : MappingKnown(j) /\ OnMattermost(j) = chat[i].thread}
      answered == {j \in MessageIds : MappingKnown(j) /\ OnTelegram(j) = chat[i].reply}
      topic == {j \in MessageIds : MappingKnown(j) /\ chat[i].thread # 0 /\ chat[OnMattermost(j)].thread = 0
                            /\ chat[OnTelegram(j)].thread = chat[i].thread}
  IN IF chat[i].platform = "mm"
     THEN IF chat[i].thread = 0 THEN {0} ELSE {chat[OnTelegram(j)].thread : j \in root}
     ELSE CASE answered # {} -> {RootOf(OnMattermost(j)) : j \in answered}
            [] answered = {} /\ topic # {} -> {OnMattermost(j) : j \in topic}
            [] OTHER -> {0}
ResolveTarget(i) ==
  {[thread |-> t, opens |-> chat[i].platform = "mm" /\ chat[i].thread = 0 /\ bridge.topics,
    marked |-> chat[i].platform = "tg" \/ bridge.showSender] : t \in Threads(i)}

\* _relay up to its insert.
ReadInbound(h, i) ==
  /\ handler[h] = NoHandler
  /\ bridge.enabled /\ CheckLoop(i) /\ CheckDirection(i) /\ relay[i].map = "none"
  /\ \E target \in ResolveTarget(i) : handler' = [handler EXCEPT ![h] = [id |-> i, payload |-> target]]
  /\ UNCHANGED <<bridge, chat, relay, bridgeDrain, remembered, upsets, bridgeEvents>>

OnMattermostPost(h, i) == i \in DOMAIN chat /\ chat[i].platform = "mm" /\ ReadInbound(h, i)
OnTelegramMessage(h, i) == i \in DOMAIN chat /\ chat[i].platform = "tg" /\ ReadInbound(h, i)

\* _insert_mapping and enqueue_delivery; the unique source refuses the second.
InsertMapping(h) ==
  LET i == handler[h].id IN
  /\ handler[h] # NoHandler /\ handler' = [handler EXCEPT ![h] = NoHandler]
  /\ relay' = IF relay[i].map # "none" THEN relay
              ELSE [relay EXCEPT ![i] = [@ EXCEPT !.map = "pending", !.row = "pending", !.due = TRUE,
                                                  !.payload = handler[h].payload]]
  /\ UNCHANGED <<bridge, chat, bridgeDrain, remembered, upsets, bridgeEvents>>

-----------------------------------------------------------------------------
\* drain_once, deliver: the due rows are claimed.
StartDrain ==
  LET due == {i \in MessageIds : relay[i].row = "pending" /\ relay[i].due} IN
  /\ ~bridgeDrain.open /\ due # {}
  /\ bridgeDrain' = [NoBridgeDrain EXCEPT !.open = TRUE, !.todo = due]
  /\ UNCHANGED <<bridge, chat, relay, handler, remembered, upsets, bridgeEvents>>

\* The copy: in Mattermost it carries the origin property, in Telegram only the
\* sender's prefix, if that is shown; a topic of its own, where wanted.
BridgeCopy(i) ==
  LET p == OtherSide(chat[i].platform) IN
  [platform |-> p, of |-> i, bot |-> p = "tg" \/ bridge.botAccount, marked |-> relay[i].payload.marked,
   reply |-> 0, thread |-> IF relay[i].payload.opens THEN Len(chat) + 1 ELSE relay[i].payload.thread]

\* deliver of either provider: nothing for a key it remembers; a call that
\* fails may have posted.
PostCopy(i, answer) ==
  LET acts == remembered[i] = 0 /\ answer # "refused" IN
  /\ bridgeDrain.open /\ i \in bridgeDrain.todo
  /\ remembered[i] # 0 => answer = "ok"
  /\ acts => Len(chat) < MaxMessages
  /\ chat' = IF acts THEN Append(chat, BridgeCopy(i)) ELSE chat
  /\ remembered' = IF acts /\ answer = "ok" THEN [remembered EXCEPT ![i] = Len(chat) + 1] ELSE remembered
  /\ bridgeDrain' = [bridgeDrain EXCEPT !.todo = @ \ {i},
                                        !.ok = IF answer = "ok" THEN @ \cup {i} ELSE @,
                                        !.failed = IF answer = "ok" THEN @ ELSE @ \cup {i}]
  /\ UNCHANGED <<bridge, relay, handler, upsets, bridgeEvents>>

\* record_delivered completes every mapping the providers remember;
\* _dead_letter closes what the drain gave up, with one Event and one letter.
RecordDelivered(i) == [relay[i] EXCEPT !.row = "sent", !.map = "sent", !.dest = remembered[i], !.tries = @ + 1]
DeadLettered(i) ==
  IF relay[i].tries + 1 < MaxBridgeTries THEN [relay[i] EXCEPT !.tries = @ + 1, !.due = FALSE]
  ELSE [relay[i] EXCEPT !.row = "dead", !.map = "dead", !.tries = @ + 1,
                        !.letter = IF @ = "none" THEN "open" ELSE @]
FinishDrain ==
  LET after(i) == IF i \in bridgeDrain.ok THEN RecordDelivered(i)
                  ELSE IF i \in bridgeDrain.failed THEN DeadLettered(i) ELSE relay[i] IN
  /\ bridgeDrain.open /\ bridgeDrain.todo = {} /\ bridgeDrain' = NoBridgeDrain
  /\ relay' = [i \in MessageIds |-> after(i)]
  /\ bridgeEvents' = bridgeEvents \cup {i \in bridgeDrain.failed : after(i).row = "dead"}
  /\ UNCHANGED <<bridge, chat, handler, remembered, upsets>>

\* The transaction fails and the gateway goes on, or the process restarts and
\* its providers forget what they posted.
LoseDrain(restart) ==
  /\ bridgeDrain.open /\ upsets[1] < MaxFailures /\ upsets' = [upsets EXCEPT ![1] = @ + 1]
  /\ bridgeDrain' = NoBridgeDrain
  /\ remembered' = IF restart THEN [i \in MessageIds |-> 0] ELSE remembered
  /\ UNCHANGED <<bridge, chat, relay, handler, bridgeEvents>>

\* The backoff of a failed row passes.
RetryDue(i) ==
  /\ relay[i].row = "pending" /\ ~relay[i].due
  /\ relay' = [relay EXCEPT ![i].due = TRUE]
  /\ UNCHANGED <<bridge, chat, handler, bridgeDrain, remembered, upsets, bridgeEvents>>

\* replay_dead_letters.
ReplayDeadLetters ==
  LET letters == {i \in MessageIds : relay[i].letter = "open"} IN
  /\ letters # {}
  /\ relay' = [i \in MessageIds |-> IF i \in letters
                             THEN [relay[i] EXCEPT !.row = "pending", !.map = "pending", !.tries = 0,
                                                   !.due = TRUE, !.letter = "replayed"]
                             ELSE relay[i]]
  /\ UNCHANGED <<bridge, chat, handler, bridgeDrain, remembered, upsets, bridgeEvents>>

\* set_status and update_bridge.
SetBridgeStatus ==
  /\ upsets[2] < MaxChanges /\ upsets' = [upsets EXCEPT ![2] = @ + 1]
  /\ bridge' = [bridge EXCEPT !.enabled = ~@]
  /\ UNCHANGED <<chat, relay, handler, bridgeDrain, remembered, bridgeEvents>>
UpdateBridge(field, value) ==
  /\ upsets[2] < MaxChanges /\ upsets' = [upsets EXCEPT ![2] = @ + 1]
  /\ bridge[field] # value /\ bridge' = [bridge EXCEPT ![field] = value]
  /\ UNCHANGED <<chat, relay, handler, bridgeDrain, remembered, bridgeEvents>>

BridgeNext ==
  \/ \E p \in {"mm", "tg"}, i, j \in MessageIds \cup {0} : WriteMessage(p, i, j)
  \/ \E h \in Handlers : InsertMapping(h) \/ \E i \in MessageIds : OnMattermostPost(h, i) \/ OnTelegramMessage(h, i)
  \/ StartDrain \/ FinishDrain \/ ReplayDeadLetters \/ SetBridgeStatus
  \/ \E i \in MessageIds : RetryDue(i) \/ \E answer \in {"ok", "refused", "lost"} : PostCopy(i, answer)
  \/ \E restart \in BOOLEAN : LoseDrain(restart)
  \/ \E d \in Directions : UpdateBridge("direction", d)
  \/ \E f \in {"showSender", "topics"}, v \in BOOLEAN : UpdateBridge(f, v)

BridgeSpec == BridgeInit /\ [][BridgeNext]_bridgeVars

-----------------------------------------------------------------------------
BridgeTypeOK ==
  /\ Len(chat) <= MaxMessages /\ bridgeEvents \subseteq MessageIds
  /\ \A i \in MessageIds : relay[i].map \in {"none", "pending", "sent", "dead"} /\ relay[i].dest \in {0} \cup MessageIds
                    /\ relay[i].letter \in {"none", "open", "replayed"}
  /\ \A h \in Handlers : handler[h].id \in {0} \cup MessageIds

\* The bridge carries a conversation and never feeds on itself: no copy is
\* ever relayed back, whoever's account posts it and however its text is
\* shown; a completed mapping leads to a copy of its source on the other
\* platform; the copy of a Mattermost reply is in a topic with a copy of its
\* root, and what comes from Telegram hangs on a root post; the outbox row, the
\* mapping, the dead letter and its Event agree; and a message is copied once
\* per call, however often its event is handled (_relay, resolve_target,
\* deliver, record_delivered, _dead_letter).
RelayedOnce ==
  /\ \A i \in DOMAIN chat : chat[i].of # 0 => relay[i].map = "none"
  /\ \A i \in DOMAIN chat :
       LET copies == {j \in DOMAIN chat : chat[j].of = i}
           thread == relay[i].payload.thread
       IN /\ relay[i].map = relay[i].row
          /\ MappingSent(i) => relay[i].dest \in copies /\ chat[relay[i].dest].platform = OtherSide(chat[i].platform)
          /\ relay[i].map = "dead" => relay[i].letter # "none" /\ i \in bridgeEvents
          /\ chat[i].platform = "tg" /\ thread # 0 => chat[thread].platform = "mm" /\ chat[thread].thread = 0
          /\ chat[i].platform = "mm" /\ chat[i].thread # 0 /\ relay[i].map # "none" =>
               \E j \in DOMAIN chat : /\ chat[j].platform = "tg" /\ chat[j].thread = thread
                                      /\ chat[j].of = chat[i].thread \/ chat[chat[i].thread].of = j
          /\ Cardinality(copies) <= relay[i].tries + upsets[1] + (IF bridgeDrain.open THEN 1 ELSE 0)
                                     + (IF relay[i].letter = "replayed" THEN MaxBridgeTries ELSE 0)
===============================================================================
