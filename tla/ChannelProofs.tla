--------------------------- MODULE ChannelProofs ---------------------------
(***************************************************************************)
(* Proofs about the channels, for any number of messages and of workers:   *)
(* commands that come in from chat, the outbox that answers and notifies,  *)
(* and the bridge between the platforms.                                   *)
(***************************************************************************)
EXTENDS InboundCommands, Delivery, Bridge, FiniteSetTheorems, SequenceTheorems,
        WellFoundedInduction, TLAPS

-----------------------------------------------------------------------------
(***************************************************************************)
(* InboundCommands.  What InboundInv adds: what a worker still has to run  *)
(* leads to the outcome of its verb, unless that has been reached; a       *)
(* public reply, made or due, stands for one outcome of its message that   *)
(* took effect; and only a bot's message may have two outcomes, because    *)
(* slash commands and Telegram are handled one delivery at a time and a    *)
(* cancelled Task cannot be asked to cancel.                               *)
(***************************************************************************)
Cmds == {"TASK_CREATED", "TASK_DELEGATED", "TASK_REASSIGNED", "TASK_ACCEPTED", "TASK_STARTED",
         "TASK_PROGRESS_REPORTED", "IMPLEMENTATION_SUBMITTED", "TASK_CANCELLED", "TASK_CANCEL_REQUESTED",
         "TASK_COMPLETED", "create_run", "assign_run", "request", "decide", "assign", "start", "verdict"}
Plans == Seq(Cmds \cup {"post"})
Handlings == [msg : Messages, at : {"route", "run", "refused", "error"}, held : Nat,
              plan : Plans, replayed : BOOLEAN, bind : BOOLEAN]
Busy(w) == worker[w] # NoRequestHandled

\* The outcomes of a message that took effect.
Done(m) == {c \in Outcomes(m) : Took(c, <<m, 0>>)}

\* The workers that owe a public reply.
OwesReply(t, m) == t.msg = m /\ t.at = "run" /\ t.plan # <<>> /\ t.plan[1] = "post" /\ ~t.replayed
Owing(m) == {w \in Requesters : OwesReply(worker[w], m)}

\* One delivery at a time.
Alone(m) == message[m].source \in {"slash", "telegram"}

\* What is left of a plan of message m: the reply comes once, after an outcome.
PlanShape(m, p) ==
  /\ \A i, j \in DOMAIN p : p[i] = "post" /\ p[j] = "post" => i = j
  /\ \A i, j \in DOMAIN p : j = i + 1 /\ p[j] = "post" => p[i] \in Outcomes(m)
  /\ message[m].source = "button" => \A i \in DOMAIN p : p[i] # "TASK_CANCELLED"
  /\ \A i, j \in DOMAIN p : p[i] = "TASK_CANCELLED" => p[j] # "TASK_CANCEL_REQUESTED"
PlanLeads(m, p) ==
  /\ message[m].linked /\ GatewayAllows(m)
  /\ Done(m) # {} \/ \E i \in DOMAIN p : p[i] \in Outcomes(m)
  /\ p # <<>> /\ p[1] = "post" => Done(m) # {}
  /\ Alone(m) /\ (\E i \in DOMAIN p : p[i] = "TASK_CANCELLED") => "TASK_CANCEL_REQUESTED" \notin Done(m)
HandlingGood(t) ==
  /\ t.at # "run" => t.plan = <<>>
  /\ t.at = "run" => PlanShape(t.msg, t.plan) /\ PlanLeads(t.msg, t.plan)
  /\ t.bind => message[t.msg].verb = "create" /\ OwnTask(t.msg) /\ replies[t.msg] = 1

RepliesCounted(m) == IsFiniteSet(Owing(m)) /\ replies[m] + Cardinality(Owing(m)) <= Cardinality(Done(m))
CancelGood(m) ==
  message[m].verb = "cancel" =>
    /\ message[m].source = "button" => "TASK_CANCELLED" \notin Done(m)
    /\ Alone(m) => "TASK_CANCELLED" \notin Done(m) \/ "TASK_CANCEL_REQUESTED" \notin Done(m)
    /\ "TASK_CANCELLED" \in Done(m) => taskStatus = "CANCELLED"
    /\ "TASK_CANCEL_REQUESTED" \in Done(m) => taskStatus \in {"CANCEL_REQUESTED", "CANCELLED"}
AnswerGood(m) ==
  /\ <<m, "ok">> \in answers => Done(m) # {}
  /\ m \in bound => message[m].verb = "create" /\ OwnTask(m) /\ replies[m] = 1

InboundTypes ==
  /\ message \in [Messages -> [source : Sources, verb : Verbs, linked : BOOLEAN, policy : BridgePolicies]]
  /\ \A m \in Messages : message[m].source = "button" => message[m].verb \in {"accept", "cancel", "verdict"}
  /\ \A m \in Messages : message[m].source # "telegram" => message[m].policy = "open"
  /\ worker \in [Requesters -> {NoRequestHandled} \cup Handlings]
  /\ replies \in [Messages -> Nat]
  /\ taskStatus \in Statuses /\ seen \subseteq Messages /\ bound \subseteq Messages
  /\ commandLog \in Seq([cmd : Cmds, key : Messages \X {0}])
LogGood ==
  /\ \A i, j \in DOMAIN commandLog : commandLog[i] = commandLog[j] => i = j
  /\ \A i \in DOMAIN commandLog : message[commandLog[i].key[1]].linked /\ GatewayAllows(commandLog[i].key[1])
OneAtATime ==
  /\ \A v, w \in Requesters :
       Busy(v) /\ Busy(w) /\ Alone(worker[v].msg) /\ worker[v].msg = worker[w].msg => v = w
  /\ \A v \in Requesters : Busy(v) /\ message[worker[v].msg].source = "slash" => worker[v].msg \in seen
InboundInv ==
  /\ InboundTypes /\ LogGood /\ OneAtATime
  /\ \A w \in Requesters : Busy(w) => HandlingGood(worker[w])
  /\ \A m \in Messages : RepliesCounted(m) /\ CancelGood(m) /\ AnswerGood(m)

\* The outcomes of a verb: one, or two of a cancel.
LEMMA OneOutcome ==
  ASSUME NEW m \in Messages, message[m].verb # "cancel"
  PROVE  \E c \in Cmds : Outcomes(m) = {c}
BY DEF Outcomes, Cmds

LEMMA CancelOutcomes ==
  ASSUME NEW m \in Messages, message[m].verb = "cancel"
  PROVE  Outcomes(m) = {"TASK_CANCELLED", "TASK_CANCEL_REQUESTED"}
BY DEF Outcomes

\* The outcomes reached are countable, and only a cancel may reach two.
LEMMA DoneCounts ==
  ASSUME NEW m \in Messages
  PROVE  /\ IsFiniteSet(Done(m)) /\ Cardinality(Done(m)) \in Nat /\ Done(m) \subseteq Cmds
         /\ Cardinality(Done(m)) <= 2
         /\ message[m].verb # "cancel" => Cardinality(Done(m)) <= 1
         /\ "TASK_CANCELLED" \notin Done(m) \/ "TASK_CANCEL_REQUESTED" \notin Done(m) =>
              Cardinality(Done(m)) <= 1
<1>0. /\ "TASK_CANCELLED" # "TASK_CANCEL_REQUESTED"
      /\ {"TASK_CANCELLED", "TASK_CANCEL_REQUESTED"} \subseteq Cmds
  BY DEF Cmds
<1>1. Done(m) \subseteq Outcomes(m)
  BY DEF Done
<1>2. CASE message[m].verb # "cancel"
  <2>1. PICK c \in Cmds : Outcomes(m) = {c}
    BY <1>2, OneOutcome
  <2>2. IsFiniteSet({c}) /\ Cardinality({c}) = 1
    BY FS_Singleton
  <2> HIDE DEF Done
  <2>3. IsFiniteSet(Done(m)) /\ Cardinality(Done(m)) <= 1 /\ Cardinality(Done(m)) \in Nat
    BY <1>1, <2>1, <2>2, FS_Subset, FS_CardinalityType
  <2> QED
    BY <1>1, <1>2, <2>1, <2>3
<1>3. CASE message[m].verb = "cancel"
  <2>1. Outcomes(m) = {"TASK_CANCELLED", "TASK_CANCEL_REQUESTED"}
    BY <1>3, CancelOutcomes
  <2>2. /\ IsFiniteSet({"TASK_CANCELLED"}) /\ Cardinality({"TASK_CANCELLED"}) = 1
        /\ IsFiniteSet({"TASK_CANCEL_REQUESTED"}) /\ Cardinality({"TASK_CANCEL_REQUESTED"}) = 1
    BY FS_Singleton
  <2>3. /\ IsFiniteSet(Outcomes(m)) /\ Cardinality(Outcomes(m)) = 2
    <3>1. Outcomes(m) = {"TASK_CANCELLED"} \cup {"TASK_CANCEL_REQUESTED"}
      BY <2>1
    <3>2. "TASK_CANCEL_REQUESTED" \notin {"TASK_CANCELLED"}
      BY <1>0
    <3> QED
      BY <2>2, <3>1, <3>2, FS_AddElement
  <2>4. IsFiniteSet(Done(m)) /\ Cardinality(Done(m)) <= 2 /\ Cardinality(Done(m)) \in Nat
    BY <1>1, <2>3, FS_Subset, FS_CardinalityType
  <2>5. ASSUME "TASK_CANCELLED" \notin Done(m) \/ "TASK_CANCEL_REQUESTED" \notin Done(m)
        PROVE  Cardinality(Done(m)) <= 1
    <3>1. Done(m) \subseteq {"TASK_CANCELLED"} \/ Done(m) \subseteq {"TASK_CANCEL_REQUESTED"}
      BY <1>1, <2>1, <2>5
    <3> QED
      BY <2>2, <3>1, FS_Subset
  <2> QED
    BY <1>0, <1>1, <1>3, <2>1, <2>4, <2>5
<1> QED
  BY <1>2, <1>3

-----------------------------------------------------------------------------
\* Plans.  Of the plan a verb starts with: it leads to the outcome, and cancels
\* only a Task that has not started.
PlanStarts(m, p) ==
  /\ p \in Plans /\ PlanShape(m, p)
  /\ p # <<>> => p[1] # "post" /\ \E i \in DOMAIN p : p[i] \in Outcomes(m)
  /\ \A i \in DOMAIN p : p[i] = "TASK_CANCELLED" =>
       message[m].verb = "cancel" /\ taskStatus \in {"OPEN", "DELEGATED", "ACCEPTED"}

LEMMA NoPlan == ASSUME NEW m PROVE PlanStarts(m, <<>>)
BY DEF PlanStarts, PlanShape, Plans

LEMMA CmdsArePlain == \A c \in Cmds : c # "post"
BY DEF Cmds

LEMMA OneStepPlan ==
  ASSUME NEW m, NEW c \in Cmds, c \in Outcomes(m), c # "TASK_CANCELLED"
  PROVE  PlanStarts(m, <<c>>)
<1> DEFINE p == <<c>>
<1>1. p \in Seq(Cmds \cup {"post"}) /\ DOMAIN p = {1} /\ p[1] = c /\ p # <<>>
  OBVIOUS
<1> HIDE DEF p
<1>2. PlanShape(m, p)
  BY <1>1, CmdsArePlain DEF PlanShape
<1> QED
  BY <1>1, <1>2, CmdsArePlain DEF PlanStarts, Plans, p

LEMMA TwoStepPlan ==
  ASSUME NEW m, NEW c \in Cmds, c \in Outcomes(m),
         c = "TASK_CANCELLED" => /\ message[m].source # "button" /\ message[m].verb = "cancel"
                                 /\ taskStatus \in {"OPEN", "DELEGATED", "ACCEPTED"}
  PROVE  PlanStarts(m, <<c, "post">>)
<1> DEFINE p == <<c, "post">>
<1>1. p \in Seq(Cmds \cup {"post"}) /\ DOMAIN p = {1, 2} /\ p[1] = c /\ p[2] = "post" /\ p # <<>>
  OBVIOUS
<1>2. c # "post" /\ "post" # "TASK_CANCELLED" /\ "post" # "TASK_CANCEL_REQUESTED"
  BY CmdsArePlain
<1> HIDE DEF p
<1>3. PlanShape(m, p)
  BY <1>1, <1>2 DEF PlanShape
<1> QED
  BY <1>1, <1>2, <1>3 DEF PlanStarts, Plans, p

LEMMA ThreeStepPlan ==
  ASSUME NEW m, NEW b \in Cmds, NEW c \in Cmds, c \in Outcomes(m), b # "TASK_CANCELLED", c # "TASK_CANCELLED"
  PROVE  PlanStarts(m, <<b, c, "post">>)
<1> DEFINE p == <<b, c, "post">>
<1>1. p \in Seq(Cmds \cup {"post"}) /\ DOMAIN p = {1, 2, 3} /\ p[1] = b /\ p[2] = c /\ p[3] = "post" /\ p # <<>>
  OBVIOUS
<1>2. c # "post" /\ b # "post" /\ "post" # "TASK_CANCELLED" /\ "post" # "TASK_CANCEL_REQUESTED"
  BY CmdsArePlain
<1> HIDE DEF p
<1>3. PlanShape(m, p)
  BY <1>1, <1>2 DEF PlanShape
<1> QED
  BY <1>1, <1>2, <1>3 DEF PlanStarts, Plans, p

LEMMA VerdictPlan ==
  ASSUME NEW m, "verdict" \in Outcomes(m)
  PROVE  PlanStarts(m, <<"assign", "start", "verdict", "post">>)
<1> DEFINE p == <<"assign", "start", "verdict", "post">>
<1>1. /\ p \in Seq(Cmds \cup {"post"}) /\ DOMAIN p = {1, 2, 3, 4} /\ p # <<>>
      /\ p[1] = "assign" /\ p[2] = "start" /\ p[3] = "verdict" /\ p[4] = "post"
  BY DEF Cmds
<1> HIDE DEF p
<1>2. PlanShape(m, p)
  BY <1>1 DEF PlanShape
<1> QED
  BY <1>1, <1>2 DEF PlanStarts, Plans, p

LEMMA CreatePlan ==
  ASSUME NEW m, "TASK_CREATED" \in Outcomes(m)
  PROVE  PlanStarts(m, TaskCreate)
<1> DEFINE p == TaskCreate
<1>1. /\ p \in Seq(Cmds \cup {"post"}) /\ DOMAIN p = {1, 2, 3} /\ p # <<>>
      /\ p[1] = "TASK_CREATED" /\ p[2] = "post" /\ p[3] = "TASK_DELEGATED"
  BY DEF Cmds, TaskCreate
<1> HIDE DEF p
<1>2. PlanShape(m, p)
  BY <1>1 DEF PlanShape
<1> QED
  BY <1>1, <1>2 DEF PlanStarts, Plans, p

LEMMA StartingPlan ==
  ASSUME NEW m, NEW c \in Cmds, c \in Outcomes(m), c # "TASK_CANCELLED"
  PROVE  PlanStarts(m, Starting \o <<c, "post">>)
<1>1. "TASK_STARTED" \in Cmds /\ "TASK_STARTED" # "TASK_CANCELLED"
  BY DEF Cmds
<1>2. \/ Starting \o <<c, "post">> = <<c, "post">>
      \/ Starting \o <<c, "post">> = <<"TASK_STARTED", c, "post">>
  <2>1. Starting = <<"TASK_STARTED">> \/ Starting = <<>>
    BY DEF Starting
  <2>2. <<"TASK_STARTED">> \o <<c, "post">> = <<"TASK_STARTED", c, "post">>
    <3> DEFINE pre == <<"TASK_STARTED">>
               rest == <<c, "post">>
               whole == <<"TASK_STARTED", c, "post">>
               steps == Cmds \cup {"post"}
    <3>1. pre \in Seq(steps) /\ rest \in Seq(steps) /\ whole \in Seq(steps) /\ Len(pre) = 1 /\ Len(rest) = 2 /\ Len(whole) = 3
      BY <1>1
    <3>2. pre[1] = whole[1] /\ rest[1] = whole[2] /\ rest[2] = whole[3]
      OBVIOUS
    <3> HIDE DEF pre, rest, whole, steps
    <3>6. /\ pre \o rest \in Seq(steps) /\ Len(pre \o rest) = Len(pre) + Len(rest)
          /\ \A i \in 1 .. Len(pre) + Len(rest) :
               (pre \o rest)[i] = IF i <= Len(pre) THEN pre[i] ELSE rest[i - Len(pre)]
      BY <3>1, ConcatProperties
    <3>3. pre \o rest \in Seq(steps) /\ Len(pre \o rest) = 3
      BY <3>1, <3>6
    <3>4. \A i \in 1 .. 3 : (pre \o rest)[i] = whole[i]
      BY <3>1, <3>2, <3>6
    <3>5. pre \o rest = whole
      BY <3>1, <3>3, <3>4
    <3> QED
      BY <3>5 DEF pre, rest, whole
  <2>3. <<>> \o <<c, "post">> = <<c, "post">>
    OBVIOUS
  <2> QED
    BY <2>1, <2>2, <2>3
<1> QED
  BY <1>1, <1>2, TwoStepPlan, ThreeStepPlan

LEMMA PlansStart ==
  ASSUME NEW m \in Messages, message[m].verb \in Verbs, message[m].source # "button"
  PROVE  PlanStarts(m, Plan(message[m].verb))
<1> DEFINE v == message[m].verb
<1>0. {"TASK_DELEGATED", "TASK_REASSIGNED", "TASK_ACCEPTED", "TASK_PROGRESS_REPORTED",
       "IMPLEMENTATION_SUBMITTED", "TASK_CANCELLED", "TASK_CANCEL_REQUESTED", "TASK_COMPLETED", "create_run",
       "assign_run", "request", "decide", "start", "verdict"} \subseteq Cmds
  BY DEF Cmds
<1>1. CASE v = "create"
  <2>1. Plan(v) = TaskCreate /\ "TASK_CREATED" \in Outcomes(m)
    BY <1>1 DEF Plan, Outcomes
  <2> QED
    BY <2>1, CreatePlan
<1>2. CASE v \in {"delegate", "reassign", "accept", "complete", "request", "decide"}
  <2>1. \E c \in Cmds : Plan(v) = <<c, "post">> /\ c \in Outcomes(m) /\ c # "TASK_CANCELLED"
    BY <1>0, <1>2 DEF Plan, Outcomes, TaskDelegate, TaskReassign, TaskAccept, TaskComplete, ApproveRequest,
                      ApproveDecide
  <2> QED
    BY <2>1, TwoStepPlan
<1>3. CASE v \in {"progress", "submit"}
  <2>1. \E c \in Cmds : Plan(v) = Starting \o <<c, "post">> /\ c \in Outcomes(m) /\ c # "TASK_CANCELLED"
    BY <1>0, <1>3 DEF Plan, Outcomes, TaskProgress, TaskSubmit
  <2> QED
    BY <2>1, StartingPlan
<1>4. CASE v = "cancel"
  <2>1. Plan(v) = TaskCancel /\ Outcomes(m) = {"TASK_CANCELLED", "TASK_CANCEL_REQUESTED"}
    BY <1>4 DEF Plan, Outcomes
  <2>2. CASE taskStatus \in {"OPEN", "DELEGATED", "ACCEPTED"}
    BY <1>0, <1>4, <2>1, <2>2, TwoStepPlan DEF TaskCancel
  <2>3. CASE taskStatus \notin {"OPEN", "DELEGATED", "ACCEPTED"}
    BY <1>0, <1>4, <2>1, <2>3, TwoStepPlan DEF TaskCancel
  <2> QED
    BY <2>2, <2>3
<1>5. CASE v = "verify"
  <2>1. Plan(v) = VerifyAssign /\ Outcomes(m) = {"assign_run"}
    BY <1>5 DEF Plan, Outcomes
  <2>2. VerifyAssign = <<>> \/ VerifyAssign = <<"create_run", "assign_run", "post">>
    BY DEF VerifyAssign
  <2> QED
    BY <1>0, <2>1, <2>2, NoPlan, ThreeStepPlan
<1>6. CASE v = "verdict"
  <2>1. Plan(v) = VerifyVerdict /\ Outcomes(m) = {"verdict"}
    BY <1>6 DEF Plan, Outcomes
  <2>2. \/ VerifyVerdict = <<>> \/ VerifyVerdict = <<"assign", "start", "verdict", "post">>
        \/ VerifyVerdict = <<"start", "verdict", "post">> \/ VerifyVerdict = <<"verdict", "post">>
    BY DEF VerifyVerdict
  <2> QED
    BY <1>0, <2>1, <2>2, NoPlan, TwoStepPlan, ThreeStepPlan, VerdictPlan
<1> QED
  BY <1>1, <1>2, <1>3, <1>4, <1>5, <1>6 DEF Verbs

LEMMA ButtonPlansStart ==
  ASSUME NEW m \in Messages, message[m].verb \in {"accept", "cancel", "verdict"}
  PROVE  PlanStarts(m, ButtonPlan(message[m].verb))
<1>0. {"TASK_ACCEPTED", "TASK_CANCEL_REQUESTED", "verdict"} \subseteq Cmds
  BY DEF Cmds
<1>1. \/ ButtonPlan(message[m].verb) = <<>>
      \/ \E c \in Cmds : ButtonPlan(message[m].verb) = <<c>> /\ c \in Outcomes(m) /\ c # "TASK_CANCELLED"
  BY <1>0 DEF ButtonPlan, Outcomes
<1> QED
  BY <1>1, NoPlan, OneStepPlan

\* What is left of a plan after its first step is a plan still.
LEMMA PlanTail ==
  ASSUME NEW m, NEW p \in Plans, p # <<>>, PlanShape(m, p)
  PROVE  /\ Tail(p) \in Plans /\ PlanShape(m, Tail(p))
         /\ 1 \in DOMAIN p /\ Head(p) = p[1] /\ p[1] \in Cmds \cup {"post"}
         /\ \A i \in DOMAIN Tail(p) : i + 1 \in DOMAIN p /\ Tail(p)[i] = p[i + 1]
         /\ Tail(p) # <<>> => 1 \in DOMAIN Tail(p) /\ Tail(p)[1] = p[2] /\ 2 \in DOMAIN p
         /\ \A i \in DOMAIN p : i = 1 \/ (i - 1 \in DOMAIN Tail(p) /\ Tail(p)[i - 1] = p[i])
         /\ p[1] = "post" => \A i \in DOMAIN Tail(p) : Tail(p)[i] # "post"
<1> DEFINE n == Len(p)
           q == Tail(p)
<1>1. /\ n \in Nat /\ n > 0 /\ DOMAIN p = 1 .. n /\ q \in Seq(Cmds \cup {"post"})
      /\ DOMAIN q = 1 .. (n - 1) /\ Len(q) = n - 1
  BY DEF n, q, Plans
<1>2. \A i \in DOMAIN q : q[i] = p[i + 1] /\ i + 1 \in DOMAIN p
  BY <1>1 DEF q
<1>3. Head(p) = p[1] /\ p[1] \in Cmds \cup {"post"} /\ 1 \in DOMAIN p
  BY <1>1
<1>4. q # <<>> => 1 \in DOMAIN q
  BY <1>1
<1>5. \A i \in DOMAIN p : i = 1 \/ (i - 1 \in DOMAIN q /\ q[i - 1] = p[i])
  BY <1>1, <1>2
<1> HIDE DEF q, n
<1>6. PlanShape(m, q)
  <2>1. \A i, j \in DOMAIN q : q[i] = "post" /\ q[j] = "post" => i = j
    <3> SUFFICES ASSUME NEW i \in DOMAIN q, NEW j \in DOMAIN q, q[i] = "post", q[j] = "post" PROVE i = j
      OBVIOUS
    <3>1. i + 1 = j + 1
      BY <1>2 DEF PlanShape
    <3> QED
      BY <1>1, <3>1
  <2>2. \A i, j \in DOMAIN q : j = i + 1 /\ q[j] = "post" => q[i] \in Outcomes(m)
    <3> SUFFICES ASSUME NEW i \in DOMAIN q, NEW j \in DOMAIN q, j = i + 1, q[j] = "post"
                 PROVE  q[i] \in Outcomes(m)
      OBVIOUS
    <3>1. p[j + 1] = "post" /\ j + 1 = (i + 1) + 1 /\ i + 1 \in DOMAIN p /\ j + 1 \in DOMAIN p
      BY <1>2
    <3> QED
      BY <1>2, <3>1 DEF PlanShape
  <2>3. message[m].source = "button" => \A i \in DOMAIN q : q[i] # "TASK_CANCELLED"
    BY <1>2 DEF PlanShape
  <2>4. \A i, j \in DOMAIN q : q[i] = "TASK_CANCELLED" => q[j] # "TASK_CANCEL_REQUESTED"
    BY <1>2 DEF PlanShape
  <2> QED
    BY <2>1, <2>2, <2>3, <2>4 DEF PlanShape
<1>7. ASSUME p[1] = "post" PROVE \A i \in DOMAIN q : q[i] # "post"
  <2> SUFFICES ASSUME NEW i \in DOMAIN q, q[i] = "post" PROVE FALSE
    OBVIOUS
  <2>1. i + 1 = 1
    BY <1>2, <1>3, <1>7 DEF PlanShape
  <2> QED
    BY <1>1, <2>1
<1>8. q # <<>> => q[1] = p[2] /\ 2 \in DOMAIN p
  BY <1>1, <1>2, <1>4
<1> QED
  BY <1>1, <1>2, <1>3, <1>4, <1>5, <1>6, <1>7, <1>8 DEF q, Plans

\* The parts that speak of the messages and the log only, when those stay.
LEMMA SameLog ==
  ASSUME UNCHANGED <<message, commandLog>>
  PROVE  /\ \A m : Done(m)' = Done(m) /\ OwnTask(m)' = OwnTask(m) /\ GatewayAllows(m)' = GatewayAllows(m)
         /\ \A m, p : PlanShape(m, p)' <=> PlanShape(m, p)
         /\ \A m, p : PlanLeads(m, p)' <=> PlanLeads(m, p)
         /\ \A m : Outcomes(m)' = Outcomes(m) /\ Alone(m)' = Alone(m)
<1>1. \A m : Outcomes(m)' = Outcomes(m) /\ Alone(m)' = Alone(m) /\ GatewayAllows(m)' = GatewayAllows(m)
  BY DEF Outcomes, Alone, GatewayAllows
<1>2. \A m : Done(m)' = Done(m) /\ OwnTask(m)' = OwnTask(m)
  BY <1>1 DEF Done, OwnTask, Took
<1>3. \A m, p : PlanShape(m, p)' <=> PlanShape(m, p)
  BY <1>1 DEF PlanShape
<1>4. \A m, p : PlanLeads(m, p)' <=> PlanLeads(m, p)
  BY <1>1, <1>2 DEF PlanLeads
<1> QED
  BY <1>1, <1>2, <1>3, <1>4

\* Such a handling stays good when the log and the replies stay.
LEMMA SameHandling ==
  ASSUME UNCHANGED <<message, commandLog, replies>>, NEW t, HandlingGood(t)
  PROVE  HandlingGood(t)'
BY SameLog DEF HandlingGood

\* Nobody begins to owe a reply: those who do are countable.
LEMMA OwingShrinks ==
  ASSUME NEW m \in Messages, RepliesCounted(m), replies[m] \in Nat, Owing(m)' \subseteq Owing(m),
         replies'[m] = replies[m], Done(m)' = Done(m)
  PROVE  RepliesCounted(m)'
<1>1. IsFiniteSet(Owing(m)') /\ Cardinality(Owing(m)') <= Cardinality(Owing(m))
  BY FS_Subset DEF RepliesCounted
<1>2. Cardinality(Owing(m)) \in Nat /\ Cardinality(Owing(m)') \in Nat /\ Cardinality(Done(m)) \in Nat
  BY <1>1, FS_CardinalityType, DoneCounts DEF RepliesCounted
<1>3. replies[m] + Cardinality(Owing(m)) <= Cardinality(Done(m))
  BY DEF RepliesCounted
<1>4. replies[m] + Cardinality(Owing(m)') <= Cardinality(Done(m))
  BY <1>1, <1>2, <1>3
<1> QED
  BY <1>1, <1>4 DEF RepliesCounted

LEMMA HandlingsAreBusy == \A t \in Handlings : t # NoRequestHandled
BY DEF Handlings, NoRequestHandled

\* One worker moves to t and nothing takes effect.
LEMMA InboundQuiet ==
  ASSUME InboundInv, NEW w \in Requesters, NEW t \in {NoRequestHandled} \cup Handlings,
         worker' = [worker EXCEPT ![w] = t],
         UNCHANGED <<message, taskStatus, commandLog, replies>>,
         t # NoRequestHandled => HandlingGood(t), \A m \in Messages : ~OwesReply(t, m),
         seen \subseteq seen', seen' \subseteq Messages, bound' \subseteq Messages,
         \A m \in Messages : AnswerGood(m)', OneAtATime'
  PROVE  InboundInv'
<1>1. InboundTypes'
  BY DEF InboundInv, InboundTypes
<1>2. LogGood'
  BY SameLog DEF InboundInv, LogGood
<1>3. worker'[w] = t /\ \A v \in Requesters : v # w => worker'[v] = worker[v]
  BY DEF InboundInv, InboundTypes
<1>4. \A v \in Requesters : Busy(v)' => HandlingGood(worker[v])'
  <2> SUFFICES ASSUME NEW v \in Requesters, Busy(v)' PROVE HandlingGood(worker[v])'
    OBVIOUS
  <2>1. PICK x : x = worker'[v]
    OBVIOUS
  <2>2. HandlingGood(x)
    BY <1>3, <2>1 DEF InboundInv, Busy
  <2>3. HandlingGood(x)'
    BY <2>2, SameHandling
  <2> QED
    BY <2>1, <2>3
<1>5. ASSUME NEW m \in Messages PROVE RepliesCounted(m)' /\ CancelGood(m)'
  <2>1. Owing(m)' \subseteq Owing(m)
    BY <1>3 DEF Owing, OwesReply
  <2>2. RepliesCounted(m)'
    BY <2>1, SameLog, OwingShrinks DEF InboundInv, InboundTypes
  <2>3. CancelGood(m)'
    BY SameLog DEF InboundInv, CancelGood
  <2> QED
    BY <2>2, <2>3
<1> QED
  BY <1>1, <1>2, <1>4, <1>5 DEF InboundInv

\* A handling with the fields changed that a step of it changes.
LEMMA HandlingPlanned ==
  ASSUME NEW t \in Handlings, NEW at \in {"route", "run", "refused", "error"},
         NEW p \in Plans
  PROVE  LET r == [t EXCEPT !.at = at, !.plan = p]
         IN  r \in Handlings /\ r.msg = t.msg /\ r.at = at /\ r.plan = p /\ r.bind = t.bind
<1>1. Handlings = [msg : Messages, at : {"route", "run", "refused", "error"}, held : Nat,
                   plan : Plans, replayed : BOOLEAN, bind : BOOLEAN] /\ p \in Plans
  BY DEF Handlings
<1> QED
  BY <1>1

LEMMA HandlingSteps ==
  ASSUME NEW t \in Handlings, NEW p \in Plans, NEW b \in BOOLEAN
  PROVE  /\ LET r == [t EXCEPT !.plan = p, !.replayed = b] IN
              /\ r \in Handlings /\ r.msg = t.msg /\ r.at = t.at /\ r.plan = p /\ r.bind = t.bind
              /\ r.replayed = b
         /\ LET r == [t EXCEPT !.plan = p, !.bind = b] IN
              /\ r \in Handlings /\ r.msg = t.msg /\ r.at = t.at /\ r.plan = p /\ r.bind = b
              /\ r.replayed = t.replayed
<1>1. Handlings = [msg : Messages, at : {"route", "run", "refused", "error"}, held : Nat,
                   plan : Plans, replayed : BOOLEAN, bind : BOOLEAN] /\ p \in Plans
  BY DEF Handlings
<1> QED
  BY <1>1

LEMMA HandlingBegins ==
  ASSUME NEW m \in Messages, NEW held \in Nat
  PROVE  LET r == [NoRequestHandled EXCEPT !.msg = m, !.at = "route", !.held = held]
         IN  r \in Handlings /\ r.msg = m /\ r.at = "route" /\ r.plan = <<>> /\ r.bind = FALSE
<1>1. /\ NoRequestHandled \in [msg : {"none"}, at : {"idle"}, held : Nat, plan : Plans, replayed : BOOLEAN, bind : BOOLEAN]
      /\ NoRequestHandled.plan = <<>> /\ NoRequestHandled.bind = FALSE
  BY DEF NoRequestHandled, Plans
<1>2. Handlings = [msg : Messages, at : {"route", "run", "refused", "error"}, held : Nat,
                   plan : Plans, replayed : BOOLEAN, bind : BOOLEAN]
  BY DEF Handlings
<1> QED
  BY <1>1, <1>2

\* A worker that goes on with its message, or stops, leaves one at a time.
LEMMA StillOneAtATime ==
  ASSUME InboundInv, NEW w \in Requesters, NEW t,
         worker' = [worker EXCEPT ![w] = t], UNCHANGED message, seen \subseteq seen',
         t = NoRequestHandled \/ (Busy(w) /\ t.msg = worker[w].msg)
  PROVE  OneAtATime'
<1>1. worker'[w] = t /\ \A v \in Requesters : v # w => worker'[v] = worker[v]
  BY DEF InboundInv, InboundTypes
<1>2. \A v \in Requesters : Busy(v)' => Busy(v) /\ worker'[v].msg = worker[v].msg
  BY <1>1 DEF Busy
<1> QED
  BY <1>2 DEF InboundInv, OneAtATime, Alone

LEMMA SameAnswers ==
  ASSUME InboundInv, UNCHANGED <<message, commandLog, replies, answers, bound>>
  PROVE  \A m \in Messages : AnswerGood(m)'
BY SameLog DEF InboundInv, AnswerGood

\* The worker's handling, when it has one.
LEMMA BusyHandling ==
  ASSUME InboundInv, NEW w \in Requesters, worker[w] # NoRequestHandled \/ worker[w].at # "idle"
  PROVE  /\ worker[w] \in Handlings /\ HandlingGood(worker[w]) /\ Busy(w)
         /\ worker[w].msg \in Messages
         /\ message[worker[w].msg] \in [source : Sources, verb : Verbs, linked : BOOLEAN, policy : BridgePolicies]
<1>1. worker[w] \in {NoRequestHandled} \cup Handlings
  BY DEF InboundInv, InboundTypes
<1>3. NoRequestHandled.at = "idle"
  BY DEF NoRequestHandled
<1>2. Busy(w) /\ worker[w] \in Handlings
  BY <1>1, <1>3, HandlingsAreBusy DEF Busy
<1> QED
  BY <1>2 DEF InboundInv, InboundTypes, Handlings

LEMMA InboundStarts == InboundInit => InboundInv
<1> SUFFICES ASSUME InboundInit PROVE InboundInv
  OBVIOUS
<1>1. {"OPEN", "DELEGATED", "ACCEPTED", "RUNNING", "VERIFIED"} \subseteq Statuses
  <2>1. /\ {<<"OPEN", "TASK_DELEGATED", "DELEGATED">>, <<"DELEGATED", "TASK_ACCEPTED", "ACCEPTED">>,
            <<"ACCEPTED", "TASK_STARTED", "RUNNING">>, <<"VERIFYING", "VERIFICATION_PASSED", "VERIFIED">>}
             \subseteq Transitions
    BY DEF Transitions, From
  <2> QED
    BY <2>1 DEF Statuses
<1>2. InboundTypes
  BY <1>1 DEF InboundInit, InboundTypes
<1>3. DOMAIN commandLog = {}
  BY DEF InboundInit
<1>4. LogGood
  BY <1>3 DEF LogGood
<1>5. \A w \in Requesters : ~Busy(w)
  BY DEF InboundInit, Busy
<1>6. OneAtATime
  BY <1>5 DEF OneAtATime
<1>7. ASSUME NEW m \in Messages PROVE RepliesCounted(m) /\ CancelGood(m) /\ AnswerGood(m)
  <2>1. Done(m) = {}
    BY <1>3 DEF Done, Took
  <2>2. Owing(m) = {}
    BY DEF Owing, OwesReply, InboundInit, NoRequestHandled
  <2>3. RepliesCounted(m)
    BY <2>1, <2>2, FS_EmptySet DEF RepliesCounted, InboundInit
  <2>4. CancelGood(m)
    BY <2>1 DEF CancelGood
  <2>5. AnswerGood(m)
    BY DEF AnswerGood, InboundInit
  <2> QED
    BY <2>3, <2>4, <2>5
<1> QED
  BY <1>2, <1>4, <1>5, <1>6, <1>7 DEF InboundInv

\* A delivery begins.  A handling that has just begun is good.
LEMMA DeliveryBegins ==
  ASSUME InboundInv, NEW w \in Requesters, NEW m \in Messages, NEW via, NEW held \in Nat,
         BeginDelivery(w, m, via, held), seen \subseteq seen', seen' \subseteq Messages,
         via = "slash" => m \notin seen /\ m \in seen',
         via = "telegram" => \A v \in Requesters : worker[v].at # "idle" => message[worker[v].msg].source # "telegram"
  PROVE  InboundInv'
<1> DEFINE t == [NoRequestHandled EXCEPT !.msg = m, !.at = "route", !.held = held]
<1>1. /\ t \in Handlings /\ t.msg = m /\ t.at = "route" /\ t.plan = <<>> /\ t.bind = FALSE
  BY HandlingBegins
<1>2. /\ worker' = [worker EXCEPT ![w] = t] /\ ~Busy(w) /\ message[m].source = via
      /\ UNCHANGED <<message, taskStatus, commandLog, replies, bound, answers>>
  BY DEF BeginDelivery, Busy
<1> HIDE DEF t
<1>3. HandlingGood(t)
  BY <1>1 DEF HandlingGood
<1>4. \A n \in Messages : ~OwesReply(t, n)
  BY <1>1 DEF OwesReply
<1>5. worker'[w] = t /\ \A v \in Requesters : v # w => worker'[v] = worker[v]
  BY <1>2 DEF InboundInv, InboundTypes
<1>6. OneAtATime'
  <2>1. \A v \in Requesters : Busy(v) => worker[v].at # "idle" /\ worker[v].msg \in Messages
    BY BusyHandling DEF Busy, Handlings
  <2>2. ASSUME NEW v \in Requesters, Busy(v), v # w, worker[v].msg = m, Alone(m) PROVE FALSE
    <3>1. CASE via = "slash"
      BY <1>2, <2>2, <3>1 DEF InboundInv, OneAtATime
    <3>2. CASE via = "telegram"
      BY <1>2, <2>1, <2>2, <3>2
    <3> QED
      BY <1>2, <2>2, <3>1, <3>2 DEF Alone
  <2>3. \A v \in Requesters : Busy(v)' => (v = w /\ worker'[v].msg = m) \/ (v # w /\ Busy(v) /\ worker'[v] = worker[v])
    BY <1>1, <1>5 DEF Busy
  <2>4. ASSUME NEW u \in Requesters, NEW v \in Requesters, Busy(u)', Busy(v)', Alone(worker[u].msg)',
               worker'[u].msg = worker'[v].msg
        PROVE  u = v
    <3>1. Alone(worker'[u].msg)
      BY <1>2, <2>4 DEF Alone
    <3>2. CASE u = w \/ v = w
      BY <2>2, <2>3, <2>4, <3>1, <3>2
    <3>3. CASE u # w /\ v # w
      BY <2>3, <2>4, <3>1, <3>3 DEF InboundInv, OneAtATime
    <3> QED
      BY <3>2, <3>3
  <2>5. ASSUME NEW v \in Requesters, Busy(v)', message'[worker'[v].msg].source = "slash"
        PROVE  worker'[v].msg \in seen'
    BY <1>2, <2>3, <2>5 DEF InboundInv, OneAtATime
  <2> QED
    BY <2>4, <2>5 DEF OneAtATime
<1>7. \A n \in Messages : AnswerGood(n)'
  BY <1>2, SameAnswers
<1>8. bound' \subseteq Messages
  BY <1>2 DEF InboundInv, InboundTypes
<1> QED
  BY <1>1, <1>2, <1>3, <1>4, <1>6, <1>7, <1>8, InboundQuiet

LEMMA InboundAdmits ==
  ASSUME InboundInv, NEW w \in Requesters, NEW m \in Messages,
         AdmitSlash(w, m) \/ AdmitButton(w, m) \/ AdmitTelegram(w, m) \/ AdmitBot(w, m)
  PROVE  InboundInv'
<1>0. seen \subseteq Messages
  BY DEF InboundInv, InboundTypes
<1>1. CASE AdmitSlash(w, m)
  <2>1. m \notin seen /\ BeginDelivery(w, m, "slash", 0) /\ seen' = seen \cup {m}
    BY <1>1 DEF AdmitSlash, ConsumeNonce
  <2> QED
    BY <1>0, <2>1, DeliveryBegins
<1>2. CASE AdmitButton(w, m)
  <2>1. BeginDelivery(w, m, "button", 0) /\ seen' = seen \cup {m}
    BY <1>2 DEF AdmitButton, ConsumeNonce
  <2> QED
    BY <1>0, <2>1, DeliveryBegins
<1>3. CASE AdmitTelegram(w, m)
  <2>1. /\ BeginDelivery(w, m, "telegram", 1) /\ seen' = seen
        /\ \A v \in Requesters : worker[v].at # "idle" => message[worker[v].msg].source # "telegram"
    BY <1>3 DEF AdmitTelegram
  <2> QED
    BY <1>0, <2>1, DeliveryBegins
<1>4. CASE AdmitBot(w, m)
  <2>1. BeginDelivery(w, m, "bot", 0) /\ seen' = seen
    BY <1>4 DEF AdmitBot
  <2> QED
    BY <1>0, <2>1, DeliveryBegins
<1> QED
  BY <1>1, <1>2, <1>3, <1>4

\* The verb reads the state and has its plan.
LEMMA PlanReached ==
  ASSUME InboundInv, NEW w \in Requesters, NEW p, NEW more \in Nat, RunPlan(w, p, more), worker[w].at = "route",
         PlanStarts(worker[w].msg, p),
         p # <<>> => message[worker[w].msg].linked /\ GatewayAllows(worker[w].msg)
  PROVE  InboundInv'
<1> DEFINE m == worker[w].msg
           at == IF p = <<>> THEN "refused" ELSE "run"
           t == [worker[w] EXCEPT !.at = at, !.plan = p, !.held = @ + more]
<1>1. /\ worker[w] \in Handlings /\ HandlingGood(worker[w]) /\ Busy(w) /\ m \in Messages
      /\ message[m] \in [source : Sources, verb : Verbs, linked : BOOLEAN, policy : BridgePolicies]
  BY BusyHandling
<1>2. /\ t \in Handlings /\ t.msg = m /\ t.at = at /\ t.plan = p /\ t.bind = worker[w].bind
  <2>1. at \in {"route", "run", "refused", "error"} /\ p \in Plans
    BY DEF PlanStarts
  <2>2. worker[w] \in Handlings
    BY <1>1
  <2> DEFINE h == worker[w].held + more
  <2>3. h \in Nat /\ t = [worker[w] EXCEPT !.at = at, !.plan = p, !.held = h]
    BY <2>2 DEF Handlings
  <2> HIDE DEF at, t, h
  <2>4. /\ t \in Handlings /\ t.msg = worker[w].msg /\ t.at = at /\ t.plan = p /\ t.bind = worker[w].bind
    BY <2>1, <2>2, <2>3 DEF Handlings
  <2> QED
    BY <2>4
<1>3. /\ worker' = [worker EXCEPT ![w] = t]
      /\ UNCHANGED <<message, taskStatus, commandLog, replies, bound, answers, seen>>
  BY <1>1 DEF RunPlan, InboundInv, InboundTypes
<1> HIDE DEF t
<1>4. p # <<>> => PlanLeads(m, p)
  <2> SUFFICES ASSUME p # <<>> PROVE PlanLeads(m, p)
    OBVIOUS
  <2>1. p[1] # "post" /\ \E i \in DOMAIN p : p[i] \in Outcomes(m)
    BY DEF PlanStarts
  <2>2. (\E i \in DOMAIN p : p[i] = "TASK_CANCELLED") => "TASK_CANCEL_REQUESTED" \notin Done(m)
    BY <1>1 DEF PlanStarts, InboundInv, CancelGood
  <2> QED
    BY <2>1, <2>2 DEF PlanLeads
<1>5. HandlingGood(t)
  <2>1. t.at # "run" => t.plan = <<>>
    BY <1>2
  <2>2. t.at = "run" => PlanShape(t.msg, t.plan) /\ PlanLeads(t.msg, t.plan)
    BY <1>2, <1>4 DEF PlanStarts
  <2> QED
    BY <1>1, <1>2, <2>1, <2>2 DEF HandlingGood
<1>6. \A n \in Messages : ~OwesReply(t, n)
  BY <1>2 DEF OwesReply, PlanStarts
<1>7. OneAtATime'
  BY <1>1, <1>2, <1>3, StillOneAtATime
<1>8. \A n \in Messages : AnswerGood(n)'
  BY <1>3, SameAnswers
<1>9. bound' \subseteq Messages /\ seen' \subseteq Messages /\ seen \subseteq seen'
  BY <1>3 DEF InboundInv, InboundTypes
<1> QED
  BY <1>2, <1>3, <1>5, <1>6, <1>7, <1>8, <1>9, InboundQuiet

LEMMA InboundRoutes ==
  ASSUME InboundInv, NEW w \in Requesters, RouteSlash(w) \/ RouteTelegram(w) \/ HandleAction(w)
  PROVE  InboundInv'
<1> DEFINE m == worker[w].msg
<1>0. worker[w].at = "route"
  BY DEF RouteSlash, RouteTelegram, HandleAction
<1>1. /\ worker[w] \in Handlings /\ Busy(w) /\ m \in Messages
      /\ message[m] \in [source : Sources, verb : Verbs, linked : BOOLEAN, policy : BridgePolicies]
  BY <1>0, BusyHandling
<1>2. CASE RouteSlash(w)
  <2>1. message[m].source \in {"slash", "bot"} /\ RunPlan(w, Parsed(m, Plan(message[m].verb)), 1)
    BY <1>2 DEF RouteSlash
  <2>2. GatewayAllows(m)
    BY <1>1, <2>1 DEF GatewayAllows, InboundInv, InboundTypes
  <2>3. PlanStarts(m, Parsed(m, Plan(message[m].verb)))
    BY <1>1, <2>1, NoPlan, PlansStart DEF Parsed
  <2>4. Parsed(m, Plan(message[m].verb)) # <<>> => message[m].linked
    BY DEF Parsed
  <2> QED
    BY <1>0, <2>1, <2>2, <2>3, <2>4, PlanReached
<1>3. CASE RouteTelegram(w)
  <2> DEFINE p == IF GatewayAllows(m) THEN Parsed(m, Plan(message[m].verb)) ELSE <<>>
  <2>1. message[m].source = "telegram" /\ RunPlan(w, p, 1)
    BY <1>3 DEF RouteTelegram
  <2>2. PlanStarts(m, p)
    BY <1>1, <2>1, NoPlan, PlansStart DEF Parsed
  <2>3. p # <<>> => message[m].linked /\ GatewayAllows(m)
    BY DEF Parsed
  <2> QED
    BY <1>0, <2>1, <2>2, <2>3, PlanReached
<1>4. CASE HandleAction(w)
  <2>1. message[m].source = "button" /\ RunPlan(w, Parsed(m, ButtonPlan(message[m].verb)), 0)
    BY <1>4 DEF HandleAction
  <2>2. GatewayAllows(m) /\ message[m].verb \in {"accept", "cancel", "verdict"}
    BY <1>1, <2>1 DEF GatewayAllows, InboundInv, InboundTypes
  <2>3. PlanStarts(m, Parsed(m, ButtonPlan(message[m].verb)))
    BY <1>1, <2>2, NoPlan, ButtonPlansStart DEF Parsed
  <2>4. Parsed(m, ButtonPlan(message[m].verb)) # <<>> => message[m].linked
    BY DEF Parsed
  <2> QED
    BY <1>0, <2>1, <2>2, <2>3, <2>4, PlanReached
<1> QED
  BY <1>2, <1>3, <1>4

\* The handling ends without an answer, or with an error to come.
LEMMA InboundStops ==
  ASSUME InboundInv, NEW w \in Requesters, CommandRefused(w) \/ PoolTimeout(w) \/ CrashWorker(w)
  PROVE  InboundInv'
<1>0. /\ UNCHANGED <<message, taskStatus, commandLog, replies, bound, answers, seen>>
      /\ worker[w].at \in {"route", "run"}
  BY DEF CommandRefused, PoolTimeout, CrashWorker, WaitingToRun
<1>1. worker[w] \in Handlings /\ HandlingGood(worker[w]) /\ Busy(w)
  BY <1>0, BusyHandling
<1> DEFINE e == [worker[w] EXCEPT !.at = "error", !.plan = <<>>]
<1>2. /\ e \in Handlings /\ e.msg = worker[w].msg /\ e.at = "error" /\ e.plan = <<>> /\ e.bind = worker[w].bind
  <2>1. <<>> \in Plans
    BY DEF Plans
  <2> QED
    BY <1>1, <2>1, HandlingPlanned
<1>3. worker' = [worker EXCEPT ![w] = e] \/ worker' = [worker EXCEPT ![w] = NoRequestHandled]
  BY <1>1 DEF CommandRefused, PoolTimeout, CrashWorker, InboundInv, InboundTypes
<1> HIDE DEF e
<1>4. HandlingGood(e)
  BY <1>1, <1>2 DEF HandlingGood
<1>5. \A n \in Messages : ~OwesReply(e, n) /\ ~OwesReply(NoRequestHandled, n)
  BY <1>2 DEF OwesReply, NoRequestHandled
<1>6. OneAtATime'
  BY <1>0, <1>1, <1>2, <1>3, StillOneAtATime
<1>7. \A n \in Messages : AnswerGood(n)'
  BY <1>0, SameAnswers
<1>8. bound' \subseteq Messages /\ seen' \subseteq Messages /\ seen \subseteq seen'
  BY <1>0 DEF InboundInv, InboundTypes
<1> QED
  BY <1>0, <1>2, <1>3, <1>4, <1>5, <1>6, <1>7, <1>8, InboundQuiet

\* The answer.
LEMMA InboundAnswers ==
  ASSUME InboundInv, NEW w \in Requesters, Answer(w)
  PROVE  InboundInv'
<1> DEFINE m == worker[w].msg
<1>0. /\ UNCHANGED <<message, taskStatus, commandLog, replies>>
      /\ worker[w].at \in {"run", "refused", "error"} /\ worker[w].plan = <<>>
      /\ worker' = [worker EXCEPT ![w] = NoRequestHandled]
      /\ answers' = answers \cup {<<m, IF worker[w].at = "run" THEN "ok" ELSE worker[w].at>>}
      /\ bound' = IF worker[w].bind THEN bound \cup {m} ELSE bound
      /\ seen' = IF message[m].source = "telegram" THEN seen \cup {m} ELSE seen
  BY DEF Answer
<1>1. worker[w] \in Handlings /\ HandlingGood(worker[w]) /\ Busy(w) /\ m \in Messages
  BY <1>0, BusyHandling
<1>2. worker[w].at = "run" => Done(m) # {}
  BY <1>0, <1>1 DEF HandlingGood, PlanLeads
<1>3. \A n \in Messages : AnswerGood(n)'
  <2> SUFFICES ASSUME NEW n \in Messages PROVE AnswerGood(n)'
    OBVIOUS
  <2>1. <<n, "ok">> \in answers' => Done(n) # {}
    BY <1>0, <1>2 DEF InboundInv, AnswerGood
  <2>2. n \in bound' => message[n].verb = "create" /\ OwnTask(n) /\ replies[n] = 1
    BY <1>0, <1>1 DEF InboundInv, AnswerGood, HandlingGood
  <2> QED
    BY <1>0, <2>1, <2>2, SameLog DEF AnswerGood
<1>4. \A n \in Messages : ~OwesReply(NoRequestHandled, n)
  BY DEF OwesReply, NoRequestHandled
<1>5. seen \subseteq seen' /\ seen' \subseteq Messages /\ bound' \subseteq Messages
  BY <1>0, <1>1 DEF InboundInv, InboundTypes
<1>6. OneAtATime'
  BY <1>0, <1>5, StillOneAtATime
<1> QED
  BY <1>0, <1>3, <1>4, <1>5, <1>6, InboundQuiet

\* The reply: one that was owed is made, or none was owed.
LEMMA ReplyGiven ==
  ASSUME InboundInv, NEW w \in Requesters, Reply(w), NEW h, h = worker[w], NEW m, m = h.msg,
         NEW b \in BOOLEAN, b <=> (message[m].verb = "create" /\ ~h.replayed), NEW p, p = Tail(h.plan)
  PROVE  InboundInv'
<1> DEFINE t == [h EXCEPT !.plan = p, !.bind = b]
<1>0. /\ h.at = "run" /\ h.plan # <<>> /\ Head(h.plan) = "post"
      /\ UNCHANGED <<message, seen, taskStatus, commandLog, bound, answers>>
      /\ replies' = IF h.replayed THEN replies ELSE [replies EXCEPT ![m] = @ + 1]
      /\ worker' = [worker EXCEPT ![w].plan = Tail(@),
                                  ![w].bind = message[m].verb = "create" /\ ~h.replayed]
  BY DEF Reply, NextCommand
<1>1. h \in Handlings /\ HandlingGood(h) /\ Busy(w) /\ m \in Messages
  BY <1>0, BusyHandling
<1>2. h.plan \in Plans /\ PlanShape(m, h.plan) /\ PlanLeads(m, h.plan)
  BY <1>0, <1>1 DEF Handlings, HandlingGood
<1>3. /\ p \in Plans /\ PlanShape(m, p) /\ h.plan[1] = "post"
      /\ \A i \in DOMAIN p : p[i] # "post" /\ i + 1 \in DOMAIN h.plan /\ p[i] = h.plan[i + 1]
      /\ p # <<>> => 1 \in DOMAIN p
  BY <1>0, <1>2, PlanTail
<1>4. /\ t \in Handlings /\ t.msg = m /\ t.at = "run" /\ t.plan = p /\ t.bind = b /\ t.replayed = h.replayed
  BY <1>0, <1>1, <1>3 DEF Handlings
<1>5. worker' = [worker EXCEPT ![w] = t]
  BY <1>0, <1>1 DEF InboundInv, InboundTypes
<1> HIDE DEF t
<1>6. worker'[w] = t /\ \A v \in Requesters : v # w => worker'[v] = worker[v]
  BY <1>5 DEF InboundInv, InboundTypes
<1>7. /\ replies \in [Messages -> Nat] /\ replies' \in [Messages -> Nat]
      /\ \A n \in Messages : n # m => replies'[n] = replies[n]
      /\ replies'[m] = IF h.replayed THEN replies[m] ELSE replies[m] + 1
  BY <1>0, <1>1 DEF InboundInv, InboundTypes
<1>8. InboundTypes'
  BY <1>0, <1>4, <1>5, <1>7 DEF InboundInv, InboundTypes
<1>9. LogGood'
  BY <1>0, SameLog DEF InboundInv, LogGood
<1>10. OneAtATime'
  <2>1. Busy(w) /\ t.msg = worker[w].msg /\ seen \subseteq seen'
    BY <1>0, <1>1, <1>4
  <2> QED
    BY <1>0, <1>5, <2>1, StillOneAtATime
<1>11. Done(m) # {}
  BY <1>0, <1>2, <1>3 DEF PlanLeads
<1>12. PlanLeads(m, p)
  BY <1>2, <1>3, <1>11 DEF PlanLeads
\* A message that is not replayed owed its reply, so it had fewer than it has outcomes.
<1>13. /\ \A n \in Messages : n # m => Owing(n)' = Owing(n)
       /\ h.replayed => Owing(m)' = Owing(m)
       /\ ~h.replayed => w \in Owing(m) /\ Owing(m)' = Owing(m) \ {w}
  <2>1. \A n : OwesReply(h, n) <=> n = m /\ ~h.replayed
    BY <1>0, <1>3 DEF OwesReply
  <2>2. \A n : ~OwesReply(t, n)
    BY <1>3, <1>4 DEF OwesReply
  <2>3. \A n : Owing(n)' = {v \in Requesters : OwesReply(worker'[v], n)}
    BY DEF Owing, OwesReply
  <2>4. \A n : Owing(n)' = Owing(n) \ {w}
    BY <1>6, <2>2, <2>3 DEF Owing
  <2>5. \A n : w \in Owing(n) <=> n = m /\ ~h.replayed
    BY <2>1 DEF Owing
  <2> QED
    BY <2>4, <2>5
<1>14. IsFiniteSet(Owing(m)) /\ replies[m] + Cardinality(Owing(m)) <= Cardinality(Done(m))
  BY <1>1 DEF InboundInv, RepliesCounted
<1>15. Cardinality(Owing(m)) \in Nat /\ Cardinality(Done(m)) \in Nat
  BY <1>1, <1>14, FS_CardinalityType, DoneCounts
<1>16. ~h.replayed => /\ IsFiniteSet(Owing(m) \ {w}) /\ Cardinality(Owing(m) \ {w}) = Cardinality(Owing(m)) - 1
                      /\ Cardinality(Owing(m) \ {w}) \in Nat
  BY <1>13, <1>14, FS_RemoveElement, FS_CardinalityType
<1>17. ~h.replayed => replies'[m] <= Cardinality(Done(m))
  <2> SUFFICES ASSUME ~h.replayed PROVE replies'[m] <= Cardinality(Done(m))
    OBVIOUS
  <2>1. replies[m] \in Nat /\ replies'[m] = replies[m] + 1
    BY <1>1, <1>7
  <2>2. Cardinality(Owing(m)) >= 1
    BY <1>15, <1>16
  <2> QED
    BY <1>14, <1>15, <2>1, <2>2
<1>18. ~h.replayed /\ message[m].verb = "create" => replies[m] = 0 /\ replies'[m] = 1
  <2> SUFFICES ASSUME ~h.replayed, message[m].verb = "create" PROVE replies[m] = 0 /\ replies'[m] = 1
    OBVIOUS
  <2>1. Cardinality(Done(m)) <= 1
    BY <1>1, DoneCounts
  <2> QED
    BY <1>1, <1>7, <1>15, <1>17, <2>1
<1>19. message[m].verb = "create" => OwnTask(m)
  BY <1>11 DEF Done, Outcomes, OwnTask, Took
<1>20. ASSUME NEW n \in Messages, replies[n] = 1, message[n].verb = "create" PROVE replies'[n] = 1
  BY <1>7, <1>18, <1>20
<1>21. ASSUME NEW v \in Requesters, Busy(v)' PROVE HandlingGood(worker[v])'
  <2>1. CASE v = w
    <3>1. b => message[m].verb = "create" /\ OwnTask(m) /\ replies'[m] = 1
      BY <1>18, <1>19
    <3>2. PlanShape(m, p)' /\ PlanLeads(m, p)' /\ OwnTask(m)' = OwnTask(m)
      BY <1>0, <1>3, <1>12, SameLog
    <3>3. HandlingGood(t)'
      BY <1>0, <1>4, <3>1, <3>2 DEF HandlingGood
    <3> QED
      BY <1>6, <2>1, <3>3
  <2>2. CASE v # w
    <3>1. PICK x : x = worker'[v]
      OBVIOUS
    <3>2. HandlingGood(x) /\ x \in Handlings
      BY <1>6, <1>21, <2>2, <3>1 DEF InboundInv, InboundTypes, Busy
    <3>3. x.bind => message[x.msg].verb = "create" /\ OwnTask(x.msg) /\ replies'[x.msg] = 1
      BY <1>20, <3>2 DEF HandlingGood, Handlings
    <3>4. HandlingGood(x)'
      BY <1>0, <3>2, <3>3, SameLog DEF HandlingGood
    <3> QED
      BY <3>1, <3>4
  <2> QED
    BY <2>1, <2>2
<1>22. ASSUME NEW n \in Messages PROVE RepliesCounted(n)' /\ CancelGood(n)' /\ AnswerGood(n)'
  <2>1. CancelGood(n)'
    BY <1>0, SameLog DEF InboundInv, CancelGood
  <2>2. AnswerGood(n)'
    <3>1. n \in bound => message[n].verb = "create" /\ OwnTask(n) /\ replies'[n] = 1
      BY <1>20 DEF InboundInv, AnswerGood
    <3> QED
      BY <1>0, <3>1, SameLog DEF InboundInv, AnswerGood
  <2>3. CASE n # m \/ h.replayed
    <3>1. replies'[n] = replies[n] /\ replies[n] \in Nat /\ Owing(n)' \subseteq Owing(n)
      BY <1>7, <1>13, <2>3
    <3>2. RepliesCounted(n)'
      BY <1>0, <3>1, SameLog, OwingShrinks DEF InboundInv
    <3> QED
      BY <2>1, <2>2, <3>2
  <2>4. CASE n = m /\ ~h.replayed
    <3>1. IsFiniteSet(Owing(n)') /\ Cardinality(Owing(n)') = Cardinality(Owing(m)) - 1 /\ Done(n)' = Done(m)
      BY <1>0, <1>13, <1>16, <2>4, SameLog
    <3>2. replies'[n] + Cardinality(Owing(n)') <= Cardinality(Done(n)')
      BY <1>7, <1>14, <1>15, <2>4, <3>1
    <3> QED
      BY <2>1, <2>2, <3>1, <3>2 DEF RepliesCounted
  <2> QED
    BY <2>3, <2>4
<1> QED
  BY <1>8, <1>9, <1>10, <1>21, <1>22 DEF InboundInv

LEMMA InboundReplies ==
  ASSUME InboundInv, NEW w \in Requesters, Reply(w)
  PROVE  InboundInv'
<1>1. PICK h : h = worker[w]
  OBVIOUS
<1>2. PICK m : m = h.msg
  OBVIOUS
<1>3. PICK b \in BOOLEAN : b <=> (message[m].verb = "create" /\ ~h.replayed)
  OBVIOUS
<1>4. PICK p : p = Tail(h.plan)
  OBVIOUS
<1> QED
  BY <1>1, <1>2, <1>3, <1>4, ReplyGiven

-----------------------------------------------------------------------------
\* A cancelled Task stays cancelled, and one asked to cancel can only be cancelled.
LEMMA CancelRows ==
  ASSUME NEW x \in Transitions
  PROVE  /\ x[1] # "CANCELLED" /\ (x[1] = "CANCEL_REQUESTED" => x[3] = "CANCELLED")
         /\ x[2] = "TASK_CANCELLED" => x[3] = "CANCELLED"
         /\ x[2] = "TASK_CANCEL_REQUESTED" => x[3] = "CANCEL_REQUESTED"
BY DEF Transitions, From

LEMMA CancelMoves ==
  ASSUME NEW s, NEW c, Allowed(s, c)
  PROVE  /\ NextStatus(s, c) \in Statuses /\ s # "CANCELLED"
         /\ s = "CANCEL_REQUESTED" => NextStatus(s, c) = "CANCELLED"
         /\ c = "TASK_CANCELLED" => NextStatus(s, c) = "CANCELLED"
         /\ c = "TASK_CANCEL_REQUESTED" => NextStatus(s, c) = "CANCEL_REQUESTED"
<1> DEFINE x == CHOOSE x \in Transitions : x[1] = s /\ x[2] = c
<1>1. x \in Transitions /\ x[1] = s /\ x[2] = c
  BY DEF Allowed
<1>2. NextStatus(s, c) = x[3]
  BY DEF NextStatus
<1> HIDE DEF x
<1> QED
  BY <1>1, <1>2, CancelRows DEF Statuses

\* A command leaves the Task as it is, or moves it as the table says; the
\* commands of a cancel move it.
LEMMA EffectMoves ==
  ASSUME NEW m, NEW c, Effect(m, c), taskStatus \in Statuses
  PROVE  /\ taskStatus' \in Statuses
         /\ taskStatus = "CANCELLED" => taskStatus' = "CANCELLED"
         /\ taskStatus = "CANCEL_REQUESTED" => taskStatus' \in {"CANCEL_REQUESTED", "CANCELLED"}
         /\ message[m].verb = "cancel" /\ c = "TASK_CANCELLED" => taskStatus' = "CANCELLED"
         /\ message[m].verb = "cancel" /\ c = "TASK_CANCEL_REQUESTED" =>
              taskStatus # "CANCELLED" /\ taskStatus' = "CANCEL_REQUESTED"
<1>1. CASE UNCHANGED taskStatus /\ ~(message[m].verb = "cancel" /\ c \in {"TASK_CANCELLED", "TASK_CANCEL_REQUESTED"})
  BY <1>1
<1>2. CASE Allowed(taskStatus, c) /\ taskStatus' = NextStatus(taskStatus, c)
  BY <1>2, CancelMoves
<1>3. CASE message[m].verb \in {"create", "request", "verify"}
  BY <1>1, <1>3 DEF Effect
<1>4. CASE message[m].verb \notin {"create", "request", "verify"}
  <2>1. CASE c \in {"assign", "start", "verdict"}
    BY <1>1, <1>4, <2>1 DEF Effect
  <2>2. CASE c = "decide"
    BY <1>1, <1>4, <2>2 DEF Effect
  <2>3. CASE c \notin {"assign", "start", "verdict", "decide"}
    BY <1>2, <1>4, <2>3 DEF Effect
  <2> QED
    BY <2>1, <2>2, <2>3
<1> QED
  BY <1>3, <1>4

\* What one more command in the log means for the messages.
LEMMA CommandLogged ==
  ASSUME InboundInv, NEW m \in Messages, NEW c \in Cmds, UNCHANGED message,
         ~Took(c, <<m, 0>>), commandLog' = Append(commandLog, [cmd |-> c, key |-> <<m, 0>>]),
         message[m].linked, GatewayAllows(m)
  PROVE  /\ commandLog' \in Seq([cmd : Cmds, key : Messages \X {0}]) /\ LogGood'
         /\ \A n, d : Took(d, <<n, 0>>)' <=> Took(d, <<n, 0>>) \/ (d = c /\ n = m)
         /\ \A n : n # m => Done(n)' = Done(n)
         /\ Done(m)' = IF c \in Outcomes(m) THEN Done(m) \cup {c} ELSE Done(m)
         /\ c \notin Done(m)
         /\ \A n : OwnTask(n) => OwnTask(n)'
<1> DEFINE e == [cmd |-> c, key |-> <<m, 0>>]
           E == [cmd : Cmds, key : Messages \X {0}]
           k == Len(commandLog)
<1>1. e \in E /\ e.cmd = c /\ e.key = <<m, 0>> /\ e.key[1] = m
  OBVIOUS
<1>2. commandLog \in Seq(E) /\ k \in Nat /\ DOMAIN commandLog = 1 .. k
  BY DEF InboundInv, InboundTypes
<1>a. commandLog' = Append(commandLog, e)
  OBVIOUS
<1> HIDE DEF e, E
<1>3. /\ commandLog' \in Seq(E) /\ DOMAIN commandLog' = 1 .. (k + 1) /\ commandLog'[k + 1] = e
      /\ \A i \in DOMAIN commandLog : commandLog'[i] = commandLog[i]
  BY <1>1, <1>2, <1>a
<1> HIDE DEF k
<1>b. \A i : i \in DOMAIN commandLog' <=> i \in DOMAIN commandLog \/ i = k + 1
  BY <1>2, <1>3
<1>4. \A i \in DOMAIN commandLog : commandLog[i] # e
  BY <1>1 DEF Took
<1>5. LogGood'
  <2>1. ASSUME NEW i \in DOMAIN commandLog', NEW j \in DOMAIN commandLog', commandLog'[i] = commandLog'[j]
        PROVE  i = j
    <3>1. CASE i \in DOMAIN commandLog /\ j \in DOMAIN commandLog
      <4>1. commandLog[i] = commandLog[j]
        BY <1>3, <2>1, <3>1
      <4> QED
        BY <3>1, <4>1 DEF InboundInv, LogGood
    <3>2. CASE i \in DOMAIN commandLog /\ j = k + 1
      BY <1>3, <1>4, <2>1, <3>2
    <3>3. CASE i = k + 1 /\ j \in DOMAIN commandLog
      BY <1>3, <1>4, <2>1, <3>3
    <3> QED
      BY <1>b, <2>1, <3>1, <3>2, <3>3
  <2>2. \A i \in DOMAIN commandLog' : message'[commandLog'[i].key[1]].linked /\ message'[commandLog'[i].key[1]].policy = "open"
    BY <1>1, <1>3, <1>b DEF InboundInv, LogGood, GatewayAllows
  <2> QED
    BY <2>1, <2>2 DEF LogGood, GatewayAllows
<1>6. \A n, d : Took(d, <<n, 0>>)' <=> Took(d, <<n, 0>>) \/ (d = c /\ n = m)
  <2>3. \A n : e.key = <<n, 0>> <=> n = m
    BY <1>1
  <2>4. commandLog'[k + 1] = e /\ k + 1 \in DOMAIN commandLog'
    BY <1>3, <1>b
  <2> SUFFICES ASSUME NEW n, NEW d
               PROVE  Took(d, <<n, 0>>)' <=> Took(d, <<n, 0>>) \/ (d = c /\ n = m)
    OBVIOUS
  <2>1. Took(d, <<n, 0>>)' <=> \E i \in DOMAIN commandLog' : commandLog'[i].cmd = d /\ commandLog'[i].key = <<n, 0>>
    BY DEF Took
  <2>2. Took(d, <<n, 0>>) <=> \E i \in DOMAIN commandLog : commandLog[i].cmd = d /\ commandLog[i].key = <<n, 0>>
    BY DEF Took
  <2>5. ASSUME Took(d, <<n, 0>>)' PROVE Took(d, <<n, 0>>) \/ (d = c /\ n = m)
    <3>1. PICK i \in DOMAIN commandLog' : commandLog'[i].cmd = d /\ commandLog'[i].key = <<n, 0>>
      BY <2>1, <2>5
    <3>2. CASE i \in DOMAIN commandLog
      BY <1>3, <2>2, <3>1, <3>2
    <3>3. CASE i = k + 1
      BY <1>1, <2>3, <2>4, <3>1, <3>3
    <3> QED
      BY <1>b, <3>2, <3>3
  <2>6. ASSUME Took(d, <<n, 0>>) PROVE Took(d, <<n, 0>>)'
    BY <1>3, <1>b, <2>1, <2>2, <2>6
  <2>7. ASSUME d = c, n = m PROVE Took(d, <<n, 0>>)'
    BY <1>1, <2>1, <2>4, <2>7
  <2> QED
    BY <2>5, <2>6, <2>7
<1>7. \A n : Outcomes(n)' = Outcomes(n)
  BY DEF Outcomes
<1>8. \A n : Done(n)' = {d \in Outcomes(n) : Took(d, <<n, 0>>)'}
  BY <1>7 DEF Done
<1>9. /\ \A n : n # m => Done(n)' = Done(n)
      /\ Done(m)' = IF c \in Outcomes(m) THEN Done(m) \cup {c} ELSE Done(m)
  <2>1. \A n : n # m => Done(n)' = Done(n)
    BY <1>6, <1>8 DEF Done
  <2>2. \A d : d \in Done(m)' <=> d \in Done(m) \/ (d = c /\ c \in Outcomes(m))
    BY <1>6, <1>8 DEF Done
  <2>3. CASE c \in Outcomes(m)
    <3> HIDE DEF Done
    <3> QED
      BY <2>1, <2>2, <2>3
  <2>4. CASE c \notin Outcomes(m)
    BY <2>1, <2>2, <2>4
  <2> QED
    BY <2>3, <2>4
<1>10. \A n : OwnTask(n) => OwnTask(n)'
  BY <1>3, <1>b DEF OwnTask
<1>11. c \notin Done(m)
  BY DEF Done
<1> QED
  BY <1>3, <1>5, <1>6, <1>9, <1>10, <1>11 DEF E

\* What a worker that runs its next command has.
CommandAt(w, h, m, c, p) ==
  /\ h \in Handlings /\ HandlingGood(h) /\ Busy(w) /\ m \in Messages /\ c \in Cmds
  /\ h.at = "run" /\ p \in Plans /\ PlanShape(m, p) /\ PlanShape(m, h.plan) /\ PlanLeads(m, h.plan)
  /\ message[m].linked /\ GatewayAllows(m)
  /\ 1 \in DOMAIN h.plan /\ h.plan[1] = c
  /\ \A i \in DOMAIN p : i + 1 \in DOMAIN h.plan /\ p[i] = h.plan[i + 1]
  /\ \A i \in DOMAIN h.plan : i = 1 \/ (i - 1 \in DOMAIN p /\ p[i - 1] = h.plan[i])
  /\ p # <<>> /\ p[1] = "post" => c \in Outcomes(m)
  /\ \A n : ~OwesReply(h, n)

LEMMA CommandAtHand ==
  ASSUME InboundInv, NEW w \in Requesters, ExecuteCommand(w),
         NEW h, h = worker[w], NEW m, m = h.msg, NEW c, c = Head(h.plan), NEW p, p = Tail(h.plan)
  PROVE  CommandAt(w, h, m, c, p)
<1>0. h.at = "run" /\ h.plan # <<>> /\ c # "post"
  BY DEF ExecuteCommand, WaitingToRun, NextCommand
<1>1. h \in Handlings /\ HandlingGood(h) /\ Busy(w) /\ m \in Messages
  BY <1>0, BusyHandling
<1>2. h.plan \in Plans /\ PlanShape(m, h.plan) /\ PlanLeads(m, h.plan)
  BY <1>0, <1>1 DEF Handlings, HandlingGood
<1>3. /\ p \in Plans /\ PlanShape(m, p) /\ 1 \in DOMAIN h.plan /\ h.plan[1] = c /\ c \in Cmds
      /\ \A i \in DOMAIN p : i + 1 \in DOMAIN h.plan /\ p[i] = h.plan[i + 1]
      /\ \A i \in DOMAIN h.plan : i = 1 \/ (i - 1 \in DOMAIN p /\ p[i - 1] = h.plan[i])
      /\ p # <<>> => 1 \in DOMAIN p /\ p[1] = h.plan[2] /\ 2 \in DOMAIN h.plan
  BY <1>0, <1>2, PlanTail
<1>4. p # <<>> /\ p[1] = "post" => c \in Outcomes(m)
  <2> SUFFICES ASSUME p # <<>>, p[1] = "post" PROVE c \in Outcomes(m)
    OBVIOUS
  <2>1. 2 = 1 + 1 /\ 2 \in DOMAIN h.plan /\ h.plan[2] = "post"
    BY <1>3
  <2> QED
    BY <1>2, <1>3, <2>1 DEF PlanShape
<1>5. \A n : ~OwesReply(h, n)
  BY <1>0, <1>3 DEF OwesReply
<1> QED
  BY <1>0, <1>1, <1>2, <1>3, <1>4, <1>5 DEF CommandAt, PlanLeads

\* A command that took effect before answers again.
LEMMA CommandReplayed ==
  ASSUME InboundInv, NEW w \in Requesters, ExecuteCommand(w),
         NEW h, h = worker[w], NEW m, m = h.msg, NEW c, c = Head(h.plan), NEW p, p = Tail(h.plan),
         Took(c, <<m, 0>>)
  PROVE  InboundInv'
<1> DEFINE t == [h EXCEPT !.plan = p, !.replayed = TRUE]
<1>1. /\ h \in Handlings /\ HandlingGood(h) /\ Busy(w) /\ m \in Messages /\ c \in Cmds
      /\ h.at = "run" /\ p \in Plans /\ PlanShape(m, p) /\ PlanLeads(m, h.plan)
      /\ 1 \in DOMAIN h.plan /\ h.plan[1] = c
      /\ \A i \in DOMAIN p : i + 1 \in DOMAIN h.plan /\ p[i] = h.plan[i + 1]
      /\ \A i \in DOMAIN h.plan : i = 1 \/ (i - 1 \in DOMAIN p /\ p[i - 1] = h.plan[i])
      /\ p # <<>> /\ p[1] = "post" => c \in Outcomes(m)
  <2>1. CommandAt(w, h, m, c, p)
    BY CommandAtHand
  <2> QED
    BY <2>1 DEF CommandAt
<1>2. /\ UNCHANGED <<message, seen, taskStatus, commandLog, replies, bound, answers>>
      /\ worker' = [worker EXCEPT ![w].plan = Tail(@), ![w].replayed = TRUE]
  BY DEF ExecuteCommand, NextCommand, IdempotencyKey
<1>3. /\ t \in Handlings /\ t.msg = m /\ t.at = "run" /\ t.plan = p /\ t.bind = h.bind /\ t.replayed = TRUE
  BY <1>1 DEF Handlings
<1>4. worker' = [worker EXCEPT ![w] = t]
  BY <1>1, <1>2 DEF InboundInv, InboundTypes
<1> HIDE DEF t
<1>5. c \in Outcomes(m) => Done(m) # {}
  BY DEF Done
<1>6. PlanLeads(m, p)
  <2>1. Done(m) # {} \/ \E i \in DOMAIN p : p[i] \in Outcomes(m)
    <3> SUFFICES ASSUME Done(m) = {} PROVE \E i \in DOMAIN p : p[i] \in Outcomes(m)
      OBVIOUS
    <3>1. PICK i \in DOMAIN h.plan : h.plan[i] \in Outcomes(m)
      BY <1>1 DEF PlanLeads
    <3>2. i # 1
      BY <1>1, <1>5, <3>1
    <3> QED
      BY <1>1, <3>1, <3>2
  <2>2. p # <<>> /\ p[1] = "post" => Done(m) # {}
    BY <1>1, <1>5
  <2>3. Alone(m) /\ (\E i \in DOMAIN p : p[i] = "TASK_CANCELLED") => "TASK_CANCEL_REQUESTED" \notin Done(m)
    BY <1>1 DEF PlanLeads
  <2> QED
    BY <1>1, <2>1, <2>2, <2>3 DEF PlanLeads
<1>7. HandlingGood(t)
  BY <1>1, <1>3, <1>6 DEF HandlingGood
<1>8. \A n \in Messages : ~OwesReply(t, n)
  BY <1>3 DEF OwesReply
<1>9. OneAtATime'
  <2>1. Busy(w) /\ t.msg = worker[w].msg /\ seen \subseteq seen'
    BY <1>1, <1>2, <1>3
  <2> QED
    BY <1>2, <1>4, <2>1, StillOneAtATime
<1>10. \A n \in Messages : AnswerGood(n)'
  BY <1>2, SameAnswers
<1>11. bound' \subseteq Messages /\ seen' \subseteq Messages /\ seen \subseteq seen'
  BY <1>2 DEF InboundInv, InboundTypes
<1> QED
  BY <1>2, <1>3, <1>4, <1>7, <1>8, <1>9, <1>10, <1>11, InboundQuiet

\* A new command takes effect.
LEMMA CommandTakesEffect ==
  ASSUME InboundInv, NEW w \in Requesters, ExecuteCommand(w),
         NEW h, h = worker[w], NEW m, m = h.msg, NEW c, c = Head(h.plan), NEW p, p = Tail(h.plan),
         ~Took(c, <<m, 0>>)
  PROVE  InboundInv'
<1> DEFINE t == [h EXCEPT !.plan = p, !.replayed = FALSE]
<1>1. /\ h \in Handlings /\ HandlingGood(h) /\ Busy(w) /\ m \in Messages /\ c \in Cmds
      /\ h.at = "run" /\ p \in Plans /\ PlanShape(m, p) /\ PlanShape(m, h.plan) /\ PlanLeads(m, h.plan)
      /\ message[m].linked /\ GatewayAllows(m)
      /\ 1 \in DOMAIN h.plan /\ h.plan[1] = c
      /\ \A i \in DOMAIN p : i + 1 \in DOMAIN h.plan /\ p[i] = h.plan[i + 1]
      /\ \A i \in DOMAIN h.plan : i = 1 \/ (i - 1 \in DOMAIN p /\ p[i - 1] = h.plan[i])
      /\ p # <<>> /\ p[1] = "post" => c \in Outcomes(m)
      /\ \A n : ~OwesReply(h, n)
  <2>1. CommandAt(w, h, m, c, p)
    BY CommandAtHand
  <2> QED
    BY <2>1 DEF CommandAt
<1>2. /\ UNCHANGED <<message, seen, replies, bound, answers>> /\ Effect(m, c)
      /\ commandLog' = Append(commandLog, [cmd |-> c, key |-> <<m, 0>>])
      /\ worker' = [worker EXCEPT ![w].plan = Tail(@), ![w].replayed = FALSE]
  <2>1. Took(c, <<m, 0>>) = FALSE
    BY DEF Took
  <2> QED
    BY <2>1 DEF ExecuteCommand, NextCommand, IdempotencyKey
<1>3. /\ t \in Handlings /\ t.msg = m /\ t.at = "run" /\ t.plan = p /\ t.bind = h.bind /\ t.replayed = FALSE
  BY <1>1 DEF Handlings
<1>4. worker' = [worker EXCEPT ![w] = t]
  BY <1>1, <1>2 DEF InboundInv, InboundTypes
<1> HIDE DEF t
<1>5. worker'[w] = t /\ \A v \in Requesters : v # w => worker'[v] = worker[v]
  BY <1>4 DEF InboundInv, InboundTypes
<1>6. /\ commandLog' \in Seq([cmd : Cmds, key : Messages \X {0}]) /\ LogGood'
      /\ \A n : n # m => Done(n)' = Done(n)
      /\ Done(m)' = IF c \in Outcomes(m) THEN Done(m) \cup {c} ELSE Done(m)
      /\ c \notin Done(m)
      /\ \A n : OwnTask(n) => OwnTask(n)'
  BY <1>1, <1>2, CommandLogged
<1>7. \A n : Outcomes(n)' = Outcomes(n) /\ Alone(n)' = Alone(n) /\ GatewayAllows(n)' = GatewayAllows(n)
  BY <1>2 DEF Outcomes, Alone, GatewayAllows
<1>8. \A n, q : PlanShape(n, q)' <=> PlanShape(n, q)
  BY <1>2, <1>7 DEF PlanShape
<1>9. /\ taskStatus' \in Statuses
      /\ taskStatus = "CANCELLED" => taskStatus' = "CANCELLED"
      /\ taskStatus = "CANCEL_REQUESTED" => taskStatus' \in {"CANCEL_REQUESTED", "CANCELLED"}
      /\ message[m].verb = "cancel" /\ c = "TASK_CANCELLED" => taskStatus' = "CANCELLED"
      /\ message[m].verb = "cancel" /\ c = "TASK_CANCEL_REQUESTED" =>
           taskStatus # "CANCELLED" /\ taskStatus' = "CANCEL_REQUESTED"
  BY <1>2, EffectMoves DEF InboundInv, InboundTypes
<1>10. \A n : Done(n) \subseteq Done(n)'
  <2> HIDE DEF Done
  <2> QED
    BY <1>6
<1>11. InboundTypes'
  BY <1>2, <1>3, <1>4, <1>6, <1>9 DEF InboundInv, InboundTypes
<1>12. OneAtATime'
  <2>1. Busy(w) /\ t.msg = worker[w].msg /\ seen \subseteq seen'
    BY <1>1, <1>2, <1>3
  <2> QED
    BY <1>2, <1>4, <2>1, StillOneAtATime
<1>13. c \in Outcomes(m) => Done(m)' # {}
  BY <1>6
\* What is left of this plan, and the plans of the others.
<1>14. PlanLeads(m, p)'
  <2>1. Done(m)' # {} \/ \E i \in DOMAIN p : p[i] \in Outcomes(m)
    <3> SUFFICES ASSUME Done(m)' = {} PROVE \E i \in DOMAIN p : p[i] \in Outcomes(m)
      OBVIOUS
    <3>0. Done(m) = {}
      BY <1>10
    <3>1. PICK i \in DOMAIN h.plan : h.plan[i] \in Outcomes(m)
      BY <1>1, <3>0 DEF PlanLeads
    <3>2. i # 1
      BY <1>1, <1>13, <3>1
    <3> QED
      BY <1>1, <3>1, <3>2
  <2>2. p # <<>> /\ p[1] = "post" => Done(m)' # {}
    BY <1>1, <1>13
  <2>3. ASSUME Alone(m), \E i \in DOMAIN p : p[i] = "TASK_CANCELLED"
        PROVE  "TASK_CANCEL_REQUESTED" \notin Done(m)'
    <3>1. PICK i \in DOMAIN p : p[i] = "TASK_CANCELLED"
      BY <2>3
    <3>2. i + 1 \in DOMAIN h.plan /\ h.plan[i + 1] = "TASK_CANCELLED"
      BY <1>1, <3>1
    <3>3. c # "TASK_CANCEL_REQUESTED"
      BY <1>1, <3>2 DEF PlanShape
    <3>4. "TASK_CANCEL_REQUESTED" \notin Done(m)
      BY <1>1, <2>3, <3>2 DEF PlanLeads
    <3> QED
      BY <1>6, <3>3, <3>4
  <2> QED
    BY <1>1, <1>2, <1>7, <2>1, <2>2, <2>3 DEF PlanLeads
<1>15. ASSUME NEW v \in Requesters, v # w, Busy(v), NEW q, PlanLeads(worker[v].msg, q)
       PROVE  PlanLeads(worker[v].msg, q)'
  <2>0. PICK n : n = worker[v].msg
    OBVIOUS
  <2>1. n = m => ~Alone(n)
    BY <1>1, <1>15, <2>0 DEF InboundInv, OneAtATime
  <2>2. Alone(n) => Done(n)' = Done(n)
    BY <1>6, <2>1
  <2>3. PlanLeads(n, q)
    BY <1>15, <2>0
  <2>4. PlanLeads(n, q)'
    BY <1>2, <1>7, <1>10, <2>2, <2>3 DEF PlanLeads
  <2>5. worker'[v].msg = n
    BY <1>5, <1>15, <2>0
  <2> QED
    BY <2>4, <2>5
<1>16. ASSUME NEW v \in Requesters, Busy(v)' PROVE HandlingGood(worker[v])'
  <2>1. CASE v = w
    <3>1. t.bind => message[m].verb = "create" /\ OwnTask(m) /\ replies[m] = 1
      BY <1>1, <1>3 DEF HandlingGood
    <3>2. HandlingGood(t)'
      BY <1>1, <1>2, <1>3, <1>6, <1>8, <1>14, <3>1 DEF HandlingGood
    <3> QED
      BY <1>5, <2>1, <3>2
  <2>2. CASE v # w
    <3>1. PICK x : x = worker[v] /\ x = worker'[v]
      BY <1>5, <2>2
    <3>2. HandlingGood(x) /\ Busy(v)
      BY <1>16, <3>1 DEF InboundInv, Busy
    <3>3. x.at = "run" => PlanShape(x.msg, x.plan)' /\ PlanLeads(x.msg, x.plan)'
      <4> SUFFICES ASSUME x.at = "run" PROVE PlanShape(x.msg, x.plan)' /\ PlanLeads(x.msg, x.plan)'
        OBVIOUS
      <4>1. PlanShape(x.msg, x.plan) /\ PlanLeads(worker[v].msg, x.plan)
        BY <3>1, <3>2 DEF HandlingGood
      <4>2. PICK q : q = x.plan
        OBVIOUS
      <4>3. PlanLeads(worker[v].msg, q)'
        BY <1>15, <2>2, <3>2, <4>1, <4>2
      <4> QED
        BY <1>8, <3>1, <4>1, <4>2, <4>3
    <3>4. HandlingGood(x)'
      BY <1>2, <1>6, <3>2, <3>3 DEF HandlingGood
    <3> QED
      BY <3>1, <3>4
  <2> QED
    BY <2>1, <2>2
\* Who owes a reply, and for how many outcomes.
<1>17. /\ \A n : w \notin Owing(n)
       /\ \A n : n # m => Owing(n)' = Owing(n)
       /\ Owing(m)' = Owing(m) \/ (Owing(m)' = Owing(m) \cup {w} /\ c \in Outcomes(m))
  <2>1. \A n : w \notin Owing(n)
    BY <1>1 DEF Owing
  <2>2. \A n : OwesReply(t, n) => n = m /\ c \in Outcomes(m)
    BY <1>1, <1>3 DEF OwesReply
  <2>3. \A n : Owing(n)' = {v \in Requesters : OwesReply(worker'[v], n)}
    BY DEF Owing, OwesReply
  <2>4. \A n : ~OwesReply(t, n) => Owing(n)' = Owing(n)
    BY <1>5, <2>1, <2>3 DEF Owing
  <2>5. OwesReply(t, m) => Owing(m)' = Owing(m) \cup {w}
    BY <1>5, <2>3 DEF Owing
  <2> QED
    BY <2>1, <2>2, <2>4, <2>5
<1>18. ASSUME NEW n \in Messages PROVE RepliesCounted(n)'
  <2>0. /\ IsFiniteSet(Owing(n)) /\ replies[n] + Cardinality(Owing(n)) <= Cardinality(Done(n))
        /\ replies[n] \in Nat /\ Cardinality(Owing(n)) \in Nat
        /\ IsFiniteSet(Done(n)) /\ Cardinality(Done(n)) \in Nat
    BY FS_CardinalityType, DoneCounts DEF InboundInv, InboundTypes, RepliesCounted
  <2>1. CASE n # m
    BY <1>2, <1>6, <1>17, <2>0, <2>1 DEF RepliesCounted
  <2>2. CASE n = m /\ c \notin Outcomes(m)
    BY <1>2, <1>6, <1>17, <2>0, <2>2 DEF RepliesCounted
  <2>3. CASE n = m /\ c \in Outcomes(m)
    <3>1. Cardinality(Done(n)') = Cardinality(Done(n)) + 1
      <4>1. Done(n)' = Done(n) \cup {c} /\ c \notin Done(n)
        BY <1>6, <2>3
      <4> HIDE DEF Done
      <4> QED
        BY <2>0, <4>1, FS_AddElement
    <3>2. IsFiniteSet(Owing(n)') /\ Cardinality(Owing(n)') <= Cardinality(Owing(n)) + 1 /\ Cardinality(Owing(n)') \in Nat
      <4>1. IsFiniteSet(Owing(n) \cup {w}) /\ Cardinality(Owing(n) \cup {w}) = Cardinality(Owing(n)) + 1
        BY <1>17, <2>0, FS_AddElement
      <4> QED
        <5>1. Owing(n)' = Owing(n) \/ Owing(n)' = Owing(n) \cup {w}
          BY <1>17, <2>3
        <5>2. Cardinality(Owing(n)) <= Cardinality(Owing(n)) + 1 /\ Cardinality(Owing(n)) + 1 \in Nat
          BY <2>0
        <5>3. CASE Owing(n)' = Owing(n)
          BY <2>0, <5>2, <5>3
        <5>4. CASE Owing(n)' = Owing(n) \cup {w}
          BY <4>1, <5>2, <5>4
        <5> QED
          BY <5>1, <5>3, <5>4
    <3>3. replies'[n] = replies[n]
      BY <1>2
    <3>4. replies'[n] + Cardinality(Owing(n)') <= Cardinality(Done(n)')
      BY <2>0, <3>1, <3>2, <3>3
    <3> QED
      BY <3>2, <3>4 DEF RepliesCounted
  <2> QED
    BY <2>1, <2>2, <2>3
<1>19. ASSUME NEW n \in Messages PROVE CancelGood(n)'
  <2> SUFFICES ASSUME message[n].verb = "cancel"
               PROVE  /\ message[n].source = "button" => "TASK_CANCELLED" \notin Done(n)'
                      /\ Alone(n) => "TASK_CANCELLED" \notin Done(n)' \/ "TASK_CANCEL_REQUESTED" \notin Done(n)'
                      /\ "TASK_CANCELLED" \in Done(n)' => taskStatus' = "CANCELLED"
                      /\ "TASK_CANCEL_REQUESTED" \in Done(n)' => taskStatus' \in {"CANCEL_REQUESTED", "CANCELLED"}
    BY <1>2, <1>7 DEF CancelGood
  <2>1. /\ message[n].source = "button" => "TASK_CANCELLED" \notin Done(n)
        /\ Alone(n) => "TASK_CANCELLED" \notin Done(n) \/ "TASK_CANCEL_REQUESTED" \notin Done(n)
        /\ "TASK_CANCELLED" \in Done(n) => taskStatus = "CANCELLED"
        /\ "TASK_CANCEL_REQUESTED" \in Done(n) => taskStatus \in {"CANCEL_REQUESTED", "CANCELLED"}
    BY DEF InboundInv, CancelGood
  <2>2. CASE Done(n)' = Done(n)
    BY <1>9, <2>1, <2>2
  <2>3. CASE n = m /\ Done(n)' = Done(n) \cup {c}
    <3>1. message[m].source = "button" => c # "TASK_CANCELLED"
      BY <1>1 DEF PlanShape
    <3>2. Alone(m) /\ c = "TASK_CANCELLED" => "TASK_CANCEL_REQUESTED" \notin Done(m)
      BY <1>1 DEF PlanLeads
    <3>3. c = "TASK_CANCEL_REQUESTED" => "TASK_CANCELLED" \notin Done(m)
      BY <1>9, <2>1, <2>3
    <3>4. "TASK_CANCELLED" # "TASK_CANCEL_REQUESTED"
      OBVIOUS
    <3> HIDE DEF Done
    <3> QED
      BY <1>9, <2>1, <2>3, <3>1, <3>2, <3>3, <3>4
  <2> QED
    BY <1>6, <2>2, <2>3
<1>20. ASSUME NEW n \in Messages PROVE AnswerGood(n)'
  <2>1. AnswerGood(n)
    BY DEF InboundInv
  <2> QED
    BY <1>2, <1>6, <1>10, <2>1 DEF AnswerGood
<1> QED
  BY <1>6, <1>11, <1>12, <1>16, <1>18, <1>19, <1>20 DEF InboundInv

LEMMA InboundStep == InboundInv /\ [InboundNext]_inboundVars => InboundInv'
<1> SUFFICES ASSUME InboundInv, [InboundNext]_inboundVars PROVE InboundInv'
  OBVIOUS
<1>1. CASE UNCHANGED inboundVars
  <2>1. UNCHANGED <<message, seen, worker, taskStatus, commandLog, replies, bound, answers>>
    BY <1>1 DEF inboundVars
  <2>2. InboundTypes' /\ LogGood' /\ OneAtATime'
    BY <2>1, SameLog DEF InboundInv, InboundTypes, LogGood, OneAtATime, Busy
  <2>3. \A v \in Requesters : Busy(v)' => HandlingGood(worker[v])'
    <3> SUFFICES ASSUME NEW v \in Requesters, Busy(v)' PROVE HandlingGood(worker[v])'
      OBVIOUS
    <3>1. PICK x : x = worker[v] /\ x = worker'[v]
      BY <2>1
    <3>2. HandlingGood(x)
      BY <3>1 DEF InboundInv, Busy
    <3>3. HandlingGood(x)'
      BY <2>1, <3>2, SameHandling
    <3> QED
      BY <3>1, <3>3
  <2>4. ASSUME NEW n \in Messages PROVE RepliesCounted(n)' /\ CancelGood(n)' /\ AnswerGood(n)'
    <3>1. Owing(n)' = Owing(n)
      BY <2>1 DEF Owing, OwesReply
    <3> QED
      BY <2>1, <3>1, SameLog DEF InboundInv, RepliesCounted, CancelGood, AnswerGood
  <2> QED
    BY <2>2, <2>3, <2>4 DEF InboundInv
<1>2. CASE InboundNext
  <2>1. PICK w \in Requesters :
          \/ RouteSlash(w) \/ RouteTelegram(w) \/ HandleAction(w) \/ ExecuteCommand(w) \/ CommandRefused(w)
          \/ Reply(w) \/ Answer(w) \/ PoolTimeout(w) \/ CrashWorker(w)
          \/ \E m \in Messages : AdmitSlash(w, m) \/ AdmitButton(w, m) \/ AdmitTelegram(w, m) \/ AdmitBot(w, m)
    BY <1>2 DEF InboundNext
  <2>2. CASE ExecuteCommand(w)
    <3>1. PICK h : h = worker[w]
      OBVIOUS
    <3>2. PICK m : m = h.msg
      OBVIOUS
    <3>3. PICK c : c = Head(h.plan)
      OBVIOUS
    <3>4. PICK p : p = Tail(h.plan)
      OBVIOUS
    <3> QED
      BY <2>2, <3>1, <3>2, <3>3, <3>4, CommandReplayed, CommandTakesEffect
  <2> QED
    BY <2>1, <2>2, InboundRoutes, InboundStops, InboundReplies, InboundAnswers, InboundAdmits
<1> QED
  BY <1>1, <1>2

LEMMA InboundInvariant == InboundSpec => []InboundInv
BY InboundStarts, InboundStep, PTL DEF InboundSpec

LEMMA InboundImplies == InboundInv => EffectOncePerMessage
<1> SUFFICES ASSUME InboundInv, NEW m \in Messages
             PROVE  LET mine == {i \in DOMAIN commandLog : commandLog[i].key[1] = m} IN
                    /\ \A i, j \in mine : commandLog[i].cmd = commandLog[j].cmd => i = j
                    /\ replies[m] <= Repliable(m)
                    /\ <<m, "ok">> \in answers => \E i \in mine : commandLog[i].cmd \in Outcomes(m)
                    /\ ~message[m].linked \/ ~GatewayAllows(m) => mine = {} /\ <<m, "ok">> \notin answers
                    /\ m \in bound => OwnTask(m) /\ replies[m] = 1
  BY DEF EffectOncePerMessage
<1> DEFINE mine == {i \in DOMAIN commandLog : commandLog[i].key[1] = m}
<1>1. \A i \in DOMAIN commandLog : commandLog[i] \in [cmd : Cmds, key : Messages \X {0}]
  <2> DEFINE E == [cmd : Cmds, key : Messages \X {0}]
  <2>1. commandLog \in Seq(E)
    BY DEF InboundInv, InboundTypes
  <2> HIDE DEF E
  <2>2. \A i \in DOMAIN commandLog : commandLog[i] \in E
    BY <2>1
  <2> QED
    BY <2>2 DEF E
<1>2. \A i \in mine : commandLog[i] = [cmd |-> commandLog[i].cmd, key |-> <<m, 0>>]
  BY <1>1
<1>3. \A i, j \in mine : commandLog[i].cmd = commandLog[j].cmd => i = j
  BY <1>2 DEF InboundInv, LogGood
<1>4. Done(m) # {} => \E i \in mine : commandLog[i].cmd \in Outcomes(m)
  BY DEF Done, Took
<1>5. mine # {} => message[m].linked /\ GatewayAllows(m)
  BY DEF InboundInv, LogGood
<1>6. AnswerGood(m) /\ CancelGood(m) /\ RepliesCounted(m) /\ replies[m] \in Nat
  BY DEF InboundInv, InboundTypes
<1>7. replies[m] <= Repliable(m)
  <2>1. Cardinality(Done(m)) <= 2 /\ Cardinality(Done(m)) \in Nat
    BY DoneCounts
  <2>2. Cardinality(Owing(m)) \in Nat /\ replies[m] <= Cardinality(Done(m))
    BY <1>6, <2>1, FS_CardinalityType DEF RepliesCounted
  <2>3. ~(message[m].source = "bot" /\ message[m].verb = "cancel") => Cardinality(Done(m)) <= 1
    <3>1. message[m].source \in Sources
      BY DEF InboundInv, InboundTypes
    <3> QED
      BY <1>6, <3>1, DoneCounts DEF CancelGood, Alone, Sources
  <2> QED
    BY <1>6, <2>1, <2>2, <2>3 DEF Repliable
<1> QED
  BY <1>3, <1>4, <1>5, <1>6, <1>7 DEF AnswerGood

\* However often a message is delivered, by however many workers and wherever
\* its handling stops, each of its commands takes effect at most once and it is
\* replied to at most once, or twice for a bot's cancel; "ok" means that the
\* outcome was reached, and who may not command has no effect.
THEOREM InboundEffectOnce == InboundSpec => []EffectOncePerMessage
BY InboundInvariant, InboundImplies, PTL

\* What InboundInv leaves open of the types: the pool is never overdrawn, and
\* runs, approvals and answers are in one of their states.
InboundRest ==
  /\ IsFiniteSet(Connections) /\ InUse <= PoolSize
  /\ runStatus \in RunStates /\ approvalStatus \in {"PENDING", "DECIDED"}
  /\ answers \subseteq Messages \X {"ok", "refused", "error"}

\* A worker holds what it held, or less, or one connection more from a pool
\* that has one.
LEMMA PoolKept ==
  ASSUME InboundTypes, InboundTypes', IsFiniteSet(Connections), InUse <= PoolSize,
         NEW w \in Requesters, \A v \in Requesters \ {w} : worker'[v] = worker[v],
         \/ worker'[w].held <= worker[w].held
         \/ FreeConnection /\ worker'[w].held <= worker[w].held + 1
  PROVE  IsFiniteSet(Connections)' /\ InUse' <= PoolSize
<1> DEFINE one == <<w, worker[w].held + 1>>
<1>1. /\ \A v \in Requesters : worker[v].held \in Nat /\ worker'[v].held \in Nat
      /\ PoolSize \in Nat
  BY InboundAssumption DEF InboundTypes, Handlings, NoRequestHandled
<1>2. Cardinality(Connections) \in Nat
  BY FS_CardinalityType
<1>3. CASE worker'[w].held <= worker[w].held
  <2>1. Connections' \subseteq Connections
    BY <1>1, <1>3 DEF Connections
  <2>2. IsFiniteSet(Connections') /\ Cardinality(Connections') <= Cardinality(Connections)
    BY <2>1, FS_Subset
  <2>3. Cardinality(Connections') \in Nat
    BY <2>2, FS_CardinalityType
  <2> QED
    BY <1>1, <1>2, <2>2, <2>3 DEF InUse
<1>4. CASE FreeConnection /\ worker'[w].held <= worker[w].held + 1
  <2>1. Connections' \subseteq Connections \cup {one}
    BY <1>1, <1>4 DEF Connections
  <2> HIDE DEF one
  <2>2. /\ IsFiniteSet(Connections \cup {one})
        /\ Cardinality(Connections \cup {one}) <= Cardinality(Connections) + 1
    <3> DEFINE C == Connections
    <3>1. IsFiniteSet(C) /\ Cardinality(C) \in Nat
      BY <1>2
    <3> HIDE DEF C
    <3>2. /\ IsFiniteSet(C \cup {one})
          /\ Cardinality(C \cup {one}) = IF one \in C THEN Cardinality(C) ELSE Cardinality(C) + 1
      BY <3>1, FS_AddElement
    <3>3. Cardinality(C \cup {one}) <= Cardinality(C) + 1
      BY <3>1, <3>2
    <3> QED
      BY <3>2, <3>3 DEF C
  <2>3. /\ IsFiniteSet(Connections')
        /\ Cardinality(Connections') <= Cardinality(Connections \cup {one})
    BY <2>1, <2>2, FS_Subset
  <2>4. Cardinality(Connections') \in Nat /\ Cardinality(Connections \cup {one}) \in Nat
    BY <2>2, <2>3, FS_CardinalityType
  <2>5. Cardinality(Connections) < PoolSize
    BY <1>4 DEF FreeConnection, InUse
  <2> QED
    BY <1>1, <1>2, <2>2, <2>3, <2>4, <2>5 DEF InUse
<1> QED
  BY <1>3, <1>4

LEMMA InboundRestStep ==
  ASSUME InboundInv, InboundInv', InboundRest, [InboundNext]_inboundVars
  PROVE  InboundRest'
<1>0. /\ worker \in [Requesters -> {NoRequestHandled} \cup Handlings]
      /\ worker' \in [Requesters -> {NoRequestHandled} \cup Handlings]
      /\ InboundTypes /\ InboundTypes' /\ IsFiniteSet(Connections) /\ InUse <= PoolSize
      /\ \A w \in Requesters : worker[w].held \in Nat
  <2>1. InboundTypes /\ InboundTypes'
    BY DEF InboundInv
  <2>2. worker \in [Requesters -> {NoRequestHandled} \cup Handlings]
    BY <2>1 DEF InboundTypes
  <2>3. worker' \in [Requesters -> {NoRequestHandled} \cup Handlings]
    BY <2>1 DEF InboundTypes
  <2>4. \A w \in Requesters : worker[w].held \in Nat
    BY <2>2 DEF Handlings, NoRequestHandled
  <2> QED
    BY <2>1, <2>2, <2>3, <2>4 DEF InboundRest
<1>1. CASE UNCHANGED inboundVars
  BY <1>1 DEF inboundVars, InboundRest, Connections, InUse
<1>2. ASSUME NEW w \in Requesters, NEW m \in Messages,
             AdmitSlash(w, m) \/ AdmitButton(w, m) \/ AdmitTelegram(w, m) \/ AdmitBot(w, m)
      PROVE  InboundRest'
  <2>1. PICK n \in {0, 1} :
          /\ worker' = [worker EXCEPT ![w] = [NoRequestHandled EXCEPT !.msg = m, !.at = "route", !.held = n]]
          /\ FreeConnection /\ worker[w] = NoRequestHandled
          /\ UNCHANGED <<runStatus, approvalStatus, answers>>
    BY <1>2 DEF AdmitSlash, AdmitButton, AdmitTelegram, AdmitBot, BeginDelivery
  <2>2. [NoRequestHandled EXCEPT !.msg = m, !.at = "route", !.held = n].held = n /\ NoRequestHandled.held = 0
    BY DEF NoRequestHandled
  <2>3. worker'[w].held = n /\ worker[w].held = 0 /\ \A v \in Requesters \ {w} : worker'[v] = worker[v]
    BY <1>0, <2>1, <2>2
  <2>4. worker'[w].held <= worker[w].held + 1
    BY <2>3
  <2> QED
    BY <1>0, <2>1, <2>3, <2>4, PoolKept DEF InboundRest
<1>3. ASSUME NEW w \in Requesters, NEW plan, NEW more \in {0, 1}, RunPlan(w, plan, more)
      PROVE  InboundRest'
  <2>1. /\ \A v \in Requesters \ {w} : worker'[v] = worker[v]
        /\ FreeConnection /\ UNCHANGED <<runStatus, approvalStatus, answers>>
    BY <1>0, <1>3 DEF RunPlan
  <2>2. worker'[w].held = worker[w].held + more
    BY <1>0, <1>3 DEF RunPlan, Handlings, NoRequestHandled
  <2>3. worker'[w].held <= worker[w].held + 1
    BY <1>0, <2>2
  <2> QED
    BY <1>0, <2>1, <2>3, PoolKept DEF InboundRest
<1>4. ASSUME NEW w \in Requesters, PoolTimeout(w) \/ CrashWorker(w) \/ Answer(w)
      PROVE  InboundRest'
  <2>1. /\ \A v \in Requesters \ {w} : worker'[v] = worker[v]
        /\ worker'[w] = NoRequestHandled /\ UNCHANGED <<runStatus, approvalStatus>>
    BY <1>0, <1>4 DEF PoolTimeout, CrashWorker, Answer
  <2>2. worker'[w].held <= worker[w].held
    BY <1>0, <2>1 DEF NoRequestHandled
  <2>3. answers' \subseteq Messages \X {"ok", "refused", "error"}
    <3>1. CASE PoolTimeout(w) \/ CrashWorker(w)
      BY <3>1 DEF PoolTimeout, CrashWorker, InboundRest
    <3>2. CASE Answer(w)
      <4>1. worker[w].at \in {"run", "refused", "error"}
            /\ answers' = answers \cup {<<worker[w].msg, IF worker[w].at = "run" THEN "ok" ELSE worker[w].at>>}
        BY <3>2 DEF Answer
      <4>2. worker[w].msg \in Messages
        BY <1>0, <4>1 DEF Handlings, NoRequestHandled
      <4>3. (IF worker[w].at = "run" THEN "ok" ELSE worker[w].at) \in {"ok", "refused", "error"}
        BY <4>1
      <4> QED
        BY <4>1, <4>2, <4>3 DEF InboundRest
    <3> QED
      BY <1>4, <3>1, <3>2
  <2> QED
    BY <1>0, <2>1, <2>2, <2>3, PoolKept DEF InboundRest
<1>5. ASSUME NEW w \in Requesters, Reply(w) \/ CommandRefused(w)
      PROVE  InboundRest'
  <2>1. /\ \A v \in Requesters \ {w} : worker'[v] = worker[v]
        /\ UNCHANGED <<runStatus, approvalStatus, answers>>
    BY <1>0, <1>5 DEF Reply, CommandRefused
  <2>2. worker'[w].held = worker[w].held
    <3>1. worker[w] \in Handlings
      BY <1>0, <1>5 DEF Reply, CommandRefused, WaitingToRun, NoRequestHandled
    <3>2. CASE Reply(w)
      BY <1>0, <3>1, <3>2 DEF Reply, Handlings
    <3>3. CASE CommandRefused(w)
      BY <1>0, <3>1, <3>3 DEF CommandRefused, Handlings
    <3> QED
      BY <1>5, <3>2, <3>3
  <2>3. worker'[w].held <= worker[w].held
    BY <1>0, <2>2
  <2> QED
    BY <1>0, <2>1, <2>3, PoolKept DEF InboundRest
<1>6. ASSUME NEW w \in Requesters, ExecuteCommand(w)
      PROVE  InboundRest'
  <2>1. /\ \A v \in Requesters \ {w} : worker'[v] = worker[v]
        /\ UNCHANGED answers
    BY <1>0, <1>6 DEF ExecuteCommand
  <2>2. worker'[w].held = worker[w].held
    BY <1>0, <1>6 DEF ExecuteCommand, Handlings, NoRequestHandled
  <2>3. worker'[w].held <= worker[w].held
    BY <1>0, <2>2
  <2>4. runStatus' \in RunStates /\ approvalStatus' \in {"PENDING", "DECIDED"}
    <3>1. UNCHANGED <<runStatus, approvalStatus>> \/ Effect(worker[w].msg, Head(worker[w].plan))
      BY <1>6 DEF ExecuteCommand, NextCommand
    <3> QED
      BY <3>1 DEF InboundRest, Effect, RunMoves, RunStates
  <2> QED
    BY <1>0, <2>1, <2>3, <2>4, PoolKept DEF InboundRest
<1> QED
  BY <1>1, <1>2, <1>3, <1>4, <1>5, <1>6
     DEF InboundNext, RouteSlash, RouteTelegram, HandleAction

\* The pool gives out no more connections than it has, and the Task, the run,
\* the approval and the answers are in states the code knows.
THEOREM InboundTypesKept == InboundSpec => []InboundTypeOK
<1>1. InboundInit => InboundRest
  <2> SUFFICES ASSUME InboundInit PROVE InboundRest
    OBVIOUS
  <2>1. Connections = {}
    BY DEF InboundInit, Connections, NoRequestHandled
  <2>2. InUse = 0 /\ IsFiniteSet(Connections)
    BY <2>1, FS_EmptySet DEF InUse
  <2> QED
    BY <2>2, InboundAssumption DEF InboundInit, InboundRest, RunStates
<1>2. InboundInv /\ InboundRest => InboundTypeOK
  <2> SUFFICES ASSUME InboundInv, InboundRest PROVE InboundTypeOK
    OBVIOUS
  <2>1. InUse \in 0 .. PoolSize
    <3>1. Cardinality(Connections) \in Nat
      BY FS_CardinalityType DEF InboundRest
    <3> QED
      BY <3>1, InboundAssumption DEF InUse, InboundRest
  <2> QED
    BY <2>1 DEF InboundTypeOK, InboundInv, InboundTypes, InboundRest
<1>3. InboundInv /\ InboundInv' /\ InboundRest /\ [InboundNext]_inboundVars => InboundRest'
  BY InboundRestStep
<1> QED
  BY <1>1, <1>2, <1>3, InboundInvariant, PTL DEF InboundSpec

-----------------------------------------------------------------------------
(***************************************************************************)
(* Two facts that the library states only with an operator parameter: a    *)
(* set of numbers has a least element, and induction.                      *)
(***************************************************************************)
\* A set of natural numbers that is not empty has a least element.
LEMMA LeastNumber ==
  ASSUME NEW T \in SUBSET Nat, T # {}
  PROVE  \E n \in T : \A m \in T : n <= m
<1> DEFINE U == {0 .. k : k \in T}
<1>1. \A k \in T : 0 .. k \in FiniteSubsetsOf(Nat)
  BY FS_Interval DEF FiniteSubsetsOf
<1>2. U \subseteq FiniteSubsetsOf(Nat) /\ U # {}
  BY <1>1
<1>3. IsWellFoundedOn(StrictSubsetOrdering(Nat), FiniteSubsetsOf(Nat))
  BY FS_StrictSubsetOrderingWellFounded
<1> HIDE DEF U
<1>4. PICK x \in U : \A y \in U : ~(<<y, x>> \in StrictSubsetOrdering(Nat))
  BY <1>2, <1>3, WFMin
<1>5. PICK n \in T : x = 0 .. n
  BY DEF U
<1>6. ASSUME NEW m \in T, ~(n <= m) PROVE FALSE
  <2>1. 0 .. m \in U /\ 0 .. m \subseteq 0 .. n /\ n \notin 0 .. m /\ n \in 0 .. n
    BY <1>6 DEF U
  <2>2. <<0 .. m, 0 .. n>> \in StrictSubsetOrdering(Nat)
    BY <2>1 DEF StrictSubsetOrdering
  <2> QED
    BY <1>4, <1>5, <2>1, <2>2
<1> QED
  BY <1>6

\* Induction, for what can be said of the members of a set.
LEMMA Induction ==
  ASSUME NEW S, 0 \in S, \A n \in Nat : n \in S => n + 1 \in S
  PROVE  Nat \subseteq S
<1>1. SUFFICES ASSUME NEW k \in Nat, k \notin S PROVE FALSE
  OBVIOUS
<1> DEFINE T == {n \in Nat : n \notin S}
<1>2. PICK n \in T : \A m \in T : n <= m
  <2>1. T \in SUBSET Nat /\ T # {}
    BY <1>1
  <2> HIDE DEF T
  <2> QED
    BY <2>1, LeastNumber
<1>3. n # 0 /\ n - 1 \in Nat /\ n - 1 \notin T
  BY <1>2
<1> QED
  BY <1>3

-----------------------------------------------------------------------------
(***************************************************************************)
(* Delivery.  DeliveryInv adds what a drain holds: due rows that wait,     *)
(* nobody else's, each of them once in what is left to offer or answered;  *)
(* an answered row may have been posted once more than it was tried.       *)
(***************************************************************************)
OutboxRow == [st : {"none", "pending", "sent", "dead"}, tries : Nat, text : Nat, due : BOOLEAN]
DrainRow == [op : {"idle", "open"}, todo : Seq(OutboxKeys), held : SUBSET OutboxKeys,
             ok : SUBSET OutboxKeys, failed : SUBSET OutboxKeys, items : Nat]
Once(s) == \A i, j \in DOMAIN s : s[i] = s[j] => i = j
Left(t) == {t.todo[i] : i \in DOMAIN t.todo}
Answered(t) == t.ok \cup t.failed

\* The transaction of a drain, when rows are as in box and made posts were made.
DrainGood(t, box, made) ==
  /\ t \in DrainRow /\ Once(t.todo)
  /\ t.op = "idle" => t = NoDrain
  /\ Left(t) \subseteq t.held /\ Answered(t) \subseteq t.held /\ Left(t) \cap Answered(t) = {}
  /\ \A k \in t.held : box[k].st = "pending" /\ box[k].due
  /\ \A k \in t.ok : ChannelKind(k) => made[k] > 0

\* A row, when made posts were made of it and it is answered or not.
RowGood(k, r, made, crashes, answered) ==
  /\ r.st = "none" => made = 0
  /\ r.st = "pending" => r.tries < MaxTries
  /\ r.st = "dead" => r.tries = MaxTries \/ k = Reminder
  /\ ChannelKind(k) /\ r.st = "sent" => made > 0
  /\ made <= r.tries + crashes + (IF answered THEN 1 ELSE 0)

InDrain(k) == \E d \in Drainers : k \in Answered(drain[d])

DeliveryShapes ==
  /\ outbox \in [OutboxKeys -> OutboxRow] /\ taskSeq \in 0 .. MaxEvents
  /\ post \in [shown : Nat, made : [OutboxKeys -> Nat]] /\ mishaps \in Nat
  /\ delivered \in [Drainers -> SUBSET OutboxKeys]
  /\ \A d \in Drainers : \A k \in delivered[d] : post.made[k] > 0
QueueGood ==
  /\ queue \in Seq(OutboxKeys) /\ Once(queue)
  /\ \A i \in DOMAIN queue : outbox[queue[i]].st # "none"
DrainsGood ==
  /\ DOMAIN drain = Drainers
  /\ \A d \in Drainers : DrainGood(drain[d], outbox, post.made)
  /\ \A d, e \in Drainers : d # e => drain[d].held \cap drain[e].held = {}
RowsGood == \A k \in OutboxKeys : RowGood(k, outbox[k], post.made[k], mishaps, InDrain(k))
NoticeGood ==
  /\ noteStatus = (CASE outbox[Note].st = "none" -> "none" [] outbox[Note].st = "sent" -> "sent"
                     [] OTHER -> "queued")
  /\ sentEvents = IF noteStatus = "sent" THEN 1 ELSE 0
DeliveryInv == DeliveryShapes /\ QueueGood /\ DrainsGood /\ RowsGood /\ NoticeGood

\* The keys of S in a sequence of keys are what a recursive function computes.
LEMMA InOrderRuns ==
  ASSUME NEW s, Len(s) \in Nat, NEW S
  PROVE  \E f : /\ f = [i \in 0 .. Len(s) |->
                         IF i = 0 THEN <<>> ELSE IF s[i] \in S THEN Append(f[i - 1], s[i]) ELSE f[i - 1]]
                /\ InOrder(s, S) = f[Len(s)]
<1> DEFINE Step(before, i) == IF s[i] \in S THEN Append(before, s[i]) ELSE before
           Runs(f, m) == f = [i \in 0 .. m |-> IF i = 0 THEN <<>> ELSE Step(f[i - 1], i)]
           T == {m \in Nat : \E f : Runs(f, m)}
<1>1. 0 \in T
  <2>1. Runs([i \in 0 .. 0 |-> <<>>], 0)
    OBVIOUS
  <2> QED
    BY <2>1
<1>2. ASSUME NEW m \in Nat, m \in T PROVE m + 1 \in T
  <2>1. PICK g : Runs(g, m)
    BY <1>2
  <2> HIDE DEF Step
  <2> DEFINE h == [i \in 0 .. m + 1 |-> IF i <= m THEN g[i] ELSE Step(g[m], m + 1)]
  <2>2. ASSUME NEW i \in 0 .. m + 1 PROVE h[i] = IF i = 0 THEN <<>> ELSE Step(h[i - 1], i)
    <3>1. CASE i = 0
      BY <2>1, <3>1
    <3>2. CASE i # 0 /\ i <= m
      <4>1. i - 1 \in 0 .. m /\ h[i - 1] = g[i - 1] /\ h[i] = g[i]
        BY <3>2
      <4>2. g[i] = Step(g[i - 1], i)
        BY <2>1, <3>2
      <4> QED
        BY <3>2, <4>1, <4>2
    <3>3. CASE i = m + 1
      BY <3>3
    <3> QED
      BY <3>1, <3>2, <3>3
  <2>3. Runs(h, m + 1)
    BY <2>2
  <2> HIDE DEF h, Runs
  <2> QED
    BY <2>3
<1>3. Len(s) \in T
  <2> HIDE DEF T
  <2> QED
    BY <1>1, <1>2, Induction
<1>4. \E f : Runs(f, Len(s))
  BY <1>3
<1>5. InOrder(s, S) = (CHOOSE f : Runs(f, Len(s)))[Len(s)]
  BY DEF InOrder
<1>6. Runs(CHOOSE f : Runs(f, Len(s)), Len(s))
  BY <1>4
<1> QED
  BY <1>5, <1>6

\* They are a sequence without repetitions, of members of both.
SomeOf(r, s, S) ==
  /\ r \in Seq(OutboxKeys) /\ Once(r)
  /\ \A j \in DOMAIN r : r[j] \in S /\ \E l \in DOMAIN s : s[l] = r[j]
LEMMA InOrderIs ==
  ASSUME NEW s \in Seq(OutboxKeys), Once(s), NEW S
  PROVE  SomeOf(InOrder(s, S), s, S)
<1> DEFINE N == Len(s)
<1>0. N \in Nat /\ DOMAIN s = 1 .. N
  OBVIOUS
<1>1. PICK f : /\ f = [i \in 0 .. N |->
                        IF i = 0 THEN <<>> ELSE IF s[i] \in S THEN Append(f[i - 1], s[i]) ELSE f[i - 1]]
               /\ InOrder(s, S) = f[N]
  BY <1>0, InOrderRuns
<1> DEFINE Good(r, n) ==
      /\ r \in Seq(OutboxKeys) /\ Once(r)
      /\ \A j \in DOMAIN r : r[j] \in S /\ \E l \in 1 .. n : s[l] = r[j]
    T == {n \in Nat : n <= N => Good(f[n], n)}
<1>2. 0 \in T
  BY <1>0, <1>1 DEF Once
<1>3. ASSUME NEW n \in Nat, n \in T PROVE n + 1 \in T
  <2> SUFFICES ASSUME n + 1 <= N PROVE Good(f[n + 1], n + 1)
    OBVIOUS
  <2>1. Good(f[n], n)
    BY <1>0, <1>3
  <2>2. f[n + 1] = IF s[n + 1] \in S THEN Append(f[n], s[n + 1]) ELSE f[n]
    <3> DEFINE Step(before, i) == IF s[i] \in S THEN Append(before, s[i]) ELSE before
    <3>1. f = [i \in 0 .. N |-> IF i = 0 THEN <<>> ELSE Step(f[i - 1], i)]
      BY <1>1
    <3> HIDE DEF Step
    <3>2. f[n + 1] = Step(f[n], n + 1)
      BY <1>0, <3>1
    <3> QED
      BY <3>2 DEF Step
  <2>3. CASE s[n + 1] \notin S
    BY <2>1, <2>2, <2>3
  <2>4. CASE s[n + 1] \in S
    <3> DEFINE r == f[n]
               k == s[n + 1]
               a == Append(r, k)
    <3>1. k \in OutboxKeys /\ r \in Seq(OutboxKeys)
      BY <1>0, <2>1
    <3>2. \A j \in DOMAIN r : r[j] # k
      <4>1. \A l \in 1 .. n : s[l] # k
        BY <1>0 DEF Once
      <4> QED
        BY <2>1, <4>1
    <3> HIDE DEF r, k
    <3>3. /\ a \in Seq(OutboxKeys) /\ Len(a) = Len(r) + 1 /\ Len(r) \in Nat /\ DOMAIN r = 1 .. Len(r)
          /\ DOMAIN a = 1 .. Len(r) + 1 /\ a[Len(r) + 1] = k
          /\ \A j \in 1 .. Len(r) : a[j] = r[j]
      BY <3>1
    <3> HIDE DEF a
    <3>4. Once(a)
      <4>1. Once(r)
        BY <2>1 DEF r
      <4> QED
        BY <3>2, <3>3, <4>1 DEF Once
    <3>5. ASSUME NEW j \in DOMAIN a PROVE a[j] \in S /\ \E l \in 1 .. n + 1 : s[l] = a[j]
      <4>1. CASE j = Len(r) + 1
        BY <2>4, <3>3, <4>1 DEF k
      <4>2. CASE j \in DOMAIN r
        <5>1. r[j] \in S /\ \E l \in 1 .. n : s[l] = r[j]
          BY <2>1, <4>2 DEF r
        <5> QED
          BY <3>3, <4>2, <5>1
      <4> QED
        BY <3>3, <4>1, <4>2
    <3> QED
      BY <2>2, <2>4, <3>3, <3>4, <3>5 DEF a, r, k
  <2> QED
    BY <2>3, <2>4
<1>4. N \in T
  <2> HIDE DEF T, N
  <2> QED
    BY <1>0, <1>2, <1>3, Induction
<1>5. Good(InOrder(s, S), N)
  BY <1>0, <1>1, <1>4
<1> QED
  BY <1>0, <1>5 DEF SomeOf

\* A finite set of keys as a sequence.
LEMMA SetToSeqIs ==
  ASSUME NEW S \in SUBSET OutboxKeys, IsFiniteSet(S)
  PROVE  /\ Keys!SetToSeq(S) \in Seq(OutboxKeys) /\ Once(Keys!SetToSeq(S))
         /\ \A j \in DOMAIN Keys!SetToSeq(S) : Keys!SetToSeq(S)[j] \in S
<1>1. Cardinality(S) \in Nat /\ ExistsBijection(1 .. Cardinality(S), S)
  BY FS_CardinalityType
<1>2. \E f \in [1 .. Cardinality(S) -> S] : Keys!IsInjective(f)
  BY <1>1 DEF ExistsBijection, Bijection, Injection, IsInjective, Keys!IsInjective
<1> DEFINE Lists == [1 .. Cardinality(S) -> S]
<1>3. Keys!SetToSeq(S) = CHOOSE f \in Lists : Keys!IsInjective(f)
  BY DEF Keys!SetToSeq, Cardinality, Keys!Cardinality
<1> HIDE DEF Lists
<1>4. Keys!SetToSeq(S) \in Lists /\ Keys!IsInjective(Keys!SetToSeq(S))
  BY <1>2, <1>3 DEF Lists
<1> QED
  BY <1>1, <1>4 DEF Once, Keys!IsInjective, Lists

\* Two sequences that share nothing, one after the other.
LEMMA OnceAfter ==
  ASSUME NEW p \in Seq(OutboxKeys), NEW q \in Seq(OutboxKeys), Once(p), Once(q),
         \A i \in DOMAIN p, j \in DOMAIN q : p[i] # q[j]
  PROVE  /\ p \o q \in Seq(OutboxKeys) /\ Once(p \o q)
         /\ \A j \in DOMAIN (p \o q) : \/ \E i \in DOMAIN p : (p \o q)[j] = p[i]
                                       \/ \E i \in DOMAIN q : (p \o q)[j] = q[i]
<1> DEFINE c == p \o q
<1>1. /\ Len(p) \in Nat /\ Len(q) \in Nat /\ DOMAIN p = 1 .. Len(p) /\ DOMAIN q = 1 .. Len(q)
      /\ c \in Seq(OutboxKeys) /\ DOMAIN c = 1 .. Len(p) + Len(q)
      /\ \A i \in 1 .. Len(p) : c[i] = p[i]
      /\ \A i \in Len(p) + 1 .. Len(p) + Len(q) : c[i] = q[i - Len(p)] /\ i - Len(p) \in 1 .. Len(q)
  OBVIOUS
<1> HIDE DEF c
<1>2. ASSUME NEW i \in DOMAIN c, NEW j \in DOMAIN c, c[i] = c[j] PROVE i = j
  <2>1. CASE i \in 1 .. Len(p) /\ j \in 1 .. Len(p)
    BY <1>1, <1>2, <2>1 DEF Once
  <2>2. CASE i \notin 1 .. Len(p) /\ j \notin 1 .. Len(p)
    <3>1. /\ i - Len(p) \in DOMAIN q /\ j - Len(p) \in DOMAIN q
          /\ q[i - Len(p)] = q[j - Len(p)]
      BY <1>1, <1>2, <2>2
    <3>2. i - Len(p) = j - Len(p)
      BY <3>1 DEF Once
    <3> QED
      BY <1>1, <3>2
  <2>3. CASE i \in 1 .. Len(p) /\ j \notin 1 .. Len(p)
    <3>1. c[i] = p[i] /\ c[j] = q[j - Len(p)] /\ i \in DOMAIN p /\ j - Len(p) \in DOMAIN q
      BY <1>1, <2>3
    <3> QED
      BY <1>2, <3>1
  <2>4. CASE i \notin 1 .. Len(p) /\ j \in 1 .. Len(p)
    <3>1. c[j] = p[j] /\ c[i] = q[i - Len(p)] /\ j \in DOMAIN p /\ i - Len(p) \in DOMAIN q
      BY <1>1, <2>4
    <3> QED
      BY <1>2, <3>1
  <2> QED
    BY <2>1, <2>2, <2>3, <2>4
<1>3. ASSUME NEW j \in DOMAIN c
      PROVE  (\E i \in DOMAIN p : c[j] = p[i]) \/ (\E i \in DOMAIN q : c[j] = q[i])
  <2>1. CASE j \in 1 .. Len(p)
    BY <1>1, <2>1
  <2>2. CASE j \in Len(p) + 1 .. Len(p) + Len(q)
    <3>1. c[j] = q[j - Len(p)] /\ j - Len(p) \in DOMAIN q
      BY <1>1, <2>2
    <3> QED
      BY <3>1
  <2> QED
    BY <1>1, <2>1, <2>2
<1> QED
  BY <1>1, <1>2, <1>3 DEF c, Once

LEMMA KeysAre ==
  /\ Card \in OutboxKeys /\ Note \in OutboxKeys /\ Reminder \in OutboxKeys /\ Digest \in OutboxKeys
  /\ \A n \in 1 .. MaxEvents : Patch(n) \in OutboxKeys /\ Patch(n) # Note
  /\ Card # Note /\ Digest # Note /\ Reminder # Note /\ ~ChannelKind(Note)
BY DEF Card, Note, Reminder, Digest, Patch, OutboxKeys, ChannelKind

LEMMA DeliveryInit_Inv == DeliveryInit => DeliveryInv
<1> SUFFICES ASSUME DeliveryInit PROVE DeliveryInv
  OBVIOUS
<1>1. /\ \A k \in OutboxKeys : outbox[k] = NoRow /\ post.made[k] = 0
      /\ \A d \in Drainers : drain[d] = NoDrain /\ delivered[d] = {}
      /\ mishaps = 0 /\ noteStatus = "none" /\ sentEvents = 0 /\ queue = <<>>
  BY DEF DeliveryInit
<1>2. DeliveryShapes
  BY <1>1 DEF DeliveryInit, DeliveryShapes, OutboxRow, NoRow
<1>3. QueueGood
  BY <1>1 DEF QueueGood, Once
<1>4. DrainsGood
  <2>1. NoDrain.held = {}
    BY DEF NoDrain
  <2>2. DrainGood(NoDrain, outbox, post.made)
    BY DEF DrainGood, NoDrain, DrainRow, Once, Left, Answered
  <2> QED
    BY <1>1, <2>1, <2>2 DEF DrainsGood, DeliveryInit
<1>5. RowsGood
  BY <1>1, DeliveryAssumption DEF RowsGood, RowGood, NoRow
<1>6. NoticeGood
  BY <1>1, KeysAre DEF NoticeGood, NoRow
<1> QED
  BY <1>2, <1>3, <1>4, <1>5, <1>6 DEF DeliveryInv

\* A key no drain holds is in no drain.
LEMMA UnlockedIsIn ==
  ASSUME DrainsGood, NEW k, ~RowLocked(k)
  PROVE  ~InDrain(k)
BY DEF DrainsGood, DrainGood, RowLocked, InDrain

\* Rows that no drain holds may change, if they stay what they should be.
FreeRowChanged(k) ==
  outbox'[k] = outbox[k] \/ (~RowLocked(k) /\ RowGood(k, outbox'[k], post.made[k], mishaps, FALSE))
LEMMA FreeRowsChange ==
  ASSUME DrainsGood, RowsGood, \A k \in OutboxKeys : FreeRowChanged(k),
         UNCHANGED <<post, drain, mishaps>>
  PROVE  DrainsGood' /\ RowsGood'
<1>1. ASSUME NEW d \in Drainers PROVE DrainGood(drain[d], outbox', post.made)
  <2>1. DrainGood(drain[d], outbox, post.made)
    BY DEF DrainsGood
  <2>2. ASSUME NEW k \in drain[d].held PROVE outbox'[k] = outbox[k]
    <3>1. RowLocked(k) /\ k \in OutboxKeys
      BY <2>1 DEF RowLocked, DrainGood, DrainRow
    <3> QED
      BY <3>1 DEF FreeRowChanged
  <2> QED
    BY <2>1, <2>2 DEF DrainGood
<1>2. DrainsGood'
  BY <1>1 DEF DrainsGood
<1>3. ASSUME NEW k \in OutboxKeys
      PROVE  RowGood(k, outbox'[k], post'.made[k], mishaps', InDrain(k)')
  <2>1. InDrain(k)' = InDrain(k)
    BY DEF InDrain
  <2>2. CASE outbox'[k] = outbox[k]
    BY <2>1, <2>2 DEF RowsGood
  <2>3. CASE ~RowLocked(k) /\ RowGood(k, outbox'[k], post.made[k], mishaps, FALSE)
    <3>1. InDrain(k) = FALSE
      BY <2>3, UnlockedIsIn DEF InDrain
    <3> QED
      BY <2>1, <2>3, <3>1
  <2> QED
    BY <2>2, <2>3 DEF FreeRowChanged
<1>4. RowsGood'
  BY <1>3 DEF RowsGood
<1> QED
  BY <1>2, <1>4

\* enqueue: only rows that are not there yet are written, and queued once.
Texts(texts) ==
  /\ DOMAIN texts \subseteq OutboxKeys /\ IsFiniteSet(DOMAIN texts)
  /\ \A k \in DOMAIN texts : texts[k] \in Nat
LEMMA EnqueueIs ==
  ASSUME DeliveryInv, NEW texts, Texts(texts), Enqueue(texts)
  PROVE  /\ outbox' \in [OutboxKeys -> OutboxRow] /\ QueueGood'
         /\ \A k \in OutboxKeys : /\ k \notin DOMAIN texts => outbox'[k] = outbox[k]
                                  /\ k \in DOMAIN texts => outbox'[k].st # "none"
                                  /\ outbox[k].st # "none" => outbox'[k] = outbox[k]
                                  /\ outbox[k].st = "none" /\ k \in DOMAIN texts => outbox'[k].st = "pending"
         /\ UNCHANGED <<post, drain, mishaps>> => \A k \in OutboxKeys : FreeRowChanged(k)
<1> DEFINE new == {k \in DOMAIN texts : outbox[k].st = "none"}
           more == Keys!SetToSeq(new)
<1>1. /\ outbox' = [k \in OutboxKeys |-> IF k \in new THEN PendingRow(texts[k]) ELSE outbox[k]]
      /\ queue' = queue \o more
  BY DEF Enqueue
<1>2. new \in SUBSET OutboxKeys /\ IsFiniteSet(new) /\ \A k \in new : texts[k] \in Nat
  <2>1. new \in SUBSET DOMAIN texts
    OBVIOUS
  <2> QED
    BY <2>1, FS_Subset DEF Texts
<1>3. \A k \in new : PendingRow(texts[k]) \in OutboxRow
  BY <1>2 DEF PendingRow, OutboxRow
<1>4. outbox \in [OutboxKeys -> OutboxRow]
  BY DEF DeliveryInv, DeliveryShapes
<1>5. outbox' \in [OutboxKeys -> OutboxRow]
  BY <1>1, <1>3, <1>4
<1>6. QueueGood'
  <2>1. more \in Seq(OutboxKeys) /\ Once(more) /\ \A j \in DOMAIN more : more[j] \in new
    <3> HIDE DEF new
    <3> QED
      BY <1>2, SetToSeqIs
  <2>2. queue \in Seq(OutboxKeys) /\ Once(queue) /\ \A i \in DOMAIN queue : outbox[queue[i]].st # "none"
    BY DEF DeliveryInv, QueueGood
  <2>3. \A i \in DOMAIN queue, j \in DOMAIN more : queue[i] # more[j]
    BY <2>1, <2>2
  <2>4. \A k \in OutboxKeys : outbox[k].st # "none" \/ k \in new => outbox'[k].st # "none"
    BY <1>1 DEF PendingRow
  <2>5. \A i \in DOMAIN queue : queue[i] \in OutboxKeys
    BY <2>2
  <2> HIDE DEF more, new
  <2>6. /\ queue' \in Seq(OutboxKeys) /\ Once(queue')
        /\ \A j \in DOMAIN queue' : \/ \E i \in DOMAIN queue : queue'[j] = queue[i]
                                    \/ \E i \in DOMAIN more : queue'[j] = more[i]
    BY <1>1, <2>1, <2>2, <2>3, OnceAfter
  <2>7. ASSUME NEW j \in DOMAIN queue' PROVE outbox'[queue'[j]].st # "none"
    BY <1>2, <2>1, <2>2, <2>4, <2>5, <2>6
  <2> QED
    BY <2>6, <2>7 DEF QueueGood
<1>7. ASSUME NEW k \in OutboxKeys
      PROVE  /\ k \notin DOMAIN texts => outbox'[k] = outbox[k]
             /\ k \in DOMAIN texts => outbox'[k].st # "none"
             /\ outbox[k].st # "none" => outbox'[k] = outbox[k]
             /\ outbox[k].st = "none" /\ k \in DOMAIN texts => outbox'[k].st = "pending"
  BY <1>1 DEF PendingRow
<1>8. ASSUME NEW k \in OutboxKeys PROVE FreeRowChanged(k)
  <2>1. CASE k \notin new
    BY <1>1, <2>1 DEF FreeRowChanged
  <2>2. CASE k \in new
    <3>1. outbox[k].st = "none"
      BY <2>2
    <3>2. ~RowLocked(k)
      BY <3>1 DEF RowLocked, DeliveryInv, DrainsGood, DrainGood
    <3>3. outbox'[k] = PendingRow(texts[k])
      BY <1>1, <2>2
    <3>4. post.made[k] = 0 /\ mishaps \in Nat
      BY <3>1 DEF DeliveryInv, RowsGood, RowGood, DeliveryShapes
    <3>5. RowGood(k, outbox'[k], post.made[k], mishaps, FALSE)
      BY <3>3, <3>4, DeliveryAssumption DEF RowGood, PendingRow
    <3> QED
      BY <3>2, <3>5 DEF FreeRowChanged
  <2> QED
    BY <2>1, <2>2
<1> QED
  BY <1>5, <1>6, <1>7, <1>8

LEMMA RenderEvent_Inv == DeliveryInv /\ RenderEvent => DeliveryInv'
<1> SUFFICES ASSUME DeliveryInv, RenderEvent PROVE DeliveryInv'
  OBVIOUS
<1> DEFINE key == IF CardPosted THEN Patch(taskSeq + 1) ELSE Card
           texts == [k \in {key} |-> taskSeq + 1]
<1>1. taskSeq \in 0 .. MaxEvents /\ taskSeq < MaxEvents /\ MaxEvents \in Nat /\ taskSeq + 1 \in 1 .. MaxEvents
  BY DeliveryAssumption DEF DeliveryInv, DeliveryShapes, RenderEvent
<1>2. key \in OutboxKeys /\ key # Note
  BY <1>1, KeysAre
<1>3. Texts(texts) /\ DOMAIN texts = {key}
  <2> HIDE DEF key
  <2>1. DOMAIN texts = {key} /\ texts[key] = taskSeq + 1
    OBVIOUS
  <2>2. taskSeq + 1 \in Nat
    BY <1>1
  <2>3. IsFiniteSet({key})
    BY FS_Singleton
  <2> HIDE DEF texts
  <2> QED
    BY <1>2, <2>1, <2>2, <2>3 DEF Texts
<1>4. Enqueue(texts) /\ UNCHANGED <<post, drain, mishaps>>
  BY DEF RenderEvent
<1> HIDE DEF texts, key
<1>5. /\ outbox' \in [OutboxKeys -> OutboxRow] /\ QueueGood' /\ outbox'[Note] = outbox[Note]
      /\ \A k \in OutboxKeys : FreeRowChanged(k)
  BY <1>2, <1>3, <1>4, EnqueueIs, KeysAre
<1>6. DrainsGood' /\ RowsGood'
  BY <1>4, <1>5, FreeRowsChange DEF DeliveryInv
<1>7. DeliveryShapes'
  BY <1>1, <1>5 DEF DeliveryInv, DeliveryShapes, RenderEvent
<1>8. NoticeGood'
  BY <1>5 DEF DeliveryInv, NoticeGood, RenderEvent
<1> QED
  BY <1>5, <1>6, <1>7, <1>8 DEF DeliveryInv

\* A digest takes its item, or one more, and no other row changes.
LEMMA EnqueueDigestIs ==
  ASSUME DeliveryInv, EnqueueDigest, UNCHANGED <<post, drain, mishaps>>
  PROVE  /\ outbox' \in [OutboxKeys -> OutboxRow] /\ QueueGood' /\ outbox'[Note] = outbox[Note]
         /\ \A k \in OutboxKeys : FreeRowChanged(k)
<1>1. CASE outbox[Digest].st = "none"
  <2> DEFINE texts == [k \in {Digest} |-> 1]
  <2>1. Texts(texts) /\ DOMAIN texts = {Digest}
    BY KeysAre, FS_Singleton DEF Texts
  <2>2. Enqueue(texts)
    BY <1>1 DEF EnqueueDigest
  <2> HIDE DEF texts
  <2> QED
    BY <2>1, <2>2, EnqueueIs, KeysAre
<1>2. CASE outbox[Digest].st # "none"
  <2>1. /\ ~RowLocked(Digest) /\ outbox' = [outbox EXCEPT ![Digest].text = @ + 1] /\ queue' = queue
    BY <1>2 DEF EnqueueDigest
  <2>2. outbox \in [OutboxKeys -> OutboxRow] /\ outbox[Digest] \in OutboxRow /\ Digest \in OutboxKeys
    BY KeysAre DEF DeliveryInv, DeliveryShapes
  <2>3. [outbox[Digest] EXCEPT !.text = @ + 1] \in OutboxRow
    BY <2>2 DEF OutboxRow
  <2>4. outbox' = [outbox EXCEPT ![Digest] = [outbox[Digest] EXCEPT !.text = @ + 1]]
    BY <2>1
  <2>5. outbox' \in [OutboxKeys -> OutboxRow]
    BY <2>2, <2>3, <2>4
  <2>6. \A k \in OutboxKeys : outbox'[k].st = outbox[k].st /\ outbox'[k].tries = outbox[k].tries
    BY <2>2, <2>4 DEF OutboxRow
  <2>7. QueueGood'
    BY <2>1, <2>6 DEF DeliveryInv, QueueGood
  <2>8. ASSUME NEW k \in OutboxKeys PROVE FreeRowChanged(k)
    <3>1. CASE k # Digest
      BY <2>2, <2>4, <3>1 DEF FreeRowChanged
    <3>2. CASE k = Digest
      <4>1. ~InDrain(k) /\ RowGood(k, outbox[k], post.made[k], mishaps, InDrain(k))
        BY <2>1, <3>2, UnlockedIsIn DEF DeliveryInv, RowsGood
      <4>2. InDrain(k) = FALSE
        BY <4>1 DEF InDrain
      <4>3. RowGood(k, outbox[k], post.made[k], mishaps, FALSE)
        BY <4>1, <4>2
      <4>4. RowGood(k, outbox'[k], post.made[k], mishaps, FALSE)
        BY <2>6, <4>3 DEF RowGood
      <4> QED
        BY <2>1, <3>2, <4>4 DEF FreeRowChanged
    <3> QED
      BY <3>1, <3>2
  <2> QED
    BY <2>2, <2>4, <2>5, <2>7, <2>8, KeysAre
<1> QED
  BY <1>1, <1>2

LEMMA OnEvent_Inv == DeliveryInv /\ OnEvent => DeliveryInv'
<1> SUFFICES ASSUME DeliveryInv, OnEvent PROVE DeliveryInv'
  OBVIOUS
<1>1. /\ UNCHANGED <<taskSeq, post, delivered, drain, sentEvents, mishaps>>
      /\ PlanNotification
  BY DEF OnEvent
<1>2. CASE UNCHANGED <<outbox, queue, noteStatus>>
  BY <1>1, <1>2 DEF DeliveryInv, DeliveryShapes, QueueGood, DrainsGood, RowsGood, NoticeGood, InDrain
<1>3. ASSUME outbox' \in [OutboxKeys -> OutboxRow], QueueGood', \A k \in OutboxKeys : FreeRowChanged(k)
      PROVE  DeliveryShapes' /\ QueueGood' /\ DrainsGood' /\ RowsGood'
  BY <1>1, <1>3, FreeRowsChange DEF DeliveryInv, DeliveryShapes
<1>4. CASE EnqueueDigest /\ UNCHANGED noteStatus
  <2>1. /\ outbox' \in [OutboxKeys -> OutboxRow] /\ QueueGood' /\ outbox'[Note] = outbox[Note]
        /\ \A k \in OutboxKeys : FreeRowChanged(k)
    BY <1>1, <1>4, EnqueueDigestIs
  <2>2. NoticeGood'
    BY <1>1, <1>4, <2>1 DEF DeliveryInv, NoticeGood
  <2> QED
    BY <1>3, <2>1, <2>2 DEF DeliveryInv
<1>5. CASE /\ Enqueue(WithReminders)
           /\ noteStatus' = IF noteStatus = "none" THEN "queued" ELSE noteStatus
  <2>1. Texts(WithReminders) /\ Note \in DOMAIN WithReminders
    <3>1. DOMAIN WithReminders = {Note, Reminder}
      BY DEF WithReminders
    <3>2. IsFiniteSet({Note, Reminder})
      <4>1. IsFiniteSet({Note})
        BY FS_Singleton
      <4>2. IsFiniteSet({Note} \cup {Reminder})
        BY <4>1, FS_AddElement
      <4>3. {Note, Reminder} = {Note} \cup {Reminder}
        OBVIOUS
      <4> QED
        BY <4>2, <4>3
    <3> QED
      BY <3>1, <3>2, KeysAre DEF Texts, WithReminders
  <2>2. /\ outbox' \in [OutboxKeys -> OutboxRow] /\ QueueGood'
        /\ \A k \in OutboxKeys : FreeRowChanged(k)
        /\ outbox[Note].st # "none" => outbox'[Note] = outbox[Note]
        /\ outbox[Note].st = "none" => outbox'[Note].st = "pending"
    BY <1>1, <1>5, <2>1, EnqueueIs, KeysAre
  <2>3. NoticeGood'
    <3>1. NoticeGood
      BY DEF DeliveryInv
    <3>2. CASE outbox[Note].st = "none"
      BY <1>1, <1>5, <2>2, <3>1, <3>2 DEF NoticeGood
    <3>3. CASE outbox[Note].st # "none"
      BY <1>1, <1>5, <2>2, <3>1, <3>3 DEF NoticeGood
    <3> QED
      BY <3>2, <3>3
  <2> QED
    BY <1>3, <2>2, <2>3 DEF DeliveryInv
<1> QED
  BY <1>1, <1>2, <1>4, <1>5 DEF PlanNotification

LEMMA SetPreferences_Inv == ASSUME NEW p PROVE DeliveryInv /\ SetPreferences(p) => DeliveryInv'
BY DEF SetPreferences, DeliveryInv, DeliveryShapes, QueueGood, DrainsGood, RowsGood, NoticeGood, InDrain

\* One free row changes: a reminder is cancelled, a delay is over.
LEMMA FreeRowChanges ==
  ASSUME DeliveryInv, NEW k \in OutboxKeys, NEW r \in OutboxRow, outbox' = [outbox EXCEPT ![k] = r],
         ~RowLocked(k), outbox[k].st = "pending", r.tries = outbox[k].tries,
         r.st = "pending" \/ (r.st = "dead" /\ k = Reminder),
         UNCHANGED <<queue, taskSeq, post, delivered, drain, sentEvents, noteStatus, mishaps>>
  PROVE  DeliveryInv'
<1>1. outbox \in [OutboxKeys -> OutboxRow]
  BY DEF DeliveryInv, DeliveryShapes
<1>2. outbox' \in [OutboxKeys -> OutboxRow] /\ \A j \in OutboxKeys : outbox'[j] = IF j = k THEN r ELSE outbox[j]
  BY <1>1
<1>3. DeliveryShapes'
  BY <1>2 DEF DeliveryInv, DeliveryShapes
<1>4. QueueGood'
  <2>1. \A j \in OutboxKeys : outbox[j].st # "none" => outbox'[j].st # "none"
    BY <1>2
  <2>2. \A i \in DOMAIN queue : queue[i] \in OutboxKeys
    BY DEF DeliveryInv, QueueGood
  <2> QED
    BY <2>1, <2>2 DEF DeliveryInv, QueueGood
<1>5. ASSUME NEW j \in OutboxKeys PROVE FreeRowChanged(j)
  <2>1. CASE j # k
    BY <1>2, <2>1 DEF FreeRowChanged
  <2>2. CASE j = k
    <3>1. ~InDrain(k) /\ RowGood(k, outbox[k], post.made[k], mishaps, InDrain(k))
      BY UnlockedIsIn DEF DeliveryInv, RowsGood
    <3>2. RowGood(k, r, post.made[k], mishaps, FALSE)
      BY <3>1 DEF RowGood
    <3> QED
      BY <1>2, <2>2, <3>2 DEF FreeRowChanged
  <2> QED
    BY <2>1, <2>2
<1>6. DrainsGood' /\ RowsGood'
  BY <1>5, FreeRowsChange DEF DeliveryInv
<1>7. NoticeGood'
  <2>1. outbox'[Note] = outbox[Note] \/ (k = Note /\ outbox'[Note].st = "pending")
    BY <1>2, KeysAre
  <2> QED
    BY <2>1 DEF DeliveryInv, NoticeGood
<1> QED
  BY <1>3, <1>4, <1>6, <1>7 DEF DeliveryInv

LEMMA CancelPending_Inv == DeliveryInv /\ CancelPending => DeliveryInv'
<1> SUFFICES ASSUME DeliveryInv, CancelPending PROVE DeliveryInv'
  OBVIOUS
<1> DEFINE r == [outbox[Reminder] EXCEPT !.st = "dead"]
<1>1. outbox[Reminder] \in OutboxRow /\ Reminder \in OutboxKeys
  BY KeysAre DEF DeliveryInv, DeliveryShapes
<1>2. r \in OutboxRow /\ r.st = "dead" /\ r.tries = outbox[Reminder].tries
  BY <1>1 DEF OutboxRow
<1>3. /\ outbox' = [outbox EXCEPT ![Reminder] = r] /\ ~RowLocked(Reminder) /\ outbox[Reminder].st = "pending"
      /\ UNCHANGED <<queue, taskSeq, post, delivered, drain, sentEvents, noteStatus, mishaps>>
  BY DEF CancelPending
<1> HIDE DEF r
<1> QED
  BY <1>1, <1>2, <1>3, FreeRowChanges

LEMMA BackoffOver_Inv == ASSUME NEW k \in OutboxKeys PROVE DeliveryInv /\ BackoffOver(k) => DeliveryInv'
<1> SUFFICES ASSUME DeliveryInv, BackoffOver(k) PROVE DeliveryInv'
  OBVIOUS
<1> DEFINE r == [outbox[k] EXCEPT !.due = TRUE]
<1>1. outbox[k] \in OutboxRow
  BY DEF DeliveryInv, DeliveryShapes
<1>2. r \in OutboxRow /\ r.st = outbox[k].st /\ r.tries = outbox[k].tries
  BY <1>1 DEF OutboxRow
<1>3. /\ outbox' = [outbox EXCEPT ![k] = r] /\ outbox[k].st = "pending" /\ ~outbox[k].due
      /\ UNCHANGED <<queue, taskSeq, post, delivered, drain, sentEvents, noteStatus, mishaps>>
  BY DEF BackoffOver
<1>4. ~RowLocked(k)
  BY <1>3 DEF RowLocked, DeliveryInv, DrainsGood, DrainGood
<1> HIDE DEF r
<1> QED
  BY <1>2, <1>3, <1>4, FreeRowChanges

\* The transaction of one drain changes, and the posts with it: only that of a
\* row it alone holds.
LEMMA DrainChanges ==
  ASSUME DrainsGood, NEW d \in Drainers, NEW t, drain' = [drain EXCEPT ![d] = t], UNCHANGED outbox,
         DrainGood(t, outbox, post'.made),
         \A e \in Drainers : e # d => t.held \cap drain[e].held = {},
         \A k \in OutboxKeys : post.made[k] > 0 => post'.made[k] > 0
  PROVE  DrainsGood'
<1>1. ASSUME NEW e \in Drainers PROVE DrainGood(drain'[e], outbox, post'.made)
  <2>1. CASE e = d
    BY <2>1 DEF DrainsGood
  <2>2. CASE e # d
    <3>1. drain'[e] = drain[e] /\ DrainGood(drain[e], outbox, post.made)
      BY <2>2 DEF DrainsGood
    <3>2. \A k \in drain[e].ok : k \in OutboxKeys
      BY <3>1 DEF DrainGood, DrainRow
    <3> QED
      BY <3>1, <3>2 DEF DrainGood
  <2> QED
    BY <2>1, <2>2
<1>2. \A e, f \in Drainers : e # f => drain'[e].held \cap drain'[f].held = {}
  BY DEF DrainsGood
<1>3. DOMAIN drain' = Drainers
  BY DEF DrainsGood
<1> QED
  BY <1>1, <1>2, <1>3 DEF DrainsGood

\* Which rows are answered, when the transaction of one drain changes.
LEMMA AnsweredChanges ==
  ASSUME DrainsGood, NEW d \in Drainers, NEW t, drain' = [drain EXCEPT ![d] = t], NEW k
  PROVE  /\ k \notin Answered(drain[d]) \cup Answered(t) => InDrain(k)' = InDrain(k)
         /\ k \in Answered(t) => InDrain(k)'
         /\ k \in drain[d].held => (InDrain(k) <=> k \in Answered(drain[d]))
         /\ k \in drain[d].held /\ k \notin Answered(t) => ~InDrain(k)'
<1>1. drain'[d] = t /\ \A e \in Drainers : e # d => drain'[e] = drain[e]
  BY DEF DrainsGood
<1>2. ASSUME k \in drain[d].held, NEW e \in Drainers, e # d PROVE k \notin Answered(drain[e])
  BY <1>2 DEF DrainsGood, DrainGood
<1>3. InDrain(k)' = \E e \in Drainers : k \in Answered(drain'[e])
  BY DEF InDrain
<1>4. ASSUME k \notin Answered(drain[d]) \cup Answered(t) PROVE InDrain(k)' = InDrain(k)
  BY <1>1, <1>3, <1>4 DEF InDrain
<1>5. ASSUME k \in Answered(t) PROVE InDrain(k)'
  BY <1>1, <1>3, <1>5
<1>6. ASSUME k \in drain[d].held PROVE InDrain(k) <=> k \in Answered(drain[d])
  BY <1>2, <1>6 DEF InDrain
<1>7. ASSUME k \in drain[d].held, k \notin Answered(t) PROVE ~InDrain(k)'
  BY <1>1, <1>2, <1>3, <1>7
<1> QED
  BY <1>4, <1>5, <1>6, <1>7

LEMMA Claim_Inv == ASSUME NEW d \in Drainers PROVE DeliveryInv /\ Claim(d) => DeliveryInv'
<1> SUFFICES ASSUME DeliveryInv, Claim(d) PROVE DeliveryInv'
  OBVIOUS
<1> DEFINE free == {k \in OutboxKeys : ClaimableRow(k)}
           rows == InOrder(queue, free)
           t == [NoDrain EXCEPT !.op = "open", !.todo = rows, !.held = Keys!ToSet(rows)]
<1>1. /\ drain[d] = NoDrain /\ drain' = [drain EXCEPT ![d] = t]
      /\ UNCHANGED <<outbox, queue, taskSeq, post, delivered, sentEvents, noteStatus, mishaps>>
  BY DEF Claim
<1>2. SomeOf(rows, queue, free)
  <2> HIDE DEF free
  <2> QED
    BY InOrderIs DEF DeliveryInv, QueueGood
<1> HIDE DEF rows
<1>3. /\ t.op = "open" /\ t.todo = rows /\ t.held = {rows[i] : i \in DOMAIN rows}
      /\ t.ok = {} /\ t.failed = {} /\ t.items = 0
  <2>1. Keys!ToSet(rows) = {rows[i] : i \in DOMAIN rows}
    BY DEF Keys!ToSet
  <2> QED
    BY <2>1 DEF NoDrain
<1>4. \A k \in t.held : k \in OutboxKeys /\ ClaimableRow(k)
  BY <1>2, <1>3 DEF SomeOf
<1>5. t \in DrainRow
  <2> DEFINE h == Keys!ToSet(rows)
             Lists == Seq(OutboxKeys)
             Sets == SUBSET OutboxKeys
  <2>1. rows \in Lists /\ h \in Sets /\ {} \in Sets
    BY <1>2, <1>3, <1>4 DEF SomeOf
  <2> HIDE DEF h, Lists, Sets
  <2>2. [NoDrain EXCEPT !.op = "open", !.todo = rows, !.held = h]
          \in [op : {"idle", "open"}, todo : Lists, held : Sets, ok : Sets, failed : Sets, items : Nat]
    BY <2>1 DEF NoDrain
  <2> QED
    BY <2>2 DEF DrainRow, h, Lists, Sets
<1> HIDE DEF t, free
<1>6. DrainGood(t, outbox, post'.made)
  <2>1. Left(t) = t.held /\ Answered(t) = {}
    BY <1>3 DEF Left, Answered
  <2>2. Once(t.todo)
    BY <1>2, <1>3 DEF SomeOf
  <2> QED
    BY <1>3, <1>4, <1>5, <2>1, <2>2 DEF DrainGood, ClaimableRow
<1>7. DrainsGood'
  <2>1. \A e \in Drainers : e # d => t.held \cap drain[e].held = {}
    BY <1>4 DEF ClaimableRow, RowLocked
  <2> QED
    BY <1>1, <1>6, <2>1, DrainChanges DEF DeliveryInv
<1>8. RowsGood'
  <2>1. Answered(drain[d]) = {} /\ Answered(t) = {}
    BY <1>1, <1>3 DEF Answered, NoDrain
  <2>2. \A k \in OutboxKeys : InDrain(k)' = InDrain(k)
    BY <1>1, <2>1, AnsweredChanges DEF DeliveryInv
  <2> QED
    BY <1>1, <2>2 DEF DeliveryInv, RowsGood
<1>9. DeliveryShapes' /\ QueueGood' /\ NoticeGood'
  BY <1>1 DEF DeliveryInv, DeliveryShapes, QueueGood, NoticeGood
<1> QED
  BY <1>7, <1>8, <1>9 DEF DeliveryInv

\* What a row leaves when it is handled.
LEMMA HandledIs ==
  ASSUME DeliveryInv, NEW d \in Drainers, drain[d].op = "open", drain[d].todo # <<>>,
         NEW ok \in SUBSET {Head(drain[d].todo)}, NEW failed \in SUBSET {Head(drain[d].todo)},
         NEW items \in Nat, Handled(d, ok, failed, items), NEW made,
         \A k \in OutboxKeys : post.made[k] > 0 => made[k] > 0,
         \A k \in ok : ChannelKind(k) => made[k] > 0
  PROVE  \E t : /\ drain' = [drain EXCEPT ![d] = t] /\ DrainGood(t, outbox, made)
                /\ t.held = drain[d].held /\ Answered(t) = Answered(drain[d]) \cup ok \cup failed
                /\ Head(drain[d].todo) \in OutboxKeys /\ Head(drain[d].todo) \in t.held
                /\ Head(drain[d].todo) \notin Answered(drain[d])
<1> DEFINE o == drain[d]
           k == Head(o.todo)
           t == [o EXCEPT !.todo = Tail(@), !.ok = @ \cup ok, !.failed = @ \cup failed, !.items = items]
<1>1. DrainGood(o, outbox, post.made)
  BY DEF DeliveryInv, DrainsGood
<1>2. drain' = [drain EXCEPT ![d] = t]
  BY DEF Handled
<1>3. /\ o \in DrainRow /\ Once(o.todo) /\ Left(o) \subseteq o.held /\ Answered(o) \subseteq o.held
      /\ Left(o) \cap Answered(o) = {} /\ \A j \in o.held : outbox[j].st = "pending" /\ outbox[j].due
      /\ \A j \in o.ok : ChannelKind(j) => post.made[j] > 0
  BY <1>1 DEF DrainGood
<1> DEFINE q == o.todo
<1>4. q \in Seq(OutboxKeys) /\ o.held \in SUBSET OutboxKeys /\ o.ok \in SUBSET OutboxKeys /\ o.failed \in SUBSET OutboxKeys
  BY <1>3 DEF DrainRow
<1>5. /\ Len(q) \in Nat /\ Len(q) > 0 /\ 1 \in DOMAIN q /\ k = q[1] /\ Tail(q) \in Seq(OutboxKeys)
      /\ \A i \in DOMAIN Tail(q) : i + 1 \in DOMAIN q /\ Tail(q)[i] = q[i + 1] /\ i \in Nat /\ i + 1 # 1
  BY <1>4
<1>6. k \in OutboxKeys /\ k \in Left(o) /\ k \in o.held /\ k \notin Answered(o)
  BY <1>3, <1>4, <1>5 DEF Left
<1>7. /\ t.op = "open" /\ t.todo = Tail(q) /\ t.held = o.held /\ t.ok = o.ok \cup ok
      /\ t.failed = o.failed \cup failed /\ t.items = items
  BY <1>3 DEF DrainRow
<1>8. t \in DrainRow
  <2> DEFINE Lists == Seq(OutboxKeys)
             Sets == SUBSET OutboxKeys
             rest == Tail(q)
             oks == o.ok \cup ok
             faileds == o.failed \cup failed
             Rows == [op : {"idle", "open"}, todo : Lists, held : Sets, ok : Sets, failed : Sets, items : Nat]
  <2>1. rest \in Lists /\ oks \in Sets /\ faileds \in Sets
    BY <1>4, <1>5, <1>6
  <2>2. o \in Rows
    BY <1>3 DEF DrainRow
  <2>3. t = [o EXCEPT !.todo = rest, !.ok = oks, !.failed = faileds, !.items = items]
    OBVIOUS
  <2> HIDE DEF rest, oks, faileds, Lists, Sets, t, o
  <2>4. t \in Rows
    BY <2>1, <2>2, <2>3
  <2> QED
    BY <2>4 DEF DrainRow, Lists, Sets
<1> HIDE DEF t, k
<1>9. Once(Tail(q)) /\ \A i \in DOMAIN Tail(q) : Tail(q)[i] # k
  <2>1. Once(q)
    BY <1>3
  <2> HIDE DEF q
  <2>2. ASSUME NEW i \in DOMAIN Tail(q), NEW j \in DOMAIN Tail(q), Tail(q)[i] = Tail(q)[j] PROVE i = j
    <3>1. i + 1 = j + 1 /\ i \in Nat /\ j \in Nat
      BY <1>5, <2>1, <2>2 DEF Once
    <3> QED
      BY <3>1
  <2>3. ASSUME NEW i \in DOMAIN Tail(q) PROVE Tail(q)[i] # k
    BY <1>5, <2>1 DEF Once
  <2> QED
    BY <2>2, <2>3 DEF Once
<1>10. Left(t) \subseteq Left(o) /\ k \notin Left(t)
  <2>1. Left(o) = {q[i] : i \in DOMAIN q} /\ Left(t) = {Tail(q)[i] : i \in DOMAIN Tail(q)}
    BY <1>7 DEF Left
  <2> HIDE DEF q
  <2> QED
    BY <1>5, <1>9, <2>1
<1>11. Answered(t) = Answered(o) \cup ok \cup failed
  BY <1>7 DEF Answered
<1>12. ok \subseteq {k} /\ failed \subseteq {k}
  BY DEF k
<1> HIDE DEF o
<1>13. DrainGood(t, outbox, made)
  <2>1. Left(t) \subseteq t.held /\ Answered(t) \subseteq t.held /\ Left(t) \cap Answered(t) = {}
    BY <1>3, <1>6, <1>7, <1>10, <1>11, <1>12
  <2>2. \A j \in t.held : outbox[j].st = "pending" /\ outbox[j].due
    BY <1>3, <1>7
  <2>3. \A j \in t.ok : ChannelKind(j) => made[j] > 0
    BY <1>3, <1>4, <1>7
  <2>4. Once(t.todo) /\ t.op # "idle"
    BY <1>7, <1>9
  <2> QED
    BY <1>8, <2>1, <2>2, <2>3, <2>4 DEF DrainGood
<1> QED
  BY <1>2, <1>6, <1>7, <1>11, <1>13 DEF o, k

\* A handled row is answered or not; what was posted of it fits.
LEMMA RowHandled ==
  ASSUME DeliveryInv, NEW d \in Drainers, NEW t, drain' = [drain EXCEPT ![d] = t],
         NEW k \in OutboxKeys, k \in drain[d].held, k \notin Answered(drain[d]),
         Answered(t) \subseteq Answered(drain[d]) \cup {k}, Answered(drain[d]) \subseteq Answered(t),
         NEW n \in {0, 1}, k \in Answered(t) \/ n = 0,
         post'.made = [post.made EXCEPT ![k] = @ + n], UNCHANGED <<outbox, mishaps>>
  PROVE  RowsGood'
<1> SUFFICES ASSUME NEW j \in OutboxKeys
             PROVE  RowGood(j, outbox'[j], post'.made[j], mishaps', InDrain(j)')
  BY DEF RowsGood
<1>1. /\ RowGood(j, outbox[j], post.made[j], mishaps, InDrain(j))
      /\ post.made \in [OutboxKeys -> Nat] /\ mishaps \in Nat /\ outbox \in [OutboxKeys -> OutboxRow]
      /\ DrainsGood
  BY DEF DeliveryInv, RowsGood, DeliveryShapes
<1>2. CASE j # k
  <2>1. post'.made[j] = post.made[j] /\ outbox'[j] = outbox[j] /\ mishaps' = mishaps
    BY <1>1, <1>2
  <2>2. CASE j \notin Answered(drain[d]) \cup Answered(t)
    <3>1. InDrain(j)' = InDrain(j)
      BY <1>1, <2>2, AnsweredChanges
    <3> QED
      BY <1>1, <2>1, <3>1
  <2>3. CASE j \in Answered(t)
    <3>1. j \in Answered(drain[d])
      BY <1>2, <2>3
    <3>2. InDrain(j)' /\ InDrain(j)
      BY <1>1, <2>3, <3>1, AnsweredChanges DEF InDrain
    <3>3. InDrain(j)' = InDrain(j)
      BY <3>2 DEF InDrain
    <3> QED
      BY <1>1, <2>1, <3>3
  <2> QED
    BY <2>2, <2>3
<1>3. CASE j = k
  <2>1. ~InDrain(k)
    BY <1>1, AnsweredChanges
  <2>2. outbox[k].st = "pending"
    BY <1>1 DEF DrainsGood, DrainGood
  <2>3. outbox[k].tries \in Nat /\ post.made[k] \in Nat /\ post'.made[k] = post.made[k] + n
    BY <1>1 DEF OutboxRow
  <2>4. post.made[k] <= outbox[k].tries + mishaps /\ outbox[k].tries < MaxTries
    BY <1>1, <1>3, <2>1, <2>2, <2>3 DEF RowGood
  <2>5. CASE k \in Answered(t)
    <3>1. InDrain(k)'
      BY <1>1, <2>5, AnsweredChanges
    <3> HIDE DEF InDrain
    <3>2. post'.made[k] <= outbox[k].tries + mishaps + 1
      BY <1>1, <2>3, <2>4
    <3>3. RowGood(k, outbox[k], post'.made[k], mishaps, TRUE)
      BY <2>2, <2>4, <3>2 DEF RowGood
    <3>4. InDrain(k)' = TRUE
      BY <3>1 DEF InDrain
    <3> QED
      BY <1>3, <3>3, <3>4
  <2>6. CASE k \notin Answered(t)
    <3>1. InDrain(k)' = InDrain(k)
      BY <1>1, <2>6, AnsweredChanges
    <3>2. post'.made[k] = post.made[k]
      BY <2>3, <2>6
    <3> QED
      BY <1>1, <1>3, <3>1, <3>2
  <2> QED
    BY <2>5, <2>6
<1> QED
  BY <1>2, <1>3

LEMMA Offer_Inv ==
  ASSUME DeliveryInv, NEW d \in Drainers, NEW answer \in {"ok", "refused", "lost"}, NEW silent \in BOOLEAN,
         drain[d].todo # <<>>, Offer(d, Head(drain[d].todo), answer, silent),
         ChannelKind(Head(drain[d].todo)) => ~silent
  PROVE  DeliveryInv'
<1> DEFINE k == Head(drain[d].todo)
           known == k \in delivered[d]
           acts == answer # "refused" /\ ~known /\ ~silent
           ok == IF answer = "ok" THEN {k} ELSE {}
           failed == IF answer = "ok" THEN {} ELSE {k}
           items == IF k = Digest /\ answer = "ok" THEN outbox[k].text ELSE drain[d].items
           n == IF acts THEN 1 ELSE 0
<1>1. /\ drain[d].op = "open" /\ Handled(d, ok, failed, items)
      /\ UNCHANGED <<outbox, queue, taskSeq, sentEvents, noteStatus, mishaps>>
  BY DEF Offer
<1>2. DrainGood(drain[d], outbox, post.made) /\ drain[d] \in DrainRow
  BY DEF DeliveryInv, DrainsGood, DrainGood
<1>3. k \in OutboxKeys /\ k \in Left(drain[d])
  <2> DEFINE q == drain[d].todo
  <2>1. q \in Seq(OutboxKeys)
    BY <1>2 DEF DrainRow
  <2>2. 1 \in DOMAIN q /\ k = q[1] /\ q[1] \in OutboxKeys
    BY <2>1
  <2> QED
    BY <2>2 DEF Left
<1>4. items \in Nat
  BY <1>2, <1>3 DEF DrainRow, DeliveryInv, DeliveryShapes, OutboxRow
<1>5. /\ post \in [shown : Nat, made : [OutboxKeys -> Nat]] /\ outbox[k].text \in Nat
      /\ delivered \in [Drainers -> SUBSET OutboxKeys] /\ \A e \in Drainers : \A j \in delivered[e] : post.made[j] > 0
  BY <1>3 DEF DeliveryInv, DeliveryShapes, OutboxRow
<1>6. post' = IF ~acts THEN post
              ELSE [shown |-> IF ChannelKind(k) THEN outbox[k].text ELSE post.shown,
                    made |-> [post.made EXCEPT ![k] = @ + 1]]
  BY DEF Offer
<1>7. delivered' = IF answer = "ok" /\ acts THEN [delivered EXCEPT ![d] = @ \cup {k}] ELSE delivered
  BY DEF Offer
<1> HIDE DEF k
<1>8. /\ post' \in [shown : Nat, made : [OutboxKeys -> Nat]]
      /\ post'.made = [post.made EXCEPT ![k] = @ + n]
  <2>1. CASE ~acts
    <3>1. post' = post /\ n = 0
      BY <1>6, <2>1
    <3>2. post.made = [post.made EXCEPT ![k] = @ + 0]
      BY <1>5
    <3> QED
      BY <1>5, <3>1, <3>2
  <2>2. CASE acts
    <3>1. /\ post' = [shown |-> IF ChannelKind(k) THEN outbox[k].text ELSE post.shown,
                      made |-> [post.made EXCEPT ![k] = @ + 1]] /\ n = 1
      BY <1>6, <2>2
    <3> HIDE DEF acts, n
    <3> QED
      BY <1>3, <1>5, <3>1
  <2> QED
    BY <2>1, <2>2
<1>9. \A j \in OutboxKeys : (post.made[j] > 0 => post'.made[j] > 0)
  BY <1>3, <1>5, <1>8
<1>10. answer = "ok" /\ (known \/ acts) => post'.made[k] > 0
  <2>1. CASE known
    BY <1>3, <1>5, <1>9, <2>1
  <2>2. CASE acts
    BY <1>3, <1>5, <1>8, <2>2
  <2> QED
    BY <2>1, <2>2
<1>11. \A j \in ok : ChannelKind(j) => post'.made[j] > 0
  BY <1>10 DEF k
<1>12. ok \in SUBSET {k} /\ failed \in SUBSET {k} /\ ok \cup failed = {k}
  OBVIOUS
<1>13. PICK t : /\ drain' = [drain EXCEPT ![d] = t] /\ DrainGood(t, outbox, post'.made)
                /\ t.held = drain[d].held /\ Answered(t) = Answered(drain[d]) \cup ok \cup failed
                /\ k \in t.held /\ k \notin Answered(drain[d])
  <2> DEFINE made == post'.made
  <2>1. \A j \in OutboxKeys : post.made[j] > 0 => made[j] > 0
    BY <1>9
  <2>2. \A j \in ok : ChannelKind(j) => made[j] > 0
    BY <1>11
  <2> HIDE DEF made, ok, failed, items
  <2>3. k = Head(drain[d].todo)
    BY DEF k
  <2>4. \E t : /\ drain' = [drain EXCEPT ![d] = t] /\ DrainGood(t, outbox, made)
               /\ t.held = drain[d].held /\ Answered(t) = Answered(drain[d]) \cup ok \cup failed
               /\ k \in t.held /\ k \notin Answered(drain[d])
    BY <1>1, <1>4, <1>12, <2>1, <2>2, <2>3, HandledIs
  <2> QED
    BY <2>4 DEF made
<1> HIDE DEF ok, failed, items
<1>14. DrainsGood'
  <2>1. \A e \in Drainers : e # d => t.held \cap drain[e].held = {}
    BY <1>13 DEF DeliveryInv, DrainsGood
  <2> QED
    BY <1>1, <1>9, <1>13, <2>1, DrainChanges DEF DeliveryInv
<1>15. RowsGood'
  <2>1. /\ Answered(t) \subseteq Answered(drain[d]) \cup {k} /\ Answered(drain[d]) \subseteq Answered(t)
        /\ k \in Answered(t)
    BY <1>12, <1>13
  <2>2. n \in {0, 1}
    OBVIOUS
  <2> HIDE DEF n
  <2> QED
    BY <1>1, <1>3, <1>8, <1>13, <2>1, <2>2, RowHandled
<1>16. DeliveryShapes'
  <2>1. ASSUME NEW e \in Drainers PROVE delivered'[e] \subseteq OutboxKeys /\ \A j \in delivered'[e] : post'.made[j] > 0
    <3>1. CASE delivered'[e] = delivered[e]
      BY <1>5, <1>9, <3>1
    <3>2. CASE delivered'[e] # delivered[e]
      <4>1. answer = "ok" /\ acts /\ e = d /\ delivered'[e] = delivered[e] \cup {k}
        BY <1>5, <1>7, <3>2
      <4> QED
        BY <1>3, <1>5, <1>9, <1>10, <4>1
    <3> QED
      BY <3>1, <3>2
  <2>2. delivered' \in [Drainers -> SUBSET OutboxKeys]
    <3>1. DOMAIN delivered' = Drainers /\ delivered' = [e \in Drainers |-> delivered'[e]]
      BY <1>5, <1>7
    <3> QED
      BY <2>1, <3>1
  <2> QED
    BY <1>1, <1>8, <2>1, <2>2 DEF DeliveryInv, DeliveryShapes
<1>17. QueueGood' /\ NoticeGood'
  BY <1>1 DEF DeliveryInv, QueueGood, NoticeGood
<1> QED
  BY <1>14, <1>15, <1>16, <1>17 DEF DeliveryInv

LEMMA DeliverCard_Inv ==
  ASSUME NEW d \in Drainers, NEW answer \in {"ok", "refused", "lost"}
  PROVE  DeliveryInv /\ DeliverCard(d, answer) => DeliveryInv'
BY Offer_Inv DEF DeliverCard

LEMMA SendNotification_Inv ==
  ASSUME NEW d \in Drainers, NEW answer \in {"ok", "refused", "lost"}
  PROVE  DeliveryInv /\ SendNotification(d, answer) => DeliveryInv'
<1> SUFFICES ASSUME DeliveryInv, SendNotification(d, answer) PROVE DeliveryInv'
  OBVIOUS
<1> DEFINE silent == pref = "muted"
<1>1. /\ drain[d].todo # <<>> /\ ~ChannelKind(Head(drain[d].todo)) /\ silent \in BOOLEAN
      /\ Offer(d, Head(drain[d].todo), answer, silent)
  BY DEF SendNotification
<1> HIDE DEF silent
<1> QED
  BY <1>1, Offer_Inv

LEMMA SkipKind_Inv == ASSUME NEW d \in Drainers PROVE DeliveryInv /\ SkipKind(d) => DeliveryInv'
<1> SUFFICES ASSUME DeliveryInv, SkipKind(d) PROVE DeliveryInv'
  OBVIOUS
<1> DEFINE k == Head(drain[d].todo)
<1>1. /\ drain[d].op = "open" /\ drain[d].todo # <<>> /\ Handled(d, {}, {}, drain[d].items)
      /\ UNCHANGED <<outbox, queue, taskSeq, post, delivered, sentEvents, noteStatus, mishaps>>
  BY DEF SkipKind
<1>2. drain[d].items \in Nat
  BY DEF DeliveryInv, DrainsGood, DrainGood, DrainRow
<1>3. PICK t : /\ drain' = [drain EXCEPT ![d] = t] /\ DrainGood(t, outbox, post.made)
               /\ t.held = drain[d].held /\ Answered(t) = Answered(drain[d])
               /\ k \in OutboxKeys /\ k \in t.held /\ k \notin Answered(drain[d])
  <2> DEFINE none == {}
             made == post.made
  <2>1. none \in SUBSET {k} /\ Handled(d, none, none, drain[d].items)
        /\ \A j \in none : ChannelKind(j) => made[j] > 0
    BY <1>1
  <2>2. \A j \in OutboxKeys : post.made[j] > 0 => made[j] > 0
    OBVIOUS
  <2> HIDE DEF none, made
  <2>3. \E t : /\ drain' = [drain EXCEPT ![d] = t] /\ DrainGood(t, outbox, made)
               /\ t.held = drain[d].held /\ Answered(t) = Answered(drain[d]) \cup none \cup none
               /\ k \in OutboxKeys /\ k \in t.held /\ k \notin Answered(drain[d])
    BY <1>1, <1>2, <2>1, <2>2, HandledIs
  <2> QED
    BY <2>3 DEF none, made
<1> HIDE DEF k
<1>4. DrainsGood'
  <2>1. \A e \in Drainers : e # d => t.held \cap drain[e].held = {}
    BY <1>3 DEF DeliveryInv, DrainsGood
  <2> QED
    BY <1>1, <1>3, <2>1, DrainChanges DEF DeliveryInv
<1>5. RowsGood'
  <2>1. post'.made = [post.made EXCEPT ![k] = @ + 0]
    BY <1>1, <1>3 DEF DeliveryInv, DeliveryShapes
  <2> QED
    BY <1>1, <1>3, <2>1, RowHandled
<1>6. DeliveryShapes' /\ QueueGood' /\ NoticeGood'
  BY <1>1 DEF DeliveryInv, DeliveryShapes, QueueGood, NoticeGood
<1> QED
  BY <1>4, <1>5, <1>6 DEF DeliveryInv

\* A row that is answered is one try further.
LEMMA OneTryMore ==
  ASSUME NEW r \in OutboxRow
  PROVE  /\ \A st \in {"sent", "dead"} :
              LET c == [r EXCEPT !.st = st, !.tries = @ + 1]
              IN  c \in OutboxRow /\ c.st = st /\ c.tries = r.tries + 1
         /\ LET c == [r EXCEPT !.tries = @ + 1, !.due = FALSE]
            IN  c \in OutboxRow /\ c.st = r.st /\ c.tries = r.tries + 1
<1> DEFINE n == r.tries + 1
           States == {"none", "pending", "sent", "dead"}
           Numbers == Nat
           Rows == [st : States, tries : Numbers, text : Numbers, due : BOOLEAN]
<1>1. r \in Rows /\ n \in Numbers
  BY DEF OutboxRow
<1>2. "sent" \in States /\ "dead" \in States /\ FALSE \in BOOLEAN
  OBVIOUS
<1> HIDE DEF n, States, Numbers
<1>3. ASSUME NEW st \in States
      PROVE  LET c == [r EXCEPT !.st = st, !.tries = n] IN c \in Rows /\ c.st = st /\ c.tries = n
  BY <1>1
<1>4. LET c == [r EXCEPT !.tries = n, !.due = FALSE] IN c \in Rows /\ c.st = r.st /\ c.tries = n
  BY <1>1
<1> QED
  BY <1>2, <1>3, <1>4 DEF OutboxRow, n, Numbers, States

\* The commit: an answered row is sent, waits again or is dead.
LEMMA CommitDrain_Inv == ASSUME NEW d \in Drainers PROVE DeliveryInv /\ CommitDrain(d) => DeliveryInv'
<1> SUFFICES ASSUME DeliveryInv, CommitDrain(d) PROVE DeliveryInv'
  OBVIOUS
<1> DEFINE t == drain[d]
           Sent(k) == [outbox[k] EXCEPT !.st = "sent", !.tries = @ + 1]
<1>1. /\ outbox' = [k \in OutboxKeys |-> IF k \in t.ok THEN Sent(k)
                                         ELSE IF k \in t.failed THEN Retried(outbox[k]) ELSE outbox[k]]
      /\ queue' = InOrder(queue, OutboxKeys \ (t.ok \cup t.failed)) \o InOrder(queue, t.failed)
      /\ noteStatus' = IF Note \in t.ok /\ noteStatus = "queued" THEN "sent" ELSE noteStatus
      /\ sentEvents' = IF Note \in t.ok THEN sentEvents + 1 ELSE sentEvents
      /\ drain' = [drain EXCEPT ![d] = NoDrain]
      /\ UNCHANGED <<taskSeq, post, delivered, mishaps>>
  BY DEF CommitDrain
<1>2. /\ DrainGood(t, outbox, post.made) /\ t \in DrainRow /\ Answered(t) = t.ok \cup t.failed
      /\ t.ok \subseteq OutboxKeys /\ t.failed \subseteq OutboxKeys /\ Answered(t) \subseteq t.held
      /\ \A k \in t.held : outbox[k].st = "pending"
      /\ \A k \in t.ok : ChannelKind(k) => post.made[k] > 0
  BY DEF DeliveryInv, DrainsGood, DrainGood, DrainRow, Answered
<1> HIDE DEF t
<1>3. /\ outbox \in [OutboxKeys -> OutboxRow] /\ post.made \in [OutboxKeys -> Nat] /\ mishaps \in Nat
      /\ MaxTries \in Nat
  BY DeliveryAssumption DEF DeliveryInv, DeliveryShapes
<1>4. \A k \in OutboxKeys : /\ Sent(k) \in OutboxRow /\ Sent(k).st = "sent" /\ Sent(k).tries = outbox[k].tries + 1
  BY <1>3, OneTryMore
<1>5. ASSUME NEW k \in OutboxKeys, outbox[k].st = "pending"
      PROVE  /\ Retried(outbox[k]) \in OutboxRow /\ Retried(outbox[k]).tries = outbox[k].tries + 1
             /\ Retried(outbox[k]).st = IF outbox[k].tries + 1 >= MaxTries THEN "dead" ELSE "pending"
  <2> DEFINE r == outbox[k]
  <2>1. r \in OutboxRow /\ r.st = "pending"
    BY <1>3, <1>5
  <2> HIDE DEF r
  <2>2. CASE r.tries + 1 >= MaxTries
    <3>1. Retried(r) = [r EXCEPT !.st = "dead", !.tries = @ + 1]
      BY <2>2 DEF Retried
    <3> QED
      BY <2>1, <2>2, <3>1, OneTryMore DEF r
  <2>3. CASE ~(r.tries + 1 >= MaxTries)
    <3>1. Retried(r) = [r EXCEPT !.tries = @ + 1, !.due = FALSE]
      BY <2>3 DEF Retried
    <3> QED
      BY <2>1, <2>3, <3>1, OneTryMore DEF r
  <2> QED
    BY <2>2, <2>3
<1> HIDE DEF Sent
<1>6. ASSUME NEW k \in OutboxKeys
      PROVE  /\ outbox'[k] \in OutboxRow
             /\ k \in t.ok => outbox'[k].st = "sent" /\ outbox'[k].tries = outbox[k].tries + 1
             /\ k \in t.failed /\ k \notin t.ok =>
                  /\ outbox'[k].tries = outbox[k].tries + 1
                  /\ outbox'[k].st = IF outbox[k].tries + 1 >= MaxTries THEN "dead" ELSE "pending"
             /\ k \notin Answered(t) => outbox'[k] = outbox[k]
  <2>1. CASE k \in t.ok
    BY <1>1, <1>2, <1>4, <2>1
  <2>2. CASE k \in t.failed /\ k \notin t.ok
    <3>1. outbox'[k] = Retried(outbox[k]) /\ outbox[k].st = "pending"
      BY <1>1, <1>2, <2>2
    <3> QED
      BY <1>2, <1>5, <2>2, <3>1
  <2>3. CASE k \notin Answered(t)
    BY <1>1, <1>2, <1>3, <2>3
  <2> QED
    BY <1>2, <2>1, <2>2, <2>3
<1>7. outbox' \in [OutboxKeys -> OutboxRow]
  <2>1. DOMAIN outbox' = OutboxKeys /\ outbox' = [k \in OutboxKeys |-> outbox'[k]]
    BY <1>1
  <2> QED
    BY <1>6, <2>1
<1>8. DeliveryShapes'
  BY <1>1, <1>7 DEF DeliveryInv, DeliveryShapes
<1>9. QueueGood'
  <2> DEFINE others == OutboxKeys \ (t.ok \cup t.failed)
             p == InOrder(queue, others)
             q == InOrder(queue, t.failed)
  <2>1. queue \in Seq(OutboxKeys) /\ Once(queue) /\ \A i \in DOMAIN queue : outbox[queue[i]].st # "none"
    BY DEF DeliveryInv, QueueGood
  <2>2. SomeOf(p, queue, others) /\ SomeOf(q, queue, t.failed)
    <3> HIDE DEF others
    <3> QED
      BY <2>1, InOrderIs
  <2> HIDE DEF p, q
  <2>3. queue' = p \o q
    BY <1>1 DEF p, q
  <2>4. \A i \in DOMAIN p, j \in DOMAIN q : p[i] # q[j]
    BY <2>2 DEF SomeOf
  <2>5. /\ queue' \in Seq(OutboxKeys) /\ Once(queue')
        /\ \A j \in DOMAIN queue' : \/ \E i \in DOMAIN p : queue'[j] = p[i]
                                    \/ \E i \in DOMAIN q : queue'[j] = q[i]
    BY <2>2, <2>3, <2>4, OnceAfter DEF SomeOf
  <2>6. ASSUME NEW j \in DOMAIN queue' PROVE outbox'[queue'[j]].st # "none"
    <3>1. PICK l \in DOMAIN queue : queue[l] = queue'[j]
      BY <2>2, <2>5 DEF SomeOf
    <3>2. queue[l] \in OutboxKeys /\ outbox[queue[l]].st # "none"
      BY <2>1
    <3> HIDE DEF others
    <3>3. outbox'[queue[l]].st # "none"
      BY <1>2, <1>6, <3>2
    <3> QED
      BY <3>1, <3>3
  <2> QED
    BY <2>5, <2>6 DEF QueueGood
<1>10. DrainsGood'
  <2>1. ASSUME NEW e \in Drainers PROVE DrainGood(drain'[e], outbox', post'.made)
    <3>1. CASE e = d
      <4>1. drain'[e] = NoDrain
        BY <1>1, <3>1 DEF DeliveryInv, DrainsGood
      <4>2. DrainGood(NoDrain, outbox', post'.made)
        BY DEF DrainGood, NoDrain, DrainRow, Once, Left, Answered
      <4> QED
        BY <4>1, <4>2
    <3>2. CASE e # d
      <4>1. drain'[e] = drain[e] /\ DrainGood(drain[e], outbox, post.made) /\ drain[e].held \cap t.held = {}
        BY <1>1, <3>2 DEF DeliveryInv, DrainsGood, t
      <4>2. \A k \in drain[e].held : k \in OutboxKeys
        BY <4>1 DEF DrainGood, DrainRow
      <4>3. \A k \in drain[e].held : outbox'[k] = outbox[k]
        BY <1>2, <1>6, <4>1, <4>2
      <4> QED
        BY <1>1, <4>1, <4>3 DEF DrainGood
    <3> QED
      BY <3>1, <3>2
  <2>2. \A e, f \in Drainers : e # f => drain'[e].held \cap drain'[f].held = {}
    BY <1>1 DEF DeliveryInv, DrainsGood, NoDrain
  <2> QED
    BY <1>1, <2>1, <2>2 DEF DeliveryInv, DrainsGood
<1>11. RowsGood'
  <2> SUFFICES ASSUME NEW k \in OutboxKeys
               PROVE  RowGood(k, outbox'[k], post'.made[k], mishaps', InDrain(k)')
    BY DEF RowsGood
  <2>1. /\ RowGood(k, outbox[k], post.made[k], mishaps, InDrain(k)) /\ post'.made[k] = post.made[k]
        /\ mishaps' = mishaps /\ post.made[k] \in Nat /\ outbox[k].tries \in Nat /\ DrainsGood
    BY <1>1, <1>3 DEF DeliveryInv, RowsGood, OutboxRow
  <2>2. Answered(NoDrain) = {}
    BY DEF Answered, NoDrain
  <2>3. CASE k \notin Answered(t)
    <3>1. InDrain(k)' = InDrain(k)
      BY <1>1, <2>1, <2>2, <2>3, AnsweredChanges DEF t
    <3>2. outbox'[k] = outbox[k]
      BY <1>6, <2>3
    <3> QED
      BY <2>1, <3>1, <3>2
  <2>4. CASE k \in Answered(t)
    <3>1. k \in t.held /\ outbox[k].st = "pending" /\ (k \in t.ok \/ (k \in t.failed /\ k \notin t.ok))
      BY <1>2, <2>4
    <3>2. ~InDrain(k)'
      BY <1>1, <2>1, <2>2, <3>1, AnsweredChanges DEF t
    <3>3. InDrain(k)' = FALSE
      BY <3>2 DEF InDrain
    <3>4. post.made[k] <= outbox[k].tries + mishaps + 1 /\ outbox[k].tries < MaxTries
      <4>1. RowGood(k, outbox[k], post.made[k], mishaps, TRUE) \/ RowGood(k, outbox[k], post.made[k], mishaps, FALSE)
        BY <2>1 DEF InDrain
      <4> QED
        BY <1>3, <2>1, <3>1, <4>1 DEF RowGood
    <3>5. outbox'[k].tries = outbox[k].tries + 1
      BY <1>6, <3>1
    <3>6. post.made[k] <= outbox'[k].tries + mishaps + 0
      BY <1>3, <2>1, <3>4, <3>5
    <3>7. RowGood(k, outbox'[k], post.made[k], mishaps, FALSE)
      <4>1. CASE k \in t.ok
        BY <1>2, <1>6, <3>6, <4>1 DEF RowGood
      <4>2. CASE k \in t.failed /\ k \notin t.ok
        <5>1. outbox'[k].st = IF outbox[k].tries + 1 >= MaxTries THEN "dead" ELSE "pending"
          BY <1>6, <4>2
        <5>2. CASE outbox[k].tries + 1 >= MaxTries
          <6>1. outbox'[k].st = "dead" /\ outbox'[k].tries = MaxTries
            BY <1>3, <2>1, <3>4, <3>5, <5>1, <5>2
          <6> QED
            BY <3>6, <6>1 DEF RowGood
        <5>3. CASE ~(outbox[k].tries + 1 >= MaxTries)
          <6>1. outbox'[k].st = "pending" /\ outbox'[k].tries < MaxTries
            BY <1>3, <2>1, <3>5, <5>1, <5>3
          <6> QED
            BY <3>6, <6>1 DEF RowGood
        <5> QED
          BY <5>2, <5>3
      <4> QED
        BY <3>1, <4>1, <4>2
    <3> QED
      BY <2>1, <3>3, <3>7
  <2> QED
    BY <2>3, <2>4
<1>12. NoticeGood'
  <2>1. NoticeGood /\ Note \in OutboxKeys
    BY KeysAre DEF DeliveryInv
  <2>2. CASE Note \in t.ok
    <3>1. outbox[Note].st = "pending" /\ outbox'[Note].st = "sent"
      BY <1>2, <1>6, <2>1, <2>2
    <3> QED
      BY <1>1, <2>1, <2>2, <3>1 DEF NoticeGood
  <2>3. CASE Note \in t.failed /\ Note \notin t.ok
    <3>1. outbox[Note].st = "pending" /\ outbox'[Note].st \in {"dead", "pending"}
      BY <1>2, <1>6, <2>1, <2>3
    <3> QED
      BY <1>1, <2>1, <2>3, <3>1 DEF NoticeGood
  <2>4. CASE Note \notin Answered(t)
    <3>1. outbox'[Note] = outbox[Note]
      BY <1>6, <2>1, <2>4
    <3> QED
      BY <1>1, <1>2, <2>1, <2>4, <3>1 DEF NoticeGood
  <2> QED
    BY <1>2, <2>2, <2>3, <2>4
<1> QED
  BY <1>8, <1>9, <1>10, <1>11, <1>12 DEF DeliveryInv

LEMMA CrashDrain_Inv == ASSUME NEW d \in Drainers PROVE DeliveryInv /\ CrashDrain(d) => DeliveryInv'
<1> SUFFICES ASSUME DeliveryInv, CrashDrain(d) PROVE DeliveryInv'
  OBVIOUS
<1>1. /\ mishaps' = mishaps + 1 /\ drain' = [drain EXCEPT ![d] = NoDrain]
      /\ delivered' = [delivered EXCEPT ![d] = {}]
      /\ UNCHANGED <<outbox, queue, taskSeq, post, sentEvents, noteStatus>>
  BY DEF CrashDrain
<1>2. DeliveryShapes /\ mishaps \in Nat /\ post.made \in [OutboxKeys -> Nat] /\ outbox \in [OutboxKeys -> OutboxRow]
  BY DEF DeliveryInv, DeliveryShapes
<1>3. DeliveryShapes'
  BY <1>1, <1>2 DEF DeliveryShapes
<1>4. DrainsGood'
  <2>1. DrainGood(NoDrain, outbox, post'.made) /\ NoDrain.held = {}
    BY DEF DrainGood, NoDrain, DrainRow, Once, Left, Answered
  <2> QED
    BY <1>1, <2>1, DrainChanges DEF DeliveryInv
<1>5. RowsGood'
  <2> SUFFICES ASSUME NEW k \in OutboxKeys
               PROVE  RowGood(k, outbox'[k], post'.made[k], mishaps', InDrain(k)')
    BY DEF RowsGood
  <2>1. /\ RowGood(k, outbox[k], post.made[k], mishaps, InDrain(k))
        /\ post.made[k] \in Nat /\ outbox[k].tries \in Nat
    BY <1>2 DEF DeliveryInv, RowsGood, OutboxRow
  <2>2. RowGood(k, outbox[k], post.made[k], mishaps + 1, FALSE) /\ RowGood(k, outbox[k], post.made[k], mishaps + 1, TRUE)
    <3>1. RowGood(k, outbox[k], post.made[k], mishaps, TRUE) \/ RowGood(k, outbox[k], post.made[k], mishaps, FALSE)
      BY <2>1 DEF InDrain
    <3>2. post.made[k] <= outbox[k].tries + mishaps + 1
      BY <1>2, <2>1, <3>1 DEF RowGood
    <3> QED
      BY <1>2, <2>1, <3>1, <3>2 DEF RowGood
  <2>3. InDrain(k)' \in BOOLEAN
    BY DEF InDrain
  <2> HIDE DEF InDrain
  <2>4. CASE InDrain(k)' = TRUE
    BY <1>1, <2>2, <2>4
  <2>5. CASE InDrain(k)' = FALSE
    BY <1>1, <2>2, <2>5
  <2> QED
    BY <2>3, <2>4, <2>5
<1>6. QueueGood' /\ NoticeGood'
  BY <1>1 DEF DeliveryInv, QueueGood, NoticeGood
<1> QED
  BY <1>3, <1>4, <1>5, <1>6 DEF DeliveryInv

LEMMA DeliveryInv_SentOnce == DeliveryInv => SentOnce
<1> SUFFICES ASSUME DeliveryInv PROVE SentOnce
  OBVIOUS
<1>1. ASSUME NEW k \in OutboxKeys
      PROVE  /\ ChannelKind(k) /\ outbox[k].st = "sent" => post.made[k] > 0
             /\ post.made[k] <= outbox[k].tries + mishaps + IF RowLocked(k) THEN 1 ELSE 0
             /\ outbox[k].st = "dead" => outbox[k].tries = MaxTries \/ k = Reminder
  <2>1. /\ RowGood(k, outbox[k], post.made[k], mishaps, InDrain(k))
        /\ post.made[k] \in Nat /\ outbox[k].tries \in Nat /\ mishaps \in Nat
    BY DEF DeliveryInv, RowsGood, DeliveryShapes, OutboxRow
  <2>2. InDrain(k) => RowLocked(k)
    BY UnlockedIsIn DEF DeliveryInv
  <2>3. post.made[k] <= outbox[k].tries + mishaps + IF RowLocked(k) THEN 1 ELSE 0
    <3>1. CASE RowLocked(k)
      <4>1. post.made[k] <= outbox[k].tries + mishaps + 1
        BY <2>1 DEF RowGood
      <4> QED
        BY <3>1, <4>1
    <3>2. CASE ~RowLocked(k)
      <4>1. post.made[k] <= outbox[k].tries + mishaps + 0
        BY <2>1, <2>2, <3>2 DEF RowGood
      <4> QED
        BY <3>2, <4>1
    <3> QED
      BY <3>1, <3>2
  <2> QED
    BY <2>1, <2>3 DEF RowGood
<1>2. NoticeGood
  BY DEF DeliveryInv
<1> QED
  BY <1>1, <1>2 DEF SentOnce, NoticeGood

LEMMA DeliveryNext_Inv == DeliveryInv /\ [DeliveryNext]_deliveryVars => DeliveryInv'
<1> SUFFICES ASSUME DeliveryInv, [DeliveryNext]_deliveryVars PROVE DeliveryInv'
  OBVIOUS
<1>1. CASE RenderEvent
  BY <1>1, RenderEvent_Inv
<1>2. CASE OnEvent
  BY <1>2, OnEvent_Inv
<1>3. CASE CancelPending
  BY <1>3, CancelPending_Inv
<1>4. CASE \E p \in {"plain", "digest", "muted"} : SetPreferences(p)
  BY <1>4, SetPreferences_Inv
<1>5. CASE \E k \in OutboxKeys : BackoffOver(k)
  BY <1>5, BackoffOver_Inv
<1>6. ASSUME NEW d \in Drainers, Claim(d) PROVE DeliveryInv'
  BY <1>6, Claim_Inv
<1>7. ASSUME NEW d \in Drainers, SkipKind(d) PROVE DeliveryInv'
  BY <1>7, SkipKind_Inv
<1>8. ASSUME NEW d \in Drainers, CommitDrain(d) PROVE DeliveryInv'
  BY <1>8, CommitDrain_Inv
<1>9. ASSUME NEW d \in Drainers, CrashDrain(d) PROVE DeliveryInv'
  BY <1>9, CrashDrain_Inv
<1>10. ASSUME NEW d \in Drainers, NEW answer \in {"ok", "refused", "lost"},
              DeliverCard(d, answer) \/ SendNotification(d, answer)
       PROVE  DeliveryInv'
  BY <1>10, DeliverCard_Inv, SendNotification_Inv
<1>11. CASE UNCHANGED deliveryVars
  BY <1>11 DEF deliveryVars, DeliveryInv, DeliveryShapes, QueueGood, DrainsGood, RowsGood, NoticeGood, InDrain
<1> QED
  BY <1>1, <1>2, <1>3, <1>4, <1>5, <1>6, <1>7, <1>8, <1>9, <1>10, <1>11 DEF DeliveryNext

\* Through competing drains, failing providers and crashes a row counts as sent
\* only when it was posted, is posted at most as often as it was tried and a
\* process crashed, gives up after max_attempts, and a notification is sent
\* with exactly one Event (enqueue_delivery, drain, drain_channels, deliver).
THEOREM DeliverySentOnce == DeliverySpec => []SentOnce
<1>1. DeliverySpec => []DeliveryInv
  BY DeliveryInit_Inv, DeliveryNext_Inv, PTL DEF DeliverySpec
<1> QED
  BY <1>1, DeliveryInv_SentOnce, PTL

\* What the card shows is a state the Task has been in: every row of the card
\* renders one of its Events, and so does the post.
CardText(k, r) == ChannelKind(k) => r.text \in 0 .. MaxEvents
ShownInv ==
  /\ pref \in {"plain", "digest", "muted"} /\ post.shown \in 0 .. MaxEvents
  /\ \A k \in OutboxKeys : CardText(k, outbox[k])

LEMMA EnqueueShown ==
  ASSUME ShownInv, NEW texts, Enqueue(texts),
         \A k \in DOMAIN texts : ChannelKind(k) => texts[k] \in 0 .. MaxEvents
  PROVE  \A k \in OutboxKeys : CardText(k, outbox'[k])
<1> SUFFICES ASSUME NEW k \in OutboxKeys PROVE CardText(k, outbox'[k])
  OBVIOUS
<1>1. /\ outbox'[k] = outbox[k] \/ (outbox'[k] = PendingRow(texts[k]) /\ k \in DOMAIN texts)
      /\ CardText(k, outbox[k])
  BY DEF Enqueue, ShownInv
<1>2. PendingRow(texts[k]).text = texts[k]
  BY DEF PendingRow
<1> QED
  BY <1>1, <1>2 DEF CardText

\* A row that changes keeps its text, unless it is the digest's.
LEMMA TextKept ==
  ASSUME ShownInv, NEW x \in OutboxKeys, NEW r, outbox' = [outbox EXCEPT ![x] = r],
         r.text = outbox[x].text \/ x = Digest, DOMAIN outbox = OutboxKeys
  PROVE  \A k \in OutboxKeys : CardText(k, outbox'[k])
<1>1. ~ChannelKind(Digest)
  BY DEF ChannelKind, Digest
<1> QED
  BY <1>1 DEF ShownInv, CardText

LEMMA ShownStep ==
  ASSUME DeliveryInv, ShownInv, [DeliveryNext]_deliveryVars
  PROVE  ShownInv'
<1>0. /\ outbox \in [OutboxKeys -> OutboxRow] /\ taskSeq \in 0 .. MaxEvents
      /\ DOMAIN outbox = OutboxKeys
  BY DEF DeliveryInv, DeliveryShapes
<1>1. CASE UNCHANGED <<outbox, post>> /\ pref' \in {pref, "plain", "digest", "muted"}
  BY <1>1 DEF ShownInv, CardText
<1>2. CASE RenderEvent
  <2>1. taskSeq + 1 \in 0 .. MaxEvents
    BY <1>0, <1>2, DeliveryAssumption DEF RenderEvent
  <2> DEFINE t == [k \in {IF CardPosted THEN Patch(taskSeq + 1) ELSE Card} |-> taskSeq + 1]
  <2>2. \A k \in DOMAIN t : t[k] = taskSeq + 1
    OBVIOUS
  <2>3. Enqueue(t) /\ UNCHANGED <<post, pref>>
    BY <1>2 DEF RenderEvent
  <2> HIDE DEF t
  <2>4. \A k \in OutboxKeys : CardText(k, outbox'[k])
    BY <2>1, <2>2, <2>3, EnqueueShown
  <2> QED
    BY <2>3, <2>4 DEF ShownInv
<1>3. CASE OnEvent
  <2>1. UNCHANGED <<post, pref>>
    BY <1>3 DEF OnEvent
  <2>2. /\ ~ChannelKind(Note) /\ ~ChannelKind(Reminder) /\ ~ChannelKind(Digest)
        /\ {Note, Reminder, Digest} \subseteq OutboxKeys
    BY DEF ChannelKind, Note, Reminder, Digest, OutboxKeys
  <2>3. CASE pref = "muted"
    BY <1>1, <1>3, <2>1, <2>3 DEF OnEvent, PlanNotification
  <2>4. CASE pref = "digest"
    <3>1. EnqueueDigest
      BY <1>3, <2>4 DEF OnEvent, PlanNotification
    <3> DEFINE t == [k \in {Digest} |-> 1]
               r == [outbox[Digest] EXCEPT !.text = @ + 1]
    <3>2. Enqueue(t) \/ outbox' = [outbox EXCEPT ![Digest] = r]
      BY <1>0, <2>2, <3>1 DEF EnqueueDigest
    <3>3. \A k \in DOMAIN t : ~ChannelKind(k)
      BY <2>2
    <3> HIDE DEF t, r
    <3>4. \A k \in OutboxKeys : CardText(k, outbox'[k])
      BY <1>0, <2>2, <3>2, <3>3, EnqueueShown, TextKept
    <3> QED
      BY <2>1, <3>4 DEF ShownInv
  <2>5. CASE pref = "plain"
    <3>1. Enqueue(WithReminders)
      BY <1>3, <2>5 DEF OnEvent, PlanNotification
    <3>2. \A k \in DOMAIN WithReminders : ~ChannelKind(k)
      BY <2>2 DEF WithReminders
    <3>3. \A k \in OutboxKeys : CardText(k, outbox'[k])
      BY <3>1, <3>2, EnqueueShown
    <3> QED
      BY <2>1, <3>3 DEF ShownInv
  <2> QED
    BY <2>3, <2>4, <2>5 DEF ShownInv
<1>4. CASE CancelPending
  <2> DEFINE r == [outbox[Reminder] EXCEPT !.st = "dead"]
  <2>1. Reminder \in OutboxKeys
    BY DEF OutboxKeys
  <2>2. outbox' = [outbox EXCEPT ![Reminder] = r] /\ UNCHANGED <<post, pref>>
    BY <1>4 DEF CancelPending
  <2>3. r.text = outbox[Reminder].text
    BY <1>0, <2>1 DEF OutboxRow
  <2> HIDE DEF r
  <2>4. \A k \in OutboxKeys : CardText(k, outbox'[k])
    BY <1>0, <2>1, <2>2, <2>3, TextKept
  <2> QED
    BY <2>2, <2>4 DEF ShownInv
<1>5. ASSUME NEW x \in OutboxKeys, BackoffOver(x)
      PROVE  ShownInv'
  <2> DEFINE r == [outbox[x] EXCEPT !.due = TRUE]
  <2>1. outbox' = [outbox EXCEPT ![x] = r] /\ UNCHANGED <<post, pref>>
    BY <1>5 DEF BackoffOver
  <2>2. r.text = outbox[x].text
    BY <1>0 DEF OutboxRow
  <2> HIDE DEF r
  <2>3. \A k \in OutboxKeys : CardText(k, outbox'[k])
    BY <1>0, <2>1, <2>2, TextKept
  <2> QED
    BY <2>1, <2>3 DEF ShownInv
<1>6. ASSUME NEW d \in Drainers, CommitDrain(d)
      PROVE  ShownInv'
  <2> DEFINE Sent(k) == [outbox[k] EXCEPT !.st = "sent", !.tries = @ + 1]
  <2>1. /\ outbox' = [k \in OutboxKeys |-> IF k \in drain[d].ok THEN Sent(k)
                        ELSE IF k \in drain[d].failed THEN Retried(outbox[k]) ELSE outbox[k]]
        /\ UNCHANGED <<post, pref>>
    BY <1>6 DEF CommitDrain
  <2>2. \A k \in OutboxKeys : Sent(k).text = outbox[k].text /\ Retried(outbox[k]).text = outbox[k].text
    BY <1>0 DEF OutboxRow, Retried
  <2> HIDE DEF Sent
  <2>3. \A k \in OutboxKeys : outbox'[k].text = outbox[k].text
    BY <2>1, <2>2
  <2> QED
    BY <2>1, <2>3 DEF ShownInv, CardText
<1>7. ASSUME NEW d \in Drainers, NEW k, NEW answer, NEW silent, Offer(d, k, answer, silent),
             k \in OutboxKeys
      PROVE  ShownInv'
  <2>1. /\ post' = post \/ post'.shown = IF ChannelKind(k) THEN outbox[k].text ELSE post.shown
        /\ UNCHANGED <<outbox, pref>>
    BY <1>7 DEF Offer
  <2> QED
    BY <1>7, <2>1 DEF ShownInv, CardText
<1>8. ASSUME NEW d \in Drainers, drain[d].todo # <<>>
      PROVE  Head(drain[d].todo) \in OutboxKeys
  <2>1. drain[d].todo \in Seq(OutboxKeys)
    BY DEF DeliveryInv, DrainsGood, DrainGood, DrainRow
  <2> QED
    BY <1>8, <2>1
<1>9. ASSUME NEW d \in Drainers, NEW answer, DeliverCard(d, answer) \/ SendNotification(d, answer)
      PROVE  ShownInv'
  BY <1>7, <1>8, <1>9 DEF DeliverCard, SendNotification
<1>10. ASSUME NEW d \in Drainers, Claim(d) \/ SkipKind(d) \/ CrashDrain(d)
       PROVE  ShownInv'
  BY <1>1, <1>10 DEF Claim, SkipKind, CrashDrain
<1>11. ASSUME NEW p \in {"plain", "digest", "muted"}, SetPreferences(p)
       PROVE  ShownInv'
  BY <1>1, <1>11 DEF SetPreferences
<1>12. CASE UNCHANGED deliveryVars
  BY <1>1, <1>12 DEF deliveryVars
<1> QED
  BY <1>2, <1>3, <1>4, <1>5, <1>6, <1>9, <1>10, <1>11, <1>12 DEF DeliveryNext

\* Rows, notifications and preferences keep their types, and the card never
\* shows an Event that the Task has not had (render_task_event, deliver).
THEOREM DeliveryTypes == DeliverySpec => []DeliveryTypeOK
<1>1. DeliveryInit => ShownInv
  <2> SUFFICES ASSUME DeliveryInit PROVE ShownInv
    OBVIOUS
  <2>1. 0 \in 0 .. MaxEvents
    BY DeliveryAssumption
  <2> QED
    BY <2>1 DEF DeliveryInit, ShownInv, CardText, NoRow
<1>2. DeliveryInv /\ ShownInv => DeliveryTypeOK
  <2> SUFFICES ASSUME DeliveryInv, ShownInv PROVE DeliveryTypeOK
    OBVIOUS
  <2>1. \A k \in OutboxKeys : /\ outbox[k].st \in {"none", "pending", "sent", "dead"}
                              /\ outbox[k].tries \in Nat /\ outbox[k].text \in Nat
    BY DEF DeliveryInv, DeliveryShapes, OutboxRow
  <2>2. Keys!ToSet(queue) \subseteq OutboxKeys
    BY DEF Keys!ToSet, DeliveryInv, QueueGood
  <2>3. sentEvents \in Nat /\ noteStatus \in {"none", "queued", "sent"}
    BY DEF DeliveryInv, NoticeGood
  <2> QED
    BY <2>1, <2>2, <2>3 DEF DeliveryTypeOK, DeliveryInv, DeliveryShapes, ShownInv
<1>3. DeliveryInv /\ ShownInv /\ [DeliveryNext]_deliveryVars => ShownInv'
  BY ShownStep
<1> QED
  BY <1>1, <1>2, <1>3, DeliveryInit_Inv, DeliveryNext_Inv, PTL DEF DeliverySpec

-----------------------------------------------------------------------------
(***************************************************************************)
(* Bridge.  A message is written once and never changes, so that what is   *)
(* known of a message stays known.  BridgeInv says of every copy that it   *)
(* can be told for one; of a mapping, and of a handler that is about to    *)
(* write one, that its target is a thread for its source; that what the    *)
(* providers remember are copies; that the rows of the drain wait, and     *)
(* those it reports delivered are remembered; and it counts the copies.    *)
(***************************************************************************)
Platforms == {"mm", "tg"}
ChatRow == [platform : Platforms, thread : Nat, reply : Nat, of : Nat, bot : BOOLEAN, marked : BOOLEAN]
PayloadRow == [thread : Nat, opens : BOOLEAN, marked : BOOLEAN]
RelayRow == [map : {"none", "pending", "sent", "dead"}, row : {"none", "pending", "sent", "dead"},
             tries : Nat, dest : Nat, payload : PayloadRow, due : BOOLEAN,
             letter : {"none", "open", "replayed"}]
BridgeDrainRow == [open : BOOLEAN, todo : SUBSET MessageIds, ok : SUBSET MessageIds, failed : SUBSET MessageIds]

\* j is a post that replies can hang on; j is a copy of i on the other platform.
IsRoot(c, j) == j \in DOMAIN c /\ c[j].platform = "mm" /\ c[j].thread = 0
IsCopy(c, i, j) == /\ i \in DOMAIN c /\ j \in DOMAIN c /\ c[j].of = i
                   /\ c[j].platform = OtherSide(c[i].platform)
\* A topic that has a copy of the post root, or that root is a copy from.
TopicFor(c, root, topic) ==
  /\ root \in DOMAIN c
  /\ \E j \in DOMAIN c : /\ c[j].platform = "tg" /\ c[j].thread = topic
                         /\ c[j].of = root \/ c[root].of = j
MessageGood(c, i) ==
  /\ c[i].of # 0 => c[i].bot \/ c[i].marked
  /\ c[i].platform = "mm" /\ c[i].thread # 0 => IsRoot(c, c[i].thread)

\* A message that may be relayed, and what its copy is to look like.
PayloadGood(c, i, p) ==
  /\ i \in DOMAIN c /\ ~c[i].bot /\ ~c[i].marked /\ p \in PayloadRow
  /\ c[i].platform = "tg" => p.marked /\ ~p.opens /\ (p.thread # 0 => IsRoot(c, p.thread))
  /\ c[i].platform = "mm" /\ c[i].thread # 0 => TopicFor(c, c[i].thread, p.thread)

RelayGood(c, i, r) ==
  /\ r \in RelayRow /\ r.map = r.row
  /\ r.map = "none" => r = NoRelay
  /\ r.map # "none" => PayloadGood(c, i, r.payload)
  /\ r.map = "sent" => IsCopy(c, i, r.dest)
  /\ r.map = "pending" => r.tries < MaxBridgeTries
  /\ r.map = "dead" => r.letter # "none" /\ r.tries = MaxBridgeTries
  /\ r.letter = "open" => r.map = "dead"

Copies(i) == {j \in DOMAIN chat : chat[j].of = i}
Posted(t) == t.ok \cup t.failed
CopiesCounted(i) ==
  /\ IsFiniteSet(Copies(i))
  /\ Cardinality(Copies(i)) <= relay[i].tries + upsets[1] + (IF i \in Posted(bridgeDrain) THEN 1 ELSE 0)
                               + (IF relay[i].letter = "replayed" THEN MaxBridgeTries ELSE 0)

BridgeShapes ==
  /\ upsets \in Nat \X Nat /\ bridgeDrain \in BridgeDrainRow /\ bridgeEvents \subseteq MessageIds
  /\ DOMAIN handler = Handlers /\ DOMAIN relay = MessageIds /\ remembered \in [MessageIds -> Nat]
ChatGood ==
  /\ chat \in Seq(ChatRow) /\ Len(chat) <= MaxMessages
  /\ \A i \in DOMAIN chat : MessageGood(chat, i)
HandlersGood ==
  \A h \in Handlers : handler[h] = NoHandler \/ PayloadGood(chat, handler[h].id, handler[h].payload)
RelaysGood ==
  \A i \in MessageIds : /\ RelayGood(chat, i, relay[i]) /\ CopiesCounted(i)
                        /\ relay[i].map = "dead" => i \in bridgeEvents
                        /\ remembered[i] # 0 => IsCopy(chat, i, remembered[i])
BridgeDrainGood ==
  /\ ~bridgeDrain.open => bridgeDrain = NoBridgeDrain
  /\ bridgeDrain.todo \cap Posted(bridgeDrain) = {}
  /\ \A i \in bridgeDrain.todo \cup Posted(bridgeDrain) : relay[i].map = "pending"
  /\ \A i \in bridgeDrain.ok : remembered[i] # 0
BridgeInv == BridgeShapes /\ ChatGood /\ HandlersGood /\ RelaysGood /\ BridgeDrainGood

\* The state has its parts.
LEMMA ChatIs ==
  ASSUME BridgeInv
  PROVE  /\ chat \in Seq(ChatRow) /\ Len(chat) \in Nat /\ DOMAIN chat = 1 .. Len(chat)
         /\ DOMAIN chat \subseteq MessageIds /\ 0 \notin MessageIds /\ MaxMessages \in Nat
         /\ \A i \in DOMAIN chat : chat[i] \in ChatRow /\ MessageGood(chat, i)
         /\ \A i \in MessageIds : i \in Nat
BY BridgeAssumption DEF BridgeInv, ChatGood, MessageIds

\* What is known of a message stays known when another one is written.
LEMMA MessageWritten ==
  ASSUME NEW c \in Seq(ChatRow), NEW m \in ChatRow, NEW d, d = Append(c, m)
  PROVE  /\ d \in Seq(ChatRow) /\ Len(d) = Len(c) + 1 /\ d[Len(c) + 1] = m
         /\ DOMAIN d = DOMAIN c \cup {Len(c) + 1} /\ Len(c) + 1 \notin DOMAIN c
         /\ \A i \in DOMAIN c : d[i] = c[i] /\ (MessageGood(c, i) => MessageGood(d, i))
         /\ \A j : IsRoot(c, j) => IsRoot(d, j)
         /\ \A i, j : IsCopy(c, i, j) => IsCopy(d, i, j)
         /\ \A i, p : PayloadGood(c, i, p) => PayloadGood(d, i, p)
<1>1. /\ d \in Seq(ChatRow) /\ Len(d) = Len(c) + 1 /\ d[Len(c) + 1] = m
      /\ DOMAIN d = DOMAIN c \cup {Len(c) + 1} /\ Len(c) + 1 \notin DOMAIN c
      /\ \A i \in DOMAIN c : d[i] = c[i]
  OBVIOUS
<1>2. ASSUME NEW j, IsRoot(c, j) PROVE IsRoot(d, j)
  BY <1>1, <1>2 DEF IsRoot
<1>3. ASSUME NEW i, NEW j, IsCopy(c, i, j) PROVE IsCopy(d, i, j)
  BY <1>1, <1>3 DEF IsCopy
<1>4. ASSUME NEW r, NEW t, TopicFor(c, r, t) PROVE TopicFor(d, r, t)
  BY <1>1, <1>4 DEF TopicFor
<1>5. ASSUME NEW i, NEW p, PayloadGood(c, i, p) PROVE PayloadGood(d, i, p)
  BY <1>1, <1>2, <1>4, <1>5 DEF PayloadGood
<1>6. ASSUME NEW i \in DOMAIN c, MessageGood(c, i) PROVE MessageGood(d, i)
  BY <1>1, <1>2, <1>6 DEF MessageGood
<1> HIDE DEF IsRoot
<1> QED
  BY <1>1, <1>2, <1>3, <1>5, <1>6

\* A message is written that is well formed: everything known stays.
LEMMA MessageAppended ==
  ASSUME BridgeInv, NEW m \in ChatRow, Len(chat) < MaxMessages, chat' = Append(chat, m),
         MessageGood(chat', Len(chat) + 1), UNCHANGED handler
  PROVE  /\ ChatGood' /\ HandlersGood' /\ Len(chat) + 1 \in DOMAIN chat' /\ chat'[Len(chat) + 1] = m
         /\ \A i \in MessageIds : \A r : RelayGood(chat, i, r) => RelayGood(chat', i, r)
         /\ \A i, j : IsCopy(chat, i, j) => IsCopy(chat', i, j)
         /\ \A i \in MessageIds : Copies(i)' = Copies(i) \cup IF m.of = i THEN {Len(chat) + 1} ELSE {}
<1> DEFINE d == Append(chat, m)
<1>1. /\ chat \in Seq(ChatRow) /\ Len(chat) \in Nat /\ DOMAIN chat = 1 .. Len(chat)
      /\ MaxMessages \in Nat /\ \A i \in DOMAIN chat : MessageGood(chat, i)
  BY ChatIs
<1>2. chat' = d
  OBVIOUS
<1>3. /\ d \in Seq(ChatRow) /\ Len(d) = Len(chat) + 1 /\ d[Len(chat) + 1] = m
      /\ DOMAIN d = DOMAIN chat \cup {Len(chat) + 1} /\ Len(chat) + 1 \notin DOMAIN chat
      /\ \A i \in DOMAIN chat : d[i] = chat[i] /\ (MessageGood(chat, i) => MessageGood(d, i))
      /\ \A i, j : IsCopy(chat, i, j) => IsCopy(d, i, j)
      /\ \A i, p : PayloadGood(chat, i, p) => PayloadGood(d, i, p)
  <2> HIDE DEF d
  <2>1. d = Append(chat, m)
    BY DEF d
  <2> QED
    BY <1>1, <2>1, MessageWritten
<1> HIDE DEF d
<1>4. ChatGood'
  <2>1. Len(d) <= MaxMessages
    BY <1>1, <1>3
  <2>2. \A i \in DOMAIN d : MessageGood(d, i)
    BY <1>1, <1>2, <1>3
  <2> QED
    BY <1>2, <1>3, <2>1, <2>2 DEF ChatGood
<1>5. HandlersGood'
  BY <1>2, <1>3 DEF BridgeInv, HandlersGood
<1>6. ASSUME NEW i \in MessageIds, NEW r, RelayGood(chat, i, r) PROVE RelayGood(d, i, r)
  BY <1>3, <1>6 DEF RelayGood
<1>7. ASSUME NEW i \in MessageIds
      PROVE  Copies(i)' = Copies(i) \cup IF m.of = i THEN {Len(chat) + 1} ELSE {}
  <2>1. Copies(i)' = {j \in DOMAIN d : d[j].of = i}
    BY <1>2 DEF Copies
  <2>2. {j \in DOMAIN d : d[j].of = i}
          = {j \in DOMAIN chat : chat[j].of = i} \cup IF m.of = i THEN {Len(chat) + 1} ELSE {}
    BY <1>3
  <2> QED
    BY <2>1, <2>2 DEF Copies
<1> QED
  BY <1>2, <1>3, <1>4, <1>5, <1>6, <1>7

LEMMA BridgeInit_Inv == BridgeInit => BridgeInv
<1> SUFFICES ASSUME BridgeInit PROVE BridgeInv
  OBVIOUS
<1>1. BridgeShapes
  <2>1. upsets \in Nat \X Nat
    BY BridgeAssumption DEF BridgeInit
  <2>2. bridgeDrain \in BridgeDrainRow
    BY DEF BridgeInit, BridgeDrainRow, NoBridgeDrain
  <2> QED
    BY <2>1, <2>2 DEF BridgeInit, BridgeShapes
<1>2. ChatGood
  BY BridgeAssumption DEF BridgeInit, ChatGood
<1>3. HandlersGood
  BY DEF BridgeInit, HandlersGood
<1>4. RelaysGood
  <2> SUFFICES ASSUME NEW i \in MessageIds
               PROVE  RelayGood(chat, i, relay[i]) /\ CopiesCounted(i) /\ relay[i].map # "dead" /\ remembered[i] = 0
    BY DEF RelaysGood
  <2>1. relay[i] = NoRelay /\ remembered[i] = 0 /\ upsets[1] \in Nat
    BY BridgeAssumption DEF BridgeInit
  <2>2. NoRelay \in RelayRow
    BY DEF NoRelay, RelayRow, NoPayload, PayloadRow
  <2>3. RelayGood(chat, i, NoRelay) /\ NoRelay.map = "none" /\ NoRelay.letter = "none" /\ NoRelay.tries = 0
    BY <2>2 DEF RelayGood, NoRelay
  <2>4. Copies(i) = {} /\ Posted(bridgeDrain) = {}
    BY DEF BridgeInit, Copies, Posted, NoBridgeDrain
  <2>5. CopiesCounted(i)
    BY <2>1, <2>3, <2>4, FS_EmptySet DEF CopiesCounted
  <2> QED
    BY <2>1, <2>3, <2>5
<1>5. BridgeDrainGood
  BY DEF BridgeInit, BridgeDrainGood, NoBridgeDrain, Posted
<1> QED
  BY <1>1, <1>2, <1>3, <1>4, <1>5 DEF BridgeInv

LEMMA WriteMessage_Inv ==
  ASSUME NEW p \in {"mm", "tg"}, NEW thread \in MessageIds \cup {0}, NEW reply \in MessageIds \cup {0}
  PROVE  BridgeInv /\ WriteMessage(p, thread, reply) => BridgeInv'
<1> SUFFICES ASSUME BridgeInv, WriteMessage(p, thread, reply) PROVE BridgeInv'
  OBVIOUS
<1> DEFINE m == [platform |-> p, thread |-> thread, reply |-> reply, of |-> 0, bot |-> FALSE, marked |-> FALSE]
<1>1. /\ Len(chat) < MaxMessages /\ chat' = Append(chat, m)
      /\ p = "mm" /\ thread # 0 => thread \in DOMAIN chat /\ chat[thread].platform = "mm" /\ chat[thread].thread = 0
      /\ UNCHANGED <<bridge, relay, handler, bridgeDrain, remembered, upsets, bridgeEvents>>
  BY DEF WriteMessage
<1>2. /\ chat \in Seq(ChatRow) /\ 0 \notin MessageIds /\ \A i \in MessageIds : i \in Nat
  BY ChatIs
<1>3. m \in ChatRow /\ m.of = 0 /\ m.platform = p /\ m.thread = thread
  BY <1>2 DEF ChatRow, Platforms
<1> HIDE DEF m
<1>4. MessageGood(chat', Len(chat) + 1)
  <2>1. chat \in Seq(ChatRow) /\ m \in ChatRow /\ chat' = Append(chat, m)
    BY <1>1, <1>2, <1>3
  <2>2. chat'[Len(chat) + 1] = m
    BY <2>1
  <2>3. p = "mm" /\ thread # 0 => IsRoot(chat, thread)
    BY <1>1 DEF IsRoot
  <2>4. p = "mm" /\ thread # 0 => IsRoot(chat', thread)
    BY <2>1, <2>3 DEF IsRoot
  <2> QED
    BY <1>3, <2>2, <2>4 DEF MessageGood
<1>5. /\ ChatGood' /\ HandlersGood'
      /\ \A i \in MessageIds : \A r : RelayGood(chat, i, r) => RelayGood(chat', i, r)
      /\ \A i, j : IsCopy(chat, i, j) => IsCopy(chat', i, j)
      /\ \A i \in MessageIds : Copies(i)' = Copies(i)
  <2>1. BridgeInv /\ m \in ChatRow /\ Len(chat) < MaxMessages /\ chat' = Append(chat, m) /\ UNCHANGED handler
    BY <1>1, <1>3
  <2>2. \A i \in MessageIds : Copies(i)' = Copies(i) \cup IF m.of = i THEN {Len(chat) + 1} ELSE {}
    BY <1>4, <2>1, MessageAppended
  <2>3. /\ ChatGood' /\ HandlersGood'
        /\ \A i \in MessageIds : \A r : RelayGood(chat, i, r) => RelayGood(chat', i, r)
        /\ \A i, j : IsCopy(chat, i, j) => IsCopy(chat', i, j)
    BY <1>4, <2>1, MessageAppended
  <2>4. ASSUME NEW i \in MessageIds PROVE Copies(i)' = Copies(i)
    <3>1. m.of # i
      BY <1>2, <1>3
    <3>2. Copies(i)' = Copies(i) \cup {}
      BY <2>2, <3>1
    <3> QED
      BY <3>2
  <2> QED
    BY <2>3, <2>4
<1>6. RelaysGood'
  BY <1>1, <1>5 DEF BridgeInv, RelaysGood, CopiesCounted
<1>7. BridgeShapes' /\ BridgeDrainGood'
  BY <1>1 DEF BridgeInv, BridgeShapes, BridgeDrainGood, Posted
<1> QED
  BY <1>5, <1>6, <1>7 DEF BridgeInv

\* A complete mapping names a message of each platform, one a copy of the other.
LEMMA MappingIs ==
  ASSUME BridgeInv, NEW j \in MessageIds, MappingKnown(j)
  PROVE  /\ OnMattermost(j) \in DOMAIN chat /\ chat[OnMattermost(j)].platform = "mm"
         /\ OnTelegram(j) \in DOMAIN chat /\ chat[OnTelegram(j)].platform = "tg"
         /\ chat[OnTelegram(j)].of = OnMattermost(j) \/ chat[OnMattermost(j)].of = OnTelegram(j)
<1>1. IsCopy(chat, j, relay[j].dest) /\ chat[j].platform \in {"mm", "tg"}
  <2>1. RelayGood(chat, j, relay[j]) /\ relay[j].map = "sent" /\ j \in DOMAIN chat
    BY DEF BridgeInv, RelaysGood, MappingKnown, MappingSent
  <2>2. chat[j] \in ChatRow
    BY <2>1, ChatIs
  <2> QED
    BY <2>1, <2>2 DEF RelayGood, ChatRow, Platforms
<1> QED
  BY <1>1 DEF IsCopy, OtherSide, OnMattermost, OnTelegram

\* The target of a message is a thread for it.
LEMMA TargetIs ==
  ASSUME BridgeInv, NEW i \in DOMAIN chat, CheckLoop(i), NEW target \in ResolveTarget(i)
  PROVE  PayloadGood(chat, i, target)
<1>1. chat[i] \in ChatRow /\ MessageGood(chat, i) /\ i \in MessageIds
  BY ChatIs
<1>2. PICK t \in Threads(i) :
        target = [thread |-> t, opens |-> chat[i].platform = "mm" /\ chat[i].thread = 0 /\ bridge.topics,
                  marked |-> chat[i].platform = "tg" \/ bridge.showSender]
  BY DEF ResolveTarget
<1>3. DOMAIN chat \subseteq Nat /\ \A j \in DOMAIN chat : chat[j].thread \in Nat
  BY ChatIs DEF ChatRow
<1>4. CASE chat[i].platform = "mm"
  <2>1. CASE chat[i].thread = 0
    <3>1. t = 0
      BY <1>4, <2>1 DEF Threads
    <3>2. target \in PayloadRow
      <4>1. (chat[i].platform = "mm" /\ chat[i].thread = 0 /\ bridge.topics) \in BOOLEAN
        OBVIOUS
      <4>2. (chat[i].platform = "tg" \/ bridge.showSender) \in BOOLEAN
        OBVIOUS
      <4> QED
        BY <1>2, <3>1, <4>1, <4>2 DEF PayloadRow
    <3> QED
      BY <1>4, <2>1, <3>2 DEF PayloadGood, CheckLoop
  <2>2. CASE chat[i].thread # 0
    <3>1. PICK j \in MessageIds : /\ MappingKnown(j) /\ OnMattermost(j) = chat[i].thread
                                  /\ t = chat[OnTelegram(j)].thread
      BY <1>2, <1>4, <2>2 DEF Threads
    <3>2. TopicFor(chat, chat[i].thread, t)
      BY <3>1, MappingIs DEF TopicFor
    <3>3. t \in Nat
      BY <1>3, <3>1, MappingIs
    <3>4. target \in PayloadRow
      <4>1. (chat[i].platform = "mm" /\ chat[i].thread = 0 /\ bridge.topics) \in BOOLEAN
        OBVIOUS
      <4>2. (chat[i].platform = "tg" \/ bridge.showSender) \in BOOLEAN
        OBVIOUS
      <4> QED
        BY <1>2, <3>3, <4>1, <4>2 DEF PayloadRow
    <3>5. target.thread = t
      BY <1>2
    <3> QED
      BY <1>4, <3>2, <3>4, <3>5 DEF PayloadGood, CheckLoop
  <2> QED
    BY <2>1, <2>2
<1>5. CASE chat[i].platform # "mm"
  <2>1. chat[i].platform = "tg"
    BY <1>1, <1>5 DEF ChatRow, Platforms
  <2>2. t = 0 \/ IsRoot(chat, t)
    <3> DEFINE answered == {j \in MessageIds : MappingKnown(j) /\ OnTelegram(j) = chat[i].reply}
               topic == {j \in MessageIds : MappingKnown(j) /\ chat[i].thread # 0
                                            /\ chat[OnMattermost(j)].thread = 0
                                            /\ chat[OnTelegram(j)].thread = chat[i].thread}
    <3>1. \/ \E j \in answered : t = RootOf(OnMattermost(j))
          \/ \E j \in topic : t = OnMattermost(j)
          \/ t = 0
      BY <1>2, <1>5 DEF Threads
    <3>2. CASE \E j \in answered : t = RootOf(OnMattermost(j))
      <4>1. PICK j \in MessageIds : MappingKnown(j) /\ t = RootOf(OnMattermost(j))
        BY <3>2
      <4>2. OnMattermost(j) \in DOMAIN chat /\ chat[OnMattermost(j)].platform = "mm"
        BY <4>1, MappingIs
      <4>3. MessageGood(chat, OnMattermost(j))
        BY <4>2, ChatIs
      <4> QED
        BY <4>1, <4>2, <4>3 DEF RootOf, MessageGood, IsRoot
    <3>3. CASE \E j \in topic : t = OnMattermost(j)
      <4>1. PICK j \in MessageIds : MappingKnown(j) /\ t = OnMattermost(j) /\ chat[OnMattermost(j)].thread = 0
        BY <3>3
      <4> QED
        BY <4>1, MappingIs DEF IsRoot
    <3> QED
      BY <3>1, <3>2, <3>3
  <2>3. t \in Nat
    BY <1>3, <2>2 DEF IsRoot
  <2>4. target = [thread |-> t, opens |-> FALSE, marked |-> TRUE]
    BY <1>2, <1>5, <2>1
  <2>5. target \in PayloadRow /\ target.thread = t /\ target.marked = TRUE /\ target.opens = FALSE
    BY <2>3, <2>4 DEF PayloadRow
  <2> QED
    BY <1>5, <2>1, <2>2, <2>5 DEF PayloadGood, CheckLoop
<1> QED
  BY <1>4, <1>5

LEMMA ReadInbound_Inv ==
  ASSUME NEW h \in Handlers, NEW i \in DOMAIN chat
  PROVE  BridgeInv /\ ReadInbound(h, i) => BridgeInv'
<1> SUFFICES ASSUME BridgeInv, ReadInbound(h, i) PROVE BridgeInv'
  OBVIOUS
<1>1. PICK target \in ResolveTarget(i) : handler' = [handler EXCEPT ![h] = [id |-> i, payload |-> target]]
  BY DEF ReadInbound
<1>2. CheckLoop(i) /\ UNCHANGED <<bridge, chat, relay, bridgeDrain, remembered, upsets, bridgeEvents>>
  BY DEF ReadInbound
<1>3. PayloadGood(chat, i, target)
  BY <1>2, TargetIs
<1>4. DOMAIN handler = Handlers
  BY DEF BridgeInv, BridgeShapes
<1>5. HandlersGood'
  <2> SUFFICES ASSUME NEW g \in Handlers
               PROVE  handler'[g] = NoHandler \/ PayloadGood(chat', handler'[g].id, handler'[g].payload)
    BY DEF HandlersGood
  <2>1. CASE g = h
    BY <1>1, <1>2, <1>3, <1>4, <2>1
  <2>2. CASE g # h
    BY <1>1, <1>2, <1>4, <2>2 DEF BridgeInv, HandlersGood
  <2> QED
    BY <2>1, <2>2
<1>6. ChatGood' /\ BridgeDrainGood'
  BY <1>2 DEF BridgeInv, ChatGood, BridgeDrainGood, Posted
<1>7. BridgeShapes'
  BY <1>1, <1>2 DEF BridgeInv, BridgeShapes
<1>8. RelaysGood'
  BY <1>2 DEF BridgeInv, RelaysGood, CopiesCounted, Copies
<1> QED
  BY <1>5, <1>6, <1>7, <1>8 DEF BridgeInv

\* Rows of the relay change that no drain holds, each to what it may be.
RelayChanged(i) ==
  \/ relay'[i] = relay[i]
  \/ /\ i \notin bridgeDrain.todo \cup Posted(bridgeDrain)
     /\ RelayGood(chat, i, relay'[i]) /\ relay'[i].map # "dead"
     /\ \/ relay'[i].tries = relay[i].tries /\ relay'[i].letter = relay[i].letter
        \/ relay'[i].tries = 0 /\ relay[i].tries = MaxBridgeTries /\ relay[i].letter = "open"
           /\ relay'[i].letter = "replayed"
LEMMA RelayChanges ==
  ASSUME BridgeInv, \A i \in MessageIds : RelayChanged(i),
         UNCHANGED <<chat, bridgeDrain, remembered, upsets, bridgeEvents>>
  PROVE  RelaysGood' /\ BridgeDrainGood'
<1>1. /\ upsets \in Nat \X Nat /\ bridgeDrain \in BridgeDrainRow /\ MaxBridgeTries \in Nat
      /\ \A i \in MessageIds : i \in bridgeDrain.todo \cup Posted(bridgeDrain) => relay'[i] = relay[i]
  BY BridgeAssumption DEF BridgeInv, BridgeShapes, RelayChanged
<1>2. BridgeDrainGood'
  <2>1. bridgeDrain.todo \cup Posted(bridgeDrain) \subseteq MessageIds
    BY <1>1 DEF BridgeDrainRow, Posted
  <2> QED
    BY <1>1, <2>1 DEF BridgeInv, BridgeDrainGood, Posted
<1>3. ASSUME NEW i \in MessageIds
      PROVE  /\ RelayGood(chat, i, relay'[i]) /\ CopiesCounted(i)'
             /\ relay'[i].map = "dead" => i \in bridgeEvents
             /\ remembered[i] # 0 => IsCopy(chat, i, remembered[i])
  <2>1. /\ RelayGood(chat, i, relay[i]) /\ CopiesCounted(i) /\ (relay[i].map = "dead" => i \in bridgeEvents)
        /\ remembered[i] # 0 => IsCopy(chat, i, remembered[i])
    BY DEF BridgeInv, RelaysGood
  <2>2. Copies(i)' = Copies(i) /\ Posted(bridgeDrain)' = Posted(bridgeDrain) /\ upsets' = upsets
    BY DEF Copies, Posted
  <2>3. CASE relay'[i] = relay[i]
    <3>1. CopiesCounted(i)'
      BY <2>1, <2>2, <2>3 DEF CopiesCounted
    <3> QED
      BY <2>1, <2>3, <3>1
  <2>4. CASE relay'[i] # relay[i]
    <3>1. RelayGood(chat, i, relay'[i]) /\ relay'[i].map # "dead"
      BY <2>4 DEF RelayChanged
    <3>2. CASE relay'[i].tries = relay[i].tries /\ relay'[i].letter = relay[i].letter
      <4>1. CopiesCounted(i)'
        BY <2>1, <2>2, <3>2 DEF CopiesCounted
      <4> QED
        BY <2>1, <3>1, <4>1
    <3>3. CASE /\ relay'[i].tries = 0 /\ relay[i].tries = MaxBridgeTries /\ relay[i].letter = "open"
               /\ relay'[i].letter = "replayed"
      <4> DEFINE n == Cardinality(Copies(i))
      <4>1. /\ IsFiniteSet(Copies(i))
            /\ n <= MaxBridgeTries + upsets[1] + (IF i \in Posted(bridgeDrain) THEN 1 ELSE 0) + 0
        BY <2>1, <3>3 DEF CopiesCounted
      <4>2. n \in Nat /\ upsets[1] \in Nat
        BY <1>1, <4>1, FS_CardinalityType
      <4> HIDE DEF n
      <4>3. n <= 0 + upsets[1] + (IF i \in Posted(bridgeDrain) THEN 1 ELSE 0) + MaxBridgeTries
        BY <1>1, <4>1, <4>2
      <4>4. CopiesCounted(i)'
        BY <2>2, <3>3, <4>1, <4>3 DEF CopiesCounted, n
      <4> QED
        BY <2>1, <3>1, <4>4
    <3> QED
      BY <2>4, <3>2, <3>3 DEF RelayChanged
  <2> QED
    BY <2>3, <2>4
<1>4. RelaysGood'
  BY <1>3 DEF RelaysGood
<1> QED
  BY <1>2, <1>4

\* A row of the relay, as the transactions rewrite it.
LEMMA RelayRewritten ==
  ASSUME NEW r \in RelayRow
  PROVE  /\ \A p \in PayloadRow :
              LET x == [r EXCEPT !.map = "pending", !.row = "pending", !.due = TRUE, !.payload = p]
              IN  /\ x \in RelayRow /\ x.map = "pending" /\ x.row = "pending" /\ x.payload = p
                  /\ x.tries = r.tries /\ x.letter = r.letter
         /\ \A dest \in Nat :
              LET x == [r EXCEPT !.row = "sent", !.map = "sent", !.dest = dest, !.tries = @ + 1]
              IN  /\ x \in RelayRow /\ x.map = "sent" /\ x.row = "sent" /\ x.payload = r.payload
                  /\ x.tries = r.tries + 1 /\ x.letter = r.letter /\ x.dest = dest
         /\ LET x == [r EXCEPT !.tries = @ + 1, !.due = FALSE]
            IN  /\ x \in RelayRow /\ x.map = r.map /\ x.row = r.row /\ x.payload = r.payload
                /\ x.tries = r.tries + 1 /\ x.letter = r.letter
         /\ LET x == [r EXCEPT !.row = "dead", !.map = "dead", !.tries = @ + 1,
                               !.letter = IF @ = "none" THEN "open" ELSE @]
            IN  /\ x \in RelayRow /\ x.map = "dead" /\ x.row = "dead" /\ x.payload = r.payload
                /\ x.tries = r.tries + 1 /\ x.letter = IF r.letter = "none" THEN "open" ELSE r.letter
         /\ LET x == [r EXCEPT !.row = "pending", !.map = "pending", !.tries = 0, !.due = TRUE,
                               !.letter = "replayed"]
            IN  /\ x \in RelayRow /\ x.map = "pending" /\ x.row = "pending" /\ x.payload = r.payload
                /\ x.tries = 0 /\ x.letter = "replayed"
<1> DEFINE Maps == {"none", "pending", "sent", "dead"}
           Numbers == Nat
           Letters == {"none", "open", "replayed"}
           Rows == [map : Maps, row : Maps, tries : Numbers, dest : Numbers, payload : PayloadRow,
                    due : BOOLEAN, letter : Letters]
           n == r.tries + 1
           l == IF r.letter = "none" THEN "open" ELSE r.letter
<1>1. r \in Rows /\ n \in Numbers /\ l \in Letters /\ 0 \in Numbers
  BY DEF RelayRow
<1>2. "pending" \in Maps /\ "sent" \in Maps /\ "dead" \in Maps /\ "replayed" \in Letters
  OBVIOUS
<1> HIDE DEF Maps, Numbers, Letters, n, l
<1>3. ASSUME NEW p \in PayloadRow
      PROVE  LET x == [r EXCEPT !.map = "pending", !.row = "pending", !.due = TRUE, !.payload = p]
             IN  /\ x \in Rows /\ x.map = "pending" /\ x.row = "pending" /\ x.payload = p
                 /\ x.tries = r.tries /\ x.letter = r.letter
  BY <1>1, <1>2
<1>4. ASSUME NEW dest \in Numbers
      PROVE  LET x == [r EXCEPT !.row = "sent", !.map = "sent", !.dest = dest, !.tries = n]
             IN  /\ x \in Rows /\ x.map = "sent" /\ x.row = "sent" /\ x.payload = r.payload
                 /\ x.tries = n /\ x.letter = r.letter /\ x.dest = dest
  BY <1>1, <1>2
<1>5. LET x == [r EXCEPT !.tries = n, !.due = FALSE]
      IN  /\ x \in Rows /\ x.map = r.map /\ x.row = r.row /\ x.payload = r.payload
          /\ x.tries = n /\ x.letter = r.letter
  BY <1>1, <1>2
<1>6. LET x == [r EXCEPT !.row = "dead", !.map = "dead", !.tries = n, !.letter = l]
      IN  /\ x \in Rows /\ x.map = "dead" /\ x.row = "dead" /\ x.payload = r.payload
          /\ x.tries = n /\ x.letter = l
  BY <1>1, <1>2
<1>7. LET x == [r EXCEPT !.row = "pending", !.map = "pending", !.tries = 0, !.due = TRUE, !.letter = "replayed"]
      IN  /\ x \in Rows /\ x.map = "pending" /\ x.row = "pending" /\ x.payload = r.payload
          /\ x.tries = 0 /\ x.letter = "replayed"
  BY <1>1, <1>2
<1>8. RelayRow = Rows
  BY DEF RelayRow, Maps, Numbers, Letters
<1> HIDE DEF Rows
<1>9. \A dest \in Nat :
        LET x == [r EXCEPT !.row = "sent", !.map = "sent", !.dest = dest, !.tries = @ + 1]
        IN  /\ x \in RelayRow /\ x.map = "sent" /\ x.row = "sent" /\ x.payload = r.payload
            /\ x.tries = r.tries + 1 /\ x.letter = r.letter /\ x.dest = dest
  BY <1>4, <1>8 DEF n, Numbers
<1>10. LET x == [r EXCEPT !.tries = @ + 1, !.due = FALSE]
       IN  /\ x \in RelayRow /\ x.map = r.map /\ x.row = r.row /\ x.payload = r.payload
           /\ x.tries = r.tries + 1 /\ x.letter = r.letter
  BY <1>5, <1>8 DEF n
<1>11. LET x == [r EXCEPT !.row = "dead", !.map = "dead", !.tries = @ + 1,
                          !.letter = IF @ = "none" THEN "open" ELSE @]
       IN  /\ x \in RelayRow /\ x.map = "dead" /\ x.row = "dead" /\ x.payload = r.payload
           /\ x.tries = r.tries + 1 /\ x.letter = IF r.letter = "none" THEN "open" ELSE r.letter
  BY <1>6, <1>8 DEF n, l
<1> QED
  BY <1>3, <1>7, <1>8, <1>9, <1>10, <1>11

LEMMA InsertMapping_Inv == ASSUME NEW h \in Handlers PROVE BridgeInv /\ InsertMapping(h) => BridgeInv'
<1> SUFFICES ASSUME BridgeInv, InsertMapping(h) PROVE BridgeInv'
  OBVIOUS
<1> DEFINE i == handler[h].id
           p == handler[h].payload
           row == [relay[i] EXCEPT !.map = "pending", !.row = "pending", !.due = TRUE, !.payload = p]
<1>1. /\ handler[h] # NoHandler /\ handler' = [handler EXCEPT ![h] = NoHandler]
      /\ relay' = IF relay[i].map # "none" THEN relay ELSE [relay EXCEPT ![i] = row]
      /\ UNCHANGED <<bridge, chat, bridgeDrain, remembered, upsets, bridgeEvents>>
  BY DEF InsertMapping
<1>2. PayloadGood(chat, i, p) /\ i \in DOMAIN chat /\ p \in PayloadRow
  BY <1>1 DEF BridgeInv, HandlersGood, PayloadGood
<1>3. i \in MessageIds /\ DOMAIN relay = MessageIds /\ DOMAIN handler = Handlers
  BY <1>2, ChatIs DEF BridgeInv, BridgeShapes
<1>4. RelayGood(chat, i, relay[i]) /\ relay[i] \in RelayRow
  BY <1>3 DEF BridgeInv, RelaysGood, RelayGood
<1>5. ASSUME NEW j \in MessageIds PROVE RelayChanged(j)
  <2>1. CASE relay[i].map # "none" \/ j # i
    BY <1>1, <1>3, <2>1 DEF RelayChanged
  <2>2. CASE relay[i].map = "none" /\ j = i
    <3>1. relay'[i] = row
      BY <1>1, <1>3, <2>2
    <3>2. i \notin bridgeDrain.todo \cup Posted(bridgeDrain)
      BY <2>2 DEF BridgeInv, BridgeDrainGood
    <3>3. /\ row \in RelayRow /\ row.map = "pending" /\ row.row = "pending" /\ row.payload = p
          /\ row.tries = relay[i].tries /\ row.letter = relay[i].letter
      <4> HIDE DEF p, i
      <4>1. \A r \in RelayRow : \A q \in PayloadRow :
              LET x == [r EXCEPT !.map = "pending", !.row = "pending", !.due = TRUE, !.payload = q]
              IN  /\ x \in RelayRow /\ x.map = "pending" /\ x.row = "pending" /\ x.payload = q
                  /\ x.tries = r.tries /\ x.letter = r.letter
        BY RelayRewritten
      <4> QED
        BY <1>2, <1>4, <4>1
    <3>4. relay[i].tries = 0 /\ relay[i].letter = "none"
      BY <1>4, <2>2 DEF RelayGood, NoRelay
    <3> HIDE DEF row, p
    <3>5. RelayGood(chat, i, row)
      BY <1>2, <3>3, <3>4, BridgeAssumption DEF RelayGood
    <3> QED
      BY <2>2, <3>1, <3>2, <3>3, <3>5 DEF RelayChanged
  <2> QED
    BY <2>1, <2>2
<1>6. RelaysGood' /\ BridgeDrainGood'
  BY <1>1, <1>5, RelayChanges
<1>7. HandlersGood'
  BY <1>1, <1>3 DEF BridgeInv, HandlersGood
<1>8. BridgeShapes' /\ ChatGood'
  BY <1>1, <1>3 DEF BridgeInv, BridgeShapes, ChatGood
<1> QED
  BY <1>6, <1>7, <1>8 DEF BridgeInv

LEMMA RetryDue_Inv == ASSUME NEW i \in MessageIds PROVE BridgeInv /\ RetryDue(i) => BridgeInv'
<1> SUFFICES ASSUME BridgeInv, RetryDue(i) PROVE BridgeInv'
  OBVIOUS
<1> DEFINE row == [relay[i] EXCEPT !.due = TRUE]
<1>1. /\ relay[i].row = "pending" /\ relay' = [relay EXCEPT ![i] = row]
      /\ UNCHANGED <<bridge, chat, handler, bridgeDrain, remembered, upsets, bridgeEvents>>
  BY DEF RetryDue
<1>2. RelayGood(chat, i, relay[i]) /\ relay[i] \in RelayRow /\ DOMAIN relay = MessageIds
  BY DEF BridgeInv, BridgeShapes, RelaysGood, RelayGood
<1>3. /\ row \in RelayRow /\ row.map = relay[i].map /\ row.row = relay[i].row
      /\ row.payload = relay[i].payload /\ row.tries = relay[i].tries /\ row.letter = relay[i].letter
  BY <1>2 DEF RelayRow
<1> HIDE DEF row
<1>4. \A j \in MessageIds : relay'[j] = IF j = i THEN row ELSE relay[j]
  BY <1>1, <1>2
<1>5. relay[i].map = "pending" /\ RelayGood(chat, i, row)
  BY <1>1, <1>2, <1>3 DEF RelayGood
<1>6. RelaysGood'
  <2>1. ASSUME NEW j \in MessageIds
        PROVE  /\ RelayGood(chat, j, relay'[j]) /\ CopiesCounted(j)'
               /\ relay'[j].map = "dead" => j \in bridgeEvents
               /\ remembered[j] # 0 => IsCopy(chat, j, remembered[j])
    <3>1. relay'[j].tries = relay[j].tries /\ relay'[j].letter = relay[j].letter /\ relay'[j].map = relay[j].map
      BY <1>3, <1>4
    <3>2. CopiesCounted(j)'
      BY <1>1, <3>1 DEF BridgeInv, RelaysGood, CopiesCounted, Copies, Posted
    <3>3. RelayGood(chat, j, relay'[j])
      BY <1>4, <1>5 DEF BridgeInv, RelaysGood
    <3> QED
      BY <3>1, <3>2, <3>3 DEF BridgeInv, RelaysGood
  <2> QED
    BY <1>1, <2>1 DEF RelaysGood
<1>7. BridgeDrainGood'
  <2>1. \A j \in MessageIds : relay'[j].map = relay[j].map
    BY <1>3, <1>4
  <2>2. bridgeDrain.todo \cup Posted(bridgeDrain) \subseteq MessageIds
    BY DEF BridgeInv, BridgeShapes, BridgeDrainRow, Posted
  <2> QED
    BY <1>1, <2>1, <2>2 DEF BridgeInv, BridgeDrainGood, Posted
<1>8. BridgeShapes' /\ ChatGood' /\ HandlersGood'
  BY <1>1 DEF BridgeInv, BridgeShapes, ChatGood, HandlersGood
<1> QED
  BY <1>6, <1>7, <1>8 DEF BridgeInv

LEMMA ReplayDeadLetters_Inv == BridgeInv /\ ReplayDeadLetters => BridgeInv'
<1> SUFFICES ASSUME BridgeInv, ReplayDeadLetters PROVE BridgeInv'
  OBVIOUS
<1> DEFINE Replayed(i) == [relay[i] EXCEPT !.row = "pending", !.map = "pending", !.tries = 0,
                                           !.due = TRUE, !.letter = "replayed"]
<1>1. /\ relay' = [i \in MessageIds |-> IF i \in {j \in MessageIds : relay[j].letter = "open"}
                                        THEN Replayed(i) ELSE relay[i]]
      /\ UNCHANGED <<bridge, chat, handler, bridgeDrain, remembered, upsets, bridgeEvents>>
  BY DEF ReplayDeadLetters
<1>2. ASSUME NEW i \in MessageIds PROVE RelayChanged(i)
  <2>1. CASE relay[i].letter # "open"
    BY <1>1, <2>1 DEF RelayChanged
  <2>2. CASE relay[i].letter = "open"
    <3>1. relay'[i] = Replayed(i)
      BY <1>1, <2>2
    <3>2. RelayGood(chat, i, relay[i]) /\ relay[i] \in RelayRow
      BY DEF BridgeInv, RelaysGood, RelayGood
    <3>3. relay[i].map = "dead" /\ relay[i].tries = MaxBridgeTries
      BY <2>2, <3>2 DEF RelayGood
    <3>4. /\ Replayed(i) \in RelayRow /\ Replayed(i).map = "pending" /\ Replayed(i).row = "pending"
          /\ Replayed(i).payload = relay[i].payload /\ Replayed(i).tries = 0 /\ Replayed(i).letter = "replayed"
      <4>1. \A r \in RelayRow :
              LET x == [r EXCEPT !.row = "pending", !.map = "pending", !.tries = 0, !.due = TRUE, !.letter = "replayed"]
              IN  /\ x \in RelayRow /\ x.map = "pending" /\ x.row = "pending" /\ x.payload = r.payload /\ x.tries = 0
                  /\ x.letter = "replayed"
        BY RelayRewritten
      <4> QED
        BY <3>2, <4>1
    <3>5. i \notin bridgeDrain.todo \cup Posted(bridgeDrain)
      BY <3>3 DEF BridgeInv, BridgeDrainGood
    <3> HIDE DEF Replayed
    <3>6. RelayGood(chat, i, Replayed(i))
      BY <3>2, <3>3, <3>4, BridgeAssumption DEF RelayGood
    <3> QED
      BY <2>2, <3>1, <3>3, <3>4, <3>5, <3>6 DEF RelayChanged
  <2> QED
    BY <2>1, <2>2
<1>3. RelaysGood' /\ BridgeDrainGood'
  BY <1>1, <1>2, RelayChanges
<1>4. BridgeShapes' /\ ChatGood' /\ HandlersGood'
  BY <1>1 DEF BridgeInv, BridgeShapes, ChatGood, HandlersGood
<1> QED
  BY <1>3, <1>4 DEF BridgeInv

LEMMA StartDrain_Inv == BridgeInv /\ StartDrain => BridgeInv'
<1> SUFFICES ASSUME BridgeInv, StartDrain PROVE BridgeInv'
  OBVIOUS
<1> DEFINE due == {i \in MessageIds : relay[i].row = "pending" /\ relay[i].due}
<1>1. /\ ~bridgeDrain.open /\ bridgeDrain' = [NoBridgeDrain EXCEPT !.open = TRUE, !.todo = due]
      /\ UNCHANGED <<bridge, chat, relay, handler, remembered, upsets, bridgeEvents>>
  BY DEF StartDrain
<1>2. due \subseteq MessageIds /\ \A i \in due : relay[i].map = "pending"
  BY DEF BridgeInv, RelaysGood, RelayGood
<1> HIDE DEF due
<1>3. bridgeDrain = NoBridgeDrain /\ Posted(bridgeDrain) = {}
  BY <1>1 DEF BridgeInv, BridgeDrainGood, NoBridgeDrain, Posted
<1>4. bridgeDrain' = [open |-> TRUE, todo |-> due, ok |-> {}, failed |-> {}]
  BY <1>1 DEF NoBridgeDrain
<1>5. bridgeDrain' \in BridgeDrainRow /\ bridgeDrain'.todo = due /\ bridgeDrain'.open = TRUE /\ bridgeDrain'.ok = {}
  BY <1>2, <1>4 DEF BridgeDrainRow
<1>6. Posted(bridgeDrain)' = {}
  BY <1>4 DEF Posted
<1>7. BridgeDrainGood'
  BY <1>1, <1>2, <1>5, <1>6 DEF BridgeDrainGood
<1>8. RelaysGood'
  BY <1>1, <1>3, <1>6 DEF BridgeInv, RelaysGood, CopiesCounted, Copies
<1>9. BridgeShapes' /\ ChatGood' /\ HandlersGood'
  BY <1>1, <1>5 DEF BridgeInv, BridgeShapes, ChatGood, HandlersGood
<1> QED
  BY <1>7, <1>8, <1>9 DEF BridgeInv

\* The copy is well formed, can be told for one, and is of its source.
LEMMA CopyIs ==
  ASSUME BridgeInv, NEW i \in MessageIds, relay[i].map = "pending"
  PROVE  LET m == BridgeCopy(i)
         IN  /\ m \in ChatRow /\ m.of = i /\ m.platform = OtherSide(chat[i].platform) /\ i \in DOMAIN chat
             /\ m.bot \/ m.marked
             /\ m.platform = "mm" /\ m.thread # 0 => IsRoot(chat, m.thread)
<1> DEFINE p == OtherSide(chat[i].platform)
           w == relay[i].payload
           t == IF w.opens THEN Len(chat) + 1 ELSE w.thread
           bot == p = "tg" \/ bridge.botAccount
<1>1. PayloadGood(chat, i, w)
  BY DEF BridgeInv, RelaysGood, RelayGood
<1>2. i \in DOMAIN chat /\ chat[i] \in ChatRow /\ Len(chat) \in Nat /\ i \in Nat
  BY <1>1, ChatIs DEF PayloadGood
<1>3. w.thread \in Nat /\ w.marked \in BOOLEAN /\ t \in Nat /\ p \in Platforms /\ bot \in BOOLEAN
  BY <1>1, <1>2 DEF PayloadGood, PayloadRow, OtherSide, Platforms
<1>4. BridgeCopy(i) = [platform |-> p, of |-> i, bot |-> bot, marked |-> w.marked, reply |-> 0, thread |-> t]
  BY DEF BridgeCopy
<1>5. CASE p = "mm"
  <2>1. chat[i].platform = "tg"
    BY <1>2, <1>5 DEF OtherSide, ChatRow, Platforms
  <2>2. w.marked /\ t = w.thread /\ (w.thread # 0 => IsRoot(chat, w.thread))
    BY <1>1, <2>1 DEF PayloadGood
  <2> HIDE DEF w, t, bot, p
  <2>3. BridgeCopy(i) \in ChatRow
    BY <1>2, <1>3, <1>4 DEF ChatRow
  <2> QED
    BY <1>2, <1>4, <1>5, <2>2, <2>3 DEF p
<1>6. CASE p = "tg"
  <2>1. bot
    BY <1>6
  <2> HIDE DEF w, t, bot, p
  <2>2. BridgeCopy(i) \in ChatRow
    BY <1>2, <1>3, <1>4 DEF ChatRow
  <2> QED
    BY <1>2, <1>4, <1>6, <2>1, <2>2 DEF p
<1> QED
  BY <1>3, <1>5, <1>6 DEF Platforms

LEMMA PostCopy_Inv ==
  ASSUME NEW i \in MessageIds, NEW answer \in {"ok", "refused", "lost"}
  PROVE  BridgeInv /\ PostCopy(i, answer) => BridgeInv'
<1> SUFFICES ASSUME BridgeInv, PostCopy(i, answer) PROVE BridgeInv'
  OBVIOUS
<1> DEFINE acts == remembered[i] = 0 /\ answer # "refused"
           b == bridgeDrain
           oks == IF answer = "ok" THEN b.ok \cup {i} ELSE b.ok
           faileds == IF answer = "ok" THEN b.failed ELSE b.failed \cup {i}
           m == BridgeCopy(i)
           new == Len(chat) + 1
<1>1. /\ b.open /\ i \in b.todo /\ (remembered[i] # 0 => answer = "ok") /\ (acts => Len(chat) < MaxMessages)
      /\ chat' = IF acts THEN Append(chat, m) ELSE chat
      /\ remembered' = IF acts /\ answer = "ok" THEN [remembered EXCEPT ![i] = new] ELSE remembered
      /\ UNCHANGED <<bridge, relay, handler, upsets, bridgeEvents>>
  BY DEF PostCopy
<1>2. b \in BridgeDrainRow /\ relay[i].map = "pending" /\ i \notin Posted(b)
  BY <1>1 DEF BridgeInv, BridgeShapes, BridgeDrainGood
<1>3. /\ bridgeDrain' \in BridgeDrainRow /\ bridgeDrain'.open = b.open /\ bridgeDrain'.todo = b.todo \ {i}
      /\ bridgeDrain'.ok = oks /\ bridgeDrain'.failed = faileds
  <2> DEFINE Sets == SUBSET MessageIds
             Rows == [open : BOOLEAN, todo : Sets, ok : Sets, failed : Sets]
             rest == b.todo \ {i}
  <2>1. bridgeDrain' = [b EXCEPT !.todo = rest, !.ok = oks, !.failed = faileds]
    BY DEF PostCopy
  <2>2. b \in Rows /\ rest \in Sets /\ oks \in Sets /\ faileds \in Sets
    BY <1>2 DEF BridgeDrainRow
  <2> HIDE DEF Sets, rest, oks, faileds, b
  <2>3. /\ bridgeDrain' \in Rows /\ bridgeDrain'.open = b.open /\ bridgeDrain'.todo = rest
        /\ bridgeDrain'.ok = oks /\ bridgeDrain'.failed = faileds
    BY <2>1, <2>2
  <2> QED
    BY <2>3 DEF Sets, rest, BridgeDrainRow
<1>4. Posted(bridgeDrain)' = Posted(b) \cup {i}
  BY <1>3 DEF Posted
<1>5. /\ m \in ChatRow /\ m.of = i /\ m.platform = OtherSide(chat[i].platform) /\ i \in DOMAIN chat
      /\ m.bot \/ m.marked
      /\ m.platform = "mm" /\ m.thread # 0 => IsRoot(chat, m.thread)
  BY <1>2, CopyIs
<1>6. /\ chat \in Seq(ChatRow) /\ Len(chat) \in Nat /\ remembered \in [MessageIds -> Nat] /\ MaxMessages \in Nat
      /\ upsets[1] \in Nat /\ MaxBridgeTries \in Nat /\ \A j \in MessageIds : j \in Nat
  BY ChatIs, BridgeAssumption DEF BridgeInv, BridgeShapes
<1> HIDE DEF m
<1>7. /\ ChatGood' /\ HandlersGood'
      /\ \A j \in MessageIds : \A r : RelayGood(chat, j, r) => RelayGood(chat', j, r)
      /\ \A j, k : IsCopy(chat, j, k) => IsCopy(chat', j, k)
      /\ \A j \in MessageIds : Copies(j)' = Copies(j) \cup IF acts /\ i = j THEN {new} ELSE {}
      /\ acts => IsCopy(chat', i, new)
  <2>1. CASE acts
    <3>1. chat' = Append(chat, m) /\ Len(chat) < MaxMessages /\ UNCHANGED handler
      BY <1>1, <2>1
    <3>2. MessageGood(chat', Len(chat) + 1)
      <4>1. chat'[Len(chat) + 1] = m
        BY <1>5, <1>6, <3>1
      <4>2. m.platform = "mm" /\ m.thread # 0 => IsRoot(chat', m.thread)
        BY <1>5, <1>6, <3>1 DEF IsRoot
      <4> QED
        BY <1>5, <4>1, <4>2 DEF MessageGood
    <3>3. /\ ChatGood' /\ HandlersGood' /\ Len(chat) + 1 \in DOMAIN chat' /\ chat'[Len(chat) + 1] = m
          /\ \A j \in MessageIds : \A r : RelayGood(chat, j, r) => RelayGood(chat', j, r)
          /\ \A j, k : IsCopy(chat, j, k) => IsCopy(chat', j, k)
      BY <1>5, <3>1, <3>2, MessageAppended
    <3>4. \A j \in MessageIds : Copies(j)' = Copies(j) \cup IF m.of = j THEN {Len(chat) + 1} ELSE {}
      BY <1>5, <3>1, <3>2, MessageAppended
    <3>5. IsCopy(chat', i, new)
      <4>1. chat'[i] = chat[i] /\ i \in DOMAIN chat'
        BY <1>5, <1>6, <3>1
      <4> QED
        BY <1>5, <3>3, <4>1 DEF IsCopy
    <3>6. \A j \in MessageIds : Copies(j)' = Copies(j) \cup IF acts /\ i = j THEN {new} ELSE {}
      BY <1>5, <2>1, <3>4
    <3> QED
      BY <3>3, <3>5, <3>6
  <2>2. CASE ~acts
    <3>1. chat' = chat /\ UNCHANGED handler
      BY <1>1, <2>2
    <3>2. ASSUME NEW j \in MessageIds
          PROVE  Copies(j)' = Copies(j) \cup IF acts /\ i = j THEN {new} ELSE {}
      BY <2>2, <3>1 DEF Copies
    <3> HIDE DEF acts
    <3> QED
      BY <2>2, <3>1, <3>2 DEF BridgeInv, ChatGood, HandlersGood
  <2> QED
    BY <2>1, <2>2
<1>8. ASSUME NEW j \in MessageIds
      PROVE  CopiesCounted(j)'
  <2> DEFINE R == IF relay[j].letter = "replayed" THEN MaxBridgeTries ELSE 0
             n == Cardinality(Copies(j))
  <2>1. /\ IsFiniteSet(Copies(j)) /\ n \in Nat /\ relay[j].tries \in Nat /\ R \in Nat
        /\ n <= relay[j].tries + upsets[1] + (IF j \in Posted(b) THEN 1 ELSE 0) + R
    BY <1>6, FS_CardinalityType DEF BridgeInv, RelaysGood, CopiesCounted, RelayGood, RelayRow
  <2>2. relay' = relay /\ upsets' = upsets
    BY <1>1
  <2>3. CASE i = j
    <3>1. n <= relay[j].tries + upsets[1] + R
      BY <1>2, <1>6, <2>1, <2>3
    <3>2. IsFiniteSet(Copies(j)') /\ Cardinality(Copies(j)') <= n + 1
      <4>1. Copies(j)' = Copies(j) \cup {new} \/ Copies(j)' = Copies(j)
        BY <1>7
      <4>2. /\ IsFiniteSet(Copies(j) \cup {new})
            /\ Cardinality(Copies(j) \cup {new}) = IF new \in Copies(j) THEN n ELSE n + 1
        BY <2>1, FS_AddElement
      <4> HIDE DEF n
      <4>3. Cardinality(Copies(j) \cup {new}) <= n + 1
        BY <2>1, <4>2
      <4>4. CASE Copies(j)' = Copies(j)
        <5>1. n <= n + 1
          BY <2>1
        <5> QED
          BY <2>1, <4>4, <5>1 DEF n
      <4> QED
        BY <4>1, <4>2, <4>3, <4>4
    <3>3. j \in Posted(bridgeDrain)'
      BY <1>4, <2>3
    <3>4. Cardinality(Copies(j)') \in Nat
      BY <3>2, FS_CardinalityType
    <3> HIDE DEF n, R
    <3>5. Cardinality(Copies(j)') <= relay[j].tries + upsets[1] + 1 + R
      <4> DEFINE k == Cardinality(Copies(j)')
                 t == relay[j].tries
                 u == upsets[1]
      <4>1. k \in Nat /\ n \in Nat /\ t \in Nat /\ u \in Nat /\ R \in Nat
        BY <1>6, <2>1, <3>4
      <4>2. k <= n + 1 /\ n <= t + u + R
        BY <3>1, <3>2
      <4> HIDE DEF k, t, u
      <4>3. k <= t + u + 1 + R
        BY <4>1, <4>2
      <4> QED
        BY <4>3 DEF k, t, u
    <3> QED
      BY <2>2, <3>2, <3>3, <3>5 DEF CopiesCounted, R
  <2>4. CASE i # j
    <3>1. Copies(j)' = Copies(j)
      BY <1>7, <2>4
    <3>2. j \in Posted(bridgeDrain)' <=> j \in Posted(b)
      BY <1>4, <2>4
    <3> QED
      BY <2>1, <2>2, <3>1, <3>2 DEF CopiesCounted
  <2> QED
    BY <2>3, <2>4
<1>9. ASSUME NEW j \in MessageIds, remembered'[j] # 0
      PROVE  IsCopy(chat', j, remembered'[j])
  <2>1. CASE acts /\ answer = "ok" /\ i = j
    BY <1>1, <1>6, <1>7, <2>1
  <2>2. CASE ~(acts /\ answer = "ok" /\ i = j)
    <3>1. remembered'[j] = remembered[j]
      BY <1>1, <1>6, <2>2
    <3>2. IsCopy(chat, j, remembered[j])
      BY <1>9, <3>1 DEF BridgeInv, RelaysGood
    <3> QED
      BY <1>7, <3>1, <3>2
  <2> QED
    BY <2>1, <2>2
<1>10. RelaysGood'
  <2>1. ASSUME NEW j \in MessageIds PROVE RelayGood(chat', j, relay'[j]) /\ (relay'[j].map = "dead" => j \in bridgeEvents')
    BY <1>1, <1>7 DEF BridgeInv, RelaysGood
  <2> QED
    BY <1>8, <1>9, <2>1 DEF RelaysGood
<1>11. BridgeDrainGood'
  <2>1. ASSUME NEW j \in oks PROVE remembered'[j] # 0
    <3>1. CASE acts /\ answer = "ok"
      <4>1. remembered'[j] = IF j = i THEN new ELSE remembered[j]
        BY <1>1, <1>2, <1>6, <2>1, <3>1 DEF BridgeDrainRow
      <4>2. new # 0
        BY <1>6
      <4>3. j # i => remembered[j] # 0
        BY <2>1 DEF BridgeInv, BridgeDrainGood
      <4> QED
        BY <4>1, <4>2, <4>3
    <3>2. CASE ~(acts /\ answer = "ok")
      <4>1. remembered' = remembered
        BY <1>1, <3>2
      <4>2. CASE j = i
        <5>1. answer = "ok"
          BY <1>2, <2>1, <4>2 DEF Posted
        <5> QED
          BY <3>2, <4>1, <4>2, <5>1
      <4>3. CASE j # i
        <5>1. j \in b.ok
          BY <2>1, <4>3
        <5> QED
          BY <4>1, <5>1 DEF BridgeInv, BridgeDrainGood
      <4> QED
        BY <4>2, <4>3
    <3> QED
      BY <3>1, <3>2
  <2>2. (b.todo \ {i}) \cap (Posted(b) \cup {i}) = {}
    BY DEF BridgeInv, BridgeDrainGood
  <2>3. \A j \in (b.todo \ {i}) \cup (Posted(b) \cup {i}) : relay[j].map = "pending"
    BY <1>1 DEF BridgeInv, BridgeDrainGood
  <2> HIDE DEF oks, faileds, b
  <2>4. bridgeDrain'.open
    BY <1>1, <1>3
  <2> QED
    BY <1>1, <1>3, <1>4, <2>1, <2>2, <2>3, <2>4 DEF BridgeDrainGood
<1>12. BridgeShapes'
  <2>1. remembered' \in [MessageIds -> Nat]
    BY <1>1, <1>6
  <2> HIDE DEF acts, oks, faileds, b
  <2> QED
    BY <1>1, <1>3, <2>1 DEF BridgeInv, BridgeShapes
<1> QED
  BY <1>7, <1>10, <1>11, <1>12 DEF BridgeInv

\* What a drained row becomes.
LEMMA DrainedIs ==
  ASSUME BridgeInv, NEW i \in Posted(bridgeDrain)
  PROVE  /\ i \in bridgeDrain.ok =>
              /\ RecordDelivered(i).map = "sent" /\ RelayGood(chat, i, RecordDelivered(i))
              /\ RecordDelivered(i).tries = relay[i].tries + 1 /\ RecordDelivered(i).letter = relay[i].letter
         /\ /\ DeadLettered(i).row = DeadLettered(i).map /\ RelayGood(chat, i, DeadLettered(i))
            /\ DeadLettered(i).tries = relay[i].tries + 1
            /\ relay[i].letter = "replayed" => DeadLettered(i).letter = "replayed"
<1> DEFINE r == relay[i]
<1>1. i \in MessageIds /\ r.map = "pending" /\ (i \in bridgeDrain.ok => remembered[i] # 0)
  BY DEF BridgeInv, BridgeShapes, BridgeDrainRow, BridgeDrainGood, Posted
<1>2. RelayGood(chat, i, r) /\ r \in RelayRow /\ (remembered[i] # 0 => IsCopy(chat, i, remembered[i]))
      /\ remembered[i] \in Nat
  BY <1>1 DEF BridgeInv, RelaysGood, RelayGood, BridgeShapes
<1>3. /\ r.row = "pending" /\ PayloadGood(chat, i, r.payload) /\ r.tries < MaxBridgeTries /\ r.letter # "open"
      /\ r.letter \in {"none", "open", "replayed"} /\ r.tries \in Nat /\ MaxBridgeTries \in Nat
  BY <1>1, <1>2, BridgeAssumption DEF RelayGood, RelayRow
<1>4. ASSUME i \in bridgeDrain.ok
      PROVE  /\ RecordDelivered(i).map = "sent" /\ RelayGood(chat, i, RecordDelivered(i))
             /\ RecordDelivered(i).tries = relay[i].tries + 1 /\ RecordDelivered(i).letter = relay[i].letter
  <2> DEFINE x == [r EXCEPT !.row = "sent", !.map = "sent", !.dest = remembered[i], !.tries = @ + 1]
  <2>1. RecordDelivered(i) = x
    BY DEF RecordDelivered
  <2>2. /\ x \in RelayRow /\ x.map = "sent" /\ x.row = "sent" /\ x.payload = r.payload
        /\ x.tries = r.tries + 1 /\ x.letter = r.letter /\ x.dest = remembered[i]
    <3> HIDE DEF r
    <3>1. \A q \in RelayRow : \A dest \in Nat :
            LET y == [q EXCEPT !.row = "sent", !.map = "sent", !.dest = dest, !.tries = @ + 1]
            IN  /\ y \in RelayRow /\ y.map = "sent" /\ y.row = "sent" /\ y.payload = q.payload
                /\ y.tries = q.tries + 1 /\ y.letter = q.letter /\ y.dest = dest
      BY RelayRewritten
    <3> QED
      BY <1>2, <3>1
  <2> HIDE DEF x
  <2>3. IsCopy(chat, i, x.dest)
    BY <1>1, <1>2, <1>4, <2>2
  <2> HIDE DEF r
  <2>4. RelayGood(chat, i, x)
    BY <1>3, <2>2, <2>3 DEF RelayGood
  <2> QED
    BY <2>1, <2>2, <2>4 DEF r
<1>5. CASE r.tries + 1 < MaxBridgeTries
  <2> DEFINE x == [r EXCEPT !.tries = @ + 1, !.due = FALSE]
  <2>1. DeadLettered(i) = x
    BY <1>5 DEF DeadLettered
  <2>2. /\ x \in RelayRow /\ x.map = r.map /\ x.row = r.row /\ x.payload = r.payload
        /\ x.tries = r.tries + 1 /\ x.letter = r.letter
    BY <1>2, RelayRewritten
  <2> HIDE DEF x, r
  <2>3. RelayGood(chat, i, x)
    BY <1>1, <1>3, <1>5, <2>2 DEF RelayGood
  <2> QED
    BY <1>1, <1>3, <1>4, <2>1, <2>2, <2>3 DEF r
<1>6. CASE ~(r.tries + 1 < MaxBridgeTries)
  <2> DEFINE x == [r EXCEPT !.row = "dead", !.map = "dead", !.tries = @ + 1,
                            !.letter = IF @ = "none" THEN "open" ELSE @]
  <2>1. DeadLettered(i) = x
    BY <1>6 DEF DeadLettered
  <2>2. /\ x \in RelayRow /\ x.map = "dead" /\ x.row = "dead" /\ x.payload = r.payload
        /\ x.tries = r.tries + 1 /\ x.letter = IF r.letter = "none" THEN "open" ELSE r.letter
    BY <1>2, RelayRewritten
  <2> HIDE DEF x, r
  <2>3. RelayGood(chat, i, x)
    BY <1>1, <1>3, <1>6, <2>2 DEF RelayGood
  <2> QED
    BY <1>1, <1>3, <1>4, <2>1, <2>2, <2>3 DEF r
<1> QED
  BY <1>5, <1>6

LEMMA FinishDrain_Inv == BridgeInv /\ FinishDrain => BridgeInv'
<1> SUFFICES ASSUME BridgeInv, FinishDrain PROVE BridgeInv'
  OBVIOUS
<1> DEFINE b == bridgeDrain
           after(i) == IF i \in b.ok THEN RecordDelivered(i)
                       ELSE IF i \in b.failed THEN DeadLettered(i) ELSE relay[i]
<1>1. /\ b.todo = {} /\ bridgeDrain' = NoBridgeDrain /\ relay' = [i \in MessageIds |-> after(i)]
      /\ bridgeEvents' = bridgeEvents \cup {i \in b.failed : after(i).row = "dead"}
      /\ UNCHANGED <<bridge, chat, handler, remembered, upsets>>
  BY DEF FinishDrain
<1>2. b \in BridgeDrainRow /\ b.ok \subseteq MessageIds /\ b.failed \subseteq MessageIds /\ Posted(b) = b.ok \cup b.failed
  BY DEF BridgeInv, BridgeShapes, BridgeDrainRow, Posted
<1>3. /\ upsets[1] \in Nat /\ MaxBridgeTries \in Nat
      /\ \A i \in MessageIds : relay[i].tries \in Nat
  BY BridgeAssumption DEF BridgeInv, BridgeShapes, RelaysGood, RelayGood, RelayRow
<1>4. Posted(bridgeDrain)' = {}
  BY <1>1 DEF Posted, NoBridgeDrain
<1>5. ASSUME NEW i \in MessageIds
      PROVE  /\ RelayGood(chat, i, relay'[i]) /\ CopiesCounted(i)'
             /\ relay'[i].map = "dead" => i \in bridgeEvents'
  <2>1. relay'[i] = after(i)
    BY <1>1
  <2>2. Copies(i)' = Copies(i) /\ upsets' = upsets
    BY <1>1 DEF Copies
  <2>3. CopiesCounted(i) /\ RelayGood(chat, i, relay[i]) /\ (relay[i].map = "dead" => i \in bridgeEvents)
    BY DEF BridgeInv, RelaysGood
  <2>4. CASE i \notin Posted(b)
    <3>1. relay'[i] = relay[i]
      BY <1>2, <2>1, <2>4
    <3>2. CopiesCounted(i)'
      BY <1>4, <2>2, <2>3, <2>4, <3>1 DEF CopiesCounted
    <3> QED
      BY <1>1, <2>3, <3>1, <3>2
  <2>5. CASE i \in Posted(b)
    <3>1. /\ RelayGood(chat, i, after(i)) /\ after(i).tries = relay[i].tries + 1
          /\ relay[i].letter = "replayed" => after(i).letter = "replayed"
          /\ after(i).map = "dead" => i \in b.failed /\ after(i).row = "dead"
      <4>1. CASE i \in b.ok
        BY <2>5, <4>1, DrainedIs
      <4>2. CASE i \in b.failed /\ i \notin b.ok
        BY <2>5, <4>2, DrainedIs
      <4> QED
        BY <1>2, <2>5, <4>1, <4>2
    <3> HIDE DEF after
    <3>2. CopiesCounted(i)'
      <4> DEFINE n == Cardinality(Copies(i))
                 R == IF relay[i].letter = "replayed" THEN MaxBridgeTries ELSE 0
                 S == IF relay'[i].letter = "replayed" THEN MaxBridgeTries ELSE 0
      <4>1. n \in Nat /\ n <= relay[i].tries + upsets[1] + 1 + R /\ IsFiniteSet(Copies(i))
        BY <2>3, <2>5, FS_CardinalityType DEF CopiesCounted
      <4>2. R \in Nat /\ S \in Nat /\ R <= S
        BY <1>3, <2>1, <3>1
      <4> HIDE DEF n, R, S
      <4>3. n <= (relay[i].tries + 1) + upsets[1] + 0 + S
        BY <1>3, <4>1, <4>2
      <4> QED
        BY <1>4, <2>1, <2>2, <3>1, <4>1, <4>3 DEF CopiesCounted, n, S
    <3>3. relay'[i].map = "dead" => i \in bridgeEvents'
      BY <1>1, <2>1, <3>1
    <3> QED
      BY <2>1, <3>1, <3>2, <3>3
  <2> QED
    BY <2>4, <2>5
<1>6. RelaysGood'
  BY <1>1, <1>5 DEF BridgeInv, RelaysGood
<1>7. BridgeDrainGood' /\ NoBridgeDrain \in BridgeDrainRow
  BY <1>1 DEF BridgeDrainGood, NoBridgeDrain, Posted, BridgeDrainRow
<1>8. BridgeShapes'
  <2>1. DOMAIN relay' = MessageIds
    BY <1>1
  <2>2. bridgeEvents' \subseteq MessageIds
    BY <1>1, <1>2 DEF BridgeInv, BridgeShapes
  <2> HIDE DEF after
  <2> QED
    BY <1>1, <1>7, <2>1, <2>2 DEF BridgeInv, BridgeShapes
<1>9. ChatGood' /\ HandlersGood'
  BY <1>1 DEF BridgeInv, ChatGood, HandlersGood
<1> QED
  BY <1>6, <1>7, <1>8, <1>9 DEF BridgeInv

LEMMA LoseDrain_Inv == ASSUME NEW restart \in BOOLEAN PROVE BridgeInv /\ LoseDrain(restart) => BridgeInv'
<1> SUFFICES ASSUME BridgeInv, LoseDrain(restart) PROVE BridgeInv'
  OBVIOUS
<1>1. /\ upsets' = [upsets EXCEPT ![1] = @ + 1] /\ bridgeDrain' = NoBridgeDrain
      /\ remembered' = IF restart THEN [i \in MessageIds |-> 0] ELSE remembered
      /\ UNCHANGED <<bridge, chat, relay, handler, bridgeEvents>>
  BY DEF LoseDrain
<1>2. upsets \in Nat \X Nat
  BY DEF BridgeInv, BridgeShapes
<1>3. upsets' \in Nat \X Nat /\ upsets'[1] = upsets[1] + 1 /\ upsets[1] \in Nat
  BY <1>1, <1>2
<1>4. BridgeDrainGood' /\ NoBridgeDrain \in BridgeDrainRow /\ Posted(bridgeDrain)' = {}
  BY <1>1 DEF BridgeDrainGood, NoBridgeDrain, Posted, BridgeDrainRow
<1>5. remembered' \in [MessageIds -> Nat] /\ \A i \in MessageIds : remembered'[i] # 0 => remembered'[i] = remembered[i]
  <2>1. CASE restart
    BY <1>1, <2>1
  <2>2. CASE ~restart
    BY <1>1, <2>2 DEF BridgeInv, BridgeShapes
  <2> QED
    BY <2>1, <2>2
<1>6. ASSUME NEW i \in MessageIds PROVE CopiesCounted(i)'
  <2> DEFINE n == Cardinality(Copies(i))
             R == IF relay[i].letter = "replayed" THEN MaxBridgeTries ELSE 0
  <2>1. /\ IsFiniteSet(Copies(i)) /\ n \in Nat /\ relay[i].tries \in Nat /\ R \in Nat
        /\ n <= relay[i].tries + upsets[1] + (IF i \in Posted(bridgeDrain) THEN 1 ELSE 0) + R
    BY BridgeAssumption, FS_CardinalityType DEF BridgeInv, RelaysGood, CopiesCounted, RelayGood, RelayRow
  <2>2. Copies(i)' = Copies(i) /\ relay' = relay
    BY <1>1 DEF Copies
  <2> HIDE DEF n, R
  <2>3. n <= relay[i].tries + upsets'[1] + 0 + R
    BY <1>3, <2>1
  <2> QED
    BY <1>4, <2>1, <2>2, <2>3 DEF CopiesCounted, n, R
<1>7. RelaysGood'
  BY <1>1, <1>5, <1>6 DEF BridgeInv, RelaysGood
<1>8. BridgeShapes' /\ ChatGood' /\ HandlersGood'
  BY <1>1, <1>3, <1>4, <1>5 DEF BridgeInv, BridgeShapes, ChatGood, HandlersGood
<1> QED
  BY <1>4, <1>7, <1>8 DEF BridgeInv

LEMMA ConfigurationChanged ==
  ASSUME BridgeInv, upsets' = [upsets EXCEPT ![2] = @ + 1],
         UNCHANGED <<chat, relay, handler, bridgeDrain, remembered, bridgeEvents>>
  PROVE  BridgeInv'
<1>1. upsets \in Nat \X Nat
  BY DEF BridgeInv, BridgeShapes
<1>2. upsets' \in Nat \X Nat /\ upsets'[1] = upsets[1]
  BY <1>1
<1>3. RelaysGood'
  BY <1>2 DEF BridgeInv, RelaysGood, CopiesCounted, Copies, Posted
<1> QED
  BY <1>2, <1>3 DEF BridgeInv, BridgeShapes, ChatGood, HandlersGood, BridgeDrainGood, Posted

LEMMA BridgeNext_Inv == BridgeInv /\ [BridgeNext]_bridgeVars => BridgeInv'
<1> SUFFICES ASSUME BridgeInv, [BridgeNext]_bridgeVars PROVE BridgeInv'
  OBVIOUS
<1>1. CASE \E p \in {"mm", "tg"}, i, j \in MessageIds \cup {0} : WriteMessage(p, i, j)
  BY <1>1, WriteMessage_Inv
<1>2. ASSUME NEW h \in Handlers, InsertMapping(h) PROVE BridgeInv'
  BY <1>2, InsertMapping_Inv
<1>3. ASSUME NEW h \in Handlers, NEW i \in MessageIds, OnMattermostPost(h, i) \/ OnTelegramMessage(h, i)
      PROVE  BridgeInv'
  BY <1>3, ReadInbound_Inv DEF OnMattermostPost, OnTelegramMessage
<1>4. CASE StartDrain
  BY <1>4, StartDrain_Inv
<1>5. CASE FinishDrain
  BY <1>5, FinishDrain_Inv
<1>6. CASE ReplayDeadLetters
  BY <1>6, ReplayDeadLetters_Inv
<1>7. CASE SetBridgeStatus
  BY <1>7, ConfigurationChanged DEF SetBridgeStatus
<1>8. ASSUME NEW i \in MessageIds, RetryDue(i) PROVE BridgeInv'
  BY <1>8, RetryDue_Inv
<1>9. ASSUME NEW i \in MessageIds, NEW answer \in {"ok", "refused", "lost"}, PostCopy(i, answer) PROVE BridgeInv'
  BY <1>9, PostCopy_Inv
<1>10. ASSUME NEW restart \in BOOLEAN, LoseDrain(restart) PROVE BridgeInv'
  BY <1>10, LoseDrain_Inv
<1>11. ASSUME NEW f, NEW v, UpdateBridge(f, v) PROVE BridgeInv'
  <2>1. upsets' = [upsets EXCEPT ![2] = @ + 1] /\ UNCHANGED <<chat, relay, handler, bridgeDrain, remembered, bridgeEvents>>
    BY <1>11 DEF UpdateBridge
  <2> QED
    BY <2>1, ConfigurationChanged
<1>12. CASE UNCHANGED bridgeVars
  BY <1>12 DEF bridgeVars, BridgeInv, BridgeShapes, ChatGood, HandlersGood, RelaysGood, CopiesCounted, Copies,
               BridgeDrainGood, Posted
<1> QED
  BY <1>1, <1>2, <1>3, <1>4, <1>5, <1>6, <1>7, <1>8, <1>9, <1>10, <1>11, <1>12 DEF BridgeNext

LEMMA BridgeInv_RelayedOnce == BridgeInv => RelayedOnce
<1> SUFFICES ASSUME BridgeInv PROVE RelayedOnce
  OBVIOUS
<1>1. ASSUME NEW i \in DOMAIN chat PROVE i \in MessageIds /\ RelayGood(chat, i, relay[i]) /\ CopiesCounted(i)
                                         /\ (relay[i].map = "dead" => i \in bridgeEvents)
  BY ChatIs DEF BridgeInv, RelaysGood
<1>2. ASSUME NEW i \in DOMAIN chat, chat[i].of # 0 PROVE relay[i].map = "none"
  <2>1. chat[i].bot \/ chat[i].marked
    BY <1>2, ChatIs DEF MessageGood
  <2> QED
    BY <1>1, <2>1 DEF RelayGood, PayloadGood
<1>3. ASSUME NEW i \in DOMAIN chat
      PROVE  LET thread == relay[i].payload.thread
             IN  /\ relay[i].map = relay[i].row
                 /\ MappingSent(i) => relay[i].dest \in Copies(i) /\ chat[relay[i].dest].platform = OtherSide(chat[i].platform)
                 /\ relay[i].map = "dead" => relay[i].letter # "none" /\ i \in bridgeEvents
                 /\ chat[i].platform = "tg" /\ thread # 0 => chat[thread].platform = "mm" /\ chat[thread].thread = 0
                 /\ chat[i].platform = "mm" /\ chat[i].thread # 0 /\ relay[i].map # "none" =>
                      \E j \in DOMAIN chat : /\ chat[j].platform = "tg" /\ chat[j].thread = thread
                                             /\ chat[j].of = chat[i].thread \/ chat[chat[i].thread].of = j
  <2> DEFINE thread == relay[i].payload.thread
  <2>1. RelayGood(chat, i, relay[i]) /\ (relay[i].map = "dead" => i \in bridgeEvents)
    BY <1>1
  <2>2. MappingSent(i) => relay[i].dest \in Copies(i) /\ chat[relay[i].dest].platform = OtherSide(chat[i].platform)
    BY <2>1 DEF RelayGood, IsCopy, MappingSent, Copies
  <2>3. chat[i].platform = "tg" /\ thread # 0 => chat[thread].platform = "mm" /\ chat[thread].thread = 0
    <3>1. CASE relay[i].map = "none"
      BY <2>1, <3>1 DEF RelayGood, NoRelay, NoPayload
    <3>2. CASE relay[i].map # "none"
      BY <2>1, <3>2 DEF RelayGood, PayloadGood, IsRoot
    <3> QED
      BY <3>1, <3>2
  <2>4. chat[i].platform = "mm" /\ chat[i].thread # 0 /\ relay[i].map # "none" =>
          \E j \in DOMAIN chat : /\ chat[j].platform = "tg" /\ chat[j].thread = thread
                                 /\ chat[j].of = chat[i].thread \/ chat[chat[i].thread].of = j
    BY <2>1 DEF RelayGood, PayloadGood, TopicFor
  <2> QED
    BY <2>1, <2>2, <2>3, <2>4 DEF RelayGood
<1>4. ASSUME NEW i \in DOMAIN chat
      PROVE  Cardinality(Copies(i)) <= relay[i].tries + upsets[1] + (IF bridgeDrain.open THEN 1 ELSE 0)
                                       + (IF relay[i].letter = "replayed" THEN MaxBridgeTries ELSE 0)
  <2> DEFINE n == Cardinality(Copies(i))
             R == IF relay[i].letter = "replayed" THEN MaxBridgeTries ELSE 0
  <2>1. /\ n \in Nat /\ relay[i].tries \in Nat /\ R \in Nat /\ upsets[1] \in Nat
        /\ n <= relay[i].tries + upsets[1] + (IF i \in Posted(bridgeDrain) THEN 1 ELSE 0) + R
    BY <1>1, BridgeAssumption, FS_CardinalityType DEF BridgeInv, BridgeShapes, CopiesCounted, RelayGood, RelayRow
  <2>2. ~bridgeDrain.open => i \notin Posted(bridgeDrain)
    BY DEF BridgeInv, BridgeDrainGood, NoBridgeDrain, Posted
  <2> HIDE DEF n, R
  <2>3. n <= relay[i].tries + upsets[1] + (IF bridgeDrain.open THEN 1 ELSE 0) + R
    BY <2>1, <2>2
  <2> QED
    BY <2>3 DEF n, R
<1> QED
  BY <1>2, <1>3, <1>4 DEF RelayedOnce, Copies

\* The bridge carries a conversation and never feeds on itself: whatever is
\* written, handled again, lost, retried or replayed, no copy is relayed, a
\* complete mapping leads to a copy, replies land where their root is copied,
\* and a message is copied once per call (_relay, resolve_target, deliver,
\* record_delivered, _dead_letter, replay_dead_letters).
THEOREM BridgeRelayedOnce == BridgeSpec => []RelayedOnce
<1>1. BridgeSpec => []BridgeInv
  BY BridgeInit_Inv, BridgeNext_Inv, PTL DEF BridgeSpec
<1> QED
  BY <1>1, BridgeInv_RelayedOnce, PTL

\* A mapping leads nowhere, or to a message; only the drain completes one, with
\* a copy that its provider remembers.
DestKnown == \A i \in MessageIds : relay[i].dest \in {0} \cup MessageIds

LEMMA DestStep ==
  ASSUME BridgeInv, DestKnown, [BridgeNext]_bridgeVars
  PROVE  DestKnown'
<1>0. /\ \A i \in MessageIds : relay[i] \in RelayRow
      /\ DOMAIN relay = MessageIds
  BY DEF BridgeInv, BridgeShapes, RelaysGood, RelayGood
<1>1. CASE UNCHANGED relay
  BY <1>1 DEF DestKnown
<1>2. CASE \/ StartDrain \/ SetBridgeStatus \/ UNCHANGED bridgeVars
           \/ \E p \in {"mm", "tg"}, i, j \in MessageIds \cup {0} : WriteMessage(p, i, j)
           \/ \E i \in MessageIds, answer \in {"ok", "refused", "lost"} : PostCopy(i, answer)
           \/ \E h \in Handlers, i \in MessageIds : OnMattermostPost(h, i) \/ OnTelegramMessage(h, i)
           \/ \E restart \in BOOLEAN : LoseDrain(restart)
           \/ \E f, v : UpdateBridge(f, v)
  <2>1. UNCHANGED relay
    BY <1>2 DEF StartDrain, SetBridgeStatus, bridgeVars, WriteMessage, PostCopy, OnMattermostPost,
                OnTelegramMessage, ReadInbound, LoseDrain, UpdateBridge
  <2> QED
    BY <1>1, <2>1
<1>3. ASSUME NEW h \in Handlers, InsertMapping(h)
      PROVE  DestKnown'
  <2>1. PICK i : i = handler[h].id
    OBVIOUS
  <2> DEFINE r == [relay[i] EXCEPT !.map = "pending", !.row = "pending", !.due = TRUE,
                                   !.payload = handler[h].payload]
  <2>2. relay' = relay \/ relay' = [relay EXCEPT ![i] = r]
    BY <1>3, <2>1 DEF InsertMapping
  <2>3. i \in MessageIds
    BY <1>3, <2>1, ChatIs DEF InsertMapping, BridgeInv, HandlersGood, PayloadGood
  <2>4. r.dest = relay[i].dest
    BY <1>0, <2>3 DEF RelayRow
  <2> HIDE DEF r
  <2> QED
    BY <1>0, <1>1, <2>2, <2>3, <2>4 DEF DestKnown
<1>4. ASSUME NEW i \in MessageIds, RetryDue(i)
      PROVE  DestKnown'
  BY <1>0, <1>4 DEF RetryDue, DestKnown, RelayRow
<1>5. CASE ReplayDeadLetters
  <2> DEFINE Again(i) == [relay[i] EXCEPT !.row = "pending", !.map = "pending", !.tries = 0,
                                          !.due = TRUE, !.letter = "replayed"]
  <2>1. \A i \in MessageIds : relay'[i] = relay[i] \/ relay'[i] = Again(i)
    BY <1>5 DEF ReplayDeadLetters
  <2>2. \A i \in MessageIds : Again(i).dest = relay[i].dest
    BY <1>0 DEF RelayRow
  <2> HIDE DEF Again
  <2> QED
    BY <2>1, <2>2 DEF DestKnown
<1>6. CASE FinishDrain
  <2>1. \A i \in MessageIds : \/ i \in bridgeDrain.ok /\ relay'[i] = RecordDelivered(i)
                              \/ relay'[i] = DeadLettered(i) \/ relay'[i] = relay[i]
    BY <1>6 DEF FinishDrain
  <2>2. \A i \in MessageIds : RecordDelivered(i).dest = remembered[i] /\ DeadLettered(i).dest = relay[i].dest
    BY <1>0 DEF RecordDelivered, DeadLettered, RelayRow
  <2>3. \A i \in bridgeDrain.ok : remembered[i] # 0
    BY DEF BridgeInv, BridgeDrainGood
  <2>4. \A i \in MessageIds : remembered[i] # 0 => remembered[i] \in MessageIds
    BY ChatIs DEF BridgeInv, RelaysGood, IsCopy
  <2> QED
    BY <2>1, <2>2, <2>3, <2>4 DEF DestKnown
<1> QED
  BY <1>2, <1>3, <1>4, <1>5, <1>6 DEF BridgeNext

\* Mappings, dead letters, Events and open handlers are about messages there are.
THEOREM BridgeTypes == BridgeSpec => []BridgeTypeOK
<1>1. BridgeInit => DestKnown
  BY DEF BridgeInit, DestKnown, NoRelay
<1>2. BridgeInv /\ DestKnown => BridgeTypeOK
  <2> SUFFICES ASSUME BridgeInv, DestKnown PROVE BridgeTypeOK
    OBVIOUS
  <2>1. \A h \in Handlers : handler[h].id \in {0} \cup MessageIds
    BY ChatIs DEF BridgeInv, HandlersGood, PayloadGood, NoHandler
  <2>2. \A i \in MessageIds : /\ relay[i].map \in {"none", "pending", "sent", "dead"}
                              /\ relay[i].letter \in {"none", "open", "replayed"}
    BY DEF BridgeInv, RelaysGood, RelayGood, RelayRow
  <2> QED
    BY <2>1, <2>2 DEF BridgeTypeOK, BridgeInv, BridgeShapes, ChatGood, DestKnown
<1>3. BridgeInv /\ DestKnown /\ [BridgeNext]_bridgeVars => DestKnown'
  BY DestStep
<1> QED
  BY <1>1, <1>2, <1>3, BridgeInit_Inv, BridgeNext_Inv, PTL DEF BridgeSpec
=============================================================================
