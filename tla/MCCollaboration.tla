--------------------------- MODULE MCCollaboration ---------------------------
(***************************************************************************)
(* The modules about how work is shared and shown, for TLC: verifiers and  *)
(* their offers, sub-Tasks and joins, deliveries to chat, the bridge,      *)
(* commands from chat, brainstorms, documents and Artifacts.  Each         *)
(* behaviour is one of one module (`part`); the others stay in an initial  *)
(* state.                                                                  *)
(***************************************************************************)
EXTENDS VerifierAssignment, Subtasks, Delivery, Bridge, InboundCommands, Brainstorm,
        Documents, Artifacts, TLC

CONSTANTS p1, p2, m1, m2

VARIABLE part

-----------------------------------------------------------------------------
\* Two verifiers: an Agent that is less busy after one that is busier, and an
\* Agent beside a Human.
Seen(h, r, l) ==
  [human |-> h, ready |-> r, capability |-> TRUE, scoped |-> TRUE, independent |-> TRUE,
   allowed |-> TRUE, load |-> l, capacity |-> 2]
MCStandings ==
  {<<Seen(FALSE, TRUE, 1), Seen(FALSE, TRUE, 0)>>, <<Seen(FALSE, TRUE, 2), Seen(TRUE, FALSE, 2)>>}

MCPolicies ==
  {[mode |-> "ALL", quorum |-> 1, required |-> {}], [mode |-> "ANY", quorum |-> 1, required |-> {}],
   [mode |-> "QUORUM", quorum |-> 2, required |-> {"k1"}]}
MCGraphLimits == [delegation_depth |-> 2, max_fan_out |-> 2, concurrent_subtasks |-> 2]

MCDrainOf == [d \in {"c", "n"} |-> IF d = "c" THEN "channels" ELSE "notifications"]

Ask(v, a) == [verb |-> v, who |-> a]
MCAsked ==
  {<<Ask("contribute", "a1"), Ask("contribute", "h1"), x, Ask("pause", "h1"), Ask("resume", "h1")>> :
     x \in {Ask("join", "a2"), Ask("contribute", "a1"), Ask("close", "h1")}}
  \cup {<<Ask("summarize", "h1"), Ask("approve", "h1"), Ask("decide", "h1"), Ask("taskify", "h1"),
          Ask("taskify", "h1")>>}
MCLimitChoices == {[consecutive |-> 1, perAgent |-> 1, total |-> 2]}

MCSniffOf == [b \in {"b1", "b2"} |-> IF b = "b1" THEN "text" ELSE "zip"]

\* The statuses in which a command of a message has something to do.
Fits(verb) ==
  CASE verb \in {"create", "delegate"} -> {"OPEN"}
    [] verb \in {"accept", "reassign"} -> {"DELEGATED"}
    [] verb \in {"progress", "submit"} -> {"ACCEPTED"}
    [] verb = "cancel" -> {"DELEGATED", "RUNNING"}
    [] verb = "complete" -> {"VERIFIED"}
    [] OTHER -> {"RUNNING"}
MCMix ==
  {<<"slash", "create">>, <<"slash", "delegate">>, <<"slash", "reassign">>, <<"telegram", "accept">>,
   <<"slash", "progress">>, <<"bot", "progress">>, <<"telegram", "submit">>, <<"button", "accept">>,
   <<"bot", "cancel">>, <<"button", "cancel">>, <<"telegram", "cancel">>, <<"button", "verdict">>, <<"slash", "verdict">>,
   <<"slash", "complete">>, <<"telegram", "request">>, <<"slash", "decide">>, <<"slash", "verify">>}
MCMessage ==
  {[source |-> x[1], verb |-> x[2], linked |-> x # <<"telegram", "submit">>,
    policy |-> IF x = <<"telegram", "request">> THEN "read_only" ELSE "open"] : x \in MCMix}

-----------------------------------------------------------------------------
Parts == {"verifiers", "subtasks", "delivery", "bridge", "inbound", "brainstorm", "documents", "artifacts"}

allVars == <<part, verifierVars, subtasksVars, deliveryVars, bridgeVars, inboundVars, brainstormVars,
             docVars, artifactsVars>>

\* Each module with what it starts from, and the one state it rests in while
\* another one runs.
MCInit ==
  /\ part \in Parts
  /\ VerifierInit /\ ArtifactsInit
  /\ SubtasksInit /\ (part # "subtasks" => joinPolicy = CHOOSE p \in JoinPolicies : TRUE)
  /\ DeliveryInit
  /\ IF part = "delivery" THEN \/ taskSeq = 0 /\ notes = <<MaxNotes, MaxNotes>> /\ pref = "plain"
                               \/ taskSeq = MaxEvents /\ notes = <<0, 1>> /\ pref = "digest"
     ELSE taskSeq = 0 /\ notes = <<0, 0>> /\ pref = "plain"
  /\ BridgeInit
  /\ ~bridge.botAccount /\ bridge.topics /\ ~bridge.showSender
  /\ IF part = "bridge" THEN \/ upsets = <<0, MaxChanges>> /\ bridge.direction = "both"
                             \/ upsets = <<MaxFailures, 0>> /\ bridge.direction = "mm"
     ELSE upsets = <<0, 0>> /\ bridge.direction = "both"
  /\ BrainstormInit
  /\ session.limits.total = 2 /\ session.seats = <<"a1", "h1">>
  /\ part # "brainstorm" => request = CHOOSE a \in Asked : TRUE
  /\ DocInit /\ (part # "documents" => subject = "task")
  /\ message \in IF part = "inbound" THEN [Messages -> MCMessage]
                 ELSE {[m \in Messages |-> CHOOSE x \in MCMessage : TRUE]}
  /\ InboundInit
  /\ (taskStatus = "RUNNING") = (runStatus # "none")
  /\ IF part = "inbound" THEN \E m \in Messages : taskStatus \in Fits(message[m].verb)
     ELSE taskStatus = "OPEN"

MCNext ==
  /\ UNCHANGED part
  /\ \/ /\ part = "verifiers" /\ VerifierNext
        /\ UNCHANGED <<subtasksVars, deliveryVars, bridgeVars, inboundVars, brainstormVars,
                       docVars, artifactsVars>>
     \/ /\ part = "subtasks" /\ SubtasksNext
        /\ UNCHANGED <<verifierVars, deliveryVars, bridgeVars, inboundVars, brainstormVars,
                       docVars, artifactsVars>>
     \/ /\ part = "delivery" /\ DeliveryNext
        /\ UNCHANGED <<verifierVars, subtasksVars, bridgeVars, inboundVars, brainstormVars,
                       docVars, artifactsVars>>
     \/ /\ part = "bridge" /\ BridgeNext
        /\ UNCHANGED <<verifierVars, subtasksVars, deliveryVars, inboundVars, brainstormVars,
                       docVars, artifactsVars>>
     \/ /\ part = "inbound" /\ InboundNext
        /\ UNCHANGED <<verifierVars, subtasksVars, deliveryVars, bridgeVars, brainstormVars,
                       docVars, artifactsVars>>
     \/ /\ part = "brainstorm" /\ BrainstormNext
        /\ UNCHANGED <<verifierVars, subtasksVars, deliveryVars, bridgeVars, inboundVars,
                       docVars, artifactsVars>>
     \/ /\ part = "documents" /\ DocNext
        /\ UNCHANGED <<verifierVars, subtasksVars, deliveryVars, bridgeVars, inboundVars,
                       brainstormVars, artifactsVars>>
     \/ /\ part = "artifacts" /\ ArtifactsNext
        /\ UNCHANGED <<verifierVars, subtasksVars, deliveryVars, bridgeVars, inboundVars,
                       brainstormVars, docVars>>

MCSpec == MCInit /\ [][MCNext]_allVars

Symmetry == Permutations({p1, p2}) \cup Permutations({m1, m2})

\* Every variable of every module keeps its shape (the modules that do not run
\* keep their first state).
CollaborationTypeOK ==
  /\ part = "verifiers" => VerifierTypeOK
  /\ part = "subtasks" => SubtasksTypeOK
  /\ part = "delivery" => DeliveryTypeOK
  /\ part = "bridge" => BridgeTypeOK
  /\ part = "inbound" => InboundTypeOK
  /\ part = "brainstorm" => BrainstormTypeOK
  /\ part = "documents" => DocTypeOK
  /\ part = "artifacts" => ArtifactsTypeOK
=============================================================================
