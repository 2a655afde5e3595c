------------------------ MODULE CollaborationProofs ------------------------
(***************************************************************************)
(* Proofs about how work is shared and shown, for any number of concurrent *)
(* requests: the join of sub-Tasks, Artifacts, documents, brainstorms.     *)
(***************************************************************************)
EXTENDS MCCollaboration, VerifierProofs, ChannelProofs, FiniteSetTheorems, SequenceTheorems, TLAPS

-----------------------------------------------------------------------------
(***************************************************************************)
(* Sub-Tasks: the inductive invariant, by transaction.  A transaction that *)
(* has not after the join recorded has loaded a sequence number that is no  *)
(* longer the next one as soon as another transaction records it.          *)
(***************************************************************************)
TripRow == [step : {"idle", "check", "insert", "load", "join", "append", "close"},
            what : {"none", "create", "verify", "complete", "close"},
            kid : Kids \cup {ParentTask} \cup Forebears, actor : JoinActors \cup {"none"},
            status : ParentStatuses, seq : Nat, joined : BOOLEAN, found : SUBSET Kids]

\* What a recorded join says: children that are done, enough for the policy.
EnoughFor(p, children) ==
  /\ children # {}
  /\ p.mode = "QUORUM" => Cardinality(children) >= p.quorum
  /\ p.mode # "ANY" => p.required \subseteq children

TripGood(t, parent, kids, recorded, p) ==
  /\ t \in TripRow
  /\ t.seq <= parent.seq
  /\ t.step = "insert" => t.kid \in Kids
  /\ t.step \in {"load", "join", "append"} => t.kid \in Kids /\ t.what \in {"verify", "complete"}
  /\ t.step \in {"join", "append"} /\ ~t.joined /\ recorded # <<>> => t.seq < parent.seq
  /\ t.step = "append" =>
       /\ ~t.joined /\ EnoughFor(p, t.found)
       /\ \A k \in t.found : k = t.kid \/ kids[k] \in ChildDone
  /\ (t.step = "close" \/ (t.step = "check" /\ t.what = "close")) =>
       t.seq < parent.seq \/ parent.status = "VERIFIED"

SubtasksInv ==
  /\ joinPolicy \in JoinPolicies
  /\ parentRow \in [status : ParentStatuses, seq : Nat \ {0}]
  /\ parentRow.seq <= MaxParentSeq + Len(joins) + (IF parentRow.status = "COMPLETED" THEN 1 ELSE 0)
  /\ kid \in [Kids -> KidStatuses]
  /\ joins \in Seq([who : JoinActors \cup {"none"}, children : SUBSET Kids]) /\ Len(joins) <= 1
  /\ joinRow = IF joins = <<>> THEN {} ELSE joins[1].children
  /\ joins # <<>> => /\ EnoughFor(joinPolicy, joins[1].children)
                     /\ \A k \in joins[1].children : kid[k] \in ChildDone
  /\ DOMAIN crew = Crew
  /\ \A c \in Crew : TripGood(crew[c], parentRow, kid, joins, joinPolicy)

\* The idle transaction is good whatever the rest says.
LEMMA NoTripGood ==
  ASSUME NEW parent, parent.seq \in Nat, NEW kids, NEW recorded, NEW p
  PROVE  TripGood(NoTrip, parent, kids, recorded, p)
<1>1. /\ NoTrip.step = "idle" /\ NoTrip.seq = 0 /\ NoTrip.kid = ParentTask
      /\ NoTrip \in TripRow
  BY DEF NoTrip, TripRow, ParentStatuses
<1> QED
  BY <1>1 DEF TripGood

\* A transaction that does not move: children that are done stay done, the
\* parent's stream only grows, a join recorded or a parent that leaves
\* VERIFIED makes it longer.
LEMMA OtherTripKeeps ==
  ASSUME NEW t, NEW parent, NEW kids, NEW recorded, NEW p, TripGood(t, parent, kids, recorded, p),
         NEW parent2, NEW kids2, NEW recorded2,
         parent.seq \in Nat, parent2.seq \in Nat, parent.seq <= parent2.seq,
         recorded2 = recorded \/ parent.seq < parent2.seq,
         parent.status = "VERIFIED" => (parent2.status = "VERIFIED" \/ parent.seq < parent2.seq),
         \A k \in Kids : kids[k] \in ChildDone => kids2[k] \in ChildDone
  PROVE  TripGood(t, parent2, kids2, recorded2, p)
<1>1. /\ t \in TripRow /\ t.seq \in Nat /\ t.found \subseteq Kids /\ t.seq <= parent.seq
      /\ t.seq <= parent2.seq /\ (parent.seq < parent2.seq => t.seq < parent2.seq)
      /\ (t.seq < parent.seq => t.seq < parent2.seq)
  BY DEF TripGood, TripRow
<1>2. /\ t.step = "insert" => t.kid \in Kids
      /\ t.step \in {"load", "join", "append"} => t.kid \in Kids /\ t.what \in {"verify", "complete"}
  BY DEF TripGood
<1>3. t.step \in {"join", "append"} /\ ~t.joined /\ recorded2 # <<>> => t.seq < parent2.seq
  BY <1>1 DEF TripGood
<1>4. t.step = "append" =>
       /\ ~t.joined /\ EnoughFor(p, t.found)
       /\ \A k \in t.found : k = t.kid \/ kids2[k] \in ChildDone
  BY <1>1 DEF TripGood
<1>5. (t.step = "close" \/ (t.step = "check" /\ t.what = "close")) =>
       t.seq < parent2.seq \/ parent2.status = "VERIFIED"
  BY <1>1 DEF TripGood
<1> QED
  BY <1>1, <1>2, <1>3, <1>4, <1>5 DEF TripGood

\* A child's own Event, once committed, leaves it done.
LEMMA SeenKeeps ==
  ASSUME NEW kids \in [Kids -> KidStatuses], NEW k \in Kids, NEW s \in ChildDone
  PROVE  LET after == [kids EXCEPT ![k] = s]
         IN  /\ after \in [Kids -> KidStatuses] /\ after[k] = s
             /\ \A j \in Kids : kids[j] \in ChildDone => after[j] \in ChildDone
             /\ \A j \in Kids : after[j] \in ChildDone => j = k \/ kids[j] \in ChildDone
BY DEF ChildDone, KidStatuses

\* A join that holds is held by enough children.
LEMMA JoinIsEnough ==
  ASSUME NEW p \in JoinPolicies, NEW kids, EvaluateJoin(p, kids)
  PROVE  EnoughFor(p, DoneIn(kids))
<1>1. p.mode \in {"ALL", "ANY", "QUORUM"} /\ p.quorum \in Nat \ {0}
  BY SubtasksAssumption
<1>2. CASE p.mode = "ALL"
  BY <1>2 DEF EvaluateJoin, EnoughFor
<1>3. CASE p.mode = "ANY"
  BY <1>3 DEF EvaluateJoin, EnoughFor
<1>4. CASE p.mode = "QUORUM"
  <2>1. Cardinality(DoneIn(kids)) >= p.quorum /\ p.required \subseteq DoneIn(kids)
    BY <1>4 DEF EvaluateJoin
  <2>2. DoneIn(kids) # {}
    <3> SUFFICES ASSUME DoneIn(kids) = {} PROVE FALSE
      OBVIOUS
    <3>1. Cardinality(DoneIn(kids)) = 0
      BY FS_EmptySet
    <3> QED
      BY <1>1, <2>1, <3>1
  <2> QED
    BY <1>4, <2>1, <2>2 DEF EnoughFor
<1> QED
  BY <1>1, <1>2, <1>3, <1>4

\* The first of a sequence that is not empty.
LEMMA FirstIsIn ==
  ASSUME NEW S, NEW s \in Seq(S), s # <<>>
  PROVE  s[1] \in S
<1>1. Len(s) \in Nat /\ Len(s) # 0
  OBVIOUS
<1> QED
  BY <1>1

\* A recorded join names children.
LEMMA JoinedAreKids ==
  ASSUME SubtasksInv, joins # <<>>
  PROVE  joins[1].children \subseteq Kids
<1> DEFINE S == [who : JoinActors \cup {"none"}, children : SUBSET Kids]
<1>1. joins \in Seq(S)
  BY DEF SubtasksInv
<1>2. joins[1] \in S
  <2> HIDE DEF S
  <2> QED
    BY <1>1, FirstIsIn
<1> QED
  BY ONLY <1>2

\* One transaction moves, and what the others rely on only grows.
LEMMA TripKeeps ==
  ASSUME SubtasksInv, NEW c \in Crew, NEW t, Trip(c, t),
         TripGood(t, parentRow', kid', joins', joinPolicy),
         UNCHANGED joinPolicy,
         parentRow' \in [status : ParentStatuses, seq : Nat \ {0}],
         parentRow'.seq <= MaxParentSeq + Len(joins')
                             + (IF parentRow'.status = "COMPLETED" THEN 1 ELSE 0),
         parentRow.seq <= parentRow'.seq,
         joins' = joins \/ parentRow.seq < parentRow'.seq,
         parentRow.status = "VERIFIED" =>
           (parentRow'.status = "VERIFIED" \/ parentRow.seq < parentRow'.seq),
         kid' \in [Kids -> KidStatuses],
         \A k \in Kids : kid[k] \in ChildDone => kid'[k] \in ChildDone,
         joins' \in Seq([who : JoinActors \cup {"none"}, children : SUBSET Kids]),
         Len(joins') <= 1,
         joinRow' = IF joins' = <<>> THEN {} ELSE joins'[1].children,
         joins' # <<>> => /\ EnoughFor(joinPolicy, joins'[1].children)
                          /\ \A k \in joins'[1].children : kid'[k] \in ChildDone
  PROVE  SubtasksInv'
<1>1. crew' = [crew EXCEPT ![c] = t] /\ DOMAIN crew = Crew
  BY DEF Trip, SubtasksInv
<1>2. parentRow.seq \in Nat /\ parentRow'.seq \in Nat
  BY DEF SubtasksInv
<1>3. ASSUME NEW d \in Crew PROVE TripGood(crew'[d], parentRow', kid', joins', joinPolicy)
  <2>1. CASE d = c
    BY <1>1, <2>1
  <2>2. CASE d # c
    <3>1. crew'[d] = crew[d] /\ TripGood(crew[d], parentRow, kid, joins, joinPolicy)
      BY <1>1, <2>2 DEF SubtasksInv
    <3>2. TripGood(crew[d], parentRow', kid', joins', joinPolicy)
      BY <1>2, <3>1, OtherTripKeeps
    <3> QED
      BY <3>1, <3>2
  <2> QED
    BY <2>1, <2>2
<1>4. DOMAIN crew' = Crew
  BY <1>1
<1>5. joinPolicy' = joinPolicy /\ joinPolicy \in JoinPolicies
  BY DEF SubtasksInv
<1> QED
  BY <1>3, <1>4, <1>5 DEF SubtasksInv

\* Every action keeps the invariant.
LEMMA SubtasksStepKeeps == SubtasksInv /\ [SubtasksNext]_subtasksVars => SubtasksInv'
<1> SUFFICES ASSUME SubtasksInv, [SubtasksNext]_subtasksVars PROVE SubtasksInv'
  OBVIOUS
<1>0. /\ joinPolicy \in JoinPolicies
      /\ parentRow \in [status : ParentStatuses, seq : Nat \ {0}]
      /\ parentRow.seq <= MaxParentSeq + Len(joins)
                            + (IF parentRow.status = "COMPLETED" THEN 1 ELSE 0)
      /\ kid \in [Kids -> KidStatuses]
      /\ joins \in Seq([who : JoinActors \cup {"none"}, children : SUBSET Kids])
      /\ Len(joins) <= 1
      /\ joinRow = IF joins = <<>> THEN {} ELSE joins[1].children
      /\ joins # <<>> => /\ EnoughFor(joinPolicy, joins[1].children)
                         /\ \A k \in joins[1].children : kid[k] \in ChildDone
      /\ DOMAIN crew = Crew
      /\ \A c \in Crew : TripGood(crew[c], parentRow, kid, joins, joinPolicy)
  BY DEF SubtasksInv
<1>1. parentRow.seq \in Nat /\ MaxParentSeq \in Nat /\ parentRow.status \in ParentStatuses
  BY <1>0, SubtasksAssumption
<1>2. ASSUME NEW c \in Crew, NEW t, Trip(c, t), TripGood(t, parentRow, kid, joins, joinPolicy),
             UNCHANGED <<joinPolicy, parentRow, kid, joins, joinRow>>
      PROVE  SubtasksInv'
  <2>1. /\ joinPolicy' = joinPolicy /\ parentRow' = parentRow /\ kid' = kid
        /\ joins' = joins /\ joinRow' = joinRow
    BY <1>2
  <2>2. \A c2 \in Crew : TripGood(crew'[c2], parentRow, kid, joins, joinPolicy)
    BY <1>0, <1>2 DEF Trip
  <2>3. DOMAIN crew' = Crew
    BY <1>0, <1>2 DEF Trip
  <2> QED
    BY <1>0, <2>1, <2>2, <2>3 DEF SubtasksInv
<1>3. ASSUME NEW c \in Crew, EndTrip(c), UNCHANGED <<joinPolicy, parentRow, kid, joins, joinRow>>
      PROVE  SubtasksInv'
  BY <1>1, <1>2, <1>3, NoTripGood DEF EndTrip
<1>4. ASSUME NEW c \in Crew, NEW k \in Kids \cup {ParentTask} \cup Forebears, BeginCreate(c, k)
      PROVE  SubtasksInv'
  <2> DEFINE t == [NoTrip EXCEPT !.step = "check", !.what = "create", !.kid = k,
                                 !.status = parentRow.status]
  <2>1. t \in TripRow /\ t.step = "check" /\ t.what = "create" /\ t.seq = 0
    BY <1>1 DEF NoTrip, TripRow, ParentStatuses
  <2>2. Trip(c, t) /\ UNCHANGED <<joinPolicy, parentRow, kid, joins, joinRow>>
    BY <1>4 DEF BeginCreate
  <2> HIDE DEF t
  <2>3. TripGood(t, parentRow, kid, joins, joinPolicy)
    BY <1>1, <2>1 DEF TripGood
  <2> QED
    BY <1>2, <2>2, <2>3
<1>5. ASSUME NEW c \in Crew, CheckSubtaskCreation(c) PROVE SubtasksInv'
  <2> DEFINE t == [crew[c] EXCEPT !.step = "insert"]
  <2>1. /\ crew[c].step = "check" /\ UNCHANGED <<joinPolicy, parentRow, kid, joins, joinRow>>
        /\ (ValidateNewChild(crew[c].kid, crew[c].status, kid) /\ Trip(c, t)) \/ EndTrip(c)
    BY <1>5 DEF CheckSubtaskCreation
  <2>2. CASE ValidateNewChild(crew[c].kid, crew[c].status, kid) /\ Trip(c, t)
    <3>1. crew[c] \in TripRow /\ crew[c].seq <= parentRow.seq
      BY <1>0 DEF TripGood
    <3>2. crew[c].kid \in Kids
      BY <2>2, <3>1 DEF ValidateNewChild, TripRow
    <3>3. t \in TripRow /\ t.step = "insert" /\ t.seq = crew[c].seq /\ t.kid = crew[c].kid
      BY <3>1 DEF TripRow
    <3> HIDE DEF t
    <3>4. TripGood(t, parentRow, kid, joins, joinPolicy)
      BY <3>1, <3>2, <3>3 DEF TripGood
    <3> QED
      BY <1>2, <2>1, <2>2, <3>4
  <2> QED
    BY <1>3, <2>1, <2>2
<1>6. ASSUME NEW c \in Crew, InsertSubtask(c) PROVE SubtasksInv'
  <2>1. crew[c].kid \in Kids
    BY <1>0, <1>6 DEF InsertSubtask, TripGood
  <2>2. /\ kid' = [kid EXCEPT ![crew[c].kid] = IF @ = "none" THEN "OPEN" ELSE @]
        /\ Trip(c, NoTrip) /\ UNCHANGED <<joinPolicy, parentRow, joins, joinRow>>
    BY <1>6 DEF InsertSubtask, EndTrip
  <2>3. /\ kid' \in [Kids -> KidStatuses]
        /\ \A k \in Kids : kid[k] \in ChildDone => kid'[k] \in ChildDone
    BY <1>0, <2>1, <2>2 DEF KidStatuses, ChildDone
  <2>4. TripGood(NoTrip, parentRow', kid', joins', joinPolicy)
    BY <1>1, <2>2, NoTripGood
  <2>5. joins # <<>> => joins[1].children \subseteq Kids
    BY JoinedAreKids
  <2>6. joins' # <<>> => /\ EnoughFor(joinPolicy, joins'[1].children)
                         /\ \A k \in joins'[1].children : kid'[k] \in ChildDone
    BY <1>0, <2>2, <2>3, <2>5
  <2>7. /\ parentRow' \in [status : ParentStatuses, seq : Nat \ {0}]
        /\ parentRow'.seq <= MaxParentSeq + Len(joins')
                               + (IF parentRow'.status = "COMPLETED" THEN 1 ELSE 0)
        /\ parentRow.seq <= parentRow'.seq /\ joins' = joins
        /\ (parentRow.status = "VERIFIED" => parentRow'.status = "VERIFIED")
        /\ joins' \in Seq([who : JoinActors \cup {"none"}, children : SUBSET Kids])
        /\ Len(joins') <= 1
        /\ joinRow' = IF joins' = <<>> THEN {} ELSE joins'[1].children
    BY <1>0, <1>1, <2>2
  <2> QED
    BY <2>2, <2>3, <2>4, <2>6, <2>7, TripKeeps
<1>7. ASSUME NEW k \in Kids, CancelSubtask(k) PROVE SubtasksInv'
  <2>1. /\ kid[k] = "OPEN" /\ kid' = [kid EXCEPT ![k] = "CANCELLED"]
        /\ UNCHANGED <<joinPolicy, parentRow, joins, joinRow, crew>>
    BY <1>7 DEF CancelSubtask
  <2>2. /\ kid' \in [Kids -> KidStatuses]
        /\ \A j \in Kids : kid[j] \in ChildDone => kid'[j] \in ChildDone
    BY <1>0, <2>1 DEF KidStatuses, ChildDone
  <2>3. ASSUME NEW c \in Crew PROVE TripGood(crew[c], parentRow, kid', joins, joinPolicy)
    BY <1>0, <1>1, <2>2, OtherTripKeeps
  <2>4. joins # <<>> => joins[1].children \subseteq Kids
    BY JoinedAreKids
  <2> QED
    BY <1>0, <2>1, <2>2, <2>3, <2>4 DEF SubtasksInv
<1>8. ASSUME NEW c \in Crew, NEW k \in Kids, NEW what \in {"verify", "complete"},
             NEW who \in JoinActors, BeginFinish(c, k, what, who)
      PROVE  SubtasksInv'
  <2> DEFINE t == [NoTrip EXCEPT !.step = "load", !.what = what, !.kid = k, !.actor = who]
  <2>1. t \in TripRow /\ t.step = "load" /\ t.what = what /\ t.kid = k /\ t.seq = 0
    BY DEF NoTrip, TripRow, ParentStatuses
  <2>2. Trip(c, t) /\ UNCHANGED <<joinPolicy, parentRow, kid, joins, joinRow>>
    BY <1>8 DEF BeginFinish
  <2> HIDE DEF t
  <2>3. TripGood(t, parentRow, kid, joins, joinPolicy)
    BY <1>1, <2>1 DEF TripGood
  <2> QED
    BY <1>2, <2>2, <2>3
<1>9. ASSUME NEW c \in Crew, LoadParent(c) PROVE SubtasksInv'
  <2> DEFINE t == [crew[c] EXCEPT !.step = "join", !.seq = parentRow.seq,
                                  !.joined = (joins # <<>>)]
  <2>1. crew[c] \in TripRow /\ crew[c].kid \in Kids /\ crew[c].what \in {"verify", "complete"}
    BY <1>0, <1>9 DEF LoadParent, TripGood
  <2>2. /\ t \in TripRow /\ t.step = "join" /\ t.what = crew[c].what /\ t.kid = crew[c].kid
        /\ t.seq = parentRow.seq /\ (t.joined <=> joins # <<>>)
    BY <1>1, <2>1 DEF TripRow
  <2>3. Trip(c, t) /\ UNCHANGED <<joinPolicy, parentRow, kid, joins, joinRow>>
    BY <1>9 DEF LoadParent
  <2> HIDE DEF t
  <2>4. TripGood(t, parentRow, kid, joins, joinPolicy)
    BY <1>1, <2>1, <2>2 DEF TripGood
  <2> QED
    BY <1>2, <2>3, <2>4
\* What the transaction of a child sees and commits.
<1>10. ASSUME NEW c \in Crew, crew[c].step \in {"join", "append"}
       PROVE  /\ crew[c] \in TripRow /\ crew[c].kid \in Kids
              /\ KidsSeen(c) \in [Kids -> KidStatuses] /\ KidsSeen(c)[crew[c].kid] \in ChildDone
              /\ \A j \in Kids : kid[j] \in ChildDone => KidsSeen(c)[j] \in ChildDone
              /\ \A j \in Kids : KidsSeen(c)[j] \in ChildDone => j = crew[c].kid \/ kid[j] \in ChildDone
  <2> DEFINE s == IF crew[c].what = "verify" THEN "VERIFIED" ELSE "COMPLETED"
  <2>1. crew[c] \in TripRow /\ crew[c].kid \in Kids
    BY <1>0, <1>10 DEF TripGood
  <2>2. s \in ChildDone /\ KidsSeen(c) = [kid EXCEPT ![crew[c].kid] = s]
    BY DEF ChildDone, KidsSeen
  <2> HIDE DEF s
  <2> QED
    BY <1>0, <2>1, <2>2, SeenKeeps
<1>11. ASSUME NEW c \in Crew, crew[c].step \in {"join", "append"}, CommitChild(c),
              UNCHANGED <<joinPolicy, parentRow, joins, joinRow>>
       PROVE  SubtasksInv'
  <2>1. kid' = KidsSeen(c) /\ Trip(c, NoTrip)
    BY <1>11 DEF CommitChild, EndTrip
  <2>2. TripGood(NoTrip, parentRow', kid', joins', joinPolicy)
    BY <1>1, <1>11, NoTripGood
  <2>3. /\ kid' \in [Kids -> KidStatuses]
        /\ \A k \in Kids : kid[k] \in ChildDone => kid'[k] \in ChildDone
    BY <1>10, <1>11, <2>1
  <2>4. joins # <<>> => joins[1].children \subseteq Kids
    BY JoinedAreKids
  <2>5. joins' # <<>> => /\ EnoughFor(joinPolicy, joins'[1].children)
                         /\ \A k \in joins'[1].children : kid'[k] \in ChildDone
    BY <1>0, <1>11, <2>3, <2>4
  <2>6. /\ parentRow' \in [status : ParentStatuses, seq : Nat \ {0}]
        /\ parentRow'.seq <= MaxParentSeq + Len(joins')
                               + (IF parentRow'.status = "COMPLETED" THEN 1 ELSE 0)
        /\ parentRow.seq <= parentRow'.seq /\ joins' = joins
        /\ (parentRow.status = "VERIFIED" => parentRow'.status = "VERIFIED")
        /\ joins' \in Seq([who : JoinActors \cup {"none"}, children : SUBSET Kids])
        /\ Len(joins') <= 1
        /\ joinRow' = IF joins' = <<>> THEN {} ELSE joins'[1].children
    BY <1>0, <1>1, <1>11
  <2> QED
    BY <1>11, <2>1, <2>2, <2>3, <2>5, <2>6, TripKeeps
<1>12. ASSUME NEW c \in Crew, JudgeJoin(c) PROVE SubtasksInv'
  <2>1. crew[c].step = "join" /\ UNCHANGED <<joinPolicy, parentRow, joins, joinRow>>
    BY <1>12 DEF JudgeJoin
  <2>2. CASE EvaluateJoin(joinPolicy, KidsSeen(c)) /\ ~crew[c].joined
    <3> DEFINE t == [crew[c] EXCEPT !.step = "append", !.found = DoneIn(KidsSeen(c))]
    <3>1. Trip(c, t) /\ UNCHANGED kid
      BY <1>12, <2>2 DEF JudgeJoin
    <3>2. DoneIn(KidsSeen(c)) \subseteq Kids /\ EnoughFor(joinPolicy, DoneIn(KidsSeen(c)))
      BY <1>0, <2>2, JoinIsEnough DEF DoneIn
    <3>3. \A k \in DoneIn(KidsSeen(c)) : k = crew[c].kid \/ kid[k] \in ChildDone
      BY <1>10, <2>1 DEF DoneIn
    <3>4. /\ crew[c] \in TripRow /\ crew[c].kid \in Kids /\ crew[c].what \in {"verify", "complete"}
          /\ crew[c].seq <= parentRow.seq /\ (joins # <<>> => crew[c].seq < parentRow.seq)
      BY <1>0, <2>1, <2>2 DEF TripGood
    <3>5. /\ t \in TripRow /\ t.step = "append" /\ t.what = crew[c].what /\ t.kid = crew[c].kid
          /\ t.seq = crew[c].seq /\ t.joined = crew[c].joined /\ t.found = DoneIn(KidsSeen(c))
      BY <3>2, <3>4 DEF TripRow
    <3> HIDE DEF t
    <3>6. TripGood(t, parentRow, kid, joins, joinPolicy)
      BY <2>2, <3>2, <3>3, <3>4, <3>5 DEF TripGood
    <3> QED
      BY <1>2, <2>1, <3>1, <3>6
  <2>3. CASE ~(EvaluateJoin(joinPolicy, KidsSeen(c)) /\ ~crew[c].joined)
    <3>1. CommitChild(c)
      BY <1>12, <2>3 DEF JudgeJoin
    <3> QED
      BY <1>11, <2>1, <3>1
  <2> QED
    BY <2>2, <2>3
<1>13. ASSUME NEW c \in Crew, AppendJoin(c) PROVE SubtasksInv'
  <2> DEFINE w == crew[c]
  <2>1. w.step = "append" /\ UNCHANGED joinPolicy
    BY <1>13 DEF AppendJoin
  <2>2. CASE JoinOfActor(c) # {}
    <3>1. joinRow' = joinRow
      <4>1. \A i \in JoinOfActor(c) : i = 1 /\ joins # <<>>
        BY <1>0 DEF JoinOfActor
      <4>2. joinRow' = IF \E i \in JoinOfActor(c) : joins[i].children = w.found
                       THEN w.found ELSE joinRow
        BY <1>13, <2>2 DEF AppendJoin
      <4>3. CASE \E i \in JoinOfActor(c) : joins[i].children = w.found
        BY <1>0, <4>1, <4>2, <4>3
      <4> QED
        BY <4>2, <4>3
    <3>2. CommitChild(c) /\ UNCHANGED <<parentRow, joins>>
      BY <1>13, <2>2 DEF AppendJoin
    <3> QED
      BY <1>11, <2>1, <3>1, <3>2
  <2>3. CASE JoinOfActor(c) = {} /\ SeqStillNext(c)
    <3> DEFINE entry == [who |-> w.actor, children |-> w.found]
    <3>1. /\ joins' = Append(joins, entry) /\ joinRow' = w.found
          /\ parentRow' = [parentRow EXCEPT !.seq = @ + 1]
          /\ kid' = KidsSeen(c) /\ Trip(c, NoTrip)
      BY <1>13, <2>3 DEF AppendJoin, CommitChild, EndTrip
    <3>2. /\ w \in TripRow /\ ~w.joined /\ EnoughFor(joinPolicy, w.found)
          /\ \A k \in w.found : k = w.kid \/ kid[k] \in ChildDone
          /\ (joins # <<>> => w.seq < parentRow.seq)
      BY <1>0, <2>1 DEF TripGood
    <3>3. w.seq = parentRow.seq
      BY <2>3 DEF SeqStillNext
    <3>4. joins = <<>>
      BY <1>1, <3>2, <3>3
    <3>5. /\ entry \in [who : JoinActors \cup {"none"}, children : SUBSET Kids]
          /\ entry.children = w.found
      BY <3>2 DEF TripRow
    <3> HIDE DEF entry
    <3>6. /\ joins' \in Seq([who : JoinActors \cup {"none"}, children : SUBSET Kids])
          /\ Len(joins') = 1 /\ joins' # <<>> /\ joins'[1] = entry
      BY <3>1, <3>4, <3>5
    <3>7. /\ parentRow' \in [status : ParentStatuses, seq : Nat \ {0}]
          /\ parentRow'.seq = parentRow.seq + 1 /\ parentRow'.status = parentRow.status
      BY <1>0, <3>1
    <3>8. /\ kid' \in [Kids -> KidStatuses] /\ w.found \subseteq Kids
          /\ \A k \in Kids : kid[k] \in ChildDone => kid'[k] \in ChildDone
          /\ \A k \in w.found : kid'[k] \in ChildDone
      BY <1>10, <2>1, <3>1, <3>2 DEF TripRow
    <3>9. TripGood(NoTrip, parentRow', kid', joins', joinPolicy)
      BY <1>1, <3>7, NoTripGood
    <3>10. /\ parentRow.seq <= parentRow'.seq /\ parentRow.seq < parentRow'.seq
           /\ parentRow'.seq <= MaxParentSeq + Len(joins')
                                  + (IF parentRow'.status = "COMPLETED" THEN 1 ELSE 0)
      BY <1>0, <1>1, <3>4, <3>6, <3>7
    <3>11. joinRow' = joins'[1].children /\ EnoughFor(joinPolicy, joins'[1].children)
      BY <3>1, <3>2, <3>5, <3>6
    <3> QED
      BY <2>1, <3>1, <3>5, <3>6, <3>7, <3>8, <3>9, <3>10, <3>11, TripKeeps
  <2>4. CASE JoinOfActor(c) = {} /\ ~SeqStillNext(c)
    BY <1>3, <1>13, <2>4 DEF AppendJoin
  <2> QED
    BY <2>2, <2>3, <2>4
\* The parent moves on, and no transaction of ours does.
<1>14. ASSUME NEW row \in [status : ParentStatuses, seq : Nat \ {0}], parentRow' = row,
              parentRow.seq <= row.seq,
              row.seq <= MaxParentSeq + Len(joins) + (IF row.status = "COMPLETED" THEN 1 ELSE 0),
              parentRow.status = "OPEN",
              UNCHANGED <<joinPolicy, kid, joins, joinRow, crew>>
       PROVE  SubtasksInv'
  <2>1. row.seq \in Nat /\ parentRow.status # "VERIFIED"
    BY <1>14
  <2>2. ASSUME NEW c \in Crew PROVE TripGood(crew[c], row, kid, joins, joinPolicy)
    BY <1>0, <1>1, <1>14, <2>1, OtherTripKeeps
  <2> QED
    BY <1>0, <1>14, <2>2 DEF SubtasksInv
<1>15. ASSUME ParentProgress PROVE SubtasksInv'
  <2> DEFINE row == [parentRow EXCEPT !.seq = @ + 1]
  <2>1. /\ row \in [status : ParentStatuses, seq : Nat \ {0}] /\ row.seq = parentRow.seq + 1
        /\ row.status = parentRow.status
    BY <1>0
  <2>2. /\ parentRow' = row /\ parentRow.status = "OPEN" /\ parentRow.seq < MaxParentSeq
        /\ UNCHANGED <<joinPolicy, kid, joins, joinRow, crew>>
    BY <1>15 DEF ParentProgress
  <2> HIDE DEF row
  <2>3. /\ row.seq <= MaxParentSeq + Len(joins) + (IF row.status = "COMPLETED" THEN 1 ELSE 0)
        /\ parentRow.seq <= row.seq
    BY <1>0, <1>1, <2>1, <2>2
  <2> QED
    BY <1>14, <2>1, <2>2, <2>3
<1>16. ASSUME ParentVerified PROVE SubtasksInv'
  <2> DEFINE row == [parentRow EXCEPT !.status = "VERIFIED"]
  <2>1. /\ row \in [status : ParentStatuses, seq : Nat \ {0}] /\ row.seq = parentRow.seq
        /\ row.status = "VERIFIED"
    BY <1>0 DEF ParentStatuses
  <2>2. /\ parentRow' = row /\ parentRow.status = "OPEN"
        /\ UNCHANGED <<joinPolicy, kid, joins, joinRow, crew>>
    BY <1>16 DEF ParentVerified
  <2> HIDE DEF row
  <2>3. /\ row.seq <= MaxParentSeq + Len(joins) + (IF row.status = "COMPLETED" THEN 1 ELSE 0)
        /\ parentRow.seq <= row.seq
    BY <1>0, <1>1, <2>1, <2>2
  <2> QED
    BY <1>14, <2>1, <2>2, <2>3
<1>17. ASSUME ParentCancelled PROVE SubtasksInv'
  <2> DEFINE row == [status |-> "CANCELLED", seq |-> parentRow.seq + 1]
  <2>1. /\ row \in [status : ParentStatuses, seq : Nat \ {0}] /\ row.seq = parentRow.seq + 1
        /\ row.status = "CANCELLED"
    BY <1>0 DEF ParentStatuses
  <2>2. /\ parentRow' = row /\ parentRow.status = "OPEN" /\ parentRow.seq < MaxParentSeq
        /\ UNCHANGED <<joinPolicy, kid, joins, joinRow, crew>>
    BY <1>17 DEF ParentCancelled
  <2> HIDE DEF row
  <2>3. /\ row.seq <= MaxParentSeq + Len(joins) + (IF row.status = "COMPLETED" THEN 1 ELSE 0)
        /\ parentRow.seq <= row.seq
    BY <1>0, <1>1, <2>1, <2>2
  <2> QED
    BY <1>14, <2>1, <2>2, <2>3
<1>18. ASSUME NEW c \in Crew, BeginParentComplete(c) PROVE SubtasksInv'
  <2> DEFINE t == [NoTrip EXCEPT !.step = "check", !.what = "close", !.status = "VERIFIED",
                                 !.seq = parentRow.seq]
  <2>1. t \in TripRow /\ t.step = "check" /\ t.what = "close" /\ t.seq = parentRow.seq
    BY <1>1 DEF NoTrip, TripRow, ParentStatuses
  <2>2. /\ parentRow.status = "VERIFIED" /\ Trip(c, t)
        /\ UNCHANGED <<joinPolicy, parentRow, kid, joins, joinRow>>
    BY <1>18 DEF BeginParentComplete
  <2> HIDE DEF t
  <2>3. TripGood(t, parentRow, kid, joins, joinPolicy)
    BY <1>1, <2>1, <2>2 DEF TripGood
  <2> QED
    BY <1>2, <2>2, <2>3
<1>19. ASSUME NEW c \in Crew, ParentJoinCheck(c) PROVE SubtasksInv'
  <2> DEFINE t == [crew[c] EXCEPT !.step = "close"]
  <2>1. /\ crew[c].step = "check" /\ crew[c].what = "close"
        /\ UNCHANGED <<joinPolicy, parentRow, kid, joins, joinRow>> /\ (Trip(c, t) \/ EndTrip(c))
    BY <1>19 DEF ParentJoinCheck
  <2>2. /\ crew[c] \in TripRow /\ crew[c].seq <= parentRow.seq
        /\ (crew[c].seq < parentRow.seq \/ parentRow.status = "VERIFIED")
    BY <1>0, <2>1 DEF TripGood
  <2>3. t \in TripRow /\ t.step = "close" /\ t.seq = crew[c].seq
    BY <2>2 DEF TripRow
  <2> HIDE DEF t
  <2>4. TripGood(t, parentRow, kid, joins, joinPolicy)
    BY <2>2, <2>3 DEF TripGood
  <2> QED
    BY <1>2, <1>3, <2>1, <2>4
<1>20. ASSUME NEW c \in Crew, CompleteParent(c) PROVE SubtasksInv'
  <2>1. /\ crew[c].step = "close" /\ EndTrip(c) /\ UNCHANGED <<joinPolicy, kid, joins, joinRow>>
        /\ parentRow' = IF SeqStillNext(c)
                        THEN [status |-> "COMPLETED", seq |-> parentRow.seq + 1] ELSE parentRow
    BY <1>20 DEF CompleteParent
  <2>2. CASE ~SeqStillNext(c)
    BY <1>3, <2>1, <2>2
  <2>3. CASE SeqStillNext(c)
    <3>1. parentRow.status = "VERIFIED"
      BY <1>0, <1>1, <2>1, <2>3 DEF TripGood, SeqStillNext
    <3>2. /\ parentRow' \in [status : ParentStatuses, seq : Nat \ {0}]
          /\ parentRow'.seq = parentRow.seq + 1 /\ parentRow'.status = "COMPLETED"
      BY <1>0, <2>1, <2>3 DEF ParentStatuses
    <3>3. TripGood(NoTrip, parentRow', kid', joins', joinPolicy)
      BY <1>1, <3>2, NoTripGood
    <3>4. /\ parentRow.seq <= parentRow'.seq /\ parentRow.seq < parentRow'.seq
          /\ parentRow'.seq <= MaxParentSeq + Len(joins')
                                 + (IF parentRow'.status = "COMPLETED" THEN 1 ELSE 0)
      BY <1>0, <1>1, <2>1, <3>1, <3>2
    <3>5. Trip(c, NoTrip)
      BY <2>1 DEF EndTrip
    <3> QED
      BY <1>0, <2>1, <3>2, <3>3, <3>4, <3>5, TripKeeps
  <2> QED
    BY <2>2, <2>3
<1>21. ASSUME NEW c \in Crew, LoseTrip(c) PROVE SubtasksInv'
  BY <1>3, <1>21 DEF LoseTrip
<1>22. CASE UNCHANGED subtasksVars
  BY <1>22 DEF SubtasksInv, subtasksVars
<1> QED
  BY <1>4, <1>5, <1>6, <1>7, <1>8, <1>9, <1>12, <1>13, <1>15, <1>16, <1>17, <1>18, <1>19, <1>20,
     <1>21, <1>22 DEF SubtasksNext

\* Whatever order the children end in, and whoever ends them, the join is
\* recorded once, for children that are done and enough for the policy
\* (record_join_if_satisfied, parent_join_check).
THEOREM SubtasksJoinOnce == SubtasksSpec => [](SubtasksTypeOK /\ JoinRecordedOnce)
<1>1. SubtasksInit => SubtasksInv
  <2> SUFFICES ASSUME SubtasksInit PROVE SubtasksInv
    OBVIOUS
  <2>1. /\ parentRow \in [status : ParentStatuses, seq : Nat \ {0}] /\ parentRow.seq = 1
        /\ parentRow.status = "OPEN" /\ joins = <<>> /\ Len(joins) = 0
    BY DEF SubtasksInit, ParentStatuses
  <2>2. parentRow.seq <= MaxParentSeq + Len(joins) + (IF parentRow.status = "COMPLETED" THEN 1 ELSE 0)
    BY <2>1, SubtasksAssumption
  <2>3. \A c \in Crew : TripGood(crew[c], parentRow, kid, joins, joinPolicy)
    BY <2>1, NoTripGood DEF SubtasksInit
  <2>4. joins \in Seq([who : JoinActors \cup {"none"}, children : SUBSET Kids])
    BY <2>1
  <2> QED
    BY <2>1, <2>2, <2>3, <2>4 DEF SubtasksInv, SubtasksInit, KidStatuses
<1>2. SubtasksInv => SubtasksTypeOK /\ JoinRecordedOnce
  <2> SUFFICES ASSUME SubtasksInv PROVE SubtasksTypeOK /\ JoinRecordedOnce
    OBVIOUS
  <2>1. /\ parentRow.seq \in Nat /\ parentRow.seq >= 1 /\ MaxParentSeq \in Nat
        /\ Len(joins) \in Nat /\ Len(joins) <= 1
    BY SubtasksAssumption DEF SubtasksInv
  <2>2. parentRow.seq <= MaxParentSeq + 2
    BY <2>1 DEF SubtasksInv
  <2>3. joinRow \subseteq Kids
    BY JoinedAreKids DEF SubtasksInv
  <2>4. \A c \in Crew : crew[c].step \in {"idle", "check", "insert", "load", "join", "append", "close"}
    BY DEF SubtasksInv, TripGood, TripRow
  <2>5. SubtasksTypeOK
    BY <2>1, <2>2, <2>3, <2>4 DEF SubtasksInv, SubtasksTypeOK
  <2>6. ASSUME NEW i \in 1..Len(joins) PROVE i = 1 /\ joins # <<>>
    BY <2>1
  <2>7. joins # <<>> => joins[1].children \subseteq DoneIn(kid)
    BY JoinedAreKids DEF SubtasksInv, DoneIn
  <2>8. JoinRecordedOnce
    BY <2>6, <2>7 DEF SubtasksInv, JoinRecordedOnce, EnoughFor
  <2> QED
    BY <2>5, <2>8
<1> QED
  BY <1>1, <1>2, SubtasksStepKeeps, PTL DEF SubtasksSpec

-----------------------------------------------------------------------------
(***************************************************************************)
(* Artifacts: the inductive invariant, by Artifact and by request.  The    *)
(* stream lock keeps at most one request between the registration and the  *)
(* commit of an Artifact, so the row it inserts is still absent and the    *)
(* row it replays is still there.                                          *)
(***************************************************************************)
ArtRow == [status : ArtStatuses \cup {"none"}, bytes : Bytes \cup {NoBytes},
           origin : {"none", "upload", "register", "external"}]

\* A row, the files, the verdicts and the quarantine recorded for it.
ArtifactGood(art, disk, verdicts, held) ==
  /\ art \in ArtRow /\ verdicts \subseteq ScanVerdicts /\ held \in {"none", "open", "released"}
  /\ art.status = "none" => art = NoArtifact /\ held = "none"
  /\ art.status # "none" => art.bytes \in Bytes /\ art.origin # "none"
  /\ art.origin \in {"upload", "register"} => disk[art.bytes] = "whole"
  /\ (art.origin = "upload" /\ art.status = "registered") => ("clean" \in verdicts \/ held = "released")

UploadRow == [at : {"idle", "streaming", "stored", "registered", "checked", "verifying"},
              via : {"none", "upload", "register"}, key : ArtKeys \cup {"none"},
              bytes : Bytes \cup {NoBytes}, typed : BOOLEAN, row : ArtRow,
              scanned : SUBSET ScanVerdicts, held : BOOLEAN, subject : LinkSubjects \cup {"none"}]
UploadGood(w, disk, art) ==
  /\ w \in UploadRow
  /\ w.at # "idle" => w.key \in ArtKeys /\ w.bytes \in Bytes
  /\ w.at \in {"streaming", "stored"} => w.row = NoArtifact
  /\ w.at \in {"streaming", "stored", "registered", "checked"} => w.via # "none"
  /\ w.at \in {"stored", "registered", "checked"} => disk[w.bytes] = "whole"
  /\ w.at \in {"registered", "checked"} =>
       \/ w.row = NoArtifact /\ art[w.key].status # "none"
       \/ /\ w.row = [status |-> "registered", bytes |-> w.bytes, origin |-> w.via]
          /\ art[w.key].status = "none"
  /\ w.at = "checked" /\ w.via = "upload" /\ ~w.held => "clean" \in w.scanned
  /\ w.at = "verifying" => art[w.key].status # "none"

\* Two requests past registration are about different Artifacts.
InCommit(w) == w.at \in {"registered", "checked"}
ArtStreamsHeld ==
  \A u, v \in Uploaders : InCommit(uploader[u]) /\ InCommit(uploader[v])
                            /\ uploader[u].key = uploader[v].key => u = v

ArtifactsInv ==
  /\ blob \in [Bytes -> {"none", "whole"}]
  /\ DOMAIN artifact = ArtKeys /\ DOMAIN ledger = ArtKeys /\ DOMAIN scans = ArtKeys
  /\ DOMAIN uploader = Uploaders
  /\ \A k \in ArtKeys : ArtifactGood(artifact[k], blob, scans[k], ledger[k])
  /\ \A u \in Uploaders : UploadGood(uploader[u], blob, artifact)
  /\ ArtStreamsHeld
  /\ links \subseteq ArtKeys \X LinkSubjects
  /\ artCrashes \in 0..MaxArtCrashes /\ uploads \in 0..MaxUploads

\* The idle request is good whatever the rest says.
LEMMA NoUploadGood ==
  ASSUME NEW disk, NEW art
  PROVE  UploadGood(NoUpload, disk, art)
<1>1. NoUpload \in UploadRow /\ NoUpload.at = "idle"
  BY DEF NoUpload, UploadRow, NoArtifact, ArtRow
<1> QED
  BY <1>1 DEF UploadGood

\* A request that does not move: files that are whole stay so, a row that is
\* there stays there, and its own row is not written by others.
LEMMA OtherUploadKeeps ==
  ASSUME NEW w, NEW disk, NEW art, UploadGood(w, disk, art), NEW disk2, NEW art2,
         \A b \in Bytes : disk[b] = "whole" => disk2[b] = "whole",
         \A k \in ArtKeys : art[k].status # "none" => art2[k].status # "none",
         InCommit(w) /\ art[w.key].status = "none" => art2[w.key].status = "none"
  PROVE  UploadGood(w, disk2, art2)
<1>1. w \in UploadRow /\ (w.at # "idle" => w.key \in ArtKeys /\ w.bytes \in Bytes)
  BY DEF UploadGood
<1> QED
  BY <1>1 DEF UploadGood, InCommit

\* An Artifact whose row, verdicts and quarantine do not change.
LEMMA ArtifactKeeps ==
  ASSUME NEW art, NEW disk, NEW verdicts, NEW held, ArtifactGood(art, disk, verdicts, held),
         NEW disk2, \A b \in Bytes : disk[b] = "whole" => disk2[b] = "whole"
  PROVE  ArtifactGood(art, disk2, verdicts, held)
<1>1. art.origin \in {"upload", "register"} => art.bytes \in Bytes
  BY DEF ArtifactGood, NoArtifact
<1> QED
  BY <1>1 DEF ArtifactGood

\* One request moves; the rows of Artifacts that others are committing stay.
LEMMA UploaderKeeps ==
  ASSUME ArtifactsInv, NEW u \in Uploaders, NEW w, UploaderBecomes(u, w),
         UploadGood(w, blob', artifact'),
         InCommit(w) => \A v \in Uploaders \ {u} :
                          ~(InCommit(uploader[v]) /\ uploader[v].key = w.key),
         blob' \in [Bytes -> {"none", "whole"}],
         \A b \in Bytes : blob[b] = "whole" => blob'[b] = "whole",
         DOMAIN artifact' = ArtKeys, DOMAIN ledger' = ArtKeys, DOMAIN scans' = ArtKeys,
         \A k \in ArtKeys : ArtifactGood(artifact'[k], blob', scans'[k], ledger'[k]),
         \A k \in ArtKeys : artifact[k].status # "none" => artifact'[k].status # "none",
         \A v \in Uploaders \ {u} : InCommit(uploader[v]) /\ artifact[uploader[v].key].status = "none"
           => artifact'[uploader[v].key].status = "none",
         links' \subseteq ArtKeys \X LinkSubjects,
         artCrashes' \in 0..MaxArtCrashes, uploads' \in 0..MaxUploads
  PROVE  ArtifactsInv'
<1>1. uploader' = [uploader EXCEPT ![u] = w] /\ DOMAIN uploader = Uploaders
  BY DEF UploaderBecomes, ArtifactsInv
<1>2. uploader'[u] = w /\ DOMAIN uploader' = Uploaders /\ \A v \in Uploaders \ {u} : uploader'[v] = uploader[v]
  BY <1>1
<1>3. ASSUME NEW v \in Uploaders \ {u} PROVE UploadGood(uploader[v], blob', artifact')
  <2>1. UploadGood(uploader[v], blob, artifact)
    BY DEF ArtifactsInv
  <2> QED
    BY <2>1, OtherUploadKeeps
<1>4. \A v \in Uploaders : UploadGood(uploader'[v], blob', artifact')
  BY <1>2, <1>3
<1>5. ArtStreamsHeld'
  <2> SUFFICES ASSUME NEW x \in Uploaders, NEW y \in Uploaders, InCommit(uploader'[x]),
                      InCommit(uploader'[y]), uploader'[x].key = uploader'[y].key
               PROVE  x = y
    BY DEF ArtStreamsHeld, InCommit
  <2>1. CASE x # u /\ y # u
    BY <1>2, <2>1 DEF ArtifactsInv, ArtStreamsHeld
  <2>2. CASE x = u \/ y = u
    BY <1>2, <2>2
  <2> QED
    BY <2>1, <2>2
<1> QED
  BY <1>2, <1>4, <1>5 DEF ArtifactsInv

\* A command writes a row and no request moves.
LEMMA ArtifactCommandKeeps ==
  ASSUME ArtifactsInv, UNCHANGED <<blob, uploader, artCrashes>>,
         DOMAIN artifact' = ArtKeys, DOMAIN ledger' = ArtKeys, DOMAIN scans' = ArtKeys,
         \A k \in ArtKeys : ArtifactGood(artifact'[k], blob, scans'[k], ledger'[k]),
         \A k \in ArtKeys : artifact[k].status # "none" => artifact'[k].status # "none",
         \A v \in Uploaders : InCommit(uploader[v]) /\ artifact[uploader[v].key].status = "none"
           => artifact'[uploader[v].key].status = "none",
         links' \subseteq ArtKeys \X LinkSubjects, uploads' \in 0..MaxUploads
  PROVE  ArtifactsInv'
<1>1. ASSUME NEW v \in Uploaders PROVE UploadGood(uploader[v], blob, artifact')
  <2>1. UploadGood(uploader[v], blob, artifact)
    BY DEF ArtifactsInv
  <2> QED
    BY <2>1, OtherUploadKeeps
<1>2. ArtStreamsHeld'
  BY DEF ArtifactsInv, ArtStreamsHeld, InCommit
<1> QED
  BY <1>1, <1>2 DEF ArtifactsInv

\* Every action keeps the invariant.
LEMMA ArtifactsStepKeeps == ArtifactsInv /\ [ArtifactsNext]_artifactsVars => ArtifactsInv'
<1> SUFFICES ASSUME ArtifactsInv, [ArtifactsNext]_artifactsVars PROVE ArtifactsInv'
  OBVIOUS
<1>0. /\ blob \in [Bytes -> {"none", "whole"}]
      /\ DOMAIN artifact = ArtKeys /\ DOMAIN ledger = ArtKeys /\ DOMAIN scans = ArtKeys
      /\ DOMAIN uploader = Uploaders
      /\ \A k \in ArtKeys : ArtifactGood(artifact[k], blob, scans[k], ledger[k])
      /\ \A u \in Uploaders : UploadGood(uploader[u], blob, artifact)
      /\ ArtStreamsHeld
      /\ links \subseteq ArtKeys \X LinkSubjects
      /\ artCrashes \in 0..MaxArtCrashes /\ uploads \in 0..MaxUploads
  BY DEF ArtifactsInv
<1>1. \A k \in ArtKeys : artifact[k] \in ArtRow
  BY <1>0 DEF ArtifactGood
<1>2. ASSUME NEW u \in Uploaders, NEW w, UploaderBecomes(u, w), UploadGood(w, blob', artifact),
             InCommit(w) => \A v \in Uploaders \ {u} :
                              ~(InCommit(uploader[v]) /\ uploader[v].key = w.key),
             blob' \in [Bytes -> {"none", "whole"}],
             \A b \in Bytes : blob[b] = "whole" => blob'[b] = "whole", rowsUnchanged,
             artCrashes' \in 0..MaxArtCrashes, uploads' \in 0..MaxUploads
      PROVE  ArtifactsInv'
  <2>1. artifact' = artifact /\ ledger' = ledger /\ scans' = scans /\ links' = links
    BY <1>2 DEF rowsUnchanged
  <2>2. \A k \in ArtKeys : ArtifactGood(artifact'[k], blob', scans'[k], ledger'[k])
    BY <1>0, <1>2, <2>1, ArtifactKeeps
  <2>3. UploadGood(w, blob', artifact')
    BY <1>2, <2>1
  <2> QED
    BY <1>0, <1>2, <2>1, <2>2, <2>3, UploaderKeeps
<1>3. ASSUME NEW u \in Uploaders, EndUpload(u), rowsUnchanged, blob' = blob,
             artCrashes' \in 0..MaxArtCrashes, uploads' \in 0..MaxUploads
      PROVE  ArtifactsInv'
  <2>1. UploaderBecomes(u, NoUpload) /\ ~InCommit(NoUpload)
    BY <1>3 DEF EndUpload, InCommit, NoUpload
  <2> QED
    BY <1>0, <1>2, <1>3, <2>1, NoUploadGood
<1>4. ASSUME NEW u \in Uploaders, NEW via \in {"upload", "register"}, NEW k \in ArtKeys,
             NEW b \in Bytes, NEW d \in DeclaredTypes, NEW s \in LinkSubjects \cup {"none"},
             BeginUpload(u, via, k, b, d, s)
      PROVE  ArtifactsInv'
  <2> DEFINE fits == via = "register" \/ MimeMatches(d, SniffOf[b])
             w == [NoUpload EXCEPT !.at = "streaming", !.via = via, !.key = k, !.bytes = b,
                                   !.subject = s, !.typed = fits]
  <2>1. /\ UploaderBecomes(u, w) /\ rowsUnchanged /\ blob' = blob /\ artCrashes' = artCrashes
        /\ uploads' = uploads + 1 /\ uploads < MaxUploads
    BY <1>4 DEF BeginUpload, WhileStreaming
  <2>2. fits \in BOOLEAN
    OBVIOUS
  <2> HIDE DEF fits
  <2>3. /\ w \in UploadRow /\ w.at = "streaming" /\ w.key = k /\ w.bytes = b /\ w.via = via
        /\ w.row = NoArtifact
    BY <2>2 DEF NoUpload, UploadRow, NoArtifact, ArtRow
  <2> HIDE DEF w
  <2>4. UploadGood(w, blob, artifact) /\ ~InCommit(w)
    BY <2>3 DEF UploadGood, InCommit
  <2>5. uploads' \in 0..MaxUploads
    BY <1>0, <2>1, ArtifactsAssumption
  <2> QED
    BY <1>0, <1>2, <2>1, <2>4, <2>5
<1>5. ASSUME NEW u \in Uploaders, TooLarge(u) PROVE ArtifactsInv'
  BY <1>0, <1>3, <1>5 DEF TooLarge
<1>6. ASSUME NEW u \in Uploaders, FinishWrite(u) PROVE ArtifactsInv'
  <2> DEFINE r == uploader[u]
             w == [r EXCEPT !.at = "stored"]
  <2>1. /\ r.at = "streaming" /\ blob' = [blob EXCEPT ![r.bytes] = IF @ = "none" THEN "whole" ELSE @]
        /\ rowsUnchanged /\ artCrashes' = artCrashes /\ uploads' = uploads
        /\ UploaderBecomes(u, NoUpload) \/ UploaderBecomes(u, w)
    BY <1>6 DEF FinishWrite, MovedIntoPlace, EndUpload
  <2>2. /\ r \in UploadRow /\ r.key \in ArtKeys /\ r.bytes \in Bytes /\ r.row = NoArtifact
        /\ r.via # "none"
    BY <1>0, <2>1 DEF UploadGood
  <2>3. /\ blob' \in [Bytes -> {"none", "whole"}] /\ blob'[r.bytes] = "whole"
        /\ \A b \in Bytes : blob[b] = "whole" => blob'[b] = "whole"
    BY <1>0, <2>1, <2>2
  <2>4. /\ w \in UploadRow /\ w.at = "stored" /\ w.key = r.key /\ w.bytes = r.bytes
        /\ w.via = r.via /\ w.row = NoArtifact
    BY <2>2 DEF UploadRow
  <2> HIDE DEF w
  <2>5. UploadGood(w, blob', artifact) /\ ~InCommit(w)
    BY <2>2, <2>3, <2>4 DEF UploadGood, InCommit
  <2>6. UploadGood(NoUpload, blob', artifact) /\ ~InCommit(NoUpload)
    BY NoUploadGood DEF InCommit, NoUpload
  <2>7. CASE UploaderBecomes(u, w)
    BY <1>0, <1>2, <2>1, <2>3, <2>5, <2>7
  <2>8. CASE UploaderBecomes(u, NoUpload)
    BY <1>0, <1>2, <2>1, <2>3, <2>6, <2>8
  <2> QED
    BY <2>1, <2>7, <2>8
<1>7. ASSUME NEW u \in Uploaders, RegisterArtifact(u) PROVE ArtifactsInv'
  <2> DEFINE r == uploader[u]
             fresh == [status |-> "registered", bytes |-> r.bytes, origin |-> r.via]
             w1 == [r EXCEPT !.at = "registered", !.row = fresh]
             w2 == [r EXCEPT !.at = "registered"]
  <2>1. /\ r.at = "stored" /\ ArtStreamFree(r.key, u) /\ rowsUnchanged
        /\ blob' = blob /\ artCrashes' = artCrashes /\ uploads' = uploads
        /\ \/ artifact[r.key].status = "none" /\ UploaderBecomes(u, w1)
           \/ artifact[r.key].status # "none" /\ UploaderBecomes(u, w2)
           \/ EndUpload(u)
    BY <1>7 DEF RegisterArtifact
  <2>2. /\ r \in UploadRow /\ r.key \in ArtKeys /\ r.bytes \in Bytes /\ r.row = NoArtifact
        /\ r.via \in {"upload", "register"} /\ blob[r.bytes] = "whole"
    BY <1>0, <2>1 DEF UploadGood, UploadRow
  <2>3. \A v \in Uploaders \ {u} : ~(InCommit(uploader[v]) /\ uploader[v].key = r.key)
    BY <2>1 DEF ArtStreamFree, InCommit
  <2>4. fresh \in ArtRow
    BY <2>2 DEF ArtRow, ArtStatuses
  <2>5. ASSUME artifact[r.key].status = "none", UploaderBecomes(u, w1) PROVE ArtifactsInv'
    <3>1. /\ w1 \in UploadRow /\ w1.at = "registered" /\ w1.key = r.key /\ w1.bytes = r.bytes
          /\ w1.via = r.via /\ w1.row = fresh
      <4> HIDE DEF fresh
      <4> QED
        BY <2>2, <2>4 DEF UploadRow
    <3> HIDE DEF w1
    <3>2. UploadGood(w1, blob, artifact)
      BY <2>2, <2>5, <3>1 DEF UploadGood
    <3> QED
      BY <1>0, <1>2, <2>1, <2>3, <2>5, <3>1, <3>2
  <2>6. ASSUME artifact[r.key].status # "none", UploaderBecomes(u, w2) PROVE ArtifactsInv'
    <3>1. /\ w2 \in UploadRow /\ w2.at = "registered" /\ w2.key = r.key /\ w2.bytes = r.bytes
          /\ w2.via = r.via /\ w2.row = NoArtifact
      BY <2>2 DEF UploadRow
    <3> HIDE DEF w2
    <3>2. UploadGood(w2, blob, artifact)
      BY <2>2, <2>6, <3>1 DEF UploadGood
    <3> QED
      BY <1>0, <1>2, <2>1, <2>3, <2>6, <3>1, <3>2
  <2>7. CASE EndUpload(u)
    BY <1>0, <1>3, <2>1, <2>7
  <2> HIDE DEF w1, w2
  <2> QED
    BY <2>1, <2>5, <2>6, <2>7
<1>8. ASSUME NEW u \in Uploaders, CheckStored(u) PROVE ArtifactsInv'
  <2> DEFINE r == uploader[u]
  <2>1. /\ r.at = "registered" /\ rowsUnchanged /\ blob' = blob /\ artCrashes' = artCrashes
        /\ uploads' = uploads
    BY <1>8 DEF CheckStored
  <2>2. /\ r \in UploadRow /\ r.key \in ArtKeys /\ r.bytes \in Bytes /\ r.via # "none"
        /\ blob[r.bytes] = "whole"
        /\ \/ r.row = NoArtifact /\ artifact[r.key].status # "none"
           \/ /\ r.row = [status |-> "registered", bytes |-> r.bytes, origin |-> r.via]
              /\ artifact[r.key].status = "none"
    BY <1>0, <2>1 DEF UploadGood
  <2>3. PICK o \in (IF r.via = "upload" THEN CheckOutcomes(r.bytes) ELSE CheckSkipped(r.bytes)) :
          UploaderBecomes(u, [r EXCEPT !.at = "checked", !.scanned = o.scanned, !.held = o.held])
    BY <1>8 DEF CheckStored
  <2>4. /\ o.scanned \subseteq ScanVerdicts /\ o.held \in BOOLEAN
        /\ (r.via = "upload" /\ ~o.held => "clean" \in o.scanned)
    <3>1. CASE r.via = "upload"
      <4>1. PICK v \in ScanVerdicts : o = [scanned |-> {v}, held |-> v # "clean"]
        BY <2>2, <2>3, <3>1 DEF CheckOutcomes, ReadsBack
      <4>2. o.scanned = {v} /\ o.held = (v # "clean")
        BY <4>1
      <4> QED
        BY <4>2
    <3>2. CASE r.via # "upload"
      <4>1. o = [scanned |-> {}, held |-> FALSE]
        BY <2>3, <3>2 DEF CheckSkipped
      <4> QED
        BY <3>2, <4>1
    <3> QED
      BY <3>1, <3>2
  <2> DEFINE w == [r EXCEPT !.at = "checked", !.scanned = o.scanned, !.held = o.held]
  <2>5. /\ w \in UploadRow /\ w.at = "checked" /\ w.key = r.key /\ w.bytes = r.bytes
        /\ w.via = r.via /\ w.row = r.row /\ w.scanned = o.scanned /\ w.held = o.held
    BY <2>2, <2>4 DEF UploadRow
  <2>6. UploaderBecomes(u, w)
    BY <2>3
  <2> HIDE DEF w
  <2>7. UploadGood(w, blob, artifact)
    BY <2>2, <2>4, <2>5 DEF UploadGood
  <2>8. \A v \in Uploaders \ {u} : ~(InCommit(uploader[v]) /\ uploader[v].key = w.key)
    BY <1>0, <2>1, <2>5 DEF ArtStreamsHeld, InCommit
  <2> QED
    BY <1>0, <1>2, <2>1, <2>6, <2>7, <2>8
<1>9. ASSUME NEW u \in Uploaders, CommitUpload(u) PROVE ArtifactsInv'
  <2> DEFINE r == uploader[u]
             k == r.key
             old == IF r.row = NoArtifact THEN artifact[k] ELSE r.row
             linking == ~r.held /\ r.subject # "none"
             kept == IF r.held THEN "quarantined" ELSE old.status
             art == [old EXCEPT !.status = kept]
             hold == IF r.held THEN "open" ELSE ledger[k]
  <2>1. r.at = "checked" /\ EndUpload(u) /\ blob' = blob /\ artCrashes' = artCrashes /\ uploads' = uploads
    BY <1>9 DEF CommitUpload
  <2>2. CASE rowsUnchanged
    BY <1>0, <1>3, <2>1, <2>2
  <2>3. ASSUME ~rowsUnchanged PROVE ArtifactsInv'
    <3>1. /\ artifact' = [artifact EXCEPT ![k] = art]
          /\ ledger' = [ledger EXCEPT ![k] = hold]
          /\ scans' = [scans EXCEPT ![k] = @ \cup r.scanned]
          /\ links' = IF linking THEN links \cup {<<k, r.subject>>} ELSE links
      BY <1>0, <1>9, <2>3 DEF CommitUpload, RecordScan
    <3>2. /\ r \in UploadRow /\ r.key \in ArtKeys /\ r.bytes \in Bytes /\ r.via \in {"upload", "register"}
          /\ blob[r.bytes] = "whole" /\ r.held \in BOOLEAN /\ r.scanned \subseteq ScanVerdicts
          /\ (r.via = "upload" /\ ~r.held => "clean" \in r.scanned)
          /\ \/ r.row = NoArtifact /\ artifact[k].status # "none"
             \/ /\ r.row = [status |-> "registered", bytes |-> r.bytes, origin |-> r.via]
                /\ artifact[k].status = "none"
      BY <1>0, <2>1 DEF UploadGood, UploadRow
    <3>3. ArtifactGood(artifact[k], blob, scans[k], ledger[k])
      BY <1>0, <3>2
    <3>4. /\ old \in ArtRow /\ old.status # "none" /\ old.bytes \in Bytes /\ old.origin # "none"
          /\ (old.origin \in {"upload", "register"} => blob[old.bytes] = "whole")
          /\ (old.origin = "upload" /\ old.status = "registered" /\ ~r.held =>
                "clean" \in (scans[k] \cup r.scanned) \/ hold = "released")
      <4>1. CASE r.row = NoArtifact /\ artifact[k].status # "none"
        <5>1. old = artifact[k]
          BY <4>1
        <5> HIDE DEF old
        <5> QED
          BY <3>3, <4>1, <5>1 DEF ArtifactGood
      <4>2. CASE /\ r.row = [status |-> "registered", bytes |-> r.bytes, origin |-> r.via]
                 /\ artifact[k].status = "none"
        <5>1. r.row # NoArtifact /\ old = r.row
          BY <4>2 DEF NoArtifact
        <5>2. /\ old \in ArtRow /\ old.status = "registered" /\ old.bytes = r.bytes
              /\ old.origin = r.via
          BY <3>2, <4>2, <5>1 DEF ArtRow, ArtStatuses
        <5> HIDE DEF old
        <5> QED
          BY <3>2, <5>2
      <4> QED
        BY <3>2, <4>1, <4>2
    <3> HIDE DEF old
    <3>5. kept \in ArtStatuses /\ (kept = "registered" => ~r.held /\ old.status = "registered")
      BY <3>4 DEF ArtRow, ArtStatuses
    <3> HIDE DEF kept
    <3>6. /\ art \in ArtRow /\ art.status = kept /\ art.bytes = old.bytes /\ art.origin = old.origin
      BY <3>4, <3>5 DEF ArtRow
    <3> HIDE DEF art
    <3>7. /\ hold \in {"none", "open", "released"} /\ scans[k] \cup r.scanned \subseteq ScanVerdicts
          /\ kept # "none"
      BY <3>2, <3>3, <3>5 DEF ArtifactGood, ArtStatuses
    <3> HIDE DEF hold
    <3>8. ArtifactGood(art, blob, scans[k] \cup r.scanned, hold)
      BY <3>4, <3>5, <3>6, <3>7 DEF ArtifactGood
    <3>9. /\ DOMAIN artifact' = ArtKeys /\ DOMAIN ledger' = ArtKeys /\ DOMAIN scans' = ArtKeys
          /\ \A j \in ArtKeys : ArtifactGood(artifact'[j], blob', scans'[j], ledger'[j])
          /\ \A j \in ArtKeys : artifact[j].status # "none" => artifact'[j].status # "none"
          /\ \A j \in ArtKeys \ {k} : artifact'[j] = artifact[j]
      BY <1>0, <2>1, <3>1, <3>6, <3>7, <3>8
    <3>10. ASSUME NEW v \in Uploaders \ {u}, InCommit(uploader[v]),
                  artifact[uploader[v].key].status = "none"
           PROVE  artifact'[uploader[v].key].status = "none"
      <4>1. uploader[v].key \in ArtKeys \ {k}
        BY <1>0, <2>1, <3>10 DEF ArtStreamsHeld, InCommit, UploadGood
      <4> QED
        BY <3>9, <3>10, <4>1
    <3>11. links' \subseteq ArtKeys \X LinkSubjects
      BY <1>0, <3>1, <3>2 DEF UploadRow
    <3>12. UploaderBecomes(u, NoUpload) /\ ~InCommit(NoUpload) /\ UploadGood(NoUpload, blob', artifact')
      BY <2>1, NoUploadGood DEF EndUpload, InCommit, NoUpload
    <3> QED
      BY <1>0, <2>1, <3>9, <3>10, <3>11, <3>12, UploaderKeeps
  <2> QED
    BY <2>2, <2>3
<1>10. ASSUME NEW k \in ArtKeys, NEW b \in Bytes, RegisterExternal(k, b) PROVE ArtifactsInv'
  <2> DEFINE art == [status |-> "registered", bytes |-> b, origin |-> "external"]
  <2>1. /\ artifact[k].status = "none" /\ artifact' = [artifact EXCEPT ![k] = art]
        /\ uploads < MaxUploads /\ uploads' = uploads + 1
        /\ UNCHANGED <<blob, ledger, scans, links, uploader, artCrashes>>
    BY <1>10 DEF RegisterExternal
  <2>2. \A v \in Uploaders : InCommit(uploader[v]) => uploader[v].key # k
    BY <1>10 DEF RegisterExternal, InCommit
  <2>3. /\ art \in ArtRow /\ art.status = "registered" /\ art.bytes = b /\ art.origin = "external"
    BY DEF ArtRow, ArtStatuses
  <2> HIDE DEF art
  <2>4. ArtifactGood(art, blob, scans[k], ledger[k])
    BY <1>0, <2>3 DEF ArtifactGood
  <2>5. uploads' \in 0..MaxUploads
    BY <1>0, <2>1, ArtifactsAssumption
  <2>6. /\ DOMAIN artifact' = ArtKeys
        /\ \A j \in ArtKeys : ArtifactGood(artifact'[j], blob, scans'[j], ledger'[j])
        /\ \A j \in ArtKeys : artifact[j].status # "none" => artifact'[j].status # "none"
        /\ \A j \in ArtKeys \ {k} : artifact'[j] = artifact[j]
    BY <1>0, <2>1, <2>3, <2>4
  <2>7. ASSUME NEW v \in Uploaders, InCommit(uploader[v]), artifact[uploader[v].key].status = "none"
        PROVE  artifact'[uploader[v].key].status = "none"
    <3>1. uploader[v].key \in ArtKeys \ {k}
      BY <1>0, <2>2, <2>7 DEF InCommit, UploadGood
    <3> QED
      BY <2>6, <2>7, <3>1
  <2> QED
    BY <1>0, <2>1, <2>5, <2>6, <2>7, ArtifactCommandKeeps
\* A row that is there gets another status, and its quarantine may end.
<1>11. ASSUME NEW k \in ArtKeys, NEW s \in ArtStatuses, NEW held \in {"none", "open", "released"},
              artifact[k].status # "none", artifact' = [artifact EXCEPT ![k].status = s],
              ledger' = [ledger EXCEPT ![k] = held] \/ (ledger' = ledger /\ held = ledger[k]),
              scans' = scans,
              s = "registered" => held = "released"
       PROVE  /\ DOMAIN artifact' = ArtKeys /\ DOMAIN ledger' = ArtKeys /\ DOMAIN scans' = ArtKeys
              /\ \A j \in ArtKeys : ArtifactGood(artifact'[j], blob, scans'[j], ledger'[j])
              /\ \A j \in ArtKeys : artifact[j].status # "none" => artifact'[j].status # "none"
              /\ \A j \in ArtKeys : artifact[j].status = "none" => artifact'[j].status = "none"
  <2> DEFINE art == [artifact[k] EXCEPT !.status = s]
  <2>1. artifact[k] \in ArtRow /\ ArtifactGood(artifact[k], blob, scans[k], ledger[k])
    BY <1>0, <1>1
  <2>2. /\ art \in ArtRow /\ art.status = s /\ art.bytes = artifact[k].bytes
        /\ art.origin = artifact[k].origin
    BY <2>1 DEF ArtRow
  <2>3. artifact' = [artifact EXCEPT ![k] = art]
    BY <1>0, <1>11
  <2> HIDE DEF art
  <2>4. s # "none"
    BY DEF ArtStatuses
  <2>5. ArtifactGood(art, blob, scans[k], held)
    BY <1>11, <2>1, <2>2, <2>4 DEF ArtifactGood
  <2> QED
    BY <1>0, <1>11, <2>2, <2>3, <2>4, <2>5
<1>12. ASSUME NEW u \in Uploaders, NEW k \in ArtKeys, LoadForVerify(u, k) PROVE ArtifactsInv'
  <2> DEFINE w == [NoUpload EXCEPT !.at = "verifying", !.key = k, !.bytes = artifact[k].bytes]
  <2>1. /\ uploads < MaxUploads /\ uploads' = uploads + 1 /\ artifact[k].status # "none"
        /\ UploaderBecomes(u, w) /\ rowsUnchanged /\ blob' = blob /\ artCrashes' = artCrashes
    BY <1>12 DEF LoadForVerify
  <2>2. artifact[k].bytes \in Bytes
    BY <1>0, <2>1 DEF ArtifactGood
  <2>3. w \in UploadRow /\ w.at = "verifying" /\ w.key = k /\ w.bytes = artifact[k].bytes
    BY <2>2 DEF NoUpload, UploadRow, NoArtifact, ArtRow
  <2> HIDE DEF w
  <2>4. UploadGood(w, blob, artifact) /\ ~InCommit(w)
    BY <2>1, <2>2, <2>3 DEF UploadGood, InCommit
  <2>5. uploads' \in 0..MaxUploads
    BY <1>0, <2>1, ArtifactsAssumption
  <2> QED
    BY <1>0, <1>2, <2>1, <2>4, <2>5
<1>13. ASSUME NEW u \in Uploaders, VerifyArtifact(u) PROVE ArtifactsInv'
  <2> DEFINE r == uploader[u]
  <2>1. /\ r.at = "verifying" /\ EndUpload(u)
        /\ UNCHANGED <<blob, ledger, scans, links, artCrashes, uploads>>
    BY <1>13 DEF VerifyArtifact
  <2>2. r.key \in ArtKeys /\ artifact[r.key].status # "none"
    BY <1>0, <2>1 DEF UploadGood
  <2>3. PICK s \in {"quarantined", "verified"} : artifact' = [artifact EXCEPT ![r.key].status = s]
    BY <1>13 DEF VerifyArtifact
  <2>4. s \in ArtStatuses /\ s # "registered" /\ ledger[r.key] \in {"none", "open", "released"}
    BY <1>0, <2>2 DEF ArtStatuses, ArtifactGood
  <2>5. ledger' = ledger /\ scans' = scans
    BY <2>1
  <2>6. /\ DOMAIN artifact' = ArtKeys /\ DOMAIN ledger' = ArtKeys /\ DOMAIN scans' = ArtKeys
        /\ \A j \in ArtKeys : ArtifactGood(artifact'[j], blob, scans'[j], ledger'[j])
        /\ \A j \in ArtKeys : artifact[j].status # "none" => artifact'[j].status # "none"
        /\ \A j \in ArtKeys : artifact[j].status = "none" => artifact'[j].status = "none"
    BY <1>11, <2>2, <2>3, <2>4, <2>5
  <2>7. UploaderBecomes(u, NoUpload) /\ ~InCommit(NoUpload) /\ UploadGood(NoUpload, blob', artifact')
    BY <2>1, NoUploadGood DEF EndUpload, InCommit, NoUpload
  <2>8. \A v \in Uploaders : InCommit(uploader[v]) => uploader[v].key \in ArtKeys
    BY <1>0 DEF InCommit, UploadGood
  <2>9. blob' = blob /\ links' = links /\ artCrashes' = artCrashes /\ uploads' = uploads
    BY <2>1
  <2> QED
    BY <1>0, <2>6, <2>7, <2>8, <2>9, UploaderKeeps
\* Commands on a row that is there.
<1>14. ASSUME NEW k \in ArtKeys, NEW s \in ArtStatuses, NEW held \in {"none", "open", "released"},
              artifact[k].status # "none", artifact' = [artifact EXCEPT ![k].status = s],
              ledger' = [ledger EXCEPT ![k] = held] \/ (ledger' = ledger /\ held = ledger[k]),
              s = "registered" => held = "released",
              UNCHANGED <<blob, scans, links, uploader, artCrashes, uploads>>
       PROVE  ArtifactsInv'
  <2>1. /\ DOMAIN artifact' = ArtKeys /\ DOMAIN ledger' = ArtKeys /\ DOMAIN scans' = ArtKeys
        /\ \A j \in ArtKeys : ArtifactGood(artifact'[j], blob, scans'[j], ledger'[j])
        /\ \A j \in ArtKeys : artifact[j].status # "none" => artifact'[j].status # "none"
        /\ \A j \in ArtKeys : artifact[j].status = "none" => artifact'[j].status = "none"
    BY <1>11, <1>14
  <2>2. \A v \in Uploaders : InCommit(uploader[v]) => uploader[v].key \in ArtKeys
    BY <1>0 DEF InCommit, UploadGood
  <2> QED
    BY <1>0, <1>14, <2>1, <2>2, ArtifactCommandKeeps
<1>15. ASSUME NEW k \in ArtKeys, ArchiveArtifact(k) PROVE ArtifactsInv'
  <2>1. /\ artifact[k].status # "none" /\ artifact' = [artifact EXCEPT ![k].status = "archived"]
        /\ UNCHANGED <<blob, ledger, scans, links, uploader, artCrashes, uploads>>
    BY <1>15 DEF ArchiveArtifact
  <2>2. "archived" \in ArtStatuses /\ ledger[k] \in {"none", "open", "released"}
    BY <1>0 DEF ArtStatuses, ArtifactGood
  <2>3. ledger' = ledger
    BY <2>1
  <2> QED
    BY <1>14, <2>1, <2>2, <2>3
<1>16. ASSUME NEW k \in ArtKeys, ReleaseQuarantine(k) PROVE ArtifactsInv'
  <2>1. /\ ledger[k] = "open" /\ ledger' = [ledger EXCEPT ![k] = "released"]
        /\ artifact' = [artifact EXCEPT ![k].status = "registered"]
        /\ UNCHANGED <<blob, scans, links, uploader, artCrashes, uploads>>
    BY <1>16 DEF ReleaseQuarantine
  <2>2. artifact[k].status # "none" /\ "registered" \in ArtStatuses
    BY <1>0, <2>1 DEF ArtifactGood, ArtStatuses
  <2> QED
    BY <1>14, <2>1, <2>2
<1>17. ASSUME NEW k \in ArtKeys, NEW s \in LinkSubjects, LinkArtifact(k, s) PROVE ArtifactsInv'
  <2>1. /\ links' = links \cup {<<k, s>>}
        /\ UNCHANGED <<blob, artifact, ledger, scans, uploader, artCrashes, uploads>>
    BY <1>17 DEF LinkArtifact
  <2>2. links' \subseteq ArtKeys \X LinkSubjects
    BY <1>0, <2>1
  <2> QED
    BY <1>0, <2>1, <2>2, ArtifactCommandKeeps
<1>18. ASSUME NEW u \in Uploaders, CrashUploader(u) PROVE ArtifactsInv'
  <2>1. /\ artCrashes < MaxArtCrashes /\ artCrashes' = artCrashes + 1 /\ EndUpload(u)
        /\ rowsUnchanged /\ blob' = blob /\ uploads' = uploads
    BY <1>18 DEF CrashUploader
  <2>2. artCrashes' \in 0..MaxArtCrashes
    BY <1>0, <2>1, ArtifactsAssumption
  <2> QED
    BY <1>0, <1>3, <2>1, <2>2
<1>19. CASE UNCHANGED artifactsVars
  BY <1>19 DEF ArtifactsInv, artifactsVars, ArtStreamsHeld, InCommit
<1> QED
  BY <1>4, <1>5, <1>6, <1>7, <1>8, <1>9, <1>10, <1>12, <1>13, <1>15, <1>16, <1>17, <1>18, <1>19
     DEF ArtifactsNext

\* Bytes the server took in are whole on disk, and an upload that reads as
\* registered was scanned clean or released, whatever requests race and
\* whichever of them die (storage.write, the upload handler's transaction).
THEOREM ArtifactsTakenIn == ArtifactsSpec => [](ArtifactsTypeOK /\ TakenInIsSound)
<1>1. ArtifactsInit => ArtifactsInv
  <2> SUFFICES ASSUME ArtifactsInit PROVE ArtifactsInv
    OBVIOUS
  <2>1. NoArtifact \in ArtRow /\ NoArtifact.status = "none" /\ NoArtifact.origin = "none"
    BY DEF NoArtifact, ArtRow
  <2>2. ArtifactGood(NoArtifact, blob, {}, "none")
    BY <2>1 DEF ArtifactGood
  <2>3. \A k \in ArtKeys : ArtifactGood(artifact[k], blob, scans[k], ledger[k])
    BY <2>2 DEF ArtifactsInit
  <2>4. \A u \in Uploaders : uploader[u] = NoUpload /\ UploadGood(uploader[u], blob, artifact)
    BY NoUploadGood DEF ArtifactsInit
  <2>5. ArtStreamsHeld
    BY <2>4 DEF ArtStreamsHeld, InCommit, NoUpload
  <2>6. /\ blob \in [Bytes -> {"none", "whole"}] /\ links = {}
        /\ DOMAIN artifact = ArtKeys /\ DOMAIN ledger = ArtKeys /\ DOMAIN scans = ArtKeys
        /\ DOMAIN uploader = Uploaders
    BY DEF ArtifactsInit
  <2>7. artCrashes \in 0..MaxArtCrashes /\ uploads \in 0..MaxUploads
    BY ArtifactsAssumption DEF ArtifactsInit
  <2> QED
    BY <2>3, <2>4, <2>5, <2>6, <2>7 DEF ArtifactsInv
<1>2. ArtifactsInv => ArtifactsTypeOK /\ TakenInIsSound
  <2> SUFFICES ASSUME ArtifactsInv PROVE ArtifactsTypeOK /\ TakenInIsSound
    OBVIOUS
  <2>1. \A k \in ArtKeys : ArtifactGood(artifact[k], blob, scans[k], ledger[k])
    BY DEF ArtifactsInv
  <2>2. TakenInIsSound
    BY <2>1 DEF ArtifactGood, TakenInIsSound
  <2>3. \A k \in ArtKeys :
          /\ artifact[k] = NoArtifact \/ (artifact[k].status \in ArtStatuses /\ artifact[k].bytes \in Bytes)
          /\ ledger[k] \in {"none", "open", "released"} /\ scans[k] \subseteq ScanVerdicts
    BY <2>1 DEF ArtifactGood, ArtRow
  <2>4. \A u \in Uploaders :
          uploader[u].at \in {"idle", "streaming", "stored", "registered", "checked", "verifying"}
    BY DEF ArtifactsInv, UploadGood, UploadRow
  <2>5. blob \in [Bytes -> {"none", "partial", "whole"}]
    BY DEF ArtifactsInv
  <2>6. ArtifactsTypeOK
    BY <2>3, <2>4, <2>5 DEF ArtifactsInv, ArtifactsTypeOK
  <2> QED
    BY <2>2, <2>6
<1> QED
  BY <1>1, <1>2, ArtifactsStepKeeps, PTL DEF ArtifactsSpec

-----------------------------------------------------------------------------
(***************************************************************************)
(* Documents: the inductive invariant, by version, by scribe and by        *)
(* destination.  The row lock keeps one scribe between the version number  *)
(* and the commit; the rows, Events, files and reviews there are never     *)
(* change, so what a scribe read of them is still so when it publishes.    *)
(***************************************************************************)
DocStages == {"DRAFT", "ATTEMPT_FINALIZED", "FINALIZED"}
DocText == [source : Nat, stage : DocStages \cup {"none"}, revision : Nat]
DocEvent == [type : DocStages \cup {"REVIEWED", "PUBLISHED"}, key : DocKeys \cup {"none"},
             version : Nat]
ScribeRow == [op : {"idle", "lock", "append", "stored", "publish", "record", "archive"},
              key : DocKeys \cup {"none"}, text : DocText, version : Nat,
              place : Places \cup {"none"}, quiet : BOOLEAN]

Says(strm, stage, k, v) ==
  \E j \in DOMAIN strm : strm[j].type = stage /\ strm[j].key = k /\ strm[j].version = v
Used(strm, stage, k) == \E j \in DOMAIN strm : strm[j].type = stage /\ strm[j].key = k
Approved(revs, v) == \E i \in DOMAIN revs : revs[i] = [version |-> v, decision |-> "APPROVED"]
\* A final text says what the verdict of its revision says.
TextGood(text, verd) ==
  /\ text \in DocText
  /\ text.stage = "FINALIZED" => verd.result = "PASSED" /\ text.revision = verd.revision
VersionGood(i, ver, strm, fls, verd) ==
  /\ ver.key \in DocKeys /\ ver.text.stage \in DocStages /\ TextGood(ver.text, verd)
  /\ i \in DOMAIN fls /\ fls[i] = ver.text
  /\ Says(strm, ver.text.stage, ver.key, i)
DraftGood(t, a, lock, vers, strm, fls, verd) ==
  /\ t \in ScribeRow
  /\ t.op \in {"lock", "append", "stored"} =>
       t.key \in DocKeys /\ t.text.stage \in DocStages /\ TextGood(t.text, verd)
  /\ t.op \in {"append", "stored"} => lock = a /\ t.version = Len(vers) + 1
  /\ t.op = "stored" => /\ t.version = Len(strm) + 1 /\ ~Used(strm, t.text.stage, t.key)
                        /\ t.version \in DOMAIN fls /\ fls[t.version] = t.text
PublishGood(t, vers, revs, pub, outs) ==
  /\ t.op \in {"publish", "record", "archive"} => t.place \in Places
  /\ t.op \in {"publish", "record"} =>
       /\ t.version \in DOMAIN vers /\ vers[t.version].text.stage = "FINALIZED"
       /\ t.text = vers[t.version].text /\ Approved(revs, t.version)
  /\ t.op = "record" => t.version \in DOMAIN pub[t.place] \/ t.version \in DOMAIN outs[t.place]
  /\ t.op = "archive" => t.version \in DOMAIN pub[t.place]
\* What a destination holds, and what is recorded of it.
ShownGood(there, vers, revs) ==
  \A v \in DOMAIN there : /\ v \in DOMAIN vers /\ vers[v].text.stage = "FINALIZED"
                          /\ there[v] = vers[v].text /\ Approved(revs, v)
ArchivedBy(d, v, scr) == \E a \in Scribes : scr[a].op = "archive" /\ scr[a].place = d /\ scr[a].version = v
RecordGood(d, rows, there, scr, crashes) ==
  \A v \in DOMAIN rows :
    /\ rows[v] \in {"published", "archived"}
    /\ rows[v] = "published" /\ crashes = 0 => v \in DOMAIN there \/ ArchivedBy(d, v, scr)

DistinctVersions(vers) ==
  \A i, j \in DOMAIN vers : vers[i].text.stage = vers[j].text.stage /\ vers[i].key = vers[j].key
                              => i = j

DocInv ==
  /\ source \in 1..MaxSource
  /\ verdict \in [revision : 0..MaxRevision, result : {"none", "PASSED", "FAILED"}]
  /\ docVersions \in Seq([text : DocText, key : DocKeys])
  /\ docStream \in Seq(DocEvent)
  /\ reviews \in Seq([version : Nat, decision : {"APPROVED", "REJECTED"}])
  /\ docCrashes \in Nat /\ docLock \in Scribes \cup {NoScribe}
  /\ DOMAIN scribe = Scribes /\ DOMAIN publication = Places /\ DOMAIN outside = Places
  /\ DistinctVersions(docVersions)
  /\ \A i \in DOMAIN docVersions : VersionGood(i, docVersions[i], docStream, files, verdict)
  /\ \A a \in Scribes : /\ DraftGood(scribe[a], a, docLock, docVersions, docStream, files, verdict)
                        /\ PublishGood(scribe[a], docVersions, reviews, publication, outside)
  /\ \A d \in Places : /\ ShownGood(outside[d], docVersions, reviews)
                       /\ RecordGood(d, publication[d], outside[d], scribe, docCrashes)

\* A sequence or a store keeps what it holds.
Holds(f, g) == \A i \in DOMAIN f : i \in DOMAIN g /\ g[i] = f[i]

\* Appending keeps what a sequence holds.
LEMMA AppendHolds ==
  ASSUME NEW S, NEW s \in Seq(S), NEW e \in S
  PROVE  /\ Append(s, e) \in Seq(S) /\ Len(Append(s, e)) = Len(s) + 1
         /\ Holds(s, Append(s, e)) /\ Append(s, e)[Len(s) + 1] = e
         /\ DOMAIN Append(s, e) = DOMAIN s \cup {Len(s) + 1} /\ Len(s) + 1 \notin DOMAIN s
         /\ Len(s) \in Nat
BY DEF Holds

\* Putting at a place that is free, or putting what is there already.
LEMMA PutHolds ==
  ASSUME NEW f, NEW k, NEW v, k \in DOMAIN f => f[k] = v
  PROVE  Holds(f, PutAt(f, k, v)) /\ DOMAIN PutAt(f, k, v) = DOMAIN f \cup {k} /\ PutAt(f, k, v)[k] = v
BY DEF Holds, PutAt

\* Longer streams and longer lists of reviews say what they said.
LEMMA StillSays ==
  ASSUME NEW s, NEW s2, Holds(s, s2)
  PROVE  /\ \A stage, k, v : Says(s, stage, k, v) => Says(s2, stage, k, v)
         /\ \A v : Approved(s, v) => Approved(s2, v)
BY DEF Holds, Says, Approved

\* A verdict that passed is never replaced, so a final text stays good.
LEMMA TextKeeps ==
  ASSUME NEW text, NEW verd, TextGood(text, verd), NEW verd2,
         verd.result = "PASSED" => verd2 = verd
  PROVE  TextGood(text, verd2)
BY DEF TextGood

\* A version that is there.
LEMMA VersionKeeps ==
  ASSUME NEW i, NEW ver, NEW strm, NEW fls, NEW verd, VersionGood(i, ver, strm, fls, verd),
         NEW strm2, NEW fls2, NEW verd2, Holds(strm, strm2), Holds(fls, fls2),
         verd.result = "PASSED" => verd2 = verd
  PROVE  VersionGood(i, ver, strm2, fls2, verd2)
<1>1. TextGood(ver.text, verd2)
  BY TextKeeps DEF VersionGood
<1>2. Says(strm2, ver.text.stage, ver.key, i)
  BY StillSays DEF VersionGood
<1> QED
  BY <1>1, <1>2 DEF VersionGood, Holds

\* A scribe that does not move, while it drafts ...
LEMMA DraftKeeps ==
  ASSUME NEW t, NEW a, NEW lock, NEW vers, NEW strm, NEW fls, NEW verd,
         DraftGood(t, a, lock, vers, strm, fls, verd),
         NEW lock2, NEW vers2, NEW strm2, NEW fls2, NEW verd2,
         lock = a => lock2 = a /\ vers2 = vers,
         t.op = "stored" => strm2 = strm,
         Holds(fls, fls2), verd.result = "PASSED" => verd2 = verd
  PROVE  DraftGood(t, a, lock2, vers2, strm2, fls2, verd2)
<1>1. t.op \in {"lock", "append", "stored"} => TextGood(t.text, verd2)
  BY TextKeeps DEF DraftGood
<1>2. t.op \in {"append", "stored"} => lock2 = a /\ vers2 = vers /\ t.version = Len(vers) + 1
  BY DEF DraftGood
<1>3. t.op = "stored" => /\ t.version = Len(strm2) + 1 /\ ~Used(strm2, t.text.stage, t.key)
                         /\ t.version \in DOMAIN fls2 /\ fls2[t.version] = t.text
  BY DEF DraftGood, Holds
<1> QED
  BY <1>1, <1>2, <1>3 DEF DraftGood

\* ... and while it publishes.
LEMMA PublishKeeps ==
  ASSUME NEW t, NEW vers, NEW revs, NEW pub, NEW outs, PublishGood(t, vers, revs, pub, outs),
         NEW vers2, NEW revs2, NEW pub2, NEW outs2, Holds(vers, vers2), Holds(revs, revs2),
         \A d \in Places : DOMAIN pub[d] \subseteq DOMAIN pub2[d],
         \A d \in Places : \A v \in DOMAIN outs[d] : v \in DOMAIN outs2[d] \/ v \in DOMAIN pub2[d]
  PROVE  PublishGood(t, vers2, revs2, pub2, outs2)
<1>1. t.op \in {"publish", "record"} => Approved(revs2, t.version)
  BY StillSays DEF PublishGood
<1> QED
  BY <1>1 DEF PublishGood, Holds

\* A destination that nobody touches.
LEMMA ShownKeeps ==
  ASSUME NEW there, NEW vers, NEW revs, ShownGood(there, vers, revs),
         NEW vers2, NEW revs2, Holds(vers, vers2), Holds(revs, revs2)
  PROVE  ShownGood(there, vers2, revs2)
<1>1. \A v : Approved(revs, v) => Approved(revs2, v)
  BY StillSays
<1> QED
  BY <1>1 DEF ShownGood, Holds

\* The idle scribe is good whatever the rest says.
LEMMA AsleepGood ==
  ASSUME NEW a, NEW lock, NEW vers, NEW strm, NEW fls, NEW verd, NEW revs, NEW pub, NEW outs
  PROVE  /\ DraftGood(Asleep, a, lock, vers, strm, fls, verd)
         /\ PublishGood(Asleep, vers, revs, pub, outs)
         /\ Asleep.op = "idle"
<1>1. Asleep \in ScribeRow /\ Asleep.op = "idle"
  BY DEF Asleep, ScribeRow, Text, DocText
<1> QED
  BY <1>1 DEF DraftGood, PublishGood

\* One scribe moves, and what the others rely on holds still.
LEMMA ScribeKeeps ==
  ASSUME DocInv, NEW a \in Scribes, NEW t, ScribeBecomes(a, t),
         DraftGood(t, a, docLock', docVersions', docStream', files', verdict),
         PublishGood(t, docVersions', reviews, publication', outside'),
         UNCHANGED <<source, verdict, reviews>>,
         \A b \in Scribes \ {a} : docLock = b => docLock' = b /\ docVersions' = docVersions,
         \A b \in Scribes \ {a} : scribe[b].op = "stored" => docStream' = docStream,
         docLock' \in Scribes \cup {NoScribe},
         Holds(docVersions, docVersions'), Holds(files, files'), Holds(docStream, docStream'),
         docVersions' \in Seq([text : DocText, key : DocKeys]), docStream' \in Seq(DocEvent),
         DistinctVersions(docVersions'),
         \A i \in DOMAIN docVersions' \ DOMAIN docVersions :
           VersionGood(i, docVersions'[i], docStream', files', verdict),
         \A d \in Places : DOMAIN publication[d] \subseteq DOMAIN publication'[d],
         \A d \in Places : \A v \in DOMAIN outside[d] :
           v \in DOMAIN outside'[d] \/ v \in DOMAIN publication'[d],
         DOMAIN publication' = Places, DOMAIN outside' = Places, docCrashes' \in Nat,
         \A d \in Places : ShownGood(outside'[d], docVersions', reviews),
         \A d \in Places : RecordGood(d, publication'[d], outside'[d], scribe', docCrashes')
  PROVE  DocInv'
<1>1. /\ scribe'[a] = t /\ DOMAIN scribe' = Scribes
      /\ \A b \in Scribes \ {a} : scribe'[b] = scribe[b]
  BY DEF DocInv, ScribeBecomes
<1>2. Holds(reviews, reviews)
  BY DEF Holds
<1>3. ASSUME NEW b \in Scribes \ {a}
      PROVE  /\ DraftGood(scribe[b], b, docLock', docVersions', docStream', files', verdict)
             /\ PublishGood(scribe[b], docVersions', reviews, publication', outside')
  <2>1. /\ DraftGood(scribe[b], b, docLock, docVersions, docStream, files, verdict)
        /\ PublishGood(scribe[b], docVersions, reviews, publication, outside)
    BY DEF DocInv
  <2>2. DraftGood(scribe[b], b, docLock', docVersions', docStream', files', verdict)
    BY <2>1, DraftKeeps
  <2>3. PublishGood(scribe[b], docVersions', reviews, publication', outside')
    BY <1>2, <2>1, PublishKeeps
  <2> QED
    BY <2>2, <2>3
<1>4. ASSUME NEW b \in Scribes
      PROVE  /\ DraftGood(scribe'[b], b, docLock', docVersions', docStream', files', verdict)
             /\ PublishGood(scribe'[b], docVersions', reviews, publication', outside')
  BY <1>1, <1>3
<1>5. ASSUME NEW i \in DOMAIN docVersions'
      PROVE  VersionGood(i, docVersions'[i], docStream', files', verdict)
  <2>1. CASE i \in DOMAIN docVersions
    <3>1. docVersions'[i] = docVersions[i] /\ VersionGood(i, docVersions[i], docStream, files, verdict)
      BY <2>1 DEF DocInv, Holds
    <3>2. VersionGood(i, docVersions[i], docStream', files', verdict)
      BY <3>1, VersionKeeps
    <3> QED
      BY <3>1, <3>2
  <2> QED
    BY <2>1
<1> QED
  BY <1>1, <1>4, <1>5 DEF DocInv

\* Archives under way, when a scribe that archives nothing moves.
LEMMA RecordsKeep ==
  ASSUME DocInv, NEW a \in Scribes, NEW t, ScribeBecomes(a, t), NEW crashes,
         scribe[a].op # "archive" \/ crashes # 0, docCrashes # 0 => crashes # 0
  PROVE  \A d \in Places : RecordGood(d, publication[d], outside[d], scribe', crashes)
<1>1. \A b \in Scribes \ {a} : scribe'[b] = scribe[b]
  BY DEF DocInv, ScribeBecomes
<1>2. ASSUME NEW d \in Places, NEW v, ArchivedBy(d, v, scribe), scribe[a].op # "archive"
      PROVE  ArchivedBy(d, v, scribe')
  BY <1>1, <1>2 DEF ArchivedBy
<1>3. ASSUME NEW d \in Places PROVE RecordGood(d, publication[d], outside[d], scribe', crashes)
  <2>1. RecordGood(d, publication[d], outside[d], scribe, docCrashes)
    BY DEF DocInv
  <2> QED
    BY <1>2, <2>1 DEF RecordGood
<1> QED
  BY <1>3

\* A version under the key of one scribe, while it holds the row.
LEMMA VersionAdded ==
  ASSUME NEW vers \in Seq([text : DocText, key : DocKeys]), DistinctVersions(vers),
         NEW strm \in Seq(DocEvent), NEW fls, NEW verd,
         \A i \in DOMAIN vers : VersionGood(i, vers[i], strm, fls, verd),
         NEW text \in DocText, NEW k \in DocKeys, text.stage \in DocStages,
         ~Used(strm, text.stage, k)
  PROVE  DistinctVersions(Append(vers, [text |-> text, key |-> k]))
<1> DEFINE e == [text |-> text, key |-> k]
           more == Append(vers, e)
           n == Len(vers) + 1
<1>1. e \in [text : DocText, key : DocKeys] /\ e.text = text /\ e.key = k
  OBVIOUS
<1> HIDE DEF e
<1> DEFINE S == [text : DocText, key : DocKeys]
<1>2. /\ Holds(vers, more) /\ more[n] = e /\ DOMAIN more = DOMAIN vers \cup {n}
      /\ n \notin DOMAIN vers
  <2>1. vers \in Seq(S) /\ e \in S
    BY <1>1
  <2> HIDE DEF S
  <2> QED
    BY <2>1, AppendHolds
<1>3. \A i \in DOMAIN vers : Used(strm, vers[i].text.stage, vers[i].key)
  BY DEF VersionGood, Says, Used
<1>4. ASSUME NEW i \in DOMAIN vers PROVE ~(vers[i].text.stage = text.stage /\ vers[i].key = k)
  BY <1>3
<1> HIDE DEF more, n
<1>5. DistinctVersions(more)
  BY <1>1, <1>2, <1>4 DEF DistinctVersions, Holds
<1> QED
  BY <1>5 DEF more, e

\* Every action keeps the invariant.
LEMMA DocStepKeeps == DocInv /\ [DocNext]_docVars => DocInv'
<1> SUFFICES ASSUME DocInv, [DocNext]_docVars PROVE DocInv'
  OBVIOUS
<1>0. /\ source \in 1..MaxSource
      /\ verdict \in [revision : 0..MaxRevision, result : {"none", "PASSED", "FAILED"}]
      /\ docVersions \in Seq([text : DocText, key : DocKeys])
      /\ docStream \in Seq(DocEvent)
      /\ reviews \in Seq([version : Nat, decision : {"APPROVED", "REJECTED"}])
      /\ docCrashes \in Nat /\ docLock \in Scribes \cup {NoScribe}
      /\ DOMAIN scribe = Scribes /\ DOMAIN publication = Places /\ DOMAIN outside = Places
      /\ DistinctVersions(docVersions)
      /\ \A i \in DOMAIN docVersions : VersionGood(i, docVersions[i], docStream, files, verdict)
      /\ \A d \in Places : /\ ShownGood(outside[d], docVersions, reviews)
                           /\ RecordGood(d, publication[d], outside[d], scribe, docCrashes)
  BY DEF DocInv
<1>1. ASSUME NEW a \in Scribes
      PROVE  /\ DraftGood(scribe[a], a, docLock, docVersions, docStream, files, verdict)
             /\ PublishGood(scribe[a], docVersions, reviews, publication, outside)
             /\ scribe[a] \in ScribeRow
  BY DEF DocInv, DraftGood
<1>2. \A f : Holds(f, f)
  BY DEF Holds
<1>3. NoScribe \notin Scribes /\ MaxSource \in Nat \ {0} /\ MaxRevision \in Nat
  BY DocumentsAssumption DEF NoScribe
\* A scribe moves and writes nothing but the lock.
<1>4. ASSUME NEW a \in Scribes, NEW t, ScribeBecomes(a, t),
             DraftGood(t, a, docLock', docVersions, docStream, files, verdict),
             PublishGood(t, docVersions, reviews, publication, outside),
             \A b \in Scribes \ {a} : docLock = b => docLock' = b,
             docLock' \in Scribes \cup {NoScribe},
             docCrashes' \in Nat, docCrashes # 0 => docCrashes' # 0,
             scribe[a].op # "archive" \/ docCrashes' # 0,
             UNCHANGED <<source, verdict, docVersions, docStream, files, reviews, publication, outside>>
      PROVE  DocInv'
  <2>1. \A d \in Places : RecordGood(d, publication[d], outside[d], scribe', docCrashes')
    BY <1>4, RecordsKeep
  <2>2. /\ DraftGood(t, a, docLock', docVersions', docStream', files', verdict)
        /\ PublishGood(t, docVersions', reviews, publication', outside')
        /\ Holds(docVersions, docVersions') /\ Holds(files, files') /\ Holds(docStream, docStream')
        /\ DOMAIN docVersions' \ DOMAIN docVersions = {}
    BY <1>2, <1>4
  <2>3. /\ \A d \in Places : DOMAIN publication[d] \subseteq DOMAIN publication'[d]
        /\ \A d \in Places : \A v \in DOMAIN outside[d] :
             v \in DOMAIN outside'[d] \/ v \in DOMAIN publication'[d]
        /\ \A d \in Places : ShownGood(outside'[d], docVersions', reviews)
        /\ \A d \in Places : RecordGood(d, publication'[d], outside'[d], scribe', docCrashes')
    BY <1>0, <1>4, <2>1
  <2>4. /\ docVersions' \in Seq([text : DocText, key : DocKeys]) /\ docStream' \in Seq(DocEvent)
        /\ DistinctVersions(docVersions') /\ DOMAIN publication' = Places /\ DOMAIN outside' = Places
    BY <1>0, <1>4
  <2> QED
    BY <1>4, <2>2, <2>3, <2>4, ScribeKeeps
\* The sources and the verdict move, and no scribe does.
<1>5. ASSUME source' \in 1..MaxSource,
             verdict' \in [revision : 0..MaxRevision, result : {"none", "PASSED", "FAILED"}],
             verdict.result = "PASSED" => verdict' = verdict,
             UNCHANGED <<docVersions, docStream, files, docLock, scribe, reviews, publication,
                         outside, docCrashes>>
      PROVE  DocInv'
  <2>1. ASSUME NEW i \in DOMAIN docVersions
        PROVE  VersionGood(i, docVersions[i], docStream, files, verdict')
    BY <1>0, <1>2, <1>5, VersionKeeps
  <2>2. ASSUME NEW a \in Scribes
        PROVE  DraftGood(scribe[a], a, docLock, docVersions, docStream, files, verdict')
    BY <1>1, <1>2, <1>5, DraftKeeps
  <2> QED
    BY <1>0, <1>1, <1>5, <2>1, <2>2 DEF DocInv
<1>6. ASSUME SourceChanges PROVE DocInv'
  <2>1. source' \in 1..MaxSource
    BY <1>0, <1>3, <1>6 DEF SourceChanges
  <2> QED
    BY <1>0, <1>5, <1>6, <2>1 DEF SourceChanges
<1>7. ASSUME NEW r \in {"FAILED", "PASSED"}, VerdictGiven(r) PROVE DocInv'
  <2>1. /\ verdict' = [revision |-> verdict.revision + 1, result |-> r]
        /\ verdict.revision < MaxRevision /\ verdict.result # "PASSED" /\ source' = source
        /\ UNCHANGED <<docVersions, docStream, files, docLock, scribe, reviews, publication,
                       outside, docCrashes>>
    BY <1>7 DEF VerdictGiven
  <2>2. verdict.revision + 1 \in 0..MaxRevision
    BY <1>0, <1>3, <2>1
  <2>3. verdict' \in [revision : 0..MaxRevision, result : {"none", "PASSED", "FAILED"}]
    BY <2>1, <2>2
  <2> QED
    BY <1>0, <1>5, <2>1, <2>3
\* A scribe sets out to write a version.
<1>8. ASSUME NEW a \in Scribes, NEW t \in ScribeRow, t.op = "lock", t.key \in DocKeys,
             t.text.stage \in DocStages, TextGood(t.text, verdict), ScribeFree(a),
             ScribeBecomes(a, t),
             UNCHANGED <<source, verdict, docVersions, docStream, files, docLock, reviews,
                         publication, outside, docCrashes>>
      PROVE  DocInv'
  <2>3. /\ DraftGood(t, a, docLock', docVersions, docStream, files, verdict)
        /\ PublishGood(t, docVersions, reviews, publication, outside)
    BY <1>8 DEF DraftGood, PublishGood
  <2>4. scribe[a].op # "archive"
    BY <1>8 DEF ScribeFree
  <2> QED
    BY <1>0, <1>4, <1>8, <2>3, <2>4
<1>9. ASSUME NEW rev \in Nat, NEW stage \in DocStages,
             stage = "FINALIZED" => verdict.result = "PASSED" /\ rev = verdict.revision
      PROVE  /\ Text(source, stage, rev) \in DocText /\ Text(source, stage, rev).stage \in DocStages
             /\ TextGood(Text(source, stage, rev), verdict)
  <2>1. source \in Nat
    BY <1>0, <1>3
  <2> QED
    BY <1>9, <2>1 DEF Text, DocText, TextGood
<1>10. ASSUME NEW a \in Scribes, NEW k \in DocKeys, NEW quiet \in BOOLEAN,
              ReadForDraft(a, k, Text(source, "DRAFT", 0), quiet)
       PROVE  DocInv'
  <2> DEFINE text == Text(source, "DRAFT", 0)
  <2>1. text \in DocText /\ text.stage \in DocStages /\ TextGood(text, verdict)
    BY <1>9 DEF DocStages
  <2>2. /\ ScribeFree(a)
        /\ ScribeBecomes(a, [Asleep EXCEPT !.op = "lock", !.key = k, !.text = text, !.quiet = quiet])
        /\ UNCHANGED <<source, verdict, docVersions, docStream, files, docLock, reviews,
                       publication, outside, docCrashes>>
    BY <1>10 DEF ReadForDraft
  <2> HIDE DEF text
  <2> DEFINE t == [Asleep EXCEPT !.op = "lock", !.key = k, !.text = text, !.quiet = quiet]
  <2>3. t \in ScribeRow /\ t.op = "lock" /\ t.key = k /\ t.text = text
    BY <2>1 DEF Asleep, ScribeRow, Text, DocText
  <2>4. ScribeBecomes(a, t)
    BY <2>2
  <2> HIDE DEF t
  <2> QED
    BY <1>8, <2>1, <2>2, <2>3, <2>4
<1>11. ASSUME NEW a \in Scribes, NEW k \in DocKeys,
              DraftDocument(a, k) \/ DraftSubject(a, k) \/ EnsureTaskDocument(a, k)
       PROVE  DocInv'
  <2>1. \E quiet \in BOOLEAN : ReadForDraft(a, k, Text(source, "DRAFT", 0), quiet)
    BY <1>11 DEF DraftDocument, DraftSubject, EnsureTaskDocument, TaskSkeleton, SubjectSkeleton,
                 TaskSources, SubjectSources
  <2> QED
    BY <1>10, <2>1
<1>12. ASSUME NEW a \in Scribes, NEW k \in DocKeys, FinalizeAttempt(a, k) PROVE DocInv'
  <2> DEFINE stage == FinalStage(verdict.result)
             text == Text(source, stage, verdict.revision)
  <2>1. /\ stage \in DocStages /\ (stage = "FINALIZED" => verdict.result = "PASSED")
        /\ verdict.revision \in Nat
    BY <1>0, <1>3 DEF FinalStage, DocStages
  <2>2. text \in DocText /\ text.stage \in DocStages /\ TextGood(text, verdict)
    BY <1>9, <2>1
  <2>3. /\ ScribeFree(a)
        /\ UNCHANGED <<source, verdict, docVersions, docStream, files, docLock, reviews,
                       publication, outside, docCrashes>>
        /\ ScribeBecomes(a, [Asleep EXCEPT !.op = "lock", !.key = k, !.text = text])
    BY <1>12 DEF FinalizeAttempt, TaskSkeleton, TaskSources
  <2> HIDE DEF text
  <2> DEFINE t == [Asleep EXCEPT !.op = "lock", !.key = k, !.text = text]
  <2>4. t \in ScribeRow /\ t.op = "lock" /\ t.key = k /\ t.text = text
    BY <2>2 DEF Asleep, ScribeRow, Text, DocText
  <2>5. ScribeBecomes(a, t)
    BY <2>3
  <2> HIDE DEF t
  <2> QED
    BY <1>8, <2>2, <2>3, <2>4, <2>5
<1>13. ASSUME NEW a \in Scribes, EnsureDocument(a) PROVE DocInv'
  <2> DEFINE t == [scribe[a] EXCEPT !.op = "append", !.version = Len(docVersions) + 1]
  <2>1. /\ scribe[a].op = "lock" /\ docLock = NoScribe /\ docLock' = a /\ ScribeBecomes(a, t)
        /\ UNCHANGED <<source, verdict, docVersions, docStream, files, reviews, publication,
                       outside, docCrashes>>
    BY <1>13 DEF EnsureDocument
  <2>2. /\ scribe[a] \in ScribeRow /\ scribe[a].key \in DocKeys /\ scribe[a].text.stage \in DocStages
        /\ TextGood(scribe[a].text, verdict)
    BY <1>1, <2>1 DEF DraftGood
  <2>3. Len(docVersions) + 1 \in Nat
    BY <1>0
  <2>4. /\ t \in ScribeRow /\ t.op = "append" /\ t.version = Len(docVersions) + 1
        /\ t.key = scribe[a].key /\ t.text = scribe[a].text
    BY <2>2, <2>3 DEF ScribeRow
  <2> HIDE DEF t
  <2>5. /\ DraftGood(t, a, docLock', docVersions, docStream, files, verdict)
        /\ PublishGood(t, docVersions, reviews, publication, outside)
    BY <2>1, <2>2, <2>4 DEF DraftGood, PublishGood
  <2> QED
    BY <1>0, <1>3, <1>4, <2>1, <2>5
\* The scribe that has the row is the only one past it.
<1>14. ASSUME NEW a \in Scribes, scribe[a].op \in {"append", "stored"}
       PROVE  /\ docLock = a /\ scribe[a].version = Len(docVersions) + 1
              /\ scribe[a].key \in DocKeys /\ scribe[a].text.stage \in DocStages
              /\ scribe[a].text \in DocText /\ TextGood(scribe[a].text, verdict)
              /\ \A b \in Scribes \ {a} : scribe[b].op \notin {"append", "stored"} /\ docLock # b
  <2>1. \A b \in Scribes : scribe[b].op \in {"append", "stored"} => docLock = b
    BY <1>1 DEF DraftGood
  <2> QED
    BY <1>1, <1>14, <2>1 DEF DraftGood, TextGood
<1>15. ASSUME NEW a \in Scribes, StoreVersion(a) PROVE DocInv'
  <2> DEFINE w == scribe[a]
             t == [w EXCEPT !.op = "stored"]
  <2>1. /\ w.op = "append" /\ Appends(a) /\ w.version \notin DOMAIN files
        /\ files' = PutAt(files, w.version, w.text) /\ ScribeBecomes(a, t)
        /\ UNCHANGED <<source, verdict, docVersions, docStream, docLock, reviews, publication,
                       outside, docCrashes>>
    BY <1>15 DEF StoreVersion, WriteOnce
  <2>2. Holds(files, files') /\ w.version \in DOMAIN files' /\ files'[w.version] = w.text
    <3> DEFINE more == PutAt(files, w.version, w.text)
    <3>1. w.version \in DOMAIN files => files[w.version] = w.text
      BY <2>1
    <3>2. Holds(files, more) /\ w.version \in DOMAIN more /\ more[w.version] = w.text
      BY <3>1 DEF Holds, PutAt
    <3> HIDE DEF more
    <3>3. files' = more
      BY <2>1 DEF more
    <3> QED
      BY <3>2, <3>3
  <2>3. w.version = Len(docStream) + 1 /\ ~Used(docStream, w.text.stage, w.key)
    BY <2>1 DEF Appends, VersionFits, Replayed, Used
  <2>4. /\ t \in ScribeRow /\ t.op = "stored" /\ t.version = w.version /\ t.key = w.key
        /\ t.text = w.text
    BY <1>1 DEF ScribeRow
  <2>5. w.op \in {"append", "stored"}
    BY <2>1
  <2> HIDE DEF t
  <2>6. /\ DraftGood(t, a, docLock', docVersions', docStream', files', verdict)
        /\ PublishGood(t, docVersions', reviews, publication', outside')
    BY <1>14, <2>1, <2>2, <2>3, <2>4, <2>5 DEF DraftGood, PublishGood
  <2>7. \A d \in Places : RecordGood(d, publication'[d], outside'[d], scribe', docCrashes')
    BY <1>0, <2>1, RecordsKeep
  <2>8. /\ Holds(docVersions, docVersions') /\ Holds(docStream, docStream')
        /\ DOMAIN docVersions' \ DOMAIN docVersions = {}
    BY <1>2, <2>1
  <2> QED
    BY <1>0, <2>1, <2>2, <2>6, <2>7, <2>8, ScribeKeeps
\* An Event of the scribe's version.
<1>16. ASSUME NEW a \in Scribes, scribe[a].op \in {"append", "stored"}
       PROVE  /\ VersionEvent(a) \in DocEvent /\ VersionEvent(a).type = scribe[a].text.stage
              /\ VersionEvent(a).key = scribe[a].key /\ VersionEvent(a).version = scribe[a].version
  <2>1. /\ scribe[a].text.stage \in DocStages /\ scribe[a].key \in DocKeys
        /\ scribe[a].version \in Nat
    BY <1>1, <1>14, <1>16 DEF ScribeRow
  <2> QED
    BY <2>1 DEF VersionEvent, DocEvent
<1>17. ASSUME NEW a \in Scribes, PersistVersion(a) PROVE DocInv'
  <2> DEFINE w == scribe[a]
             e == [text |-> w.text, key |-> w.key]
             n == Len(docVersions) + 1
  <2>1. /\ w.op = "stored" /\ docVersions' = Append(docVersions, e)
        /\ docStream' = Append(docStream, VersionEvent(a)) /\ docLock' = NoScribe
        /\ ScribeBecomes(a, Asleep)
        /\ UNCHANGED <<source, verdict, files, reviews, publication, outside, docCrashes>>
    BY <1>17 DEF PersistVersion
  <2>2. /\ w.version = n /\ w.key \in DocKeys /\ w.text.stage \in DocStages /\ w.text \in DocText
        /\ TextGood(w.text, verdict) /\ docLock = a
        /\ \A b \in Scribes \ {a} : scribe[b].op \notin {"append", "stored"} /\ docLock # b
    BY <1>14, <2>1
  <2>3. ~Used(docStream, w.text.stage, w.key) /\ w.version \in DOMAIN files /\ files[w.version] = w.text
    BY <1>1, <2>1 DEF DraftGood
  <2>4. e \in [text : DocText, key : DocKeys] /\ e.text = w.text /\ e.key = w.key
    BY <2>2
  <2>5. DistinctVersions(docVersions')
    BY <1>0, <2>1, <2>2, <2>3, VersionAdded
  <2> HIDE DEF e
  <2>6. /\ docVersions' \in Seq([text : DocText, key : DocKeys]) /\ Holds(docVersions, docVersions')
        /\ docVersions'[n] = e /\ DOMAIN docVersions' \ DOMAIN docVersions = {n}
    <3> DEFINE S == [text : DocText, key : DocKeys]
    <3>1. docVersions \in Seq(S) /\ e \in S
      BY <1>0, <2>4
    <3> HIDE DEF S
    <3>2. /\ Append(docVersions, e) \in Seq(S) /\ Holds(docVersions, Append(docVersions, e))
          /\ Append(docVersions, e)[n] = e
          /\ DOMAIN Append(docVersions, e) = DOMAIN docVersions \cup {n} /\ n \notin DOMAIN docVersions
      BY <3>1, AppendHolds
    <3> HIDE DEF n
    <3> QED
      BY <2>1, <3>2 DEF S
  <2>7. /\ VersionEvent(a) \in DocEvent /\ VersionEvent(a).type = w.text.stage
        /\ VersionEvent(a).key = w.key /\ VersionEvent(a).version = n
    BY <1>16, <2>1, <2>2
  <2>8. /\ docStream' \in Seq(DocEvent) /\ Holds(docStream, docStream')
        /\ Len(docStream) + 1 \in DOMAIN docStream'
        /\ docStream'[Len(docStream) + 1] = VersionEvent(a)
    BY <1>0, <2>1, <2>7, AppendHolds
  <2>9. VersionGood(n, docVersions'[n], docStream', files', verdict)
    <3>1. Says(docStream', w.text.stage, w.key, n)
      BY <2>7, <2>8 DEF Says
    <3> QED
      BY <2>1, <2>2, <2>3, <2>4, <2>6, <3>1 DEF VersionGood
  <2>10. \A d \in Places : ShownGood(outside'[d], docVersions', reviews)
    BY <1>0, <1>2, <2>1, <2>6, ShownKeeps
  <2>11. \A d \in Places : RecordGood(d, publication'[d], outside'[d], scribe', docCrashes')
    BY <1>0, <2>1, RecordsKeep
  <2>12. /\ DraftGood(Asleep, a, docLock', docVersions', docStream', files', verdict)
         /\ PublishGood(Asleep, docVersions', reviews, publication', outside')
    BY AsleepGood
  <2>13. Holds(files, files')
    BY <1>2, <2>1
  <2> HIDE DEF n
  <2> QED
    BY <1>0, <2>1, <2>2, <2>5, <2>6, <2>8, <2>9, <2>10, <2>11, <2>12, <2>13, ScribeKeeps
<1>18. ASSUME NEW a \in Scribes, RecordFailure(a) PROVE DocInv'
  <2>1. /\ scribe[a].op = "append" /\ docStream' = Append(docStream, VersionEvent(a))
        /\ docLock' = NoScribe /\ ScribeBecomes(a, Asleep)
        /\ UNCHANGED <<source, verdict, docVersions, files, reviews, publication, outside, docCrashes>>
    BY <1>18 DEF RecordFailure
  <2>2. docLock = a /\ \A b \in Scribes \ {a} : scribe[b].op \notin {"append", "stored"} /\ docLock # b
    BY <1>14, <2>1
  <2>3. docStream' \in Seq(DocEvent) /\ Holds(docStream, docStream')
    BY <1>0, <1>16, <2>1, AppendHolds
  <2>4. \A d \in Places : RecordGood(d, publication'[d], outside'[d], scribe', docCrashes')
    BY <1>0, <2>1, RecordsKeep
  <2>5. /\ DraftGood(Asleep, a, docLock', docVersions', docStream', files', verdict)
        /\ PublishGood(Asleep, docVersions', reviews, publication', outside')
    BY AsleepGood
  <2>6. Holds(docVersions, docVersions') /\ Holds(files, files') /\ DOMAIN docVersions' \ DOMAIN docVersions = {}
    BY <1>2, <2>1
  <2> QED
    BY <1>0, <2>1, <2>2, <2>3, <2>4, <2>5, <2>6, ScribeKeeps
<1>19. ASSUME NEW a \in Scribes, DocumentRefused(a) PROVE DocInv'
  <2>1. /\ scribe[a].op = "append" /\ docLock' = NoScribe /\ ScribeBecomes(a, Asleep)
        /\ UNCHANGED <<source, verdict, docVersions, docStream, files, reviews, publication,
                       outside, docCrashes>>
    BY <1>19 DEF DocumentRefused
  <2>2. \A b \in Scribes \ {a} : docLock # b
    BY <1>14, <2>1
  <2> QED
    BY <1>0, <1>4, <2>1, <2>2, AsleepGood
<1>20. ASSUME NEW a \in Scribes, ScribeCrash(a) PROVE DocInv'
  <2>1. /\ docCrashes' = docCrashes + 1 /\ docLock' = (IF docLock = a THEN NoScribe ELSE docLock)
        /\ ScribeBecomes(a, Asleep)
        /\ UNCHANGED <<source, verdict, docVersions, docStream, files, reviews, publication, outside>>
    BY <1>20 DEF ScribeCrash
  <2>2. docCrashes' \in Nat /\ docCrashes' # 0
    BY <1>0, <2>1
  <2> QED
    BY <1>0, <1>4, <2>1, <2>2, AsleepGood
<1>21. ASSUME NEW v \in 1..MaxVersion, NEW r \in {"APPROVED", "REJECTED"}, ReviewDocument(v, r)
       PROVE  DocInv'
  <2> DEFINE e == [type |-> "REVIEWED", key |-> "none", version |-> v]
             q == [version |-> v, decision |-> r]
  <2>1. /\ ~StreamHeld /\ docStream' = Append(docStream, e) /\ reviews' = Append(reviews, q)
        /\ UNCHANGED <<source, verdict, docVersions, files, docLock, scribe, publication, outside,
                       docCrashes>>
    BY <1>21 DEF ReviewDocument
  <2>2. v \in Nat /\ e \in DocEvent /\ q \in [version : Nat, decision : {"APPROVED", "REJECTED"}]
    BY DEF DocEvent
  <2> HIDE DEF e, q
  <2>3. docStream' \in Seq(DocEvent) /\ Holds(docStream, docStream')
    BY <1>0, <2>1, <2>2, AppendHolds
  <2>4. /\ reviews' \in Seq([version : Nat, decision : {"APPROVED", "REJECTED"}])
        /\ Holds(reviews, reviews')
    BY <1>0, <2>1, <2>2, AppendHolds
  <2>5. ASSUME NEW i \in DOMAIN docVersions
        PROVE  VersionGood(i, docVersions[i], docStream', files, verdict)
    BY <1>0, <1>2, <2>3, VersionKeeps
  <2>6. ASSUME NEW a \in Scribes
        PROVE  /\ DraftGood(scribe[a], a, docLock, docVersions, docStream', files, verdict)
               /\ PublishGood(scribe[a], docVersions, reviews', publication, outside)
    <3>1. scribe[a].op # "stored"
      BY <2>1 DEF StreamHeld
    <3>2. DraftGood(scribe[a], a, docLock, docVersions, docStream', files, verdict)
      BY <1>1, <1>2, <3>1, DraftKeeps
    <3>3. PublishGood(scribe[a], docVersions, reviews', publication, outside)
      BY <1>1, <1>2, <2>4, PublishKeeps
    <3> QED
      BY <3>2, <3>3
  <2>7. ASSUME NEW d \in Places PROVE ShownGood(outside[d], docVersions, reviews')
    BY <1>0, <1>2, <2>4, ShownKeeps
  <2> QED
    BY <1>0, <2>1, <2>3, <2>4, <2>5, <2>6, <2>7 DEF DocInv
<1>22. ASSUME NEW a \in Scribes, NEW d \in Places, NEW v \in 1..MaxVersion, ReadForPublish(a, d, v)
       PROVE  DocInv'
  <2> DEFINE t == [Asleep EXCEPT !.op = "publish", !.version = v, !.place = d, !.text = files[v]]
  <2>1. /\ ScribeFree(a) /\ IsFinalized(v) /\ ApprovedReview(v) /\ ScribeBecomes(a, t)
        /\ UNCHANGED <<source, verdict, docVersions, docStream, files, docLock, reviews,
                       publication, outside, docCrashes>>
    BY <1>22 DEF ReadForPublish
  <2>2. /\ v \in DOMAIN docVersions /\ docVersions[v].text.stage = "FINALIZED"
        /\ files[v] = docVersions[v].text /\ files[v] \in DocText
    BY <1>0, <2>1 DEF IsFinalized, VersionGood, TextGood
  <2>3. Approved(reviews, v)
    BY <2>1 DEF ApprovedReview, Approved
  <2>4. v \in Nat
    OBVIOUS
  <2>5. /\ t \in ScribeRow /\ t.op = "publish" /\ t.version = v /\ t.place = d /\ t.text = files[v]
    BY <2>2, <2>4 DEF Asleep, ScribeRow
  <2> HIDE DEF t
  <2>6. /\ DraftGood(t, a, docLock', docVersions, docStream, files, verdict)
        /\ PublishGood(t, docVersions, reviews, publication, outside)
    BY <2>2, <2>3, <2>5 DEF DraftGood, PublishGood
  <2>7. scribe[a].op # "archive"
    BY <2>1 DEF ScribeFree
  <2> QED
    BY <1>0, <1>4, <2>1, <2>6, <2>7
<1>23. ASSUME NEW a \in Scribes, PublishRefused(a) PROVE DocInv'
  <2>1. /\ scribe[a].op = "publish" /\ ScribeBecomes(a, Asleep)
        /\ UNCHANGED <<source, verdict, docVersions, docStream, files, docLock, reviews,
                       publication, outside, docCrashes>>
    BY <1>23 DEF PublishRefused
  <2> QED
    BY <1>0, <1>4, <2>1, AsleepGood
<1>24. ASSUME NEW a \in Scribes, PublishOutside(a) PROVE DocInv'
  <2> DEFINE w == scribe[a]
             p == w.place
             v == w.version
             there == PutAt(outside[p], v, w.text)
             t == [w EXCEPT !.op = "record"]
  <2>1. /\ w.op = "publish" /\ ScribeBecomes(a, t)
        /\ UNCHANGED <<source, verdict, docVersions, docStream, files, docLock, reviews,
                       publication, docCrashes>>
    BY <1>24 DEF PublishOutside
  <2>2. /\ w \in ScribeRow /\ p \in Places /\ v \in DOMAIN docVersions
        /\ docVersions[v].text.stage = "FINALIZED" /\ w.text = docVersions[v].text
        /\ Approved(reviews, v)
    BY <1>1, <2>1 DEF PublishGood
  <2>3. outside' = [outside EXCEPT ![p] = there]
    BY <1>0, <1>24, <2>2 DEF PublishOutside
  <2>4. v \in DOMAIN outside[p] => outside[p][v] = w.text
    BY <1>0, <2>2 DEF ShownGood
  <2>5. Holds(outside[p], there) /\ DOMAIN there = DOMAIN outside[p] \cup {v} /\ there[v] = w.text
    BY <2>4 DEF Holds, PutAt
  <2>6. ShownGood(there, docVersions, reviews)
    BY <1>0, <2>2, <2>5 DEF ShownGood, Holds
  <2>7. t \in ScribeRow /\ t.op = "record" /\ t.place = p /\ t.version = v /\ t.text = w.text
    BY <2>2 DEF ScribeRow
  <2> HIDE DEF t, there
  <2>8. /\ DOMAIN outside' = Places /\ outside'[p] = there
        /\ \A d \in Places \ {p} : outside'[d] = outside[d]
    BY <1>0, <2>2, <2>3
  <2>9. \A d \in Places : /\ ShownGood(outside'[d], docVersions', reviews)
                          /\ DOMAIN outside[d] \subseteq DOMAIN outside'[d]
    BY <1>0, <2>1, <2>5, <2>6, <2>8
  <2>10. \A d \in Places : RecordGood(d, publication'[d], outside'[d], scribe', docCrashes')
    <3>1. \A d \in Places : RecordGood(d, publication[d], outside[d], scribe', docCrashes)
      BY <1>0, <2>1, RecordsKeep
    <3> QED
      BY <2>1, <2>9, <3>1 DEF RecordGood
  <2>11. /\ DraftGood(t, a, docLock', docVersions', docStream', files', verdict)
         /\ PublishGood(t, docVersions', reviews, publication', outside')
    BY <2>1, <2>2, <2>5, <2>7, <2>8 DEF DraftGood, PublishGood
  <2>12. /\ Holds(docVersions, docVersions') /\ Holds(files, files') /\ Holds(docStream, docStream')
         /\ DOMAIN docVersions' \ DOMAIN docVersions = {}
         /\ \A d \in Places : DOMAIN publication[d] \subseteq DOMAIN publication'[d]
    BY <1>2, <2>1
  <2>13. /\ UNCHANGED <<source, verdict, reviews>> /\ docLock' = docLock
         /\ docVersions' = docVersions /\ docStream' = docStream /\ publication' = publication
         /\ docCrashes' = docCrashes
    BY <2>1
  <2> QED
    BY <1>0, <2>1, <2>8, <2>9, <2>10, <2>11, <2>12, <2>13, ScribeKeeps
<1>25. ASSUME NEW a \in Scribes, RecordPublication(a) PROVE DocInv'
  <2> DEFINE w == scribe[a]
             p == w.place
             v == w.version
             e == [type |-> "PUBLISHED", key |-> "none", version |-> v]
             rows == PutAt(publication[p], v, "published")
  <2>1. /\ w.op = "record" /\ ~StreamHeld /\ ScribeBecomes(a, Asleep)
        /\ UNCHANGED <<source, verdict, docVersions, files, docLock, reviews, outside, docCrashes>>
    BY <1>25 DEF RecordPublication
  <2>2. /\ w \in ScribeRow /\ p \in Places
        /\ (v \notin DOMAIN publication[p] => v \in DOMAIN outside[p])
    BY <1>1, <2>1 DEF PublishGood
  <2>3. CASE v \in DOMAIN publication[p]
    <3>1. publication' = publication /\ docStream' = docStream
      BY <1>25, <2>3 DEF RecordPublication
    <3> QED
      BY <1>0, <1>4, <2>1, <3>1, AsleepGood
  <2>4. CASE v \notin DOMAIN publication[p]
    <3>1. publication' = [publication EXCEPT ![p] = rows] /\ docStream' = Append(docStream, e)
      BY <1>0, <1>25, <2>2, <2>4 DEF RecordPublication
    <3>2. e \in DocEvent
      BY <2>2 DEF DocEvent, ScribeRow
    <3> HIDE DEF e
    <3>3. docStream' \in Seq(DocEvent) /\ Holds(docStream, docStream')
      BY <1>0, <3>1, <3>2, AppendHolds
    <3>4. Holds(publication[p], rows) /\ DOMAIN rows = DOMAIN publication[p] \cup {v} /\ rows[v] = "published"
      BY <2>4 DEF Holds, PutAt
    <3> HIDE DEF rows
    <3>5. /\ DOMAIN publication' = Places /\ publication'[p] = rows
          /\ \A d \in Places \ {p} : publication'[d] = publication[d]
      BY <1>0, <2>2, <3>1
    <3>6. \A d \in Places : DOMAIN publication[d] \subseteq DOMAIN publication'[d]
      BY <3>4, <3>5
    <3>7. \A d \in Places : RecordGood(d, publication[d], outside[d], scribe', docCrashes)
      BY <1>0, <2>1, RecordsKeep
    <3>8. RecordGood(p, rows, outside[p], scribe', docCrashes)
      BY <2>2, <2>4, <3>4, <3>7 DEF RecordGood, Holds
    <3>9. \A d \in Places : RecordGood(d, publication'[d], outside'[d], scribe', docCrashes')
      BY <2>1, <3>5, <3>7, <3>8
    <3>10. /\ DraftGood(Asleep, a, docLock', docVersions', docStream', files', verdict)
           /\ PublishGood(Asleep, docVersions', reviews, publication', outside')
      BY AsleepGood
    <3>11. /\ Holds(docVersions, docVersions') /\ Holds(files, files')
           /\ DOMAIN docVersions' \ DOMAIN docVersions = {}
      BY <1>2, <2>1
    <3>12. \A b \in Scribes \ {a} : scribe[b].op # "stored"
      BY <2>1 DEF StreamHeld
    <3>13. /\ UNCHANGED <<source, verdict, reviews>> /\ docLock' = docLock
           /\ docVersions' = docVersions /\ outside' = outside /\ docCrashes' = docCrashes
      BY <2>1
    <3> QED
      BY <1>0, <2>1, <3>3, <3>5, <3>6, <3>9, <3>10, <3>11, <3>12, <3>13, ScribeKeeps
  <2> QED
    BY <2>3, <2>4
<1>26. ASSUME NEW a \in Scribes, NEW d \in Places, NEW v \in 1..MaxVersion, ArchiveOutside(a, d, v)
       PROVE  DocInv'
  <2> DEFINE there == DropAt(outside[d], v)
             t == [Asleep EXCEPT !.op = "archive", !.version = v, !.place = d]
  <2>1. /\ ScribeFree(a) /\ v \in DOMAIN publication[d] /\ ScribeBecomes(a, t)
        /\ UNCHANGED <<source, verdict, docVersions, docStream, files, docLock, reviews,
                       publication, docCrashes>>
    BY <1>26 DEF ArchiveOutside
  <2>2. outside' = [outside EXCEPT ![d] = there]
    BY <1>0, <1>26 DEF ArchiveOutside
  <2>3. DOMAIN there = DOMAIN outside[d] \ {v} /\ \A x \in DOMAIN there : there[x] = outside[d][x]
    BY DEF DropAt
  <2>4. v \in Nat
    OBVIOUS
  <2>5. t \in ScribeRow /\ t.op = "archive" /\ t.version = v /\ t.place = d
    BY <2>4 DEF Asleep, ScribeRow, Text, DocText
  <2> HIDE DEF t, there
  <2>6. /\ DOMAIN outside' = Places /\ outside'[d] = there
        /\ \A b \in Places \ {d} : outside'[b] = outside[b]
    BY <1>0, <2>2
  <2>7. ShownGood(there, docVersions, reviews)
    BY <1>0, <2>3 DEF ShownGood
  <2>8. \A b \in Places : /\ ShownGood(outside'[b], docVersions', reviews)
                          /\ \A x \in DOMAIN outside[b] :
                               x \in DOMAIN outside'[b] \/ (b = d /\ x = v)
    BY <1>0, <2>1, <2>3, <2>6, <2>7
  <2>9. \A b \in Places : RecordGood(b, publication[b], outside[b], scribe', docCrashes)
    BY <1>0, <2>1, RecordsKeep DEF ScribeFree
  <2>10. ArchivedBy(d, v, scribe')
    BY <1>0, <2>1, <2>5 DEF ArchivedBy, ScribeBecomes
  <2>11. \A b \in Places : RecordGood(b, publication'[b], outside'[b], scribe', docCrashes')
    BY <2>1, <2>8, <2>9, <2>10 DEF RecordGood
  <2>12. /\ DraftGood(t, a, docLock', docVersions', docStream', files', verdict)
         /\ PublishGood(t, docVersions', reviews, publication', outside')
    BY <2>1, <2>5 DEF DraftGood, PublishGood
  <2>13. /\ Holds(docVersions, docVersions') /\ Holds(files, files') /\ Holds(docStream, docStream')
         /\ DOMAIN docVersions' \ DOMAIN docVersions = {}
         /\ \A b \in Places : DOMAIN publication[b] \subseteq DOMAIN publication'[b]
         /\ \A b \in Places : \A x \in DOMAIN outside[b] :
              x \in DOMAIN outside'[b] \/ x \in DOMAIN publication'[b]
    BY <1>2, <2>1, <2>8
  <2>14. /\ UNCHANGED <<source, verdict, reviews>> /\ docLock' = docLock
         /\ docVersions' = docVersions /\ docStream' = docStream /\ publication' = publication
         /\ docCrashes' = docCrashes
    BY <2>1
  <2> QED
    BY <1>0, <2>1, <2>6, <2>8, <2>11, <2>12, <2>13, <2>14, ScribeKeeps
<1>27. ASSUME NEW a \in Scribes, RecordArchive(a) PROVE DocInv'
  <2> DEFINE w == scribe[a]
             p == w.place
             v == w.version
             rows == [publication[p] EXCEPT ![v] = "archived"]
  <2>1. /\ w.op = "archive" /\ ScribeBecomes(a, Asleep)
        /\ UNCHANGED <<source, verdict, docVersions, docStream, files, docLock, reviews, outside,
                       docCrashes>>
    BY <1>27 DEF RecordArchive
  <2>2. p \in Places /\ v \in DOMAIN publication[p]
    BY <1>1, <2>1 DEF PublishGood
  <2>3. publication' = [publication EXCEPT ![p] = rows]
    BY <1>0, <1>27, <2>2 DEF RecordArchive
  <2>4. /\ DOMAIN rows = DOMAIN publication[p] /\ rows[v] = "archived"
        /\ \A x \in DOMAIN rows \ {v} : rows[x] = publication[p][x]
    BY <2>2
  <2> HIDE DEF rows
  <2>5. /\ DOMAIN publication' = Places /\ publication'[p] = rows
        /\ \A d \in Places \ {p} : publication'[d] = publication[d]
    BY <1>0, <2>2, <2>3
  <2>6. ASSUME NEW d \in Places, NEW x, ArchivedBy(d, x, scribe), d # p \/ x # v
        PROVE  ArchivedBy(d, x, scribe')
    <3>1. PICK b \in Scribes : scribe[b].op = "archive" /\ scribe[b].place = d /\ scribe[b].version = x
      BY <2>6 DEF ArchivedBy
    <3>2. b # a /\ scribe'[b] = scribe[b]
      BY <1>0, <2>1, <2>6, <3>1 DEF ScribeBecomes
    <3> QED
      BY <3>1, <3>2 DEF ArchivedBy
  <2>7. ASSUME NEW d \in Places
        PROVE  RecordGood(d, publication'[d], outside'[d], scribe', docCrashes')
    <3>1. RecordGood(d, publication[d], outside[d], scribe, docCrashes)
      BY <1>0
    <3>2. CASE d = p
      BY <2>1, <2>4, <2>5, <2>6, <3>1, <3>2 DEF RecordGood
    <3>3. CASE d # p
      BY <2>1, <2>5, <2>6, <3>1, <3>3 DEF RecordGood
    <3> QED
      BY <3>2, <3>3
  <2>8. /\ DraftGood(Asleep, a, docLock', docVersions', docStream', files', verdict)
        /\ PublishGood(Asleep, docVersions', reviews, publication', outside')
    BY AsleepGood
  <2>9. /\ Holds(docVersions, docVersions') /\ Holds(files, files') /\ Holds(docStream, docStream')
        /\ DOMAIN docVersions' \ DOMAIN docVersions = {}
        /\ \A d \in Places : DOMAIN publication[d] \subseteq DOMAIN publication'[d]
    BY <1>2, <2>1, <2>4, <2>5
  <2>10. /\ UNCHANGED <<source, verdict, reviews>> /\ docLock' = docLock /\ outside' = outside
         /\ docVersions' = docVersions /\ docStream' = docStream /\ docCrashes' = docCrashes
    BY <2>1
  <2> QED
    BY <1>0, <2>1, <2>5, <2>7, <2>8, <2>9, <2>10, ScribeKeeps
<1>28. CASE UNCHANGED docVars
  BY <1>0, <1>5, <1>28 DEF docVars
<1> QED
  BY <1>6, <1>7, <1>11, <1>12, <1>13, <1>15, <1>17, <1>18, <1>19, <1>20, <1>21, <1>22, <1>23,
     <1>24, <1>25, <1>26, <1>27, <1>28 DEF DocNext

\* Versions have different stages or keys, so there are at most three per key:
\* the bound MaxVersion leaves nothing out.
LEMMA VersionsBounded ==
  ASSUME DocInv
  PROVE  Len(docVersions) <= MaxVersion
<1> DEFINE n == Len(docVersions)
           T == DocStages \X DocKeys
           f == [i \in 1..n |-> <<docVersions[i].text.stage, docVersions[i].key>>]
<1>1. n \in Nat /\ DOMAIN docVersions = 1..n
  BY DEF DocInv
<1>2. IsFiniteSet(DocStages) /\ Cardinality(DocStages) = 3
  <2>1. IsFiniteSet({"DRAFT"}) /\ Cardinality({"DRAFT"}) = 1
    BY FS_Singleton
  <2>2. IsFiniteSet({"DRAFT", "ATTEMPT_FINALIZED"}) /\ Cardinality({"DRAFT", "ATTEMPT_FINALIZED"}) = 2
    <3>1. {"DRAFT", "ATTEMPT_FINALIZED"} = {"DRAFT"} \cup {"ATTEMPT_FINALIZED"}
          /\ "ATTEMPT_FINALIZED" \notin {"DRAFT"}
      OBVIOUS
    <3> QED
      BY <2>1, <3>1, FS_AddElement
  <2>3. DocStages = {"DRAFT", "ATTEMPT_FINALIZED"} \cup {"FINALIZED"}
        /\ "FINALIZED" \notin {"DRAFT", "ATTEMPT_FINALIZED"}
    BY DEF DocStages
  <2> QED
    BY <2>2, <2>3, FS_AddElement
<1>3. IsFiniteSet(DocKeys) /\ Cardinality(DocKeys) \in Nat
  BY DocumentsAssumption, FS_CardinalityType
<1>4. IsFiniteSet(T) /\ Cardinality(T) = 3 * Cardinality(DocKeys)
  BY <1>2, <1>3, FS_Product
<1>5. f \in Injection(1..n, T)
  <2>1. \A i \in 1..n : docVersions[i].text.stage \in DocStages /\ docVersions[i].key \in DocKeys
    BY <1>1 DEF DocInv, VersionGood
  <2>2. f \in [1..n -> T]
    BY <2>1
  <2>3. \A i, j \in 1..n : f[i] = f[j] => i = j
    BY <1>1 DEF DocInv, DistinctVersions
  <2> QED
    BY <2>2, <2>3 DEF Injection, IsInjective
<1>6. IsFiniteSet(1..n) /\ Cardinality(1..n) = n
  <2>1. 1 \in Int /\ n \in Int /\ n \in Nat
    BY <1>1
  <2> HIDE DEF n
  <2>2. IsFiniteSet(1..n) /\ Cardinality(1..n) = IF 1 > n THEN 0 ELSE n - 1 + 1
    BY <2>1, FS_Interval
  <2> QED
    BY <2>1, <2>2
<1> HIDE DEF f, T, n
<1>7. Cardinality(1..n) <= Cardinality(T)
  BY <1>4, <1>5, FS_Injection
<1> QED
  BY <1>4, <1>6, <1>7 DEF MaxVersion, n

\* Whatever drafts, finalisations, reviews, publications and crashes
\* interleave: every version has its Event and its own file, a final version
\* says what the verdict said, and a destination holds approved final
\* versions only (_persist_version, write_version, publish_document).
THEOREM DocumentsOnlyApproved == DocSpec => [](DocTypeOK /\ OnlyApprovedIsOutside)
<1>1. DocInit => DocInv
  <2> SUFFICES ASSUME DocInit PROVE DocInv
    OBVIOUS
  <2>1. /\ docVersions = <<>> /\ docStream = <<>> /\ files = <<>> /\ reviews = <<>>
        /\ docLock = NoScribe /\ source = 1 /\ docCrashes = 0
        /\ DOMAIN scribe = Scribes /\ DOMAIN publication = Places /\ DOMAIN outside = Places
        /\ \A a \in Scribes : scribe[a] = Asleep
        /\ \A d \in Places : publication[d] = <<>> /\ outside[d] = <<>>
    BY DEF DocInit
  <2>2. verdict \in [revision : 0..MaxRevision, result : {"none", "PASSED", "FAILED"}]
    BY DocumentsAssumption DEF DocInit
  <2>3. source \in 1..MaxSource /\ docCrashes \in Nat
    BY <2>1, DocumentsAssumption
  <2>4. /\ docVersions \in Seq([text : DocText, key : DocKeys]) /\ docStream \in Seq(DocEvent)
        /\ reviews \in Seq([version : Nat, decision : {"APPROVED", "REJECTED"}])
    BY <2>1
  <2>5. \A d \in Places : /\ ShownGood(outside[d], docVersions, reviews)
                          /\ RecordGood(d, publication[d], outside[d], scribe, docCrashes)
    BY <2>1 DEF ShownGood, RecordGood
  <2>6. DOMAIN docVersions = {} /\ DistinctVersions(docVersions)
    BY <2>1 DEF DistinctVersions
  <2>7. \A a \in Scribes : /\ DraftGood(scribe[a], a, docLock, docVersions, docStream, files, verdict)
                           /\ PublishGood(scribe[a], docVersions, reviews, publication, outside)
    BY <2>1, AsleepGood
  <2> QED
    BY <2>1, <2>2, <2>3, <2>4, <2>5, <2>6, <2>7 DEF DocInv
<1>2. DocInv => DocTypeOK /\ OnlyApprovedIsOutside
  <2> SUFFICES ASSUME DocInv PROVE DocTypeOK /\ OnlyApprovedIsOutside
    OBVIOUS
  <2>1. \A i \in DOMAIN docVersions : VersionGood(i, docVersions[i], docStream, files, verdict)
    BY DEF DocInv
  <2>2. DocTypeOK
    <3>1. \A i \in DOMAIN docVersions :
            docVersions[i].text.stage \in {"DRAFT", "ATTEMPT_FINALIZED", "FINALIZED"}
      BY <2>1 DEF VersionGood, DocStages
    <3>2. \A d \in Places : \A v \in DOMAIN publication[d] :
            publication[d][v] \in {"published", "archived"}
      BY DEF DocInv, RecordGood
    <3> QED
      BY <3>1, <3>2, VersionsBounded DEF DocInv, DocTypeOK
  <2>3. \A i \in DOMAIN docVersions :
          /\ i \in DOMAIN files /\ files[i] = docVersions[i].text
          /\ \E j \in DOMAIN docStream : docStream[j].version = i
                                         /\ docStream[j].type = docVersions[i].text.stage
          /\ docVersions[i].text.stage = "FINALIZED" =>
               verdict.result = "PASSED" /\ docVersions[i].text.revision = verdict.revision
    BY <2>1 DEF VersionGood, Says, TextGood
  <2>4. ASSUME NEW d \in Places, NEW v \in DOMAIN outside[d]
        PROVE  /\ IsFinalized(v) /\ outside[d][v] = docVersions[v].text
               /\ \E i \in DOMAIN reviews : reviews[i] = [version |-> v, decision |-> "APPROVED"]
    BY DEF DocInv, ShownGood, Approved, IsFinalized
  <2>5. ASSUME NEW d \in Places, NEW v \in DOMAIN publication[d],
               publication[d][v] = "published", docCrashes = 0
        PROVE  \/ v \in DOMAIN outside[d]
               \/ \E a \in Scribes : scribe[a].op = "archive" /\ scribe[a].version = v
    BY <2>5 DEF DocInv, RecordGood, ArchivedBy
  <2>6. OnlyApprovedIsOutside
    BY <2>3, <2>4, <2>5 DEF OnlyApprovedIsOutside
  <2> QED
    BY <2>2, <2>6
<1> QED
  BY <1>1, <1>2, DocStepKeeps, PTL DEF DocSpec

-----------------------------------------------------------------------------
(***************************************************************************)
(* Brainstorm.  A command decides from the session it loaded.  BrainInv    *)
(* says of every session that was loaded that it is not ahead of the row,  *)
(* and that as long as its turn is still the last one its counters are     *)
(* those of the row: the UNIQUE sequence of the transcript makes a stale   *)
(* contribution fail.                                                      *)
(***************************************************************************)
SessionRow(seats) ==
  [status : {"OPEN", "PAUSED", "CLOSED"}, turnNo : Nat, turnIndex : Nat, last : Accounts \cup {"nobody"},
   consecutive : Nat, seats : {seats}, taken : [Accounts -> Nat], limits : LimitChoices]
IsSession(s) == s \in SessionRow(s.seats)
BsTypes == {"BRAINSTORM_OPENED", "IDEA_RECORDED", "BREACH_PAUSED", "BRAINSTORM_PAUSED", "BRAINSTORM_RESUMED",
            "BRAINSTORM_CLOSED", "SUMMARY_RECORDED", "DECISION_RECORDED"}
BsEvent == [type : BsTypes, key : Nat, body : Nat]
TurnRow == [seq : Nat, who : Accounts]

Ideas == {i \in DOMAIN stream : stream[i].type = "IDEA_RECORDED"}
TurnsBy(S) == {i \in DOMAIN turns : turns[i].who \in S}

\* The row after one more turn.
Tally(taken, a) == [taken EXCEPT ![a] = @ + 1]
Advanced(s, index, a, times) ==
  [s EXCEPT !.turnNo = @ + 1, !.turnIndex = index, !.last = a, !.consecutive = times, !.taken[a] = @ + 1]

\* A session that was loaded, while the row is row.
LoadedGood(saw, row) ==
  /\ IsSession(saw) /\ saw.turnNo <= row.turnNo
  /\ saw.turnNo = row.turnNo => saw.taken = row.taken /\ saw.turnIndex = row.turnIndex
CallGood(t, row) ==
  \/ t = NoCall
  \/ /\ {"req", "saw"} \subseteq DOMAIN t
     /\ t.req \in BsRequests /\ LoadedGood(t.saw, row)

BrainShapes ==
  /\ request \in Asked /\ IsSession(session) /\ stream \in Seq(BsEvent) /\ turns \in Seq(TurnRow)
  /\ DOMAIN call = Callers
CallsGood == \A c \in Callers : CallGood(call[c], session)
Counted ==
  /\ session.turnNo = Len(turns) /\ \A i \in DOMAIN turns : turns[i].seq = i
  /\ IsFiniteSet(Ideas) /\ Cardinality(Ideas) = Len(turns)
  /\ IsFiniteSet(TurnsBy(Agents)) /\ session.turnIndex = Cardinality(TurnsBy(Agents))
  /\ \A a \in Accounts : IsFiniteSet(TurnsBy({a})) /\ session.taken[a] = Cardinality(TurnsBy({a}))
WithinLimits ==
  /\ \A a \in Agents : \E l \in LimitChoices : ~OverLimit(session.taken[a], l.perAgent)
  /\ \E l \in LimitChoices : ~OverLimit(session.turnNo, l.total)
BrainInv == BrainShapes /\ CallsGood /\ Counted /\ WithinLimits

\* The session, as commands rewrite its row.
LEMMA SessionRewritten ==
  ASSUME NEW s, IsSession(s)
  PROVE  /\ \A st \in {"OPEN", "PAUSED", "CLOSED"} :
              LET x == [s EXCEPT !.status = st]
              IN  IsSession(x) /\ x.turnNo = s.turnNo /\ x.turnIndex = s.turnIndex /\ x.taken = s.taken
         /\ \A l \in LimitChoices :
              LET x == [s EXCEPT !.status = "OPEN", !.limits = l, !.consecutive = 0]
              IN  IsSession(x) /\ x.turnNo = s.turnNo /\ x.turnIndex = s.turnIndex /\ x.taken = s.taken
         /\ \A seats :
              LET x == [s EXCEPT !.seats = seats]
              IN  IsSession(x) /\ x.turnNo = s.turnNo /\ x.turnIndex = s.turnIndex /\ x.taken = s.taken
         /\ \A i \in Nat, a \in Accounts, n \in Nat :
              LET x == Advanced(s, i, a, n)
              IN  /\ IsSession(x) /\ x.turnNo = s.turnNo + 1 /\ x.turnIndex = i
                  /\ x.taken = Tally(s.taken, a)
<1> DEFINE Sts == {"OPEN", "PAUSED", "CLOSED"}
           Numbers == Nat
           Lasts == Accounts \cup {"nobody"}
           Tallies == [Accounts -> Nat]
           Limits == LimitChoices
           Rows(seats) == [status : Sts, turnNo : Numbers, turnIndex : Numbers, last : Lasts,
                           consecutive : Numbers, seats : {seats}, taken : Tallies, limits : Limits]
<1>1. \A seats : SessionRow(seats) = Rows(seats)
  BY DEF SessionRow
<1>2. s \in Rows(s.seats)
  BY <1>1 DEF IsSession
<1>3. \A x, seats : x \in Rows(seats) => IsSession(x)
  <2> SUFFICES ASSUME NEW x, NEW seats, x \in Rows(seats) PROVE x \in Rows(x.seats)
    BY <1>1 DEF IsSession
  <2>1. x.seats = seats
    OBVIOUS
  <2> QED
    BY <2>1
<1>4. "OPEN" \in Sts /\ 0 \in Numbers /\ \A a \in Accounts : a \in Lasts
  OBVIOUS
<1>5. s.turnNo + 1 \in Numbers /\ \A a \in Accounts : [s.taken EXCEPT ![a] = @ + 1] \in Tallies
  BY <1>2
<1> HIDE DEF Sts, Numbers, Lasts, Tallies, Limits
<1>6. ASSUME NEW st \in Sts
      PROVE  LET x == [s EXCEPT !.status = st]
             IN  /\ x \in Rows(s.seats) /\ x.turnNo = s.turnNo /\ x.turnIndex = s.turnIndex
                 /\ x.taken = s.taken
  BY <1>2
<1>7. ASSUME NEW l \in Limits
      PROVE  LET x == [s EXCEPT !.status = "OPEN", !.limits = l, !.consecutive = 0]
             IN  /\ x \in Rows(s.seats) /\ x.turnNo = s.turnNo /\ x.turnIndex = s.turnIndex
                 /\ x.taken = s.taken
  BY <1>2, <1>4
<1>8. ASSUME NEW seats
      PROVE  LET x == [s EXCEPT !.seats = seats]
             IN  /\ x \in Rows(seats) /\ x.turnNo = s.turnNo /\ x.turnIndex = s.turnIndex
                 /\ x.taken = s.taken
  BY <1>2
<1>9. ASSUME NEW i \in Numbers, NEW a \in Accounts, NEW n \in Numbers
      PROVE  LET x == Advanced(s, i, a, n)
             IN  /\ IsSession(x) /\ x.turnNo = s.turnNo + 1 /\ x.turnIndex = i
                 /\ x.taken = Tally(s.taken, a)
  <2> DEFINE m == s.turnNo + 1
             t == [s.taken EXCEPT ![a] = @ + 1]
  <2>1. m \in Numbers /\ t \in Tallies /\ a \in Lasts
    BY <1>4, <1>5
  <2>2. Advanced(s, i, a, n)
          = [s EXCEPT !.turnNo = m, !.turnIndex = i, !.last = a, !.consecutive = n, !.taken = t]
    BY DEF Advanced
  <2> HIDE DEF m, t
  <2>3. LET x == [s EXCEPT !.turnNo = m, !.turnIndex = i, !.last = a, !.consecutive = n, !.taken = t]
        IN  x \in Rows(s.seats) /\ x.turnNo = m /\ x.turnIndex = i /\ x.taken = t
    BY <1>2, <2>1
  <2>4. LET x == [s EXCEPT !.turnNo = m, !.turnIndex = i, !.last = a, !.consecutive = n, !.taken = t]
        IN  IsSession(x) /\ x.turnNo = m /\ x.turnIndex = i /\ x.taken = t
    BY <2>3, <1>3
  <2> QED
    BY <2>2, <2>4 DEF m, t, Tally
<1> HIDE DEF Rows
<1>10. \A st \in {"OPEN", "PAUSED", "CLOSED"} :
          LET x == [s EXCEPT !.status = st]
          IN  IsSession(x) /\ x.turnNo = s.turnNo /\ x.turnIndex = s.turnIndex /\ x.taken = s.taken
  BY <1>3, <1>6 DEF Sts
<1>11. \A l \in LimitChoices :
          LET x == [s EXCEPT !.status = "OPEN", !.limits = l, !.consecutive = 0]
          IN  IsSession(x) /\ x.turnNo = s.turnNo /\ x.turnIndex = s.turnIndex /\ x.taken = s.taken
  BY <1>3, <1>7 DEF Limits
<1>12. \A seats :
          LET x == [s EXCEPT !.seats = seats]
          IN  IsSession(x) /\ x.turnNo = s.turnNo /\ x.turnIndex = s.turnIndex /\ x.taken = s.taken
  BY <1>3, <1>8
<1> QED
  BY <1>9, <1>10, <1>11, <1>12 DEF Numbers

\* An Event is appended that is no contribution.
LEMMA OtherAppended ==
  ASSUME BrainInv, NEW type \in BsTypes \ {"IDEA_RECORDED"}, NEW key \in Nat, NEW body \in Nat,
         AppendEvent(type, key, body)
  PROVE  stream' \in Seq(BsEvent) /\ Ideas' = Ideas
<1> DEFINE e == [type |-> type, key |-> key, body |-> body]
<1>1. e \in BsEvent /\ e.type # "IDEA_RECORDED" /\ stream \in Seq(BsEvent) /\ stream' = Append(stream, e)
  BY DEF BsEvent, BrainInv, BrainShapes, AppendEvent
<1> HIDE DEF e
<1>2. /\ stream' \in Seq(BsEvent) /\ DOMAIN stream' = DOMAIN stream \cup {Len(stream) + 1}
      /\ stream'[Len(stream) + 1] = e /\ \A i \in DOMAIN stream : stream'[i] = stream[i]
  BY <1>1
<1> QED
  BY <1>1, <1>2 DEF Ideas

\* A command that contributes nothing: what it may leave of the session.
LEMMA SessionKept ==
  ASSUME BrainInv, NEW c \in Callers, EndCall(c), IsSession(session'), session'.turnNo = session.turnNo,
         session'.turnIndex = session.turnIndex, session'.taken = session.taken,
         stream' \in Seq(BsEvent), Ideas' = Ideas, UNCHANGED <<request, turns>>
  PROVE  BrainInv'
<1>1. call' = [call EXCEPT ![c] = NoCall] /\ DOMAIN call = Callers
  BY DEF EndCall, BrainInv, BrainShapes
<1>2. CallsGood'
  <2> SUFFICES ASSUME NEW b \in Callers PROVE CallGood(call'[b], session')
    BY DEF CallsGood
  <2>1. CASE b = c
    BY <1>1, <2>1 DEF CallGood
  <2>2. CASE b # c
    <3>1. call'[b] = call[b] /\ CallGood(call[b], session)
      BY <1>1, <2>2 DEF BrainInv, CallsGood
    <3> QED
      BY <3>1 DEF CallGood, LoadedGood
  <2> QED
    BY <2>1, <2>2
<1>3. BrainShapes'
  BY <1>1 DEF BrainInv, BrainShapes
<1>4. Counted' /\ WithinLimits'
  BY DEF BrainInv, Counted, WithinLimits, TurnsBy
<1> QED
  BY <1>2, <1>3, <1>4 DEF BrainInv

\* What is known when a request is being handled.
LEMMA CallIs ==
  ASSUME BrainInv, NEW c \in Callers, call[c].at # "idle"
  PROVE  /\ call[c].req \in BsRequests /\ call[c].req \in Nat /\ CallerOf(c) \in Accounts
         /\ LoadedGood(SessionSeen(c), session) /\ SessionSeen(c).turnNo \in Nat
         /\ {"req", "saw"} \subseteq DOMAIN call[c]
<1>1. call[c] # NoCall
  BY DEF NoCall
<1>2. /\ call[c].req \in BsRequests /\ LoadedGood(call[c].saw, session)
      /\ {"req", "saw"} \subseteq DOMAIN call[c]
  BY <1>1 DEF BrainInv, CallsGood, CallGood
<1>3. call[c].req \in Nat /\ request[call[c].req].who \in Accounts
  BY <1>2, BrainstormAssumption DEF BrainInv, BrainShapes
<1>4. call[c].saw.turnNo \in Nat
  BY <1>2 DEF LoadedGood, IsSession, SessionRow
<1> QED
  BY <1>2, <1>3, <1>4 DEF CallerOf, SessionSeen

LEMMA BrainInit_Inv == BrainstormInit => BrainInv
<1> SUFFICES ASSUME BrainstormInit PROVE BrainInv
  OBVIOUS
<1>a. \E ss, n : \E l \in LimitChoices : session = Opened(SubSeq(ss, 1, n), l)
  BY DEF BrainstormInit
<1>b. PICK l \in LimitChoices : \E seats : session = Opened(seats, l)
  BY <1>a
<1>1. PICK seats : session = Opened(seats, l)
  BY <1>b
<1>2. /\ session.turnNo = 0 /\ session.turnIndex = 0 /\ session.taken = [a \in Accounts |-> 0]
      /\ session.seats = seats
  BY <1>1 DEF Opened
<1>3. IsSession(session)
  BY <1>1, <1>2 DEF IsSession, SessionRow, Opened
<1>4. turns = <<>> /\ stream = <<[type |-> "BRAINSTORM_OPENED", key |-> 0, body |-> 0]>>
      /\ call = [c \in Callers |-> NoCall] /\ request \in Asked
  BY DEF BrainstormInit
<1>5. BrainShapes
  <2>1. [type |-> "BRAINSTORM_OPENED", key |-> 0, body |-> 0] \in BsEvent
    BY DEF BsEvent, BsTypes
  <2> QED
    BY <1>3, <1>4, <2>1 DEF BrainShapes
<1>6. CallsGood
  BY <1>4 DEF CallsGood, CallGood
<1>7. Counted
  <2>1. Ideas = {}
    BY <1>4 DEF Ideas
  <2>2. \A S : TurnsBy(S) = {}
    BY <1>4 DEF TurnsBy
  <2>3. Len(turns) = 0 /\ DOMAIN turns = {}
    BY <1>4
  <2> QED
    BY <1>2, <2>1, <2>2, <2>3, FS_EmptySet DEF Counted
<1>8. WithinLimits
  <2>1. l.perAgent \in Nat /\ l.total \in Nat
    BY <1>1, BrainstormAssumption
  <2>2. \A a \in Agents : session.taken[a] = 0
    BY <1>2 DEF Accounts
  <2> QED
    BY <1>2, <2>1, <2>2 DEF WithinLimits, OverLimit
<1> QED
  BY <1>5, <1>6, <1>7, <1>8 DEF BrainInv

\* A request that only starts to be handled.
LEMMA ReadSession_Inv ==
  ASSUME BrainInv, NEW c \in Callers, NEW r \in BsRequests, ReadSession(c, r)
  PROVE  BrainInv'
<1> DEFINE t == [req |-> r, at |-> request[r].verb, saw |-> session, linked |-> {l.item : l \in decision.links}]
<1>1. /\ call' = [call EXCEPT ![c] = t] /\ DOMAIN call = Callers
      /\ UNCHANGED <<request, session, stream, turns>>
  BY DEF ReadSession, BrainInv, BrainShapes
<1>2. CallGood(t, session)
  <2>1. IsSession(session) /\ session.turnNo \in Nat
    BY DEF BrainInv, BrainShapes, IsSession, SessionRow
  <2> QED
    BY <2>1 DEF CallGood, LoadedGood
<1> HIDE DEF t
<1>3. CallsGood'
  BY <1>1, <1>2 DEF CallsGood, BrainInv, CallGood, LoadedGood
<1> QED
  BY <1>1, <1>3 DEF BrainInv, BrainShapes, Counted, WithinLimits, Ideas, TurnsBy

\* A breach loads the session again.
LEMMA BreachFound_Inv ==
  ASSUME BrainInv, NEW c \in Callers, BreachFound(c)
  PROVE  BrainInv'
<1> DEFINE t == [call[c] EXCEPT !.at = "breach", !.saw = session]
<1>1. call[c].req \in BsRequests /\ {"req", "saw"} \subseteq DOMAIN call[c]
  BY CallIs DEF BreachFound, CallAt
<1>2. {"req", "saw"} \subseteq DOMAIN t /\ t.req = call[c].req /\ t.saw = session
  BY <1>1
<1>3. /\ call' = [call EXCEPT ![c] = t] /\ DOMAIN call = Callers
      /\ UNCHANGED <<request, session, stream, turns>>
  BY DEF BreachFound, BrainInv, BrainShapes
<1>4. CallGood(t, session)
  BY <1>1, <1>2 DEF CallGood, LoadedGood, BrainInv, BrainShapes, IsSession, SessionRow
<1> HIDE DEF t
<1>5. CallsGood'
  BY <1>3, <1>4 DEF CallsGood, BrainInv, CallGood, LoadedGood
<1> QED
  BY <1>3, <1>5 DEF BrainInv, BrainShapes, Counted, WithinLimits, Ideas, TurnsBy

\* The UNIQUE sequence lets a contribution in only if the session that was
\* loaded has the last turn still.
LEMMA SeqFreeIsFresh ==
  ASSUME BrainInv, NEW saw, LoadedGood(saw, session), saw.turnNo \in Nat, SeqFree(saw.turnNo + 1)
  PROVE  saw.turnNo = session.turnNo
<1>1. /\ saw.turnNo <= session.turnNo /\ session.turnNo = Len(turns) /\ Len(turns) \in Nat
      /\ DOMAIN turns = 1..Len(turns) /\ \A i \in DOMAIN turns : turns[i].seq = i
  BY DEF LoadedGood, BrainInv, Counted, BrainShapes
<1>2. ~(saw.turnNo < Len(turns))
  <2> SUFFICES ASSUME saw.turnNo < Len(turns) PROVE FALSE
    OBVIOUS
  <2>1. saw.turnNo + 1 \in DOMAIN turns
    BY <1>1
  <2> QED
    BY <2>1, <1>1 DEF SeqFree
<1> QED
  BY <1>1, <1>2

\* A contribution counts once, for whoever made it.
LEMMA TurnAppended ==
  ASSUME BrainInv, NEW a \in Accounts, NEW r \in Nat, NEW n \in Nat, n = Len(turns) + 1,
         AppendEvent("IDEA_RECORDED", r, n), turns' = Append(turns, [seq |-> n, who |-> a])
  PROVE  /\ stream' \in Seq(BsEvent) /\ turns' \in Seq(TurnRow) /\ Len(turns') = n
         /\ \A i \in DOMAIN turns' : turns'[i].seq = i
         /\ IsFiniteSet(Ideas') /\ Cardinality(Ideas') = n
         /\ IsFiniteSet(TurnsBy(Agents)')
         /\ Cardinality(TurnsBy(Agents)') = Cardinality(TurnsBy(Agents)) + (IF a \in Agents THEN 1 ELSE 0)
         /\ \A b \in Accounts : /\ IsFiniteSet(TurnsBy({b})')
                                /\ Cardinality(TurnsBy({b})') = Cardinality(TurnsBy({b})) + (IF a = b THEN 1 ELSE 0)
<1> DEFINE e == [type |-> "IDEA_RECORDED", key |-> r, body |-> n]
           t == [seq |-> n, who |-> a]
<1>1. /\ e \in BsEvent /\ e.type = "IDEA_RECORDED" /\ stream \in Seq(BsEvent) /\ stream' = Append(stream, e)
      /\ t \in TurnRow /\ t.seq = n /\ t.who = a /\ turns \in Seq(TurnRow) /\ turns' = Append(turns, t)
  BY DEF BsEvent, BsTypes, TurnRow, BrainInv, BrainShapes, AppendEvent
<1> HIDE DEF e, t
<1>2. /\ stream' \in Seq(BsEvent) /\ DOMAIN stream' = DOMAIN stream \cup {Len(stream) + 1}
      /\ Len(stream) + 1 \notin DOMAIN stream
      /\ stream'[Len(stream) + 1] = e /\ \A i \in DOMAIN stream : stream'[i] = stream[i]
  BY <1>1
<1>3. /\ turns' \in Seq(TurnRow) /\ Len(turns') = n /\ DOMAIN turns' = DOMAIN turns \cup {n}
      /\ n \notin DOMAIN turns /\ turns'[n] = t /\ \A i \in DOMAIN turns : turns'[i] = turns[i]
  BY <1>1
<1>4. \A i \in DOMAIN turns' : turns'[i].seq = i
  BY <1>1, <1>3 DEF BrainInv, Counted
<1>5. IsFiniteSet(Ideas') /\ Cardinality(Ideas') = n
  <2>1. Ideas' = Ideas \cup {Len(stream) + 1} /\ Len(stream) + 1 \notin Ideas
    BY <1>1, <1>2 DEF Ideas
  <2>2. IsFiniteSet(Ideas) /\ Cardinality(Ideas) = Len(turns)
    BY DEF BrainInv, Counted
  <2> QED
    BY <2>1, <2>2, FS_AddElement
<1>6. ASSUME NEW S, IsFiniteSet(TurnsBy(S))
      PROVE  /\ IsFiniteSet(TurnsBy(S)')
             /\ Cardinality(TurnsBy(S)') = Cardinality(TurnsBy(S)) + (IF a \in S THEN 1 ELSE 0)
  <2>1. Cardinality(TurnsBy(S)) \in Nat
    BY <1>6, FS_CardinalityType
  <2>2. CASE a \in S
    <3>1. TurnsBy(S)' = TurnsBy(S) \cup {n} /\ n \notin TurnsBy(S)
      BY <1>1, <1>3, <2>2 DEF TurnsBy
    <3> QED
      BY <3>1, <2>2, <1>6, FS_AddElement
  <2>3. CASE a \notin S
    <3>1. TurnsBy(S)' = TurnsBy(S)
      BY <1>1, <1>3, <2>3 DEF TurnsBy
    <3> QED
      BY <3>1, <2>1, <2>3, <1>6
  <2> QED
    BY <2>2, <2>3
<1>7. IsFiniteSet(TurnsBy(Agents)) /\ \A b \in Accounts : IsFiniteSet(TurnsBy({b}))
  BY DEF BrainInv, Counted
<1>8. /\ IsFiniteSet(TurnsBy(Agents)')
      /\ Cardinality(TurnsBy(Agents)') = Cardinality(TurnsBy(Agents)) + (IF a \in Agents THEN 1 ELSE 0)
  BY <1>6, <1>7
<1>9. ASSUME NEW b \in Accounts
      PROVE  /\ IsFiniteSet(TurnsBy({b})')
             /\ Cardinality(TurnsBy({b})') = Cardinality(TurnsBy({b})) + (IF a = b THEN 1 ELSE 0)
  BY <1>6, <1>7
<1> QED
  BY <1>2, <1>3, <1>4, <1>5, <1>8, <1>9

\* A turn is contributed: the session that was loaded has the last turn still,
\* so what was checked against its limits is what is counted.
LEMMA ContributeTurn_Inv ==
  ASSUME BrainInv, NEW c \in Callers, ContributeTurn(c)
  PROVE  BrainInv'
<1> DEFINE saw == SessionSeen(c)
           a == CallerOf(c)
           n == saw.turnNo + 1
           index == IF a \in Agents THEN saw.turnIndex + 1 ELSE saw.turnIndex
           row == AdvanceTurn(saw, a)
<1>1. /\ call[c].req \in BsRequests /\ call[c].req \in Nat /\ a \in Accounts
      /\ LoadedGood(saw, session) /\ saw.turnNo \in Nat
  BY CallIs DEF ContributeTurn, CallAt
<1>2. /\ ~Breach(saw, a) /\ SeqFree(n) /\ AppendEvent("IDEA_RECORDED", call[c].req, n)
      /\ turns' = Append(turns, [seq |-> n, who |-> a]) /\ session' = row
      /\ call' = [call EXCEPT ![c] = NoCall] /\ request' = request
  BY DEF ContributeTurn, EndCall
<1>3. saw.turnNo = session.turnNo /\ saw.taken = session.taken /\ saw.turnIndex = session.turnIndex
  BY <1>1, <1>2, SeqFreeIsFresh DEF LoadedGood
<1>4. /\ IsSession(session) /\ IsSession(saw) /\ session.turnNo = Len(turns)
      /\ session.taken \in [Accounts -> Nat] /\ saw.turnIndex \in Nat /\ saw.consecutive \in Nat
      /\ saw.limits \in LimitChoices
  BY <1>1 DEF BrainInv, BrainShapes, Counted, LoadedGood, IsSession, SessionRow
<1>5. index \in Nat /\ ConsecutiveOf(saw, a) \in Nat /\ n \in Nat
  BY <1>1, <1>4 DEF ConsecutiveOf
<1>6. /\ IsSession(row) /\ row.turnNo = session.turnNo + 1 /\ row.turnIndex = index
      /\ row.taken = [session.taken EXCEPT ![a] = @ + 1]
  <2> DEFINE times == ConsecutiveOf(saw, a)
  <2>1. row = Advanced(session, index, a, times)
    BY Zenon DEF AdvanceTurn, Advanced
  <2>2. index \in Nat /\ times \in Nat /\ a \in Accounts /\ IsSession(session)
    BY <1>1, <1>4, <1>5
  <2> HIDE DEF times, index, a, row
  <2>3. \A i \in Nat, b \in Accounts, k \in Nat :
          LET x == Advanced(session, i, b, k)
          IN  /\ IsSession(x) /\ x.turnNo = session.turnNo + 1 /\ x.turnIndex = i
              /\ x.taken = Tally(session.taken, b)
    BY <2>2, SessionRewritten
  <2>4. /\ IsSession(row) /\ row.turnNo = session.turnNo + 1 /\ row.turnIndex = index
        /\ row.taken = Tally(session.taken, a)
    BY <2>1, <2>2, <2>3
  <2> QED
    BY <2>4 DEF Tally
<1>7. /\ stream' \in Seq(BsEvent) /\ turns' \in Seq(TurnRow) /\ Len(turns') = n
      /\ \A i \in DOMAIN turns' : turns'[i].seq = i
      /\ IsFiniteSet(Ideas') /\ Cardinality(Ideas') = n
      /\ IsFiniteSet(TurnsBy(Agents)')
      /\ Cardinality(TurnsBy(Agents)') = Cardinality(TurnsBy(Agents)) + (IF a \in Agents THEN 1 ELSE 0)
      /\ \A b \in Accounts : /\ IsFiniteSet(TurnsBy({b})')
                             /\ Cardinality(TurnsBy({b})') = Cardinality(TurnsBy({b})) + (IF a = b THEN 1 ELSE 0)
  BY <1>1, <1>2, <1>3, <1>4, <1>5, TurnAppended
<1>8. ~OverLimit(n, saw.limits.total) /\ (a \in Agents => ~OverLimit(saw.taken[a] + 1, saw.limits.perAgent))
  BY <1>2 DEF Breach
<1> HIDE DEF saw, a, n, index, row
<1>9. row.turnNo = n
  BY <1>3, <1>6 DEF n
<1>10. BrainShapes'
  BY <1>2, <1>6, <1>7 DEF BrainInv, BrainShapes
<1>11. CallsGood'
  <2> SUFFICES ASSUME NEW b \in Callers PROVE CallGood(call'[b], session')
    BY DEF CallsGood
  <2>1. CASE b = c
    BY <1>2, <2>1 DEF CallGood, BrainInv, BrainShapes
  <2>2. CASE b # c
    <3>1. call'[b] = call[b] /\ CallGood(call[b], session)
      BY <1>2, <2>2 DEF BrainInv, CallsGood, BrainShapes
    <3>2. session.turnNo \in Nat
      BY <1>4 DEF IsSession, SessionRow
    <3>3. \A s : LoadedGood(s, session) => LoadedGood(s, session')
      <4> SUFFICES ASSUME NEW s, LoadedGood(s, session) PROVE LoadedGood(s, session')
        OBVIOUS
      <4>1. s.turnNo \in Nat /\ s.turnNo <= session.turnNo /\ IsSession(s)
        BY DEF LoadedGood, IsSession, SessionRow
      <4>2. session'.turnNo = session.turnNo + 1
        BY <1>2, <1>6
      <4> QED
        BY <4>1, <4>2, <3>2 DEF LoadedGood
    <3> QED
      BY <3>1, <3>3 DEF CallGood
  <2> QED
    BY <2>1, <2>2
<1>12. Counted'
  <2>1. row.turnIndex = Cardinality(TurnsBy(Agents)')
    <3>1. session.turnIndex = Cardinality(TurnsBy(Agents)) /\ saw.turnIndex = session.turnIndex /\ saw.turnIndex \in Nat
      BY <1>3, <1>4 DEF BrainInv, Counted
    <3> QED
      BY <3>1, <1>6, <1>7 DEF index
  <2>2. ASSUME NEW b \in Accounts PROVE row.taken[b] = Cardinality(TurnsBy({b})')
    <3>1. session.taken[b] = Cardinality(TurnsBy({b})) /\ session.taken[b] \in Nat
      BY <1>4 DEF BrainInv, Counted
    <3>2. row.taken[b] = session.taken[b] + (IF a = b THEN 1 ELSE 0)
      BY <3>1, <1>1, <1>4, <1>6
    <3> QED
      BY <3>1, <3>2, <1>7
  <2> QED
    BY <2>1, <2>2, <1>2, <1>7, <1>9 DEF Counted
<1>13. WithinLimits'
  <2>1. ASSUME NEW b \in Agents PROVE \E l \in LimitChoices : ~OverLimit(row.taken[b], l.perAgent)
    <3>0. b \in Accounts
      BY DEF Accounts
    <3>1. CASE b = a
      <4>1. row.taken[b] = saw.taken[a] + 1
        BY <1>1, <1>3, <1>4, <1>6, <3>1
      <4> QED
        BY <4>1, <3>1, <1>4, <1>8
    <3>2. CASE b # a
      <4>1. row.taken[b] = session.taken[b]
        BY <3>0, <3>2, <1>1, <1>4, <1>6
      <4> QED
        BY <4>1 DEF BrainInv, WithinLimits
    <3> QED
      BY <3>1, <3>2
  <2>2. \E l \in LimitChoices : ~OverLimit(row.turnNo, l.total)
    BY <1>4, <1>8, <1>9
  <2> QED
    BY <2>1, <2>2, <1>2 DEF WithinLimits
<1> QED
  BY <1>10, <1>11, <1>12, <1>13 DEF BrainInv

\* Commands that contribute no turn.
LEMMA OtherCommands_Inv ==
  ASSUME BrainInv, NEW c \in Callers,
         \/ \E limits \in LimitChoices : ResumeBrainstorm(c, limits)
         \/ RefuseCall(c) \/ PauseOnBreach(c) \/ PauseBrainstorm(c)
         \/ CloseBrainstorm(c) \/ JoinBrainstorm(c) \/ SummarizeBrainstorm(c) \/ ApproveSummary(c)
         \/ RecordDecision(c) \/ TaskifyDecision(c)
  PROVE  BrainInv'
<1>1. IsSession(session) /\ stream \in Seq(BsEvent)
  BY DEF BrainInv, BrainShapes
<1>2. /\ \A st \in {"OPEN", "PAUSED", "CLOSED"} :
           LET x == [session EXCEPT !.status = st]
           IN  IsSession(x) /\ x.turnNo = session.turnNo /\ x.turnIndex = session.turnIndex /\ x.taken = session.taken
      /\ \A l \in LimitChoices :
           LET x == [session EXCEPT !.status = "OPEN", !.limits = l, !.consecutive = 0]
           IN  IsSession(x) /\ x.turnNo = session.turnNo /\ x.turnIndex = session.turnIndex /\ x.taken = session.taken
      /\ \A seats :
           LET x == [session EXCEPT !.seats = seats]
           IN  IsSession(x) /\ x.turnNo = session.turnNo /\ x.turnIndex = session.turnIndex /\ x.taken = session.taken
  BY <1>1, SessionRewritten
<1>3. ASSUME NEW type \in {"BREACH_PAUSED", "BRAINSTORM_PAUSED"}, PauseSession(c, type), call[c].at # "idle"
      PROVE  BrainInv'
  <2>1. call[c].req \in Nat /\ type \in BsTypes \ {"IDEA_RECORDED"}
    BY <1>3, CallIs DEF BsTypes
  <2>2. /\ EndCall(c) /\ UNCHANGED <<request, turns>>
        /\ session' = [session EXCEPT !.status = "PAUSED"]
        /\ AppendEvent(type, call[c].req, 0) \/ UNCHANGED stream
    BY <1>3 DEF PauseSession
  <2>3. stream' \in Seq(BsEvent) /\ Ideas' = Ideas
    <3>1. CASE AppendEvent(type, call[c].req, 0)
      BY <2>1, <3>1, OtherAppended
    <3>2. CASE UNCHANGED stream
      BY <1>1, <3>2 DEF Ideas
    <3> QED
      BY <2>2, <3>1, <3>2
  <2>4. /\ IsSession(session') /\ session'.turnNo = session.turnNo
        /\ session'.turnIndex = session.turnIndex /\ session'.taken = session.taken
    BY <1>2, <2>2
  <2> QED
    BY <2>2, <2>3, <2>4, SessionKept
<1>4. CASE PauseOnBreach(c)
  BY <1>3, <1>4 DEF PauseOnBreach, CallAt
<1>5. CASE PauseBrainstorm(c)
  BY <1>3, <1>5 DEF PauseBrainstorm, CallAt
<1>6. CASE \E limits \in LimitChoices : ResumeBrainstorm(c, limits)
  <2>1. PICK limits \in LimitChoices : ResumeBrainstorm(c, limits)
    BY <1>6
  <2>2. /\ EndCall(c) /\ UNCHANGED <<request, turns>> /\ AppendEvent("BRAINSTORM_RESUMED", call[c].req, 0)
        /\ session' = [session EXCEPT !.status = "OPEN", !.limits = limits, !.consecutive = 0]
        /\ call[c].at # "idle"
    BY <2>1 DEF ResumeBrainstorm, CallAt
  <2>3. stream' \in Seq(BsEvent) /\ Ideas' = Ideas
    BY <2>2, CallIs, OtherAppended DEF BsTypes
  <2>4. /\ IsSession(session') /\ session'.turnNo = session.turnNo
        /\ session'.turnIndex = session.turnIndex /\ session'.taken = session.taken
    BY <1>2, <2>2
  <2> QED
    BY <2>2, <2>3, <2>4, SessionKept
<1>7. CASE CloseBrainstorm(c)
  <2>1. /\ EndCall(c) /\ UNCHANGED <<request, turns>>
        /\ AppendEvent("BRAINSTORM_CLOSED", call[c].req, SessionSeen(c).turnNo)
        /\ session' = [session EXCEPT !.status = "CLOSED"] /\ call[c].at # "idle"
    BY <1>7 DEF CloseBrainstorm, CallAt
  <2>2. stream' \in Seq(BsEvent) /\ Ideas' = Ideas
    BY <2>1, CallIs, OtherAppended DEF BsTypes
  <2>3. /\ IsSession(session') /\ session'.turnNo = session.turnNo
        /\ session'.turnIndex = session.turnIndex /\ session'.taken = session.taken
    BY <1>2, <2>1
  <2> QED
    BY <2>1, <2>2, <2>3, SessionKept
<1>8. CASE JoinBrainstorm(c)
  <2>1. /\ EndCall(c) /\ UNCHANGED <<request, turns, stream>>
        /\ \E seats : session' = [session EXCEPT !.seats = seats]
    BY <1>8 DEF JoinBrainstorm
  <2>2. /\ IsSession(session') /\ session'.turnNo = session.turnNo
        /\ session'.turnIndex = session.turnIndex /\ session'.taken = session.taken
    <3>1. PICK seats : session' = [session EXCEPT !.seats = seats]
      BY <2>1
    <3>2. LET x == [session EXCEPT !.seats = seats]
          IN  IsSession(x) /\ x.turnNo = session.turnNo /\ x.turnIndex = session.turnIndex /\ x.taken = session.taken
      BY <1>2, Zenon
    <3> QED
      BY <3>1, <3>2, Zenon
  <2>3. stream' \in Seq(BsEvent) /\ Ideas' = Ideas
    BY <1>1, <2>1 DEF Ideas
  <2> QED
    BY <2>1, <2>2, <2>3, SessionKept
<1>9. CASE SummarizeBrainstorm(c) \/ RecordDecision(c)
  <2>1. /\ EndCall(c) /\ UNCHANGED <<request, turns, session>> /\ call[c].at # "idle"
        /\ \/ AppendEvent("SUMMARY_RECORDED", call[c].req, SessionSeen(c).turnNo)
           \/ AppendEvent("DECISION_RECORDED", call[c].req, 0)
    BY <1>9 DEF SummarizeBrainstorm, RecordDecision, CallAt
  <2>2. stream' \in Seq(BsEvent) /\ Ideas' = Ideas
    <3>1. call[c].req \in Nat /\ SessionSeen(c).turnNo \in Nat
      BY <2>1, CallIs
    <3>2. {"SUMMARY_RECORDED", "DECISION_RECORDED"} \subseteq BsTypes \ {"IDEA_RECORDED"}
      BY DEF BsTypes
    <3>3. CASE AppendEvent("SUMMARY_RECORDED", call[c].req, SessionSeen(c).turnNo)
      BY <3>1, <3>2, <3>3, OtherAppended
    <3>4. CASE AppendEvent("DECISION_RECORDED", call[c].req, 0)
      BY <3>1, <3>2, <3>4, OtherAppended
    <3> QED
      BY <2>1, <3>3, <3>4
  <2> QED
    BY <1>1, <2>1, <2>2, SessionKept
<1>10. CASE RefuseCall(c) \/ ApproveSummary(c) \/ TaskifyDecision(c)
  <2>1. EndCall(c) /\ UNCHANGED <<request, turns, session, stream>>
    BY <1>10 DEF RefuseCall, ApproveSummary, TaskifyDecision
  <2>2. stream' \in Seq(BsEvent) /\ Ideas' = Ideas
    BY <1>1, <2>1 DEF Ideas
  <2> QED
    BY <1>1, <2>1, <2>2, SessionKept
<1> QED
  BY <1>4, <1>5, <1>6, <1>7, <1>8, <1>9, <1>10

LEMMA BrainInvStep == BrainInv /\ [BrainstormNext]_brainstormVars => BrainInv'
<1> SUFFICES ASSUME BrainInv, [BrainstormNext]_brainstormVars PROVE BrainInv'
  OBVIOUS
<1>1. CASE UNCHANGED brainstormVars
  BY <1>1 DEF brainstormVars, BrainInv, BrainShapes, CallsGood, CallGood, LoadedGood, Counted, WithinLimits,
              Ideas, TurnsBy
<1>2. ASSUME NEW c \in Callers, NEW r \in BsRequests, ReadSession(c, r) PROVE BrainInv'
  BY <1>2, ReadSession_Inv
<1>3. ASSUME NEW c \in Callers, ContributeTurn(c) PROVE BrainInv'
  BY <1>3, ContributeTurn_Inv
<1>4. ASSUME NEW c \in Callers, BreachFound(c) PROVE BrainInv'
  BY <1>4, BreachFound_Inv
<1>5. ASSUME NEW c \in Callers,
             \/ \E limits \in LimitChoices : ResumeBrainstorm(c, limits)
             \/ RefuseCall(c) \/ PauseOnBreach(c) \/ PauseBrainstorm(c)
             \/ CloseBrainstorm(c) \/ JoinBrainstorm(c) \/ SummarizeBrainstorm(c) \/ ApproveSummary(c)
             \/ RecordDecision(c) \/ TaskifyDecision(c)
      PROVE  BrainInv'
  BY <1>5, OtherCommands_Inv
<1> QED
  BY <1>1, <1>2, <1>3, <1>4, <1>5 DEF BrainstormNext

\* The turns that are counted are those of the transcript.
LEMMA BrainInvCounts == BrainInv => TurnsWithinLimits
<1> SUFFICES ASSUME BrainInv PROVE TurnsWithinLimits
  OBVIOUS
<1> DEFINE By(a) == {i \in DOMAIN turns : turns[i].who = a}
<1>1. \A a : TurnsBy({a}) = By(a)
  BY DEF TurnsBy
<1>2. /\ session.turnNo = Len(turns) /\ \A i \in DOMAIN turns : turns[i].seq = i
      /\ Cardinality({i \in DOMAIN stream : stream[i].type = "IDEA_RECORDED"}) = Len(turns)
      /\ session.turnIndex = Cardinality({i \in DOMAIN turns : turns[i].who \in Agents})
  BY DEF BrainInv, Counted, Ideas, TurnsBy
<1>3. \A a \in Accounts : session.taken[a] = Cardinality(By(a))
  BY <1>1 DEF BrainInv, Counted
<1>4. \A a \in Agents : \E l \in LimitChoices : ~OverLimit(Cardinality(By(a)), l.perAgent)
  <2>1. \A a \in Agents : a \in Accounts
    BY DEF Accounts
  <2> HIDE DEF By
  <2> QED
    BY <1>3, <2>1 DEF BrainInv, WithinLimits
<1>5. \E l \in LimitChoices : ~OverLimit(Len(turns), l.total)
  BY <1>2 DEF BrainInv, WithinLimits
<1> QED
  BY <1>2, <1>3, <1>4, <1>5 DEF TurnsWithinLimits

\* No limit of a brainstorm is exceeded and its counters are those of its
\* transcript, although contribute_turn checks a session that it loaded without
\* a lock (brainstorm.py contribute_turn, turns.record).
THEOREM BrainTurnsWithinLimits == BrainstormSpec => []TurnsWithinLimits
<1>1. BrainstormInit => BrainInv
  BY BrainInit_Inv
<1>2. BrainInv /\ [BrainstormNext]_brainstormVars => BrainInv'
  BY BrainInvStep
<1>3. BrainInv => TurnsWithinLimits
  BY BrainInvCounts
<1> QED
  BY <1>1, <1>2, <1>3, PTL DEF BrainstormSpec

\* What BrainInv leaves open of the types.
SeatsGood == session.seats \in Seq(Accounts)
ResultsGood ==
  /\ summary \in [status : {"none", "DRAFT", "APPROVED"}, posts : Nat]
  /\ decision \in [status : {"none", "recorded", "taskified"}, links : SUBSET made]
StageGood(t) == "at" \in DOMAIN t /\ t.at \in BsVerbs \cup {"idle", "breach"}
BrainRest == SeatsGood /\ ResultsGood /\ \A c \in Callers : StageGood(call[c])

\* A seating of finitely many accounts, cut short, is a list of accounts.
LEMMA BrainRestInit == BrainstormInit => BrainRest
<1> SUFFICES ASSUME BrainstormInit PROVE BrainRest
  OBVIOUS
<1>1. PICK seats \in Seats!SetToSeqs(Accounts), n \in 1 .. Cardinality(Accounts) :
        \E l \in LimitChoices : session = Opened(SubSeq(seats, 1, n), l)
  BY DEF BrainstormInit
<1>2. session.seats = SubSeq(seats, 1, n)
  BY <1>1 DEF Opened
<1>3. seats \in [1 .. Cardinality(Accounts) -> Accounts]
  <2>1. Seats!Cardinality(Accounts) = Cardinality(Accounts)
    BY DEF Seats!Cardinality, Cardinality
  <2> QED
    BY <1>1, <2>1 DEF Seats!SetToSeqs
<1>4. Cardinality(Accounts) \in Nat
  BY BrainstormAssumption, FS_CardinalityType
<1>5. n \in Int /\ \A i \in 1 .. n : seats[i] \in Accounts
  BY <1>1, <1>3, <1>4
<1>6. SeatsGood
  BY <1>2, <1>5, SubSeqProperties DEF SeatsGood
<1>7. ResultsGood
  BY DEF BrainstormInit, ResultsGood
<1>8. \A c \in Callers : StageGood(call[c])
  BY DEF BrainstormInit, StageGood, NoCall
<1> QED
  BY <1>6, <1>7, <1>8 DEF BrainRest

\* A caller ends; the seats and the results are looked at one by one.
LEMMA RestKept ==
  ASSUME BrainInv, BrainRest, NEW c \in Callers, NEW t, call' = [call EXCEPT ![c] = t], StageGood(t),
         SeatsGood', ResultsGood'
  PROVE  BrainRest'
<1>1. DOMAIN call = Callers
  BY DEF BrainInv, BrainShapes
<1>2. ASSUME NEW d \in Callers PROVE StageGood(call'[d])
  BY <1>1, <1>2 DEF BrainRest
<1> QED
  BY <1>2 DEF BrainRest

LEMMA BrainRestStep ==
  ASSUME BrainInv, BrainRest, [BrainstormNext]_brainstormVars
  PROVE  BrainRest'
<1>0. /\ IsSession(session) /\ session.seats \in Seq(Accounts) /\ ResultsGood
      /\ summary \in [status : {"none", "DRAFT", "APPROVED"}, posts : Nat]
      /\ decision \in [status : {"none", "recorded", "taskified"}, links : SUBSET made]
      /\ "seats" \in DOMAIN session
  BY DEF BrainInv, BrainShapes, BrainRest, SeatsGood, ResultsGood, IsSession, SessionRow
<1>1. StageGood(NoCall)
  BY DEF StageGood, NoCall
<1>2. SeatsGood' \/ session' # session
  BY <1>0 DEF SeatsGood
<1>3. ResultsGood' \/ ~UNCHANGED <<summary, decision, made>>
  BY <1>0 DEF ResultsGood
<1>4. CASE UNCHANGED brainstormVars
  BY <1>4 DEF brainstormVars, BrainRest, SeatsGood, ResultsGood, StageGood
<1>5. ASSUME NEW c \in Callers, NEW r \in BsRequests, ReadSession(c, r)
      PROVE  BrainRest'
  <2> DEFINE t == [req |-> r, at |-> request[r].verb, saw |-> session, linked |-> {l.item : l \in decision.links}]
  <2>1. call' = [call EXCEPT ![c] = t] /\ UNCHANGED <<session, summary, decision, made>>
    BY <1>5 DEF ReadSession
  <2>2. request[r].verb \in BsVerbs
    BY BrainstormAssumption DEF BrainInv, BrainShapes
  <2>3. StageGood(t)
    BY <2>2 DEF StageGood
  <2> HIDE DEF t
  <2> QED
    BY <1>2, <1>3, <2>1, <2>3, RestKept
<1>6. ASSUME NEW c \in Callers, BreachFound(c)
      PROVE  BrainRest'
  <2> DEFINE t == [call[c] EXCEPT !.at = "breach", !.saw = session]
  <2>1. call' = [call EXCEPT ![c] = t] /\ UNCHANGED <<session, summary, decision, made>>
    BY <1>6 DEF BreachFound
  <2>2. StageGood(t)
    BY DEF StageGood, BrainRest
  <2> HIDE DEF t
  <2> QED
    BY <1>2, <1>3, <2>1, <2>2, RestKept
<1>7. ASSUME NEW c \in Callers, EndCall(c), SeatsGood', ResultsGood'
      PROVE  BrainRest'
  BY <1>1, <1>7, RestKept DEF EndCall
<1>8. ASSUME NEW c \in Callers, RefuseCall(c)
      PROVE  BrainRest'
  BY <1>2, <1>3, <1>7, <1>8 DEF RefuseCall
<1>9. ASSUME NEW c \in Callers, ContributeTurn(c)
      PROVE  BrainRest'
  <2>1. session' = AdvanceTurn(SessionSeen(c), CallerOf(c))
        /\ EndCall(c) /\ UNCHANGED <<summary, decision, made>>
    BY <1>9 DEF ContributeTurn
  <2>2. session'.seats = session.seats
    BY <1>0, <2>1 DEF AdvanceTurn
  <2>3. SeatsGood'
    BY <1>0, <2>2 DEF SeatsGood
  <2> QED
    BY <1>3, <1>7, <2>1, <2>3
<1>10. ASSUME NEW c \in Callers, PauseOnBreach(c) \/ PauseBrainstorm(c) \/ CloseBrainstorm(c)
       PROVE  BrainRest'
  <2>1. /\ session' \in {[session EXCEPT !.status = "PAUSED"], [session EXCEPT !.status = "CLOSED"]}
        /\ EndCall(c) /\ UNCHANGED <<summary, decision, made>>
    BY <1>10 DEF PauseOnBreach, PauseBrainstorm, PauseSession, CloseBrainstorm
  <2>2. SeatsGood'
    BY <1>0, <2>1 DEF SeatsGood
  <2> QED
    BY <1>3, <1>7, <2>1, <2>2
<1>11. ASSUME NEW c \in Callers, NEW limits, ResumeBrainstorm(c, limits)
       PROVE  BrainRest'
  <2>1. /\ session' = [session EXCEPT !.status = "OPEN", !.limits = limits, !.consecutive = 0]
        /\ EndCall(c) /\ UNCHANGED <<summary, decision, made>>
    BY <1>11 DEF ResumeBrainstorm
  <2>2. SeatsGood'
    BY <1>0, <2>1 DEF SeatsGood
  <2> QED
    BY <1>3, <1>7, <2>1, <2>2
<1>12. ASSUME NEW c \in Callers, JoinBrainstorm(c)
       PROVE  BrainRest'
  <2>1. /\ session'.seats \in {session.seats, Append(session.seats, CallerOf(c))}
        /\ EndCall(c) /\ UNCHANGED <<summary, decision, made>>
    BY <1>0, <1>12 DEF JoinBrainstorm
  <2>2. CallerOf(c) \in Accounts
    BY <1>12, CallIs DEF JoinBrainstorm, CallAt
  <2>3. session.seats \in Seq(Accounts)
    BY <1>0 DEF SeatsGood
  <2>4. session'.seats \in Seq(Accounts)
    BY <2>1, <2>2, <2>3, AppendProperties
  <2>5. SeatsGood'
    BY <2>4 DEF SeatsGood
  <2> QED
    BY <1>3, <1>7, <2>1, <2>5
<1>13. ASSUME NEW c \in Callers, SummarizeBrainstorm(c) \/ ApproveSummary(c)
       PROVE  BrainRest'
  <2>1. /\ summary' \in {[summary EXCEPT !.status = "DRAFT"], [status |-> "APPROVED", posts |-> 1]}
        /\ EndCall(c) /\ UNCHANGED <<session, decision, made>>
    BY <1>13 DEF SummarizeBrainstorm, ApproveSummary
  <2>2. ResultsGood'
    BY <1>0, <2>1 DEF ResultsGood
  <2> QED
    BY <1>2, <1>7, <2>1, <2>2
<1>14. ASSUME NEW c \in Callers, RecordDecision(c)
       PROVE  BrainRest'
  <2>1. /\ decision' = [decision EXCEPT !.status = "recorded"]
        /\ EndCall(c) /\ UNCHANGED <<session, summary, made>>
    BY <1>14 DEF RecordDecision, InsertDecision
  <2>2. ResultsGood'
    BY <1>0, <2>1 DEF ResultsGood
  <2> QED
    BY <1>2, <1>7, <2>1, <2>2
<1>15. ASSUME NEW c \in Callers, TaskifyDecision(c)
       PROVE  BrainRest'
  <2> DEFINE new == CreateItemTasks(c)
  <2>1. /\ made' = made \cup new /\ EndCall(c) /\ UNCHANGED <<session, summary>>
        /\ decision' = [status |-> "taskified", links |-> LinkTasks(decision.links, new)]
    BY <1>15 DEF TaskifyDecision
  <2>2. LinkTasks(decision.links, new) \subseteq made'
    BY <1>0, <2>1 DEF LinkTasks
  <2> HIDE DEF new
  <2>3. ResultsGood'
    BY <1>0, <2>1, <2>2 DEF ResultsGood
  <2> QED
    BY <1>2, <1>7, <2>1, <2>3
<1> QED
  BY <1>4, <1>5, <1>6, <1>8, <1>9, <1>10, <1>11, <1>12, <1>13, <1>14, <1>15 DEF BrainstormNext

\* Only accounts have seats, and every Task that the Decision is linked to was
\* created from one of its action items (join_brainstorm, taskify_decision).
THEOREM BrainTypes == BrainstormSpec => []BrainstormTypeOK
<1>1. BrainInv /\ BrainRest => BrainstormTypeOK
  <2> SUFFICES ASSUME BrainInv, BrainRest PROVE BrainstormTypeOK
    OBVIOUS
  <2>1. session.status \in {"OPEN", "PAUSED", "CLOSED"} /\ session.limits \in LimitChoices
    BY DEF BrainInv, BrainShapes, IsSession, SessionRow
  <2>2. Seats!ToSet(session.seats) \subseteq Accounts
    BY DEF BrainRest, SeatsGood, Seats!ToSet
  <2> QED
    BY <2>1, <2>2 DEF BrainstormTypeOK, BrainRest, ResultsGood, StageGood
<1>2. BrainInv /\ BrainRest /\ [BrainstormNext]_brainstormVars => BrainRest'
  BY BrainRestStep
<1> QED
  BY <1>1, <1>2, BrainInit_Inv, BrainInvStep, BrainRestInit, PTL DEF BrainstormSpec

-----------------------------------------------------------------------------
(***************************************************************************)
(* The modules side by side: a behaviour is one of its part's module, so   *)
(* what is proved of the module holds of it.                               *)
(***************************************************************************)
\* Every step is a step of the part's module, and the part stays.
LEMMA CollaborationPartSteps ==
  ASSUME [MCNext]_allVars
  PROVE  /\ part' = part
         /\ part = "verifiers" => [VerifierNext]_verifierVars
         /\ part = "subtasks" => [SubtasksNext]_subtasksVars
         /\ part = "delivery" => [DeliveryNext]_deliveryVars
         /\ part = "bridge" => [BridgeNext]_bridgeVars
         /\ part = "inbound" => [InboundNext]_inboundVars
         /\ part = "brainstorm" => [BrainstormNext]_brainstormVars
         /\ part = "documents" => [DocNext]_docVars
         /\ part = "artifacts" => [ArtifactsNext]_artifactsVars
<1>1. CASE MCNext
  BY <1>1 DEF MCNext
<1>2. CASE UNCHANGED allVars
  BY <1>2 DEF allVars
<1> QED
  BY <1>1, <1>2

\* Whichever module runs, its variables keep their types: an offer, a row of an
\* outbox, a message between two channels, a command in hand, a seat and a
\* version never leave the shapes the code gives them.
THEOREM CollaborationTypes == MCSpec => []CollaborationTypeOK
<1>1. MCSpec => [](part = "verifiers" => VerifierTypeOK)
  <2>1. MCInit => VerifierInit
    BY DEF MCInit
  <2>2. part = "verifiers" /\ [MCNext]_allVars => (part = "verifiers")' /\ [VerifierNext]_verifierVars
    BY CollaborationPartSteps
  <2>3. ~(part = "verifiers") /\ [MCNext]_allVars => ~(part = "verifiers")'
    BY CollaborationPartSteps
  <2> QED
    BY <2>1, <2>2, <2>3, VerifierTimeoutReplaces, PTL DEF MCSpec, VerifierSpec
<1>2. MCSpec => [](part = "subtasks" => SubtasksTypeOK)
  <2>1. MCInit => SubtasksInit
    BY DEF MCInit
  <2>2. part = "subtasks" /\ [MCNext]_allVars => (part = "subtasks")' /\ [SubtasksNext]_subtasksVars
    BY CollaborationPartSteps
  <2>3. ~(part = "subtasks") /\ [MCNext]_allVars => ~(part = "subtasks")'
    BY CollaborationPartSteps
  <2> QED
    BY <2>1, <2>2, <2>3, SubtasksJoinOnce, PTL DEF MCSpec, SubtasksSpec
<1>3. MCSpec => [](part = "delivery" => DeliveryTypeOK)
  <2>1. MCInit => DeliveryInit
    BY DEF MCInit
  <2>2. part = "delivery" /\ [MCNext]_allVars => (part = "delivery")' /\ [DeliveryNext]_deliveryVars
    BY CollaborationPartSteps
  <2>3. ~(part = "delivery") /\ [MCNext]_allVars => ~(part = "delivery")'
    BY CollaborationPartSteps
  <2> QED
    BY <2>1, <2>2, <2>3, DeliveryTypes, PTL DEF MCSpec, DeliverySpec
<1>4. MCSpec => [](part = "bridge" => BridgeTypeOK)
  <2>1. MCInit => BridgeInit
    BY DEF MCInit
  <2>2. part = "bridge" /\ [MCNext]_allVars => (part = "bridge")' /\ [BridgeNext]_bridgeVars
    BY CollaborationPartSteps
  <2>3. ~(part = "bridge") /\ [MCNext]_allVars => ~(part = "bridge")'
    BY CollaborationPartSteps
  <2> QED
    BY <2>1, <2>2, <2>3, BridgeTypes, PTL DEF MCSpec, BridgeSpec
<1>5. MCSpec => [](part = "inbound" => InboundTypeOK)
  <2>1. MCInit => InboundInit
    BY DEF MCInit
  <2>2. part = "inbound" /\ [MCNext]_allVars => (part = "inbound")' /\ [InboundNext]_inboundVars
    BY CollaborationPartSteps
  <2>3. ~(part = "inbound") /\ [MCNext]_allVars => ~(part = "inbound")'
    BY CollaborationPartSteps
  <2> QED
    BY <2>1, <2>2, <2>3, InboundTypesKept, PTL DEF MCSpec, InboundSpec
<1>6. MCSpec => [](part = "brainstorm" => BrainstormTypeOK)
  <2>1. MCInit => BrainstormInit
    BY DEF MCInit
  <2>2. part = "brainstorm" /\ [MCNext]_allVars => (part = "brainstorm")' /\ [BrainstormNext]_brainstormVars
    BY CollaborationPartSteps
  <2>3. ~(part = "brainstorm") /\ [MCNext]_allVars => ~(part = "brainstorm")'
    BY CollaborationPartSteps
  <2> QED
    BY <2>1, <2>2, <2>3, BrainTypes, PTL DEF MCSpec, BrainstormSpec
<1>7. MCSpec => [](part = "documents" => DocTypeOK)
  <2>1. MCInit => DocInit
    BY DEF MCInit
  <2>2. part = "documents" /\ [MCNext]_allVars => (part = "documents")' /\ [DocNext]_docVars
    BY CollaborationPartSteps
  <2>3. ~(part = "documents") /\ [MCNext]_allVars => ~(part = "documents")'
    BY CollaborationPartSteps
  <2> QED
    BY <2>1, <2>2, <2>3, DocumentsOnlyApproved, PTL DEF MCSpec, DocSpec
<1>8. MCSpec => [](part = "artifacts" => ArtifactsTypeOK)
  <2>1. MCInit => ArtifactsInit
    BY DEF MCInit
  <2>2. part = "artifacts" /\ [MCNext]_allVars => (part = "artifacts")' /\ [ArtifactsNext]_artifactsVars
    BY CollaborationPartSteps
  <2>3. ~(part = "artifacts") /\ [MCNext]_allVars => ~(part = "artifacts")'
    BY CollaborationPartSteps
  <2> QED
    BY <2>1, <2>2, <2>3, ArtifactsTakenIn, PTL DEF MCSpec, ArtifactsSpec
<1>9. ASSUME part = "verifiers" => VerifierTypeOK,
             part = "subtasks" => SubtasksTypeOK,
             part = "delivery" => DeliveryTypeOK,
             part = "bridge" => BridgeTypeOK,
             part = "inbound" => InboundTypeOK,
             part = "brainstorm" => BrainstormTypeOK,
             part = "documents" => DocTypeOK,
             part = "artifacts" => ArtifactsTypeOK
      PROVE  CollaborationTypeOK
  BY <1>9 DEF CollaborationTypeOK
<1> QED
  BY <1>1, <1>2, <1>3, <1>4, <1>5, <1>6, <1>7, <1>8, <1>9, PTL
=============================================================================
