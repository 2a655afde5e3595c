----------------------------- MODULE MCSchedules -----------------------------
(***************************************************************************)
(* The schedule modules for TLC: each behaviour is one of ScheduleRuns     *)
(* (part = "runs") or of SchedulePlanner (part = "planner").               *)
(***************************************************************************)
EXTENDS ScheduleRuns, SchedulePlanner, TLC

VARIABLE part
mcVars == <<part, runsVars, plannerVars>>

Symmetry == Permutations(Workers)

MCRunPolicies ==
  {[concurrency |-> "FORBID", daily |-> TRUE],
   [concurrency |-> "FORBID", daily |-> FALSE],
   [concurrency |-> "REPLACE", daily |-> TRUE]}
MCVersions == {1, 2}
MCOccurrencesOf == [v \in MCVersions |-> IF v = 1 THEN {1, 2, 3, 5} ELSE {2, 4, 5}]

MCInit ==
  /\ part \in {"runs", "planner"} /\ RunsInit /\ PlannerInit
  /\ part = "planner" => policy = CHOOSE p \in RunPolicies : TRUE
  /\ part = "runs" => missedPolicy = CHOOSE m \in MissedPolicies : TRUE
MCNext == \/ part = "runs" /\ RunsNext /\ UNCHANGED <<part, plannerVars>>
          \/ part = "planner" /\ PlannerNext /\ UNCHANGED <<part, runsVars>>
MCSpec == MCInit /\ [][MCNext]_mcVars
==============================================================================
