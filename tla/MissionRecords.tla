--------------------------- MODULE MissionRecords ---------------------------
(***************************************************************************)
(* What the ledger says about missions, their steps and their review       *)
(* tasks: the folds of pca/missions.py, mission_steps.py,                  *)
(* reflection_queue.py and mission_flow.py, and the rule of tool_router.py *)
(* about when a tool may run.  Nothing here changes state.                 *)
(*                                                                         *)
(* A ledger is a sequence of event records.  The id of a mission, a step   *)
(* or a task (a uuid in the code) is the position of the event that opened *)
(* it.  The code writes a whole record into every update; an update here   *)
(* keeps the fields an update can change, the others are those of the      *)
(* opening event.                                                          *)
(***************************************************************************)
EXTENDS Integers, Sequences, FiniteSetsExt

MissionStatus == {"open", "paused", "completed", "archived"}
MissionItemKind ==
    {"hypothesis", "evidence", "intervention", "plan_step", "risk", "outcome", "lesson"}
MissionStepRisk == {"low", "medium", "high"}
MissionStepExecutionStatus == {"proposed", "ready", "running", "completed", "failed", "blocked"}

(* The tools that run a command, and so may time out, and those that need  *)
(* an approved step whatever its risk.  None has the risk "blocked".       *)
TOOL_REGISTRY ==
    {"list_files", "read_file", "git_status", "project_snapshot", "git_recent",
     "changed_files_summary", "suggest_next_build", "run_check_all", "open_dashboard"}
CommandTool == TOOL_REGISTRY \ {"list_files", "read_file", "open_dashboard"}
ApprovalTool == {"run_check_all"}

-----------------------------------------------------------------------------
(* Events.                                                                 *)

MissionOpened == [type |-> "mission.opened", status |-> "open"]
MissionStatusUpdated(m, status) ==
    [type |-> "mission.status_updated", mission |-> m, status |-> status]
\* weak: its status or its confidence is one that _mission_pressure looks for.
MissionItemAdded(m, kind, weak) ==
    [type |-> "mission.item_added", mission |-> m, kind |-> kind, weak |-> weak]

\* Low-risk steps need no approval and are ready at once.
StepProposed(m, risk, tool) ==
    [type |-> "mission.step_proposed", mission |-> m, risk |-> risk, tool |-> tool,
     approval |-> IF risk = "low" THEN "not_required" ELSE "pending",
     execution |-> IF risk = "low" THEN "ready" ELSE "proposed"]
StepUpdated(type, s, approval, execution) ==
    [type |-> type, step |-> s, approval |-> approval, execution |-> execution]

ReflectionRecorded(m, kind) ==
    [type |-> "lucien.reflection_recorded", mission |-> m, kind |-> kind]
TaskOpened(m, kind) == [type |-> "reflection.task_opened", mission |-> m, kind |-> kind]
TaskClosed(type, t) == [type |-> type, task |-> t]

GrowthProposed(m)            == [type |-> "lucien.growth_proposed", mission |-> m]
Recommended(m, propose)      ==
    [type |-> "mission.autonomy_recommended", mission |-> m, propose |-> propose]
PermissionChecked(s, allowed) ==
    [type |-> "tool.permission_checked", step |-> s, allowed |-> allowed]
PreviewRecorded(s, allowed)  == [type |-> "tool.preview_recorded", step |-> s, allowed |-> allowed]
ExecutionRecorded(s, status) == [type |-> "tool.execution_recorded", step |-> s, status |-> status]
EvidenceAdded                == [type |-> "evidence.added"]
EvidenceLinked(m)            == [type |-> "evidence.linked", mission |-> m]

Positions(evs, type) == {i \in DOMAIN evs : evs[i].type = type}

-----------------------------------------------------------------------------
(* The records: the last event about a thing holds its state.              *)

Missions(evs) == Positions(evs, "mission.opened")
StatusOfMission(evs, m) ==
    evs[Max({m} \cup {i \in Positions(evs, "mission.status_updated") : evs[i].mission = m})].status

Items(evs, m, kind) ==
    {i \in Positions(evs, "mission.item_added") : evs[i].mission = m /\ evs[i].kind = kind}
Weak(evs, items) == {i \in items : evs[i].weak}

StepUpdate ==
    {"mission.step_approved", "mission.step_started", "mission.step_completed",
     "mission.step_failed", "mission.step_blocked"}

Steps(evs) == Positions(evs, "mission.step_proposed")
StepsOf(evs, m) == {s \in Steps(evs) : evs[s].mission = m}
UpdatesOf(evs, s) == {i \in DOMAIN evs : evs[i].type \in StepUpdate /\ evs[i].step = s}
StepRecord(evs, s) == evs[Max({s} \cup UpdatesOf(evs, s))]
Execution(evs, s) == StepRecord(evs, s).execution
Approved(evs, s) == StepRecord(evs, s).approval = "approved"

Tasks(evs) == Positions(evs, "reflection.task_opened")
Closings(evs, t) ==
    {i \in Positions(evs, "reflection.task_resolved")
           \cup Positions(evs, "reflection.task_dismissed") : evs[i].task = t}
OpenTasks(evs) == {t \in Tasks(evs) : Closings(evs, t) = {}}
OpenMissionTasks(evs, m) == {t \in OpenTasks(evs) : evs[t].mission = m}

(* _mission_pressure: the items that call for a review.                    *)
Pressing(kind, weak) == kind = "risk" \/ (kind \in {"evidence", "outcome"} /\ weak)

-----------------------------------------------------------------------------
(* mission_flow.py: the phase of a mission.                                *)

NeedsApproval(evs, s) ==
    /\ evs[s].risk \in {"medium", "high"}
    /\ ~Approved(evs, s)

(* Mutant: only missing approvals block a mission.                         *)
BlockedByApproval(evs, m) ==
    \E s \in StepsOf(evs, m) :
        NeedsApproval(evs, s) /\ Execution(evs, s) \in {"proposed", "ready"}

(* Blockers: open review tasks, and active steps that lack an approval.    *)
Blocked(evs, m) ==
    \/ OpenMissionTasks(evs, m) # {}
    \/ \E s \in StepsOf(evs, m) :
           NeedsApproval(evs, s) /\ Execution(evs, s) \in {"proposed", "ready"}

Rule(when, phase, ready, blocked) ==
    [when |-> when, phase |-> phase, ready |-> ready, blocked |-> blocked]

(* The tests of mission_flow_from_events in their order: whether each      *)
(* applies, and the phase it leads to, ready to advance or with blockers.  *)
FlowRules(evs, m) ==
    LET status == StatusOfMission(evs, m)
        some(kind) == Items(evs, m, kind) # {}
        weak(kind) == Weak(evs, Items(evs, m, kind)) # {}
        step(execution) == \E s \in StepsOf(evs, m) : Execution(evs, s) = execution
    IN <<Rule(status = "completed",                     "completed",          FALSE, FALSE),
         Rule(status \in {"paused", "archived"},        "blocked",            FALSE, TRUE),
         Rule(Blocked(evs, m),                          "blocked",            FALSE, TRUE),
         Rule(step("failed") \/ step("blocked"),        "outcome_review",     TRUE,  FALSE),
         Rule(step("running"),                          "intervention_ready", FALSE, FALSE),
         Rule(step("completed"),                        "outcome_review",     TRUE,  FALSE),
         Rule(step("ready"),                            "intervention_ready", TRUE,  FALSE),
         Rule(step("proposed"),                         "planning",           FALSE, FALSE),
         Rule(weak("outcome"),                          "outcome_review",     TRUE,  FALSE),
         Rule(some("lesson"),                           "lesson_review",      TRUE,  FALSE),
         Rule(some("outcome"),                          "outcome_review",     TRUE,  FALSE),
         Rule(some("intervention"),                     "intervention_ready", TRUE,  FALSE),
         Rule(some("plan_step") /\ some("risk"),        "intervention_ready", TRUE,  FALSE),
         Rule(some("plan_step"),                        "planning",           FALSE, FALSE),
         Rule(weak("evidence"),                         "evidence_review",    FALSE, TRUE),
         Rule(some("evidence") /\ some("hypothesis"),   "planning",           TRUE,  FALSE),
         Rule(some("hypothesis"),                       "evidence_review",    FALSE, FALSE),
         Rule(TRUE,                                     "intake",             FALSE, FALSE)>>

mission_flow(evs, m) ==
    LET rules == FlowRules(evs, m)
    IN  rules[Min({k \in DOMAIN rules : rules[k].when})]

(* mission_autonomy.py: an active step or a blocker stops the loop.        *)
ActiveSteps(evs, m) ==
    {s \in StepsOf(evs, m) : Execution(evs, s) \in {"proposed", "ready", "running"}}

(* The tool _phase_recommendation proposes in a phase, always at low risk. *)
PhaseTool(phase) ==
    CASE phase = "intake" -> {"list_files"}
      [] phase = "evidence_review" -> {"read_file"}
      [] phase \in {"planning", "outcome_review"} -> {"git_status"}
      [] OTHER -> {}

-----------------------------------------------------------------------------
(* tool_router.py, _tool_denial_reason.                                    *)

(* Mutant: what the tool itself requires is not looked at.                 *)
ToolDeniedByRisk(evs, s) ==
    \/ Execution(evs, s) \in {"completed", "failed", "blocked"}
    \/ NeedsApproval(evs, s)

ToolDenied(evs, s) ==
    \/ Execution(evs, s) \in {"completed", "failed", "blocked"}
    \/ NeedsApproval(evs, s)
    \/ (evs[s].tool \in ApprovalTool /\ ~Approved(evs, s))
=============================================================================
