------------------------------ MODULE Missions ------------------------------
(***************************************************************************)
(* Mission work under several processes: the handlers of missions.py,      *)
(* mission_steps.py, mission_autonomy.py, tool_router.py and               *)
(* reflection_queue.py, run by command-line processes and by the threads   *)
(* of the live chat server over one ledger.  Every function reads the      *)
(* ledger without a lock, checks, and appends later; a handler is the list *)
(* of calls it still has to make, and a function that calls others puts    *)
(* its calls at the front of that list.  A ValueError ends the handler.    *)
(***************************************************************************)
EXTENDS MissionRecords

CONSTANTS
    Procs,           \* the processes and threads
    StartLogs,       \* the ledgers the work starts from
    Tools,           \* the tools steps are proposed with
    Faults,          \* of "crash"
    Limit,           \* bound: a command c is among the first Limit[c] started
    MaxOverlapping   \* bound: commands started once two have overlapped

CommandName ==
    {"mission-open", "mission-status", "mission-add", "mission-step-propose",
     "mission-step-approve", "mission-step-start", "mission-step-complete",
     "mission-step-fail", "mission-step-block", "tool-permission", "tool-dry-run",
     "tool-run", "reflection-task", "mission-next-step"}

(* Missions opened and steps proposed, by nobody's overlapping commands.   *)
Opening(evs) ==
    \A i \in DOMAIN evs :
        \/ evs[i] = MissionOpened
        \/ \E m \in 1..(i - 1), risk \in MissionStepRisk, tool \in Tools :
               evs[m] = MissionOpened /\ evs[i] = StepProposed(m, risk, tool)

ASSUME MissionsAssumption ==
    /\ Limit \in [CommandName -> Nat]
    /\ MaxOverlapping \in Nat
    /\ Faults \subseteq {"crash"}
    /\ \A evs \in StartLogs : evs \in Seq({evs[i] : i \in DOMAIN evs}) /\ Opening(evs)

VARIABLES
    log,       \* the events of the ledger
    todo,      \* per process, the calls its handler has yet to make
    ran,       \* the tool runs so far: the step, and the length of the ledger then
    started,   \* number of commands started
    overlap,   \* two handlers have been under way at the same time
    killed     \* a handler has been killed

vars == <<log, todo, ran, started, overlap, killed>>

\* The calls of a handler.
Do(f, s)          == [do |-> f, step |-> s]
Appending(e)      == [do |-> "append", event |-> e]
OpenTask(m, kind) == [do |-> "open_task", mission |-> m, kind |-> kind]
CloseTask(t, how) == [do |-> "close_task", task |-> t, how |-> how]
Recommend(m, apply) == [do |-> "recommend", mission |-> m, apply |-> apply]
\* then: what follows the permission: nothing, a preview, or a run of the
\* tool by a caller that saw the step in this state.
Permission(s, then) == [do |-> "permission", step |-> s, then |-> then]

Idle == <<>>
Quiescent == \A p \in Procs : todo[p] = Idle

-----------------------------------------------------------------------------
(* Starting a command.                                                     *)

Begin(p, command, calls) ==
    /\ todo[p] = Idle
    /\ started < Limit[command]
    /\ overlap => started < MaxOverlapping
    /\ started' = started + 1
    /\ todo' = [todo EXCEPT ![p] = calls]
    /\ overlap' = (overlap \/ ~Quiescent)
    /\ UNCHANGED <<log, ran, killed>>

(* add_mission_item: the item, then the pressure it puts on the mission, a *)
(* reflection and a review task; a lesson proposes growth.                 *)
add_mission_item(m, kind, weak) ==
    <<Appending(MissionItemAdded(m, kind, weak))>>
    \o (IF Pressing(kind, weak)
        THEN <<Appending(ReflectionRecorded(m, kind)), OpenTask(m, kind)>> ELSE <<>>)
    \o (IF kind = "lesson" THEN <<Appending(GrowthProposed(m))>> ELSE <<>>)

OpenMission(p) == Begin(p, "mission-open", <<Appending(MissionOpened)>>)

UpdateMissionStatus(p) ==
    \E m \in Missions(log), status \in MissionStatus :
        Begin(p, "mission-status", <<Appending(MissionStatusUpdated(m, status))>>)

AddMissionItem(p) ==
    \E m \in Missions(log), kind \in MissionItemKind, weak \in BOOLEAN :
        Begin(p, "mission-add", add_mission_item(m, kind, weak))

ProposeMissionStep(p) ==
    \E m \in Missions(log), risk \in MissionStepRisk, tool \in Tools :
        Begin(p, "mission-step-propose", <<Appending(StepProposed(m, risk, tool))>>)

\* The commands that call one function on a step.
StepFunction ==
    [approve |-> "mission-step-approve", start |-> "mission-step-start",
     complete |-> "mission-step-complete", fail |-> "mission-step-fail",
     block |-> "mission-step-block", run_tool |-> "tool-run"]

UseStep(p) ==
    \E s \in Steps(log), f \in DOMAIN StepFunction : Begin(p, StepFunction[f], <<Do(f, s)>>)

CheckPermission(p) ==
    \E s \in Steps(log) : Begin(p, "tool-permission", <<Permission(s, "nothing")>>)

DryRunTool(p) ==
    \E s \in Steps(log) : Begin(p, "tool-dry-run", <<Permission(s, "preview")>>)

UpdateReflectionTask(p) ==
    \E t \in Tasks(log), how \in {"reflection.task_resolved", "reflection.task_dismissed"} :
        Begin(p, "reflection-task", <<CloseTask(t, how)>>)

NextStep(p) ==
    \E m \in Missions(log), apply \in BOOLEAN :
        Begin(p, "mission-next-step", <<Recommend(m, apply)>>)

-----------------------------------------------------------------------------
(* The calls.                                                              *)

Called(p, f) == todo[p] # Idle /\ Head(todo[p]).do = f
Call(p) == Head(todo[p])

(* A call that has read the ledger makes the calls next; or it raises, and *)
(* the handler is over.                                                    *)
Return(p, allowed, next) ==
    /\ todo' = [todo EXCEPT ![p] = IF allowed THEN next \o Tail(@) ELSE Idle]
    /\ UNCHANGED <<log, ran, started, overlap, killed>>

AppendEvent(p) ==
    /\ Called(p, "append")
    /\ log' = Append(log, Call(p).event)
    /\ todo' = [todo EXCEPT ![p] = Tail(@)]
    /\ UNCHANGED <<ran, started, overlap, killed>>

\* The approval a step keeps when its execution status changes.
Approval(s) == StepRecord(log, s).approval

\* The item a finished step leaves, and its pressure.
Outcome(s, weak) == add_mission_item(log[s].mission, "outcome", weak)

(* Mutant: the approval is written into the execution status.              *)
approve_mission_step_misplaced(p) ==
    /\ Called(p, "approve")
    /\ LET s == Call(p).step IN
         Return(p, Execution(log, s) \in {"proposed", "ready", "blocked"},
            <<Appending(StepUpdated("mission.step_approved", s, "approved", "approved"))>>)

approve_mission_step(p) ==
    /\ Called(p, "approve")
    /\ LET s == Call(p).step IN
         Return(p, Execution(log, s) \in {"proposed", "ready", "blocked"},
            <<Appending(StepUpdated("mission.step_approved", s, "approved", "ready"))>>)

(* Mutant: a step starts from any state but running.                       *)
start_mission_step_anew(p) ==
    /\ Called(p, "start")
    /\ LET s == Call(p).step IN
         Return(p, ~NeedsApproval(log, s) /\ Execution(log, s) # "running",
            <<Appending(StepUpdated("mission.step_started", s, Approval(s), "running"))>>)

start_mission_step(p) ==
    /\ Called(p, "start")
    /\ LET s == Call(p).step IN
         Return(p, ~NeedsApproval(log, s) /\ Execution(log, s) \in {"proposed", "ready"},
            <<Appending(StepUpdated("mission.step_started", s, Approval(s), "running"))>>)

complete_mission_step(p) ==
    /\ Called(p, "complete")
    /\ LET s == Call(p).step IN
         Return(p, Execution(log, s) = "running",
            <<Appending(StepUpdated("mission.step_completed", s, Approval(s), "completed"))>>
            \o Outcome(s, FALSE))

fail_mission_step(p) ==
    /\ Called(p, "fail")
    /\ LET s == Call(p).step IN
         Return(p, Execution(log, s) \in {"running", "ready", "proposed"},
            <<Appending(StepUpdated("mission.step_failed", s, Approval(s), "failed"))>>
            \o Outcome(s, TRUE))

(* No condition on the state of the step.                                  *)
block_mission_step(p) ==
    /\ Called(p, "block")
    /\ LET s == Call(p).step IN
         Return(p, TRUE,
            <<Appending(StepUpdated("mission.step_blocked", s, Approval(s), "blocked"))>>
            \o Outcome(s, TRUE))

(* Mutant: a task that was closed still counts as existing.                *)
open_tasks_once(p) ==
    /\ Called(p, "open_task")
    /\ LET task == TaskOpened(Call(p).mission, Call(p).kind)
           existing == {t \in Tasks(log) : log[t] = task}
       IN  Return(p, TRUE, IF existing = {} THEN <<Appending(task)>> ELSE <<>>)

(* open_tasks_from_reflection: no second open task for the same pressure.  *)
open_tasks_from_reflection(p) ==
    /\ Called(p, "open_task")
    /\ LET m == Call(p).mission
           kind == Call(p).kind
           existing == {t \in OpenMissionTasks(log, m) : log[t].kind = kind}
       IN  Return(p, TRUE, IF existing = {} THEN <<Appending(TaskOpened(m, kind))>> ELSE <<>>)

update_reflection_task(p) ==
    /\ Called(p, "close_task")
    /\ LET t == Call(p).task IN
         Return(p, t \in OpenTasks(log), <<Appending(TaskClosed(Call(p).how, t))>>)

(* recommend_next_mission_step: urgent stands for the inbox items of other *)
(* components, skill for the last accepted skill, whose risk and tool the  *)
(* recommended step takes.  With apply the step is proposed at once.       *)
recommend_next_mission_step(p) ==
    /\ Called(p, "recommend")
    /\ LET m == Call(p).mission
           flow == mission_flow(log, m)
           free == ~flow.blocked /\ ActiveSteps(log, m) = {}
           step(risk, tool) ==
               <<Appending(Recommended(m, TRUE))>>
               \o (IF Call(p).apply THEN <<Appending(StepProposed(m, risk, tool))>> ELSE <<>>)
           none == <<Appending(Recommended(m, FALSE))>>
       IN  \/ \* blocked, or urgent
              Return(p, TRUE, none)
           \/ free /\ \E risk \in MissionStepRisk, tool \in Tools \cap TOOL_REGISTRY :
                  Return(p, TRUE, step(risk, tool))
           \/ free /\ \E tool \in PhaseTool(flow.phase) : Return(p, TRUE, step("low", tool))

(* run_tool_for_step reads the step, and check_tool_permission reads it    *)
(* again.                                                                  *)
run_tool_for_step(p) ==
    /\ Called(p, "run_tool")
    /\ LET s == Call(p).step IN
         Return(p, log[s].tool \in TOOL_REGISTRY, <<Permission(s, Execution(log, s))>>)

(* check_tool_permission, and what its caller does with the decision.      *)
check_tool_permission(p) ==
    /\ Called(p, "permission")
    /\ LET s == Call(p).step
           then == Call(p).then
           allowed == ~ToolDenied(log, s)
           next ==
               CASE then = "nothing" -> <<>>
                 [] then = "preview" -> <<Appending(PreviewRecorded(s, allowed))>>
                 [] OTHER ->
                    IF ~allowed THEN <<Appending(ExecutionRecorded(s, "denied"))>>
                    ELSE (IF then \in {"proposed", "ready"} THEN <<Do("start", s)>> ELSE <<>>)
                         \o <<Do("execute", s)>>
       IN  Return(p, log[s].tool \in TOOL_REGISTRY,
                  <<Appending(PermissionChecked(s, allowed))>> \o next)

(* The tool runs, outside the ledger, and its output becomes evidence.  A  *)
(* command that exceeds its time limit raises.                             *)
execute_tool(p) ==
    /\ Called(p, "execute")
    /\ LET s == Call(p).step
           result(status, f) ==
               <<Appending(EvidenceAdded), Appending(EvidenceLinked(log[s].mission)),
                 Appending(ExecutionRecorded(s, status)), Do(f, s)>>
       IN  /\ ran' = Append(ran, [step |-> s, at |-> Len(log)])
           /\ \/ todo' = [todo EXCEPT ![p] = result("completed", "complete") \o Tail(@)]
              \/ todo' = [todo EXCEPT ![p] = result("failed", "fail") \o Tail(@)]
              \/ log[s].tool \in CommandTool /\ todo' = [todo EXCEPT ![p] = Idle]
    /\ UNCHANGED <<log, started, overlap, killed>>

(* The process is killed between two calls.                                *)
Crash(p) ==
    /\ "crash" \in Faults
    /\ todo[p] # Idle
    /\ todo' = [todo EXCEPT ![p] = Idle]
    /\ killed' = TRUE
    /\ UNCHANGED <<log, ran, started, overlap>>

-----------------------------------------------------------------------------

Init ==
    /\ log \in StartLogs
    /\ todo = [p \in Procs |-> Idle]
    /\ ran = <<>> /\ started = 0
    /\ overlap = FALSE /\ killed = FALSE

Command(p) ==
    \/ OpenMission(p) \/ UpdateMissionStatus(p) \/ AddMissionItem(p)
    \/ ProposeMissionStep(p) \/ UseStep(p) \/ CheckPermission(p) \/ DryRunTool(p)
    \/ UpdateReflectionTask(p) \/ NextStep(p)

Step(p) ==
    \/ AppendEvent(p)
    \/ approve_mission_step(p) \/ start_mission_step(p) \/ complete_mission_step(p)
    \/ fail_mission_step(p) \/ block_mission_step(p)
    \/ open_tasks_from_reflection(p) \/ update_reflection_task(p)
    \/ recommend_next_mission_step(p)
    \/ run_tool_for_step(p) \/ check_tool_permission(p) \/ execute_tool(p)

Next == \E p \in Procs : Command(p) \/ Step(p) \/ Crash(p)

Spec == Init /\ [][Next]_vars

-----------------------------------------------------------------------------
(* Properties.                                                             *)

ToolExecutionStatus == {"completed", "failed", "denied"}
MissionStepApprovalStatus == {"not_required", "pending", "approved"}

Event ==
    {MissionOpened, EvidenceAdded}
    \cup [type : {"mission.status_updated"}, mission : Nat, status : MissionStatus]
    \cup [type : {"mission.item_added"}, mission : Nat, kind : MissionItemKind, weak : BOOLEAN]
    \cup [type : {"mission.step_proposed"}, mission : Nat, risk : MissionStepRisk,
          tool : Tools \cup TOOL_REGISTRY, approval : MissionStepApprovalStatus,
          execution : MissionStepExecutionStatus]
    \cup [type : StepUpdate, step : Nat, approval : MissionStepApprovalStatus,
          execution : MissionStepExecutionStatus]
    \cup [type : {"lucien.reflection_recorded", "reflection.task_opened"},
          mission : Nat, kind : MissionItemKind]
    \cup [type : {"reflection.task_resolved", "reflection.task_dismissed"}, task : Nat]
    \cup [type : {"lucien.growth_proposed", "evidence.linked"}, mission : Nat]
    \cup [type : {"mission.autonomy_recommended"}, mission : Nat, propose : BOOLEAN]
    \cup [type : {"tool.permission_checked", "tool.preview_recorded"},
          step : Nat, allowed : BOOLEAN]
    \cup [type : {"tool.execution_recorded"}, step : Nat, status : ToolExecutionStatus]

\* A call may only name a step that is on the ledger.
CallOf(evs) ==
    [do : DOMAIN StepFunction \cup {"execute"}, step : Steps(evs)]
    \cup [do : {"append"}, event : Event]
    \cup [do : {"open_task"}, mission : Nat, kind : MissionItemKind]
    \cup [do : {"close_task"}, task : Nat,
          how : {"reflection.task_resolved", "reflection.task_dismissed"}]
    \cup [do : {"recommend"}, mission : Nat, apply : BOOLEAN]
    \cup [do : {"permission"}, step : Steps(evs),
          then : {"nothing", "preview"} \cup MissionStepExecutionStatus]

TypeOK ==
    /\ log \in Seq(Event)
    /\ todo \in [Procs -> Seq(CallOf(log))]
    /\ ran \in Seq([step : Steps(log), at : 0..Len(log)])
    /\ started \in Nat
    /\ overlap \in BOOLEAN /\ killed \in BOOLEAN

ApprovedWithin(s, first, last) ==
    \E i \in first..last : log[i].type = "mission.step_approved" /\ log[i].step = s

(* A medium- or high-risk step, and a step whose tool needs approval, runs *)
(* only after a steward approved it, whichever handlers overlap and        *)
(* whoever dies (mission_steps.py:244-247, tool_router.py:556-572).        *)
RunsApproved ==
    /\ \A k \in DOMAIN ran :
          log[ran[k].step].risk \in {"medium", "high"} \/ log[ran[k].step].tool \in ApprovalTool
          => ApprovedWithin(ran[k].step, 1, ran[k].at)
    /\ \A i \in Positions(log, "mission.step_started") :
          log[log[i].step].risk \in {"medium", "high"} => ApprovedWithin(log[i].step, 1, i)

\* What calls for a review: failed and blocked steps, risks, weak evidence.
Pressure(evs) ==
    {i \in Positions(evs, "mission.item_added") : Pressing(evs[i].kind, evs[i].weak)}
Failures(evs) == Positions(evs, "mission.step_failed") \cup Positions(evs, "mission.step_blocked")

\* A review task of the mission was closed after event i, before event n.
ReviewedWithin(m, kind, i, n) ==
    \E j \in i + 1..n - 1 :
        /\ log[j].type \in {"reflection.task_resolved", "reflection.task_dismissed"}
        /\ log[log[j].task] = TaskOpened(m, kind)

\* Everything that put pressure on m before event n has been reviewed since.
AllReviewed(m, n) ==
    /\ \A i \in Pressure(log) : (i < n /\ log[i].mission = m) =>
           ReviewedWithin(m, log[i].kind, i, n)
    /\ \A i \in Failures(log) : (i < n /\ log[log[i].step].mission = m) =>
           ReviewedWithin(m, "outcome", i, n)

(* Between commands a mission is ready to advance only when a steward has  *)
(* closed a review of every failed or blocked step, every risk and every   *)
(* weak item since it appeared, even if handlers overlapped                *)
(* (README.md:541-547, mission_flow.py:64-66, reflection_queue.py:122-145).*)
PressureIsReviewed ==
    (Quiescent /\ ~killed) =>
        \A m \in Missions(log) : mission_flow(log, m).ready => AllReviewed(m, Len(log) + 1)

(* The autonomous loop proposes no new work for a mission under way over   *)
(* an unreviewed failure (mission_autonomy.py:138-146).  Holds while       *)
(* commands do not overlap.                                                *)
AutonomyAwaitsReview ==
    ~(overlap \/ killed) =>
        \A i \in Positions(log, "mission.autonomy_recommended") :
            StatusOfMission(SubSeq(log, 1, i - 1), log[i].mission) # "completed" =>
                (log[i].propose => AllReviewed(log[i].mission, i))

Ends(s) == {i \in UpdatesOf(log, s) : log[i].execution \in {"completed", "failed", "blocked"}}

(* A step that was completed, failed or blocked runs again only after a    *)
(* later approval, while commands do not overlap (mission_steps.py:217-222,*)
(* tool_router.py:558-563).                                                *)
RunsReleased ==
    ~overlap =>
        /\ \A k \in DOMAIN ran : \A e \in Ends(ran[k].step) :
              e <= ran[k].at => ApprovedWithin(ran[k].step, e, ran[k].at)
        /\ \A i \in Positions(log, "mission.step_started") : \A e \in Ends(log[i].step) :
              e <= i => ApprovedWithin(log[i].step, e, i)
=============================================================================
