-------------------------------- MODULE Work --------------------------------
(***************************************************************************)
(* Governed work: the handlers of pca/autonomy_queue.py, skill_memory.py,  *)
(* checkpoint_links.py, evidence_locker.py, goals.py, learning_review.py   *)
(* and of steward_inbox.py for their items, run by command-line processes  *)
(* and by the threads of the live chat server.                             *)
(***************************************************************************)
EXTENDS WorkRecords, Handlers

CONSTANTS
    Threads,             \* the processes that are threads of the live chat server
    Actions,             \* the autonomy actions proposed on the command line
    Blockers,            \* the blockers added to goals
    MinimumRepetitions   \* completed steps that make a skill (2 in the code)

CommandName ==
    {"mission-step", "autonomy-propose", "autonomy-review", "autonomy-execute",
     "autonomy-execute-approved", "skill-candidate", "skill-auto-propose", "skill-review",
     "link-checkpoint", "checkpoint-lesson", "checkpoint-skills",
     "evidence-add", "evidence-claim", "evidence-link", "evidence-review", "goal-create",
     "goal-update", "learning-review", "reflection-task"}

\* What is in a ledger before the work starts.
StartEvent ==
    {MissionOpened, SessionStarted, GoalCreated}
    \cup [type : {"mission.step_proposed"}, mission : Nat, tool : STRING]
    \cup [type : {"mission.step_settled"}, step : Nat, outcome : {"completed", "failed"}]
    \cup [type : {"checkpoint.linked_to_mission"}, mission : Nat, steps : SUBSET Nat]
    \cup [type : {"autonomy.action_proposed"}, action : AutonomyAction, status : {"proposed"}]
    \cup [type : {"autonomy.action_reviewed"}, item : Nat, status : AutonomyReview]
    \cup [type : {"evidence.added"}, packet : STRING, status : {"raw"}]

\* Items were decided after they were proposed, and once.
Opening(evs) ==
    /\ evs \in Seq(StartEvent)
    /\ \A j \in Positions(evs, "autonomy.action_reviewed") :
          /\ evs[j].item \in Items(evs) /\ evs[j].item < j
          /\ ItemReviews(evs, evs[j].item) = {j}

ASSUME WorkAssumption ==
    /\ Threads \subseteq Procs
    /\ Actions \subseteq AutonomyAction
    /\ \A evs \in StartLogs : Opening(evs)
    /\ MinimumRepetitions \in Nat
    /\ Limit \in [CommandName -> Nat]

VARIABLE ran   \* the actions run so far: the item, and the length of the ledger then

vars == <<handlers, ran>>

\* The calls of a handler.
Item(f, i)            == [do |-> f, item |-> i]
ReviewItem(i, status) == [do |-> "review_item", item |-> i, status |-> status]
ExecuteApproved       == [do |-> "execute_approved"]
ExecuteEach(executed) == [do |-> "execute_each", executed |-> executed]
Learn(s, strict)      == [do |-> "propose_skill", step |-> s, strict |-> strict]
AutoPropose           == [do |-> "skill_sources"]
ProposeRepeated(done) == [do |-> "propose_repeated", sources |-> done]
ReviewSkill(k, status) == [do |-> "review_skill", skill |-> k, status |-> status]
LinkTo(m, steps)      == [do |-> "link_checkpoint", mission |-> m, steps |-> steps]
LessonOf(c)           == [do |-> "checkpoint_lesson", link |-> c]
AutoProposeFromCheckpoints == [do |-> "checkpoint_skills"]
Link(e, target)       == [do |-> "link", evidence |-> e, target |-> target, own |-> 0]
ReviewEvidence(e, status) == [do |-> "review_evidence", evidence |-> e, status |-> status]
Inbox(e, status)      == [do |-> "inbox_evidence", evidence |-> e, status |-> status]
InboxPacket(packet, status) ==
    [do |-> "inbox_packet", packet |-> packet, status |-> status]
ReviewPacket(packet, status) ==
    [do |-> "review_packet", packet |-> packet, status |-> status]
\* text: the status is given by its value, not as a member of GoalStatus.
SetGoal(g, status, text) ==
    [do |-> "goal_status", goal |-> g, status |-> status, text |-> text]
LinkGoal(g, m)        == [do |-> "goal_mission", goal |-> g, mission |-> m]
BlockGoal(g, blocker) == [do |-> "goal_blocker", goal |-> g, blocker |-> blocker]
Claim(cited)          == [do |-> "claim", cited |-> cited]
LinkCited(cited)      == [do |-> "link_cited", cited |-> cited, own |-> 0]
ReviewLearning(scope, target, apply) ==
    [do |-> "learning_review", scope |-> scope, target |-> target, apply |-> apply]
ApplyPlan(plan)       == [do |-> "apply_plan", plan |-> plan, own |-> 0]
OpenTask(subject)     == [do |-> "open_task", subject |-> subject]
CloseTask(t, how)     == [do |-> "close_task", task |-> t, how |-> how]

\* Two calls for each of n things.
CallBoth(n, first(_), second(_)) ==
    [k \in 1..2 * n |-> IF k % 2 = 1 THEN first((k + 1) \div 2) ELSE second(k \div 2)]

-----------------------------------------------------------------------------
(* Starting a command.                                                     *)

\* Steps end elsewhere (Missions); a step may be blocked at any time.
SettleStep(p) ==
    \E s \in Steps(log), outcome \in {"completed", "failed", "blocked"} :
        /\ outcome # "blocked" => Outcome(log, s) = "open"
        /\ Begin(p, "mission-step", <<Appending(StepSettled(s, outcome))>>)

ProposeAction(p) ==
    \E action \in Actions : Begin(p, "autonomy-propose", <<Appending(ActionProposed(action))>>)

ReviewAction(p) ==
    \E i \in Items(log), status \in AutonomyReview :
        Begin(p, "autonomy-review", <<ReviewItem(i, status)>>)

ExecuteAction(p) == \E i \in Items(log) : Begin(p, "autonomy-execute", <<Item("execute", i)>>)

ExecuteApprovedActions(p) ==
    p \notin Threads /\ Begin(p, "autonomy-execute-approved", <<ExecuteApproved>>)

ProposeSkill(p) ==
    \E s \in Steps(log) : Begin(p, "skill-candidate", <<Learn(s, TRUE)>>)

AutoProposeSkills(p) == Begin(p, "skill-auto-propose", <<AutoPropose>>)

\* The inbox looks for a proposed candidate, as the review does.
ReviewSkillCandidate(p) ==
    \E k \in Skills(log), status \in SkillReview :
        Begin(p, "skill-review", <<ReviewSkill(k, status)>>)

LinkCheckpoint(p) ==
    \E m \in Missions(log), steps \in SUBSET Steps(log) :
        p \notin Threads /\ Begin(p, "link-checkpoint", <<LinkTo(m, steps)>>)

ProposeCheckpointLesson(p) ==
    \E c \in Checkpoints(log) :
        p \notin Threads /\ Begin(p, "checkpoint-lesson", <<LessonOf(c)>>)

ProposeCheckpointSkills(p) ==
    p \notin Threads /\ Begin(p, "checkpoint-skills", <<AutoProposeFromCheckpoints>>)

\* On the command line; or from a mission's evidence panel, with its link.
AddEvidence(p) ==
    \/ Begin(p, "evidence-add", <<Appending(EvidenceAdded("none"))>>)
    \/ \E m \in Missions(log) :
         /\ p \in Threads
         /\ Begin(p, "evidence-add", <<Creating(EvidenceAdded("none"), Link(0, m))>>)

ClaimEvidence(p) ==
    \E cited \in SUBSET Evidence(log) : Begin(p, "evidence-claim", <<Claim(cited)>>)

LinkEvidence(p) ==
    \E e \in Evidence(log), m \in Missions(log) : Begin(p, "evidence-link", <<Link(e, m)>>)

\* Directly; from the inbox, one by one; or a packet of it.
ReviewSomeEvidence(p) ==
    \E status \in EvidenceReviewStatus \ {"raw"} :
        \/ \E e \in Evidence(log) :
             \/ Begin(p, "evidence-review", <<ReviewEvidence(e, status)>>)
             \/ status # "disputed" /\ Begin(p, "evidence-review", <<Inbox(e, status)>>)
        \/ \E packet \in Packets(log) :
             status # "disputed" /\ Begin(p, "evidence-review", <<InboxPacket(packet, status)>>)

CreateGoal(p) == Begin(p, "goal-create", <<Appending(GoalCreated)>>)

\* The command line completes and archives with a member of GoalStatus.
UpdateGoal(p) ==
    \E g \in Goals(log) :
        \/ \E status \in {"completed", "archived"} :
             Begin(p, "goal-update", <<SetGoal(g, status, p \in Threads)>>)
        \/ \E m \in Missions(log) : Begin(p, "goal-update", <<LinkGoal(g, m)>>)
        \/ \E b \in Blockers : Begin(p, "goal-update", <<BlockGoal(g, b)>>)

\* Of a step, a mission or the latest chat session; with apply it creates
\* candidates too.
ReviewLearnings(p) ==
    \E apply \in BOOLEAN :
        \/ \E s \in Steps(log) :
             Begin(p, "learning-review", <<ReviewLearning("step", s, apply)>>)
        \/ \E m \in Missions(log) :
             Begin(p, "learning-review", <<ReviewLearning("mission", m, apply)>>)
        \/ Positions(log, "lucien.chat_session_started") # {}
           /\ Begin(p, "learning-review", <<ReviewLearning("session", 0, apply)>>)

\* Alone, or all those of a mission at once from the inbox.
CloseReviewTasks(p) ==
    \E how \in {"reflection.task_resolved", "reflection.task_dismissed"} :
        \/ \E t \in Tasks(log) : Begin(p, "reflection-task", <<CloseTask(t, how)>>)
        \/ \E m \in Missions(log) :
             Begin(p, "reflection-task", <<[do |-> "close_tasks", mission |-> m, how |-> how]>>)

-----------------------------------------------------------------------------
(* The calls: the autonomy queue.                                          *)

review_autonomy_action(p) ==
    /\ Called(p, "review_item")
    /\ LET i == Call(p).item IN
         Return(p, ItemStatus(log, i) = "proposed",
            <<Appending(ActionReviewed(i, Call(p).status))>>)

(* Mutant: a proposed item is as good as an approved one.                  *)
execute_unless_rejected(p) ==
    /\ Called(p, "execute")
    /\ LET i == Call(p).item IN
         Return(p, i \in Items(log) /\ ItemStatus(log, i) # "rejected",
            <<Item("not_executed", i)>>)

(* execute_autonomy_action: one read for the approval, one for an earlier  *)
(* execution.                                                              *)
execute_autonomy_action(p) ==
    /\ Called(p, "execute")
    /\ LET i == Call(p).item IN
         Return(p, i \in Items(log) /\ ItemStatus(log, i) = "approved",
            <<Item("not_executed", i)>>)

execution_for_item(p) ==
    /\ Called(p, "not_executed")
    /\ LET i == Call(p).item IN Return(p, Executions(log, i) = {}, <<Item("run", i)>>)

\* What is recorded of an execution; a failure asks for a review of its own.
Recorded(i, status) ==
    <<Appending(EvidenceAdded("none")), Appending(ActionExecuted(i, status))>>
    \o (IF status = "failed"
        THEN <<Appending(ReflectionRecorded(Subject("autonomy", i))),
               Appending(TaskOpened(Subject("autonomy", i)))>>
        ELSE <<>>)

(* _execute_allowed_action: a command may fail or time out, a report or a  *)
(* research cycle may raise; a time-out and a raise leave no record.       *)
execute_allowed_action(p) ==
    /\ Called(p, "run")
    /\ LET i == Call(p).item
           action == log[i].action
       IN  IF action = "approval_only"
           THEN Return(p, TRUE, Recorded(i, "failed")) /\ UNCHANGED ran
           ELSE /\ ran' = ran \cup {[item |-> i, at |-> Len(log)]}
                /\ \/ Return(p, TRUE,
                          (IF action = "research" THEN <<Appending(ResearchCycleRan)>> ELSE <<>>)
                          \o Recorded(i, "completed"))
                   \/ action = "command" /\ Return(p, TRUE, Recorded(i, "failed"))
                   \/ Return(p, FALSE, <<>>)

execute_approved_autonomy_actions(p) ==
    /\ Called(p, "execute_approved")
    /\ Return(p, TRUE, <<ExecuteEach(Executed(log))>>)

execute_each(p) ==
    /\ Called(p, "execute_each")
    /\ LET approved == {i \in Items(log) \ Call(p).executed : ItemStatus(log, i) = "approved"}
       IN  Return(p, TRUE, CallEach(Cardinality(approved),
                                    LAMBDA k : Item("execute", InOrder(approved)[k])))

-----------------------------------------------------------------------------
(* The calls: skill memory.                                                *)

\* A learning review goes on when its candidate is refused.
propose_skill_candidate(p) ==
    /\ Called(p, "propose_skill")
    /\ LET s == Call(p).step
           done == Outcome(log, s) = "completed"
       IN  Return(p, done \/ ~Call(p).strict,
              IF done THEN <<Appending(SkillProposed({s}, FALSE))>> ELSE <<>>)

skill_sources(p) ==
    /\ Called(p, "skill_sources")
    /\ Return(p, TRUE, <<ProposeRepeated(SourceSteps(log))>>)

(* Mutant: the candidates that were rejected are proposed again.           *)
propose_repeated_again(p) ==
    /\ Called(p, "propose_repeated")
    /\ LET groups == RepeatedWork(log, {}, MinimumRepetitions) IN
         Return(p, TRUE,
            CallEach(Cardinality(groups),
                     LAMBDA k : Appending(SkillProposed(Ranked(groups, Min)[k], TRUE))))

auto_propose_skill_candidates(p) ==
    /\ Called(p, "propose_repeated")
    /\ LET groups == RepeatedWork(log, Call(p).sources, MinimumRepetitions) IN
         Return(p, TRUE,
            CallEach(Cardinality(groups),
                     LAMBDA k : Appending(SkillProposed(Ranked(groups, Min)[k], TRUE))))

review_skill_candidate(p) ==
    /\ Called(p, "review_skill")
    /\ LET k == Call(p).skill IN
         Return(p, SkillStatus(log, k) = "proposed",
            <<Appending(SkillReviewed(k, Call(p).status))>>)

\* The steps belong to the mission; git may not know the commit.
link_checkpoint_to_mission(p) ==
    /\ Called(p, "link_checkpoint")
    /\ \E known \in BOOLEAN :
         Return(p, known /\ \A s \in Call(p).steps : log[s].mission = Call(p).mission,
            <<Appending(CheckpointLinked(Call(p).mission, Call(p).steps))>>)

Lesson(m) == <<Appending(MissionItemAdded(m, "lesson")), Appending(GrowthProposed)>>

propose_checkpoint_lesson(p) ==
    /\ Called(p, "checkpoint_lesson")
    /\ LET c == Call(p).link IN
         Return(p, TRUE, Lesson(log[c].mission) \o <<Appending(CheckpointLesson(c))>>)

\* Each candidate is appended twice: as a skill, and with its checkpoints.
auto_propose_checkpoint_skill_candidates(p) ==
    /\ Called(p, "checkpoint_skills")
    /\ LET groups == RepeatedCheckpoints(log, MinimumRepetitions)
           steps(k) == Ranked(groups, Min)[k]
       IN  Return(p, TRUE,
              CallBoth(Cardinality(groups),
                       LAMBDA k : Appending(SkillProposed(steps(k), TRUE)),
                       LAMBDA k : Appending(CheckpointSkill(CheckpointsOf(log, steps(k)), steps(k)))))

-----------------------------------------------------------------------------
(* The calls: the evidence locker and the inbox.                           *)

\* All that is cited exists; then each is linked to the claim.
add_evidence_claim(p) ==
    /\ Called(p, "claim")
    /\ LET cited == Call(p).cited IN
         Return(p, cited \subseteq Evidence(log),
            <<Creating(EvidenceClaimed(cited), LinkCited(cited))>>)

link_cited(p) ==
    /\ Called(p, "link_cited")
    /\ LET cited == Call(p).cited IN
         Return(p, TRUE, CallEach(Cardinality(cited),
                                  LAMBDA k : Link(InOrder(cited)[k], Call(p).own)))

\* own: the evidence was added by the same handler.
link_evidence(p) ==
    /\ Called(p, "link")
    /\ LET e == IF Call(p).own # 0 THEN Call(p).own ELSE Call(p).evidence IN
         Return(p, e \in Evidence(log), <<Appending(EvidenceLinked(e, Call(p).target))>>)

(* Mutant: the record changes before its review is written.                *)
review_evidence_late(p) ==
    /\ Called(p, "review_evidence")
    /\ LET e == Call(p).evidence
           status == Call(p).status
       IN  Return(p, e \in Evidence(log),
              <<Appending(EvidenceUpdated(e, status)), Appending(EvidenceReviewed(e, status))>>)

\* Whatever the record's status; the review, then the record.
review_evidence(p) ==
    /\ Called(p, "review_evidence")
    /\ LET e == Call(p).evidence
           status == Call(p).status
       IN  Return(p, e \in Evidence(log),
              <<Appending(EvidenceReviewed(e, status)), Appending(EvidenceUpdated(e, status))>>)

inbox_evidence(p) ==
    /\ Called(p, "inbox_evidence")
    /\ LET e == Call(p).evidence IN
         Return(p, e \in EvidenceInInbox(log), <<ReviewEvidence(e, Call(p).status)>>)

inbox_packet(p) ==
    /\ Called(p, "inbox_packet")
    /\ LET packet == Call(p).packet IN
         Return(p, packet \in Packets(log), <<ReviewPacket(packet, Call(p).status)>>)

(* The raw sources of the packet, one after another; a source reviewed     *)
(* meanwhile is reviewed again.                                            *)
review_packet(p) ==
    /\ Called(p, "review_packet")
    /\ LET raw == Packet(log, Call(p).packet) IN
         Return(p, TRUE, CallEach(Cardinality(raw),
                                  LAMBDA k : ReviewEvidence(InOrder(raw)[k], Call(p).status)))

-----------------------------------------------------------------------------
(* The calls: goals.  The whole record is read, and written back.          *)

\* GoalStatus(str(status)) refuses a member of GoalStatus: its str is not
\* its value.
update_goal_status(p) ==
    /\ Called(p, "goal_status")
    /\ LET g == Call(p).goal
           goal == Goal(log, g)
       IN  Return(p, Call(p).text,
              <<Appending(GoalWritten("goal.status_updated", g, Call(p).status,
                                      goal.missions, goal.blockers))>>)

link_goal_mission(p) ==
    /\ Called(p, "goal_mission")
    /\ LET g == Call(p).goal
           goal == Goal(log, g)
       IN  Return(p, TRUE,
              <<Appending(GoalWritten("goal.mission_linked", g, goal.status,
                                      goal.missions \cup {Call(p).mission}, goal.blockers))>>)

add_goal_blocker(p) ==
    /\ Called(p, "goal_blocker")
    /\ LET g == Call(p).goal
           goal == Goal(log, g)
       IN  Return(p, TRUE,
              <<Appending(GoalWritten("goal.blocker_added", g, goal.status,
                                      goal.missions, goal.blockers \cup {Call(p).blocker}))>>)

-----------------------------------------------------------------------------
(* The calls: learning reviews and review tasks.                           *)

\* The candidates of a plan, as the calls that create them.
Reflection(subject) == <<Appending(ReflectionRecorded(subject)), OpenTask(subject)>>
MissingEvidence(m) ==
    <<Appending(MissionItemAdded(m, "evidence"))>> \o Reflection(Subject("evidence", m))

StepPlan(s) ==
    CASE Outcome(log, s) = "completed" -> <<Learn(s, FALSE)>>
      [] Outcome(log, s) \in {"failed", "blocked"} ->
            Reflection(LearningSubject(s)) \o Lesson(log[s].mission)
      [] OTHER -> <<>>

MissionPlan(m) ==
    LET completed == StepsThat(log, m, "completed")
        failed == StepsThat(log, m, "failed") \cup StepsThat(log, m, "blocked")
        supported == \E i \in Positions(log, "mission.item_added") :
                        log[i].mission = m /\ log[i].kind = "evidence"
    IN  CallEach(Cardinality(completed), LAMBDA k : Learn(InOrder(completed)[k], FALSE))
        \o CallBoth(Cardinality(failed),
                    LAMBDA k : Appending(ReflectionRecorded(LearningSubject(InOrder(failed)[k]))),
                    LAMBDA k : OpenTask(LearningSubject(InOrder(failed)[k])))
        \o (IF supported THEN <<>> ELSE MissingEvidence(m))
        \o (IF completed = {} /\ failed = {} THEN <<>> ELSE Lesson(m))

Plan(scope, target) ==
    CASE scope = "step"    -> StepPlan(target)
      [] scope = "mission" -> MissionPlan(target)
      [] scope = "session" -> <<Appending(GrowthProposed)>>

run_learning_review(p) ==
    /\ Called(p, "learning_review")
    /\ LET plan == IF Call(p).apply THEN Plan(Call(p).scope, Call(p).target) ELSE <<>> IN
         Return(p, TRUE, <<Creating(LearningStarted, ApplyPlan(plan))>>)

apply_learning_plan(p) ==
    /\ Called(p, "apply_plan")
    /\ Return(p, TRUE, Call(p).plan \o <<Appending(LearningCompleted(Call(p).own))>>)

(* Mutant: a task that was closed still counts as existing.                *)
open_tasks_once(p) ==
    /\ Called(p, "open_task")
    /\ LET task == TaskOpened(Call(p).subject) IN
         Return(p, TRUE,
            IF \E t \in Tasks(log) : log[t] = task THEN <<>> ELSE <<Appending(task)>>)

open_tasks_from_reflection(p) ==
    /\ Called(p, "open_task")
    /\ LET task == TaskOpened(Call(p).subject) IN
         Return(p, TRUE,
            IF \E t \in OpenTasks(log) : log[t] = task THEN <<>> ELSE <<Appending(task)>>)

update_reflection_task(p) ==
    /\ Called(p, "close_task")
    /\ LET t == Call(p).task IN
         Return(p, t \in OpenTasks(log), <<Appending(TaskClosed(Call(p).how, t))>>)

\* The tasks whose reason names the mission.
close_mission_tasks(p) ==
    /\ Called(p, "close_tasks")
    /\ LET naming == {t \in OpenTasks(log) : log[t].subject = Subject("evidence", Call(p).mission)}
       IN  Return(p, TRUE, CallEach(Cardinality(naming),
                                    LAMBDA k : CloseTask(InOrder(naming)[k], Call(p).how)))

-----------------------------------------------------------------------------

Init == HandlersInit /\ ran = {}

Command(p) ==
    /\ MayBegin(p)
    /\ \/ SettleStep(p)
       \/ ProposeAction(p) \/ ReviewAction(p) \/ ExecuteAction(p) \/ ExecuteApprovedActions(p)
       \/ ProposeSkill(p) \/ AutoProposeSkills(p) \/ ReviewSkillCandidate(p)
       \/ LinkCheckpoint(p) \/ ProposeCheckpointLesson(p) \/ ProposeCheckpointSkills(p)
       \/ AddEvidence(p) \/ ClaimEvidence(p) \/ LinkEvidence(p) \/ ReviewSomeEvidence(p)
       \/ CreateGoal(p) \/ UpdateGoal(p) \/ ReviewLearnings(p) \/ CloseReviewTasks(p)

Step(p) ==
    \/ AppendEvent(p) \/ CreateRecord(p)
    \/ review_autonomy_action(p) \/ execute_autonomy_action(p) \/ execution_for_item(p)
    \/ execute_approved_autonomy_actions(p) \/ execute_each(p)
    \/ propose_skill_candidate(p) \/ skill_sources(p) \/ auto_propose_skill_candidates(p)
    \/ review_skill_candidate(p) \/ link_checkpoint_to_mission(p)
    \/ propose_checkpoint_lesson(p) \/ auto_propose_checkpoint_skill_candidates(p)
    \/ add_evidence_claim(p) \/ link_cited(p) \/ link_evidence(p) \/ review_evidence(p)
    \/ inbox_evidence(p) \/ inbox_packet(p) \/ review_packet(p)
    \/ update_goal_status(p) \/ link_goal_mission(p) \/ add_goal_blocker(p)
    \/ run_learning_review(p) \/ apply_learning_plan(p) \/ open_tasks_from_reflection(p)
    \/ update_reflection_task(p) \/ close_mission_tasks(p)

Next ==
    \/ \E p \in Procs : (Command(p) \/ Step(p) \/ Crash(p)) /\ UNCHANGED ran
    \/ \E p \in Procs : execute_allowed_action(p)

Spec == Init /\ [][Next]_vars
-----------------------------------------------------------------------------
(* Properties.                                                             *)

(* Whichever handlers overlap and whoever dies, an action runs only after  *)
(* a steward approved it, and an execution is recorded only of an approved *)
(* action that was run, or, as failed, of an approval-only one             *)
(* (autonomy_queue.py:266-296, KNOWN_LIMITS.md).                           *)
ApprovedBefore(i, n) == \E j \in 1..n : log[j] = ActionReviewed(i, "approved")
ExecutedOnApproval ==
    /\ \A r \in ran : ApprovedBefore(r.item, r.at)
    /\ \A n \in Positions(log, "autonomy.action_executed") :
          LET i == log[n].item IN
          /\ ApprovedBefore(i, n)
          /\ IF log[i].action = "approval_only" THEN log[n].status = "failed"
             ELSE \E r \in ran : r.item = i /\ r.at < n

(* While handlers do not overlap, nothing is done twice: an item is        *)
(* decided once, executed once and not run again after its execution was   *)
(* recorded; a candidate is decided once, and the steps it was derived     *)
(* from by repetition, of work or of checkpoints, seed no earlier one      *)
(* (autonomy_queue.py:248, 269, skill_memory.py:152-162, 199,              *)
(* checkpoint_links.py:259-273).                                           *)
NoRework ==
    ~overlap =>
        /\ \A i \in Items(log) :
              /\ Cardinality(ItemReviews(log, i)) <= 1
              /\ Cardinality(Executions(log, i)) <= 1
              /\ \A r \in ran, n \in Executions(log, i) : r.item = i => r.at < n
        /\ \A k \in Skills(log) :
              /\ Cardinality(SkillReviews(log, k)) <= 1
              /\ log[k].auto => log[k].steps \cap SourceSteps(Before(k)) = {}

(* A record of evidence never changes without a review that says so, even  *)
(* if handlers overlap or die between the two appends; between commands it *)
(* shows the last review, unless handlers overlapped or were killed        *)
(* (evidence_locker.py:388-404).                                           *)
EvidenceReviewsAgree ==
    /\ \A n \in Positions(log, "evidence.updated") :
          LET same(i, type) == /\ log[i].type = type
                               /\ log[i].evidence = log[n].evidence
                               /\ log[i].status = log[n].status
          IN  Cardinality({i \in 1..n : same(i, "evidence.updated")})
              <= Cardinality({i \in 1..n : same(i, "evidence.reviewed")})
    /\ Quiescent /\ ~overlap /\ ~killed =>
          \A e \in Evidence(log) : EvidenceReviews(log, e) # {} =>
              EvidenceStatus(log, e) = log[Max(EvidenceReviews(log, e))].status

(* Between commands, failed work has a review task: a failed execution its *)
(* own, and a reflection of a learning review one that was open then or    *)
(* was opened since, even if handlers overlapped (autonomy_queue.py:299-   *)
(* 318, learning_review.py:344-355).                                       *)
FailedWorkIsQueued ==
    Quiescent /\ ~killed =>
        /\ \A n \in Positions(log, "autonomy.action_executed") : log[n].status = "failed" =>
              \E t \in Tasks(log) : t > n /\ log[t] = TaskOpened(Subject("autonomy", log[n].item))
        /\ \A n \in Positions(log, "lucien.reflection_recorded") :
              \E t \in Tasks(log) :
                  log[t] = TaskOpened(log[n].subject) /\ \A j \in Closings(log, t) : j > n

=============================================================================
