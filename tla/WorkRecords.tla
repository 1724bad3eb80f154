---------------------------- MODULE WorkRecords ----------------------------
(***************************************************************************)
(* What the ledger says about governed work: the folds of                  *)
(* pca/autonomy_queue.py, skill_memory.py, checkpoint_links.py,            *)
(* evidence_locker.py, goals.py and steward_inbox.py, and the plans of     *)
(* learning_review.py.  Nothing here changes state.                        *)
(*                                                                         *)
(* A ledger is a sequence of event records; the id of a record (a uuid in  *)
(* the code) is the position of the event that created it.  Of a mission   *)
(* step only what these modules read is here: its tool, which stands for   *)
(* its tool and its risk, and how it ended.                                *)
(***************************************************************************)
EXTENDS Integers, Sequences, FiniteSetsExt

(* What an AutonomyActionType does when it is executed: run a command,     *)
(* render a report, run a research cycle, which writes to the ledger, or   *)
(* nothing, because the type is approval-only (open_mission, propose_step, *)
(* link_checkpoint).                                                       *)
AutonomyAction == {"command", "report", "research", "approval_only"}
AutonomyReview == {"approved", "rejected"}
AutonomyExecutionStatus == {"completed", "failed"}
SkillReview == {"accepted", "rejected"}
EvidenceReviewStatus == {"raw", "reviewed", "disputed", "stale", "rejected"}
GoalStatus == {"active", "paused", "completed", "archived"}

-----------------------------------------------------------------------------
(* Events.                                                                 *)

MissionOpened           == [type |-> "mission.opened"]
StepProposed(m, tool)   == [type |-> "mission.step_proposed", mission |-> m, tool |-> tool]
StepSettled(s, outcome) == [type |-> "mission.step_settled", step |-> s, outcome |-> outcome]
SessionStarted          == [type |-> "lucien.chat_session_started"]

ActionProposed(action) == [type |-> "autonomy.action_proposed", action |-> action,
                           status |-> "proposed"]
ActionReviewed(i, status) ==
    [type |-> "autonomy.action_reviewed", item |-> i, status |-> status]
ActionExecuted(i, status) ==
    [type |-> "autonomy.action_executed", item |-> i, status |-> status]
ResearchCycleRan == [type |-> "coherence_research.cycle_ran"]

SkillProposed(steps, auto) ==
    [type |-> "skill.candidate_proposed", steps |-> steps, auto |-> auto, status |-> "proposed"]
SkillReviewed(k, status) ==
    [type |-> "skill.candidate_reviewed", skill |-> k, status |-> status]

\* A commit linked to a mission and to steps of it, and what is derived from
\* such links.
CheckpointLinked(m, steps) ==
    [type |-> "checkpoint.linked_to_mission", mission |-> m, steps |-> steps]
CheckpointLesson(c) == [type |-> "checkpoint.lesson_candidate_proposed", link |-> c]
CheckpointSkill(links, steps) ==
    [type |-> "checkpoint.skill_candidate_proposed", links |-> links, steps |-> steps]

\* packet: the research run whose sources are reviewed together, if any.
EvidenceAdded(packet) == [type |-> "evidence.added", packet |-> packet, status |-> "raw"]
EvidenceReviewed(e, status) ==
    [type |-> "evidence.reviewed", evidence |-> e, status |-> status]
EvidenceUpdated(e, status) ==
    [type |-> "evidence.updated", evidence |-> e, status |-> status]
EvidenceClaimed(cited)      == [type |-> "evidence.claim_recorded", cited |-> cited]
EvidenceLinked(e, target)   == [type |-> "evidence.linked", evidence |-> e, target |-> target]

\* A goal is written whole every time: goal is 0 in the event that creates it.
GoalWritten(type, g, status, missions, blockers) ==
    [type |-> type, goal |-> g, status |-> status, missions |-> missions, blockers |-> blockers]
GoalCreated == GoalWritten("goal.created", 0, "active", {}, {})

MissionItemAdded(m, kind) == [type |-> "mission.item_added", mission |-> m, kind |-> kind]
GrowthProposed            == [type |-> "lucien.growth_proposed"]
LearningStarted           == [type |-> "learning_review.started"]
LearningCompleted(r)      == [type |-> "learning_review.completed", review |-> r]

\* A reflection and its task have a subject, which the task's reason names: a
\* failed autonomy item, a mission without evidence, or a failed step that a
\* learning review found.
Subject(about, of) == [about |-> about, of |-> of]
LearningSubject(s) == Subject("learning", s)
ReflectionRecorded(subject) == [type |-> "lucien.reflection_recorded", subject |-> subject]
TaskOpened(subject)         == [type |-> "reflection.task_opened", subject |-> subject]
TaskClosed(type, t)         == [type |-> type, task |-> t]

Positions(evs, type) == {i \in DOMAIN evs : evs[i].type = type}

-----------------------------------------------------------------------------
(* Steps, autonomy items and skill candidates: the last event about a      *)
(* thing holds its state.                                                  *)

Missions(evs) == Positions(evs, "mission.opened")
Steps(evs)    == Positions(evs, "mission.step_proposed")
Settlements(evs, s) == {i \in Positions(evs, "mission.step_settled") : evs[i].step = s}
Outcome(evs, s) ==
    IF Settlements(evs, s) = {} THEN "open" ELSE evs[Max(Settlements(evs, s))].outcome
StepsThat(evs, m, outcome) ==
    {s \in Steps(evs) : evs[s].mission = m /\ Outcome(evs, s) = outcome}

Items(evs) == Positions(evs, "autonomy.action_proposed")
ItemReviews(evs, i) == {j \in Positions(evs, "autonomy.action_reviewed") : evs[j].item = i}
ItemStatus(evs, i) == evs[Max({i} \cup ItemReviews(evs, i))].status
Executions(evs, i) == {j \in Positions(evs, "autonomy.action_executed") : evs[j].item = i}
Executed(evs) == {i \in Items(evs) : Executions(evs, i) # {}}

Skills(evs) == Positions(evs, "skill.candidate_proposed")
SkillReviews(evs, k) == {j \in Positions(evs, "skill.candidate_reviewed") : evs[j].skill = k}
SkillStatus(evs, k) == evs[Max({k} \cup SkillReviews(evs, k))].status
SourceSteps(evs) == UNION {evs[k].steps : k \in Skills(evs)}

\* auto_propose_skill_candidates: per tool, the completed steps that are no
\* source of a candidate yet, where they repeat often enough.
RepeatedWork(evs, sources, minimum) ==
    LET fresh == {s \in Steps(evs) : Outcome(evs, s) = "completed" /\ s \notin sources}
        with(s) == {r \in fresh : evs[r].tool = evs[s].tool}
    IN  {with(s) : s \in {s \in fresh : Cardinality(with(s)) >= minimum}}

\* auto_propose_checkpoint_skill_candidates: the same for completed steps that
\* checkpoints are linked to, where checkpoints repeat often enough too.
Checkpoints(evs) == Positions(evs, "checkpoint.linked_to_mission")
CheckpointsOf(evs, steps) == {c \in Checkpoints(evs) : evs[c].steps \cap steps # {}}
RepeatedCheckpoints(evs, minimum) ==
    LET unlinked == {s \in Steps(evs) : CheckpointsOf(evs, {s}) = {}} IN
    {steps \in RepeatedWork(evs, SourceSteps(evs) \cup unlinked, minimum) :
        Cardinality(CheckpointsOf(evs, steps)) >= minimum}

-----------------------------------------------------------------------------
(* Evidence, goals and review tasks.                                       *)

Evidence(evs) == Positions(evs, "evidence.added")
EvidenceUpdates(evs, e) == {i \in Positions(evs, "evidence.updated") : evs[i].evidence = e}
EvidenceReviews(evs, e) == {i \in Positions(evs, "evidence.reviewed") : evs[i].evidence = e}
EvidenceStatus(evs, e) == evs[Max({e} \cup EvidenceUpdates(evs, e))].status

(* Raw sources of one research run are reviewed as a packet, if there are  *)
(* at least two.                                                           *)
Packet(evs, packet) ==
    {e \in Evidence(evs) :
        packet # "none" /\ evs[e].packet = packet /\ EvidenceStatus(evs, e) = "raw"}
Packets(evs) == {k \in {evs[e].packet : e \in Evidence(evs)} : Cardinality(Packet(evs, k)) >= 2}
EvidenceInInbox(evs) ==
    {e \in Evidence(evs) :
        /\ EvidenceStatus(evs, e) \in {"raw", "disputed", "stale"}
        /\ \A packet \in Packets(evs) : e \notin Packet(evs, packet)}

GoalUpdate == {"goal.status_updated", "goal.mission_linked", "goal.blocker_added"}
Goals(evs) == Positions(evs, "goal.created")
GoalUpdates(evs, g) == {i \in DOMAIN evs : evs[i].type \in GoalUpdate /\ evs[i].goal = g}
Goal(evs, g) == evs[Max({g} \cup GoalUpdates(evs, g))]

Tasks(evs) == Positions(evs, "reflection.task_opened")
Closings(evs, t) ==
    {i \in Positions(evs, "reflection.task_resolved")
           \cup Positions(evs, "reflection.task_dismissed") : evs[i].task = t}
OpenTasks(evs) == {t \in Tasks(evs) : Closings(evs, t) = {}}
=============================================================================
