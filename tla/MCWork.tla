------------------------------- MODULE MCWork -------------------------------
(***************************************************************************)
(* Instances of Work for TLC: a command line and the live server, over a   *)
(* ledger with autonomy items, one with a mission's steps, and one with    *)
(* evidence and a goal.                                                    *)
(***************************************************************************)
EXTENDS Work

MCStartLogs ==
    {<<ActionProposed("command"), ActionReviewed(1, "approved"), ActionProposed("approval_only")>>,
     <<MissionOpened, StepProposed(1, "read_file"), StepProposed(1, "read_file"),
       StepSettled(2, "completed")>>,
     <<MissionOpened, StepProposed(1, "git_status"), StepProposed(1, "git_status"),
       StepSettled(2, "failed"), StepSettled(3, "failed")>>,
     <<MissionOpened, EvidenceAdded("run"), EvidenceAdded("run"), GoalCreated, MissionOpened>>,
     <<MissionOpened, StepProposed(1, "read_file"), StepProposed(1, "read_file"),
       StepSettled(2, "completed"), StepSettled(3, "completed"), CheckpointLinked(1, {2})>>,
     <<SessionStarted>>}

\* Reviews and executions come in any order; the rest comes early.
MCLimit ==
    [c \in CommandName |->
        CASE c \in {"autonomy-review", "autonomy-execute"} -> 4
          [] c \in {"autonomy-execute-approved", "mission-step", "skill-auto-propose",
                    "checkpoint-skills",
                    "learning-review", "reflection-task", "evidence-review", "goal-update"} -> 3
          [] c \in {"skill-candidate", "skill-review", "checkpoint-lesson"} -> 2
          [] OTHER -> 1]
=============================================================================
