----------------------------- MODULE MCMissions -----------------------------
(***************************************************************************)
(* Instances of Missions for TLC: one mission and a first step.             *)
(***************************************************************************)
EXTENDS Missions, TLC

MCTools == {"read_file", "git_status", "run_check_all"}

MCStartLogs ==
    {<<MissionOpened, StepProposed(1, "medium", "git_status")>>,
     <<MissionOpened, StepProposed(1, "low", "run_check_all")>>}

\* What approves, runs, stops and reviews a step comes in any order; the
\* rest comes early.
MCLimit ==
    [c \in CommandName |->
        CASE c \in {"mission-step-approve", "mission-step-block", "tool-run"} -> 3
          [] c = "reflection-task" -> 3
          [] c \in {"mission-step-fail", "mission-step-start", "mission-next-step"} -> 2
          [] OTHER -> 1]

\* The processes are alike, and no property is a liveness property.
Symmetry == Permutations(Procs)
=============================================================================
