----------------------------- MODULE MCResearch -----------------------------
(***************************************************************************)
(* Instances of Research for TLC: a track and a source file, from an empty *)
(* ledger, from one with a seeded track and a mission, and from one whose  *)
(* mission awaits a steward.                                               *)
(***************************************************************************)
EXTENDS Research, TLC

MCTracks == {"Map Coherence Physics Claims"}

MCSeeded ==
    LET track == CHOOSE t \in MCTracks : TRUE IN
    <<GoalCreated(track), ResearchMissionOpened(track), GoalLinked(1, 2)>> \o SeedItems(2)
    \o <<ResearchMissionOpened(Program), MissionItemAdded(8, "hypothesis", FALSE)>>

\* The mission has its starter items; a steward has yet to review them, and
\* a note and a paper that were added.
MCAwaiting ==
    MCSeeded
    \o <<MissionItemAdded(8, "evidence", TRUE), TaskOpened(8, "evidence"),
         MissionItemAdded(8, "risk", FALSE), TaskOpened(8, "risk"),
         SourceAdded(FileSource("paper", 1)), SourceLinked(14, 8),
         CorpusIndexed(8, <<FileSource("paper", 1)>>), NoteExtracted(8, "paper", 1, 0),
         HubIndexed(<<FileSource("paper", 1)>>), LiteratureAdded(8)>>

MCRuns == {[force |-> FALSE, extras |-> TRUE, hub |-> FALSE, cycle |-> FALSE]}

MCStartLogs == {<<>>, MCAwaiting}

Symmetry == Permutations(Procs)

\* Runs after a command that was killed or ended, and after reviews too.
MCLimit ==
    [c \in CommandName |->
        CASE c \in {"autopilot", "reflection-task"} -> 3
          [] c \in {"pipeline", "evidence-review"} -> 2
          [] OTHER -> 1]

\* Only the stages of the notes, twice each.
MCStagesLimit ==
    [c \in CommandName |-> IF c \in {"corpus-index", "source-notes"} THEN 3 ELSE 0]
=============================================================================
