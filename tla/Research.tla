------------------------------ MODULE Research ------------------------------
(***************************************************************************)
(* The research runs: the handlers of pca/coherence_seed.py,               *)
(* coherence_corpus.py, source_notes.py, argument_graph.py,                *)
(* research_sandbox.py, mission_onboarding.py, auto_daily_loop.py,         *)
(* research_autopilot.py, coherence_paper_pipeline.py and                  *)
(* coherence_research_cycle.py, run by command-line processes and by the   *)
(* threads of the live chat server, while stewards review and files change. *)
(***************************************************************************)
EXTENDS ResearchRecords, Handlers

CONSTANTS
    Tracks,      \* the research tracks that are seeded (COHERENCE_PHYSICS_SEED_SPECS)
    Paths,       \* the source files
    Required,    \* the required constraints
    Runs,        \* the ways a run is started
    MaxContent,  \* bound: the contents a file can have
    MaxMishaps,  \* bound: edits of files, a kill and an overlap, together
    Overlapping, \* bound: the commands that start while another is under way
    MaxSwitches, \* bound: switches between two handlers that are both under way
    MaxDay       \* bound: days

CommandName ==
    {"pipeline", "readiness", "autopilot", "mission-autopilot", "daily-loop", "seed",
     "corpus-index", "hub-index", "source-notes", "argument-graph", "research-output",
     "theory-draft", "onboard", "startup-fix", "mission-item", "mission-status",
     "reflection-task", "evidence-review", "note-review", "literature"}

\* force; what the run also writes; from the knowledge hub; as a cycle.
Run == [force : BOOLEAN, extras : BOOLEAN, hub : BOOLEAN, cycle : BOOLEAN]

ASSUME ResearchAssumption ==
    /\ Runs \subseteq Run
    /\ {MaxContent, MaxMishaps, MaxSwitches, MaxDay} \subseteq Nat
    /\ Overlapping \subseteq CommandName
    /\ Limit \in [CommandName -> Nat]

VARIABLES
    files,   \* the content of the source files, and of the verdict file of the lab
    edits,   \* number of edits
    day,     \* the date
    aged     \* the checks up to this position of the ledger are stale

VARIABLES
    current,  \* the handler that made the last step
    switches  \* number of switches while it was still under way

world == <<files, edits, day, aged>>
schedule == <<current, switches>>
vars == <<handlers, world, schedule>>

TracksInOrder == SetToSeq(Tracks)
PathsInOrder == SetToSeq(Paths)

\* The calls of a handler.  own is the record that a creating call made.
SeedGoal(track) == [do |-> "seed_goal", track |-> track]
Index(m, hub)   == [do |-> "index_corpus", mission |-> m, hub |-> hub]
Extract(m)      == [do |-> "extract_notes", mission |-> m]
SeedGraph(m)    == [do |-> "seed_graph", mission |-> m]
Output(m, kind) == [do |-> "create_output", mission |-> m, kind |-> kind]
Onboard(m)      == [do |-> "onboard", mission |-> m]
OpenTask(m, kind) == [do |-> "open_task", mission |-> m, kind |-> kind]
LinkSource(m)   == [do |-> "link_source", mission |-> m, own |-> 0]
DailyLoop(force)        == [do |-> "daily_loop", force |-> force]
DailyActions            == [do |-> "daily_actions"]
Propose(action, target) == [do |-> "propose_daily", action |-> action, target |-> target]
Autopilot(m, force)     == [do |-> "autopilot", mission |-> m, force |-> force]
UpdateClaim             == [do |-> "update_claim"]
NextStep(m)             == [do |-> "next_step", mission |-> m]
Pipeline(m, run)        == [do |-> "pipeline", mission |-> m, run |-> run]
Readiness(m, sample)    == [do |-> "readiness", mission |-> m, sample |-> sample]

\* The code seeds the tracks one after another.
Seed == [k \in DOMAIN TracksInOrder |-> SeedGoal(TracksInOrder[k])]

One(happened) == IF happened THEN 1 ELSE 0
MishapLeft == edits + One(killed) + One(overlap) < MaxMishaps

-----------------------------------------------------------------------------
(* Starting a command.                                                     *)

Start(p, command, calls) ==
    /\ IF Quiescent THEN started < Limit[command]
       ELSE command \in Overlapping /\ (overlap \/ MishapLeft)
    /\ BeginCalls(p, calls)

\* All the readable files, each as it is now: a file is read again when its
\* size or its time changed.
discover_knowledge_hub_sources ==
    [k \in DOMAIN PathsInOrder |-> FileSource(PathsInOrder[k], files[PathsInOrder[k]])]

\* Handlers that check their arguments and append one event.
index_knowledge_hub           == <<Appending(HubIndexed(discover_knowledge_hub_sources))>>
review_source_note(n)         == <<Appending(NoteReviewed(n))>>
add_external_literature(m)    == <<Appending(LiteratureAdded(m))>>
review_external_literature(l) == <<Appending(LiteratureReviewed(l))>>

\* A run may be asked for a mission by its id, which need not exist; 0 is no
\* id, and the run selects its mission itself.  The autopilot of the command
\* line always does.
Unknown == -1
Asked == {0, Unknown} \cup Missions(log)
require_mission(m) == m \in Missions(log)

\* Runs, and their stages one by one.
StartRun(p) ==
    \/ Start(p, "hub-index", index_knowledge_hub)
    \/ \E run \in Runs : \/ Start(p, "daily-loop", <<DailyLoop(run.force)>>)
                        \/ Start(p, "autopilot", <<Autopilot(0, run.force)>>)
    \/ \E m \in Asked :
         \/ \E hub \in BOOLEAN : Start(p, "corpus-index", <<Index(m, hub)>>)
         \/ Start(p, "source-notes", <<Extract(m)>>)
         \/ \E run \in Runs : \/ Start(p, "pipeline", <<Pipeline(m, run)>>)
                             \/ Start(p, "mission-autopilot", <<Autopilot(m, run.force)>>)
         \/ \E sample \in BOOLEAN : Start(p, "readiness", <<Readiness(m, sample)>>)

StartForMission(p) ==
    \E m \in Missions(log) :
        \/ Start(p, "argument-graph", <<SeedGraph(m)>>)
        \/ \E kind \in {"research_brief", "paper_draft"} :
             Start(p, "research-output", <<Output(m, kind)>>)
        \/ Start(p, "theory-draft", <<Appending(TheoryDraft(m))>>)
        \/ Start(p, "onboard", <<Onboard(m)>>)

\* What stewards do about it, on the command line or in the live workbench.
Review(p) ==
    \/ \E t \in OpenTasks(log) :
         Start(p, "reflection-task", <<Appending(TaskClosed("reflection.task_resolved", t))>>)
    \/ \E e \in SourceEvidence(log), status \in {"reviewed", "disputed"} :
         Start(p, "evidence-review",
             <<Appending(EvidenceReviewed(e, status)), Appending(EvidenceUpdated(e, status))>>)
    \/ \E n \in Positions(log, "source_note.extracted") :
         Start(p, "note-review", review_source_note(n))
    \/ \E l \in Positions(log, "external_literature.added") :
         Start(p, "literature", review_external_literature(l))
    \/ \E m \in Missions(log) :
         \/ Start(p, "literature", add_external_literature(m))
         \/ Start(p, "mission-item", <<Appending(MissionItemAdded(m, "plan_step", FALSE))>>)
         \/ \E status \in {"completed", "paused"} :
              Start(p, "mission-status", <<Appending(MissionStatusUpdated(m, status))>>)

Checks == [k \in 1..Cardinality(Required) |-> Appending(Checked(SetToSeq(Required)[k]))]

\* What a start of the system offers.
StartUp(p) ==
    \/ Start(p, "seed", Seed)
    \/ Start(p, "startup-fix", Checks \o <<UpdateClaim>>)
    \/ OpenMissions(log) = {}
       /\ Start(p, "startup-fix", <<Appending(ResearchMissionOpened(Program))>>)

-----------------------------------------------------------------------------
(* The calls: seeding.                                                     *)

\* Goals and missions are found by their title, whatever their status.
seed_goal(p) ==
    /\ Called(p, "seed_goal")
    /\ LET track == Call(p).track
           goals == {g \in Goals(log) : log[g].track = track}
           then(g, linked) ==
               [do |-> "seed_mission", track |-> track, linked |-> linked, own |-> g]
       IN  Return(p, TRUE,
              IF goals # {} THEN <<then(Min(goals), LinkedMissions(log, Min(goals)))>>
              ELSE <<Creating(GoalCreated(track), then(0, {}))>>)

seed_mission(p) ==
    /\ Called(p, "seed_mission")
    /\ LET c == Call(p)
           missions == Titled(log, c.track)
           then(m, created) ==
               [do |-> "seed_link", goal |-> c.own, linked |-> c.linked, created |-> created,
                own |-> m]
       IN  Return(p, TRUE,
              IF missions # {} THEN <<then(Min(missions), FALSE)>>
              ELSE <<Creating(ResearchMissionOpened(c.track), then(0, TRUE))>>)

seed_link(p) ==
    /\ Called(p, "seed_link")
    /\ LET c == Call(p) IN
         Return(p, TRUE,
            (IF c.own \in c.linked THEN <<>> ELSE <<Appending(GoalLinked(c.goal, c.own))>>)
            \o <<[do |-> "seed_items", mission |-> c.own, created |-> c.created]>>)

SeedItems(m) ==
    <<MissionItemAdded(m, "hypothesis", FALSE), MissionItemAdded(m, "evidence", TRUE),
      MissionItemAdded(m, "risk", FALSE), MissionItemAdded(m, "plan_step", FALSE)>>

\* The items do not open review tasks (bridge_reflection=False).
seed_items(p) ==
    /\ Called(p, "seed_items")
    /\ LET m == Call(p).mission
           needed == Call(p).created \/ ItemsOf(log, m) = {}
       IN  Return(p, TRUE,
              IF needed THEN [k \in 1..4 |-> Appending(SeedItems(m)[k])] ELSE <<>>)

-----------------------------------------------------------------------------
(* The calls: the corpus and its notes.                                    *)

\* The call appends events, and is followed by the calls next.
Write(p, events, next) ==
    /\ log' = log \o events
    /\ todo' = [todo EXCEPT ![p] = next \o Tail(@)]
    /\ UNCHANGED <<started, overlap, killed>>

(* Mutant: the sources known already are not looked up.                    *)
index_corpus_anew(p) ==
    /\ Called(p, "index_corpus")
    /\ LET m == IF Call(p).mission # 0 THEN Call(p).mission ELSE FirstOpenMission(log)
           found == {FileSource(path, files[path]) : path \in Paths}
       IN  Return(p, m = 0 \/ require_mission(m),
              <<[do |-> "index_each", mission |-> m, left |-> SetToSeq(found),
                 known |-> {}, linked |-> {}, indexed |-> <<>>, reused |-> <<>>]>>)

\* What is known and what is linked is read once, at the start.
index_corpus(p) ==
    /\ Called(p, "index_corpus")
    /\ LET m == IF Call(p).mission # 0 THEN Call(p).mission ELSE FirstOpenMission(log)
           found == IF Call(p).hub THEN HubSources(log)
                    ELSE {FileSource(path, files[path]) : path \in Paths}
       IN  Return(p, m = 0 \/ require_mission(m),
              <<[do |-> "index_each", mission |-> m, left |-> SetToSeq(found),
                 known |-> SourceEvidence(log), linked |-> LinkedEvidence(log, m),
                 indexed |-> <<>>, reused |-> <<>>]>>)

\* The next source is reused or added, and linked if there is a mission.
index_each(p) ==
    /\ Called(p, "index_each") /\ Call(p).left # <<>>
    /\ LET c == Call(p)
           source == Head(c.left)
           existing == {e \in c.known : log[e].source = source}
           rest == [c EXCEPT !.left = Tail(@)]
           link(e) == IF c.mission = 0 \/ e \in c.linked THEN <<>>
                      ELSE <<Appending(SourceLinked(e, c.mission))>>
       IN  IF existing # {}
           THEN Return(p, TRUE,
                    link(Max(existing)) \o <<[rest EXCEPT !.reused = Append(@, source)]>>)
           ELSE Write(p, <<SourceAdded(source)>>,
                    link(Len(log) + 1) \o <<[rest EXCEPT !.indexed = Append(@, source)]>>)

record_corpus(p) ==
    /\ Called(p, "index_each") /\ Call(p).left = <<>>
    /\ LET c == Call(p) IN
         Return(p, TRUE, <<Appending(CorpusIndexed(c.mission, c.indexed \o c.reused))>>)

(* The notes of the sources without any, and the run, in one append.  The  *)
(* files are read as they are now.                                         *)
extract_source_notes(p) ==
    /\ Called(p, "extract_notes")
    /\ LET m == IF Call(p).mission # 0 THEN Call(p).mission ELSE LatestCorpusMission(log)
           noted(s) == \E n \in Notes(log, m) :
                           log[n].path = s.from /\ log[n].sha = s.content[1]
           known(note) == \E n \in Notes(log, m) :
                              log[n].path = note.path /\ log[n].summary = note.summary
           notes(s) == <<NoteExtracted(m, s.from, s.content[1], 0),
                         NoteExtracted(m, s.from, s.content[1], files[s.from])>>
           sources == SetToSeq({s \in CorpusSources(log, m) : ~noted(s)})
           all == FlattenSeq([k \in DOMAIN sources |-> notes(sources[k])])
           new == SelectSeq(all, LAMBDA note : ~known(note))
       IN  Return(p, m = 0 \/ require_mission(m),
              <<[do |-> "append_many",
                 events |-> (IF m = 0 THEN <<>> ELSE new) \o <<ExtractionRan(m)>>]>>)

append_many(p) ==
    /\ Called(p, "append_many")
    /\ Write(p, Call(p).events, <<>>)

-----------------------------------------------------------------------------
(* The calls: the argument graph.                                          *)

\* The nodes and the edges are read once, at the start.
seed_graph(p) ==
    /\ Called(p, "seed_graph")
    /\ LET m == Call(p).mission IN
         Return(p, TRUE,
            <<[do |-> "graph_node", mission |-> m, left |-> GraphNames, chosen |-> <<>>,
               nodes |-> Nodes(log, m),
               edges |-> {<<log[e].from, log[e].to>> : e \in Edges(log, m)}]>>)

\* The next statement has a node or gets one; the verdict is what its file
\* says now.
graph_node(p) ==
    /\ Called(p, "graph_node") /\ Call(p).left # <<>>
    /\ LET c == Call(p)
           name == Head(c.left)
           statement == Statement(name, IF name = "verdict" THEN files.verdict ELSE 0)
           existing == {n \in c.nodes : log[n].statement = statement}
           choose(n) == <<[c EXCEPT !.left = Tail(@), !.chosen = Append(@, n)]>>
       IN  IF existing # {} THEN Return(p, TRUE, choose(Max(existing)))
           ELSE Write(p, <<NodeAdded(c.mission, statement)>>, choose(Len(log) + 1))

(* Mutant: the record of the graph precedes its edges.                     *)
graph_edges_late(p) ==
    /\ Called(p, "graph_node") /\ Call(p).left = <<>>
    /\ LET c == Call(p)
           wanted == <<<<c.chosen[2], c.chosen[1]>>, <<c.chosen[3], c.chosen[1]>>>>
           new == SelectSeq(wanted, LAMBDA e : e \notin c.edges)
       IN  Return(p, TRUE,
              <<Appending(GraphSeeded(c.mission))>>
              \o [k \in DOMAIN new |-> Appending(EdgeAdded(c.mission, new[k][1], new[k][2]))])

graph_edges(p) ==
    /\ Called(p, "graph_node") /\ Call(p).left = <<>>
    /\ LET c == Call(p)
           wanted == <<<<c.chosen[2], c.chosen[1]>>, <<c.chosen[3], c.chosen[1]>>>>
           new == SelectSeq(wanted, LAMBDA e : e \notin c.edges)
       IN  Return(p, TRUE,
              [k \in DOMAIN new |-> Appending(EdgeAdded(c.mission, new[k][1], new[k][2]))]
              \o <<Appending(GraphSeeded(c.mission))>>)

-----------------------------------------------------------------------------
(* The calls: outputs and starter packs.                                   *)

\* Content that the mission already has an output with is not stored again.
create_research_output(p) ==
    /\ Called(p, "create_output")
    /\ LET m == Call(p).mission
           kind == Call(p).kind
           content == DraftContent(log, m, kind)
           exists == \E i \in Outputs(log, m) : log[i].kind = kind /\ log[i].content = content
       IN  Return(p, TRUE,
              IF exists THEN <<>>
              ELSE <<Creating(SourceAdded(Source(kind, m, content)),
                         [do |-> "record_output", mission |-> m, kind |-> kind,
                          content |-> content, own |-> 0])>>)

record_output(p) ==
    /\ Called(p, "record_output")
    /\ LET c == Call(p) IN
         Return(p, TRUE,
            <<Appending(SourceLinked(c.own, c.mission)),
              Appending(OutputCreated(c.mission, c.kind, c.content, c.own, day))>>)

\* add_mission_item with its reflection and task.
AddItem(m, kind, weak) ==
    <<Appending(MissionItemAdded(m, kind, weak))>>
    \o (IF Pressing(kind, weak)
        THEN <<Appending(ReflectionRecorded(m, kind)), OpenTask(m, kind)>> ELSE <<>>)

create_mission_onboarding_pack(p) ==
    /\ Called(p, "onboard")
    /\ LET m == Call(p).mission
           lacks(kind) == Items(log, m, kind) = {}
           starter(kind) ==
               AddItem(m, kind, kind = "evidence")
               \o (IF kind = "evidence"
                   THEN <<Creating(SourceAdded(RequestSource(m)), LinkSource(m))>> ELSE <<>>)
           needed == StarterItems(log, m)
       IN  Return(p, TRUE,
              IF OnboardingReady(log, m)
              THEN FlattenSeq([k \in DOMAIN needed |-> starter(needed[k])]) ELSE <<>>)

link_source(p) ==
    /\ Called(p, "link_source")
    /\ Return(p, TRUE, <<Appending(SourceLinked(Call(p).own, Call(p).mission))>>)

open_tasks_from_reflection(p) ==
    /\ Called(p, "open_task")
    /\ LET task == TaskOpened(Call(p).mission, Call(p).kind) IN
         Return(p, TRUE,
            IF \E t \in OpenTasks(log) : log[t] = task THEN <<>> ELSE <<Appending(task)>>)

-----------------------------------------------------------------------------
(* The calls: the daily loop.                                              *)

run_auto_daily_research_loop(p) ==
    /\ Called(p, "daily_loop")
    /\ LET done == \E i \in Positions(log, "daily_research.loop_ran") : log[i].day = day IN
         Return(p, TRUE,
            IF done /\ ~Call(p).force THEN <<>>
            ELSE (IF Goals(log) = {} THEN Seed ELSE <<>>) \o <<DailyActions>>)

\* The focus is the first goal, and the first mission linked to it or, if
\* there is none, the active one.
propose_daily_actions(p) ==
    /\ Called(p, "daily_actions")
    /\ LET goal == IF Goals(log) = {} THEN 0 ELSE Min(Goals(log))
           linked == IF goal = 0 THEN {} ELSE LinkedMissions(log, goal)
           mission == IF linked # {} THEN Min(linked) ELSE ActiveMission(log)
           when(needed, action, target) ==
               IF needed THEN <<Propose(action, target)>> ELSE <<>>
       IN  Return(p, TRUE,
              <<Propose("daily_plan", 0), Propose("project_brief", 0)>>
              \o when(InboxNonEmpty(log), "review_inbox", 0)
              \o when(goal # 0, "next_build", goal)
              \o when(mission # 0, "propose_step", mission)
              \o <<Appending(LoopRan(day))>>)

propose_daily(p) ==
    /\ Called(p, "propose_daily")
    /\ LET action == DailyAction(day, Call(p).action, Call(p).target) IN
         Return(p, TRUE,
            IF \E i \in Positions(log, "autonomy.action_proposed") : log[i] = action
            THEN <<>> ELSE <<Appending(action)>>)

-----------------------------------------------------------------------------
(* The calls: the autopilot.                                               *)

(* Mutant: what awaits a steward is not looked at.                         *)
run_research_autopilot_anyway(p) ==
    /\ Called(p, "autopilot")
    /\ LET c == Call(p)
           stale == Unchecked(log, Required, aged) # {}
       IN  Return(p, TRUE,
              (IF stale THEN Checks \o <<UpdateClaim>> ELSE <<>>)
              \o <<[c EXCEPT !.do = "autopilot_mission"]>>)

\* Nothing runs while high-priority items await a steward.
run_research_autopilot(p) ==
    /\ Called(p, "autopilot")
    /\ LET c == Call(p)
           stale == Unchecked(log, Required, aged) # {}
       IN  Return(p, TRUE,
              IF HighItems(log) # {} THEN <<Appending(AutopilotRan("blocked", 0))>>
              ELSE (IF stale THEN Checks \o <<UpdateClaim>> ELSE <<>>)
                   \o <<[c EXCEPT !.do = "autopilot_mission"]>>)

\* refresh_required_evidence: the checks are recorded, not made.
record_claim_if_changed(p) ==
    /\ Called(p, "update_claim")
    /\ LET claim == IF Unchecked(log, Required, aged) = {} THEN "certified_continuity"
                    ELSE "review_required"
           recorded == Positions(log, "continuity.claim_recorded")
           same == recorded # {} /\ log[Max(recorded)].claim = claim
       IN  Return(p, TRUE, IF same THEN <<>> ELSE <<Appending(ClaimRecorded(claim))>>)

open_coherence_research_mission(p) ==
    /\ Called(p, "autopilot_mission")
    /\ LET c == Call(p)
           then(opened) == [do |-> "autopilot_daily", mission |-> c.mission,
                            force |-> c.force, own |-> opened]
       IN  Return(p, TRUE,
              IF OpenMissions(log) # {} THEN <<then(0)>>
              ELSE <<Creating(ResearchMissionOpened(Program), then(0))>>)

autopilot_daily(p) ==
    /\ Called(p, "autopilot_daily")
    /\ LET c == Call(p)
           preferred == IF c.mission # 0 THEN c.mission ELSE c.own
       IN  Return(p, TRUE,
              <<DailyLoop(c.force),
                [do |-> "autopilot_focus", mission |-> preferred, force |-> c.force]>>)

\* The focus mission, its starter pack and its outputs, and the next step.
autopilot_focus(p) ==
    /\ Called(p, "autopilot_focus")
    /\ LET c == Call(p)
           m == IF c.mission \in Missions(log) THEN c.mission ELSE ActiveMission(log)
           output(kind) == [do |-> "autopilot_output", mission |-> m, kind |-> kind,
                            force |-> c.force]
       IN  Return(p, TRUE,
              IF m = 0 THEN <<Appending(AutopilotRan("blocked", 0))>>
              ELSE <<Onboard(m)>>
                   \o [k \in 1..3 |-> output(AUTOPILOT_OUTPUT_KINDS[k])]
                   \o <<NextStep(m), Appending(AutopilotRan("prepared", m))>>)

\* Once a day, unless forced.
autopilot_output(p) ==
    /\ Called(p, "autopilot_output")
    /\ LET c == Call(p)
           today == \E i \in Outputs(log, c.mission) : log[i].kind = c.kind /\ log[i].day = day
       IN  Return(p, TRUE, IF today /\ ~c.force THEN <<>> ELSE <<Output(c.mission, c.kind)>>)

propose_autonomous_mission_step(p) ==
    /\ Called(p, "next_step")
    /\ LET m == Call(p).mission
           flow == mission_flow(log, m)
           tools == IF flow.blocked \/ ActiveSteps(log, m) # {} \/ HighItems(log) # {} THEN {}
                    ELSE PhaseTool(flow.phase)
           tool == CHOOSE tool \in tools : TRUE
       IN  Return(p, TRUE,
              <<Appending(Recommended(m, tools # {}))>>
              \o (IF tools = {} THEN <<>> ELSE <<Appending(StepProposed(m, "low", tool))>>))

-----------------------------------------------------------------------------
(* The calls: the pipeline, the cycle and its readiness.                   *)

run_coherence_paper_pipeline(p) ==
    /\ Called(p, "pipeline")
    /\ Return(p, TRUE, Seed \o <<[Call(p) EXCEPT !.do = "pipeline_mission"]>>)

Stages(m, run) == [do |-> "pipeline_stages", run |-> run, own |-> m]
Cycle(m, run) == IF run.cycle THEN <<[do |-> "cycle", mission |-> m]>> ELSE <<>>

\* The mission that was asked for, whatever its status; without it the run is
\* recorded as blocked.
select_mission(p) ==
    /\ Called(p, "pipeline_mission") /\ Call(p).mission # 0
    /\ LET c == Call(p) IN
         Return(p, TRUE,
            IF c.mission \in Missions(log) THEN <<Stages(c.mission, c.run)>>
            ELSE <<Appending(PipelineRan("blocked", 0))>> \o Cycle(c.mission, c.run))

ensure_simple_research_mission(p) ==
    /\ Called(p, "pipeline_mission") /\ Call(p).mission = 0
    /\ LET run == Call(p).run
           open == Titled(log, Program) \cap OpenMissions(log)
       IN  Return(p, TRUE,
              IF open # {} THEN <<Stages(Min(open), run)>>
              ELSE <<Creating(ResearchMissionOpened(Program), Stages(0, run))>>)

\* The stages; the PDFs that are written then leave no event.
pipeline_stages(p) ==
    /\ Called(p, "pipeline_stages")
    /\ LET m == Call(p).own
           run == Call(p).run
       IN  Return(p, TRUE,
              <<Index(m, run.hub), Extract(m), SeedGraph(m), Autopilot(m, run.force),
                [do |-> "paper_draft", mission |-> m, force |-> run.force]>>
              \o (IF run.extras
                  THEN <<[do |-> "write_draft", mission |-> m], Appending(TheoryDraft(m))>>
                  ELSE <<>>)
              \o <<Appending(PipelineRan("paper_packet_ready", m))>>
              \o Cycle(m, run))

(* The cycle records itself after its pipeline run, and after it has looked *)
(* the mission up for the review desk, which raises without one.           *)
run_coherence_research_cycle(p) ==
    /\ Called(p, "cycle")
    /\ LET m == Call(p).mission IN
         Return(p, require_mission(m), <<Appending(CycleRan(m))>>)

paper_draft(p) ==
    /\ Called(p, "paper_draft")
    /\ LET m == Call(p).mission IN
         Return(p, TRUE,
            IF Call(p).force \/ PaperDrafts(log, m) = {} THEN <<Output(m, "paper_draft")>>
            ELSE <<>>)

\* The model answers or not; either way the run goes on.
generate_llama_research_draft(p) ==
    /\ Called(p, "write_draft")
    /\ \E status \in {"generated", "failed"} :
         Return(p, TRUE, <<Appending(WriterDraft(Call(p).mission, status))>>)

SampleRun == [force |-> TRUE, extras |-> FALSE, hub |-> TRUE, cycle |-> TRUE]

\* A sample cycle, unless it is skipped, between two counts of the review
\* events.
verify_coherence_research_cycle_readiness(p) ==
    /\ Called(p, "readiness")
    /\ Return(p, TRUE,
           (IF Call(p).sample THEN <<Pipeline(Call(p).mission, SampleRun)>> ELSE <<>>)
           \o <<[do |-> "record_readiness", before |-> ReviewEvents(log)]>>)

record_readiness(p) ==
    /\ Called(p, "record_readiness")
    /\ Return(p, TRUE, <<Appending(ReadinessChecked(Call(p).before = ReviewEvents(log)))>>)

-----------------------------------------------------------------------------
(* The world, once the first command has come: files change at any time; a *)
(* day passes between commands, and what was checked before becomes stale. *)

Edit ==
    /\ started > 0 /\ MishapLeft
    /\ edits' = edits + 1
    /\ \E f \in DOMAIN files, content \in 1..MaxContent :
         content # files[f] /\ files' = [files EXCEPT ![f] = content]
    /\ UNCHANGED <<handlers, day, aged, schedule>>

NextDay ==
    /\ started > 0 /\ Quiescent /\ day < MaxDay
    /\ day' = day + 1
    /\ aged' = Len(log)
    /\ UNCHANGED <<handlers, files, edits, schedule>>

Init ==
    /\ HandlersInit
    /\ files = [f \in Paths \cup {"verdict"} |-> 1]
    /\ edits = 0 /\ day = 1 /\ aged = 0
    /\ current \in Procs /\ switches = 0

Command(p) ==
    /\ MayBegin(p)
    /\ StartRun(p) \/ StartForMission(p) \/ Review(p) \/ StartUp(p)

Step(p) ==
    \/ AppendEvent(p) \/ CreateRecord(p)
    \/ seed_goal(p) \/ seed_mission(p) \/ seed_link(p) \/ seed_items(p)
    \/ index_corpus(p) \/ index_each(p) \/ record_corpus(p)
    \/ extract_source_notes(p) \/ append_many(p)
    \/ seed_graph(p) \/ graph_node(p) \/ graph_edges(p)
    \/ create_research_output(p) \/ record_output(p)
    \/ create_mission_onboarding_pack(p) \/ link_source(p) \/ open_tasks_from_reflection(p)
    \/ run_auto_daily_research_loop(p) \/ propose_daily_actions(p) \/ propose_daily(p)
    \/ run_research_autopilot(p) \/ record_claim_if_changed(p)
    \/ open_coherence_research_mission(p) \/ autopilot_daily(p) \/ autopilot_focus(p)
    \/ autopilot_output(p) \/ propose_autonomous_mission_step(p)
    \/ run_coherence_paper_pipeline(p) \/ select_mission(p)
    \/ ensure_simple_research_mission(p) \/ run_coherence_research_cycle(p)
    \/ pipeline_stages(p) \/ paper_draft(p) \/ generate_llama_research_draft(p)
    \/ verify_coherence_research_cycle_readiness(p) \/ record_readiness(p)

\* A handler goes on, or another takes over.
Scheduled(p) ==
    LET switch == p # current /\ todo[current] # Idle
    IN  /\ switch => switches < MaxSwitches
        /\ switches' = IF switch THEN switches + 1 ELSE switches
        /\ current' = p

Next ==
    \/ \E p \in Procs : Scheduled(p) /\ (Command(p) \/ Step(p)) /\ UNCHANGED world
    \/ \E p \in Procs : MishapLeft /\ Crash(p) /\ UNCHANGED <<world, schedule>>
    \/ Edit \/ NextDay

Spec == Init /\ [][Next]_vars
-----------------------------------------------------------------------------
(* Properties.                                                             *)

(* While handlers do not overlap, what a run makes once it never makes     *)
(* again, even when earlier runs were killed half-way: one goal and one    *)
(* mission per track, one record of a file's content, one link, one node   *)
(* per statement, one edge, one note per summary, one action a day, one    *)
(* output per content (coherence_seed.py:177-239, coherence_corpus.py:     *)
(* 127-166, argument_graph.py:249-250, research_sandbox.py:182-206).       *)
MadeOnce ==
    {"goal.created", "evidence.linked", "argument_node.added", "argument_edge.added",
     "autonomy.action_proposed"}
OncePer(S, key(_)) == Cardinality({key(i) : i \in S}) = Cardinality(S)
RerunsAddNothing ==
    LET all(type) == Positions(log, type)
        seeded == {m \in all("mission.opened") : log[m].title \in Tracks}
        sources == {e \in all("evidence.added") : log[e].source.from \in Paths}
    IN  ~overlap =>
            /\ \A type \in MadeOnce : OncePer(all(type), LAMBDA i : log[i])
            /\ OncePer(seeded, LAMBDA m : log[m].title)
            /\ OncePer(sources, LAMBDA e : log[e].source)
            /\ OncePer(all("source_note.extracted"),
                       LAMBDA n : <<log[n].mission, log[n].path, log[n].summary>>)
            /\ OncePer(all("research.output_created"),
                       LAMBDA i : <<log[i].mission, log[i].kind, log[i].content>>)

(* A record that reports work follows the work, whichever handlers overlap *)
(* and whoever dies: the graph it says is seeded is whole, an output cites *)
(* evidence of its own content, linked to its mission, an indexed source   *)
(* has its linked evidence, a pipeline run whose packet is ready has a     *)
(* graph, notes and a paper draft, and a cycle such a pipeline run, of its *)
(* own mission (research_sandbox.py:207-239, coherence_paper_pipeline.py   *)
(* "finish each run with a reviewable paper", coherence_research_cycle.py: *)
(* "every research cycle must produce or update a paper packet").          *)
LinkedBefore(e, m, n) == \E i \in 1..n - 1 : log[i] = SourceLinked(e, m)
GraphBefore(m, n) ==
    LET nodes(name) == {i \in Nodes(Before(n), m) : log[i].statement.name = name}
        edge(from, to) == \E i \in nodes(from), j \in nodes(to) :
                              EdgeAdded(m, i, j) \in {log[k] : k \in Edges(Before(n), m)}
    IN  edge("premise", "claim") /\ edge("verdict", "claim")
RecordsFollowWork ==
    \A n \in DOMAIN log :
        LET r == log[n]
            earlier(type) == \E i \in 1..n - 1 : log[i].type = type /\ log[i].mission = r.mission
        IN  /\ r.type = "argument_graph.seeded" => GraphBefore(r.mission, n)
            /\ r.type = "research.output_created" =>
                  /\ log[r.evidence] = SourceAdded(Source(r.kind, r.mission, r.content))
                  /\ LinkedBefore(r.evidence, r.mission, n)
            /\ r.type = "coherence_corpus.indexed" /\ r.mission # 0 =>
                  \A k \in DOMAIN r.items : \E e \in SourceEvidence(Before(n)) :
                      log[e].source = r.items[k] /\ LinkedBefore(e, r.mission, n)
            /\ r.type = "coherence_paper.pipeline_ran" /\ r.status = "paper_packet_ready" =>
                  /\ earlier("argument_graph.seeded") /\ earlier("source_note.extraction_ran")
                  /\ PaperDrafts(Before(n), r.mission) # {}
            /\ r.type = "coherence_research.cycle_ran" =>
                  \E i \in 1..n - 1 : log[i] = PipelineRan("paper_packet_ready", r.mission)

(* While handlers do not overlap, a run that leaves its mission blocked is *)
(* not followed by another that prepares work before a steward acted, and  *)
(* a sample cycle reviews nothing by itself (research_autopilot.py:34-55,  *)
(* coherence_research_cycle.py:37-42 and 141).                             *)
StewardActs(from, to) ==
    \E k \in from..to : log[k].type \in
        {"reflection.task_resolved", "mission.status_updated", "evidence.updated"}
RunsStopForStewards ==
    ~overlap =>
        /\ \A i, j \in Positions(log, "research.autopilot_ran") :
              /\ i < j /\ log[i].status = "prepared" /\ log[j].status = "prepared"
              /\ mission_flow(Before(i), log[i].mission).blocked
              => StewardActs(i, j)
        /\ \A i \in Positions(log, "coherence_research.readiness_checked") : log[i].unchanged

(* source_notes.py:137-141: a source that corpus indexing reused is        *)
(* confirmed unchanged by its hash, so its notes can be reused: after an   *)
(* extraction the notes of a mission include those of each source as the   *)
(* corpus last recorded it.                                                *)
NotesFollowSources ==
    ~overlap =>
        \A n \in Positions(log, "source_note.extraction_ran") : log[n].mission # 0 =>
            \A s \in LastCorpusSources(Before(n), log[n].mission) :
                \E i \in Notes(Before(n), log[n].mission) :
                    log[i].path = s.from /\ log[i].sha = s.content[1]
=============================================================================
