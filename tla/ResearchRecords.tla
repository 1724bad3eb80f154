--------------------------- MODULE ResearchRecords ---------------------------
(***************************************************************************)
(* What the ledger says about research: the folds of pca/coherence_seed.py, *)
(* coherence_corpus.py, knowledge_hub.py, source_notes.py,                 *)
(* argument_graph.py, research_sandbox.py, auto_daily_loop.py and          *)
(* startup_health.py over the missions of MissionRecords.  Nothing here    *)
(* changes state.                                                          *)
(*                                                                         *)
(* A file is its path and a number for its content, which stands for its   *)
(* hash and its text.  A source of evidence, hashed in the code, is where  *)
(* it comes from, its mission and its content.                             *)
(***************************************************************************)
EXTENDS MissionRecords, SequencesExt

ResearchOutputKind == {"research_brief", "claim_map_draft", "next_step_suggestion", "paper_draft"}
AUTOPILOT_OUTPUT_KINDS == <<"research_brief", "claim_map_draft", "next_step_suggestion">>

\* The mission the pipeline and the autopilot open for themselves.
Program == "Coherence Physics Research Program"

-----------------------------------------------------------------------------
(* Events.                                                                 *)

ResearchMissionOpened(title) ==
    [type |-> "mission.opened", status |-> "open", title |-> title]
GoalCreated(track) == [type |-> "goal.created", track |-> track]
GoalLinked(g, m)   == [type |-> "goal.mission_linked", goal |-> g, mission |-> m]

Source(from, m, content) == [from |-> from, mission |-> m, content |-> content]
FileSource(path, content) == Source(path, 0, <<content>>)
RequestSource(m) == Source("onboarding", m, <<>>)
SourceAdded(source) == [type |-> "evidence.added", source |-> source]
SourceLinked(e, m)  == [type |-> "evidence.linked", evidence |-> e, mission |-> m]
EvidenceReviewed(e, status) ==
    [type |-> "evidence.reviewed", evidence |-> e, status |-> status]
EvidenceUpdated(e, status) ==
    [type |-> "evidence.updated", evidence |-> e, status |-> status]

HubIndexed(sources) == [type |-> "knowledge_hub.indexed", sources |-> sources]
CorpusIndexed(m, items) ==
    [type |-> "coherence_corpus.indexed", mission |-> m, items |-> items]

\* sha: the content the corpus recorded; summary: the content that was read,
\* 0 for the overview, which does not depend on it.
NoteExtracted(m, path, sha, summary) ==
    [type |-> "source_note.extracted", mission |-> m, path |-> path, sha |-> sha,
     summary |-> summary]
ExtractionRan(m) == [type |-> "source_note.extraction_ran", mission |-> m]
NoteReviewed(n)  == [type |-> "source_note.reviewed", note |-> n]
LiteratureAdded(m)    == [type |-> "external_literature.added", mission |-> m]
LiteratureReviewed(l) == [type |-> "external_literature.reviewed", literature |-> l]

\* text: 0, or what the verdict file says.
Statement(name, text) == [name |-> name, text |-> text]
NodeAdded(m, statement) ==
    [type |-> "argument_node.added", mission |-> m, statement |-> statement]
EdgeAdded(m, from, to) ==
    [type |-> "argument_edge.added", mission |-> m, from |-> from, to |-> to]
GraphSeeded(m) == [type |-> "argument_graph.seeded", mission |-> m]

OutputCreated(m, kind, content, e, day) ==
    [type |-> "research.output_created", mission |-> m, kind |-> kind, content |-> content,
     evidence |-> e, day |-> day]
WriterDraft(m, status) ==
    [type |-> "research_writer.draft", mission |-> m, status |-> status]
TheoryDraft(m) == [type |-> "theory_revision_draft.created", mission |-> m]

DailyAction(day, action, target) ==
    [type |-> "autonomy.action_proposed", day |-> day, action |-> action, target |-> target]
LoopRan(day)             == [type |-> "daily_research.loop_ran", day |-> day]
AutopilotRan(status, m)  == [type |-> "research.autopilot_ran", status |-> status, mission |-> m]
PipelineRan(status, m) ==
    [type |-> "coherence_paper.pipeline_ran", status |-> status, mission |-> m]
CycleRan(m)              == [type |-> "coherence_research.cycle_ran", mission |-> m]
ReadinessChecked(same)   == [type |-> "coherence_research.readiness_checked", unchanged |-> same]

Checked(c)       == [type |-> "constraint.checked", constraint |-> c]
ClaimRecorded(c) == [type |-> "continuity.claim_recorded", claim |-> c]

-----------------------------------------------------------------------------
(* Missions, goals and what awaits a steward.                              *)

Titled(evs, title) == {m \in Missions(evs) : evs[m].title = title}
OpenMissions(evs) == {m \in Missions(evs) : StatusOfMission(evs, m) = "open"}
ItemsOf(evs, m) == {i \in Positions(evs, "mission.item_added") : evs[i].mission = m}

Goals(evs) == Positions(evs, "goal.created")
LinkedMissions(evs, g) ==
    {evs[i].mission : i \in {i \in Positions(evs, "goal.mission_linked") : evs[i].goal = g}}

SourceEvidence(evs) == Positions(evs, "evidence.added")
EvidenceStatus(evs, e) ==
    LET updates == {i \in Positions(evs, "evidence.updated") : evs[i].evidence = e}
    IN  IF updates = {} THEN "raw" ELSE evs[Max(updates)].status
LinkedEvidence(evs, m) ==
    {evs[i].evidence : i \in {i \in Positions(evs, "evidence.linked") : evs[i].mission = m}}

\* The items of the steward inbox of high severity, and whether it has any.
\* Raw outputs are no inbox items.
HighItems(evs) ==
    {m \in Missions(evs) : mission_flow(evs, m).blocked}
    \cup {e \in SourceEvidence(evs) : EvidenceStatus(evs, e) = "disputed"}
InboxNonEmpty(evs) ==
    \/ HighItems(evs) # {} \/ OpenTasks(evs) # {}
    \/ \E e \in SourceEvidence(evs) :
         EvidenceStatus(evs, e) = "raw" /\ evs[e].source.from \notin ResearchOutputKind

\* workbench.py: the mission opened last among the open ones; 0 for none.
ActiveMission(evs) == Max({0} \cup OpenMissions(evs))

ReviewEvents(evs) ==
    LET count(type) == Cardinality(Positions(evs, type))
    IN  <<count("evidence.reviewed"), count("source_note.reviewed"),
          count("external_literature.reviewed")>>

-----------------------------------------------------------------------------
(* The corpus, the notes and the argument graph.                           *)

\* knowledge_hub_sources_from_events keeps a source where it was first
\* indexed, and of the sources of a path the one that comes last counts.
HubSources(evs) ==
    LET inOrder == FlattenSeq([k \in DOMAIN evs |->
                       IF evs[k].type = "knowledge_hub.indexed" THEN evs[k].sources ELSE <<>>])
        first(k) == \A j \in 1..k - 1 : inOrder[j] # inOrder[k]
        last(k) == \A j \in k + 1..Len(inOrder) :
                       first(j) => inOrder[j].from # inOrder[k].from
    IN  {inOrder[k] : k \in {k \in DOMAIN inOrder : first(k) /\ last(k)}}

\* coherence_corpus.py, _select_mission; the open missions whose title names
\* coherence come first, as the titles of all missions here do.
FirstOpenMission(evs) == IF OpenMissions(evs) = {} THEN 0 ELSE Min(OpenMissions(evs))

CorpusRuns(evs, m) == {i \in Positions(evs, "coherence_corpus.indexed") : evs[i].mission = m}
LatestCorpusMission(evs) ==
    LET runs == {i \in Positions(evs, "coherence_corpus.indexed") : evs[i].mission # 0}
    IN  IF runs = {} THEN 0 ELSE evs[Max(runs)].mission

\* Per path, the item that was recorded last.
LastCorpusSources(evs, m) ==
    LET items == FlattenSeq([k \in DOMAIN evs |->
                     IF k \in CorpusRuns(evs, m) THEN evs[k].items ELSE <<>>])
    IN  {items[k] : k \in {k \in DOMAIN items :
            \A j \in k + 1..Len(items) : items[j].from # items[k].from}}

\* Per path, the item that was recorded first.
CorpusSources(evs, m) ==
    LET items == FlattenSeq([k \in DOMAIN evs |->
                     IF k \in CorpusRuns(evs, m) THEN evs[k].items ELSE <<>>])
    IN  {items[k] : k \in {k \in DOMAIN items :
            \A j \in 1..k - 1 : items[j].from # items[k].from}}

Notes(evs, m) == {i \in Positions(evs, "source_note.extracted") : evs[i].mission = m}
Nodes(evs, m) == {i \in Positions(evs, "argument_node.added") : evs[i].mission = m}
Edges(evs, m) == {i \in Positions(evs, "argument_edge.added") : evs[i].mission = m}

(* Of the statements of the graph, a claim, a premise that supports it and *)
(* the verdict of the lab, which bears on it; the last comes from a file.  *)
GraphNames == <<"claim", "premise", "verdict">>

-----------------------------------------------------------------------------
(* Outputs.                                                                *)

Outputs(evs, m) == {i \in Positions(evs, "research.output_created") : evs[i].mission = m}
PaperDrafts(evs, m) == {i \in Outputs(evs, m) : evs[i].kind = "paper_draft"}

\* What an output is made of: counts of the mission's items; for a paper,
\* the claims of its graph and the excerpts of its notes.
DraftContent(evs, m, kind) ==
    LET n(item) == Cardinality(Items(evs, m, item))
        claims == {i \in Nodes(evs, m) : evs[i].statement.name = "claim"}
        excerpts == SetToSortSeq({i \in Notes(evs, m) : evs[i].summary # 0}, <)
    IN  CASE kind = "research_brief"       -> <<n("hypothesis"), n("evidence"), n("risk")>>
          [] kind = "claim_map_draft"      -> <<n("hypothesis")>>
          [] kind = "next_step_suggestion" -> <<>>
          [] kind = "paper_draft" ->
                <<Cardinality(claims)>> \o [k \in DOMAIN excerpts |-> evs[excerpts[k]].summary]

\* The starter items a mission lacks, in the order they are created.
StarterItems(evs, m) ==
    SelectSeq(<<"hypothesis", "evidence", "risk">>, LAMBDA kind : Items(evs, m, kind) = {})
OnboardingReady(evs, m) ==
    /\ StarterItems(evs, m) # <<>>
    /\ StatusOfMission(evs, m) = "open"
    /\ mission_flow(evs, m).phase \notin {"blocked", "completed"}

\* Required constraints whose last check is missing or not newer than aged.
Unchecked(evs, required, aged) ==
    {c \in required : \A i \in Positions(evs, "constraint.checked") :
                          evs[i].constraint = c => i <= aged}
=============================================================================
