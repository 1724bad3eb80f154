# Verification of the Persistence-Constrained Architecture

This directory holds TLA+ models of the Python program in `src/` (package `pca`,
command line `pca_cli.py`, chat shell `lucien/`), the TLC configurations that
check them on small instances, and TLAPS proofs of the results that matter most.
Line references are to the source files.

1. [The system](#1-the-system)
2. [Inventory of components](#2-inventory-of-components)
3. [Modules, and how they correspond to the code](#3-modules-and-how-they-correspond-to-the-code)
4. [Runs: what is checked, within which bounds](#4-runs)
5. [Theorems: what is proved, and how](#5-theorems)
6. [What is only model-checked](#6-what-is-only-model-checked)
7. [Disagreements between code and documents](#7-disagreements-between-code-and-documents)
8. [What is not modelled](#8-what-is-not-modelled)
9. [Plan](#9-plan)

## 1. The system

PCA governs what an "identity" (an assistant with a declared manifest) may say
about its own continuity, and which work it may do without a human steward.

All state is on one file: a JSON-lines ledger of hash-chained events
(`pca/ledger.py`). Everything else - the identity state, the continuity claim,
missions, steps, review tasks, growth records, queues - is a *fold* over the
events of that ledger: "the last event about a thing holds its state". No
component keeps state of its own between commands, apart from the anchor log
(`pca/anchors.py`) and the remembered last signal of the CSM bridge.

The program runs as several operating-system processes and threads over that one
file: any number of `pca_cli.py` commands, the chat shell, and the live chat
server, which is a `ThreadingHTTPServer` and so runs one handler per request
thread. The file lock (`flock`) is held **only while appending**. Every handler
therefore has the shape

    read the ledger (no lock) -> check -> append (lock) -> read again -> append ...

and nothing ties what it read to what it appends. That shape is the reason for
most of the models here: a handler is a list of atomic calls (read-and-decide, or
append), the calls of different processes interleave, and a process may be
killed between any two of them.

## 2. Inventory of components

State is "fold over ..." unless said otherwise. "Hard" names the behaviour that
tests hardly reach.

| Component | State | Operations | Hard behaviour | Properties that make it correct |
|---|---|---|---|---|
| Continuity ledger (`ledger.py`) | the file, the flock | `append`, `append_many`, `events`, `last_hash`, `verify_chain` | concurrent writers, unlocked readers, killed writers, short writes, power loss | chain integrity; nothing acknowledged is lost silently; damage is never buried; readers see chains, and what they saw stays; appends end |
| Evaluator, claim derivation and registry (`evaluator.py`, `state.py`, `claims.py`) | fold over evidence, follow-ups, recoveries; claim records | `evaluate`, `derive_current_claim`, `record_claim_if_changed` | precedence of eight rules; stale evidence; two reads and an append without a lock | certified continuity exactly on clear ledgers; records current, chained, and resting on what they say |
| Follow-ups, recovery, audits (`followups.py`, `recovery.py`, `audits.py`) | last update of each record | create, complete, fail; open, certify, reject; audit | which recovery counts as current; several appends per command | a break is left only deliberately; recovery does not certify by itself |
| Authorization and overrides (`authorization.py`, `override.py`) | none | authorize, record the check, override | a denied check must stop the handler; override and obligations are separate appends | no privileged event without its allowed check; an override obliges and does not upgrade |
| Output gate, runtime adapter (`output_gate.py`, `output_wrapper.py`, `runtime_adapter.py`) | none | record a runtime signal, gate and emit a text | decision before the audit append; signal and breach are two appends | undisclosed identity speech only on clear ledgers; RED brings a breach |
| Missions and steps (`missions.py`, `mission_steps.py`) | last record of each mission, item, step | open, status, add item; propose, approve, start, complete, fail, block | whole-record updates decided on stale reads; failure, outcome, reflection and task are separate appends | nothing risky starts unapproved; a finished step runs again only when released |
| Tool router (`tool_router.py`) | records of checks, previews, runs | permission, dry run, run | three reads between the decision and the run; time-outs that escape the handler | no guarded tool runs unapproved |
| Reflection queue (`reflection_queue.py`) | open, resolved, dismissed tasks | open (deduplicated), resolve, dismiss | deduplication on a stale read | every failure is reviewed before the mission is ready to advance; one open task per pressure |
| Mission flow and autonomy (`mission_flow.py`, `mission_autonomy.py`) | recommendations | phase of a mission, recommend or propose the next step | eighteen ordered rules; the recommendation is older than the proposal | no new work over an unreviewed failure |
| Growth, growth conflicts (`growth.py`, `growth_conflicts.py`) | growth records, conflicts | propose, review, accept, reject, detect, resolve | no guard on the record's status; the gate is asked about a claim derived earlier; a review is two appends | growth enters the self-model only under a claim that permits it; a review follows the change it reports; one resolution per conflict, which closes its tasks |
| Memory signals and cards, self-model (`memory_signals.py`, `memory_cards.py`, `self_model.py`) | folds over growth | record signals; derive cards and model | a model derived at the start of a turn decides at its end | what chat accepts contradicts nothing accepted before |
| Chat and sessions (`lucien/chat.py`, `chat_sessions.py`) | sessions and turns; the shell's current session | open, turn, close | turn numbers from a stale read; one shell for all request threads; restarts | turns numbered without gaps, none after the end, one end |
| Reflections (`reflections.py`) | recorded reflections | build, record | the reflection is older than the tasks opened from it | all the pressure it saw has a task |
| Autonomy queue (`autonomy_queue.py`) | queue items, execution records | propose, review, execute, execute all approved | two executors pick one item; actions fail, time out and raise | approved before executed; once without overlap; a failure is queued for review |
| Skill memory, checkpoints, goals (`skill_memory.py`, `checkpoint_links.py`, `goals.py`) | candidates, links, goals | propose, by hand or by repetition; link; review; update | repetition is looked for on a stale read; goals are written back whole | the same work seeds one candidate; one decision per candidate |
| Evidence locker (`evidence_locker.py`) | evidence, claims, links, reviews | add, claim, link, review, review a packet | a review is two appends | the record shows the reviews |
| Learning review (`learning_review.py`) | started, completed | plan and apply | killed half-way through its calls | what it reflects on is queued |
| Anchors (`anchors.py`) | a second hash-chained file | anchor the head, verify, export | three unlocked reads and an unlocked append; a ledger edited, cut off, rewritten | a valid verification is never wrong; no false alarm |
| Seeds, corpus, notes, argument graph, outputs (`coherence_seed.py`, `coherence_corpus.py`, `knowledge_hub.py`, `source_notes.py`, `argument_graph.py`, `research_sandbox.py`, `mission_onboarding.py`) | goals, missions, sources, notes, nodes, outputs | each makes what is missing | run again over what a killed run left; files change in between | nothing is made twice; a record reports work that was done |
| Pipeline, cycle, daily loop, autopilot, startup (`coherence_paper_pipeline.py`, `coherence_research_cycle.py`, `auto_daily_loop.py`, `research_autopilot.py`, `startup_health.py`) | their run records | call the operations above in sequence | nested runs, a new day, items that wait for a steward | runs wait for the steward; a sample reviews nothing |
| Scenarios, experiment, ratings, certification (`scenarios.py`, `direct_continuity_experiment.py`, `output_only_rating.py`, `certification.py`) | a sandbox per scenario; presentations and ratings | run, report, verify; experiment; present, rate, score | a ledger a killed run left; a rating of another presentation's label | verification meets the expectations; the score follows what was read |
| CSM bridge (`csm_bridge.py`) | the adapter's last RED payload and signal result | step the external monitor, record its hard kills | the adapter's remembered result is never cleared, and a later failure of the monitor returns it | a result belongs to its own step (not modelled) |
| Policies, packs, manifest (`policy.py`, `policy_packs.py`, `manifest.py`) | configuration files | load, evaluate, apply a pack | - | constants of the models |
| Steward inbox, review queue | none | list what awaits a steward; act on an item | the item is older than the action | those of the handlers it calls |
| Dashboards, reports, cockpit, model adapters, PDF | none, files | render | - | - |
| Live chat server (`live_chat.py`) | the shell | HTTP, steward actions | one thread per request | those of the handlers it calls |

Interactions: all by calls within one handler, and by the shared ledger between
handlers. A mission item under pressure records a reflection and opens a review
task; an open task blocks its mission's flow; a blocked flow stops the autonomy
loop; a tool run starts, completes or fails a step, whose failure is again an item
under pressure. A runtime signal records a breach, a breach moves the derived
claim, the claim decides what the output gate lets through; overrides create
follow-ups, failed follow-ups break the claim, and recoveries mitigate it.

## 3. Modules, and how they correspond to the code

    AppendOnlyLog   <--implements--  Ledger               LedgerProofs       MCLedger
                    Claims         <- Continuity          ContinuityProofs   MCContinuity
                    MissionRecords <- Missions            MissionsProofs     MCMissions
    Handlers  <-    GrowthRecords  <- Growth              GrowthProofs       MCGrowth
              <-    WorkRecords    <- Work                WorkProofs         MCWork
              <-                      Anchors             AnchorsProofs      MCAnchors
              <-    ResearchRecords<- Research                               MCResearch
              <-    TrialRecords   <- Trials              TrialsProofs       MCTrials

`PROJECT.json` maps each definition to the lines it stands for.

**Ledger** models the file byte-wise enough to tell a whole line, a cut line and
a line that lacks only its newline apart (`file`, `tail`), what `fsync` made
durable (`synced`), the flock (`holder`), and the program counter of every writer
inside `append`/`append_many`. One action per system call: lock, read the last
hash, write (the bytes arrive in two pieces), fsync, unlock, with the exceptions
a torn file or a short write raises. `Read` is an unlocked `events()`. `Crash`
kills a process, `PowerLoss` all of them, and takes what was not synced. SHA-256
is taken to be injective: a hash is the number of the event.

**AppendOnlyLog** is what callers are promised: a sequence of durable, linked
events that only grows at its end. `Ledger!ImplementsLog` is the refinement: the
log is the synced prefix of whole lines.

The other groups use that promise: in them an append is one atomic
extension of the sequence `log`. A batch a process may be killed inside of is
still cut short there (`Continuity!Crash`).

**Claims** holds the folds - evidence, evaluator rules in their precedence,
follow-ups, the recovery opened last, the claim, what becomes of a text - as
operators over a sequence of events, with the result of `verify_chain` and the
age of the evidence as arguments. An id is the position of the event that
created the thing. Nothing there changes state.

**Continuity** has one action per CLI command that bears on the claim (check,
breach, seed-required, fork, transform, override, runtime-signal, gate-output,
open-recovery, complete-recovery-audit, complete-followup, fail-followup, audit)
which starts a handler with the batches it will append, and one action per call
that touches the ledger: `AppendBatch`, and the separate reads and append of
`record_claim_if_changed` (`DeriveClaim`, `CompareClaim`, `RecordClaim`), of
open-recovery (`ExamineClaim`) and of the output wrapper (`GateText`,
`EmitText`). `Age` and `Tamper` are the clock and somebody editing the file.

**MissionRecords** holds the folds of missions, items, steps and review tasks,
the flow rules as an ordered table, and the denial rule of the tool router.

**Missions** has one action per command that starts a handler and one per
function the code calls (`approve_mission_step`, `open_tasks_from_reflection`,
`check_tool_permission`, ...). A handler is the list of calls it still has to make
(`todo[p]`); a function that calls others puts their calls at the front of that
list, an append takes effect when its turn comes, and a `ValueError` empties the
list. `execute_tool` is the tool itself, outside the ledger: it succeeds, fails, or,
for tools that run a command, exceeds its time limit, which raises out of the
handler. Free inputs stand for other components: which tools are proposed, the
urgent inbox items and the accepted skill the recommendation looks at.
`ran`, `overlap` and `killed` are history variables: the tool runs so far, and
whether handlers have ever overlapped or been killed; they appear in no guard
except the bound on commands.

**Handlers** is that machinery for all later modules: the ledger, the list of
calls of every process (`Begin`, `Return`, `Called`, `Call`), the append calls, the
crash, and the history variables. `Creating(e, then)` is an append whose record the
next call refers to: the new position is filled in as `own`. The modules that
extend it define events, folds (in the `...Records` modules, one operator per
function of the code that folds) and one action per function that reads or appends.

**GrowthRecords, Growth** model growth, growth conflicts, the self-model, memory
cards and signals, reflections and their tasks, and chat. A chat turn is
`derive_self_model`, `process_turn`, `record_growth_conflict`, `auto_accept` and
`record_chat_turn`, between which other handlers step in. `shell` is the session the
live server remembers; its threads (`Threads`) share it and die together
(`ServerCrash`). What the continuity model computes is one input here:
`MoveContinuity` changes the derived claim. What a message is classified as is
chosen from `Messages`.

**WorkRecords, Work** model the autonomy queue, skill memory, checkpoints, the
evidence locker with the inbox's packets, goals and learning reviews. Running an
action (`execute_allowed_action`) lies between the read that allows it and the
appends that record it; `ran` remembers every run with the length of the ledger at
that time. A reflection and its task have a subject, which is what deduplication compares:
a learning review's names the failed step, so each failed step gets its own task
(`StepPlan`, `MissionPlan`). Steps settle by the one action `SettleStep`; Missions has their
handlers.

**Anchors** keeps the ledger as lines of a body and a hash, so that verification can
be wrong: `Edit` changes a body, cuts lines off or rewrites the file with correct
hashes. A hash is written as the bodies it covers. Anchoring is four steps (anchor
file, count, head, chain), verification another four.

**ResearchRecords, Research** model the runs that write research records: seeding
goals and missions, the corpus index, source notes, the argument graph, sandbox
outputs, onboarding, the daily loop, the autopilot, the paper pipeline, the cycle and
its readiness check, and start-up. All of them are of one shape: look what is there,
make what is missing, record the run. A run may be asked for a mission by its id
(`Asked`), which need not exist: the pipeline then records a blocked run and stops
(`select_mission`), the cycle around it raises when it looks the mission up for its
review desk (`run_coherence_research_cycle`), so neither it nor a readiness check records
anything more, the corpus and the notes raise at once, and the autopilot takes the active
mission. Without an id a run opens the program mission or selects one. `files`, `day` and `aged` are the world they
look at; `Edit` and `NextDay` change it.

**TrialRecords, Trials** model what the project runs on itself. A scenario is its
script of ledger calls over a sandbox directory that outlives runs; the claim and the
gate are Claims' own operators, so a verification compares the scenario definitions
(`scenario_defs/*.json`) with what the continuity rules say. Ratings are given by
raters who hold a sheet (`sheet`) that may be older than the latest presentation.

Mutants (definitions with a comment that begins "Mutant") are wrong versions of a
definition: each property of each passing run is violated when one of them
replaces the definition it mutates.

## 4. Runs

All runs use `-workers 2`; each ends within about three minutes.

| Run | Instance | Question, and answer |
|---|---|---|
| `ledger_faults` | 2 writers, 1 reader, batches of 1 and 2 events, up to 3 events (a batch may add a fourth), killed processes, short writes, power loss, with fairness; 211 280 states | `ChainIntact`, `ViewVerifies`, `NoSilentLoss`, `ViewIsStable` (what a reader returned is never taken back while the power holds), `TornNeverExtended`, `ImplementsLog`, `AppendReturns`: hold |
| `continuity_sequential` | 1 process, all 13 commands, up to 4 commands, no faults, with fairness; 499 793 states | `RecordedClaimCurrent`, `ClaimsFormChain`, `SpeechIsClear`, `OverrideObliges`, `BreachReachesRecord`: hold |
| `continuity_faults` | 1 process that may be killed, 2 required perishable constraints, ageing and tampering, 3 commands; 512 380 states | `CertifiedIffClear`, `BreakLeftDeliberately`: hold |
| `continuity_race` | 2 processes that may be killed, 6 commands that race, 3 started; 1 986 439 states | `CertifiedRecordsRestOnClear`, `Privileged`: hold |
| `continuity_recovery` | 1 process, 4 commands | `RecoveryNeverCertifies`: **violated**, section 7 |
| `missions` | 2 processes that may be killed, 2 starting ledgers (a medium-risk step; a low-risk step whose tool needs approval), 3 tools, up to 3 commands; 1 223 581 states (symmetric ones counted once) | `RunsApproved`, `PressureIsReviewed`, `AutonomyAwaitsReview`, `RunsReleased`: hold |
| `growth` | a command line and a server thread, both may be killed and the server restarted; a ledger with a memory and a high-impact commitment; three kinds of message, one proposal, two moves of the claim; up to 3 commands; 2 948 000 states | `AcceptedUnderGate`, `AutoAcceptanceIsSafe`, `ReviewsFollowChanges`, `ConflictsCloseTheLoop`, `PressureGetsATask`, `SessionsConsistent`: hold |
| `work` | a command line and a server thread that may be killed, six starting ledgers, one of them with two failed steps of a mission, up to 4 commands (the fourth reviews or executes an action); 1 702 445 states | `ExecutedOnApproval`, `NoRework`, `EvidenceReviewsAgree`, `FailedWorkIsQueued`: hold |
| `anchors` | 2 commands that may be killed, 2 bodies, ledgers of 0 and 1 lines, up to 4 appends and anchors and 5 commands in all, 2 edits; 521 887 states | `ValidMeansUntouched`, `FreshAnchorVerifies`: hold |
| `research` | a command line and a server thread, one track, one file of 2 contents, 2 days, from an empty ledger and from one whose mission awaits a steward; one mishap (an edit, a kill or an overlap), 3 commands, each with no mission id, an existing one or an unknown one where it takes one; the command that overlaps another is a stage of a run, the daily loop or the autopilot; 1 127 244 states | `RerunsAddNothing`, `RecordsFollowWork`, `RunsStopForStewards`: hold |
| `research_notes` | corpus index and note extraction, 3 commands, one edit | `NotesFollowSources`: **violated** |
| `trials` | 2 processes that may be killed, all 7 scenarios, 2 raters, 2 samples, 2 presentations, up to 4 ratings; 178 334 states | `TrialsMeetExpectations`, `ScoresFollowReaders`: hold |

The type invariants `TypeOK` are checked in `ledger_faults`,
`continuity_faults` and `missions`.

**Why the bounds are enough to mean something.** In the ledger the interesting
events are one writer's read, write or fsync falling between two of another's;
two writers, one batch of two events and three to four events give all of them,
with a reader at every point and a crash or a power loss at any number of points.
In Continuity `MaxCommands` commands is the bound: four sequential commands reach
every identity state and every claim, e.g. seed, override, complete-followup,
audit; three overlapping ones reach a claim derived before and recorded after
another process's breach. In the modules of handlers `Limit[c]` says how late a
command may be started: `c` is among the first `Limit[c]` commands. Those that
approve, run, block or review something come in any place up to the last, those
that only add material come early; the starting ledgers stand for longer
histories (a standing commitment, completed steps that repeat, an approved item,
a mission with everything but its review). `MaxOverlapping` bounds the commands that
start once two have overlapped: with 0 it is the last one that overlaps the one
before it, call by call, after any sequential beginning; with 2 the second command
overlaps the first and a third may follow both. In Research a run is up to sixty
calls, so `MaxSwitches` bounds how often two handlers that are both under way take
turns, and `MaxMishaps` the edits, kills and overlaps together: one mishap anywhere,
and then the commands that meet what it left.

Some properties are weaker than one might expect and say so in their premises: those
with `~overlap` are false of overlapping handlers by design (nothing is locked
across a read and an append), and hold when commands run one at a time; those with
`~killed` are false after a kill, because nothing repairs half a handler. Such a property
says nothing of the race or kill its premise excludes: `PROJECT.json` lists that hazard with
a note, and with those properties only that hold under it (`RunsApproved`,
`ExecutedOnApproval`, `CertifiedRecordsRestOnClear`, `ValidMeansUntouched`).

**Symmetry.** `missions.cfg` and `research.cfg` declare the two processes symmetric,
`trials.cfg` the processes and the raters: they are model values, every action
treats them alike, and no property of those runs is a liveness property.
In `growth.cfg` and `work.cfg` one process is a command line and one a thread of the
server, so they are not.

**Deadlock** is checked in `ledger_faults`. The other cfgs turn it off because
the bound on the number of commands lets the system stop.

**Fairness.** `Ledger!FairSpec`: weak fairness of every step of a writer inside
an append (a running process keeps running) and strong fairness of taking the
flock (its waiters are woken at each release; one is not passed over for ever).
`Continuity!FairSpec`: weak fairness of a handler's steps: between two calls it
waits for nothing but the flock, which `AppendReturns` says is given back. No
fairness is assumed of commands being started, of faults, or of stewards.
The other modules have no liveness property: everything they wait for is a person
or the end of an external program.

## 5. Theorems

All proofs are checked by TLAPS (SMT, Zenon, LS4). They hold for every value of
the constants; the assumptions on constants (`LedgerAssumption`,
`ClaimsAssumption`, `ContinuityAssumption`, `MissionsAssumption`,
`HandlersAssumption`, `WorkAssumption`, `GrowthAssumption`, `AnchorsAssumption`,
`TrialsAssumption`) only give them their types and say which ledgers there may be to start from; TLC evaluates them in
every run. The starting ledgers of Growth (`Opening`) are those that commands one at a
time leave: claims moved, growth proposed, and growth accepted under the claim of that
moment. Those of Work (`Opening`) have missions, steps and how they ended, sessions, goals, raw
evidence, checkpoints and autonomy items of which each was reviewed at most once; those of
Anchors are lines of a body and a hash, right or wrong; in those of Trials (`Opening`) each
rating is of a presentation before it.

**LedgerProofs** (any writers, readers, batches, faults):
`TypeCorrect`, `ChainIntegrity`, `DamageIsNeverBuried`, `ReadersSeeChains`,
`LossIsNeverSilent`, `WhatWasReadStays`, `Refinement`.
`ChainIntact` is not inductive: an append links to the head it read. The
strengthening `ChainInv` says that garbage can only be the last line
(`GarbageLast`, since an append parses the file first), that bytes behind the last
newline continue a file that parses and carry the right predecessor
(`TailLinked`), and that what a writer read under the lock is still true when it
writes (`HeadFresh`), which rests on mutual exclusion (`LockHeld`).
`LossIsNeverSilent` needs `AckedSynced`: an acknowledged event is on a synced
line. `WhatWasReadStays` needs that no two lines have the same hash (`LinesDistinct`,
`HashesMinted`), so that a line a reader holds is found in the file at its own place
and at no other (`SeenInPlace`), and `AckedSynced`, so that an acknowledged line is
not what a power loss takes. `Refinement` shows every step either leaves the durable
log alone or extends it by linked events.

**ContinuityProofs** (any manifest, processes, commands, faults):
`TypeCorrect`, and `CertifiedExactlyWhenClear`. The second is mostly about
data: for any sequence of events, the cascade of rules, folds and overrides yields
`certified_continuity` exactly when the ledger is clear, as stated on the bare
events - no hard breach, no fork, every required constraint checked and every
soft breach followed by a check, every follow-up completed last, every rejected
recovery superseded. This needs that no recovery is updated that was never
opened, which is a fact about behaviours: `RecoveryInv` says it of the ledger and
of the events every handler has yet to append.

Its other part is about what the handlers of Continuity do in several steps. What a handler may still append is a plan of a known shape: checks
first, a privileged event alone in its batch, obligations last (`Planned`,
`Progress`). Each step is one of ten forms (`StepForms`): start a plan, append its next
batch, derive, compare, record, and so on; each kind of event is appended by one form.
Each theorem then has an invariant about the ledger and about what the handlers hold
that they read or planned before. The hypotheses of a theorem are the conditions under
which the code keeps the property at all:

| Theorem | Property | Processes, faults | Inductive invariant |
|---|---|---|---|
| `CertifiedRecordsRest` | `CertifiedRecordsRestOnClear` | any, any | `RestsInv`: a certified claim a handler derived and has yet to record rests on a prefix of the ledger that was clear and held its event and all obligations; others' appends leave prefixes alone |
| `OverridesOblige` | `OverrideObliges` | any, no kill | `ObligedInv`: each override has its obligations, or one handler holds exactly the missing ones. A kill between the two appends leaves an override without obligations |
| `BreaksAreLeftDeliberately` | `BreakLeftDeliberately` | any, any | a step property: evidence, signals, records and time are transparent to rule 1 |
| `PrivilegesAreChecked` | `Privileged` | any, any | `BackedInv`: an injection of the privileged events and of the handlers past their check into the allowed checks; it shrinks when a handler is killed and never grows without a check |
| `SoleSpeechIsClear`, `SoleClaimsFormChain` | `SpeechIsClear`, `ClaimsFormChain` | one, any | `SoleInv`: what the handler read is still true. With two processes both properties fail: nothing is locked between the read and the append |
| `SoleRecordedClaimCurrent` | `RecordedClaimCurrent` | one, none; something is required | `CurrentInv`: a handler that is past its last event and not at rest still has the claim to derive, compare or record. A lone evaluation certifies where nothing is required, and no record is written for it |

**MissionsProofs** (any processes, tools, starting ledgers, number of commands):
`TypeCorrect`, `RiskyWorkIsApproved`, `EndedWorkWaitsForApproval`,
`ReadyMissionsAreReviewed`, `AutonomyWaitsForReviews`.
`RiskyWorkIsApproved`: every transition is decided on a stale read and writes a whole record, so an approval can be overwritten; the theorem
holds because "approved" is only ever written when an approval is on the ledger,
and the ledger only grows. `Inv` therefore says of the ledger that each event is
supported by those before it (`LogSound`), and of every call a handler has yet to
make that the present ledger supports it (`SoundCall`); `CallsGrow`, `RunsGrow`
and `LogGrows` carry both over an append by anybody.

The other three rest on the shape of what a handler has yet to do (`PlansInv`). Its
remaining calls are *writing* - appends and tasks to open, in which each event that
calls for a review is followed by the opening of its task - or *deciding*: a last
call that has yet to read, with only appends before it that decide nothing. So every
step starts a plan, writes the next call of one, moves on to a longer plan, or dies
(`StepForms`), and each invariant is shown to survive these four forms:

- `ReleasedInv` (while no commands overlap): only one handler is under way; when it
  is about to run or start a step, every earlier end of that step was followed by an
  approval. With overlap the property is false: two commands read one approval.
- `PressureInv` (any overlap, no kill): whatever calls for a review has been reviewed
  since, has an open task, or has its task in some handler's plan. That a mission with
  an open task or a failure is not ready is a fact about the table of flow rules
  (`FlowRule`, `FlowFacts`): a mission is at the first rule that applies. A kill between the failure and its task loses the review.
- `AutonomyInv` (no overlap, no kill): a handler about to propose has seen every
  review closed, and nobody else has written since.

**WorkProofs** (any processes, actions, starting ledgers, bounds) has two layers. `Inv`
says what was read before it is used: approval, earlier execution, run and record of an
action are four calls, and others go on between them. Of every event it says that it is
one any handler may append (`Plain`) or an execution that the events and runs before it
support (`Backed`), of every run that an approval was on the ledger when it began, and
of every call a handler has yet to make, those of a learning review's plan included,
that ledger and runs support it (`CallSound`). `CallsStaySound`, `LogStaysSound` and
`RunsGrow` carry this over what others do. The lists a handler makes of a set are
written with `Ranked`, `CallEach` and `CallBoth`, whose length a proof sees.

`GroundedInv` says in which order calls stand: which may stand behind which
(`MayPrecede`: an update of evidence only behind its own review, a task only behind what
cannot raise), which event owes a call behind it (`Owes`: a failure and a reflection their
task, a review its update), and that events and calls refer to earlier events. Every
step is one of five forms (`Form`, `StepForms`): a command starts, a call returns the
calls it leads to (`Leads`: in order themselves, and able to stand where it stood), an
event is appended, a record is created, a handler ends. The theorems:

| Theorem | Property | Processes, faults | Inductive invariant |
|---|---|---|---|
| `WorkIsApproved` | `ExecutedOnApproval` | any, any | `Inv` |
| `SoleWorkIsDoneOnce` | `NoRework` | any kill; no overlap | `OnceInv`: only one handler is under way, what its calls read is still so (`Current`), records are made once and runs precede the record of their item's execution. With overlap two handlers execute one approval |
| `EvidenceFollowsReviews` | `EvidenceReviewsAgree` | any, any; the last review without overlap and kill | `UpdatesInv`: an injection of the changes of records, and of the handlers about to make one, into the reviews; `AgreeInv`: a record shows its last review, or the one handler under way makes that change next |
| `FailedWorkHasItsTask` | `FailedWorkIsQueued`; a learning review has a task for each failed step | any, no kill | `QueuedInv`: the task is there, or some handler holds the call that sees to it, and no call that may raise is in front of that one |

**AnchorsProofs** (any processes, bodies, edits, starting ledger):
`ValidVerificationsAreRight`, which is `ValidMeansUntouched`, and `FreshAnchorsVerify`,
which is `FreshAnchorVerifies`. That the last hash of a valid chain names all the bodies
before it (`HashesCover`) is shown by its first counterexample: the hash before it is
right, and so is its own. A verification reads the last hash before the chain; `Inv` says
that what it read is a prefix of what it checks, because others only append while it is
under way. `FreshInv` says while commands do not overlap that what the one under way
read is still so (`Timely`) and the anchors form one chain.

**TrialsProofs** (any processes, raters, samples, starting ledger, faults):
`ScoresAreOfWhatWasRead`, which is `ScoresFollowReaders`. A rating is submitted of one
presentation, looked up in the latest one, and appended when there may be another still.
`Inv` says of each rating, in the ledger or in a call yet to be made, that its condition is
what its label stood for in some presentation between the reading and the rating
(`Founded`); if there is none but the one that was read, it is what the rater meant, and
"the last judgment of each rater of each condition" picks the same ratings on both sides.

**GrowthProofs** (any processes and threads, messages, proposals, starting ledgers and
number of commands). A call of a handler leads to further calls, which go before those
still to come; `LeadsTo` says what it hands on to them, and every step is one of a few
forms (`Form`, `StepForms`): a command starts, a call returns the calls it leads to or
raises, an event is appended, a process or the server dies. `SoundInv` is the invariant
the others rest on: the ledger supports each of its events and each call yet to be made
(`Sensible`, `CallSound`), and the calls of a handler stand in an order they may stand
in (`MayPrecede`), so that a call can say what is still to come after it. The rest:

| Theorem | Property | Processes, faults | Inductive invariant |
|---|---|---|---|
| `AcceptancesPassTheGate` | `AcceptedUnderGate` | any, any; claim of the moment without overlap | `UndisturbedInv`: while no handlers overlap only one is under way and what its calls read is still so (`Current`). With overlap the claim moves between the gate and the append |
| `AutoAcceptancesAreSafe` | `AutoAcceptanceIsSafe` | any, any; commitments without overlap | `SettledInv`: growth that a turn proposed is held by that turn alone, and a turn that will accept it recorded no conflict of it; `UndisturbedInv` for the commitments |
| `ReviewsHaveChanges` | `ReviewsFollowChanges` | any, any | `ReviewsInv`: an injection of the reviews, and of the handlers that are about to record one, into the changes; a kill takes a handler away, never a change |
| `PressureHasItsTask` | `PressureGetsATask` | any, no kill | `PressureInv`: what a reflection called for is open or was opened since, or some handler holds the calls that will open it |
| `ResolutionsCloseTheLoop` | `ConflictsCloseTheLoop` | any kill; no overlap; tasks also without kills | `LoopInv`: a task older than a resolution is closed, or the handler under way will close it. A handler killed after the resolution leaves it open |
| `SessionsStayConsistent` | `SessionsConsistent` | any kill; no overlap | `SessionsInv`: each call finds its session open, each record was right when it was made, and a session of the shell that has ended is about to be forgotten |

**FoldLemmas** has what these proofs share: the greatest of some positions of the ledger
is one of them and no less than any, which is where a fold finds the last word on a
thing (`MaxIsGreatest`), the first rule of a table that applies is the least that
does (`MinIsLeast`), what is on a list after its head is gone, something is put in
front or two are joined (`HeadAndTail`, `JoinedList`), that a list made of a set by
increasing key has each member once (`RankedMembers`), and injections of two sets side by
side into a third (`Covered`), which shrink, move and grow with the ledger.

## 6. What is only model-checked

- Liveness: `AppendReturns`, `BreachReachesRecord` (fairness is beyond these
  proofs).
- The properties of `research`: checked for the bounds above. `RerunsAddNothing` and
  `RunsStopForStewards` compare what whole runs did, over some thirty kinds of call.
- `TrialsMeetExpectations` says what seven fixed scripts come to on the folds of Claims;
  there is no parameter to prove it for but the manifest and who is killed where, and TLC
  computes it.

## 7. Disagreements between code and documents

Two are runs that TLC ends with a counterexample; `PROJECT.json` quotes the lines.

1. `continuity_recovery` - a certified recovery audit leads to a constrained
   state, "not automatically back to certified continuity"
   (ARCHITECTURE.md:105-107); the audit that certifies the recovery also
   completes the failed follow-up that was the break, and the claim is certified.
2. `research_notes` - a source whose notes are reused "is confirmed unchanged by
   content hash" (source_notes.py:137-141); the hash compared is that of the oldest
   corpus record of the source (source_notes.py:294-302), so a file that was
   edited and indexed again is never read again.

Others were met while modelling; the models have the behaviour, and no run is spent
on them.

- The overview says a RED signal and its breach are recorded together
  (ARCHITECTURE_OVERVIEW.md:107-109); they are two appends under one lock, and a
  process killed between them leaves a signal without a breach.
- An override "cannot upgrade the continuity claim" (ARCHITECTURE.md:57-59); after
  a hard breach its own follow-up turns `continuity_break` into
  `uncertified_continuity` (followups.py:188).
- Two overlapping commands can leave a last claim record the ledger no longer
  justifies (state.py:57), until another command runs.
- An open review task "requires steward review before mission work proceeds"
  (reflection_queue.py:326); once the mission is marked completed its flow has no
  blockers, and an accepted skill leads to new work (mission_autonomy.py:169).
- `update_goal_status` accepts a `GoalStatus`, but `with_update` parses
  `str(status)` (goals.py:166), which is not its value: `goal-complete` and
  `goal-archive` on the command line raise, while the server's actions, which pass
  the text, work.
- Conflicting growth "must be steward-resolved before related growth can proceed"
  (LUCIEN_CONSTITUTION.md:54) and its task "blocks related growth acceptance"
  (reflection_queue.py:324); `accept_growth` looks only at the gate. Only the chat
  shell keeps conflicting growth from being accepted, and only its own.
- The memory signal classifier looks for "correct" before "incorrect": a user who
  says a memory is incorrect reinforces it.
- A learning review's own reflection task names no mission, so it blocks none, and
  the inbox's action on a mission's tasks does not close it.
- A rating is attached to the latest presentation (output_only_rating.py:144): after
  a second presentation the label a rater still reads means another condition.
  `ScoresFollowReaders` says so in its premise.
- Certification leaves out recoveries whose status is `certified` or `rejected`
  (certification.py:68-71); the values are `recovery_certified` and
  `recovery_rejected`, so a closed recovery stays listed as an obligation.
- `report_scenario` finalises whatever ledger the sandbox holds
  (scenarios.py:191-193), that of a killed run included, as a complete run.
- The command `daily-research-loop` passes a `mission_id` (pca_cli.py:1217) that
  `run_auto_daily_research_loop` does not take (auto_daily_loop.py:107-115), and ends with
  a `TypeError` before it reads or writes anything; daily loops are started by the live
  server and the autopilot.
- A readiness check of a mission that does not exist raises in the sample cycle's review
  desk, after the blocked pipeline run was recorded (research_review.py:119-121).
- The hash chain is said to detect truncation (KNOWN_LIMITS.md:37); a ledger cut
  off after a whole line verifies, and only an anchor shows it (`ValidMeansUntouched`
  holds because it compares both).

## 8. What is not modelled

Texts, prompts, formatting, HTML, HTTP, PDF layout and files other than the
ledger, the anchor log, the scenario sandboxes and the sources' contents; scores of
readiness and what a language model answers; due dates and waivers of follow-ups
(no code sets or calls them); UUID and SHA-256 collisions; clock differences
between processes (staleness is one advancing position). Most of `live_chat.py`
(HTML and scripts in strings) and `research_pdf.py` is of that kind.

Left out although it has state:

- The CSM bridge's remembered signal: `PCAAuditLoggerAdapter` (csm_bridge.py:14-26), which
  the external monitor has as its logger, keeps the result of the last RED signal, and the
  bridge returns it when the monitor fails (csm_bridge.py:76-81). The monitor is not in
  the repository. What the bridge records is `Continuity!RuntimeSignal`.
- Policy packs: applying one rewrites a configuration file; the policies in force are
  constants.
- Two runs of one scenario at the same time: each deletes the other's ledger and
  lock file (scenarios.py:146-151), and nothing useful can be said of the result.
- An edit of a source file that restores earlier content (content numbers only
  grow); the knowledge hub, which looks for the content among all its records, would
  not record the return.
- The falsification lab, theory and paper reviews, the writer's reviews: single
  records that no other handler decides on.

Components that only render are listed in `PROJECT.json` with the reason.

## 9. Plan

All components whose handlers decide on the ledger are modelled. What would come
next, in this order:

1. Proofs of the properties of Research, `RecordsFollowWork` first.
2. An abstract approval register (proposed, decided, carried out) that the queue,
   growth and skills each implement while commands do not overlap.
3. Composition of Growth with Continuity, so that a chat turn moves the claim by its
   own events instead of by `MoveContinuity`.
