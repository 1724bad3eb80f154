---------------------------- MODULE GrowthRecords ----------------------------
(***************************************************************************)
(* What the ledger says about learning: the folds of pca/growth.py,        *)
(* growth_conflicts.py, self_model.py, memory_signals.py, memory_cards.py, *)
(* reflections.py, reflection_queue.py and chat_sessions.py, the growth    *)
(* gate, and the classifiers of lucien/.  Nothing here changes state.      *)
(*                                                                         *)
(* A ledger is a sequence of event records; the id of a growth record, a   *)
(* conflict, a task or a session (a uuid in the code) is the position of   *)
(* the event that created it.  Learned text is stored as a hash, so a text *)
(* is what the code finds in it: contrary, it overrides a standing         *)
(* commitment; and what a steward wrote next to it: marked, its evidence   *)
(* names a standing commitment.                                            *)
(***************************************************************************)
EXTENDS Integers, Sequences, FiniteSetsExt

Claim == {"certified_continuity", "review_required", "uncertified_continuity",
          "declared_fork", "continuity_break"}
GrowthKind == {"memory", "commitment", "skill", "preference", "policy", "identity"}
IdentityImpact == {"low", "medium", "high", "identity_defining"}
GrowthReviewDecision == {"accepted", "rejected"}
GrowthConflictDecision == {"accept_new", "keep_existing", "fork"}
MemorySignalType == {"reinforced", "contradicted", "stale"}

-----------------------------------------------------------------------------
(* Events.  Growth that a turn refuses, and the claim, come from elsewhere: *)
(* ContinuityMoved stands for whatever changes the derived claim.          *)

ContinuityMoved(c) == [type |-> "continuity", claim |-> c]

\* High-impact and identity-defining growth awaits a review.
GrowthProposed(kind, impact, marked, contrary) ==
    [type |-> "lucien.growth_proposed", kind |-> kind, impact |-> impact,
     marked |-> marked, contrary |-> contrary, claim |-> "none",
     status |-> IF impact \in {"high", "identity_defining"}
                THEN "requires_review" ELSE "proposed"]
GrowthUpdated(g, status, claim, auto) ==
    [type |-> "lucien.growth_updated", growth |-> g, status |-> status, claim |-> claim,
     auto |-> auto]
GrowthReviewed(g, decision, claim) ==
    [type |-> "lucien.growth_reviewed", growth |-> g, decision |-> decision, claim |-> claim]
ConflictDetected(g, with) ==
    [type |-> "lucien.growth_conflict_detected", growth |-> g, with |-> with]
ConflictResolved(c, decision) ==
    [type |-> "lucien.growth_conflict_resolved", conflict |-> c, decision |-> decision]
MemorySignalRecorded(g, signal) ==
    [type |-> "lucien.memory_signal_recorded", growth |-> g, signal |-> signal]
MemoryEvidenceRequested(g) == [type |-> "lucien.memory_evidence_requested", growth |-> g]
ReflectionRecorded(claim, growth, conflicts, cards) ==
    [type |-> "lucien.reflection_recorded", claim |-> claim, growth |-> growth,
     conflicts |-> conflicts, cards |-> cards]
\* A task's reason says how many things there were to review.
TaskOpened(kind, count) == [type |-> "reflection.task_opened", kind |-> kind, count |-> count]
TaskClosed(type, t)     == [type |-> type, task |-> t]
SessionStarted          == [type |-> "lucien.chat_session_started"]
TurnRecorded(s, index)  == [type |-> "lucien.chat_turn_recorded", session |-> s, index |-> index]
SessionClosed(s, turns) == [type |-> "lucien.chat_session_closed", session |-> s, turns |-> turns]
\* What a turn also writes and nothing here reads: the message, the route to
\* a model and its answer or error; the monitor's signal and the output.
TurnInput  == [type |-> "lucien.input"]
TurnOutput == [type |-> "runtime.output_gate"]

Positions(evs, type) == {i \in DOMAIN evs : evs[i].type = type}

-----------------------------------------------------------------------------
(* The derived claim, and what it permits.                                 *)

CurrentClaim(evs) == evs[Max(Positions(evs, "continuity"))].claim

GrowthGate(claim, action, impact) ==
    \/ claim \in {"certified_continuity", "declared_fork"}
    \/ claim = "review_required"
       /\ ~(action = "accept" /\ impact \in {"high", "identity_defining"})
    \/ claim = "uncertified_continuity" /\ action = "propose"
    \/ claim = "continuity_break" /\ action = "propose" /\ impact = "low"

-----------------------------------------------------------------------------
(* Growth records, the self-model and the memory cards.                    *)

Growths(evs) == Positions(evs, "lucien.growth_proposed")
UpdatesOf(evs, g) == {i \in Positions(evs, "lucien.growth_updated") : evs[i].growth = g}
GrowthRecord(evs, g) == evs[Max({g} \cup UpdatesOf(evs, g))]
Accepted(evs) == {g \in Growths(evs) : GrowthRecord(evs, g).status = "accepted"}
ActiveGrowth(evs) ==
    {g \in Growths(evs) : GrowthRecord(evs, g).status \in {"proposed", "requires_review"}}

(* _accepted_marker_growth_ids, of the self-model.                         *)
StandingCommitments(evs) ==
    {g \in Accepted(evs) : evs[g].marked /\ evs[g].kind \in {"commitment", "policy", "identity"}}

MemoryCards(evs) == {g \in Accepted(evs) : evs[g].kind = "memory"}

(* The card confirmed last; 0 when there is none.                          *)
LatestMemoryCard(evs) ==
    LET confirmed == {i \in Positions(evs, "lucien.growth_updated") :
                         /\ evs[i].growth \in MemoryCards(evs)
                         /\ i = Max(UpdatesOf(evs, evs[i].growth))}
    IN  IF confirmed = {} THEN 0 ELSE evs[Max(confirmed)].growth

SignalsFor(evs, g, signal) ==
    {i \in Positions(evs, "lucien.memory_signal_recorded") :
        evs[i].growth = g /\ evs[i].signal = signal}

(* Confidence in hundredths, by the impact of the memory and its signals.  *)
BaseConfidence == [low |-> 92, medium |-> 82, high |-> 68, identity_defining |-> 50]
Bounded(value) == Min({99, Max({0, value})})
EffectiveConfidence(evs, g) ==
    LET n(signal) == Cardinality(SignalsFor(evs, g, signal))
    IN  Bounded(BaseConfidence[evs[g].impact]
                + 4 * n("reinforced") - 18 * n("contradicted") - 8 * n("stale"))

WeakCards(evs) ==
    {g \in MemoryCards(evs) :
        \/ EffectiveConfidence(evs, g) < 75
        \/ SignalsFor(evs, g, "contradicted") # {}
        \/ SignalsFor(evs, g, "stale") # {}}

-----------------------------------------------------------------------------
(* Conflicts, reflections and their tasks.                                 *)

Conflicts(evs) == Positions(evs, "lucien.growth_conflict_detected")
ResolutionsOf(evs, c) ==
    {i \in Positions(evs, "lucien.growth_conflict_resolved") : evs[i].conflict = c}
UnresolvedConflicts(evs) == {c \in Conflicts(evs) : ResolutionsOf(evs, c) = {}}

(* The tasks a reflection calls for, in the order they are opened: all of  *)
(* them, and those that are not among the existing ones.                   *)
NewTaskSpecs(r, existing) ==
    LET spec(needed, kind, count) ==
            IF needed /\ TaskOpened(kind, count) \notin existing
            THEN <<TaskOpened(kind, count)>> ELSE <<>>
    IN  spec(r.growth > 0, "review_growth", r.growth)
        \o spec(r.conflicts > 0, "resolve_conflict", r.conflicts)
        \o spec(r.cards > 0, "audit_memory", r.cards)
        \o spec(r.claim = "continuity_break", "open_recovery", 1)
TaskSpecs(r) == NewTaskSpecs(r, {})

Tasks(evs) == Positions(evs, "reflection.task_opened")
Closings(evs, t) ==
    {i \in Positions(evs, "reflection.task_resolved")
           \cup Positions(evs, "reflection.task_dismissed") : evs[i].task = t}
OpenTasks(evs) == {t \in Tasks(evs) : Closings(evs, t) = {}}

-----------------------------------------------------------------------------
(* Chat sessions.                                                          *)

TurnsOf(evs, s) == {i \in Positions(evs, "lucien.chat_turn_recorded") : evs[i].session = s}
ClosingsOf(evs, s) == {i \in Positions(evs, "lucien.chat_session_closed") : evs[i].session = s}

-----------------------------------------------------------------------------
(* What the classifiers of a chat turn can find in a message: growth,      *)
(* whether its text is contrary, and a signal about the latest memory.     *)
(* Words that alter the identity make identity-defining growth; those, and *)
(* words that put comfort over truth, are contrary.                        *)

NoGrowth == [kind |-> "none", impact |-> "low"]
classify_growth ==
    {NoGrowth}
    \cup [kind : {"memory"}, impact : {"low"}]
    \cup [kind : {"preference", "skill"}, impact : {"medium"}]
    \cup [kind : {"commitment", "policy"}, impact : {"high"}]
    \cup [kind : {"identity"}, impact : {"identity_defining"}]
classify_memory_signal == {"none"} \cup MemorySignalType

\* What a user can say.  Words that alter the identity are always contrary.
Message ==
    {m \in [growth : classify_growth, contrary : BOOLEAN, signal : classify_memory_signal] :
        m.growth.kind = "identity" => m.contrary}

(* detect_growth_conflict against the commitments known to the turn.       *)
detect_growth_conflict(contrary, commitments) == IF contrary THEN commitments ELSE {}
=============================================================================
