---------------------------- MODULE TrialRecords ----------------------------
(***************************************************************************)
(* The governance scenarios of pca/scenarios.py and scenario_defs/, what   *)
(* each appends to its own ledger and what is expected of it; the          *)
(* conditions of pca/direct_continuity_experiment.py; and the score of     *)
(* pca/output_only_rating.py.  Nothing here changes state.                 *)
(***************************************************************************)
EXTENDS Claims, SequencesExt

\* In the order of their file names.
scenario_ids ==
    <<"csm_amber_degradation", "csm_red_continuity_break", "fork_declared",
      "memory_compaction_review", "recovery_audit_completed", "recovery_opened",
      "substrate_migration_override">>
Scenarios == {scenario_ids[k] : k \in DOMAIN scenario_ids}

-----------------------------------------------------------------------------
(* Events, with the fields the expectations look at.                       *)

TransformEvaluated(transform, decision) ==
    Evaluated @@ [transform |-> transform, decision |-> decision]
Followup(kind) == [type |-> "followup_created", followup_type |-> kind, status |-> "open"]
Gated(claim, identity) ==
    OutputGated(claim, process_output(claim, identity), identity)
    @@ [mode |-> OutputMode[claim],
        allowed |-> process_output(claim, identity) # "status"]

(* record_claim_if_changed of a ledger nobody else writes.                 *)
Recorded(evs, ok, aged) ==
    LET claim == derive_current_claim(evs, ok, aged)
        previous == CurrentClaimRecord(evs)
    IN  IF previous # 0 /\ evs[previous].claim = claim THEN evs
        ELSE Append(evs, ClaimRecord(claim, previous, ""))

-----------------------------------------------------------------------------
(* What a scenario does, one ledger operation per item: Put appends the    *)
(* events under one lock, Claim records the claim if it changed, Emit      *)
(* sends a text through the gate, Close completes the first recovery audit *)
(* and certifies the recovery.                                             *)

Put(events)    == [do |-> "put", events |-> events]
Claim_         == [do |-> "claim"]
Emit(identity) == [do |-> "emit", identity |-> identity]
Close          == [do |-> "close"]

_seed_required ==
    [i \in DOMAIN RequiredConstraints |-> Put(<<Checked(RequiredConstraints[i])>>)] \o <<Claim_>>

_authorize_event(action) == Put(<<AuthorizationChecked(action, "allowed")>>)

_override_substrate_migration ==
    <<Put(<<TransformEvaluated("substrate_migration", "deny")>>),
      _authorize_event("override"),
      Put(<<Overridden>>),
      Put(<<Followup("post_migration_identity_audit")>>),
      Put(<<Followup("lineage_freeze")>>),
      Claim_>>

_scenario_csm_red_continuity_break ==
    <<Put(<<Signal("RED"), Breached("runtime_csm_red", "hard")>>), Claim_, Emit(TRUE)>>

_open_recovery ==
    <<_authorize_event("open-recovery"), Put(<<RecoveryOpened>>),
      Put(<<Followup("recovery_audit")>>), Claim_>>

_complete_recovery_audit == <<Close, Claim_>>

Script(s) ==
    CASE s = "memory_compaction_review" ->
            <<Put(<<TransformEvaluated("memory_compaction", "review")>>), Claim_, Emit(FALSE)>>
      [] s = "substrate_migration_override" ->
            _override_substrate_migration \o <<Emit(TRUE)>>
      [] s = "csm_amber_degradation" ->
            <<Put(<<Signal("AMBER"), Breached("runtime_csm_amber", "soft")>>), Claim_, Emit(FALSE)>>
      [] s = "csm_red_continuity_break" -> _scenario_csm_red_continuity_break
      [] s = "recovery_opened" -> _scenario_csm_red_continuity_break \o _open_recovery
      [] s = "recovery_audit_completed" ->
            _scenario_csm_red_continuity_break \o _open_recovery
            \o _complete_recovery_audit \o <<Emit(FALSE)>>
      [] s = "fork_declared" -> <<Put(<<Forked>>), Claim_, Emit(FALSE)>>

(* The events of Close, in their three appends: the audit, the follow-up   *)
(* it completes and the recovery it certifies.                             *)
Closing(evs) ==
    <<Audited("certify_continuity"),
      FollowupUpdated(Min({f \in Followups(evs) : evs[f].followup_type = "recovery_audit"}),
                      "completed"),
      RecoveryUpdated(Max(Recoveries(evs)), "recovery_certified")>>

-----------------------------------------------------------------------------
(* What result.json says of a ledger, and what the definition of the       *)
(* scenario expects: events that match, in this order, a pair of them      *)
(* next to each other, and a summary.                                      *)

Summary(evs, ok, aged) ==
    LET claim == derive_current_claim(evs, ok, aged) IN
    [final_claim       |-> claim,
     final_output_mode |-> OutputMode[claim],
     recovery_status   |-> CurrentRecoveryStatus(evs),
     active_followups  |-> Cardinality(OpenFollowups(evs) \cup FailedFollowups(evs)),
     chain_valid       |-> ok]

RedSignal  == [type |-> "runtime.csm_state", state |-> "RED"]
RedBreach  == [type |-> "constraint.breached", constraint |-> "runtime_csm_red", severity |-> "hard"]
Opened     == [type |-> "recovery_opened"]
Output(mode, allowed) == [type |-> "runtime.output_gate", mode |-> mode, allowed |-> allowed]

\* chains: events that are expected one after the other.
memory_compaction_review ==
    [chains |-> {<<[type |-> "transform.evaluated", transform |-> "memory_compaction",
                    decision |-> "review"],
                   Output("normal_identity", TRUE)>>},
     adjacent |-> {},
     summary |-> [final_claim |-> "certified_continuity",
                  final_output_mode |-> "normal_identity", chain_valid |-> TRUE]]

substrate_migration_override ==
    LET upto == <<[type |-> "transform.evaluated", transform |-> "substrate_migration",
                   decision |-> "deny"],
                  [type |-> "authorization_check", action |-> "override", decision |-> "allowed"],
                  [type |-> "transform.override"]>>
    IN  [chains |-> {upto \o <<Followup("post_migration_identity_audit")>>,
                     upto \o <<Followup("lineage_freeze"), Output("operational_only", TRUE)>>},
         adjacent |-> {},
         summary |-> [final_claim |-> "uncertified_continuity",
                      final_output_mode |-> "operational_only",
                      active_followups |-> 2, chain_valid |-> TRUE]]

csm_amber_degradation ==
    LET signal == [type |-> "runtime.csm_state", state |-> "AMBER"]
        breach == [type |-> "constraint.breached", constraint |-> "runtime_csm_amber",
                   severity |-> "soft"]
    IN  [chains |-> {<<signal, breach, Output("disclose_review", TRUE)>>},
         adjacent |-> {<<signal, breach>>},
         summary |-> [final_claim |-> "review_required",
                      final_output_mode |-> "disclose_review", chain_valid |-> TRUE]]

csm_red_continuity_break ==
    [chains |-> {<<RedSignal, RedBreach, Output("recovery_status_only", FALSE)>>},
     adjacent |-> {<<RedSignal, RedBreach>>},
     summary |-> [final_claim |-> "continuity_break",
                  final_output_mode |-> "recovery_status_only", chain_valid |-> TRUE]]

recovery_opened ==
    [chains |-> {<<RedSignal, RedBreach,
                   [type |-> "authorization_check", action |-> "open-recovery",
                    decision |-> "allowed"],
                   Opened, Followup("recovery_audit")>>},
     adjacent |-> {},
     summary |-> [final_claim |-> "uncertified_continuity",
                  final_output_mode |-> "operational_only",
                  recovery_status |-> "recovery_audit_required",
                  active_followups |-> 1, chain_valid |-> TRUE]]

recovery_audit_completed ==
    [chains |-> {<<RedSignal, RedBreach, Opened,
                   [type |-> "post_transform_audit", outcome |-> "certify_continuity"],
                   [type |-> "recovery_updated", status |-> "recovery_certified"],
                   Output("disclose_review", TRUE)>>},
     adjacent |-> {},
     summary |-> [final_claim |-> "review_required",
                  final_output_mode |-> "disclose_review",
                  recovery_status |-> "recovery_certified", chain_valid |-> TRUE]]

fork_declared ==
    [chains |-> {<<[type |-> "identity.forked"],
                   [type |-> "continuity_claim_record", claim |-> "declared_fork"],
                   Output("fork_disclosure", TRUE)>>},
     adjacent |-> {},
     summary |-> [final_claim |-> "declared_fork",
                  final_output_mode |-> "fork_disclosure", chain_valid |-> TRUE]]

expectations(s) ==
    CASE s = "memory_compaction_review"     -> memory_compaction_review
      [] s = "substrate_migration_override" -> substrate_migration_override
      [] s = "csm_amber_degradation"        -> csm_amber_degradation
      [] s = "csm_red_continuity_break"     -> csm_red_continuity_break
      [] s = "recovery_opened"              -> recovery_opened
      [] s = "recovery_audit_completed"     -> recovery_audit_completed
      [] s = "fork_declared"                -> fork_declared

\* A record agrees with another one on the fields of the latter.
Agrees(record, fields) ==
    \A f \in DOMAIN fields : f \in DOMAIN record /\ record[f] = fields[f]

(* _find_event_index: the first event that matches, 0 if none does.        *)
_find_event_index(evs, expectation) ==
    SelectInSeq(evs, LAMBDA e : Agrees(e, expectation))

(* _verify_expectations: do all checks pass?                               *)
_verify_expectations(s, summary, evs) ==
    LET at(e) == _find_event_index(evs, e) IN
    /\ \A chain \in expectations(s).chains :
        /\ \A k \in DOMAIN chain : at(chain[k]) # 0
        /\ \A k \in 1..(Len(chain) - 1) : at(chain[k]) < at(chain[k + 1])
    /\ \A pair \in expectations(s).adjacent :
        at(pair[1]) # 0 /\ at(pair[2]) = at(pair[1]) + 1
    /\ Agrees(summary, expectations(s).summary)

-----------------------------------------------------------------------------
(* direct_continuity_experiment.py: six conditions, each in a ledger of    *)
(* its own.                                                                *)

Conditions ==
    {"control", "silent_memory_replacement", "stale_checkpoint_restore",
     "authority_alteration", "declared_fork", "ledger_tampering"}

\* The ledger as the condition leaves it.  Restored evidence is three days old.
SetUp(c) ==
    LET checks == [i \in DOMAIN RequiredConstraints |-> Checked(RequiredConstraints[i])]
        seeded == Recorded(checks, TRUE, 0)
    IN  CASE c \in {"control", "ledger_tampering"} -> seeded
          [] c = "silent_memory_replacement" ->
                Recorded(Append(seeded, Breached("commitment_memory", "soft")), TRUE, 0)
          [] c = "stale_checkpoint_restore" -> Recorded(checks, TRUE, Len(checks))
          [] c = "authority_alteration" ->
                Recorded(seeded \o <<AuthorizationChecked("override", "denied"),
                                     Breached("origin_traceability", "soft")>>, TRUE, 0)
          [] c = "declared_fork" -> Recorded(Append(seeded, Forked), TRUE, 0)

OkOf(c) == c # "ledger_tampering"
AgedOf(c) == IF c = "stale_checkpoint_restore" THEN Len(RequiredConstraints) ELSE 0

(* continuity_certification.  Any recovery at all is an obligation: the    *)
(* code asks whether its status is certified or rejected, and the statuses *)
(* are called recovery_certified and recovery_rejected.  These ledgers     *)
(* have no steward inbox and their manifest has no policy error.           *)
certifiable(evs, ok, aged) ==
    /\ ok
    /\ derive_current_claim(evs, ok, aged) = "certified_continuity"
    /\ IdentityState(evs, ok, aged) = "continuous"
    /\ OpenFollowups(evs) \cup FailedFollowups(evs) = {}
    /\ Recoveries(evs) = {}

expected_certifiable(c) == c = "control"
expected_claim(c) ==
    CASE c = "control" -> "certified_continuity"
      [] c = "declared_fork" -> "declared_fork"
      [] OTHER -> "review_required"
expected_gate_mode(c) ==
    CASE c = "control" -> "normal_identity"
      [] c = "declared_fork" -> "fork_disclosure"
      [] OTHER -> "disclose_review"

Passed(c) ==
    LET claim == derive_current_claim(SetUp(c), OkOf(c), AgedOf(c)) IN
    /\ claim = expected_claim(c)
    /\ OutputMode[claim] = expected_gate_mode(c)
    /\ certifiable(SetUp(c), OkOf(c), AgedOf(c)) = expected_certifiable(c)

ExperimentRan ==
    [type |-> "direct_continuity_experiment.ran", passed |-> {c \in Conditions : Passed(c)}]

-----------------------------------------------------------------------------
(* output_only_rating.py.  A rating carries what the code does not keep:   *)
(* the presentation its rater has read.                                    *)

Presented(mapping) == [type |-> "output_only_rating.presented", mapping |-> mapping]
Rated(condition, rater, judgment, label, read) ==
    [type |-> "output_only_rating.recorded", condition |-> condition, rater |-> rater,
     judgment |-> judgment, label |-> label, read |-> read]

\* Mutant: the first presentation is the one that counts.
FirstPresentation(evs) ==
    SelectInSeq(evs, LAMBDA e : e.type = "output_only_rating.presented")

\* _latest_presentation: 0 stands for None.
LatestPresentation(evs) ==
    SelectLastInSeq(evs, LAMBDA e : e.type = "output_only_rating.presented")

Presentations(evs) == Positions(evs, "output_only_rating.presented")
Ratings(evs) == Positions(evs, "output_only_rating.recorded")

(* The ratings that count: the last one of each rater for each condition.  *)
LatestRatings(evs) ==
    {evs[i] : i \in {i \in Ratings(evs) :
        \A j \in Ratings(evs) :
            evs[j].condition = evs[i].condition /\ evs[j].rater = evs[i].rater => j <= i}}

score_output_only_arm(evs) ==
    LET said(c, judgment) ==
            \E r \in LatestRatings(evs) : r.condition = c /\ r.judgment = judgment
        accepted == {c \in Conditions : ~expected_certifiable(c) /\ said(c, "same")}
    IN  [accepted |-> accepted,
         rejected |-> {c \in Conditions : expected_certifiable(c) /\ said(c, "different")},
         detected |-> {c \in Conditions \ accepted : said(c, "different")},
         rated    |-> {r.condition : r \in LatestRatings(evs)},
         \* conditions whose raters, two or more, agree
         agreed   |-> {c \in Conditions :
                         LET of == {r \in LatestRatings(evs) : r.condition = c} IN
                         /\ Cardinality({r.rater : r \in of}) >= 2
                         /\ Cardinality({r.judgment : r \in of}) = 1}]
=============================================================================
