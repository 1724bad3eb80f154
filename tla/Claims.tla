------------------------------- MODULE Claims -------------------------------
(***************************************************************************)
(* What a continuity ledger entitles an identity to say: the folds of      *)
(* pca/evaluator.py, followups.py, recovery.py, claims.py and state.py     *)
(* over the events of a ledger, and the speech policy of output_gate.py    *)
(* and runtime_adapter.py.  Nothing here changes state.                    *)
(*                                                                         *)
(* A ledger is a sequence of event records; an id (a uuid in the code) is  *)
(* the position of the event that created the thing it names.  Besides the *)
(* events a verdict depends on `ok`, the result of verify_chain(), and on  *)
(* the clock: `aged` is the position up to which events are older than     *)
(* freshness_seconds.                                                      *)
(***************************************************************************)
EXTENDS Integers, Sequences, FiniteSetsExt

CONSTANTS
    RequiredConstraints,  \* the names of the manifest's required constraints, in order
    Perishable            \* those of them with freshness_seconds

Required == {RequiredConstraints[i] : i \in DOMAIN RequiredConstraints}

ASSUME ClaimsAssumption ==
    /\ RequiredConstraints \in Seq(Required)
    /\ Perishable \subseteq Required

-----------------------------------------------------------------------------
(* Events.                                                                 *)

Checked(c)      == [type |-> "constraint.checked", constraint |-> c]
Breached(c, s)  == [type |-> "constraint.breached", constraint |-> c, severity |-> s]
Forked          == [type |-> "identity.forked"]
Signal(s)       == [type |-> "runtime.csm_state", state |-> s]
Evaluated       == [type |-> "transform.evaluated"]
Overridden      == [type |-> "transform.override"]
Audited(o)      == [type |-> "post_transform_audit", outcome |-> o]
AuthorizationChecked(action, decision) ==
    [type |-> "authorization_check", action |-> action, decision |-> decision]
FollowupCreated(source) == [type |-> "followup_created", source |-> source]
FollowupUpdated(f, s)   == [type |-> "followup_updated", id |-> f, status |-> s]
RecoveryOpened          == [type |-> "recovery_opened"]
RecoveryUpdated(r, s)   == [type |-> "recovery_updated", id |-> r, status |-> s]
ClaimRecord(c, prev, source) ==
    [type |-> "continuity_claim_record", claim |-> c, supersedes |-> prev,
     source |-> source]
OutputGated(c, text, identity) ==
    [type |-> "runtime.output_gate", claim |-> c, text |-> text, identity |-> identity]

Positions(evs, type) == {i \in DOMAIN evs : evs[i].type = type}

-----------------------------------------------------------------------------
(* evaluator.py: the identity state.                                       *)

HardBreaches(evs) == {i \in Positions(evs, "constraint.breached") : evs[i].severity = "hard"}

EvidenceAt(evs) ==
    Positions(evs, "constraint.checked") \cup Positions(evs, "constraint.breached")

Evidence(evs, c) == {i \in EvidenceAt(evs) : evs[i].constraint = c}

(* _latest_constraint_events: later evidence replaces earlier evidence for *)
(* the same constraint.                                                    *)
LatestEvidence(evs) ==
    {i \in EvidenceAt(evs) : \A j \in Evidence(evs, evs[i].constraint) : j <= i}

SoftBreaches(evs) ==
    {i \in LatestEvidence(evs) :
        evs[i].type = "constraint.breached" /\ evs[i].severity # "hard"}

(* Mutant: a check clears the breaches that came before it, hard ones too. *)
CandidatesForgiving(evs, ok, aged) ==
    {"continuous"}
    \cup {r \in {"chain_invalid"} : ~ok}
    \cup {r \in {"no_events"} : evs = <<>>}
    \cup {r \in {"hard_breach"} : HardBreaches(evs) \cap LatestEvidence(evs) # {}}
    \cup {r \in {"declared_fork"} : Positions(evs, "identity.forked") # {}}
    \cup {r \in {"stale_required_evidence"} :
            \E c \in Perishable, i \in LatestEvidence(evs) : evs[i].constraint = c /\ i <= aged}
    \cup {r \in {"missing_required_evidence"} : \E c \in Required : Evidence(evs, c) = {}}
    \cup {r \in {"soft_breach"} : SoftBreaches(evs) # {}}

(* _evaluation_candidates: every rule that applies.  An empty ledger       *)
(* returns early with at most two candidates.                              *)
Candidates(evs, ok, aged) ==
    {r \in {"chain_invalid"} : ~ok}
    \cup IF evs = <<>> THEN {"no_events"} ELSE
         {"continuous"}
         \cup {r \in {"hard_breach"} : HardBreaches(evs) # {}}
         \cup {r \in {"declared_fork"} : Positions(evs, "identity.forked") # {}}
         \cup {r \in {"stale_required_evidence"} :
                 \E i \in LatestEvidence(evs) : evs[i].constraint \in Perishable /\ i <= aged}
         \cup {r \in {"missing_required_evidence"} :
                 \E c \in Required : Evidence(evs, c) = {}}
         \cup {r \in {"soft_breach"} : SoftBreaches(evs) # {}}

EVALUATION_PRECEDENCE ==
    <<"chain_invalid", "no_events", "hard_breach", "declared_fork",
      "stale_required_evidence", "missing_required_evidence", "soft_breach",
      "continuous">>

(* The first rule of the precedence that applies.                          *)
DecidingRule(evs, ok, aged) ==
    EVALUATION_PRECEDENCE[
        Min({k \in DOMAIN EVALUATION_PRECEDENCE :
                EVALUATION_PRECEDENCE[k] \in Candidates(evs, ok, aged)})]

StateOfRule ==
    [chain_invalid             |-> "suspended",
     no_events                 |-> "suspended",
     hard_breach               |-> "broken",
     declared_fork             |-> "forked",
     stale_required_evidence   |-> "suspended",
     missing_required_evidence |-> "suspended",
     soft_breach               |-> "degraded",
     continuous                |-> "continuous"]

IdentityState(evs, ok, aged) == StateOfRule[DecidingRule(evs, ok, aged)]

default_claim_for_identity_state ==
    [continuous |-> "certified_continuity",
     degraded   |-> "review_required",
     forked     |-> "declared_fork",
     suspended  |-> "review_required",
     broken     |-> "continuity_break"]

Claim == {"certified_continuity", "review_required", "uncertified_continuity",
          "declared_fork", "continuity_break"}

-----------------------------------------------------------------------------
(* followups.py and recovery.py: the last update of a record wins.         *)

LatestStatus(evs, updates, id, initial) ==
    LET mine == {i \in Positions(evs, updates) : evs[i].id = id}
    IN  IF mine = {} THEN initial ELSE evs[Max(mine)].status

Followups(evs) == Positions(evs, "followup_created")
FollowupStatus(evs, f) == LatestStatus(evs, "followup_updated", f, "open")

OpenFollowups(evs)   == {f \in Followups(evs) : FollowupStatus(evs, f) = "open"}
FailedFollowups(evs) == {f \in Followups(evs) : FollowupStatus(evs, f) = "failed"}

Recoveries(evs) == Positions(evs, "recovery_opened")
RecoveryStatus(evs, r) ==
    LatestStatus(evs, "recovery_updated", r, "recovery_audit_required")

(* current_recovery_record: the one opened last, whichever was updated last. *)
CurrentRecoveryStatus(evs) ==
    IF Recoveries(evs) = {} THEN "none" ELSE RecoveryStatus(evs, Max(Recoveries(evs)))

-----------------------------------------------------------------------------
(* state.py: the claim.                                                    *)

continuity_claim_from_followups(evs, default) ==
    IF FailedFollowups(evs) # {} THEN "continuity_break"
    ELSE IF OpenFollowups(evs) # {} THEN "uncertified_continuity"
    ELSE default

(* Mutant: a certified recovery restores certified continuity.             *)
AfterRecoveryErasing(evs, claim) ==
    LET status == CurrentRecoveryStatus(evs) IN
    IF status = "recovery_rejected" THEN "continuity_break"
    ELSE IF claim # "continuity_break" \/ status = "none" THEN claim
    ELSE IF status = "recovery_certified" THEN "certified_continuity"
    ELSE "uncertified_continuity"

(* Mutant: the status of the recovery is returned where the claim belongs. *)
AfterRecoveryUnmapped(evs, claim) ==
    LET status == CurrentRecoveryStatus(evs) IN
    IF status = "recovery_rejected" THEN status ELSE claim

(* The recovery opened last has its say: a rejection breaks continuity, a  *)
(* certification or a recovery under way mitigates a break.                *)
AfterRecovery(evs, claim) ==
    LET status == CurrentRecoveryStatus(evs) IN
    IF status = "recovery_rejected" THEN "continuity_break"
    ELSE IF claim # "continuity_break" \/ status = "none" THEN claim
    ELSE IF status = "recovery_certified" THEN "review_required"
    ELSE "uncertified_continuity"

derive_current_claim(evs, ok, aged) ==
    AfterRecovery(evs, continuity_claim_from_followups(evs,
        default_claim_for_identity_state[IdentityState(evs, ok, aged)]))

(* claims.py: the last claim record, if any (0 stands for None).           *)
CurrentClaimRecord(evs) ==
    LET claims == Positions(evs, "continuity_claim_record")
    IN  IF claims = {} THEN 0 ELSE Max(claims)

-----------------------------------------------------------------------------
(* output_gate.py and process_output: what becomes of a text.              *)

OutputMode ==
    [certified_continuity   |-> "normal_identity",
     review_required        |-> "disclose_review",
     uncertified_continuity |-> "operational_only",
     declared_fork          |-> "fork_disclosure",
     continuity_break       |-> "recovery_status_only"]

(* Mutant: under review the text is passed through whatever it claims.     *)
process_output_lenient(claim, identity) ==
    CASE OutputMode[claim] \in {"normal_identity", "disclose_review"} -> "original"
      [] OutputMode[claim] = "recovery_status_only" -> "status"
      [] OTHER -> "disclosed"

(* identity: whether the text contains an identity claim.  The text goes   *)
(* out as it is, behind the required disclosure, or not at all, replaced   *)
(* by the disclosure.                                                      *)
process_output(claim, identity) ==
    CASE OutputMode[claim] = "normal_identity" -> "original"
      [] OutputMode[claim] = "recovery_status_only" -> "status"
      [] OutputMode[claim] = "disclose_review" /\ ~identity -> "original"
      [] OTHER -> "disclosed"
=============================================================================
