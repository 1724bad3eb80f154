--------------------------- MODULE ContinuityProofs ---------------------------
(***************************************************************************)
(* Theorems about Continuity, for every manifest, any set of processes and *)
(* commands, and any number of commands: type correctness; that certified  *)
(* continuity is derived from exactly the clear ledgers, whatever faults   *)
(* happen; and what the handlers do in several steps, with the claim       *)
(* records, the overrides and their obligations, the privileged events and *)
(* their checks, and the gate.                                             *)
(*                                                                         *)
(* The second one has two halves.  What the derivation of the claim says   *)
(* of any sequence of events is settled without a word about behaviours    *)
(* (CertifiedOnlyIfClear, ClearIsCertified), under one hypothesis: no      *)
(* recovery is updated that was never opened.  That the ledgers a run      *)
(* reaches satisfy it is RecoveryInv, an inductive invariant that also     *)
(* speaks of the events a handler has yet to append.                       *)
(*                                                                         *)
(* The proofs about handlers go through the same three stages.  What a     *)
(* handler may still append is a plan of a known shape (Planned,           *)
(* Progress), kept by every step of it.  Each step is one of ten forms     *)
(* (Form, StepForms), and each kind of event is appended by one of them    *)
(* (FormAppends).  Then each theorem has an invariant of its own, about    *)
(* the ledger and about the handlers that hold something they read or      *)
(* planned before:                                                         *)
(*                                                                         *)
(*   CertifiedRecordsRest       RestsInv    any processes, any faults      *)
(*   OverridesOblige            ObligedInv  any processes, no kill         *)
(*   BreaksAreLeftDeliberately  (a step)    any processes, any faults      *)
(*   SoleSpeechIsClear,                                                    *)
(*   SoleClaimsFormChain        SoleInv     one process, any faults        *)
(*   SoleRecordedClaimCurrent   CurrentInv  one process, no fault          *)
(*   PrivilegesAreChecked       BackedInv   any processes, any faults      *)
(***************************************************************************)
EXTENDS Continuity, FoldLemmas, TLAPS

-----------------------------------------------------------------------------
(* The evaluator: the precedence lets one rule decide.                     *)

LEMMA PositionsTyped ==
    ASSUME NEW evs \in Seq(Event), NEW type
    PROVE  Positions(evs, type) \in SUBSET (1..Len(evs)) /\ Len(evs) \in Nat
BY DEF Positions

(* Some rule always applies, and only the last one leads to continuous.    *)
LEMMA RuleDecides ==
    ASSUME NEW evs, NEW verified \in BOOLEAN, NEW stale
    PROVE  /\ IdentityState(evs, verified, stale)
                  \in {"continuous", "degraded", "forked", "suspended", "broken"}
           /\ IdentityState(evs, verified, stale) = "continuous" =>
                  Candidates(evs, verified, stale) = {"continuous"}
<1> DEFINE cs == Candidates(evs, verified, stale)
           ranks == {k \in DOMAIN EVALUATION_PRECEDENCE : EVALUATION_PRECEDENCE[k] \in cs}
<1>1. /\ cs \subseteq {"chain_invalid", "no_events", "hard_breach", "declared_fork",
                       "stale_required_evidence", "missing_required_evidence",
                       "soft_breach", "continuous"}
      /\ "no_events" \in cs \/ "continuous" \in cs
    BY DEF Candidates
<1> HIDE DEF cs
<1>2. ranks \in SUBSET (1..8) /\ ranks # {}
    <2>1. ranks \in SUBSET (1..8)
        BY DEF EVALUATION_PRECEDENCE
    <2>2. "no_events" \in cs => 2 \in ranks
        BY DEF EVALUATION_PRECEDENCE
    <2>3. "continuous" \in cs => 8 \in ranks
        BY DEF EVALUATION_PRECEDENCE
    <2>4. QED BY <1>1, <2>1, <2>2, <2>3
<1>3. Min(ranks) \in ranks /\ \A k \in ranks : Min(ranks) <= k
    <2> HIDE DEF ranks
    <2>1. QED BY <1>2, MinIsLeast
<1>4. DecidingRule(evs, verified, stale) = EVALUATION_PRECEDENCE[Min(ranks)]
    BY DEF DecidingRule, cs
<1> DEFINE first == Min(ranks)
<1>5. first \in 1..8 /\ \A k \in 1..8 : EVALUATION_PRECEDENCE[k] \in cs => first <= k
    BY <1>3 DEF EVALUATION_PRECEDENCE
<1> HIDE DEF first, ranks
<1>6. IdentityState(evs, verified, stale) = StateOfRule[EVALUATION_PRECEDENCE[first]]
    BY <1>4 DEF IdentityState, first
<1>7. StateOfRule[EVALUATION_PRECEDENCE[first]]
          \in {"continuous", "degraded", "forked", "suspended", "broken"}
    BY <1>5 DEF StateOfRule, EVALUATION_PRECEDENCE
<1>8. ASSUME StateOfRule[EVALUATION_PRECEDENCE[first]] = "continuous"
      PROVE  cs = {"continuous"}
    <2>1. first = 8
        BY <1>5, <1>8 DEF StateOfRule, EVALUATION_PRECEDENCE
    <2>2. \A k \in 1..7 : EVALUATION_PRECEDENCE[k] \notin cs
        BY <1>5, <2>1
    <2>3. /\ EVALUATION_PRECEDENCE[1] = "chain_invalid"
          /\ EVALUATION_PRECEDENCE[2] = "no_events"
          /\ EVALUATION_PRECEDENCE[3] = "hard_breach"
          /\ EVALUATION_PRECEDENCE[4] = "declared_fork"
          /\ EVALUATION_PRECEDENCE[5] = "stale_required_evidence"
          /\ EVALUATION_PRECEDENCE[6] = "missing_required_evidence"
          /\ EVALUATION_PRECEDENCE[7] = "soft_breach"
        BY DEF EVALUATION_PRECEDENCE
    <2>4. /\ "chain_invalid" \notin cs /\ "no_events" \notin cs
          /\ "hard_breach" \notin cs /\ "declared_fork" \notin cs
          /\ "stale_required_evidence" \notin cs
          /\ "missing_required_evidence" \notin cs /\ "soft_breach" \notin cs
        BY <2>2, <2>3
    <2>5. QED BY <1>1, <2>4
<1>9. QED BY <1>6, <1>7, <1>8 DEF cs

(* When no other rule applies, the last one decides.                       *)
LEMMA SoleCandidate ==
    ASSUME NEW evs, NEW verified, NEW stale,
           Candidates(evs, verified, stale) = {"continuous"}
    PROVE  IdentityState(evs, verified, stale) = "continuous"
<1> DEFINE ranks == {k \in DOMAIN EVALUATION_PRECEDENCE :
                        EVALUATION_PRECEDENCE[k] \in Candidates(evs, verified, stale)}
<1>1. ranks = {8}
    BY DEF EVALUATION_PRECEDENCE
<1>2. DecidingRule(evs, verified, stale) = EVALUATION_PRECEDENCE[Min(ranks)]
    BY DEF DecidingRule
<1> HIDE DEF ranks
<1>3. Min(ranks) = 8
    BY <1>1, MinIsLeast
<1>4. QED BY <1>2, <1>3 DEF IdentityState, StateOfRule, EVALUATION_PRECEDENCE

(* A derived claim is one of the five public claims.                       *)
LEMMA ClaimTyped ==
    ASSUME NEW evs, NEW verified \in BOOLEAN, NEW stale
    PROVE  derive_current_claim(evs, verified, stale) \in Claim
<1>1. default_claim_for_identity_state[IdentityState(evs, verified, stale)] \in Claim
    BY RuleDecides DEF default_claim_for_identity_state, Claim
<1>2. QED
    BY <1>1 DEF derive_current_claim, AfterRecovery, continuity_claim_from_followups, Claim

-----------------------------------------------------------------------------
(* Type correctness.                                                       *)
(* A handler that appends has something to append; it goes on to a read of *)
(* the ledger or ends; and it derives a claim before it uses one.          *)
Coherent(me) ==
    /\ me.then \in {"idle", "examine", "derive", "gate_claiming", "gate_plain"}
    /\ me.at = "append" => me.todo # <<>>
    /\ me.at \in {"compare", "record", "emit"} => me.derived \in Claim

Appending == \A p \in Procs : Coherent(proc[p])

TypeInv == TypeOK /\ Appending

(* What the handlers append are events.                                    *)
LEMMA EventsTyped ==
    /\ \A c \in ConstraintName : Checked(c) \in Event
    /\ \A c \in ConstraintName, s \in {"soft", "hard"} : Breached(c, s) \in Event
    /\ \A s \in {"GREEN", "AMBER", "RED"} : Signal(s) \in Event
    /\ {Forked, Evaluated, Overridden, RecoveryOpened} \subseteq Event
    /\ \A o \in AuditOutcome : Audited(o) \in Event
    /\ \A c \in CommandName, d \in {"allowed", "denied"} : AuthorizationChecked(c, d) \in Event
    /\ \A n \in Nat : FollowupCreated(n) \in Event
    /\ \A n \in Nat, s \in {"completed", "failed"} : FollowupUpdated(n, s) \in Event
    /\ \A n \in Nat, s \in {"recovery_certified", "recovery_rejected"} :
           RecoveryUpdated(n, s) \in Event
    /\ \A c \in Claim, m, n \in Nat : ClaimRecord(c, m, n) \in Event
    /\ \A c \in Claim, t \in {"original", "disclosed", "status"}, i \in BOOLEAN :
           OutputGated(c, t, i) \in Event
<1> USE DEF Event
<1>1. /\ \A c \in ConstraintName : Checked(c) \in Event
      /\ \A c \in ConstraintName, s \in {"soft", "hard"} : Breached(c, s) \in Event
    OBVIOUS
<1>2. /\ \A s \in {"GREEN", "AMBER", "RED"} : Signal(s) \in Event
      /\ {Forked, Evaluated, Overridden, RecoveryOpened} \subseteq Event
      /\ \A o \in AuditOutcome : Audited(o) \in Event
    OBVIOUS
<1>3. \A c \in CommandName, d \in {"allowed", "denied"} : AuthorizationChecked(c, d) \in Event
    BY DEF AuthorizationChecked
<1>4. /\ \A n \in Nat : FollowupCreated(n) \in Event
      /\ \A n \in Nat, s \in {"completed", "failed"} : FollowupUpdated(n, s) \in Event
    BY DEF FollowupCreated, FollowupUpdated
<1>5. \A n \in Nat, s \in {"recovery_certified", "recovery_rejected"} :
           RecoveryUpdated(n, s) \in Event
    BY DEF RecoveryUpdated
<1>6. \A c \in Claim, m, n \in Nat : ClaimRecord(c, m, n) \in Event
    BY DEF ClaimRecord
<1>7. \A c \in Claim, t \in {"original", "disclosed", "status"}, i \in BOOLEAN :
           OutputGated(c, t, i) \in Event
    BY DEF OutputGated
<1>8. QED BY <1>1, <1>2, <1>3, <1>4, <1>5, <1>6, <1>7

(* A command starts with typed batches.                                    *)
LEMMA BeginTyped ==
    ASSUME TypeInv, NEW p \in Procs, NEW batches \in Seq(Seq(Event)),
           NEW then \in {"idle", "examine", "derive", "gate_claiming", "gate_plain"},
           Begin(p, batches, then)
    PROVE  TypeInv'
<1> DEFINE me == Running(IF batches = <<>> THEN then ELSE "append", batches, then)
<1>1. /\ proc' = [proc EXCEPT ![p] = me]
      /\ UNCHANGED <<log, ok, aged>>
      /\ started' = started + 1 /\ started < MaxCommands
    BY DEF Begin
<1>2. me \in Local(Len(log))
    BY DEF TypeInv, TypeOK, Stage, Local, Running
<1>3. Coherent(me)
    BY DEF Running, Coherent
<1> HIDE DEF me
<1>4. TypeOK'
    BY <1>1, <1>2, ContinuityAssumption DEF TypeInv, TypeOK
<1>5. Appending'
    BY <1>1, <1>3 DEF TypeInv, TypeOK, Appending
<1>6. QED BY <1>4, <1>5 DEF TypeInv

LEMMA AuthorizedTyped ==
    ASSUME TypeInv, NEW p \in Procs, NEW command \in CommandName,
           NEW authority, NEW required, NEW batches \in Seq(Seq(Event)),
           NEW then \in {"idle", "examine", "derive", "gate_claiming", "gate_plain"},
           Authorized(p, command, authority, required, batches, then)
    PROVE  TypeInv'
<1> DEFINE allowed == authorize(authority, required)
           check == AuthorizationChecked(command, IF allowed THEN "allowed" ELSE "denied")
<1>1. check \in Event
    BY EventsTyped
<1>2. /\ <<<<check>>>> \o batches \in Seq(Seq(Event)) /\ <<<<check>>>> \o batches # <<>>
      /\ <<<<check>>>> \in Seq(Seq(Event)) /\ <<<<check>>>> # <<>>
    BY <1>1
<1>3. CASE allowed
    <2>1. Begin(p, <<<<check>>>> \o batches, then)
        BY <1>3 DEF Authorized
    <2> HIDE DEF check
    <2>2. QED BY <1>2, <2>1, BeginTyped
<1>4. CASE ~allowed
    <2>1. Begin(p, <<<<check>>>>, "idle")
        BY <1>4 DEF Authorized
    <2> HIDE DEF check
    <2>2. QED BY <1>2, <2>1, BeginTyped DEF Stage
<1>5. QED BY <1>3, <1>4

LEMMA CommandTyped == ASSUME TypeInv, NEW p \in Procs, Command(p) PROVE TypeInv'
<1> USE EventsTyped DEF Stage, CommandName
<1>1. ASSUME Check(p) PROVE TypeInv'
    <2>1. PICK c \in Checkable : Begin(p, <<<<Checked(c)>>>>, "derive")
        BY <1>1 DEF Check
    <2>2. Checked(c) \in Event
        BY DEF ConstraintName
    <2>3. <<<<Checked(c)>>>> \in Seq(Seq(Event))
        BY <2>2
    <2>4. QED BY <2>1, <2>3, BeginTyped
<1>2. ASSUME Breach(p) PROVE TypeInv'
    <2>1. PICK c \in Checkable, s \in {"soft", "hard"} : Begin(p, <<<<Breached(c, s)>>>>, "derive")
        BY <1>2 DEF Breach
    <2>2. Breached(c, s) \in Event
        BY DEF ConstraintName
    <2>3. <<<<Breached(c, s)>>>> \in Seq(Seq(Event))
        BY <2>2
    <2>4. QED BY <2>1, <2>3, BeginTyped
<1>3. ASSUME SeedRequired(p) PROVE TypeInv'
    <2> DEFINE batches == [i \in DOMAIN RequiredConstraints |-> <<Checked(RequiredConstraints[i])>>]
    <2>1. \A i \in DOMAIN RequiredConstraints : Checked(RequiredConstraints[i]) \in Event
        BY DEF ConstraintName, Required
    <2>2. \A i \in DOMAIN RequiredConstraints : <<Checked(RequiredConstraints[i])>> \in Seq(Event)
        BY <2>1
    <2>3. DOMAIN RequiredConstraints = 1..Len(RequiredConstraints) /\ Len(RequiredConstraints) \in Nat
        BY ClaimsAssumption
    <2>4. batches \in Seq(Seq(Event))
        BY <2>2, <2>3
    <2>5. Begin(p, batches, "derive")
        BY <1>3 DEF SeedRequired
    <2> HIDE DEF batches
    <2>6. QED BY <2>4, <2>5, BeginTyped
<1>4. ASSUME Fork(p) PROVE TypeInv'
    <2>1. <<<<Forked>>>> \in Seq(Seq(Event))
        OBVIOUS
    <2>2. QED BY <1>4, <2>1, BeginTyped DEF Fork
<1>5. ASSUME Transform(p) PROVE TypeInv'
    <2>1. <<<<Evaluated>>>> \in Seq(Seq(Event))
        OBVIOUS
    <2>2. QED BY <1>5, <2>1, BeginTyped DEF Transform
<1>6. ASSUME Override(p) PROVE TypeInv'
    <2>1. ASSUME NEW d \in {"allowed", "denied"}
          PROVE  /\ <<<<Evaluated>>>> \in Seq(Seq(Event))
                 /\ <<<<Evaluated>>, <<AuthorizationChecked("override", d)>>>> \in Seq(Seq(Event))
                 /\ <<<<Evaluated>>, <<AuthorizationChecked("override", d)>>, <<Overridden>>>>
                       \o [i \in 1..FollowupsPerOverride |-> <<FollowupCreated(0)>>]
                    \in Seq(Seq(Event))
                 /\ <<<<Evaluated>>, <<AuthorizationChecked("override", d)>>, <<Overridden>>>>
                       \o [i \in 1..FollowupsPerOverride |-> <<FollowupCreated(0)>>] # <<>>
        <3>1. [i \in 1..FollowupsPerOverride |-> <<FollowupCreated(0)>>] \in Seq(Seq(Event))
            BY ContinuityAssumption
        <3>2. AuthorizationChecked("override", d) \in Event
            OBVIOUS
        <3>3. <<<<Evaluated>>, <<AuthorizationChecked("override", d)>>, <<Overridden>>>> \in Seq(Seq(Event))
            BY <3>2
        <3>4. QED BY <3>1, <3>2, <3>3
    <2>2. QED BY <1>6, <2>1, BeginTyped DEF Override
<1>7. ASSUME RuntimeSignal(p) PROVE TypeInv'
    <2>1. /\ <<<<Signal("GREEN")>>>> \in Seq(Seq(Event))
          /\ <<<<Signal("AMBER"), Breached("runtime_csm_amber", "soft")>>>> \in Seq(Seq(Event))
          /\ <<<<Signal("RED"), Breached("runtime_csm_red", "hard")>>>> \in Seq(Seq(Event))
        BY DEF ConstraintName
    <2>2. QED BY <1>7, <2>1, BeginTyped DEF RuntimeSignal
<1>8. ASSUME GateOutput(p) PROVE TypeInv'
    <2>1. <<>> \in Seq(Seq(Event))
        OBVIOUS
    <2>2. QED BY <1>8, <2>1, BeginTyped DEF GateOutput
<1>9. ASSUME OpenRecovery(p) PROVE TypeInv'
    <2>1. <<>> \in Seq(Seq(Event))
        OBVIOUS
    <2>2. QED BY <1>9, <2>1, AuthorizedTyped DEF OpenRecovery
<1>10. Recoveries(log) \subseteq Nat /\ Followups(log) \subseteq Nat
    BY DEF Recoveries, Followups, Positions, TypeInv, TypeOK
<1>11. ASSUME CompleteRecoveryAudit(p) PROVE TypeInv'
    <2>1. <<>> \in Seq(Seq(Event))
        OBVIOUS
    <2>2. ASSUME NEW r \in Nat, NEW f \in Nat, NEW outcome \in AuditOutcome,
                 NEW s \in {"completed", "failed"},
                 NEW t \in {"recovery_certified", "recovery_rejected"}
          PROVE  <<<<Audited(outcome)>>, <<FollowupUpdated(f, s)>>, <<RecoveryUpdated(r, t)>>>>
                     \in Seq(Seq(Event))
        <3>1. /\ Audited(outcome) \in Event /\ FollowupUpdated(f, s) \in Event
              /\ RecoveryUpdated(r, t) \in Event
            OBVIOUS
        <3>2. QED BY <3>1
    <2>3. QED BY <1>10, <1>11, <2>1, <2>2, AuthorizedTyped DEF CompleteRecoveryAudit
<1>12. ASSUME NEW f \in Nat, NEW s \in {"completed", "failed"}
       PROVE  <<<<FollowupUpdated(f, s)>>>> \in Seq(Seq(Event))
    <2>1. FollowupUpdated(f, s) \in Event
        OBVIOUS
    <2>2. QED BY <2>1
<1>13. ASSUME CompleteFollowup(p) PROVE TypeInv'
    <2>1. <<>> \in Seq(Seq(Event))
        OBVIOUS
    <2>2. QED BY <1>10, <1>12, <1>13, <2>1, AuthorizedTyped DEF CompleteFollowup
<1>14. ASSUME FailFollowup(p) PROVE TypeInv'
    BY <1>10, <1>12, <1>14, AuthorizedTyped DEF FailFollowup
<1>15. ASSUME Audit(p) PROVE TypeInv'
    <2>1. ASSUME NEW f \in Nat, NEW o \in AuditOutcome, NEW s \in {"completed", "failed"}
          PROVE  /\ <<<<Audited(o)>>, <<FollowupUpdated(f, s)>>>> \in Seq(Seq(Event))
                 /\ <<<<Audited(o)>>>> \in Seq(Seq(Event))
        <3>1. Audited(o) \in Event /\ FollowupUpdated(f, s) \in Event
            OBVIOUS
        <3>2. QED BY <3>1
    <2>2. QED BY <1>10, <1>15, <2>1, BeginTyped DEF Audit, AuditOutcome
<1>16. QED
    BY <1>1, <1>2, <1>3, <1>4, <1>5, <1>6, <1>7, <1>8, <1>9, <1>11, <1>13, <1>14, <1>15
       DEF Command

-----------------------------------------------------------------------------

(* A step of one handler over a growing ledger.                            *)
LEMMA HandlerStep ==
    ASSUME TypeInv, NEW p \in Procs, NEW me,
           log' \in Seq(Event), Len(log) <= Len(log'),
           me \in Local(Len(log')), Coherent(me),
           proc' = [proc EXCEPT ![p] = me], UNCHANGED <<ok, aged, started>>
    PROVE  TypeInv'
<1>1. Local(Len(log)) \subseteq Local(Len(log'))
    BY DEF Local, TypeInv, TypeOK
<1>2. TypeOK'
    BY <1>1 DEF TypeInv, TypeOK
<1>3. Appending'
    BY DEF TypeInv, TypeOK, Appending
<1>4. QED BY <1>2, <1>3 DEF TypeInv

LEMMA IdleTyped == \A n \in Nat : Idle \in Local(n) /\ Coherent(Idle)
BY DEF Idle, Running, Local, Stage, Coherent

(* The updates of a handler's state the steps make.                        *)
LEMMA AdvanceTyped ==
    ASSUME NEW n \in Nat, NEW me \in Local(n), Coherent(me),
           NEW left \in Seq(Seq(Event)), NEW k \in 0..n
    PROVE  LET at == IF left = <<>> THEN me.then ELSE "append"
               next == [me EXCEPT !.todo = left, !.at = at, !.source = k]
           IN  next \in Local(n) /\ Coherent(next)
<1> DEFINE at == IF left = <<>> THEN me.then ELSE "append"
           next == [me EXCEPT !.todo = left, !.at = at, !.source = k]
<1>1. at \in Stage /\ at \notin {"compare", "record", "emit"} /\ (at = "append" => left # <<>>)
    BY DEF Coherent, Stage
<1> HIDE DEF at
<1>2. next \in Local(n)
    BY <1>1 DEF Local
<1>3. next.then = me.then /\ next.todo = left /\ next.at = at
    BY DEF Local
<1>4. Coherent(next)
    BY <1>1, <1>3 DEF Coherent
<1>5. QED BY <1>2, <1>4 DEF at

LEMMA ReopenTyped ==
    ASSUME NEW n \in Nat, NEW me \in Local(n), NEW b \in Seq(Seq(Event)), b # <<>>
    PROVE  LET next == [me EXCEPT !.at = "append", !.then = "derive", !.todo = b]
           IN  next \in Local(n) /\ Coherent(next)
<1> DEFINE next == [me EXCEPT !.at = "append", !.then = "derive", !.todo = b]
<1>1. next \in Local(n)
    BY DEF Local, Stage
<1>2. next.then = "derive" /\ next.todo = b /\ next.at = "append"
    BY DEF Local
<1>3. QED BY <1>1, <1>2 DEF Coherent

LEMMA DeriveTyped ==
    ASSUME NEW n \in Nat, NEW me \in Local(n), Coherent(me),
           NEW a \in {"compare", "emit"}, NEW c \in Claim
    PROVE  LET next == [me EXCEPT !.at = a, !.derived = c]
           IN  next \in Local(n) /\ Coherent(next)
<1> DEFINE next == [me EXCEPT !.at = a, !.derived = c]
<1>1. a \in Stage
    BY DEF Stage
<1>2. next \in Local(n)
    BY <1>1 DEF Local
<1>3. next.then = me.then /\ next.derived = c /\ next.at = a
    BY DEF Local
<1>4. QED BY <1>2, <1>3 DEF Coherent

LEMMA CompareTyped ==
    ASSUME NEW n \in Nat, NEW me \in Local(n), Coherent(me), me.at = "compare", NEW k \in 0..n
    PROVE  LET next == [me EXCEPT !.at = "record", !.prior = k]
           IN  next \in Local(n) /\ Coherent(next)
<1> DEFINE next == [me EXCEPT !.at = "record", !.prior = k]
<1>1. next \in Local(n)
    BY DEF Local, Stage
<1>2. next.then = me.then /\ next.derived = me.derived /\ next.at = "record"
    BY DEF Local
<1>3. QED BY <1>1, <1>2 DEF Coherent

(* The current claim record is the last one there is.                      *)
LEMMA CurrentClaimRecordTyped ==
    ASSUME NEW evs \in Seq(Event)
    PROVE  /\ CurrentClaimRecord(evs) \in 0..Len(evs)
           /\ \A i \in Positions(evs, "continuity_claim_record") : i <= CurrentClaimRecord(evs)
           /\ CurrentClaimRecord(evs) # 0 =>
                  CurrentClaimRecord(evs) \in Positions(evs, "continuity_claim_record")
<1> DEFINE claims == Positions(evs, "continuity_claim_record")
<1>1. claims \in SUBSET (0..Len(evs)) /\ 0 \notin claims /\ Len(evs) \in Nat
    BY DEF Positions
<1>2. CurrentClaimRecord(evs) = IF claims = {} THEN 0 ELSE Max(claims)
    BY DEF CurrentClaimRecord
<1> HIDE DEF claims
<1>3. CASE claims = {}
    BY <1>1, <1>2, <1>3 DEF claims
<1>4. CASE claims # {}
    <2>1. Max(claims) \in claims /\ \A i \in claims : i <= Max(claims)
        BY <1>1, <1>4, MaxIsGreatest
    <2>2. QED BY <1>1, <1>2, <1>4, <2>1 DEF claims
<1>5. QED BY <1>3, <1>4

(* Naming the source of a follow-up changes no lengths.                    *)
LEMMA StampedTyped ==
    ASSUME NEW batch \in Seq(Event), NEW src \in Nat
    PROVE  Stamped(batch, src) \in Seq(Event) /\ Len(Stamped(batch, src)) = Len(batch)
<1>1. FollowupCreated(src) \in Event
    BY EventsTyped
<1>2. DOMAIN batch = 1..Len(batch) /\ Len(batch) \in Nat
    OBVIOUS
<1>3. QED BY <1>1, <1>2 DEF Stamped

(* The steps end the handler or move it on, and append what is typed.      *)
LEMMA MoveTyped ==
    ASSUME TypeInv, NEW p \in Procs, NEW evs \in Seq(Event), log' = log \o evs,
           NEW next \in Local(Len(log')), Coherent(next),
           proc' = [proc EXCEPT ![p] = Idle] \/ proc' = [proc EXCEPT ![p] = next],
           UNCHANGED <<ok, aged, started>>
    PROVE  TypeInv'
<1>1. log' \in Seq(Event) /\ Len(log) <= Len(log') /\ Len(log') \in Nat
    BY DEF TypeInv, TypeOK
<1>2. CASE proc' = [proc EXCEPT ![p] = Idle]
    BY <1>1, <1>2, IdleTyped, HandlerStep
<1>3. CASE proc' = [proc EXCEPT ![p] = next]
    BY <1>1, <1>3, HandlerStep
<1>4. QED BY <1>2, <1>3

LEMMA StepTyped ==
    ASSUME TypeInv, NEW p \in Procs, Step(p) \/ Crash(p) PROVE TypeInv'
<1> DEFINE me == proc[p]
<1>0. /\ log \in Seq(Event) /\ Len(log) \in Nat
      /\ me \in Local(Len(log)) /\ Coherent(me)
    BY DEF TypeInv, TypeOK, Appending
<1>a. <<>> \in Seq(Event) /\ log \o <<>> = log
    BY <1>0
<1>1. ASSUME AppendBatch(p) PROVE TypeInv'
    <2> DEFINE batch == Stamped(Head(me.todo), me.source)
               left == Tail(me.todo)
               src == IF batch[1].type = "followup_created" THEN me.source ELSE Len(log')
               next == [me EXCEPT !.todo = left,
                            !.at = IF left = <<>> THEN me.then ELSE "append", !.source = src]
    <2>1. me.todo \in Seq(Seq(Event)) /\ me.todo # <<>> /\ me.source \in Nat
        BY <1>0, <1>1 DEF AppendBatch, Local, Coherent
    <2>2. Head(me.todo) \in Seq(Event) /\ left \in Seq(Seq(Event))
        BY <2>1
    <2>3. batch \in Seq(Event)
        BY <2>1, <2>2, StampedTyped
    <2>4. /\ log' = log \o batch /\ UNCHANGED <<ok, aged, started>>
          /\ proc' = [proc EXCEPT ![p] = IF left = <<>> /\ me.then = "idle" THEN Idle ELSE next]
        BY <1>1 DEF AppendBatch
    <2> HIDE DEF batch, left
    <2>5. Len(log) <= Len(log') /\ Len(log') \in Nat
        BY <1>0, <2>3, <2>4
    <2>6. src \in 0..Len(log') /\ me \in Local(Len(log'))
        BY <1>0, <2>5 DEF Local
    <2> HIDE DEF src
    <2>7. next \in Local(Len(log')) /\ Coherent(next)
        BY <1>0, <2>2, <2>5, <2>6, AdvanceTyped
    <2> HIDE DEF next
    <2>8. QED BY <2>3, <2>4, <2>7, MoveTyped
<1>2. ASSUME ExamineClaim(p) PROVE TypeInv'
    <2> DEFINE batches == <<<<RecoveryOpened>>, <<FollowupCreated(0)>>>>
               next == [me EXCEPT !.at = "append", !.then = "derive", !.todo = batches]
    <2>1. batches \in Seq(Seq(Event)) /\ batches # <<>>
        BY EventsTyped
    <2>2. /\ proc' = [proc EXCEPT ![p] = Idle] \/ proc' = [proc EXCEPT ![p] = next]
          /\ UNCHANGED <<log, ok, aged, started>>
        BY <1>2 DEF ExamineClaim
    <2> HIDE DEF batches
    <2>3. next \in Local(Len(log)) /\ Coherent(next)
        BY <1>0, <2>1, ReopenTyped
    <2> HIDE DEF next
    <2>4. QED BY <1>a, <2>2, <2>3, MoveTyped
<1>3. ASSUME NEW a \in {"compare", "emit"}, NEW c \in Claim,
             proc' = [proc EXCEPT ![p] = [@ EXCEPT !.at = a, !.derived = c]],
             UNCHANGED <<log, ok, aged, started>>
      PROVE  TypeInv'
    <2> DEFINE next == [me EXCEPT !.at = a, !.derived = c]
    <2>1. next \in Local(Len(log)) /\ Coherent(next)
        BY <1>0, DeriveTyped
    <2>2. proc' = [proc EXCEPT ![p] = next]
        BY <1>3
    <2> HIDE DEF next
    <2>3. QED BY <1>a, <1>3, <2>1, <2>2, MoveTyped
<1>4. derive_current_claim(log, ok, aged) \in Claim
    BY ClaimTyped DEF TypeInv, TypeOK
<1>5. ASSUME CompareClaim(p) PROVE TypeInv'
    <2> DEFINE next == [me EXCEPT !.at = "record", !.prior = CurrentClaimRecord(log)]
    <2>1. CurrentClaimRecord(log) \in 0..Len(log)
        BY <1>0, CurrentClaimRecordTyped
    <2>2. next \in Local(Len(log)) /\ Coherent(next)
        BY <1>0, <1>5, <2>1, CompareTyped DEF CompareClaim
    <2>3. /\ proc' = [proc EXCEPT ![p] = Idle] \/ proc' = [proc EXCEPT ![p] = next]
          /\ UNCHANGED <<log, ok, aged, started>>
        BY <1>5 DEF CompareClaim
    <2> HIDE DEF next
    <2>4. QED BY <1>a, <2>2, <2>3, MoveTyped
<1>6. ASSUME NEW evs \in Seq(Event), log' = log \o evs, proc' = [proc EXCEPT ![p] = Idle],
             UNCHANGED <<ok, aged, started>>
      PROVE  TypeInv'
    <2>1. Len(log') \in Nat
        BY <1>0, <1>6
    <2>2. QED BY <1>6, <2>1, IdleTyped, MoveTyped
<1>7. ASSUME RecordClaim(p) PROVE TypeInv'
    <2> DEFINE e == ClaimRecord(me.derived, me.prior, me.source)
    <2>1. e \in Event
        <3>1. me.derived \in Claim /\ me.prior \in Nat /\ me.source \in Nat
            BY <1>0, <1>7 DEF RecordClaim, Local, Coherent
        <3>2. QED BY <3>1, EventsTyped
    <2>2. /\ log' = Append(log, e) /\ proc' = [proc EXCEPT ![p] = Idle]
          /\ UNCHANGED <<ok, aged, started>>
        BY <1>7 DEF RecordClaim
    <2> HIDE DEF e
    <2>3. <<e>> \in Seq(Event) /\ log' = log \o <<e>>
        BY <1>0, <2>1, <2>2
    <2>4. QED BY <1>6, <2>2, <2>3
<1>8. ASSUME EmitText(p) PROVE TypeInv'
    <2> DEFINE identity == me.then = "gate_claiming"
               text == process_output(me.derived, identity)
               e == OutputGated(me.derived, text, identity)
    <2>1. e \in Event
        <3>1. me.derived \in Claim /\ identity \in BOOLEAN
            BY <1>0, <1>8 DEF EmitText, Coherent
        <3>2. text \in {"original", "disclosed", "status"}
            BY DEF process_output
        <3> HIDE DEF text, identity
        <3>3. QED BY <3>1, <3>2, EventsTyped
    <2>2. /\ log' = Append(log, e) /\ proc' = [proc EXCEPT ![p] = Idle]
          /\ UNCHANGED <<ok, aged, started>>
        BY <1>8 DEF EmitText
    <2> HIDE DEF e
    <2>3. <<e>> \in Seq(Event) /\ log' = log \o <<e>>
        BY <1>0, <2>1, <2>2
    <2>4. QED BY <1>6, <2>2, <2>3
<1>9. ASSUME Crash(p) PROVE TypeInv'
    <2>1. proc' = [proc EXCEPT ![p] = Idle] /\ UNCHANGED <<ok, aged, started>>
        BY <1>9 DEF Crash
    <2>2. CASE log' = log
        BY <1>6, <1>a, <2>1, <2>2
    <2>3. CASE /\ me.at = "append"
               /\ \E n \in 1..Len(Head(me.todo)) - 1 :
                     log' = log \o SubSeq(Stamped(Head(me.todo), me.source), 1, n)
        <3>1. PICK n \in 1..Len(Head(me.todo)) - 1 :
                  log' = log \o SubSeq(Stamped(Head(me.todo), me.source), 1, n)
            BY <2>3
        <3>2. Head(me.todo) \in Seq(Event) /\ me.source \in Nat
            BY <1>0, <2>3 DEF Local, Coherent
        <3> DEFINE batch == Stamped(Head(me.todo), me.source)
        <3>3. batch \in Seq(Event) /\ Len(batch) = Len(Head(me.todo))
            BY <3>2, StampedTyped
        <3> HIDE DEF batch
        <3>4. SubSeq(batch, 1, n) \in Seq(Event)
            BY <3>2, <3>3
        <3>5. QED BY <1>6, <2>1, <3>1, <3>4 DEF batch
    <2>4. QED BY <1>9, <2>2, <2>3 DEF Crash
<1>10. QED
    BY <1>1, <1>2, <1>3, <1>4, <1>5, <1>7, <1>8, <1>9
       DEF Step, DeriveClaim, GateText

LEMMA InitTypeInv == Init => TypeInv
<1> SUFFICES ASSUME Init PROVE TypeInv
    OBVIOUS
<1>1. Len(log) = 0 /\ log \in Seq(Event)
    BY DEF Init
<1>2. \A p \in Procs : proc[p] = Idle
    BY DEF Init
<1>3. proc \in [Procs -> Local(Len(log))]
    BY <1>1, IdleTyped DEF Init
<1>4. Appending
    BY <1>2, IdleTyped DEF Appending
<1>5. QED BY <1>1, <1>3, <1>4, ContinuityAssumption DEF Init, TypeInv, TypeOK

LEMMA NextTypeInv == TypeInv /\ [Next]_vars => TypeInv'
<1> SUFFICES ASSUME TypeInv, [Next]_vars PROVE TypeInv'
    OBVIOUS
<1>1. CASE Age
    BY <1>1 DEF Age, TypeInv, TypeOK, Appending
<1>2. CASE Tamper
    BY <1>2 DEF Tamper, TypeInv, TypeOK, Appending
<1>3. CASE UNCHANGED vars
    BY <1>3 DEF vars, TypeInv, TypeOK, Appending
<1>4. QED
    BY <1>1, <1>2, <1>3, CommandTyped, StepTyped DEF Next

(* The ledger, the clock and the state of every handler keep their types,  *)
(* whatever commands overlap and wherever they die.                        *)
THEOREM TypeCorrect == Spec => []TypeOK
<1>1. TypeInv => TypeOK
    BY DEF TypeInv
<1>2. QED BY <1>1, InitTypeInv, NextTypeInv, PTL DEF Spec

-----------------------------------------------------------------------------
(* What a certified claim says about the ledger it was derived from.       *)

(* A recovery is only ever updated after it was opened.                    *)
RecoveriesOpened(evs) ==
    \A i \in Positions(evs, "recovery_updated") : evs[i].id \in Recoveries(evs)

(* What an event of a given type looks like.                               *)
LEMMA EvidenceShape ==
    ASSUME NEW e \in Event
    PROVE  /\ e.type = "constraint.checked" =>
                  e.constraint \in ConstraintName /\ e = Checked(e.constraint)
           /\ e.type = "constraint.breached" =>
                  e.constraint \in ConstraintName /\ e.severity \in {"soft", "hard"}
           /\ e.type = "followup_updated" =>
                  e.status \in {"completed", "failed"} /\ e = FollowupUpdated(e.id, e.status)
           /\ e.type = "recovery_updated" =>
                  /\ e.status \in {"recovery_certified", "recovery_rejected"}
                  /\ e = RecoveryUpdated(e.id, e.status)
<1> USE DEF Event, Checked, Breached, Signal, Forked, Evaluated, Overridden, RecoveryOpened,
            Audited, FollowupUpdated, RecoveryUpdated
<1>1. e.type = "constraint.checked" =>
          e.constraint \in ConstraintName /\ e = Checked(e.constraint)
    OBVIOUS
<1>2. e.type = "constraint.breached" =>
          e.constraint \in ConstraintName /\ e.severity \in {"soft", "hard"}
    OBVIOUS
<1>3. e.type = "followup_updated" =>
          e.status \in {"completed", "failed"} /\ e = FollowupUpdated(e.id, e.status)
    OBVIOUS
<1>4. e.type = "recovery_updated" =>
          /\ e.status \in {"recovery_certified", "recovery_rejected"}
          /\ e = RecoveryUpdated(e.id, e.status)
    OBVIOUS
<1>5. QED BY <1>1, <1>2, <1>3, <1>4

(* A certified claim leaves no rule, follow-up or recovery against it.     *)
LEMMA CertifiedClaim ==
    ASSUME NEW evs, NEW verified \in BOOLEAN, NEW stale,
           derive_current_claim(evs, verified, stale) = "certified_continuity"
    PROVE  /\ Candidates(evs, verified, stale) = {"continuous"}
           /\ FailedFollowups(evs) = {} /\ OpenFollowups(evs) = {}
           /\ CurrentRecoveryStatus(evs) # "recovery_rejected"
<1> DEFINE state == IdentityState(evs, verified, stale)
           default == default_claim_for_identity_state[state]
           claim == continuity_claim_from_followups(evs, default)
<1>1. /\ claim = "certified_continuity"
      /\ CurrentRecoveryStatus(evs) # "recovery_rejected"
    BY DEF derive_current_claim, AfterRecovery
<1>2. /\ FailedFollowups(evs) = {} /\ OpenFollowups(evs) = {}
      /\ default = "certified_continuity"
    BY <1>1 DEF continuity_claim_from_followups
<1>3. state = "continuous"
    BY <1>2, RuleDecides DEF default_claim_for_identity_state
<1>4. QED BY <1>1, <1>2, <1>3, RuleDecides

(* The status of a record is its initial one or that of its last update.   *)
LEMMA LatestStatusIs ==
    ASSUME NEW evs \in Seq(Event), NEW updates, NEW id, NEW initial
    PROVE  \/ /\ LatestStatus(evs, updates, id, initial) = initial
              /\ \A i \in Positions(evs, updates) : evs[i].id # id
           \/ \E i \in Positions(evs, updates) :
                  /\ evs[i].id = id
                  /\ LatestStatus(evs, updates, id, initial) = evs[i].status
                  /\ \A j \in Positions(evs, updates) : evs[j].id = id => j <= i
<1> DEFINE mine == {i \in Positions(evs, updates) : evs[i].id = id}
<1>1. mine \in SUBSET (0..Len(evs)) /\ Len(evs) \in Nat
    BY PositionsTyped
<1>2. LatestStatus(evs, updates, id, initial) =
          IF mine = {} THEN initial ELSE evs[Max(mine)].status
    BY DEF LatestStatus
<1>3. CASE mine = {}
    BY <1>2, <1>3
<1>4. CASE mine # {}
    <2> HIDE DEF mine
    <2>1. Max(mine) \in mine /\ \A j \in mine : j <= Max(mine)
        BY <1>1, <1>4, MaxIsGreatest
    <2>2. QED BY <1>2, <1>4, <2>1 DEF mine
<1>5. QED BY <1>3, <1>4

(* A constraint with evidence has latest evidence.                         *)
LEMMA LatestEvidenceExists ==
    ASSUME NEW evs \in Seq(Event), NEW c, Evidence(evs, c) # {}
    PROVE  \E i \in LatestEvidence(evs) :
               evs[i].constraint = c /\ \A j \in Evidence(evs, c) : j <= i
<1> DEFINE all == Evidence(evs, c)
<1>1. all \in SUBSET (0..Len(evs)) /\ Len(evs) \in Nat
    BY PositionsTyped DEF Evidence, EvidenceAt
<1> HIDE DEF all
<1>2. Max(all) \in all /\ \A j \in all : j <= Max(all)
    BY <1>1, MaxIsGreatest DEF all
<1>3. Max(all) \in EvidenceAt(evs) /\ evs[Max(all)].constraint = c
    BY <1>2 DEF all, Evidence
<1>4. Max(all) \in LatestEvidence(evs)
    BY <1>2, <1>3 DEF all, LatestEvidence
<1>5. QED BY <1>2, <1>3, <1>4 DEF all

(* Certified continuity is only derived from clear, fresh ledgers.         *)
LEMMA CertifiedOnlyIfClear ==
    ASSUME NEW evs \in Seq(Event), NEW verified \in BOOLEAN, NEW stale \in Nat,
           RecoveriesOpened(evs),
           derive_current_claim(evs, verified, stale) = "certified_continuity"
    PROVE  /\ verified /\ evs # <<>> /\ Clear(evs)
           /\ \A c \in Perishable : \E i \in DOMAIN evs : i > stale /\ evs[i] = Checked(c)
<1>1. /\ Candidates(evs, verified, stale) = {"continuous"}
      /\ FailedFollowups(evs) = {} /\ OpenFollowups(evs) = {}
      /\ CurrentRecoveryStatus(evs) # "recovery_rejected"
    BY CertifiedClaim
<1>2. /\ verified /\ evs # <<>>
      /\ HardBreaches(evs) = {} /\ Positions(evs, "identity.forked") = {}
      /\ \A c \in Required : Evidence(evs, c) # {}
      /\ SoftBreaches(evs) = {}
      /\ ~ \E i \in LatestEvidence(evs) : evs[i].constraint \in Perishable /\ i <= stale
    <2>1. /\ "chain_invalid" \notin Candidates(evs, verified, stale)
          /\ "no_events" \notin Candidates(evs, verified, stale)
          /\ "hard_breach" \notin Candidates(evs, verified, stale)
          /\ "declared_fork" \notin Candidates(evs, verified, stale)
          /\ "stale_required_evidence" \notin Candidates(evs, verified, stale)
          /\ "missing_required_evidence" \notin Candidates(evs, verified, stale)
          /\ "soft_breach" \notin Candidates(evs, verified, stale)
        BY <1>1
    <2>2. evs # <<>>
        BY <2>1 DEF Candidates
    <2>3. QED BY <2>1, <2>2, Zenon DEF Candidates
<1>3. Unbroken(evs) /\ Undivided(evs)
    BY <1>2 DEF Unbroken, Undivided, HardBreaches, Positions
<1>4. ASSUME NEW i \in LatestEvidence(evs)
      PROVE  evs[i] = Checked(evs[i].constraint)
    <2>1. i \in DOMAIN evs /\ evs[i].type \in {"constraint.checked", "constraint.breached"}
        BY DEF LatestEvidence, EvidenceAt, Positions
    <2>2. evs[i] \in Event
        BY <2>1
    <2>3. evs[i].type # "constraint.breached"
        BY <1>2, <2>1 DEF SoftBreaches, HardBreaches, Positions
    <2>4. QED BY <2>1, <2>2, <2>3, EvidenceShape
<1>5. Evidenced(evs)
    <2>1. ASSUME NEW c \in Required PROVE \E i \in DOMAIN evs : evs[i] = Checked(c)
        <3>1. PICK i \in LatestEvidence(evs) : evs[i].constraint = c
            BY <1>2, LatestEvidenceExists
        <3>2. i \in DOMAIN evs
            BY DEF LatestEvidence, EvidenceAt, Positions
        <3>3. QED BY <1>4, <3>1, <3>2
    <2>2. ASSUME NEW i \in DOMAIN evs, evs[i].type = "constraint.breached"
          PROVE  \E j \in DOMAIN evs : j > i /\ evs[j] = Checked(evs[i].constraint)
        <3> DEFINE c == evs[i].constraint
        <3>1. i \in Evidence(evs, c)
            BY <2>2 DEF Evidence, EvidenceAt, Positions
        <3>2. PICK j \in LatestEvidence(evs) :
                  evs[j].constraint = c /\ \A k \in Evidence(evs, c) : k <= j
            BY <3>1, LatestEvidenceExists
        <3>3. j \in DOMAIN evs /\ evs[j] = Checked(c)
            BY <1>4, <3>2 DEF LatestEvidence, EvidenceAt, Positions
        <3>4. i <= j /\ i \in Nat /\ j \in Nat
            BY <3>1, <3>2, <3>3
        <3>5. i # j
            BY <2>2, <3>3 DEF Checked
        <3>6. QED BY <3>3, <3>4, <3>5
    <2>3. QED BY <2>1, <2>2 DEF Evidenced
<1>6. Discharged(evs)
    <2> SUFFICES ASSUME NEW f \in DOMAIN evs, evs[f].type = "followup_created"
                 PROVE  \E i \in DOMAIN evs :
                            /\ evs[i] = FollowupUpdated(f, "completed")
                            /\ \A j \in DOMAIN evs : j > i => evs[j] # FollowupUpdated(f, "failed")
        BY DEF Discharged
    <2>1. FollowupStatus(evs, f) \notin {"open", "failed"}
        BY <1>1 DEF Followups, OpenFollowups, FailedFollowups, Positions
    <2>2. PICK i \in Positions(evs, "followup_updated") :
              /\ evs[i].id = f
              /\ FollowupStatus(evs, f) = evs[i].status
              /\ \A j \in Positions(evs, "followup_updated") : evs[j].id = f => j <= i
        BY <2>1, LatestStatusIs DEF FollowupStatus
    <2>3. i \in DOMAIN evs /\ evs[i] \in Event /\ evs[i].type = "followup_updated"
        BY DEF Positions
    <2>4. evs[i] = FollowupUpdated(f, "completed")
        BY <2>1, <2>2, <2>3, EvidenceShape
    <2>5. ASSUME NEW j \in DOMAIN evs, j > i PROVE evs[j] # FollowupUpdated(f, "failed")
        <3>1. evs[j] = FollowupUpdated(f, "failed") =>
                  j \in Positions(evs, "followup_updated") /\ evs[j].id = f
            BY DEF FollowupUpdated, Positions
        <3>2. QED BY <2>2, <2>3, <2>5, <3>1
    <2>6. QED BY <2>3, <2>4, <2>5
<1>7. Unrejected(evs)
    <2> SUFFICES ASSUME NEW i \in DOMAIN evs, evs[i].type = "recovery_updated",
                        evs[i].status = "recovery_rejected"
                 PROVE  \E j \in DOMAIN evs :
                            \/ evs[j].type = "recovery_opened" /\ j > evs[i].id
                            \/ evs[j] = RecoveryUpdated(evs[i].id, "recovery_certified") /\ j > i
        BY DEF Unrejected
    <2> DEFINE r == evs[i].id
               current == Max(Recoveries(evs))
    <2>1. i \in Positions(evs, "recovery_updated")
        BY DEF Positions
    <2>2. r \in Recoveries(evs)
        BY <2>1 DEF RecoveriesOpened
    <2>3. Recoveries(evs) \in SUBSET (0..Len(evs)) /\ Len(evs) \in Nat
        BY PositionsTyped DEF Recoveries
    <2>4. current \in Recoveries(evs) /\ r <= current
        BY <2>2, <2>3, MaxIsGreatest
    <2>5. CurrentRecoveryStatus(evs) = RecoveryStatus(evs, current)
        BY <2>2 DEF CurrentRecoveryStatus
    <2> HIDE DEF current
    <2>6. CASE r # current
        <3>1. current > r
            BY <2>2, <2>3, <2>4, <2>6
        <3>2. current \in DOMAIN evs /\ evs[current].type = "recovery_opened"
            BY <2>4 DEF Recoveries, Positions
        <3>3. QED BY <3>1, <3>2
    <2>7. CASE r = current
        <3>1. PICK j \in Positions(evs, "recovery_updated") :
                  /\ evs[j].id = r
                  /\ RecoveryStatus(evs, r) = evs[j].status
                  /\ \A k \in Positions(evs, "recovery_updated") : evs[k].id = r => k <= j
            BY <2>1, LatestStatusIs DEF RecoveryStatus
        <3>2. j \in DOMAIN evs /\ evs[j] \in Event /\ evs[j].type = "recovery_updated"
            BY DEF Positions
        <3>3. evs[j].status # "recovery_rejected"
            BY <1>1, <2>5, <2>7, <3>1
        <3>4. evs[j] = RecoveryUpdated(r, "recovery_certified")
            BY <3>1, <3>2, <3>3, EvidenceShape
        <3>5. i <= j /\ i # j /\ i \in Nat /\ j \in Nat
            BY <2>1, <3>1, <3>2, <3>3
        <3>6. QED BY <3>2, <3>4, <3>5
    <2>8. QED BY <2>6, <2>7
<1>8. ASSUME NEW c \in Perishable
      PROVE  \E i \in DOMAIN evs : i > stale /\ evs[i] = Checked(c)
    <2>1. PICK i \in LatestEvidence(evs) : evs[i].constraint = c
        BY <1>2, LatestEvidenceExists, ClaimsAssumption
    <2>2. i \in DOMAIN evs /\ i \in Nat /\ ~(i <= stale)
        BY <1>2, <2>1 DEF LatestEvidence, EvidenceAt, Positions
    <2>3. QED BY <1>4, <2>1, <2>2
<1>9. QED BY <1>2, <1>3, <1>5, <1>6, <1>7, <1>8 DEF Clear

(* Every clear, fresh ledger whose chain verifies is certified.            *)
LEMMA ClearIsCertified ==
    ASSUME NEW evs \in Seq(Event), NEW verified \in BOOLEAN, NEW stale \in Nat,
           verified, evs # <<>>, Clear(evs),
           \A c \in Perishable : \E i \in DOMAIN evs : i > stale /\ evs[i] = Checked(c)
    PROVE  derive_current_claim(evs, verified, stale) = "certified_continuity"
<1>1. ASSUME NEW i \in LatestEvidence(evs)
      PROVE  /\ i \in DOMAIN evs /\ i \in Nat /\ evs[i] \in Event
             /\ evs[i].type \in {"constraint.checked", "constraint.breached"}
             /\ \A j \in DOMAIN evs : evs[j] = Checked(evs[i].constraint) => j <= i
    <2>1. i \in EvidenceAt(evs) /\ \A j \in Evidence(evs, evs[i].constraint) : j <= i
        BY DEF LatestEvidence
    <2>2. i \in DOMAIN evs /\ evs[i].type \in {"constraint.checked", "constraint.breached"}
        BY <2>1 DEF EvidenceAt, Positions
    <2>3. ASSUME NEW j \in DOMAIN evs, evs[j] = Checked(evs[i].constraint) PROVE j <= i
        <3>1. j \in Evidence(evs, evs[i].constraint)
            BY <2>3 DEF Evidence, EvidenceAt, Positions, Checked
        <3>2. QED BY <2>1, <3>1
    <2>4. QED BY <2>2, <2>3
<1>2. /\ HardBreaches(evs) = {} /\ Positions(evs, "identity.forked") = {}
    BY DEF Clear, Unbroken, Undivided, HardBreaches, Positions
<1>3. SoftBreaches(evs) = {}
    <2> SUFFICES ASSUME NEW i \in SoftBreaches(evs) PROVE FALSE
        OBVIOUS
    <2>1. i \in LatestEvidence(evs) /\ evs[i].type = "constraint.breached"
        BY DEF SoftBreaches
    <2>2. PICK j \in DOMAIN evs : j > i /\ evs[j] = Checked(evs[i].constraint)
        BY <1>1, <2>1 DEF Clear, Evidenced
    <2>3. j <= i /\ i \in Nat /\ j \in Nat
        BY <1>1, <2>1, <2>2
    <2>4. QED BY <2>2, <2>3
<1>4. ~ \E i \in LatestEvidence(evs) : evs[i].constraint \in Perishable /\ i <= stale
    <2> SUFFICES ASSUME NEW i \in LatestEvidence(evs), evs[i].constraint \in Perishable,
                        i <= stale
                 PROVE  FALSE
        OBVIOUS
    <2>1. PICK j \in DOMAIN evs : j > stale /\ evs[j] = Checked(evs[i].constraint)
        OBVIOUS
    <2>2. j <= i /\ i \in Nat /\ j \in Nat
        BY <1>1, <2>1
    <2>3. QED BY <2>1, <2>2
<1>5. ~ \E c \in Required : Evidence(evs, c) = {}
    <2> SUFFICES ASSUME NEW c \in Required PROVE Evidence(evs, c) # {}
        OBVIOUS
    <2>1. PICK i \in DOMAIN evs : evs[i] = Checked(c)
        BY DEF Clear, Evidenced
    <2>2. i \in Evidence(evs, c)
        BY <2>1 DEF Evidence, EvidenceAt, Positions, Checked
    <2>3. QED BY <2>2
<1>6. Candidates(evs, verified, stale) = {"continuous"}
    <2>1. /\ {r \in {"chain_invalid"} : ~verified} = {}
          /\ {r \in {"hard_breach"} : HardBreaches(evs) # {}} = {}
          /\ {r \in {"declared_fork"} : Positions(evs, "identity.forked") # {}} = {}
          /\ {r \in {"stale_required_evidence"} :
                \E i \in LatestEvidence(evs) : evs[i].constraint \in Perishable /\ i <= stale} = {}
          /\ {r \in {"missing_required_evidence"} :
                \E c \in Required : Evidence(evs, c) = {}} = {}
          /\ {r \in {"soft_breach"} : SoftBreaches(evs) # {}} = {}
        BY <1>2, <1>3, <1>4, <1>5
    <2>2. QED BY <2>1 DEF Candidates
<1>7. IdentityState(evs, verified, stale) = "continuous"
    BY <1>6, SoleCandidate
<1>8. FailedFollowups(evs) = {} /\ OpenFollowups(evs) = {}
    <2> SUFFICES ASSUME NEW f \in Followups(evs)
                 PROVE  FollowupStatus(evs, f) \notin {"open", "failed"}
        BY DEF FailedFollowups, OpenFollowups
    <2>1. f \in DOMAIN evs /\ evs[f].type = "followup_created"
        BY DEF Followups, Positions
    <2>2. PICK i \in DOMAIN evs :
              /\ evs[i] = FollowupUpdated(f, "completed")
              /\ \A j \in DOMAIN evs : j > i => evs[j] # FollowupUpdated(f, "failed")
        BY <2>1 DEF Clear, Discharged
    <2>3. i \in Positions(evs, "followup_updated") /\ evs[i].id = f
        BY <2>2 DEF FollowupUpdated, Positions
    <2>4. PICK k \in Positions(evs, "followup_updated") :
              /\ evs[k].id = f
              /\ FollowupStatus(evs, f) = evs[k].status
              /\ \A j \in Positions(evs, "followup_updated") : evs[j].id = f => j <= k
        BY <2>3, LatestStatusIs DEF FollowupStatus
    <2>5. k \in DOMAIN evs /\ evs[k] \in Event /\ evs[k].type = "followup_updated" /\ i <= k
        BY <2>3, <2>4 DEF Positions
    <2>6. evs[k].status \in {"completed", "failed"} /\ evs[k] = FollowupUpdated(f, evs[k].status)
        BY <2>4, <2>5, EvidenceShape
    <2>7. evs[k].status = "completed"
        <3>1. CASE k = i
            BY <2>2, <3>1 DEF FollowupUpdated
        <3>2. CASE k # i
            <4>1. k > i
                BY <2>5, <3>2
            <4>2. QED BY <2>2, <2>5, <2>6, <4>1
        <3>3. QED BY <3>1, <3>2
    <2>8. QED BY <2>4, <2>7
<1>9. CurrentRecoveryStatus(evs) # "recovery_rejected"
    <2> SUFFICES ASSUME CurrentRecoveryStatus(evs) = "recovery_rejected" PROVE FALSE
        OBVIOUS
    <2> DEFINE current == Max(Recoveries(evs))
    <2>1. Recoveries(evs) # {} /\ RecoveryStatus(evs, current) = "recovery_rejected"
        BY DEF CurrentRecoveryStatus
    <2>2. Recoveries(evs) \in SUBSET (0..Len(evs)) /\ Len(evs) \in Nat
        BY PositionsTyped DEF Recoveries
    <2>3. current \in Recoveries(evs) /\ \A r \in Recoveries(evs) : r <= current
        BY <2>1, <2>2, MaxIsGreatest
    <2> HIDE DEF current
    <2>4. PICK k \in Positions(evs, "recovery_updated") :
              /\ evs[k].id = current
              /\ RecoveryStatus(evs, current) = evs[k].status
              /\ \A j \in Positions(evs, "recovery_updated") : evs[j].id = current => j <= k
        BY <2>1, LatestStatusIs DEF RecoveryStatus
    <2>5. k \in DOMAIN evs /\ evs[k].type = "recovery_updated" /\ evs[k].status = "recovery_rejected"
        BY <2>1, <2>4 DEF Positions
    <2>6. PICK j \in DOMAIN evs :
              \/ evs[j].type = "recovery_opened" /\ j > current
              \/ evs[j] = RecoveryUpdated(current, "recovery_certified") /\ j > k
        BY <2>4, <2>5 DEF Clear, Unrejected
    <2>7. CASE evs[j].type = "recovery_opened" /\ j > current
        <3>1. j \in Recoveries(evs)
            BY <2>7 DEF Recoveries, Positions
        <3>2. QED BY <2>2, <2>3, <2>7, <3>1
    <2>8. CASE evs[j] = RecoveryUpdated(current, "recovery_certified") /\ j > k
        <3>1. j \in Positions(evs, "recovery_updated") /\ evs[j].id = current
            BY <2>8 DEF RecoveryUpdated, Positions
        <3>2. j <= k
            BY <2>4, <3>1
        <3>3. QED BY <2>5, <2>8, <3>2
    <2>9. QED BY <2>6, <2>7, <2>8
<1>10. default_claim_for_identity_state[IdentityState(evs, verified, stale)] = "certified_continuity"
    <2>1. default_claim_for_identity_state["continuous"] = "certified_continuity"
        BY DEF default_claim_for_identity_state
    <2> DEFINE state == IdentityState(evs, verified, stale)
    <2>2. state = "continuous"
        BY <1>7
    <2> HIDE DEF state
    <2>3. default_claim_for_identity_state[state] = "certified_continuity"
        BY <2>1, <2>2
    <2>4. QED BY <2>3 DEF state
<1>11. continuity_claim_from_followups(evs, "certified_continuity") = "certified_continuity"
    BY <1>8 DEF continuity_claim_from_followups
<1>12. AfterRecovery(evs, "certified_continuity") = "certified_continuity"
    BY <1>9 DEF AfterRecovery
<1>13. QED BY <1>10, <1>11, <1>12 DEF derive_current_claim

-----------------------------------------------------------------------------
(* The ledgers a run reaches: no recovery is updated before it is opened,  *)
(* by an event on the ledger or by one a handler has yet to append.        *)

Grounded(batches, evs) ==
    \A b \in DOMAIN batches : \A i \in DOMAIN batches[b] :
        batches[b][i].type = "recovery_updated" => batches[b][i].id \in Recoveries(evs)

HandlersGrounded == \A p \in Procs : Grounded(proc[p].todo, log)

RecoveryInv == TypeInv /\ RecoveriesOpened(log) /\ HandlersGrounded

LEMMA IdleGrounded == \A evs : Grounded(Idle.todo, evs)
BY DEF Idle, Running, Grounded

LEMMA BeginGrounded ==
    ASSUME RecoveryInv, NEW p \in Procs, NEW batches, NEW then,
           Grounded(batches, log), Begin(p, batches, then)
    PROVE  RecoveriesOpened(log)' /\ HandlersGrounded'
<1> DEFINE me == Running(IF batches = <<>> THEN then ELSE "append", batches, then)
<1>1. proc' = [proc EXCEPT ![p] = me] /\ log' = log
    BY DEF Begin
<1>2. me.todo = batches
    BY DEF Running
<1> HIDE DEF me
<1>3. HandlersGrounded'
    BY <1>1, <1>2 DEF RecoveryInv, TypeInv, TypeOK, HandlersGrounded
<1>4. RecoveriesOpened(log)'
    BY <1>1 DEF RecoveryInv, RecoveriesOpened
<1>5. QED BY <1>3, <1>4

LEMMA AuthorizedGrounded ==
    ASSUME RecoveryInv, NEW p \in Procs, NEW command, NEW authority, NEW required,
           NEW batches \in Seq(Seq(Event)), NEW then, Grounded(batches, log),
           Authorized(p, command, authority, required, batches, then)
    PROVE  RecoveriesOpened(log)' /\ HandlersGrounded'
<1> DEFINE allowed == authorize(authority, required)
           check == AuthorizationChecked(command, IF allowed THEN "allowed" ELSE "denied")
           first == <<<<check>>>>
<1>1. check.type = "authorization_check"
    BY DEF AuthorizationChecked
<1>2. Grounded(first, log)
    BY <1>1 DEF Grounded
<1>3. Grounded(first \o batches, log)
    <2>1. ASSUME NEW b \in DOMAIN (first \o batches)
          PROVE  (first \o batches)[b] = <<check>> \/ \E c \in DOMAIN batches : (first \o batches)[b] = batches[c]
        <3>1. b \in 1..(1 + Len(batches)) /\ Len(batches) \in Nat
            OBVIOUS
        <3>2. CASE b = 1
            BY <3>2
        <3>3. CASE b # 1
            <4>1. b - 1 \in DOMAIN batches /\ (first \o batches)[b] = batches[b - 1]
                BY <3>1, <3>3
            <4>2. QED BY <4>1
        <3>4. QED BY <3>2, <3>3
    <2> HIDE DEF check
    <2>2. QED BY <1>1, <2>1 DEF Grounded
<1>4. CASE allowed
    <2>1. Begin(p, first \o batches, then)
        BY <1>4 DEF Authorized
    <2> HIDE DEF first
    <2>2. QED BY <1>3, <2>1, BeginGrounded
<1>5. CASE ~allowed
    <2>1. Begin(p, first, "idle")
        BY <1>5 DEF Authorized
    <2> HIDE DEF first
    <2>2. QED BY <1>2, <2>1, BeginGrounded
<1>6. QED BY <1>4, <1>5

(* No command plans to update a recovery that is not on the ledger.        *)
LEMMA CommandGrounded ==
    ASSUME RecoveryInv, NEW p \in Procs, Command(p)
    PROVE  RecoveriesOpened(log)' /\ HandlersGrounded'
<1> DEFINE Goal == RecoveriesOpened(log)' /\ HandlersGrounded'
<1>0. <<>> \in Seq(Seq(Event)) /\ Grounded(<<>>, log)
    BY DEF Grounded
<1>1. ASSUME Check(p) \/ Breach(p) \/ Fork(p) \/ Transform(p) PROVE Goal
    <2>1. ASSUME NEW e, e.type # "recovery_updated" PROVE Grounded(<<<<e>>>>, log)
        BY <2>1 DEF Grounded
    <2>2. \A c, s : /\ Grounded(<<<<Checked(c)>>>>, log) /\ Grounded(<<<<Breached(c, s)>>>>, log)
                    /\ Grounded(<<<<Forked>>>>, log) /\ Grounded(<<<<Evaluated>>>>, log)
        BY <2>1 DEF Checked, Breached, Forked, Evaluated
    <2>3. QED BY <1>1, <2>2, BeginGrounded DEF Check, Breach, Fork, Transform
<1>2. ASSUME SeedRequired(p) PROVE Goal
    <2> DEFINE batches == [i \in DOMAIN RequiredConstraints |-> <<Checked(RequiredConstraints[i])>>]
    <2>1. Grounded(batches, log)
        BY DEF Grounded, Checked
    <2>2. Begin(p, batches, "derive")
        BY <1>2 DEF SeedRequired
    <2> HIDE DEF batches
    <2>3. QED BY <2>1, <2>2, BeginGrounded
<1>3. ASSUME Override(p) PROVE Goal
    <2> DEFINE duties == [i \in 1..FollowupsPerOverride |-> <<FollowupCreated(0)>>]
    <2>1. ASSUME NEW d
          PROVE  /\ Grounded(<<<<Evaluated>>>>, log)
                 /\ Grounded(<<<<Evaluated>>, <<AuthorizationChecked("override", d)>>>>, log)
                 /\ Grounded(<<<<Evaluated>>, <<AuthorizationChecked("override", d)>>, <<Overridden>>>>
                                 \o duties, log)
        <3> DEFINE check == AuthorizationChecked("override", d)
                   head == <<<<Evaluated>>, <<check>>, <<Overridden>>>>
        <3>1. /\ Evaluated.type # "recovery_updated" /\ check.type # "recovery_updated"
              /\ Overridden.type # "recovery_updated" /\ FollowupCreated(0).type # "recovery_updated"
            BY DEF Evaluated, AuthorizationChecked, Overridden, FollowupCreated
        <3>2. Grounded(<<<<Evaluated>>>>, log) /\ Grounded(<<<<Evaluated>>, <<check>>>>, log)
            BY <3>1 DEF Grounded
        <3>3. duties \in Seq({<<FollowupCreated(0)>>}) /\ Len(duties) \in Nat
            BY ContinuityAssumption
        <3>4. ASSUME NEW b \in DOMAIN (head \o duties)
              PROVE  (head \o duties)[b] \in {<<Evaluated>>, <<check>>, <<Overridden>>, <<FollowupCreated(0)>>}
            <4> HIDE DEF check, duties
            <4>1. QED BY <3>3
        <3>5. Grounded(head \o duties, log)
            <4> HIDE DEF check, duties, head
            <4>1. QED BY <3>1, <3>4 DEF Grounded
        <3>6. QED BY <3>2, <3>5
    <2> HIDE DEF duties
    <2>2. QED BY <1>3, <2>1, BeginGrounded DEF Override, duties
<1>4. ASSUME RuntimeSignal(p) PROVE Goal
    <2>1. /\ Grounded(<<<<Signal("GREEN")>>>>, log)
          /\ Grounded(<<<<Signal("AMBER"), Breached("runtime_csm_amber", "soft")>>>>, log)
          /\ Grounded(<<<<Signal("RED"), Breached("runtime_csm_red", "hard")>>>>, log)
        BY DEF Grounded, Signal, Breached
    <2>2. QED BY <1>4, <2>1, BeginGrounded DEF RuntimeSignal
<1>5. ASSUME GateOutput(p) PROVE Goal
    BY <1>0, <1>5, BeginGrounded DEF GateOutput
<1>6. ASSUME OpenRecovery(p) PROVE Goal
    BY <1>0, <1>6, AuthorizedGrounded DEF OpenRecovery
<1>7. ASSUME CompleteRecoveryAudit(p) PROVE Goal
    <2>1. ASSUME NEW r \in Recoveries(log), NEW f \in Followups(log), NEW outcome \in AuditOutcome,
                 NEW s \in {"completed", "failed"},
                 NEW t \in {"recovery_certified", "recovery_rejected"}
          PROVE  /\ <<<<Audited(outcome)>>, <<FollowupUpdated(f, s)>>, <<RecoveryUpdated(r, t)>>>>
                        \in Seq(Seq(Event))
                 /\ Grounded(<<<<Audited(outcome)>>, <<FollowupUpdated(f, s)>>,
                              <<RecoveryUpdated(r, t)>>>>, log)
        <3> DEFINE a == Audited(outcome)
                   u == FollowupUpdated(f, s)
                   v == RecoveryUpdated(r, t)
        <3>1. r \in Nat /\ f \in Nat
            BY DEF Recoveries, Followups, Positions, RecoveryInv, TypeInv, TypeOK
        <3>2. a \in Event /\ u \in Event /\ v \in Event
            BY <3>1, EventsTyped
        <3>3. /\ a.type # "recovery_updated" /\ u.type # "recovery_updated" /\ v.id = r
            BY DEF Audited, FollowupUpdated, RecoveryUpdated
        <3> HIDE DEF a, u, v
        <3>4. <<<<a>>, <<u>>, <<v>>>> \in Seq(Seq(Event))
            BY <3>2
        <3>5. Grounded(<<<<a>>, <<u>>, <<v>>>>, log)
            BY <3>3 DEF Grounded
        <3>6. QED BY <3>4, <3>5 DEF a, u, v
    <2>2. QED BY <1>0, <1>7, <2>1, AuthorizedGrounded DEF CompleteRecoveryAudit
<1>8. ASSUME NEW f \in Followups(log), NEW s \in {"completed", "failed"}, NEW o \in AuditOutcome
      PROVE  /\ <<<<FollowupUpdated(f, s)>>>> \in Seq(Seq(Event))
             /\ Grounded(<<<<FollowupUpdated(f, s)>>>>, log)
             /\ Grounded(<<<<Audited(o)>>, <<FollowupUpdated(f, s)>>>>, log)
             /\ Grounded(<<<<Audited(o)>>>>, log)
    <2>1. f \in Nat
        BY DEF Followups, Positions, RecoveryInv, TypeInv, TypeOK
    <2>2. FollowupUpdated(f, s) \in Event
        BY <2>1, EventsTyped
    <2>3. Audited(o).type # "recovery_updated" /\ FollowupUpdated(f, s).type # "recovery_updated"
        BY DEF Audited, FollowupUpdated
    <2>4. QED BY <2>2, <2>3 DEF Grounded
<1>9. ASSUME CompleteFollowup(p) \/ FailFollowup(p) PROVE Goal
    BY <1>0, <1>8, <1>9, AuthorizedGrounded DEF CompleteFollowup, FailFollowup, AuditOutcome
<1>10. ASSUME Audit(p) PROVE Goal
    BY <1>8, <1>10, BeginGrounded DEF Audit, AuditOutcome
<1>11. QED BY <1>1, <1>2, <1>3, <1>4, <1>5, <1>6, <1>7, <1>9, <1>10 DEF Command

(* A ledger that grows keeps its recoveries.                               *)
LEMMA RecoveriesKept ==
    ASSUME NEW evs \in Seq(Event), NEW more \in Seq(Event)
    PROVE  /\ Recoveries(evs) \subseteq Recoveries(evs \o more)
           /\ \A batches : Grounded(batches, evs) => Grounded(batches, evs \o more)
<1>1. Recoveries(evs) \subseteq Recoveries(evs \o more)
    BY DEF Recoveries, Positions
<1>2. QED BY <1>1 DEF Grounded

(* A step that appends what it had ready and keeps the rest.               *)
LEMMA MoveGrounded ==
    ASSUME RecoveryInv, NEW p \in Procs, NEW evs \in Seq(Event), log' = log \o evs,
           Grounded(<<evs>>, log), NEW next, Grounded(next.todo, log),
           proc' = [proc EXCEPT ![p] = Idle] \/ proc' = [proc EXCEPT ![p] = next]
    PROVE  RecoveriesOpened(log)' /\ HandlersGrounded'
<1>1. log \in Seq(Event) /\ proc \in [Procs -> Local(Len(log))]
    BY DEF RecoveryInv, TypeInv, TypeOK
<1>2. /\ Recoveries(log) \subseteq Recoveries(log')
      /\ \A batches : Grounded(batches, log) => Grounded(batches, log')
    BY <1>1, RecoveriesKept
<1>3. RecoveriesOpened(log')
    <2> SUFFICES ASSUME NEW i \in DOMAIN log', log'[i].type = "recovery_updated"
                 PROVE  log'[i].id \in Recoveries(log)
        BY <1>2 DEF RecoveriesOpened, Positions
    <2>1. CASE i <= Len(log)
        <3>1. i \in DOMAIN log /\ log'[i] = log[i]
            BY <1>1, <2>1
        <3>2. QED BY <3>1 DEF RecoveryInv, RecoveriesOpened, Positions
    <2>2. CASE ~(i <= Len(log))
        <3>1. i - Len(log) \in DOMAIN evs /\ log'[i] = evs[i - Len(log)]
            BY <1>1, <2>2
        <3>2. QED BY <3>1 DEF Grounded
    <2>3. QED BY <2>1, <2>2
<1>4. ASSUME NEW q \in Procs PROVE Grounded(proc'[q].todo, log')
    <2>1. Grounded(proc[q].todo, log')
        BY <1>2 DEF RecoveryInv, HandlersGrounded
    <2>2. Grounded(Idle.todo, log')
        BY IdleGrounded
    <2>3. Grounded(next.todo, log')
        BY <1>2
    <2>4. proc'[q] \in {proc[q], Idle, next}
        BY <1>1
    <2>5. QED BY <2>1, <2>2, <2>3, <2>4
<1>5. QED BY <1>3, <1>4 DEF HandlersGrounded, RecoveriesOpened

LEMMA StepGrounded ==
    ASSUME RecoveryInv, NEW p \in Procs, Step(p) \/ Crash(p)
    PROVE  RecoveriesOpened(log)' /\ HandlersGrounded'
<1> DEFINE Goal == RecoveriesOpened(log)' /\ HandlersGrounded'
           me == proc[p]
<1>0. /\ log \in Seq(Event) /\ me \in Local(Len(log)) /\ Coherent(me)
      /\ Grounded(me.todo, log) /\ Grounded(Idle.todo, log)
    BY IdleGrounded DEF RecoveryInv, TypeInv, TypeOK, Appending, HandlersGrounded
<1>a. <<>> \in Seq(Event) /\ log \o <<>> = log /\ Grounded(<<<<>>>>, log)
    BY <1>0 DEF Grounded
<1>1. ASSUME me.at = "append"
      PROVE  /\ Head(me.todo) \in Seq(Event) /\ me.todo \in Seq(Seq(Event)) /\ me.todo # <<>>
             /\ Stamped(Head(me.todo), me.source) \in Seq(Event)
             /\ Len(Stamped(Head(me.todo), me.source)) = Len(Head(me.todo))
             /\ Grounded(<<Stamped(Head(me.todo), me.source)>>, log)
             /\ Grounded(Tail(me.todo), log)
    <2> DEFINE todo == me.todo
               batch == Stamped(Head(todo), me.source)
    <2>1. todo \in Seq(Seq(Event)) /\ todo # <<>> /\ me.source \in Nat
        BY <1>0, <1>1 DEF Local, Coherent
    <2>2. Grounded(todo, log)
        BY <1>0
    <2> HIDE DEF todo
    <2>3. Head(todo) \in Seq(Event) /\ Head(todo) = todo[1] /\ 1 \in DOMAIN todo
        BY <2>1
    <2>4. batch \in Seq(Event) /\ Len(batch) = Len(Head(todo))
        BY <2>1, <2>3, StampedTyped
    <2>5. ASSUME NEW i \in DOMAIN batch, batch[i].type = "recovery_updated"
          PROVE  batch[i].id \in Recoveries(log)
        <3>1. i \in DOMAIN Head(todo) /\ batch[i] \in {Head(todo)[i], FollowupCreated(me.source)}
            BY DEF Stamped
        <3>2. FollowupCreated(me.source).type # "recovery_updated"
            BY DEF FollowupCreated
        <3> HIDE DEF batch
        <3>3. batch[i] = Head(todo)[i]
            BY <2>5, <3>1, <3>2
        <3>4. QED BY <2>2, <2>3, <2>5, <3>1, <3>3 DEF Grounded
    <2>6. Grounded(<<batch>>, log)
        <3> HIDE DEF batch
        <3>1. QED BY <2>5 DEF Grounded
    <2>7. Grounded(Tail(todo), log)
        <3>1. \A b \in DOMAIN Tail(todo) : b + 1 \in DOMAIN todo /\ Tail(todo)[b] = todo[b + 1]
            BY <2>1
        <3>2. QED BY <2>2, <3>1 DEF Grounded
    <2>8. QED BY <2>1, <2>3, <2>4, <2>6, <2>7 DEF todo
<1>2. ASSUME AppendBatch(p) PROVE Goal
    <2> DEFINE batch == Stamped(Head(me.todo), me.source)
               left == Tail(me.todo)
               next == [me EXCEPT !.todo = left,
                            !.at = IF left = <<>> THEN me.then ELSE "append",
                            !.source = IF batch[1].type = "followup_created"
                                       THEN me.source ELSE Len(log')]
    <2>1. /\ log' = log \o batch
          /\ proc' = [proc EXCEPT ![p] = Idle] \/ proc' = [proc EXCEPT ![p] = next]
        BY <1>2 DEF AppendBatch
    <2>2. batch \in Seq(Event) /\ Grounded(<<batch>>, log) /\ Grounded(left, log)
        BY <1>1, <1>2 DEF AppendBatch
    <2>3. next.todo = left
        BY <1>0 DEF Local
    <2> HIDE DEF next, batch, left
    <2>4. QED BY <2>1, <2>2, <2>3, MoveGrounded
<1>3. ASSUME ExamineClaim(p) PROVE Goal
    <2> DEFINE batches == <<<<RecoveryOpened>>, <<FollowupCreated(0)>>>>
               next == [me EXCEPT !.at = "append", !.then = "derive", !.todo = batches]
    <2>1. Grounded(batches, log)
        BY DEF Grounded, RecoveryOpened, FollowupCreated
    <2>2. /\ proc' = [proc EXCEPT ![p] = Idle] \/ proc' = [proc EXCEPT ![p] = next]
          /\ log' = log
        BY <1>3 DEF ExamineClaim
    <2>3. next.todo = batches
        BY <1>0 DEF Local
    <2> HIDE DEF next, batches
    <2>4. QED BY <1>a, <2>1, <2>2, <2>3, MoveGrounded
<1>4. ASSUME NEW next, next.todo = me.todo, log' = log,
             proc' = [proc EXCEPT ![p] = Idle] \/ proc' = [proc EXCEPT ![p] = next]
      PROVE  Goal
    BY <1>0, <1>a, <1>4, MoveGrounded
<1>5. ASSUME DeriveClaim(p) \/ GateText(p) PROVE Goal
    <2> DEFINE next(a) == [me EXCEPT !.at = a, !.derived = derive_current_claim(log, ok, aged)]
    <2>1. \A a : next(a).todo = me.todo
        BY <1>0 DEF Local
    <2>2. /\ proc' = [proc EXCEPT ![p] = next("compare")] \/ proc' = [proc EXCEPT ![p] = next("emit")]
          /\ log' = log
        BY <1>5 DEF DeriveClaim, GateText
    <2> HIDE DEF next
    <2>3. QED BY <1>4, <2>1, <2>2
<1>6. ASSUME CompareClaim(p) PROVE Goal
    <2> DEFINE next == [me EXCEPT !.at = "record", !.prior = CurrentClaimRecord(log)]
    <2>1. next.todo = me.todo
        BY <1>0 DEF Local
    <2>2. /\ proc' = [proc EXCEPT ![p] = Idle] \/ proc' = [proc EXCEPT ![p] = next]
          /\ log' = log
        BY <1>6 DEF CompareClaim
    <2> HIDE DEF next
    <2>3. QED BY <1>4, <2>1, <2>2
<1>7. ASSUME RecordClaim(p) \/ EmitText(p) PROVE Goal
    <2>1. PICK e : /\ log' = Append(log, e) /\ e.type # "recovery_updated"
                   /\ proc' = [proc EXCEPT ![p] = Idle]
        BY <1>7 DEF RecordClaim, EmitText, ClaimRecord, OutputGated
    <2>2. e \in Event
        <3>1. log' \in Seq(Event)
            BY <1>7, StepTyped DEF RecoveryInv, TypeInv, TypeOK, Step
        <3>2. log'[Len(log) + 1] = e /\ Len(log) + 1 \in DOMAIN log'
            BY <1>0, <2>1
        <3>3. QED BY <3>1, <3>2
    <2>3. <<e>> \in Seq(Event) /\ log' = log \o <<e>> /\ Grounded(<<<<e>>>>, log)
        BY <1>0, <2>1, <2>2 DEF Grounded
    <2>4. QED BY <1>0, <2>1, <2>3, MoveGrounded
<1>8. ASSUME Crash(p) PROVE Goal
    <2>1. proc' = [proc EXCEPT ![p] = Idle]
        BY <1>8 DEF Crash
    <2>2. CASE log' = log
        BY <1>0, <1>a, <2>1, <2>2, MoveGrounded
    <2>3. CASE /\ me.at = "append"
               /\ \E n \in 1..Len(Head(me.todo)) - 1 :
                     log' = log \o SubSeq(Stamped(Head(me.todo), me.source), 1, n)
        <3> DEFINE batch == Stamped(Head(me.todo), me.source)
        <3>1. batch \in Seq(Event) /\ Len(batch) = Len(Head(me.todo)) /\ Grounded(<<batch>>, log)
            BY <1>1, <2>3
        <3>2. PICK n \in 1..Len(Head(me.todo)) - 1 : log' = log \o SubSeq(batch, 1, n)
            BY <2>3
        <3> HIDE DEF batch
        <3>3. /\ SubSeq(batch, 1, n) \in Seq(Event)
              /\ \A i \in DOMAIN SubSeq(batch, 1, n) : i \in DOMAIN batch /\ SubSeq(batch, 1, n)[i] = batch[i]
            BY <3>1, <3>2
        <3>4. Grounded(<<SubSeq(batch, 1, n)>>, log)
            BY <3>1, <3>3 DEF Grounded
        <3>5. QED BY <1>0, <2>1, <3>2, <3>3, <3>4, MoveGrounded
    <2>4. QED BY <1>8, <2>2, <2>3 DEF Crash
<1>9. QED BY <1>2, <1>3, <1>5, <1>6, <1>7, <1>8 DEF Step

LEMMA InitRecoveryInv == Init => RecoveryInv
<1> SUFFICES ASSUME Init PROVE RecoveryInv
    OBVIOUS
<1>1. TypeInv
    BY InitTypeInv
<1>2. RecoveriesOpened(log)
    BY DEF Init, RecoveriesOpened, Positions
<1>3. HandlersGrounded
    BY IdleGrounded DEF Init, HandlersGrounded
<1>4. QED BY <1>1, <1>2, <1>3 DEF RecoveryInv

LEMMA NextRecoveryInv == RecoveryInv /\ [Next]_vars => RecoveryInv'
<1> SUFFICES ASSUME RecoveryInv, [Next]_vars PROVE RecoveryInv'
    OBVIOUS
<1>1. TypeInv'
    BY NextTypeInv DEF RecoveryInv
<1>2. CASE Age \/ Tamper \/ UNCHANGED vars
    BY <1>1, <1>2 DEF Age, Tamper, vars, RecoveryInv, RecoveriesOpened, HandlersGrounded
<1>3. QED BY <1>1, <1>2, CommandGrounded, StepGrounded DEF Next, RecoveryInv

(* Certified continuity is derived from exactly the ledgers whose chain    *)
(* verifies, that are clear and whose perishable evidence is fresh, for    *)
(* any manifest, any processes and any number of commands                  *)
(* (state.py:22-49, evaluator.py:37-153).                                  *)
THEOREM CertifiedExactlyWhenClear == Spec => []CertifiedIffClear
<1>1. RecoveryInv => CertifiedIffClear
    <2> SUFFICES ASSUME RecoveryInv PROVE CertifiedIffClear
        OBVIOUS
    <2>1. log \in Seq(Event) /\ ok \in BOOLEAN /\ aged \in Nat /\ RecoveriesOpened(log)
        BY DEF RecoveryInv, TypeInv, TypeOK
    <2>2. QED BY <2>1, CertifiedOnlyIfClear, ClearIsCertified DEF CertifiedIffClear, Derived
<1>2. QED BY <1>1, InitRecoveryInv, NextRecoveryInv, PTL DEF Spec

-----------------------------------------------------------------------------
(* What a handler has yet to append.  A privileged event, an obligation    *)
(* and a check are each a batch of its own; after a privileged event comes *)
(* no check and no other privileged event; an override is followed by its  *)
(* obligations and nothing else.                                           *)

Privileges ==
    {<<"transform.override", "override">>, <<"recovery_opened", "open-recovery">>,
     <<"recovery_updated", "complete-recovery-audit">>}

PrivilegedType == {"transform.override", "recovery_opened", "recovery_updated"}
Duty == <<FollowupCreated(0)>>
AllowedCheck(action) == <<AuthorizationChecked(action, "allowed")>>

\* The kinds appended one at a time, and those only a handler's end appends.
LoneType == PrivilegedType \cup {"followup_created", "authorization_check"}
FinalType == {"continuity_claim_record", "runtime.output_gate"}

Kind(batch) == batch[1].type

Alone(batch) ==
    /\ batch # <<>>
    /\ \A i \in DOMAIN batch :
          /\ batch[i].type \in LoneType => Len(batch) = 1
          /\ batch[i].type \notin FinalType
    /\ Kind(batch) = "followup_created" => batch = Duty

Orderly(todo) ==
    /\ \A b \in DOMAIN todo : Alone(todo[b])
    /\ \A b, c \in DOMAIN todo : b < c /\ Kind(todo[b]) \in PrivilegedType =>
          Kind(todo[c]) \notin PrivilegedType \cup {"authorization_check"}
    /\ \A b \in DOMAIN todo : Kind(todo[b]) = "transform.override" =>
          /\ Len(todo) = b + FollowupsPerOverride
          /\ \A c \in DOMAIN todo : b < c => todo[c] = Duty

Appends(todo, type) == \E b \in DOMAIN todo : Kind(todo[b]) = type
ChecksFirst(todo, action) == \E b \in DOMAIN todo : todo[b] = AllowedCheck(action)

\* Nothing that a claim depends on.
Neutral(e) ==
    e.type \in {"authorization_check", "transform.evaluated", "continuity_claim_record",
               "runtime.output_gate"}

Quiet(todo) == \A b \in DOMAIN todo : \A i \in DOMAIN todo[b] : Neutral(todo[b][i])

\* What a handler starts with: what is privileged has its check, and what
\* matters to the claim ends in its derivation.
Planned(batches, then) ==
    /\ batches \in Seq(Seq(Event))
    /\ Orderly(batches)
    /\ batches # <<>> => Kind(batches[1]) # "followup_created"
    /\ then \in {"idle", "examine", "derive", "gate_claiming", "gate_plain"}
    /\ then # "derive" => Quiet(batches)
    /\ \A x \in Privileges :
          \/ Appends(batches, x[1])
          \/ x[1] = "recovery_opened" /\ then = "examine"
          => ChecksFirst(batches, x[2])

\* The kinds of the events the handlers append.
LEMMA Kinds ==
    /\ \A c : Checked(c).type = "constraint.checked"
    /\ \A c, s : Breached(c, s).type = "constraint.breached"
    /\ \A s : Signal(s).type = "runtime.csm_state"
    /\ Forked.type = "identity.forked" /\ Evaluated.type = "transform.evaluated"
    /\ Overridden.type = "transform.override" /\ RecoveryOpened.type = "recovery_opened"
    /\ \A o : Audited(o).type = "post_transform_audit"
    /\ \A a, d : AuthorizationChecked(a, d).type = "authorization_check"
    /\ \A n : FollowupCreated(n).type = "followup_created" /\ FollowupCreated(n).source = n
    /\ \A f, s : FollowupUpdated(f, s).type = "followup_updated"
    /\ \A r, s : RecoveryUpdated(r, s).type = "recovery_updated"
    /\ \A c, n, m : ClaimRecord(c, n, m).type = "continuity_claim_record"
    /\ \A c, t, i : OutputGated(c, t, i).type = "runtime.output_gate"
BY DEF Checked, Breached, Signal, Forked, Evaluated, Overridden, RecoveryOpened, Audited,
       AuthorizationChecked, FollowupCreated, FollowupUpdated, RecoveryUpdated, ClaimRecord,
       OutputGated

\* A batch of events that need no check and create no obligation.
Plain(batch) ==
    /\ batch # <<>>
    /\ \A i \in DOMAIN batch : batch[i].type \notin LoneType \cup FinalType

LEMMA PlainPlanned ==
    ASSUME NEW batches \in Seq(Seq(Event)), \A b \in DOMAIN batches : Plain(batches[b]),
           NEW then \in {"idle", "derive", "gate_claiming", "gate_plain"},
           then # "derive" => Quiet(batches)
    PROVE  Planned(batches, then)
<1>1. ASSUME NEW b \in DOMAIN batches
      PROVE  /\ Alone(batches[b])
             /\ Kind(batches[b]) \notin LoneType
    <2>1. batches[b] \in Seq(Event) /\ Plain(batches[b])
        OBVIOUS
    <2>2. 1 \in DOMAIN batches[b]
        BY <2>1 DEF Plain
    <2>3. QED BY <2>1, <2>2 DEF Plain, Alone, Kind, LoneType
<1>2. Orderly(batches)
    BY <1>1 DEF Orderly, PrivilegedType, LoneType
<1>3. \A x \in Privileges : x[1] \in PrivilegedType
    BY DEF Privileges, PrivilegedType
<1>4. \A x \in Privileges : ~Appends(batches, x[1])
    BY <1>1, <1>3 DEF Appends, LoneType
<1>5. batches # <<>> => 1 \in DOMAIN batches
    OBVIOUS
<1>6. QED BY <1>1, <1>2, <1>4, <1>5 DEF Planned, LoneType

LEMMA OnePlanned ==
    ASSUME NEW batch \in Seq(Event), Plain(batch)
    PROVE  Planned(<<batch>>, "derive")
<1> DEFINE batches == <<batch>>
<1>1. batches \in Seq(Seq(Event)) /\ \A b \in DOMAIN batches : Plain(batches[b])
    OBVIOUS
<1> HIDE DEF batches
<1>2. Planned(batches, "derive")
    BY <1>1, PlainPlanned
<1>3. QED BY <1>2 DEF batches

LEMMA TwoPlanned ==
    ASSUME NEW first \in Seq(Event), NEW second \in Seq(Event), Plain(first), Plain(second)
    PROVE  Planned(<<first, second>>, "derive")
<1> DEFINE batches == <<first, second>>
<1>1. batches \in Seq(Seq(Event)) /\ \A b \in DOMAIN batches : Plain(batches[b])
    OBVIOUS
<1> HIDE DEF batches
<1>2. Planned(batches, "derive")
    BY <1>1, PlainPlanned
<1>3. QED BY <1>2 DEF batches

(* A handler that is denied plans its check and nothing else.              *)
LEMMA CheckPlanned ==
    ASSUME NEW command \in CommandName, NEW d \in {"allowed", "denied"}
    PROVE  Planned(<<<<AuthorizationChecked(command, d)>>>>, "idle")
<1> DEFINE check == AuthorizationChecked(command, d)
<1>1. check \in Event /\ check.type = "authorization_check"
    BY EventsTyped, Kinds
<1> HIDE DEF check
<1>2. <<<<check>>>> \in Seq(Seq(Event))
    BY <1>1
<1>3. Orderly(<<<<check>>>>)
    BY <1>1 DEF Orderly, Alone, Kind, PrivilegedType, LoneType, FinalType
<1>4. \A x \in Privileges : ~Appends(<<<<check>>>>, x[1]) /\ x[1] # "authorization_check"
    BY <1>1 DEF Appends, Kind, Privileges
<1>5. Quiet(<<<<check>>>>)
    BY <1>1 DEF Quiet, Neutral
<1>6. QED BY <1>1, <1>2, <1>3, <1>4, <1>5 DEF Planned, Kind, check

(* A handler that is allowed plans its check before the rest.              *)
LEMMA AllowedPlanned ==
    ASSUME NEW command \in CommandName, NEW rest \in Seq(Seq(Event)),
           Orderly(rest), NEW then \in {"idle", "examine", "derive"},
           then # "derive" => Quiet(rest),
           \A x \in Privileges :
               \/ Appends(rest, x[1])
               \/ x[1] = "recovery_opened" /\ then = "examine"
               => x[2] = command
    PROVE  Planned(<<AllowedCheck(command)>> \o rest, then)
<1> DEFINE check == AuthorizationChecked(command, "allowed")
           all == <<<<check>>>> \o rest
<1>1. check \in Event /\ check.type = "authorization_check"
    BY EventsTyped, Kinds
<1> HIDE DEF check
<1>2. /\ all \in Seq(Seq(Event)) /\ Len(all) = 1 + Len(rest) /\ Len(rest) \in Nat
      /\ all[1] = <<check>> /\ 1 \in DOMAIN all
      /\ \A b \in DOMAIN all : b = 1 \/ (b - 1 \in DOMAIN rest /\ all[b] = rest[b - 1])
    BY <1>1
<1> HIDE DEF all
<1>3. Alone(<<check>>) /\ Kind(<<check>>) = "authorization_check"
    BY <1>1 DEF Alone, Kind, LoneType, FinalType
<1>4. \A b \in DOMAIN all : Alone(all[b])
    BY <1>2, <1>3 DEF Orderly
<1>5. ASSUME NEW b \in DOMAIN all, NEW c \in DOMAIN all, b < c, Kind(all[b]) \in PrivilegedType
      PROVE  Kind(all[c]) \notin PrivilegedType \cup {"authorization_check"}
    <2>1. b # 1 /\ c # 1
        <3>1. b # 1
            BY <1>2, <1>3, <1>5 DEF PrivilegedType
        <3>2. b \in Nat /\ c \in Nat /\ b >= 1
            BY <1>2
        <3>3. QED BY <1>5, <3>1, <3>2
    <2>2. b - 1 \in DOMAIN rest /\ c - 1 \in DOMAIN rest /\ b - 1 < c - 1
        BY <1>2, <1>5, <2>1
    <2>3. QED BY <1>2, <1>5, <2>1, <2>2 DEF Orderly
<1>6. ASSUME NEW b \in DOMAIN all, Kind(all[b]) = "transform.override"
      PROVE  /\ Len(all) = b + FollowupsPerOverride
             /\ \A c \in DOMAIN all : b < c => all[c] = Duty
    <2>1. b # 1
        BY <1>2, <1>3, <1>6
    <2>2. b - 1 \in DOMAIN rest /\ all[b] = rest[b - 1]
        BY <1>2, <2>1
    <2>3. /\ Len(rest) = b - 1 + FollowupsPerOverride
          /\ \A c \in DOMAIN rest : b - 1 < c => rest[c] = Duty
        BY <1>6, <2>2 DEF Orderly
    <2>4. Len(all) = b + FollowupsPerOverride
        BY <1>2, <2>3, ContinuityAssumption
    <2>5. ASSUME NEW c \in DOMAIN all, b < c PROVE all[c] = Duty
        <3>1. c - 1 \in DOMAIN rest /\ all[c] = rest[c - 1] /\ b - 1 < c - 1
            BY <1>2, <2>1, <2>5
        <3>2. QED BY <2>3, <3>1
    <2>6. QED BY <2>4, <2>5
<1>7. Orderly(all)
    BY <1>4, <1>5, <1>6 DEF Orderly
<1>8. ASSUME NEW x \in Privileges,
             Appends(all, x[1]) \/ (x[1] = "recovery_opened" /\ then = "examine")
      PROVE  ChecksFirst(all, x[2])
    <2>1. x[1] # "authorization_check"
        BY DEF Privileges
    <2>2. Appends(all, x[1]) => Appends(rest, x[1])
        BY <1>2, <1>3, <2>1 DEF Appends
    <2>3. x[2] = command
        BY <1>8, <2>2
    <2>4. QED BY <1>2, <2>3 DEF ChecksFirst, AllowedCheck, check
<1>9. Kind(all[1]) # "followup_created"
    BY <1>2, <1>3
<1>10. then # "derive" => Quiet(all)
    <2>1. Neutral(check)
        BY <1>1 DEF Neutral
    <2>2. ASSUME Quiet(rest), NEW b \in DOMAIN all, NEW i \in DOMAIN all[b] PROVE Neutral(all[b][i])
        <3>1. CASE b = 1
            BY <1>2, <2>1, <3>1
        <3>2. CASE b # 1
            <4>1. b - 1 \in DOMAIN rest /\ all[b] = rest[b - 1]
                BY <1>2, <3>2
            <4>2. QED BY <2>2, <4>1 DEF Quiet
        <3>3. QED BY <3>1, <3>2
    <2>3. QED BY <2>2 DEF Quiet
<1>11. QED BY <1>2, <1>7, <1>8, <1>9, <1>10 DEF Planned, AllowedCheck, all, check

(* What an override plans once it is allowed.                              *)
LEMMA OverridePlanned ==
    LET duties == [i \in 1..FollowupsPerOverride |-> <<FollowupCreated(0)>>] IN
    Planned(<<<<Evaluated>>, AllowedCheck("override"), <<Overridden>>>> \o duties, "derive")
<1> DEFINE duties == [i \in 1..FollowupsPerOverride |-> Duty]
           check == AuthorizationChecked("override", "allowed")
           head == <<<<Evaluated>>, <<check>>, <<Overridden>>>>
           all == head \o duties
<1>1. /\ check \in Event /\ check.type = "authorization_check" /\ Evaluated \in Event
      /\ Overridden \in Event /\ FollowupCreated(0) \in Event
    BY EventsTyped, Kinds DEF CommandName
<1> HIDE DEF check
<1>2. /\ Evaluated.type = "transform.evaluated" /\ Overridden.type = "transform.override"
      /\ FollowupCreated(0).type = "followup_created"
    BY Kinds
<1>3. duties \in Seq(Seq(Event)) /\ Len(duties) = FollowupsPerOverride /\ FollowupsPerOverride \in Nat
    BY <1>1, ContinuityAssumption DEF Duty
<1>4. \A b \in DOMAIN duties : duties[b] = Duty
    OBVIOUS
<1> HIDE DEF duties
<1>5. head \in Seq(Seq(Event)) /\ Len(head) = 3
    BY <1>1
<1>6. /\ all \in Seq(Seq(Event)) /\ Len(all) = 3 + FollowupsPerOverride
      /\ all[1] = <<Evaluated>> /\ all[2] = <<check>> /\ all[3] = <<Overridden>>
      /\ \A b \in DOMAIN all : b > 3 => all[b] = Duty
    <2>1. all \in Seq(Seq(Event)) /\ Len(all) = 3 + FollowupsPerOverride
        BY <1>3, <1>5
    <2>2. all[1] = head[1] /\ all[2] = head[2] /\ all[3] = head[3]
        BY <1>3, <1>5
    <2>3. ASSUME NEW b \in DOMAIN all, b > 3 PROVE all[b] = Duty
        <3>1. b - 3 \in DOMAIN duties /\ all[b] = duties[b - 3]
            BY <1>3, <1>5, <2>1, <2>3
        <3>2. QED BY <1>4, <3>1
    <2>4. QED BY <2>1, <2>2, <2>3
<1> HIDE DEF all
<1>7. /\ Alone(<<Evaluated>>) /\ Kind(<<Evaluated>>) = "transform.evaluated"
      /\ Alone(<<check>>) /\ Kind(<<check>>) = "authorization_check"
      /\ Alone(<<Overridden>>) /\ Kind(<<Overridden>>) = "transform.override"
      /\ Alone(Duty) /\ Kind(Duty) = "followup_created"
    BY <1>1, <1>2 DEF Alone, Kind, Duty, LoneType, FinalType, PrivilegedType
<1>8. \A b \in DOMAIN all : b \in {1, 2, 3} \/ (b > 3 /\ b \in Nat)
    BY <1>3, <1>6
<1>9. Orderly(all)
    <2>1. \A b \in DOMAIN all : Alone(all[b])
        BY <1>6, <1>7, <1>8
    <2>2. \A b \in DOMAIN all : Kind(all[b]) \in PrivilegedType => b = 3
        BY <1>6, <1>7, <1>8 DEF PrivilegedType
    <2>3. \A c \in DOMAIN all : 3 < c => all[c] = Duty
        BY <1>6
    <2>4. QED BY <1>3, <1>6, <1>7, <2>1, <2>2, <2>3 DEF Orderly, PrivilegedType
<1>10. ASSUME NEW x \in Privileges, Appends(all, x[1]) PROVE x[2] = "override"
    <2>1. PICK b \in DOMAIN all : Kind(all[b]) = x[1]
        BY <1>10 DEF Appends
    <2>2. Kind(all[b]) \in {"transform.evaluated", "authorization_check", "transform.override",
                          "followup_created"}
        BY <1>6, <1>7, <1>8
    <2>3. x[1] = "transform.override"
        BY <2>1, <2>2 DEF Privileges
    <2>4. QED BY <2>3 DEF Privileges
<1>11. ChecksFirst(all, "override")
    <2>1. 2 \in DOMAIN all
        BY <1>3, <1>6
    <2>2. all[2] = AllowedCheck("override")
        BY <1>6 DEF AllowedCheck, check
    <2>3. QED BY <2>1, <2>2 DEF ChecksFirst
<1>12. all # <<>> /\ Kind(all[1]) # "followup_created"
    BY <1>3, <1>6, <1>7
<1>13. QED BY <1>6, <1>9, <1>10, <1>11, <1>12 DEF Planned, AllowedCheck, all, check, duties, Duty

(* Without an authority the handler ends after the evaluation, and with    *)
(* one that is denied after its check.                                     *)
LEMMA EvaluatedPlanned ==
    /\ Planned(<<<<Evaluated>>>>, "idle")
    /\ Planned(<<<<Evaluated>>, <<AuthorizationChecked("override", "denied")>>>>, "idle")
<1> DEFINE check == AuthorizationChecked("override", "denied")
           all == <<<<Evaluated>>, <<check>>>>
<1>1. /\ check \in Event /\ check.type = "authorization_check" /\ Evaluated \in Event
      /\ Evaluated.type = "transform.evaluated"
    BY EventsTyped, Kinds DEF CommandName
<1> HIDE DEF check
<1>2. all \in Seq(Seq(Event)) /\ <<<<Evaluated>>>> \in Seq(Seq(Event))
    BY <1>1
<1>3. Planned(<<<<Evaluated>>>>, "idle")
    <2> DEFINE alone == <<<<Evaluated>>>>
    <2>1. Plain(<<Evaluated>>) /\ Quiet(alone)
        BY <1>1 DEF Plain, Quiet, Neutral, PrivilegedType, LoneType, FinalType
    <2>2. \A b \in DOMAIN alone : Plain(alone[b])
        BY <2>1
    <2> HIDE DEF alone
    <2>3. Planned(alone, "idle")
        BY <1>2, <2>1, <2>2, PlainPlanned DEF alone
    <2>4. QED BY <2>3 DEF alone
<1>4. Orderly(all)
    BY <1>1 DEF Orderly, Alone, Kind, PrivilegedType, LoneType, FinalType
<1>5. \A x \in Privileges : ~Appends(all, x[1])
    BY <1>1 DEF Appends, Kind, Privileges
<1>6. Quiet(all)
    BY <1>1 DEF Quiet, Neutral
<1>7. Planned(all, "idle")
    BY <1>1, <1>2, <1>4, <1>5, <1>6 DEF Planned, Kind
<1>8. QED BY <1>3, <1>7 DEF check

(* An authorized handler starts one plan or the other.                     *)
LEMMA AuthorizedPlans ==
    ASSUME NEW p \in Procs, NEW command \in CommandName, NEW authority, NEW required,
           NEW rest \in Seq(Seq(Event)), NEW then,
           Planned(<<AllowedCheck(command)>> \o rest, then),
           Authorized(p, command, authority, required, rest, then)
    PROVE  \E batches, next : Planned(batches, next) /\ Begin(p, batches, next)
<1>1. CASE authorize(authority, required)
    <2>1. Begin(p, <<AllowedCheck(command)>> \o rest, then)
        BY <1>1 DEF Authorized, AllowedCheck
    <2>2. QED BY <2>1
<1>2. CASE ~authorize(authority, required)
    <2>1. Begin(p, <<<<AuthorizationChecked(command, "denied")>>>>, "idle")
        BY <1>2 DEF Authorized
    <2>2. Planned(<<<<AuthorizationChecked(command, "denied")>>>>, "idle")
        BY CheckPlanned
    <2>3. QED BY <2>1, <2>2
<1>3. QED BY <1>1, <1>2

(* Every command starts a plan.                                            *)
LEMMA CommandPlans ==
    ASSUME TypeInv, NEW p \in Procs, Command(p)
    PROVE  \E batches, then : Planned(batches, then) /\ Begin(p, batches, then)
<1> DEFINE Goal == \E batches, then : Planned(batches, then) /\ Begin(p, batches, then)
<1> USE EventsTyped DEF CommandName
<1>1. ASSUME NEW e \in Event, Plain(<<e>>) PROVE Planned(<<<<e>>>>, "derive")
    <2>1. <<e>> \in Seq(Event)
        BY <1>1
    <2>2. QED BY <1>1, <2>1, OnePlanned
<1>2. /\ \A c : Plain(<<Checked(c)>>)
      /\ \A c, s : Plain(<<Breached(c, s)>>)
      /\ Plain(<<Forked>>) /\ Plain(<<Evaluated>>)
      /\ \A s : Plain(<<Signal(s)>>)
      /\ \A o : Plain(<<Audited(o)>>)
      /\ \A f, s : Plain(<<FollowupUpdated(f, s)>>)
    BY Kinds DEF Plain, PrivilegedType, LoneType, FinalType
<1>3. ASSUME Check(p) PROVE Goal
    <2>1. PICK c \in Checkable : Begin(p, <<<<Checked(c)>>>>, "derive")
        BY <1>3 DEF Check
    <2>2. Checked(c) \in Event
        BY DEF ConstraintName
    <2>3. QED BY <1>1, <1>2, <2>1, <2>2
<1>4. ASSUME Breach(p) PROVE Goal
    <2>1. PICK c \in Checkable, s \in {"soft", "hard"} : Begin(p, <<<<Breached(c, s)>>>>, "derive")
        BY <1>4 DEF Breach
    <2>2. Breached(c, s) \in Event
        BY DEF ConstraintName
    <2>3. QED BY <1>1, <1>2, <2>1, <2>2
<1>5. ASSUME SeedRequired(p) PROVE Goal
    <2> DEFINE batches == [i \in DOMAIN RequiredConstraints |-> <<Checked(RequiredConstraints[i])>>]
    <2>1. \A i \in DOMAIN RequiredConstraints : Checked(RequiredConstraints[i]) \in Event
        BY DEF ConstraintName, Required
    <2>2. DOMAIN RequiredConstraints = 1..Len(RequiredConstraints) /\ Len(RequiredConstraints) \in Nat
        BY ClaimsAssumption
    <2>3. batches \in Seq(Seq(Event))
        BY <2>1, <2>2
    <2>4. \A b \in DOMAIN batches : Plain(batches[b])
        BY <1>2
    <2>5. Begin(p, batches, "derive")
        BY <1>5 DEF SeedRequired
    <2> HIDE DEF batches
    <2>6. QED BY <2>3, <2>4, <2>5, PlainPlanned
<1>6. ASSUME Fork(p) \/ Transform(p) PROVE Goal
    <2>1. Planned(<<<<Forked>>>>, "derive") /\ Planned(<<<<Evaluated>>>>, "derive")
        BY <1>1, <1>2
    <2>2. QED BY <1>6, <2>1 DEF Fork, Transform
<1>7. ASSUME Override(p) PROVE Goal
    <2>1. \/ Begin(p, <<<<Evaluated>>, AllowedCheck("override"), <<Overridden>>>>
                           \o [i \in 1..FollowupsPerOverride |-> <<FollowupCreated(0)>>], "derive")
          \/ Begin(p, <<<<Evaluated>>, <<AuthorizationChecked("override", "denied")>>>>, "idle")
          \/ Begin(p, <<<<Evaluated>>>>, "idle")
        BY <1>7 DEF Override, AllowedCheck
    <2>2. QED BY <2>1, OverridePlanned, EvaluatedPlanned
<1>8. ASSUME RuntimeSignal(p) PROVE Goal
    <2>1. /\ <<Signal("AMBER"), Breached("runtime_csm_amber", "soft")>> \in Seq(Event)
          /\ <<Signal("RED"), Breached("runtime_csm_red", "hard")>> \in Seq(Event)
        BY DEF ConstraintName
    <2>2. /\ Plain(<<Signal("AMBER"), Breached("runtime_csm_amber", "soft")>>)
          /\ Plain(<<Signal("RED"), Breached("runtime_csm_red", "hard")>>)
        BY Kinds DEF Plain, PrivilegedType, LoneType, FinalType
    <2>3. ASSUME NEW batch \in Seq(Event), Plain(batch) PROVE Planned(<<batch>>, "derive")
        BY <2>3, OnePlanned
    <2>4. /\ Planned(<<<<Signal("GREEN")>>>>, "derive")
          /\ Planned(<<<<Signal("AMBER"), Breached("runtime_csm_amber", "soft")>>>>, "derive")
          /\ Planned(<<<<Signal("RED"), Breached("runtime_csm_red", "hard")>>>>, "derive")
        BY <1>1, <1>2, <2>1, <2>2, <2>3
    <2>5. QED BY <1>8, <2>4 DEF RuntimeSignal
<1>9. ASSUME GateOutput(p) PROVE Goal
    <2>1. \A then \in {"gate_claiming", "gate_plain"} : Planned(<<>>, then)
        <3> DEFINE none == <<>>
        <3>1. none \in Seq(Seq(Event)) /\ \A b \in DOMAIN none : FALSE
            OBVIOUS
        <3> HIDE DEF none
        <3>2. \A then \in {"gate_claiming", "gate_plain"} : Planned(none, then)
            BY <3>1, PlainPlanned DEF Quiet
        <3>3. QED BY <3>2 DEF none
    <2>2. QED BY <1>9, <2>1 DEF GateOutput
<1>10. ASSUME NEW command \in CommandName, NEW rest \in Seq(Seq(Event)),
              \A b \in DOMAIN rest : Plain(rest[b])
       PROVE  /\ Planned(<<AllowedCheck(command)>> \o rest, "derive")
              /\ rest = <<>> => Planned(<<AllowedCheck(command)>> \o rest, "idle")
    <2>1. Planned(rest, "derive")
        BY <1>10, PlainPlanned
    <2>2. \A x \in Privileges : ~Appends(rest, x[1])
        <3>1. ASSUME NEW x \in Privileges, NEW b \in DOMAIN rest PROVE Kind(rest[b]) # x[1]
            <4>1. rest[b] # <<>> /\ rest[b] \in Seq(Event)
                BY <1>10 DEF Plain
            <4>2. Kind(rest[b]) \notin PrivilegedType
                BY <1>10, <4>1 DEF Plain, Kind, LoneType
            <4>3. QED BY <4>2 DEF Privileges, PrivilegedType
        <3>2. QED BY <3>1 DEF Appends
    <2>3. Orderly(rest)
        BY <2>1 DEF Planned
    <2>4. rest = <<>> => Quiet(rest)
        BY DEF Quiet
    <2>5. QED BY <2>2, <2>3, <2>4, AllowedPlanned
<1>11. <<>> \in Seq(Seq(Event)) /\ \A b \in DOMAIN <<>> : Plain(<<>>[b])
    OBVIOUS
<1>12. ASSUME OpenRecovery(p) PROVE Goal
    <2>1. Orderly(<<>>) /\ Quiet(<<>>) /\ \A x \in Privileges : ~Appends(<<>>, x[1])
        BY DEF Orderly, Quiet, Appends
    <2>2. \A x \in Privileges : x[1] = "recovery_opened" => x[2] = "open-recovery"
        BY DEF Privileges
    <2>3. Planned(<<AllowedCheck("open-recovery")>> \o <<>>, "examine")
        BY <1>11, <2>1, <2>2, AllowedPlanned
    <2>4. QED BY <1>11, <1>12, <2>3, AuthorizedPlans DEF OpenRecovery
<1>13. Recoveries(log) \subseteq Nat /\ Followups(log) \subseteq Nat
    BY DEF Recoveries, Followups, Positions, TypeInv, TypeOK
<1>14. ASSUME CompleteRecoveryAudit(p) PROVE Goal
    <2>1. ASSUME NEW r \in Nat, NEW f \in Nat, NEW outcome \in AuditOutcome,
                 NEW s \in {"completed", "failed"},
                 NEW t \in {"recovery_certified", "recovery_rejected"}
          PROVE  LET rest == <<<<Audited(outcome)>>, <<FollowupUpdated(f, s)>>, <<RecoveryUpdated(r, t)>>>>
                 IN  /\ rest \in Seq(Seq(Event))
                     /\ Planned(<<AllowedCheck("complete-recovery-audit")>> \o rest, "derive")
        <3> DEFINE audited == Audited(outcome)
                   closed == FollowupUpdated(f, s)
                   updated == RecoveryUpdated(r, t)
                   rest == <<<<audited>>, <<closed>>, <<updated>>>>
        <3>1. /\ audited \in Event /\ closed \in Event /\ updated \in Event
              /\ audited.type = "post_transform_audit" /\ closed.type = "followup_updated"
              /\ updated.type = "recovery_updated"
            BY Kinds
        <3> HIDE DEF audited, closed, updated
        <3>2. rest \in Seq(Seq(Event))
            BY <3>1
        <3>3. Orderly(rest)
            BY <3>1 DEF Orderly, Alone, Kind, PrivilegedType, LoneType, FinalType
        <3>4. \A x \in Privileges : Appends(rest, x[1]) => x[2] = "complete-recovery-audit"
            BY <3>1 DEF Appends, Kind, Privileges
        <3> HIDE DEF rest
        <3>5. Planned(<<AllowedCheck("complete-recovery-audit")>> \o rest, "derive")
            BY <3>2, <3>3, <3>4, AllowedPlanned
        <3>6. QED BY <3>2, <3>5 DEF rest, audited, closed, updated
    <2>2. PICK a \in Authorities :
              \/ Authorized(p, "complete-recovery-audit", a, MinAuthority.recovery, <<>>, "idle")
              \/ \E r \in Recoveries(log), f \in Followups(log), outcome \in AuditOutcome,
                    s \in {"completed", "failed"}, t \in {"recovery_certified", "recovery_rejected"} :
                  Authorized(p, "complete-recovery-audit", a, MinAuthority.recovery,
                      <<<<Audited(outcome)>>, <<FollowupUpdated(f, s)>>, <<RecoveryUpdated(r, t)>>>>,
                      "derive")
        BY <1>14 DEF CompleteRecoveryAudit
    <2>3. CASE Authorized(p, "complete-recovery-audit", a, MinAuthority.recovery, <<>>, "idle")
        BY <1>10, <1>11, <2>3, AuthorizedPlans
    <2>4. QED BY <1>13, <2>1, <2>2, <2>3, AuthorizedPlans
<1>15. ASSUME NEW f \in Nat, NEW s \in {"completed", "failed"}, NEW command \in CommandName
       PROVE  /\ <<<<FollowupUpdated(f, s)>>>> \in Seq(Seq(Event))
              /\ Planned(<<AllowedCheck(command)>> \o <<<<FollowupUpdated(f, s)>>>>, "derive")
    <2> DEFINE rest == <<<<FollowupUpdated(f, s)>>>>
    <2>1. FollowupUpdated(f, s) \in Event
        OBVIOUS
    <2>2. rest \in Seq(Seq(Event)) /\ \A b \in DOMAIN rest : Plain(rest[b])
        BY <1>2, <2>1
    <2> HIDE DEF rest
    <2>3. Planned(<<AllowedCheck(command)>> \o rest, "derive")
        BY <1>10, <2>2
    <2>4. QED BY <2>2, <2>3 DEF rest
<1>16. ASSUME CompleteFollowup(p) PROVE Goal
    <2>1. PICK a \in Authorities, f \in Followups(log) :
              \/ Authorized(p, "complete-followup", a, MinAuthority.complete_followup,
                            <<<<FollowupUpdated(f, "completed")>>>>, "derive")
              \/ Authorized(p, "complete-followup", a, MinAuthority.complete_followup, <<>>, "idle")
        BY <1>16 DEF CompleteFollowup
    <2>2. CASE Authorized(p, "complete-followup", a, MinAuthority.complete_followup, <<>>, "idle")
        BY <1>10, <1>11, <2>2, AuthorizedPlans
    <2>3. QED BY <1>13, <1>15, <2>1, <2>2, AuthorizedPlans
<1>17. ASSUME FailFollowup(p) PROVE Goal
    BY <1>13, <1>15, <1>17, AuthorizedPlans DEF FailFollowup
<1>18. ASSUME Audit(p) PROVE Goal
    <2>1. ASSUME NEW f \in Nat, NEW o \in AuditOutcome, NEW s \in {"completed", "failed"}
          PROVE  /\ Planned(<<<<Audited(o)>>, <<FollowupUpdated(f, s)>>>>, "derive")
                 /\ Planned(<<<<Audited(o)>>>>, "derive")
        <3>1. Audited(o) \in Event /\ FollowupUpdated(f, s) \in Event
            OBVIOUS
        <3>2. <<Audited(o)>> \in Seq(Event) /\ <<FollowupUpdated(f, s)>> \in Seq(Event)
            BY <3>1
        <3>3. QED BY <1>2, <3>2, OnePlanned, TwoPlanned
    <2>2. QED BY <1>13, <1>18, <2>1 DEF Audit, AuditOutcome
<1>19. QED
    BY <1>3, <1>4, <1>5, <1>6, <1>7, <1>8, <1>9, <1>12, <1>14, <1>16, <1>17, <1>18 DEF Command

-----------------------------------------------------------------------------
(* What a running handler keeps to: it has batches only while it appends,  *)
(* and by the time it creates obligations it has appended their source.    *)

Obliging(me) == me.at = "append" /\ me.todo[1] = Duty

Progress(me) ==
    /\ me.todo \in Seq(Seq(Event)) /\ Orderly(me.todo)
    /\ me.at = "append" <=> me.todo # <<>>
    /\ me.then \in {"idle", "examine", "derive", "gate_claiming", "gate_plain"}
    /\ me.then # "derive" => Quiet(me.todo)
    /\ me.at = "emit" => me.then \in {"gate_claiming", "gate_plain"}
    /\ me.at \in {"compare", "record", "derive"} => me.then = "derive"
    /\ me.at = "examine" => me.then = "examine"
    /\ me.at \in {"gate_claiming", "gate_plain"} => me.then = me.at
    /\ Obliging(me) => me.source # 0

ProgressInv == RecoveryInv /\ \A p \in Procs : Progress(proc[p])

(* The state of a handler after an append.                                 *)
Advanced(me, src) ==
    LET left == Tail(me.todo) IN
    IF left = <<>> /\ me.then = "idle" THEN Idle
    ELSE [me EXCEPT !.todo = left,
                    !.at = IF left = <<>> THEN me.then ELSE "append",
                    !.source = src]

LEMMA AdvancedIs ==
    ASSUME NEW n \in Nat, NEW me \in Local(n), NEW src
    PROVE  LET next == Advanced(me, src)
               left == Tail(me.todo)
           IN  \/ next = Idle /\ left = <<>> /\ me.then = "idle"
               \/ /\ next.todo = left /\ next.source = src /\ next.then = me.then
                  /\ next.derived = me.derived /\ next.prior = me.prior
                  /\ next.at = IF left = <<>> THEN me.then ELSE "append"
                  /\ left = <<>> => me.then # "idle"
BY DEF Advanced, Local

LEMMA IdleIs ==
    /\ Idle.at = "idle" /\ Idle.todo = <<>> /\ Idle.then = "idle" /\ Idle.source = 0
    /\ Idle.derived = "none" /\ Idle.prior = 0 /\ ~Obliging(Idle)
BY DEF Idle, Running, Obliging

LEMMA IdleProgress == Progress(Idle)
<1>1. <<>> \in Seq(Seq(Event)) /\ Orderly(<<>>) /\ Quiet(<<>>)
    BY DEF Orderly, Quiet
<1>2. QED BY <1>1, IdleIs DEF Progress

LEMMA TailKeeps ==
    ASSUME NEW todo \in Seq(Seq(Event)), todo # <<>>
    PROVE  /\ Tail(todo) \in Seq(Seq(Event)) /\ Len(Tail(todo)) = Len(todo) - 1
           /\ Head(todo) = todo[1] /\ 1 \in DOMAIN todo /\ Head(todo) \in Seq(Event)
           /\ \A b \in DOMAIN Tail(todo) : b + 1 \in DOMAIN todo /\ Tail(todo)[b] = todo[b + 1]
           /\ \A b \in DOMAIN todo : b = 1 \/ (b - 1 \in DOMAIN Tail(todo) /\ Tail(todo)[b - 1] = todo[b])
OBVIOUS

LEMMA TailOrderly ==
    ASSUME NEW todo \in Seq(Seq(Event)), todo # <<>>, Orderly(todo)
    PROVE  Orderly(Tail(todo)) /\ (Quiet(todo) => Quiet(Tail(todo)))
<1> DEFINE left == Tail(todo)
<1>1. /\ left \in Seq(Seq(Event)) /\ Len(left) = Len(todo) - 1
      /\ \A b \in DOMAIN left : b + 1 \in DOMAIN todo /\ left[b] = todo[b + 1]
    BY TailKeeps
<1>2. Len(todo) \in Nat /\ Len(left) \in Nat /\ DOMAIN left = 1..Len(left)
    BY <1>1
<1> HIDE DEF left
<1>3. \A b \in DOMAIN left : Alone(left[b])
    BY <1>1 DEF Orderly
<1>4. ASSUME NEW b \in DOMAIN left, NEW c \in DOMAIN left, b < c, Kind(left[b]) \in PrivilegedType
      PROVE  Kind(left[c]) \notin PrivilegedType \cup {"authorization_check"}
    <2>1. b + 1 < c + 1
        BY <1>2, <1>4
    <2>2. QED BY <1>1, <1>4, <2>1 DEF Orderly
<1>5. ASSUME NEW b \in DOMAIN left, Kind(left[b]) = "transform.override"
      PROVE  Len(left) = b + FollowupsPerOverride /\ \A c \in DOMAIN left : b < c => left[c] = Duty
    <2>1. /\ Len(todo) = b + 1 + FollowupsPerOverride
          /\ \A c \in DOMAIN todo : b + 1 < c => todo[c] = Duty
        BY <1>1, <1>5 DEF Orderly
    <2>2. \A c \in DOMAIN left : b < c => b + 1 < c + 1
        BY <1>2
    <2>3. Len(left) = b + FollowupsPerOverride
        BY <1>1, <1>2, <2>1, ContinuityAssumption
    <2>4. QED BY <1>1, <2>1, <2>2, <2>3
<1>6. Quiet(todo) => Quiet(left)
    BY <1>1 DEF Quiet
<1>7. QED BY <1>3, <1>4, <1>5, <1>6 DEF Orderly, left

(* What an append writes: the next batch as it was planned, or one         *)
(* obligation stamped with its source.                                     *)
LEMMA AppendWrites ==
    ASSUME ProgressInv, NEW p \in Procs, AppendBatch(p)
    PROVE  LET me == proc[p]
               batch == Head(me.todo)
           IN  /\ me.at = "append" /\ me.todo # <<>> /\ me.todo \in Seq(Seq(Event))
               /\ batch \in Seq(Event) /\ batch = me.todo[1] /\ batch # <<>> /\ Alone(batch)
               /\ UNCHANGED <<ok, aged, started>>
               /\ \/ /\ batch = Duty /\ me.source # 0
                     /\ log' = Append(log, FollowupCreated(me.source))
                     /\ proc' = [proc EXCEPT ![p] = Advanced(me, me.source)]
                  \/ /\ batch # Duty
                     /\ \A i \in DOMAIN batch : batch[i].type # "followup_created"
                     /\ log' = log \o batch
                     /\ proc' = [proc EXCEPT ![p] = Advanced(me, Len(log'))]
<1> DEFINE me == proc[p]
           todo == me.todo
           batch == Head(todo)
           written == Stamped(batch, me.source)
<1>1. /\ log \in Seq(Event) /\ todo \in Seq(Seq(Event)) /\ me.source \in Nat
      /\ Progress(me) /\ me.at = "append" /\ todo # <<>>
    BY DEF ProgressInv, Progress, RecoveryInv, TypeInv, TypeOK, Local, AppendBatch
<1>2. /\ log' = log \o written
      /\ proc' = [proc EXCEPT ![p] =
                     Advanced(me, IF written[1].type = "followup_created"
                                  THEN me.source ELSE Len(log'))]
      /\ UNCHANGED <<ok, aged, started>>
    BY DEF AppendBatch, Advanced
<1> HIDE DEF todo
<1>3. batch \in Seq(Event) /\ batch = todo[1] /\ Alone(batch) /\ batch # <<>>
    BY <1>1, TailKeeps DEF Progress, Orderly, Alone, todo
<1> HIDE DEF batch
<1>4. 1 \in DOMAIN batch /\ Len(batch) \in Nat
    BY <1>3
<1>5. CASE batch = Duty
    <2>1. FollowupCreated(0).type = "followup_created" /\ FollowupCreated(me.source).type = "followup_created"
        BY Kinds
    <2>2. DOMAIN Duty = {1} /\ Duty[1] = FollowupCreated(0)
        BY DEF Duty
    <2>3. written = [i \in {1} |-> FollowupCreated(me.source)]
        BY <1>5, <2>1, <2>2 DEF Stamped
    <2>4. written = <<FollowupCreated(me.source)>>
        BY <2>3
    <2>5. log' = Append(log, FollowupCreated(me.source)) /\ written[1].type = "followup_created"
        BY <1>1, <1>2, <2>1, <2>4
    <2>6. me.source # 0
        BY <1>1, <1>3, <1>5 DEF Progress, Obliging, todo
    <2>7. QED BY <1>1, <1>2, <1>3, <1>5, <2>5, <2>6 DEF batch, todo
<1>6. CASE batch # Duty
    <2>1. \A i \in DOMAIN batch : batch[i].type # "followup_created"
        <3>1. Kind(batch) # "followup_created"
            BY <1>3, <1>6 DEF Alone
        <3>2. ASSUME NEW i \in DOMAIN batch, batch[i].type = "followup_created" PROVE FALSE
            <4>1. Len(batch) = 1
                BY <1>3, <3>2 DEF Alone, LoneType
            <4>2. i = 1
                BY <1>4, <4>1
            <4>3. QED BY <3>1, <3>2, <4>2 DEF Kind
        <3>3. QED BY <3>2
    <2>2. written = batch
        BY <1>3, <2>1 DEF Stamped
    <2>3. log' = log \o batch /\ proc' = [proc EXCEPT ![p] = Advanced(me, Len(log'))]
        BY <1>2, <1>4, <2>1, <2>2
    <2>4. QED BY <1>1, <1>2, <1>3, <1>6, <2>1, <2>3 DEF batch, todo
<1>7. QED BY <1>5, <1>6

(* What a crash leaves behind: nothing, or the first events of a batch of  *)
(* several, none of which is privileged, an obligation or a check.         *)
LEMMA CrashWrites ==
    ASSUME ProgressInv, NEW p \in Procs, Crash(p)
    PROVE  /\ "crash" \in Faults /\ proc[p].at # "idle"
           /\ UNCHANGED <<ok, aged, started>>
           /\ proc' = [proc EXCEPT ![p] = Idle]
           /\ \E evs \in Seq(Event) :
                 /\ log' = log \o evs
                 /\ \A i \in DOMAIN evs : evs[i].type \notin LoneType \cup FinalType
                 /\ proc[p].then # "derive" => \A i \in DOMAIN evs : Neutral(evs[i])
<1> DEFINE me == proc[p]
           todo == me.todo
           batch == Head(todo)
<1>1. /\ log \in Seq(Event) /\ todo \in Seq(Seq(Event)) /\ me.source \in Nat
      /\ Progress(me)
      /\ me.at = "append" => todo # <<>>
    BY DEF ProgressInv, Progress, RecoveryInv, TypeInv, TypeOK, Local
<1>2. CASE log' = log
    <2> DEFINE none == <<>>
    <2>1. none \in Seq(Event) /\ log' = log \o none /\ \A i \in DOMAIN none : FALSE
        BY <1>1, <1>2
    <2> HIDE DEF none
    <2>2. QED BY <2>1 DEF Crash
<1>3. CASE /\ me.at = "append"
           /\ \E n \in 1..Len(batch) - 1 : log' = log \o SubSeq(Stamped(batch, me.source), 1, n)
    <2> HIDE DEF todo
    <2>1. batch \in Seq(Event) /\ batch = todo[1] /\ 1 \in DOMAIN todo /\ Alone(batch)
        BY <1>1, <1>3, TailKeeps DEF Progress, Orderly, todo
    <2> HIDE DEF batch
    <2>2. PICK n \in 1..Len(batch) - 1 : log' = log \o SubSeq(Stamped(batch, me.source), 1, n)
        BY <1>3
    <2>3. Len(batch) \in Nat /\ Len(batch) # 1 /\ n \in 1..Len(batch)
        <3>1. Len(batch) \in Nat
            BY <2>1
        <3>2. \A k \in Nat : n \in 1..k - 1 => k # 1 /\ n \in 1..k
            OBVIOUS
        <3>3. QED BY <2>2, <3>1, <3>2
    <2>4. \A i \in DOMAIN batch : batch[i].type \notin LoneType \cup FinalType
        BY <2>1, <2>3 DEF Alone
    <2>5. Stamped(batch, me.source) = batch
        BY <2>1, <2>4 DEF Stamped, LoneType
    <2> DEFINE evs == SubSeq(batch, 1, n)
    <2>6. evs \in Seq(Event) /\ \A i \in DOMAIN evs : i \in DOMAIN batch /\ evs[i] = batch[i]
        BY <2>1, <2>3
    <2>7. me.then # "derive" => \A i \in DOMAIN batch : Neutral(batch[i])
        BY <1>1, <2>1 DEF Progress, Quiet, todo
    <2>8. log' = log \o evs
        BY <2>2, <2>5
    <2> HIDE DEF evs
    <2>9. QED BY <2>4, <2>6, <2>7, <2>8 DEF Crash
<1>4. QED BY <1>2, <1>3 DEF Crash

-----------------------------------------------------------------------------
(* The steps of one handler, field by field: me before, next after.        *)

Starts(me, next) ==
    /\ me = Idle /\ log' = log
    /\ \E batches, then :
          /\ Planned(batches, then)
          /\ next = Running(IF batches = <<>> THEN then ELSE "append", batches, then)

Obliges(me, next) ==
    /\ me.at = "append" /\ me.todo # <<>> /\ me.todo[1] = Duty /\ me.source # 0
    /\ log' = Append(log, FollowupCreated(me.source))
    /\ next = Advanced(me, me.source)

Writes(me, next) ==
    /\ me.at = "append" /\ me.todo # <<>> /\ me.todo[1] # Duty
    /\ me.todo[1] \in Seq(Event) /\ me.todo[1] # <<>> /\ Alone(me.todo[1])
    /\ \A i \in DOMAIN me.todo[1] : me.todo[1][i].type # "followup_created"
    /\ log' = log \o me.todo[1]
    /\ next = Advanced(me, Len(log'))

Keeps(me, next) == next.source = me.source /\ next.then = me.then /\ next.todo = me.todo

Examines(me, next) ==
    /\ me.at = "examine" /\ log' = log
    /\ \/ next = Idle
       \/ /\ next.at = "append" /\ next.then = "derive" /\ next.source = me.source
          /\ next.todo = <<<<RecoveryOpened>>, Duty>>

Derives(me, next) ==
    /\ me.at = "derive" /\ log' = log
    /\ next.at = "compare" /\ next.derived = derive_current_claim(log, ok, aged)
    /\ Keeps(me, next)

Compares(me, next) ==
    /\ me.at = "compare" /\ log' = log
    /\ LET previous == CurrentClaimRecord(log) IN
       \/ next = Idle /\ previous # 0 /\ log[previous].claim = me.derived
       \/ /\ ~(previous # 0 /\ log[previous].claim = me.derived)
          /\ next.at = "record" /\ next.derived = me.derived /\ next.prior = previous
          /\ Keeps(me, next)

Records(me, next) ==
    /\ me.at = "record"
    /\ log' = Append(log, ClaimRecord(me.derived, me.prior, me.source))
    /\ ClaimRecord(me.derived, me.prior, me.source) \in Event
    /\ next = Idle

Gates(me, next) ==
    /\ me.at \in {"gate_claiming", "gate_plain"} /\ log' = log
    /\ next.at = "emit" /\ next.derived = derive_current_claim(log, ok, aged)
    /\ Keeps(me, next)

EmittedBy(me) ==
    LET identity == me.then = "gate_claiming"
    IN  OutputGated(me.derived, process_output(me.derived, identity), identity)

Emits(me, next) ==
    /\ me.at = "emit"
    /\ log' = Append(log, EmittedBy(me))
    /\ EmittedBy(me) \in Event
    /\ next = Idle

Dies(me, next) ==
    /\ "crash" \in Faults /\ me.at # "idle"
    /\ next = Idle
    /\ \E evs \in Seq(Event) :
          /\ log' = log \o evs
          /\ \A i \in DOMAIN evs : evs[i].type \notin LoneType \cup FinalType
          /\ me.then # "derive" => \A i \in DOMAIN evs : Neutral(evs[i])

Form(me, next) ==
    \/ Starts(me, next) \/ Obliges(me, next) \/ Writes(me, next) \/ Examines(me, next)
    \/ Derives(me, next) \/ Compares(me, next) \/ Records(me, next) \/ Gates(me, next)
    \/ Emits(me, next) \/ Dies(me, next)

LEMMA StepForms ==
    ASSUME ProgressInv, NEW p \in Procs, Command(p) \/ Step(p) \/ Crash(p)
    PROVE  \E next : /\ proc' = [proc EXCEPT ![p] = next]
                     /\ Form(proc[p], next)
                     /\ UNCHANGED <<ok, aged>>
<1> DEFINE me == proc[p]
           Goal == \E next : /\ proc' = [proc EXCEPT ![p] = next]
                             /\ Form(me, next)
                             /\ UNCHANGED <<ok, aged>>
<1>1. /\ log \in Seq(Event) /\ me \in Local(Len(log)) /\ Coherent(me) /\ TypeInv
      /\ Progress(me) /\ me.todo \in Seq(Seq(Event))
    BY DEF ProgressInv, Progress, RecoveryInv, TypeInv, TypeOK, Appending
<1>2. ASSUME Command(p) PROVE Goal
    <2>1. PICK batches, then : Planned(batches, then) /\ Begin(p, batches, then)
        BY <1>1, <1>2, CommandPlans
    <2>2. QED BY <2>1 DEF Begin, Form, Starts
<1>3. ASSUME AppendBatch(p) PROVE Goal
    <2>1. me.todo[1] = Head(me.todo)
        BY <1>3, AppendWrites
    <2>2. /\ me.at = "append" /\ me.todo # <<>> /\ UNCHANGED <<ok, aged>>
          /\ me.todo[1] \in Seq(Event) /\ me.todo[1] # <<>> /\ Alone(me.todo[1])
        BY <1>3, AppendWrites
    <2>3. \/ /\ me.todo[1] = Duty /\ me.source # 0
             /\ log' = Append(log, FollowupCreated(me.source))
             /\ proc' = [proc EXCEPT ![p] = Advanced(me, me.source)]
          \/ /\ me.todo[1] # Duty
             /\ \A i \in DOMAIN me.todo[1] : me.todo[1][i].type # "followup_created"
             /\ log' = log \o me.todo[1]
             /\ proc' = [proc EXCEPT ![p] = Advanced(me, Len(log'))]
        BY <1>3, AppendWrites
    <2>4. \/ /\ Obliges(me, Advanced(me, me.source))
             /\ proc' = [proc EXCEPT ![p] = Advanced(me, me.source)]
          \/ /\ Writes(me, Advanced(me, Len(log')))
             /\ proc' = [proc EXCEPT ![p] = Advanced(me, Len(log'))]
        BY <2>2, <2>3 DEF Obliges, Writes
    <2>5. QED BY <2>2, <2>4 DEF Form
<1>4. ASSUME ExamineClaim(p) PROVE Goal
    <2> DEFINE next == [me EXCEPT !.at = "append", !.then = "derive",
                                  !.todo = <<<<RecoveryOpened>>, <<FollowupCreated(0)>>>>]
    <2>1. /\ next.at = "append" /\ next.then = "derive" /\ next.source = me.source
          /\ next.todo = <<<<RecoveryOpened>>, <<FollowupCreated(0)>>>>
        BY <1>1 DEF Local
    <2>2. /\ proc' = [proc EXCEPT ![p] = Idle] \/ proc' = [proc EXCEPT ![p] = next]
          /\ log' = log /\ me.at = "examine" /\ UNCHANGED <<ok, aged>>
        BY <1>4 DEF ExamineClaim
    <2> HIDE DEF next
    <2>3. QED BY <2>1, <2>2 DEF Form, Examines, Duty
<1>5. ASSUME DeriveClaim(p) \/ GateText(p) PROVE Goal
    <2> DEFINE claim == derive_current_claim(log, ok, aged)
               next(a) == [me EXCEPT !.at = a, !.derived = claim]
    <2>1. \A a : next(a).at = a /\ next(a).derived = claim /\ Keeps(me, next(a))
        BY <1>1 DEF Local, Keeps
    <2>2. \/ /\ DeriveClaim(p) /\ me.at = "derive" /\ log' = log /\ UNCHANGED <<ok, aged>>
             /\ proc' = [proc EXCEPT ![p] = next("compare")]
          \/ /\ GateText(p) /\ me.at \in {"gate_claiming", "gate_plain"} /\ log' = log
             /\ UNCHANGED <<ok, aged>> /\ proc' = [proc EXCEPT ![p] = next("emit")]
        BY <1>5 DEF DeriveClaim, GateText
    <2> HIDE DEF next
    <2>3. QED BY <2>1, <2>2 DEF Form, Derives, Gates
<1>6. ASSUME CompareClaim(p) PROVE Goal
    <2> DEFINE previous == CurrentClaimRecord(log)
               next == [me EXCEPT !.at = "record", !.prior = previous]
    <2>1. next.at = "record" /\ next.derived = me.derived /\ next.prior = previous /\ Keeps(me, next)
        BY <1>1 DEF Local, Keeps
    <2>2. /\ IF previous # 0 /\ log[previous].claim = me.derived
             THEN proc' = [proc EXCEPT ![p] = Idle] ELSE proc' = [proc EXCEPT ![p] = next]
          /\ log' = log /\ me.at = "compare" /\ UNCHANGED <<ok, aged>>
        BY <1>6 DEF CompareClaim
    <2> HIDE DEF next
    <2>3. QED BY <2>1, <2>2 DEF Form, Compares
<1>7. ASSUME RecordClaim(p) PROVE Goal
    <2>1. me.derived \in Claim /\ me.prior \in Nat /\ me.source \in Nat
        BY <1>1, <1>7 DEF RecordClaim, Coherent, Local
    <2>2. ClaimRecord(me.derived, me.prior, me.source) \in Event
        BY <2>1, EventsTyped
    <2>3. QED BY <1>7, <2>2 DEF RecordClaim, Form, Records
<1>8. ASSUME EmitText(p) PROVE Goal
    <2>1. me.derived \in Claim
        BY <1>1, <1>8 DEF EmitText, Coherent
    <2>2. EmittedBy(me) \in Event
        BY <2>1, EventsTyped DEF EmittedBy, process_output
    <2>3. QED BY <1>8, <2>2 DEF EmitText, Form, Emits, EmittedBy
<1>9. ASSUME Crash(p) PROVE Goal
    BY <1>9, CrashWrites DEF Form, Dies
<1>10. QED
    BY <1>2, <1>3, <1>4, <1>5, <1>6, <1>7, <1>8, <1>9 DEF Step

(* A handler that moves to next leaves the others where they are.          *)
LEMMA OthersStay ==
    ASSUME ProgressInv, NEW p \in Procs, NEW next, proc' = [proc EXCEPT ![p] = next]
    PROVE  proc'[p] = next /\ \A q \in Procs : q # p => proc'[q] = proc[q]
BY DEF ProgressInv, RecoveryInv, TypeInv, TypeOK

(* The plan of open-recovery once it has looked at the recorded claim.     *)
LEMMA ReopenOrderly ==
    Orderly(<<<<RecoveryOpened>>, Duty>>) /\ <<<<RecoveryOpened>>, Duty>> \in Seq(Seq(Event))
<1> DEFINE first == <<RecoveryOpened>>
           all == <<first, Duty>>
<1>1. /\ RecoveryOpened \in Event /\ RecoveryOpened.type = "recovery_opened"
      /\ FollowupCreated(0) \in Event /\ FollowupCreated(0).type = "followup_created"
    BY EventsTyped, Kinds
<1>2. /\ first \in Seq(Event) /\ Alone(first) /\ Kind(first) = "recovery_opened"
      /\ Duty \in Seq(Event) /\ Alone(Duty) /\ Kind(Duty) = "followup_created"
    BY <1>1 DEF Alone, Kind, Duty, LoneType, FinalType, PrivilegedType
<1> HIDE DEF first
<1>3. all \in Seq(Seq(Event)) /\ DOMAIN all = {1, 2} /\ all[1] = first /\ all[2] = Duty
    BY <1>2
<1> HIDE DEF all
<1>4. Orderly(all)
    BY <1>2, <1>3 DEF Orderly, PrivilegedType
<1>5. QED BY <1>3, <1>4 DEF all, first

LEMMA FormKeepsProgress ==
    ASSUME ProgressInv, NEW p \in Procs, NEW next, Form(proc[p], next), log' \in Seq(Event)
    PROVE  Progress(next)
<1> DEFINE me == proc[p]
<1>1. /\ log \in Seq(Event) /\ me \in Local(Len(log)) /\ Coherent(me) /\ Len(log) \in Nat
      /\ Progress(me) /\ me.todo \in Seq(Seq(Event))
    BY DEF ProgressInv, Progress, RecoveryInv, TypeInv, TypeOK, Appending
<1>2. CASE Starts(me, next)
    <2>1. PICK batches, then :
              /\ Planned(batches, then)
              /\ next = Running(IF batches = <<>> THEN then ELSE "append", batches, then)
        BY <1>2 DEF Starts
    <2>2. /\ next.todo = batches /\ next.then = then /\ next.source = 0
          /\ next.at = IF batches = <<>> THEN then ELSE "append"
        BY <2>1 DEF Running
    <2>3. batches # <<>> => batches[1] # Duty
        BY <2>1, Kinds DEF Planned, Kind, Duty
    <2>4. QED BY <2>1, <2>2, <2>3 DEF Progress, Planned, Obliging
<1>3. ASSUME NEW src, next = Advanced(me, src), me.todo # <<>>, src # 0
      PROVE  Progress(next)
    <2> DEFINE left == Tail(me.todo)
    <2>1. left \in Seq(Seq(Event)) /\ Orderly(left) /\ (Quiet(me.todo) => Quiet(left))
        BY <1>1, <1>3, TailKeeps, TailOrderly DEF Progress
    <2>2. \/ next = Idle
          \/ /\ next.todo = left /\ next.source = src /\ next.then = me.then
             /\ next.at = IF left = <<>> THEN me.then ELSE "append"
        BY <1>1, <1>3, AdvancedIs
    <2> HIDE DEF left
    <2>3. me.then \in {"idle", "examine", "derive", "gate_claiming", "gate_plain"}
          /\ (me.then # "derive" => Quiet(me.todo))
        BY <1>1 DEF Progress
    <2>4. QED BY <1>3, <2>1, <2>2, <2>3, IdleProgress DEF Progress, Obliging
<1>4. CASE Obliges(me, next)
    BY <1>3, <1>4 DEF Obliges
<1>5. CASE Writes(me, next)
    <2>1. Len(log') # 0
        BY <1>1, <1>5 DEF Writes
    <2>2. QED BY <1>3, <1>5, <2>1 DEF Writes
<1>6. CASE Examines(me, next)
    <2>1. CASE next = Idle
        BY <2>1, IdleProgress
    <2>2. CASE next # Idle
        <3>1. Duty # <<RecoveryOpened>>
            BY Kinds DEF Duty
        <3> DEFINE all == <<<<RecoveryOpened>>, Duty>>
        <3>2. all # <<>> /\ all[1] = <<RecoveryOpened>> /\ Orderly(all) /\ all \in Seq(Seq(Event))
            BY ReopenOrderly
        <3>3. next.at = "append" /\ next.then = "derive" /\ next.todo = all
            BY <1>6, <2>2 DEF Examines
        <3> HIDE DEF all
        <3>4. QED BY <3>1, <3>2, <3>3 DEF Progress, Obliging
    <2>3. QED BY <2>1, <2>2
<1>7. CASE Derives(me, next)
    BY <1>1, <1>7 DEF Derives, Keeps, Progress, Obliging
<1>8. CASE Compares(me, next)
    BY <1>1, <1>8, IdleProgress DEF Compares, Keeps, Progress, Obliging
<1>9. CASE Gates(me, next)
    BY <1>1, <1>9 DEF Gates, Keeps, Progress, Obliging
<1>10. CASE Records(me, next) \/ Emits(me, next) \/ Dies(me, next)
    BY <1>10, IdleProgress DEF Records, Emits, Dies
<1>11. QED
    BY <1>2, <1>4, <1>5, <1>6, <1>7, <1>8, <1>9, <1>10 DEF Form

LEMMA InitProgressInv == Init => ProgressInv
BY InitRecoveryInv, IdleProgress DEF Init, ProgressInv

LEMMA NextProgressInv == ProgressInv /\ [Next]_vars => ProgressInv'
<1> SUFFICES ASSUME ProgressInv, [Next]_vars PROVE ProgressInv'
    OBVIOUS
<1>1. RecoveryInv'
    BY NextRecoveryInv DEF ProgressInv
<1>2. CASE Age \/ Tamper \/ UNCHANGED vars
    BY <1>1, <1>2 DEF Age, Tamper, vars, ProgressInv
<1>3. ASSUME NEW p \in Procs, Command(p) \/ Step(p) \/ Crash(p) PROVE ProgressInv'
    <2>1. PICK next : proc' = [proc EXCEPT ![p] = next] /\ Form(proc[p], next)
        BY <1>3, StepForms
    <2>2. Progress(next)
        BY <1>1, <2>1, FormKeepsProgress DEF RecoveryInv, TypeInv, TypeOK
    <2>3. QED BY <1>1, <2>1, <2>2, OthersStay DEF ProgressInv
<1>4. QED BY <1>2, <1>3 DEF Next

-----------------------------------------------------------------------------
(* Where the events of each kind come from.                                *)

\* Which of a handler's steps may append events of which kinds.
Sourced(evs, me, next) ==
    \A i \in DOMAIN evs :
       /\ evs[i].type = "followup_created" =>
              Obliges(me, next) /\ evs = <<FollowupCreated(me.source)>>
       /\ evs[i].type = "continuity_claim_record" =>
              Records(me, next) /\ evs = <<ClaimRecord(me.derived, me.prior, me.source)>>
       /\ evs[i].type = "runtime.output_gate" => Emits(me, next) /\ evs = <<EmittedBy(me)>>
       /\ evs[i].type \in PrivilegedType \cup {"authorization_check"} =>
              Writes(me, next) /\ evs = <<evs[i]>> /\ evs = me.todo[1]

LEMMA FormAppends ==
    ASSUME ProgressInv, NEW p \in Procs, NEW next, Form(proc[p], next)
    PROVE  \E evs \in Seq(Event) : log' = log \o evs /\ Sourced(evs, proc[p], next)
<1> DEFINE me == proc[p]
           Goal == \E evs \in Seq(Event) : log' = log \o evs /\ Sourced(evs, me, next)
<1>0. log \in Seq(Event) /\ me.source \in Nat
    BY DEF ProgressInv, RecoveryInv, TypeInv, TypeOK, Local
<1>1. ASSUME log' = log PROVE Goal
    <2> DEFINE none == <<>>
    <2>1. none \in Seq(Event) /\ log' = log \o none /\ \A i \in DOMAIN none : FALSE
        BY <1>0, <1>1
    <2> HIDE DEF none
    <2>2. Sourced(none, me, next)
        BY <2>1 DEF Sourced
    <2>3. QED BY <2>1, <2>2
<1>2. ASSUME NEW e \in Event, log' = Append(log, e), Sourced(<<e>>, me, next) PROVE Goal
    <2>1. <<e>> \in Seq(Event) /\ log' = log \o <<e>>
        BY <1>0, <1>2
    <2>2. QED BY <1>2, <2>1
<1>3. ASSUME Obliges(me, next) PROVE Goal
    <2>1. FollowupCreated(me.source) \in Event
        BY <1>0, EventsTyped
    <2>2. Sourced(<<FollowupCreated(me.source)>>, me, next)
        BY <1>3, Kinds DEF PrivilegedType, Sourced
    <2>3. log' = Append(log, FollowupCreated(me.source))
        BY <1>3 DEF Obliges
    <2>4. QED BY <1>2, <2>1, <2>2, <2>3
<1>4. ASSUME Records(me, next) PROVE Goal
    <2> DEFINE e == ClaimRecord(me.derived, me.prior, me.source)
    <2>1. Sourced(<<e>>, me, next)
        BY <1>4, Kinds DEF PrivilegedType, Sourced
    <2>2. log' = Append(log, e) /\ e \in Event
        BY <1>4 DEF Records
    <2> HIDE DEF e
    <2>3. QED BY <1>2, <2>1, <2>2
<1>5. ASSUME Emits(me, next) PROVE Goal
    <2>1. EmittedBy(me).type = "runtime.output_gate"
        BY Kinds DEF EmittedBy
    <2>2. Sourced(<<EmittedBy(me)>>, me, next)
        BY <1>5, <2>1 DEF PrivilegedType, Sourced
    <2>3. log' = Append(log, EmittedBy(me)) /\ EmittedBy(me) \in Event
        BY <1>5 DEF Emits
    <2>4. QED BY <1>2, <2>2, <2>3
<1>6. ASSUME Writes(me, next) PROVE Goal
    <2> DEFINE batch == me.todo[1]
    <2>1. batch \in Seq(Event) /\ log' = log \o batch /\ Alone(batch)
          /\ \A i \in DOMAIN batch : batch[i].type # "followup_created"
        BY <1>6 DEF Writes
    <2> HIDE DEF batch
    <2>2. ASSUME NEW i \in DOMAIN batch, batch[i].type \in PrivilegedType \cup {"authorization_check"}
          PROVE  batch = <<batch[i]>>
        <3>1. Len(batch) = 1
            BY <2>1, <2>2 DEF Alone, LoneType
        <3>2. QED BY <2>1, <3>1
    <2>3. \A i \in DOMAIN batch : batch[i].type \notin FinalType
        BY <2>1 DEF Alone
    <2>4. Sourced(batch, me, next)
        BY <1>6, <2>1, <2>2, <2>3 DEF FinalType, batch, Sourced
    <2>5. QED BY <2>1, <2>4
<1>7. ASSUME Dies(me, next) PROVE Goal
    <2>1. PICK evs \in Seq(Event) :
              /\ log' = log \o evs
              /\ \A i \in DOMAIN evs : evs[i].type \notin LoneType \cup FinalType
        BY <1>7 DEF Dies
    <2>2. Sourced(evs, me, next)
        BY <2>1 DEF LoneType, FinalType, Sourced
    <2>3. QED BY <2>1, <2>2
<1>8. /\ Starts(me, next) => log' = log
      /\ Examines(me, next) => log' = log
      /\ Derives(me, next) \/ Compares(me, next) \/ Gates(me, next) => log' = log
    BY DEF Starts, Examines, Derives, Compares, Gates
<1> HIDE DEF Goal
<1>9. Goal
    BY <1>1, <1>3, <1>4, <1>5, <1>6, <1>7, <1>8 DEF Form
<1>10. QED BY <1>9 DEF Goal

\* What the fields of an event range over.
LEMMA EventFields ==
    ASSUME NEW e \in Event
    PROVE  /\ e.type = "continuity_claim_record" =>
                  e.claim \in Claim /\ e.supersedes \in Nat /\ e.source \in Nat
           /\ e.type = "followup_created" => e.source \in Nat /\ e = FollowupCreated(e.source)
BY Kinds DEF Event, FollowupCreated

(* A ledger that grows keeps what it had.                                  *)
LEMMA LogGrows ==
    ASSUME NEW evs \in Seq(Event), NEW more \in Seq(Event)
    PROVE  LET all == evs \o more IN
           /\ all \in Seq(Event) /\ Len(all) = Len(evs) + Len(more) /\ Len(evs) \in Nat
           /\ Len(more) \in Nat
           /\ \A i \in 1..Len(evs) : i \in DOMAIN all /\ all[i] = evs[i]
           /\ \A i \in DOMAIN all : i > Len(evs) =>
                 i - Len(evs) \in DOMAIN more /\ all[i] = more[i - Len(evs)]
           /\ \A n \in 0..Len(evs) : SubSeq(all, 1, n) = SubSeq(evs, 1, n)
<1> DEFINE all == evs \o more
<1>1. /\ all \in Seq(Event) /\ Len(all) = Len(evs) + Len(more) /\ Len(evs) \in Nat
      /\ Len(more) \in Nat /\ DOMAIN all = 1..Len(all)
    OBVIOUS
<1>2. \A i \in 1..Len(evs) : i \in DOMAIN all /\ all[i] = evs[i]
    OBVIOUS
<1>3. \A i \in DOMAIN all : i > Len(evs) =>
          i - Len(evs) \in DOMAIN more /\ all[i] = more[i - Len(evs)]
    OBVIOUS
<1>4. ASSUME NEW n \in 0..Len(evs) PROVE SubSeq(all, 1, n) = SubSeq(evs, 1, n)
    <2> HIDE DEF all
    <2>1. \A i \in 1..n : all[i] = evs[i]
        BY <1>1, <1>2
    <2>2. SubSeq(all, 1, n) = [i \in 1..n |-> all[i]] /\ SubSeq(evs, 1, n) = [i \in 1..n |-> evs[i]]
        BY <1>1
    <2>3. QED BY <2>1, <2>2
<1>5. QED BY <1>1, <1>2, <1>3, <1>4

-----------------------------------------------------------------------------
(* Certified records.  The event a handler's follow-ups and its claim      *)
(* record refer to is its own: no other handler creates obligations for    *)
(* it.  So once a handler derives certified continuity from a clear        *)
(* ledger, no obligation of that source is created behind its back.        *)

DistinctSources ==
    \A p, q \in Procs : p # q /\ proc[p].source # 0 => proc[q].source # proc[p].source

Rests(src, evs) ==
    \E n \in src..Len(evs) :
        /\ \A f \in 1..Len(evs) : evs[f] = FollowupCreated(src) => f <= n
        /\ Clear(SubSeq(evs, 1, n))

CertainRests == \A p \in Procs :
    proc[p].at \in {"compare", "record"} /\ proc[p].derived = "certified_continuity"
        => Rests(proc[p].source, log)

RestsInv ==
    ProgressInv /\ DistinctSources /\ CertainRests /\ CertifiedRecordsRestOnClear

LEMMA RestsKept ==
    ASSUME NEW evs \in Seq(Event), NEW more \in Seq(Event), NEW src \in Nat,
           \A i \in DOMAIN more : more[i] # FollowupCreated(src), Rests(src, evs)
    PROVE  Rests(src, evs \o more)
<1> DEFINE all == evs \o more
<1>1. PICK n \in src..Len(evs) :
          /\ \A f \in 1..Len(evs) : evs[f] = FollowupCreated(src) => f <= n
          /\ Clear(SubSeq(evs, 1, n))
    BY DEF Rests
<1>2. /\ Len(all) \in Nat /\ Len(evs) \in Nat /\ Len(evs) <= Len(all) /\ DOMAIN all = 1..Len(all)
      /\ \A i \in 1..Len(evs) : all[i] = evs[i]
      /\ \A i \in DOMAIN all : i > Len(evs) => i - Len(evs) \in DOMAIN more /\ all[i] = more[i - Len(evs)]
      /\ SubSeq(all, 1, n) = SubSeq(evs, 1, n)
    BY LogGrows
<1> HIDE DEF all
<1>3. ASSUME NEW f \in 1..Len(all), all[f] = FollowupCreated(src) PROVE f <= n
    <2>1. f <= Len(evs)
        BY <1>2, <1>3
    <2>2. QED BY <1>1, <1>2, <1>3, <2>1
<1>4. n \in src..Len(all)
    BY <1>1, <1>2
<1>5. QED BY <1>1, <1>2, <1>3, <1>4 DEF Rests, all

(* Where the source of a handler comes from.                               *)
LEMMA FormSources ==
    ASSUME ProgressInv, NEW p \in Procs, NEW next, Form(proc[p], next)
    PROVE  \/ next.source \in {0, proc[p].source}
           \/ next.source = Len(log') /\ Len(log') > Len(log)
<1> DEFINE me == proc[p]
<1>1. log \in Seq(Event) /\ me \in Local(Len(log)) /\ Len(log) \in Nat
    BY DEF ProgressInv, RecoveryInv, TypeInv, TypeOK
<1>2. CASE Starts(me, next)
    BY <1>2 DEF Starts, Running
<1>3. CASE Obliges(me, next)
    BY <1>1, <1>3, AdvancedIs, IdleIs DEF Obliges
<1>4. CASE Writes(me, next)
    <2>1. Len(log') > Len(log)
        BY <1>1, <1>4 DEF Writes
    <2>2. QED BY <1>1, <1>4, <2>1, AdvancedIs, IdleIs DEF Writes
<1>5. QED
    BY <1>2, <1>3, <1>4, IdleIs
       DEF Form, Examines, Derives, Compares, Records, Gates, Emits, Dies, Keeps

LEMMA InitRestsInv == Init => RestsInv
<1> SUFFICES ASSUME Init PROVE RestsInv
    OBVIOUS
<1>1. ProgressInv
    BY InitProgressInv
<1>2. log = <<>> /\ \A p \in Procs : proc[p] = Idle
    BY DEF Init
<1>3. DistinctSources /\ CertainRests
    BY <1>2, IdleIs DEF DistinctSources, CertainRests
<1>4. CertifiedRecordsRestOnClear
    BY <1>2 DEF CertifiedRecordsRestOnClear, Positions
<1>5. QED BY <1>1, <1>3, <1>4 DEF RestsInv

LEMMA NextRestsInv == RestsInv /\ [Next]_vars => RestsInv'
<1> SUFFICES ASSUME RestsInv, [Next]_vars PROVE RestsInv'
    OBVIOUS
<1>1. ProgressInv /\ ProgressInv'
    BY NextProgressInv DEF RestsInv
<1>2. CASE Age \/ Tamper \/ UNCHANGED vars
    BY <1>1, <1>2
       DEF Age, Tamper, vars, RestsInv, DistinctSources, CertainRests,
           CertifiedRecordsRestOnClear, Prefix
<1>3. ASSUME NEW p \in Procs, Command(p) \/ Step(p) \/ Crash(p) PROVE RestsInv'
    <2> DEFINE me == proc[p]
    <2>1. PICK next : proc' = [proc EXCEPT ![p] = next] /\ Form(proc[p], next)
        BY <1>1, <1>3, StepForms
    <2>2. proc'[p] = next /\ \A q \in Procs : q # p => proc'[q] = proc[q]
        BY <1>1, <2>1, OthersStay
    <2>3. PICK evs \in Seq(Event) :
              /\ log' = log \o evs
              /\ \A i \in DOMAIN evs :
                    /\ evs[i].type = "followup_created" =>
                           Obliges(me, next) /\ evs = <<FollowupCreated(me.source)>>
                    /\ evs[i].type = "continuity_claim_record" =>
                           /\ Records(me, next)
                           /\ evs = <<ClaimRecord(me.derived, me.prior, me.source)>>
        BY <1>1, <2>1, FormAppends DEF Sourced
    <2>4. /\ log \in Seq(Event) /\ Len(log) \in Nat
          /\ \A q \in Procs : proc[q].source \in 0..Len(log)
          /\ ok \in BOOLEAN /\ aged \in Nat /\ RecoveriesOpened(log)
        BY <1>1 DEF ProgressInv, RecoveryInv, TypeInv, TypeOK, Local
    <2>5. /\ Len(log') \in Nat /\ Len(log) <= Len(log')
          /\ \A i \in 1..Len(log) : log'[i] = log[i]
          /\ \A i \in DOMAIN log' : i > Len(log) =>
                 i - Len(log) \in DOMAIN evs /\ log'[i] = evs[i - Len(log)]
          /\ \A n \in 0..Len(log) : SubSeq(log', 1, n) = SubSeq(log, 1, n)
        BY <2>3, <2>4, LogGrows
    <2>6. DistinctSources'
        <3>1. \/ next.source \in {0, me.source}
              \/ next.source = Len(log') /\ Len(log') > Len(log)
            BY <1>1, <2>1, FormSources
        <3>2. \A q \in Procs : q # p /\ proc'[q].source # 0 => next.source # proc'[q].source
            BY <2>2, <2>4, <2>5, <3>1 DEF RestsInv, DistinctSources
        <3>3. \A q \in Procs : q # p /\ next.source # 0 => proc'[q].source # next.source
            BY <2>2, <2>4, <2>5, <3>1 DEF RestsInv, DistinctSources
        <3>4. QED BY <2>2, <3>2, <3>3 DEF RestsInv, DistinctSources
    <2>7. ASSUME NEW q \in Procs, proc'[q].at \in {"compare", "record"},
                 proc'[q].derived = "certified_continuity"
          PROVE  Rests(proc'[q].source, log')
        <3>1. CASE q # p
            <4>1. proc'[q] = proc[q] /\ Rests(proc[q].source, log)
                BY <2>2, <2>7, <3>1 DEF RestsInv, CertainRests
            <4>2. ASSUME NEW i \in DOMAIN evs, evs[i] = FollowupCreated(proc[q].source) PROVE FALSE
                <5>1. Obliges(me, next) /\ evs = <<FollowupCreated(me.source)>>
                    BY <2>3, <4>2, Kinds
                <5>2. FollowupCreated(proc[q].source) = FollowupCreated(me.source)
                    BY <4>2, <5>1
                <5>3. proc[q].source = me.source
                    BY <5>2, Kinds
                <5>4. QED BY <3>1, <5>1, <5>3 DEF Obliges, RestsInv, DistinctSources
            <4>3. QED BY <2>3, <2>4, <4>1, <4>2, RestsKept
        <3>2. CASE q = p
            <4>1. Derives(me, next) \/ Compares(me, next)
                <5>1. me \in Local(Len(log)) /\ Progress(me)
                    BY <1>1 DEF ProgressInv, RecoveryInv, TypeInv, TypeOK
                <5>2. next.at \in {"compare", "record"}
                    BY <2>2, <2>7, <3>2
                <5>3. ~Starts(me, next)
                    BY <5>2 DEF Starts, Running, Planned
                <5>4. ~(Obliges(me, next) \/ Writes(me, next))
                    <6>1. \A src : Advanced(me, src).at \in {"idle", "append", me.then}
                        BY <2>4, <5>1, AdvancedIs, IdleIs
                    <6>2. \A src : next # Advanced(me, src)
                        BY <5>1, <5>2, <6>1 DEF Progress
                    <6>3. QED BY <6>2 DEF Obliges, Writes
                <5>5. QED
                    BY <2>1, <5>2, <5>3, <5>4, IdleIs
                       DEF Form, Examines, Records, Gates, Emits, Dies
            <4>2. CASE Derives(me, next)
                <5>1. derive_current_claim(log, ok, aged) = "certified_continuity"
                    BY <2>2, <2>7, <3>2, <4>2 DEF Derives
                <5>2. Clear(log)
                    BY <2>4, <5>1, CertifiedOnlyIfClear
                <5>3. SubSeq(log, 1, Len(log)) = log
                    BY <2>4
                <5>4. me.source \in 0..Len(log)
                    BY <2>4
                <5>5. Len(log) \in me.source..Len(log) /\ \A f \in 1..Len(log) : f <= Len(log)
                    BY <2>4, <5>4
                <5>6. Rests(me.source, log)
                    BY <5>2, <5>3, <5>5 DEF Rests
                <5>7. QED BY <2>2, <3>2, <4>2, <5>6 DEF Derives, Keeps
            <4>3. CASE Compares(me, next)
                <5>1. next # Idle
                    BY <2>2, <2>7, <3>2, IdleIs
                <5>2. Rests(me.source, log)
                    BY <2>2, <2>7, <3>2, <4>3, <5>1 DEF Compares, RestsInv, CertainRests
                <5>3. QED BY <2>2, <3>2, <4>3, <5>1, <5>2 DEF Compares, Keeps
            <4>4. QED BY <4>1, <4>2, <4>3
        <3>3. QED BY <3>1, <3>2
    <2>8. ASSUME NEW i \in Positions(log', "continuity_claim_record"),
                 log'[i].claim = "certified_continuity"
          PROVE  \E n \in log'[i].source..(i - 1) :
                    /\ \A f \in 1..(i - 1) : log'[f] = FollowupCreated(log'[i].source) => f <= n
                    /\ Clear(SubSeq(log', 1, n))
        <3>1. i \in DOMAIN log' /\ i \in Nat /\ log'[i].type = "continuity_claim_record"
            BY <2>3, <2>4, LogGrows DEF Positions
        <3>2. CASE i <= Len(log)
            <4>1. i \in 1..Len(log) /\ log'[i] = log[i] /\ i \in Positions(log, "continuity_claim_record")
                BY <2>3, <2>4, <2>5, <3>1, <3>2, LogGrows DEF Positions
            <4>2. PICK n \in log[i].source..(i - 1) :
                     /\ \A f \in 1..(i - 1) : log[f] = FollowupCreated(log[i].source) => f <= n
                     /\ Clear(SubSeq(log, 1, n))
                BY <2>8, <4>1 DEF RestsInv, CertifiedRecordsRestOnClear, Prefix
            <4>3. log[i].source \in Nat
                BY <2>4, <4>1, EventFields DEF Positions
            <4>4. n \in 0..Len(log) /\ \A f \in 1..(i - 1) : log'[f] = log[f]
                BY <2>4, <2>5, <4>1, <4>2, <4>3
            <4>5. SubSeq(log', 1, n) = SubSeq(log, 1, n)
                BY <2>5, <4>4
            <4>6. QED BY <4>1, <4>2, <4>4, <4>5
        <3>3. CASE ~(i <= Len(log))
            <4> DEFINE record == ClaimRecord(me.derived, me.prior, me.source)
            <4>1. i - Len(log) \in DOMAIN evs /\ log'[i] = evs[i - Len(log)]
                BY <2>4, <2>5, <3>1, <3>3
            <4>2. Records(me, next) /\ evs = <<record>>
                BY <2>3, <3>1, <4>1
            <4>3. i = Len(log) + 1 /\ log'[i] = record
                BY <2>4, <3>1, <4>1, <4>2
            <4>4. record.source = me.source /\ record.claim = me.derived
                BY DEF ClaimRecord
            <4>5. Rests(me.source, log)
                BY <2>8, <4>2, <4>3, <4>4 DEF Records, RestsInv, CertainRests
            <4>6. PICK n \in me.source..Len(log) :
                      /\ \A f \in 1..Len(log) : log[f] = FollowupCreated(me.source) => f <= n
                      /\ Clear(SubSeq(log, 1, n))
                BY <4>5 DEF Rests
            <4>7. n \in 0..Len(log) /\ i - 1 = Len(log)
                BY <2>4, <4>3, <4>6
            <4>8. SubSeq(log', 1, n) = SubSeq(log, 1, n)
                BY <2>5, <4>7
            <4>9. QED BY <2>5, <4>3, <4>4, <4>6, <4>7, <4>8
        <3>4. QED BY <3>2, <3>3
    <2>9. CertainRests' /\ CertifiedRecordsRestOnClear'
        BY <2>7, <2>8 DEF CertainRests, CertifiedRecordsRestOnClear, Prefix
    <2>10. QED BY <1>1, <2>6, <2>9 DEF RestsInv
<1>4. QED BY <1>2, <1>3 DEF Next

(* A certified claim record rests on a clear ledger that already held the  *)
(* event and every obligation of its own command, however the handlers of  *)
(* any number of processes interleave and wherever they are killed         *)
(* (state.py:52-70, pca_cli.py:267-286).                                   *)
THEOREM CertifiedRecordsRest == Spec => []CertifiedRecordsRestOnClear
<1>1. RestsInv => CertifiedRecordsRestOnClear
    BY DEF RestsInv
<1>2. QED BY <1>1, InitRestsInv, NextRestsInv, PTL DEF Spec

-----------------------------------------------------------------------------
(* The obligations of an override.  They are on the ledger, or the handler *)
(* that appended it has exactly the missing ones left to append and no     *)
(* other handler may append any for it.                                    *)

Obligations(evs, i) == {f \in Followups(evs) : evs[f].source = i}

ObligedBy(me, i) ==
    /\ Obliging(me) /\ me.source = i
    /\ Cardinality(Obligations(log, i)) + Len(me.todo) = FollowupsPerOverride
    /\ \A b \in DOMAIN me.todo : me.todo[b] = Duty

Obliged(i) ==
    \/ /\ Cardinality(Obligations(log, i)) = FollowupsPerOverride
       /\ \A p \in Procs : Obliging(proc[p]) => proc[p].source # i
    \/ \E p \in Procs : ObligedBy(proc[p], i)

FollowupsNameThePast == \A f \in Followups(log) : log[f].source <= Len(log)

ObligedInv ==
    /\ RestsInv
    /\ FollowupsNameThePast
    /\ \A i \in Positions(log, "transform.override") : Obliged(i)

\* How a handler comes to owe obligations.
LEMMA FormObliging ==
    ASSUME ProgressInv, NEW p \in Procs, NEW next, Form(proc[p], next), Obliging(next)
    PROVE  /\ next.todo = Tail(proc[p].todo)
           /\ \/ Obliges(proc[p], next) /\ next.source = proc[p].source
              \/ Writes(proc[p], next) /\ next.source = Len(log')
<1> DEFINE me == proc[p]
<1>1. /\ log \in Seq(Event) /\ me \in Local(Len(log)) /\ Len(log) \in Nat /\ Progress(me)
    BY DEF ProgressInv, RecoveryInv, TypeInv, TypeOK
<1>2. next # Idle /\ next.at = "append"
    BY IdleIs DEF Obliging
<1>3. ~Starts(me, next)
    <2> SUFFICES ASSUME NEW batches, NEW then, Planned(batches, then),
                        next = Running(IF batches = <<>> THEN then ELSE "append", batches, then)
                 PROVE  FALSE
        BY DEF Starts
    <2>1. next.todo = batches /\ next.at = IF batches = <<>> THEN then ELSE "append"
        BY DEF Running
    <2>2. batches # <<>> => Kind(batches[1]) # "followup_created"
        BY DEF Planned
    <2>3. QED BY <1>2, <2>1, <2>2, Kinds DEF Planned, Obliging, Duty, Kind
<1>4. ~Examines(me, next)
    <2>1. Duty # <<RecoveryOpened>>
        BY Kinds DEF Duty
    <2>2. QED BY <1>2, <2>1 DEF Examines, Obliging
<1>5. Obliges(me, next) \/ Writes(me, next)
    BY <1>2, <1>3, <1>4 DEF Form, Derives, Compares, Records, Gates, Emits, Dies
<1>6. ASSUME NEW src, next = Advanced(me, src)
      PROVE  next.source = src /\ next.todo = Tail(me.todo)
    BY <1>1, <1>2, <1>6, AdvancedIs
<1>7. QED BY <1>5, <1>6 DEF Obliges, Writes

\* One more obligation, or none, for an event on the ledger.
LEMMA ObligationsAppend ==
    ASSUME NEW evs \in Seq(Event), NEW src \in Nat, NEW i
    PROVE  LET all == Append(evs, FollowupCreated(src)) IN
           /\ IsFiniteSet(Obligations(evs, i)) /\ Cardinality(Obligations(evs, i)) \in Nat
           /\ Cardinality(Obligations(all, i)) =
                  IF src = i THEN Cardinality(Obligations(evs, i)) + 1
                             ELSE Cardinality(Obligations(evs, i))
<1> DEFINE e == FollowupCreated(src)
           all == Append(evs, e)
           n == Len(evs) + 1
<1>1. /\ e \in Event /\ e.type = "followup_created" /\ e.source = src
    BY EventsTyped, Kinds
<1> HIDE DEF e
<1>2. /\ Len(evs) \in Nat /\ DOMAIN evs = 1..Len(evs) /\ DOMAIN all = 1..n /\ all[n] = e
      /\ \A k \in 1..Len(evs) : all[k] = evs[k]
    BY <1>1
<1> HIDE DEF all
<1>3. Obligations(evs, i) \subseteq 1..Len(evs) /\ n \notin Obligations(evs, i)
    BY <1>2 DEF Obligations, Followups, Positions
<1>4. IsFiniteSet(Obligations(evs, i)) /\ Cardinality(Obligations(evs, i)) \in Nat
    <2>1. IsFiniteSet(1..Len(evs))
        BY <1>2, FS_Interval
    <2>2. IsFiniteSet(Obligations(evs, i))
        BY <1>3, <2>1, FS_Subset
    <2>3. QED BY <2>2, FS_CardinalityType
<1>5. Obligations(all, i) = IF src = i THEN Obligations(evs, i) \cup {n} ELSE Obligations(evs, i)
    <2>1. \A k \in 1..n : k \in 1..Len(evs) \/ k = n
        BY <1>2
    <2>2. QED BY <1>1, <1>2, <2>1 DEF Obligations, Followups, Positions
<1>6. Cardinality(Obligations(evs, i) \cup {n}) = Cardinality(Obligations(evs, i)) + 1
    BY <1>3, <1>4, FS_AddElement
<1>7. QED BY <1>4, <1>5, <1>6 DEF all, e

LEMMA ObligationsKept ==
    ASSUME NEW evs \in Seq(Event), NEW more \in Seq(Event), NEW i,
           \A k \in DOMAIN more : more[k].type # "followup_created"
    PROVE  Obligations(evs \o more, i) = Obligations(evs, i)
<1> DEFINE all == evs \o more
<1>1. /\ Len(evs) \in Nat /\ DOMAIN evs = 1..Len(evs) /\ DOMAIN all = 1..Len(all) /\ Len(all) \in Nat
      /\ \A k \in 1..Len(evs) : k \in DOMAIN all /\ all[k] = evs[k]
      /\ \A k \in DOMAIN all : k > Len(evs) => k - Len(evs) \in DOMAIN more /\ all[k] = more[k - Len(evs)]
    BY LogGrows
<1> HIDE DEF all
<1>2. \A k \in DOMAIN all : all[k].type = "followup_created" => k \in DOMAIN evs
    BY <1>1
<1>3. Obligations(all, i) = Obligations(evs, i)
    BY <1>1, <1>2 DEF Obligations, Followups, Positions
<1>4. QED BY <1>3 DEF all

LEMMA InitObligedInv == Init => ObligedInv
<1> SUFFICES ASSUME Init PROVE ObligedInv
    OBVIOUS
<1>1. RestsInv
    BY InitRestsInv
<1>2. log = <<>>
    BY DEF Init
<1>3. QED BY <1>1, <1>2 DEF ObligedInv, FollowupsNameThePast, Followups, Positions

LEMMA NextObligedInv ==
    ASSUME "crash" \notin Faults PROVE ObligedInv /\ [Next]_vars => ObligedInv'
<1> SUFFICES ASSUME ObligedInv, [Next]_vars PROVE ObligedInv'
    OBVIOUS
<1>1. RestsInv /\ RestsInv' /\ ProgressInv
    BY NextRestsInv DEF ObligedInv, RestsInv
<1>2. CASE Age \/ Tamper \/ UNCHANGED vars
    BY <1>1, <1>2
       DEF Age, Tamper, vars, ObligedInv, FollowupsNameThePast, Obliged, ObligedBy
<1>3. ASSUME NEW p \in Procs, Command(p) \/ Step(p) \/ Crash(p) PROVE ObligedInv'
    <2> DEFINE me == proc[p]
               F == FollowupsPerOverride
    <2>1. PICK next : proc' = [proc EXCEPT ![p] = next] /\ Form(proc[p], next)
        BY <1>1, <1>3, StepForms
    <2>2. proc'[p] = next /\ \A q \in Procs : q # p => proc'[q] = proc[q]
        BY <1>1, <2>1, OthersStay
    <2>3. PICK evs \in Seq(Event) : log' = log \o evs /\ Sourced(evs, me, next)
        BY <1>1, <2>1, FormAppends
    <2>4. /\ log \in Seq(Event) /\ Len(log) \in Nat /\ Progress(me) /\ me \in Local(Len(log))
          /\ \A q \in Procs : proc[q].source \in 0..Len(log)
          /\ log' \in Seq(Event) /\ F \in Nat \ {0}
        BY <1>1, ContinuityAssumption
           DEF RestsInv, ProgressInv, RecoveryInv, TypeInv, TypeOK, Local
    <2>5. /\ Len(log') \in Nat /\ Len(log) <= Len(log') /\ DOMAIN log' = 1..Len(log')
          /\ \A i \in 1..Len(log) : log'[i] = log[i]
          /\ \A i \in DOMAIN log' : i > Len(log) =>
                 i - Len(log) \in DOMAIN evs /\ log'[i] = evs[i - Len(log)]
        BY <2>3, <2>4, LogGrows
    <2>6. FollowupsNameThePast'
        <3> SUFFICES ASSUME NEW f \in DOMAIN log', log'[f].type = "followup_created"
                     PROVE  log'[f].source <= Len(log')
            BY DEF FollowupsNameThePast, Followups, Positions
        <3>1. CASE f <= Len(log)
            <4>1. f \in Followups(log) /\ log'[f] = log[f] /\ log[f].source \in Nat
                BY <2>4, <2>5, <3>1, EventFields DEF Followups, Positions
            <4>2. log[f].source <= Len(log)
                BY <4>1 DEF ObligedInv, FollowupsNameThePast
            <4>3. QED BY <2>4, <2>5, <4>1, <4>2
        <3>2. CASE ~(f <= Len(log))
            <4>1. f - Len(log) \in DOMAIN evs /\ log'[f] = evs[f - Len(log)]
                BY <2>4, <2>5, <3>2
            <4>2. evs = <<FollowupCreated(me.source)>>
                BY <2>3, <4>1 DEF Sourced
            <4>3. log'[f] = FollowupCreated(me.source)
                BY <4>1, <4>2
            <4>4. QED BY <2>4, <2>5, <4>3, Kinds
        <3>3. QED BY <3>1, <3>2
    <2>7. ASSUME NEW i \in DOMAIN log, log[i].type = "transform.override" PROVE Obliged(i)'
        <3>1. Obliged(i) /\ i \in 1..Len(log) /\ i # 0
            BY <2>4, <2>7 DEF ObligedInv, Positions
        <3>2. CASE Obliges(me, next) /\ me.source = i
            <4>1. Obliging(me)
                BY <3>2 DEF Obliges, Obliging
            <4>2. PICK q \in Procs : ObligedBy(proc[q], i)
                BY <3>1, <3>2, <4>1 DEF Obliged
            <4>3. q = p
                BY <1>1, <3>1, <3>2, <4>2 DEF ObligedBy, RestsInv, DistinctSources
            <4> DEFINE left == Tail(me.todo)
                       before == Cardinality(Obligations(log, i))
                       after == Cardinality(Obligations(log', i))
            <4>4. /\ me.todo \in Seq(Seq(Event)) /\ me.todo # <<>>
                  /\ before + Len(me.todo) = F /\ \A b \in DOMAIN me.todo : me.todo[b] = Duty
                BY <2>4, <3>2, <4>2, <4>3 DEF ObligedBy, Obliges, Progress
            <4>5. /\ left \in Seq(Seq(Event)) /\ Len(left) = Len(me.todo) - 1 /\ Len(me.todo) \in Nat
                  /\ \A b \in DOMAIN left : left[b] = Duty
                BY <4>4, TailKeeps
            <4>6. before \in Nat /\ after = before + 1
                BY <2>4, <3>1, <3>2, ObligationsAppend DEF Obliges
            <4>7. next = Advanced(me, i)
                BY <3>2 DEF Obliges
            <4>8. \A r \in Procs : r # p => proc'[r].source # i
                BY <1>1, <2>2, <3>1, <3>2 DEF RestsInv, DistinctSources
            <4> HIDE DEF left, before, after
            <4>12. after + Len(left) = F
                <5>1. \A a, b \in Nat : (a + 1) + (b - 1) = a + b
                    OBVIOUS
                <5>2. QED BY <4>4, <4>5, <4>6, <5>1
            <4>9. CASE left = <<>>
                <5>1. after = F
                    <6>1. Len(left) = 0 /\ after \in Nat
                        BY <4>6, <4>9
                    <6>2. QED BY <4>12, <6>1
                <5>2. next = Idle \/ next.at = me.then
                    BY <2>4, <4>7, <4>9, AdvancedIs DEF left
                <5>3. ~Obliging(next)
                    BY <2>4, <5>2, IdleIs DEF Progress, Obliging
                <5>4. QED BY <2>2, <4>8, <5>1, <5>3 DEF Obliged, after
            <4>10. CASE left # <<>>
                <5>1. next.todo = left /\ next.source = i /\ next.at = "append"
                    BY <2>4, <4>7, <4>10, AdvancedIs DEF left
                <5>2. left[1] = Duty
                    BY <4>5, <4>10
                <5>3. after + Len(left) = F
                    BY <4>12
                <5>4. QED BY <2>2, <4>5, <5>1, <5>2, <5>3 DEF Obliged, ObligedBy, Obliging, after
            <4>11. QED BY <4>9, <4>10
        <3>3. CASE ~(Obliges(me, next) /\ me.source = i)
            <4>1. Cardinality(Obligations(log', i)) = Cardinality(Obligations(log, i))
                <5>1. CASE Obliges(me, next)
                    BY <2>4, <3>3, <5>1, ObligationsAppend DEF Obliges
                <5>2. CASE ~Obliges(me, next)
                    <6>1. \A k \in DOMAIN evs : evs[k].type # "followup_created"
                        BY <2>3, <5>2 DEF Sourced
                    <6>2. QED BY <2>3, <2>4, <6>1, ObligationsKept
                <5>3. QED BY <5>1, <5>2
            <4>2. ~(Obliging(next) /\ next.source = i)
                <5>1. Writes(me, next) => Len(log') > Len(log)
                    BY <2>4 DEF Writes
                <5>2. QED BY <1>1, <2>1, <2>4, <3>1, <3>3, <5>1, FormObliging
            <4>3. ~(Obliging(me) /\ me.source = i)
                <5>1. ASSUME Obliging(me) PROVE Obliges(me, next)
                    BY <2>1, <5>1, IdleIs
                       DEF Form, Starts, Writes, Examines, Derives, Compares, Records, Gates,
                           Emits, Dies, Obliging
                <5>2. QED BY <3>3, <5>1
            <4>4. CASE /\ Cardinality(Obligations(log, i)) = F
                       /\ \A q \in Procs : Obliging(proc[q]) => proc[q].source # i
                BY <2>2, <4>1, <4>2, <4>4 DEF Obliged
            <4>5. ASSUME NEW q \in Procs, ObligedBy(proc[q], i) PROVE Obliged(i)'
                <5>1. q # p
                    BY <4>3, <4>5 DEF ObligedBy
                <5>2. QED BY <2>2, <4>1, <4>5, <5>1 DEF Obliged, ObligedBy
            <4>6. QED BY <3>1, <4>4, <4>5 DEF Obliged
        <3>4. QED BY <3>2, <3>3
    <2>8. ASSUME NEW i \in DOMAIN log', log'[i].type = "transform.override", i > Len(log)
          PROVE  Obliged(i)'
        <3>1. i - Len(log) \in DOMAIN evs /\ log'[i] = evs[i - Len(log)]
            BY <2>5, <2>8
        <3>2. Writes(me, next) /\ evs = <<log'[i]>> /\ me.todo[1] = <<log'[i]>>
            BY <2>3, <2>8, <3>1 DEF Sourced, PrivilegedType
        <3>3. i = Len(log) + 1 /\ i = Len(log')
            BY <2>3, <2>4, <2>5, <2>8, <3>1, <3>2
        <3>4. me.todo # <<>> /\ me.todo \in Seq(Seq(Event)) /\ Orderly(me.todo) /\ 1 \in DOMAIN me.todo
            BY <2>4, <3>2 DEF Writes, Progress
        <3>5. Len(me.todo) = 1 + F /\ \A c \in DOMAIN me.todo : 1 < c => me.todo[c] = Duty
            BY <2>8, <3>2, <3>4 DEF Orderly, Kind
        <3> DEFINE left == Tail(me.todo)
        <3>6. /\ Len(left) = F /\ left \in Seq(Seq(Event))
              /\ \A b \in DOMAIN left : left[b] = Duty
            <4>1. /\ Len(left) = Len(me.todo) - 1 /\ left \in Seq(Seq(Event))
                  /\ \A b \in DOMAIN left : b + 1 \in DOMAIN me.todo /\ left[b] = me.todo[b + 1]
                BY <3>4, TailKeeps
            <4>2. \A b \in DOMAIN left : 1 < b + 1
                BY <4>1
            <4>3. QED BY <2>4, <3>5, <4>1, <4>2
        <3>7. left # <<>> /\ left[1] = Duty
            <4> HIDE DEF left
            <4>1. 1 \in DOMAIN left
                <5>1. DOMAIN left = 1..Len(left)
                    BY <3>6
                <5>2. Len(left) >= 1 /\ Len(left) \in Nat
                    BY <2>4, <3>6
                <5>3. QED BY <5>1, <5>2
            <4>2. QED BY <3>6, <4>1
        <3>8. next = Advanced(me, i)
            BY <3>2, <3>3 DEF Writes
        <3>9. next.todo = left /\ next.source = i /\ next.at = "append"
            BY <2>4, <3>7, <3>8, AdvancedIs
        <3>10. Obligations(log', i) = {}
            <4>1. ASSUME NEW f \in DOMAIN log', log'[f].type = "followup_created", log'[f].source = i
                  PROVE  FALSE
                <5>1. f <= Len(log)
                    BY <2>5, <2>8, <3>3, <4>1
                <5>2. f \in Followups(log) /\ log'[f] = log[f] /\ log[f].source \in Nat
                    BY <2>4, <2>5, <4>1, <5>1, EventFields DEF Followups, Positions
                <5>3. log[f].source <= Len(log)
                    BY <5>2 DEF ObligedInv, FollowupsNameThePast
                <5>4. QED BY <2>4, <3>3, <4>1, <5>2, <5>3
            <4>2. QED BY <4>1 DEF Obligations, Followups, Positions
        <3> HIDE DEF left
        <3>11. Cardinality(Obligations(log', i)) + Len(left) = F
            BY <2>4, <3>6, <3>10, FS_EmptySet
        <3>12. QED BY <2>2, <3>6, <3>7, <3>9, <3>11 DEF Obliged, ObligedBy, Obliging
    <2>9. ASSUME NEW i \in Positions(log', "transform.override") PROVE Obliged(i)'
        <3>1. i \in DOMAIN log' /\ log'[i].type = "transform.override"
            BY DEF Positions
        <3>2. CASE i > Len(log)
            BY <2>8, <3>1, <3>2
        <3>3. CASE ~(i > Len(log))
            <4>1. i \in DOMAIN log /\ log'[i] = log[i]
                BY <2>4, <2>5, <3>1, <3>3
            <4>2. QED BY <2>7, <3>1, <4>1
        <3>4. QED BY <3>2, <3>3
    <2>10. QED BY <1>1, <2>6, <2>9 DEF ObligedInv
<1>4. QED BY <1>2, <1>3 DEF Next

(* Where no handler is killed, every override on a ledger at rest has its  *)
(* obligations there, all of them and no more, for any number of processes *)
(* (pca_cli.py:267-286).                                                   *)
THEOREM OverridesOblige ==
    ASSUME "crash" \notin Faults PROVE Spec => []OverrideObliges
<1>1. ObligedInv => OverrideObliges
    <2> SUFFICES ASSUME ObligedInv, Quiescent, NEW i \in Positions(log, "transform.override")
                 PROVE  Cardinality(Obligations(log, i)) = FollowupsPerOverride
        BY DEF OverrideObliges, Obligations
    <2>1. \A p \in Procs : ~Obliging(proc[p])
        BY IdleIs DEF Quiescent
    <2>2. QED BY <2>1 DEF ObligedInv, Obliged, ObligedBy
<1>2. ObligedInv /\ [Next]_vars => ObligedInv'
    BY NextObligedInv
<1>3. QED BY <1>1, <1>2, InitObligedInv, PTL DEF Spec

-----------------------------------------------------------------------------
(* What the claim depends on, as the ledger grows.                         *)

LEMMA PositionsKept ==
    ASSUME NEW evs \in Seq(Event), NEW more \in Seq(Event), NEW type,
           \A k \in DOMAIN more : more[k].type # type
    PROVE  Positions(evs \o more, type) = Positions(evs, type)
<1> DEFINE all == evs \o more
<1>1. /\ Len(evs) \in Nat /\ DOMAIN evs = 1..Len(evs) /\ DOMAIN all = 1..Len(all) /\ Len(all) \in Nat
      /\ \A k \in 1..Len(evs) : k \in DOMAIN all /\ all[k] = evs[k]
      /\ \A k \in DOMAIN all : k > Len(evs) => k - Len(evs) \in DOMAIN more /\ all[k] = more[k - Len(evs)]
    BY LogGrows
<1> HIDE DEF all
<1>2. \A k \in DOMAIN all : all[k].type = type => k \in DOMAIN evs
    BY <1>1
<1>3. Positions(all, type) = Positions(evs, type)
    BY <1>1, <1>2 DEF Positions
<1>4. QED BY <1>3 DEF all

LEMMA PositionsRead ==
    ASSUME NEW evs \in Seq(Event), NEW more \in Seq(Event), NEW type,
           NEW i \in Positions(evs, type)
    PROVE  (evs \o more)[i] = evs[i] /\ i \in 1..Len(evs)
BY DEF Positions

LEMMA LatestStatusKept ==
    ASSUME NEW evs \in Seq(Event), NEW more \in Seq(Event), NEW updates, NEW id, NEW initial,
           \A k \in DOMAIN more : more[k].type # updates
    PROVE  LatestStatus(evs \o more, updates, id, initial) = LatestStatus(evs, updates, id, initial)
<1> DEFINE all == evs \o more
           mine == {i \in Positions(evs, updates) : evs[i].id = id}
<1>1. Positions(all, updates) = Positions(evs, updates)
    BY PositionsKept
<1>2. \A i \in Positions(evs, updates) : all[i] = evs[i]
    BY PositionsRead
<1> HIDE DEF all
<1>3. {i \in Positions(all, updates) : all[i].id = id} = mine
    BY <1>1, <1>2
<1>4. mine # {} => Max(mine) \in mine
    <2>1. mine \in SUBSET (0..Len(evs)) /\ Len(evs) \in Nat
        BY DEF Positions
    <2> HIDE DEF mine
    <2>2. QED BY <2>1, MaxIsGreatest
<1>5. mine # {} => all[Max(mine)].status = evs[Max(mine)].status
    BY <1>2, <1>4
<1>6. /\ LatestStatus(all, updates, id, initial) =
             IF mine = {} THEN initial ELSE all[Max(mine)].status
      /\ LatestStatus(evs, updates, id, initial) =
             IF mine = {} THEN initial ELSE evs[Max(mine)].status
    BY <1>3 DEF LatestStatus
<1> HIDE DEF mine
<1>7. LatestStatus(all, updates, id, initial) = LatestStatus(evs, updates, id, initial)
    BY <1>5, <1>6
<1>8. QED BY <1>7 DEF all

\* Events that leave the follow-ups and the recoveries as they are.
Unsettling(type) ==
    type \in {"followup_created", "followup_updated", "recovery_opened", "recovery_updated"}

LEMMA FollowupsKept ==
    ASSUME NEW evs \in Seq(Event), NEW more \in Seq(Event),
           \A k \in DOMAIN more : ~Unsettling(more[k].type)
    PROVE  /\ OpenFollowups(evs \o more) = OpenFollowups(evs)
           /\ FailedFollowups(evs \o more) = FailedFollowups(evs)
           /\ CurrentRecoveryStatus(evs \o more) = CurrentRecoveryStatus(evs)
<1>1. \A k \in DOMAIN more : /\ more[k].type # "followup_created" /\ more[k].type # "followup_updated"
                             /\ more[k].type # "recovery_opened" /\ more[k].type # "recovery_updated"
    BY DEF Unsettling
<1>2. Followups(evs \o more) = Followups(evs) /\ Recoveries(evs \o more) = Recoveries(evs)
    BY <1>1, PositionsKept DEF Followups, Recoveries
<1>3. \A f : FollowupStatus(evs \o more, f) = FollowupStatus(evs, f)
    BY <1>1, LatestStatusKept DEF FollowupStatus
<1>4. \A r : RecoveryStatus(evs \o more, r) = RecoveryStatus(evs, r)
    BY <1>1, LatestStatusKept DEF RecoveryStatus
<1>5. QED BY <1>2, <1>3, <1>4 DEF OpenFollowups, FailedFollowups, CurrentRecoveryStatus

\* A hard breach breaks the identity unless the chain is invalid.
LEMMA BrokenIs ==
    ASSUME NEW evs \in Seq(Event), NEW verified \in BOOLEAN, NEW stale
    PROVE  IdentityState(evs, verified, stale) = "broken" <=>
               verified /\ evs # <<>> /\ HardBreaches(evs) # {}
<1> DEFINE cs == Candidates(evs, verified, stale)
           ranks == {k \in DOMAIN EVALUATION_PRECEDENCE : EVALUATION_PRECEDENCE[k] \in cs}
<1>1. /\ cs \subseteq {"chain_invalid", "no_events", "hard_breach", "declared_fork",
                       "stale_required_evidence", "missing_required_evidence",
                       "soft_breach", "continuous"}
      /\ "no_events" \in cs \/ "continuous" \in cs
      /\ "chain_invalid" \in cs <=> ~verified
      /\ "no_events" \in cs <=> evs = <<>>
      /\ "hard_breach" \in cs <=> evs # <<>> /\ HardBreaches(evs) # {}
    BY DEF Candidates
<1> HIDE DEF cs
<1>2. ranks \in SUBSET (1..8) /\ ranks # {}
    <2>1. ranks \in SUBSET (1..8)
        BY DEF EVALUATION_PRECEDENCE
    <2>2. "no_events" \in cs => 2 \in ranks
        BY DEF EVALUATION_PRECEDENCE
    <2>3. "continuous" \in cs => 8 \in ranks
        BY DEF EVALUATION_PRECEDENCE
    <2>4. QED BY <1>1, <2>1, <2>2, <2>3
<1> DEFINE first == Min(ranks)
<1>3. first \in ranks /\ \A k \in ranks : first <= k
    <2> HIDE DEF ranks
    <2>1. QED BY <1>2, MinIsLeast
<1>4. /\ first \in 1..8 /\ EVALUATION_PRECEDENCE[first] \in cs
      /\ \A k \in 1..8 : EVALUATION_PRECEDENCE[k] \in cs => first <= k
    BY <1>3 DEF EVALUATION_PRECEDENCE
<1>5. IdentityState(evs, verified, stale) = StateOfRule[EVALUATION_PRECEDENCE[first]]
    BY DEF IdentityState, DecidingRule, cs
<1> HIDE DEF first, ranks
<1>6. /\ EVALUATION_PRECEDENCE[1] = "chain_invalid" /\ EVALUATION_PRECEDENCE[2] = "no_events"
      /\ EVALUATION_PRECEDENCE[3] = "hard_breach"
    BY DEF EVALUATION_PRECEDENCE
<1>7. IdentityState(evs, verified, stale) = "broken" <=> first = 3
    BY <1>4, <1>5 DEF StateOfRule, EVALUATION_PRECEDENCE
<1>8. first = 3 <=> verified /\ evs # <<>> /\ HardBreaches(evs) # {}
    <2>1. first = 3 => verified /\ evs # <<>> /\ HardBreaches(evs) # {}
        <3>1. first = 3 => 1 \in 1..8 /\ 2 \in 1..8 /\ ~(3 <= 1) /\ ~(3 <= 2)
            OBVIOUS
        <3>2. first = 3 => "chain_invalid" \notin cs /\ "no_events" \notin cs /\ "hard_breach" \in cs
            BY <1>4, <1>6, <3>1
        <3>3. QED BY <1>1, <3>2
    <2>2. verified /\ evs # <<>> /\ HardBreaches(evs) # {} => first = 3
        <3> SUFFICES ASSUME verified, evs # <<>>, HardBreaches(evs) # {} PROVE first = 3
            OBVIOUS
        <3>1. "hard_breach" \in cs /\ "chain_invalid" \notin cs /\ "no_events" \notin cs
            BY <1>1
        <3>2. first <= 3 /\ first # 1 /\ first # 2
            BY <1>4, <1>6, <3>1
        <3>3. QED BY <1>4, <3>2
    <2>3. QED BY <2>1, <2>2
<1>9. QED BY <1>7, <1>8

(* When the claim is a break.                                              *)
LEMMA BreakIs ==
    ASSUME NEW evs \in Seq(Event), NEW verified \in BOOLEAN, NEW stale
    PROVE  derive_current_claim(evs, verified, stale) = "continuity_break" <=>
               \/ CurrentRecoveryStatus(evs) = "recovery_rejected"
               \/ /\ CurrentRecoveryStatus(evs) = "none"
                  /\ \/ FailedFollowups(evs) # {}
                     \/ OpenFollowups(evs) = {} /\ verified /\ evs # <<>> /\ HardBreaches(evs) # {}
<1> DEFINE state == IdentityState(evs, verified, stale)
           default == default_claim_for_identity_state[state]
           claim == continuity_claim_from_followups(evs, default)
<1>1. state \in {"continuous", "degraded", "forked", "suspended", "broken"}
    BY RuleDecides
<1>2. state = "broken" <=> verified /\ evs # <<>> /\ HardBreaches(evs) # {}
    BY BrokenIs
<1> HIDE DEF state
<1>3. default = "continuity_break" <=> state = "broken"
    BY <1>1 DEF default_claim_for_identity_state
<1> HIDE DEF default
<1>4. claim = "continuity_break" <=>
          FailedFollowups(evs) # {} \/ (OpenFollowups(evs) = {} /\ default = "continuity_break")
    BY DEF continuity_claim_from_followups
<1>5. derive_current_claim(evs, verified, stale) = AfterRecovery(evs, claim)
    BY DEF derive_current_claim, claim, default, state
<1> HIDE DEF claim
<1>6. AfterRecovery(evs, claim) = "continuity_break" <=>
          \/ CurrentRecoveryStatus(evs) = "recovery_rejected"
          \/ claim = "continuity_break" /\ CurrentRecoveryStatus(evs) = "none"
    BY DEF AfterRecovery
<1>7. QED BY <1>2, <1>3, <1>4, <1>5, <1>6

-----------------------------------------------------------------------------
(* A break is left deliberately.                                           *)

LEMMA BreakKept ==
    ASSUME NEW evs \in Seq(Event), NEW more \in Seq(Event), NEW verified \in BOOLEAN, NEW stale, NEW later,
           \A k \in DOMAIN more : ~Unsettling(more[k].type),
           derive_current_claim(evs, verified, stale) = "continuity_break"
    PROVE  derive_current_claim(evs \o more, TRUE, later) = "continuity_break"
<1> DEFINE all == evs \o more
<1>1. /\ OpenFollowups(all) = OpenFollowups(evs)
      /\ FailedFollowups(all) = FailedFollowups(evs)
      /\ CurrentRecoveryStatus(all) = CurrentRecoveryStatus(evs)
    BY FollowupsKept
<1>2. all \in Seq(Event) /\ (evs # <<>> => all # <<>>)
    OBVIOUS
<1>3. HardBreaches(evs) \subseteq HardBreaches(all)
    BY DEF HardBreaches, Positions
<1> HIDE DEF all
<1>4. derive_current_claim(all, TRUE, later) = "continuity_break"
    BY <1>1, <1>2, <1>3, BreakIs
<1>5. QED BY <1>4 DEF all

LEMMA StepLeavesBreak ==
    ASSUME ProgressInv, ProgressInv', [Next]_vars, Derived = "continuity_break",
           Derived' # "continuity_break", ok'
    PROVE  \E i \in Len(log) + 1..Len(log') : Unsettling(log'[i].type)
<1>1. log \in Seq(Event) /\ ok \in BOOLEAN
    BY DEF ProgressInv, RecoveryInv, TypeInv, TypeOK
<1>2. ASSUME NEW evs \in Seq(Event), log' = log \o evs
      PROVE  \E i \in Len(log) + 1..Len(log') : Unsettling(log'[i].type)
    <2>1. PICK k \in DOMAIN evs : Unsettling(evs[k].type)
        <3> SUFFICES ASSUME \A k \in DOMAIN evs : ~Unsettling(evs[k].type) PROVE FALSE
            OBVIOUS
        <3>1. derive_current_claim(log', TRUE, aged') = "continuity_break"
            BY <1>1, <1>2, BreakKept DEF Derived
        <3>2. ok' = TRUE
            BY DEF ProgressInv, RecoveryInv, TypeInv, TypeOK
        <3>3. QED BY <3>1, <3>2 DEF Derived
    <2>2. /\ Len(log) + k \in Len(log) + 1..Len(log') /\ log'[Len(log) + k] = evs[k]
        BY <1>1, <1>2
    <2>3. QED BY <2>1, <2>2
<1>3. CASE Age \/ Tamper \/ UNCHANGED vars
    <2> DEFINE none == <<>>
    <2>0. log' = log
        BY <1>3 DEF Age, Tamper, vars
    <2>1. none \in Seq(Event) /\ log' = log \o none
        BY <1>1, <2>0
    <2> HIDE DEF none
    <2>2. QED BY <1>2, <2>1
<1>4. ASSUME NEW p \in Procs, Command(p) \/ Step(p) \/ Crash(p)
      PROVE  \E evs \in Seq(Event) : log' = log \o evs
    BY <1>4, StepForms, FormAppends
<1>5. QED BY <1>2, <1>3, <1>4 DEF Next

(* Once the derived claim is continuity_break, no evidence, fork, signal,  *)
(* claim record, crash or passage of time takes it out of it: only an      *)
(* event about a follow-up or a recovery does, or an edit of the file, for *)
(* any number of processes (evaluator.py:47-55, state.py:22-49).           *)
THEOREM BreaksAreLeftDeliberately == Spec => BreakLeftDeliberately
<1> DEFINE Leaves ==
        (Derived = "continuity_break" /\ Derived' # "continuity_break" /\ ok') =>
          \E i \in Len(log) + 1..Len(log') :
              log'[i].type \in {"followup_created", "followup_updated",
                               "recovery_opened", "recovery_updated"}
<1>1. ProgressInv /\ ProgressInv' /\ [Next]_vars => [Leaves]_vars
    BY StepLeavesBreak DEF Unsettling
<1>2. BreakLeftDeliberately <=> [][Leaves]_vars
    BY DEF BreakLeftDeliberately
<1> HIDE DEF Leaves
<1>3. QED BY <1>1, <1>2, InitProgressInv, NextProgressInv, PTL DEF Spec

-----------------------------------------------------------------------------
(* One process: between two steps of a handler the ledger stands still, so *)
(* what the handler read is still true when it appends.                    *)

Emission(me) ==
    me.at = "emit" /\ me.derived = "certified_continuity" => Clear(log)

Comparison(me) ==
    me.at = "record" =>
        /\ me.prior = CurrentClaimRecord(log)
        /\ me.prior # 0 => log[me.prior].claim # me.derived

SoleInv ==
    /\ ProgressInv /\ SpeechIsClear /\ ClaimsFormChain
    /\ \A p \in Procs : Emission(proc[p]) /\ Comparison(proc[p])

LEMMA InitSoleInv == Init => SoleInv
<1> SUFFICES ASSUME Init PROVE SoleInv
    OBVIOUS
<1>1. ProgressInv
    BY InitProgressInv
<1>2. log = <<>> /\ \A p \in Procs : proc[p] = Idle
    BY DEF Init
<1>3. SpeechIsClear /\ ClaimsFormChain
    BY <1>2 DEF SpeechIsClear, ClaimsFormChain, Positions
<1>4. QED BY <1>1, <1>2, <1>3, IdleIs DEF SoleInv, Emission, Comparison

\* A handler derives what it emits, and compares what it records.
LEMMA FormConcludes ==
    ASSUME ProgressInv, NEW p \in Procs, NEW next, Form(proc[p], next)
    PROVE  /\ next.at = "emit" => Gates(proc[p], next)
           /\ next.at = "record" => Compares(proc[p], next) /\ next # Idle
           /\ next.at = "compare" => Derives(proc[p], next)
<1> DEFINE me == proc[p]
<1>1. /\ me \in Local(Len(log)) /\ Len(log) \in Nat /\ Progress(me)
    BY DEF ProgressInv, RecoveryInv, TypeInv, TypeOK
<1>2. ASSUME next.at \in {"emit", "record", "compare"}
      PROVE  Gates(me, next) \/ Compares(me, next) \/ Derives(me, next)
    <2>1. ~Starts(me, next)
        BY <1>2 DEF Starts, Running, Planned
    <2>2. \A src : Advanced(me, src).at \in {"idle", "append", me.then}
        BY <1>1, AdvancedIs, IdleIs
    <2>3. \A src : next # Advanced(me, src)
        BY <1>1, <1>2, <2>2 DEF Progress
    <2>4. QED
        BY <1>2, <2>1, <2>3, IdleIs
           DEF Form, Obliges, Writes, Examines, Records, Emits, Dies
<1>3. QED BY <1>2, IdleIs DEF Gates, Compares, Derives

LEMMA NextSoleInv ==
    ASSUME NEW sole, Procs = {sole} PROVE SoleInv /\ [Next]_vars => SoleInv'
<1> SUFFICES ASSUME SoleInv, [Next]_vars PROVE SoleInv'
    OBVIOUS
<1>1. ProgressInv /\ ProgressInv'
    BY NextProgressInv DEF SoleInv
<1>2. CASE Age \/ Tamper \/ UNCHANGED vars
    BY <1>1, <1>2
       DEF Age, Tamper, vars, SoleInv, SpeechIsClear, ClaimsFormChain, Prefix, Emission, Comparison
<1>3. ASSUME NEW p \in Procs, Command(p) \/ Step(p) \/ Crash(p) PROVE SoleInv'
    <2> DEFINE me == proc[p]
    <2>1. PICK next : proc' = [proc EXCEPT ![p] = next] /\ Form(proc[p], next)
        BY <1>1, <1>3, StepForms
    <2>2. proc'[p] = next /\ Procs = {p}
        BY <1>1, <2>1, OthersStay
    <2>3. PICK evs \in Seq(Event) : log' = log \o evs /\ Sourced(evs, me, next)
        BY <1>1, <2>1, FormAppends
    <2>4. /\ log \in Seq(Event) /\ Len(log) \in Nat /\ log' \in Seq(Event)
          /\ ok \in BOOLEAN /\ aged \in Nat /\ RecoveriesOpened(log)
        BY <1>1 DEF ProgressInv, RecoveryInv, TypeInv, TypeOK
    <2>5. /\ Len(log') \in Nat /\ Len(log) <= Len(log') /\ DOMAIN log' = 1..Len(log')
          /\ \A i \in 1..Len(log) : log'[i] = log[i]
          /\ \A i \in DOMAIN log' : i > Len(log) =>
                 i - Len(log) \in DOMAIN evs /\ log'[i] = evs[i - Len(log)]
          /\ \A n \in 0..Len(log) : SubSeq(log', 1, n) = SubSeq(log, 1, n)
        BY <2>3, <2>4, LogGrows
    <2>6. Emission(me) /\ Comparison(me)
        BY DEF SoleInv
    <2>7. \A i \in DOMAIN log' : i <= Len(log) =>
              /\ i \in DOMAIN log /\ log'[i] = log[i] /\ i - 1 \in 0..Len(log)
              /\ SubSeq(log', 1, i - 1) = SubSeq(log, 1, i - 1)
        BY <2>4, <2>5
    <2>8. SubSeq(log', 1, Len(log)) = log
        BY <2>4, <2>5
    <2>9. (next.at = "emit" => Gates(me, next)) /\ (next.at = "record" => Compares(me, next) /\ next # Idle)
        BY <1>1, <2>1, FormConcludes
    <2>10. \A q \in Procs : Emission(proc[q])' /\ Comparison(proc[q])'
        <3>1. ASSUME next.at = "emit", next.derived = "certified_continuity" PROVE Clear(log')
            <4>1. Gates(me, next)
                BY <2>9, <3>1
            <4>2. derive_current_claim(log, ok, aged) = "certified_continuity" /\ log' = log
                BY <3>1, <4>1 DEF Gates
            <4>3. QED BY <2>4, <4>2, CertifiedOnlyIfClear
        <3>2. ASSUME next.at = "record"
              PROVE  /\ next.prior = CurrentClaimRecord(log')
                     /\ next.prior # 0 => log'[next.prior].claim # next.derived
            BY <2>9, <3>2 DEF Compares
        <3>3. QED BY <2>2, <3>1, <3>2 DEF Emission, Comparison
    <2>11. SpeechIsClear'
        <3> SUFFICES ASSUME NEW i \in DOMAIN log', log'[i].type = "runtime.output_gate",
                            log'[i].text = "original", log'[i].identity
                     PROVE  Clear(SubSeq(log', 1, i - 1))
            BY DEF SpeechIsClear, Prefix, Positions
        <3>1. CASE i <= Len(log)
            BY <2>7, <3>1 DEF SoleInv, SpeechIsClear, Prefix, Positions
        <3>2. CASE ~(i <= Len(log))
            <4>1. i - Len(log) \in DOMAIN evs /\ log'[i] = evs[i - Len(log)]
                BY <2>4, <2>5, <3>2
            <4>2. Emits(me, next) /\ evs = <<EmittedBy(me)>>
                BY <2>3, <4>1 DEF Sourced
            <4>3. i - 1 = Len(log) /\ log'[i] = EmittedBy(me)
                BY <2>4, <2>5, <4>1, <4>2
            <4> DEFINE identity == me.then = "gate_claiming"
            <4>4. process_output(me.derived, identity) = "original" /\ identity /\ me.at = "emit"
                <5>1. /\ EmittedBy(me).identity = identity
                      /\ EmittedBy(me).text = process_output(me.derived, identity)
                    BY DEF EmittedBy, OutputGated
                <5>2. log'[i].text = "original" /\ log'[i].identity /\ me.at = "emit"
                    BY <4>2 DEF Emits
                <5>3. QED BY <4>3, <5>1, <5>2
            <4>5. me.derived \in Claim
                BY <1>1, <4>4 DEF ProgressInv, RecoveryInv, TypeInv, Appending, Coherent
            <4>6. me.derived = "certified_continuity"
                BY <4>4, <4>5 DEF process_output, OutputMode, Claim
            <4>7. Clear(log)
                BY <2>6, <4>4, <4>6 DEF Emission
            <4>8. QED BY <2>8, <4>3, <4>7
        <3>3. QED BY <3>1, <3>2
    <2>12. ClaimsFormChain'
        <3> SUFFICES ASSUME NEW i \in DOMAIN log', log'[i].type = "continuity_claim_record"
                     PROVE  /\ log'[i].supersedes = CurrentClaimRecord(SubSeq(log', 1, i - 1))
                            /\ log'[i].supersedes # 0 =>
                                   log'[log'[i].supersedes].claim # log'[i].claim
            BY DEF ClaimsFormChain, Prefix, Positions
        <3>1. CASE i <= Len(log)
            <4>1. /\ i \in DOMAIN log /\ log'[i] = log[i] /\ i - 1 \in 0..Len(log) /\ i \in Nat
                  /\ SubSeq(log', 1, i - 1) = SubSeq(log, 1, i - 1)
                BY <2>4, <2>7, <3>1
            <4>2. /\ log[i].supersedes = CurrentClaimRecord(SubSeq(log, 1, i - 1))
                  /\ log[i].supersedes # 0 => log[log[i].supersedes].claim # log[i].claim
                BY <4>1 DEF SoleInv, ClaimsFormChain, Prefix, Positions
            <4>3. SubSeq(log, 1, i - 1) \in Seq(Event) /\ Len(SubSeq(log, 1, i - 1)) = i - 1
                BY <2>4, <4>1
            <4>4. log[i].supersedes \in 0..(i - 1)
                BY <4>2, <4>3, CurrentClaimRecordTyped
            <4>5. log[i].supersedes # 0 => log'[log[i].supersedes] = log[log[i].supersedes]
                BY <2>4, <2>5, <4>1, <4>4
            <4>6. QED BY <4>1, <4>2, <4>5
        <3>2. CASE ~(i <= Len(log))
            <4> DEFINE record == ClaimRecord(me.derived, me.prior, me.source)
            <4>1. i - Len(log) \in DOMAIN evs /\ log'[i] = evs[i - Len(log)]
                BY <2>4, <2>5, <3>2
            <4>2. Records(me, next) /\ evs = <<record>>
                BY <2>3, <4>1 DEF Sourced
            <4>3. i - 1 = Len(log) /\ log'[i] = record
                BY <2>4, <2>5, <4>1, <4>2
            <4>4. record.supersedes = me.prior /\ record.claim = me.derived
                BY DEF ClaimRecord
            <4>5. /\ me.prior = CurrentClaimRecord(log)
                  /\ me.prior # 0 => log[me.prior].claim # me.derived
                BY <2>6, <4>2 DEF Records, Comparison
            <4>6. me.prior # 0 => log'[me.prior] = log[me.prior]
                <5>1. me.prior \in 0..Len(log)
                    BY <2>4, <4>5, CurrentClaimRecordTyped
                <5>2. QED BY <2>4, <2>5, <5>1
            <4>7. QED BY <2>8, <4>3, <4>4, <4>5, <4>6
        <3>3. QED BY <3>1, <3>2
    <2>13. QED BY <1>1, <2>10, <2>11, <2>12 DEF SoleInv
<1>4. QED BY <1>2, <1>3 DEF Next

(* A process that has the ledger to itself lets a text that claims the     *)
(* identity out undisclosed only if the ledger was clear when it did,      *)
(* whatever the clock, an edit of the file or a crash does                 *)
(* (runtime_adapter.py:124-140).                                           *)
THEOREM SoleSpeechIsClear ==
    ASSUME NEW sole, Procs = {sole} PROVE Spec => []SpeechIsClear
<1>1. SoleInv => SpeechIsClear
    BY DEF SoleInv
<1>2. SoleInv /\ [Next]_vars => SoleInv'
    BY NextSoleInv
<1>3. QED BY <1>1, <1>2, InitSoleInv, PTL DEF Spec

(* A process that has the ledger to itself writes claim records that form  *)
(* one chain of genuine changes, crashes included (claims.py:66-75).       *)
THEOREM SoleClaimsFormChain ==
    ASSUME NEW sole, Procs = {sole} PROVE Spec => []ClaimsFormChain
<1>1. SoleInv => ClaimsFormChain
    BY DEF SoleInv
<1>2. SoleInv /\ [Next]_vars => SoleInv'
    BY NextSoleInv
<1>3. QED BY <1>1, <1>2, InitSoleInv, PTL DEF Spec

-----------------------------------------------------------------------------
(* One process and nothing going wrong: the record keeps up with the       *)
(* ledger.                                                                 *)

\* Without a hard breach or a fork, missing evidence suspends the identity.
LEMMA SuspendedWhen ==
    ASSUME NEW evs, NEW verified \in BOOLEAN, NEW stale,
           "hard_breach" \notin Candidates(evs, verified, stale),
           "declared_fork" \notin Candidates(evs, verified, stale),
           \/ "no_events" \in Candidates(evs, verified, stale)
           \/ "missing_required_evidence" \in Candidates(evs, verified, stale)
    PROVE  IdentityState(evs, verified, stale) = "suspended"
<1> DEFINE cs == Candidates(evs, verified, stale)
           ranks == {k \in DOMAIN EVALUATION_PRECEDENCE : EVALUATION_PRECEDENCE[k] \in cs}
           first == Min(ranks)
<1>1. "hard_breach" \notin cs /\ "declared_fork" \notin cs
      /\ ("no_events" \in cs \/ "missing_required_evidence" \in cs)
    OBVIOUS
<1> HIDE DEF cs
<1>2. ranks \in SUBSET (1..8) /\ (2 \in ranks \/ 6 \in ranks)
    BY <1>1 DEF EVALUATION_PRECEDENCE
<1>3. first \in ranks /\ \A k \in ranks : first <= k
    <2> HIDE DEF ranks
    <2>1. QED BY <1>2, MinIsLeast
<1>4. first \in 1..6 /\ EVALUATION_PRECEDENCE[first] \in cs
    BY <1>2, <1>3
<1>5. IdentityState(evs, verified, stale) = StateOfRule[EVALUATION_PRECEDENCE[first]]
    BY DEF IdentityState, DecidingRule, cs
<1> HIDE DEF first, ranks
<1>6. first \in {1, 2, 5, 6}
    BY <1>1, <1>4 DEF EVALUATION_PRECEDENCE
<1>7. QED BY <1>5, <1>6 DEF StateOfRule, EVALUATION_PRECEDENCE

LEMMA CandidatesKept ==
    ASSUME NEW evs \in Seq(Event), NEW more \in Seq(Event), NEW verified, NEW stale,
           evs # <<>>, \A k \in DOMAIN more : Neutral(more[k])
    PROVE  Candidates(evs \o more, verified, stale) = Candidates(evs, verified, stale)
<1> DEFINE all == evs \o more
<1>1. \A k \in DOMAIN more :
          /\ more[k].type # "constraint.checked" /\ more[k].type # "constraint.breached"
          /\ more[k].type # "identity.forked"
    BY DEF Neutral
<1>2. /\ Positions(all, "constraint.checked") = Positions(evs, "constraint.checked")
      /\ Positions(all, "constraint.breached") = Positions(evs, "constraint.breached")
      /\ Positions(all, "identity.forked") = Positions(evs, "identity.forked")
    BY <1>1, PositionsKept
<1>3. EvidenceAt(all) = EvidenceAt(evs)
    BY <1>2 DEF EvidenceAt
<1>4. \A i \in EvidenceAt(evs) : all[i] = evs[i]
    BY PositionsRead DEF EvidenceAt
<1>5. all # <<>>
    OBVIOUS
<1> HIDE DEF all
<1>6. \A c : Evidence(all, c) = Evidence(evs, c)
    BY <1>3, <1>4 DEF Evidence
<1>7. LatestEvidence(all) = LatestEvidence(evs) /\ LatestEvidence(evs) \subseteq EvidenceAt(evs)
    BY <1>3, <1>4, <1>6 DEF LatestEvidence
<1>8. SoftBreaches(all) = SoftBreaches(evs)
    BY <1>4, <1>7 DEF SoftBreaches
<1>9. HardBreaches(all) = HardBreaches(evs)
    BY <1>2, <1>4 DEF HardBreaches, EvidenceAt
<1>10. (\E i \in LatestEvidence(all) : all[i].constraint \in Perishable /\ i <= stale)
          <=> (\E i \in LatestEvidence(evs) : evs[i].constraint \in Perishable /\ i <= stale)
    BY <1>4, <1>7
<1>11. Candidates(all, verified, stale) = Candidates(evs, verified, stale)
    BY <1>2, <1>5, <1>6, <1>8, <1>9, <1>10 DEF Candidates
<1>12. QED BY <1>11 DEF all

\* An evaluation, a check, a claim record or an emitted text changes no claim.
LEMMA NeutralKeepsClaim ==
    ASSUME NEW evs \in Seq(Event), NEW more \in Seq(Event), NEW verified \in BOOLEAN, NEW stale,
           Required # {}, \A k \in DOMAIN more : Neutral(more[k])
    PROVE  derive_current_claim(evs \o more, verified, stale) =
               derive_current_claim(evs, verified, stale)
<1> DEFINE all == evs \o more
<1>1. /\ OpenFollowups(all) = OpenFollowups(evs)
      /\ FailedFollowups(all) = FailedFollowups(evs)
      /\ CurrentRecoveryStatus(all) = CurrentRecoveryStatus(evs)
    <2>1. \A k \in DOMAIN more : ~Unsettling(more[k].type)
        BY DEF Neutral, Unsettling
    <2>2. QED BY <2>1, FollowupsKept
<1>2. IdentityState(all, verified, stale) = IdentityState(evs, verified, stale)
    <2>1. CASE evs # <<>>
        <3>1. Candidates(all, verified, stale) = Candidates(evs, verified, stale)
            BY <2>1, CandidatesKept
        <3> HIDE DEF all
        <3>2. QED BY <3>1 DEF IdentityState, DecidingRule
    <2>2. CASE evs = <<>> /\ more = <<>>
        <3>1. all = evs
            BY <2>2
        <3>2. QED BY <3>1
    <2>3. CASE evs = <<>> /\ more # <<>>
        <3>1. IdentityState(evs, verified, stale) = "suspended"
            <4>1. /\ "hard_breach" \notin Candidates(evs, verified, stale)
                  /\ "declared_fork" \notin Candidates(evs, verified, stale)
                  /\ "no_events" \in Candidates(evs, verified, stale)
                BY <2>3 DEF Candidates
            <4>2. QED BY <4>1, SuspendedWhen
        <3>2. all = more
            BY <2>3
        <3>3. \A i \in DOMAIN more :
                  /\ more[i].type # "constraint.checked" /\ more[i].type # "constraint.breached"
                  /\ more[i].type # "identity.forked"
            BY DEF Neutral
        <3>4. /\ Positions(more, "constraint.checked") = {} /\ Positions(more, "constraint.breached") = {}
              /\ Positions(more, "identity.forked") = {}
            BY <3>3 DEF Positions
        <3>5. HardBreaches(more) = {} /\ EvidenceAt(more) = {} /\ \A c : Evidence(more, c) = {}
            BY <3>4 DEF HardBreaches, EvidenceAt, Evidence
        <3>6. /\ "hard_breach" \notin Candidates(more, verified, stale)
              /\ "declared_fork" \notin Candidates(more, verified, stale)
              /\ "missing_required_evidence" \in Candidates(more, verified, stale)
            BY <2>3, <3>4, <3>5 DEF Candidates
        <3>7. QED BY <3>1, <3>2, <3>6, SuspendedWhen
    <2>4. QED BY <2>1, <2>2, <2>3
<1> HIDE DEF all
<1>3. \A default : continuity_claim_from_followups(all, default) =
                   continuity_claim_from_followups(evs, default)
    BY <1>1 DEF continuity_claim_from_followups
<1>4. \A claim : AfterRecovery(all, claim) = AfterRecovery(evs, claim)
    BY <1>1 DEF AfterRecovery
<1>5. derive_current_claim(all, verified, stale) = derive_current_claim(evs, verified, stale)
    BY <1>2, <1>3, <1>4 DEF derive_current_claim
<1>6. QED BY <1>5 DEF all

LEMMA SameSuffix ==
    ASSUME NEW evs \in Seq(Event), NEW a \in Seq(Event), NEW b \in Seq(Event), evs \o a = evs \o b
    PROVE  a = b
<1>1. Len(a) = Len(b) /\ Len(a) \in Nat
    <2>1. Len(evs \o a) = Len(evs) + Len(a) /\ Len(evs \o b) = Len(evs) + Len(b)
        OBVIOUS
    <2>2. Len(evs) \in Nat /\ Len(a) \in Nat /\ Len(b) \in Nat
        OBVIOUS
    <2>3. QED BY <2>1, <2>2
<1>2. ASSUME NEW k \in 1..Len(a) PROVE a[k] = b[k]
    <2>1. (evs \o a)[Len(evs) + k] = a[k]
        OBVIOUS
    <2>2. (evs \o b)[Len(evs) + k] = b[k]
        BY <1>1
    <2>3. QED BY <2>1, <2>2
<1>3. QED BY <1>1, <1>2

RecordedIn(evs) ==
    LET current == CurrentClaimRecord(evs)
    IN  IF current = 0 THEN "none" ELSE evs[current].claim

LEMMA RecordedKept ==
    ASSUME NEW evs \in Seq(Event), NEW more \in Seq(Event),
           \A k \in DOMAIN more : more[k].type # "continuity_claim_record"
    PROVE  RecordedIn(evs \o more) = RecordedIn(evs)
<1> DEFINE all == evs \o more
<1>1. Positions(all, "continuity_claim_record") = Positions(evs, "continuity_claim_record")
    BY PositionsKept
<1>2. \A i \in Positions(evs, "continuity_claim_record") : all[i] = evs[i]
    BY PositionsRead
<1> HIDE DEF all
<1>3. CurrentClaimRecord(all) = CurrentClaimRecord(evs)
    BY <1>1 DEF CurrentClaimRecord
<1>4. CurrentClaimRecord(evs) # 0 => CurrentClaimRecord(evs) \in Positions(evs, "continuity_claim_record")
    BY CurrentClaimRecordTyped
<1>5. RecordedIn(all) = RecordedIn(evs)
    BY <1>2, <1>3, <1>4 DEF RecordedIn
<1>6. QED BY <1>5 DEF all

LEMMA RecordedNew ==
    ASSUME NEW evs \in Seq(Event), NEW e \in Event, e.type = "continuity_claim_record"
    PROVE  RecordedIn(Append(evs, e)) = e.claim
<1> DEFINE all == Append(evs, e)
           n == Len(evs) + 1
<1>1. all \in Seq(Event) /\ n \in Nat /\ n # 0 /\ n \in DOMAIN all /\ all[n] = e /\ Len(all) = n
    OBVIOUS
<1> HIDE DEF all, n
<1>2. n \in Positions(all, "continuity_claim_record")
    BY <1>1 DEF Positions
<1>3. CurrentClaimRecord(all) \in 0..n /\ n <= CurrentClaimRecord(all)
    BY <1>1, <1>2, CurrentClaimRecordTyped
<1>4. CurrentClaimRecord(all) = n
    BY <1>1, <1>3
<1>5. QED BY <1>1, <1>4 DEF RecordedIn, all

UpToDate ==
    \/ Recorded = Derived
    \/ Recorded = "none" /\ Derived = "review_required"

Current(me) ==
    /\ me.then # "derive" => UpToDate
    /\ me.at \in {"compare", "record"} => me.derived = Derived

CurrentInv == ProgressInv /\ \A p \in Procs : Current(proc[p])

LEMMA InitCurrentInv == Init => CurrentInv
<1> SUFFICES ASSUME Init PROVE CurrentInv
    OBVIOUS
<1>1. ProgressInv /\ log = <<>> /\ ok = TRUE /\ aged = 0 /\ \A p \in Procs : proc[p] = Idle
    BY InitProgressInv DEF Init
<1>2. Recorded = "none"
    BY <1>1 DEF Recorded, CurrentClaimRecord, Positions
<1>3. IdentityState(log, ok, aged) = "suspended"
    <2>1. /\ "hard_breach" \notin Candidates(log, ok, aged)
          /\ "declared_fork" \notin Candidates(log, ok, aged)
          /\ "no_events" \in Candidates(log, ok, aged)
        BY <1>1 DEF Candidates
    <2>2. QED BY <1>1, <2>1, SuspendedWhen
<1>4. FailedFollowups(log) = {} /\ OpenFollowups(log) = {} /\ CurrentRecoveryStatus(log) = "none"
    BY <1>1 DEF FailedFollowups, OpenFollowups, Followups, CurrentRecoveryStatus, Recoveries, Positions
<1>5. Derived = "review_required"
    <2>1. default_claim_for_identity_state["suspended"] = "review_required"
        BY DEF default_claim_for_identity_state
    <2>2. continuity_claim_from_followups(log, "review_required") = "review_required"
        BY <1>4 DEF continuity_claim_from_followups
    <2>3. AfterRecovery(log, "review_required") = "review_required"
        BY <1>4 DEF AfterRecovery
    <2>4. QED BY <1>3, <2>1, <2>2, <2>3 DEF Derived, derive_current_claim
<1>6. QED BY <1>1, <1>2, <1>5, IdleIs DEF CurrentInv, Current, UpToDate

LEMMA NextCurrentInv ==
    ASSUME NEW sole, Procs = {sole}, Faults = {}, Required # {}
    PROVE  CurrentInv /\ [Next]_vars => CurrentInv'
<1> SUFFICES ASSUME CurrentInv, [Next]_vars PROVE CurrentInv'
    OBVIOUS
<1>1. ProgressInv /\ ProgressInv'
    BY NextProgressInv DEF CurrentInv
<1>2. CASE Age \/ Tamper \/ UNCHANGED vars
    BY <1>1, <1>2 DEF Age, Tamper, vars, CurrentInv, Current, UpToDate, Recorded, Derived
<1>3. ASSUME NEW p \in Procs, Command(p) \/ Step(p) \/ Crash(p) PROVE CurrentInv'
    <2> DEFINE me == proc[p]
    <2>1. PICK next : /\ proc' = [proc EXCEPT ![p] = next] /\ Form(proc[p], next)
                      /\ UNCHANGED <<ok, aged>>
        BY <1>1, <1>3, StepForms
    <2>2. proc'[p] = next /\ Procs = {p}
        BY <1>1, <2>1, OthersStay
    <2>3. PICK evs \in Seq(Event) : log' = log \o evs /\ Sourced(evs, me, next)
        BY <1>1, <2>1, FormAppends
    <2>4. /\ log \in Seq(Event) /\ me \in Local(Len(log)) /\ Len(log) \in Nat
          /\ ok \in BOOLEAN /\ aged \in Nat /\ Progress(me)
        BY <1>1 DEF ProgressInv, RecoveryInv, TypeInv, TypeOK
    <2>5. Current(me) /\ Recorded = RecordedIn(log) /\ Recorded' = RecordedIn(log')
        BY DEF CurrentInv, Recorded, RecordedIn
    <2>6. ASSUME \A k \in DOMAIN evs : Neutral(evs[k]) PROVE Derived' = Derived
        BY <2>1, <2>3, <2>4, <2>6, NeutralKeepsClaim DEF Derived
    <2>7. ASSUME ~Records(me, next) PROVE Recorded' = Recorded
        <3>1. \A k \in DOMAIN evs : evs[k].type # "continuity_claim_record"
            BY <2>3, <2>7 DEF Sourced
        <3>2. QED BY <2>3, <2>4, <2>5, <3>1, RecordedKept
    <2>8. ASSUME next.then # "derive" PROVE UpToDate'
        <3>1. CASE Records(me, next)
            <4> DEFINE record == ClaimRecord(me.derived, me.prior, me.source)
            <4>1. record \in Event /\ log' = Append(log, record) /\ me.derived = Derived
                BY <2>5, <3>1 DEF Records, Current
            <4>2. record.type = "continuity_claim_record" /\ record.claim = me.derived
                BY DEF ClaimRecord
            <4> HIDE DEF record
            <4>3. Recorded' = Derived
                BY <2>4, <2>5, <4>1, <4>2, RecordedNew
            <4>4. <<record>> \in Seq(Event) /\ log' = log \o <<record>>
                  /\ \A k \in DOMAIN <<record>> : Neutral(<<record>>[k])
                BY <2>4, <4>1, <4>2 DEF Neutral
            <4>5. Derived' = Derived
                BY <2>1, <2>4, <4>4, NeutralKeepsClaim DEF Derived
            <4>6. QED BY <4>3, <4>5 DEF UpToDate
        <3>2. CASE ~Records(me, next) /\ me.then # "derive"
            <4>1. \A k \in DOMAIN evs : Neutral(evs[k])
                <5>1. CASE Obliges(me, next) \/ Writes(me, next)
                    <6>1. \A i \in DOMAIN me.todo[1] : Neutral(me.todo[1][i])
                        BY <2>4, <3>2, <5>1 DEF Progress, Quiet, Obliges, Writes
                    <6>2. ~Obliges(me, next)
                        <7>1. FollowupCreated(0).type = "followup_created"
                            BY Kinds
                        <7>2. Obliges(me, next) => 1 \in DOMAIN me.todo[1] /\ me.todo[1][1] = FollowupCreated(0)
                            BY DEF Obliges, Duty
                        <7>3. QED BY <6>1, <7>1, <7>2 DEF Neutral
                    <6>3. log' = log \o me.todo[1] /\ me.todo[1] \in Seq(Event)
                        BY <5>1, <6>2 DEF Writes
                    <6>4. evs = me.todo[1]
                        BY <2>3, <2>4, <6>3, SameSuffix
                    <6>5. QED BY <6>1, <6>4
                <5>2. CASE Emits(me, next)
                    <6>1. log' = Append(log, EmittedBy(me)) /\ EmittedBy(me).type = "runtime.output_gate"
                        BY <5>2, Kinds DEF Emits, EmittedBy
                    <6>2. <<EmittedBy(me)>> \in Seq(Event) /\ log' = log \o <<EmittedBy(me)>>
                        BY <2>4, <5>2, <6>1 DEF Emits
                    <6>3. evs = <<EmittedBy(me)>>
                        BY <2>3, <2>4, <6>2, SameSuffix
                    <6>4. QED BY <6>1, <6>3 DEF Neutral
                <5>3. CASE log' = log
                    <6> DEFINE none == <<>>
                    <6>1. none \in Seq(Event) /\ log' = log \o none /\ DOMAIN none = {}
                        BY <2>4, <5>3
                    <6> HIDE DEF none
                    <6>2. evs = none
                        BY <2>3, <2>4, <6>1, SameSuffix
                    <6>3. QED BY <6>1, <6>2
                <5>4. ~Dies(me, next)
                    BY DEF Dies
                <5>5. QED
                    BY <2>1, <3>2, <5>1, <5>2, <5>3, <5>4
                       DEF Form, Starts, Examines, Derives, Compares, Gates
            <4>2. UpToDate
                BY <2>5, <3>2 DEF Current
            <4>3. QED BY <2>6, <2>7, <3>2, <4>1, <4>2 DEF UpToDate
        <3>3. CASE ~Records(me, next) /\ me.then = "derive"
            <4>1. Compares(me, next) /\ next = Idle
                <5>1. ~(Obliges(me, next) \/ Writes(me, next))
                    <6>1. \A src : Advanced(me, src).then = "derive"
                        BY <2>4, <3>3, AdvancedIs
                    <6>2. QED BY <2>8, <6>1 DEF Obliges, Writes
                <5>2. QED
                    BY <2>1, <2>4, <2>8, <3>3, <5>1, IdleIs
                       DEF Form, Starts, Examines, Derives, Compares, Gates, Emits, Dies, Keeps, Progress
            <4>2. me.derived = Derived /\ log' = log
                BY <2>5, <4>1 DEF Compares, Current
            <4>3. CASE CurrentClaimRecord(log) # 0 /\ log[CurrentClaimRecord(log)].claim = me.derived
                BY <2>1, <4>2, <4>3 DEF UpToDate, Recorded, Derived
            <4>4. CASE ~(CurrentClaimRecord(log) # 0 /\ log[CurrentClaimRecord(log)].claim = me.derived)
                BY <4>1, <4>4, IdleIs DEF Compares
            <4>5. QED BY <4>3, <4>4
        <3>4. QED BY <3>1, <3>2, <3>3
    <2>9. ASSUME next.at \in {"compare", "record"} PROVE next.derived = Derived'
        <3>1. CASE Derives(me, next)
            BY <2>1, <3>1 DEF Derives, Derived
        <3>2. CASE Compares(me, next) /\ next # Idle
            BY <2>1, <2>5, <3>2 DEF Compares, Current, Derived
        <3>3. QED BY <1>1, <2>1, <2>9, <3>1, <3>2, FormConcludes
    <2>10. QED BY <1>1, <2>2, <2>8, <2>9 DEF CurrentInv, Current
<1>4. QED BY <1>2, <1>3 DEF Next

(* Between the commands of a process that has the ledger to itself, is     *)
(* never killed and works on a ledger nobody edits and whose evidence does *)
(* not age, the last claim record says what the ledger justifies; with no  *)
(* record, nothing but review_required is justified.  The manifest must    *)
(* require something: otherwise a lone evaluation already certifies        *)
(* (state.py:52-70).                                                       *)
THEOREM SoleRecordedClaimCurrent ==
    ASSUME NEW sole, Procs = {sole}, Faults = {}, Required # {}
    PROVE  Spec => []RecordedClaimCurrent
<1>1. CurrentInv => RecordedClaimCurrent
    <2> SUFFICES ASSUME CurrentInv, Quiescent PROVE UpToDate
        BY DEF RecordedClaimCurrent, UpToDate
    <2>1. Current(proc[sole]) /\ proc[sole] = Idle
        BY DEF CurrentInv, Quiescent
    <2>2. QED BY <2>1, IdleIs DEF Current
<1>2. CurrentInv /\ [Next]_vars => CurrentInv'
    BY NextCurrentInv
<1>3. QED BY <1>1, <1>2, InitCurrentInv, PTL DEF Spec

-----------------------------------------------------------------------------
(* Privileges.  Every privileged event on the ledger, and every one a      *)
(* handler will append without checking again, has an allowed check of its *)
(* own on the ledger.                                                      *)

AllowedIn(evs, action) ==
    {i \in Positions(evs, "authorization_check") :
        evs[i].action = action /\ evs[i].decision = "allowed"}

\* The handlers that will append an event of this type.
Needs(me, type) ==
    \/ Appends(me.todo, type)
    \/ type = "recovery_opened" /\ (me.at = "examine" \/ (me.at = "append" /\ me.then = "examine"))

Holders(type, action) ==
    {p \in Procs : Needs(proc[p], type) /\ ~ChecksFirst(proc[p].todo, action)}

Backed(type, action) ==
    Covered(Positions(log, type), Holders(type, action), AllowedIn(log, action))

BackedInv == ProgressInv /\ \A x \in Privileges : Backed(x[1], x[2])

LEMMA InitBackedInv == Init => BackedInv
<1> SUFFICES ASSUME Init PROVE BackedInv
    OBVIOUS
<1>1. ProgressInv /\ log = <<>> /\ \A p \in Procs : proc[p] = Idle
    BY InitProgressInv DEF Init
<1>2. \A type : ~Needs(Idle, type)
    BY IdleIs DEF Needs, Appends
<1>3. ASSUME NEW type, NEW action PROVE Backed(type, action)
    <2>1. Positions(log, type) = {} /\ Holders(type, action) = {}
        BY <1>1, <1>2 DEF Positions, Holders
    <2> DEFINE f == [i \in {} |-> i]
               A == AllowedIn(log, action)
    <2>2. f \in [{} -> A]
        OBVIOUS
    <2> HIDE DEF f, A
    <2>3. Covered({}, {}, A)
        BY <2>2 DEF Covered
    <2>4. QED BY <2>1, <2>3 DEF Backed, A
<1>4. QED BY <1>1, <1>3 DEF BackedInv

(* What an append does to the need for a privilege.                        *)
LEMMA AdvancedNeeds ==
    ASSUME NEW n \in Nat, NEW me \in Local(n), Progress(me), me.at = "append", NEW src, NEW type, NEW action,
           type # "authorization_check"
    PROVE  /\ Needs(Advanced(me, src), type) => Needs(me, type)
           /\ me.todo[1] # AllowedCheck(action) /\ Needs(Advanced(me, src), type)
                 /\ ~ChecksFirst(Advanced(me, src).todo, action) => ~ChecksFirst(me.todo, action)
<1> DEFINE next == Advanced(me, src)
           left == Tail(me.todo)
<1>1. me.todo \in Seq(Seq(Event)) /\ me.todo # <<>>
    BY DEF Progress
<1>2. /\ \A b \in DOMAIN left : b + 1 \in DOMAIN me.todo /\ left[b] = me.todo[b + 1]
      /\ \A b \in DOMAIN me.todo : b = 1 \/ (b - 1 \in DOMAIN left /\ left[b - 1] = me.todo[b])
    BY <1>1, TailKeeps
<1>3. CASE next = Idle
    BY <1>3, IdleIs DEF Needs, Appends
<1>4. CASE next # Idle
    <2>1. next.todo = left /\ next.then = me.then /\ next.at = IF left = <<>> THEN me.then ELSE "append"
        BY <1>4, AdvancedIs
    <2>2. Appends(left, type) => Appends(me.todo, type)
        BY <1>2 DEF Appends
    <2>3. next.at = "examine" \/ (next.at = "append" /\ next.then = "examine") => me.then = "examine"
        BY <2>1 DEF Progress
    <2>4. Needs(next, type) => Needs(me, type)
        BY <2>1, <2>2, <2>3 DEF Needs
    <2>5. me.todo[1] # AllowedCheck(action) /\ ChecksFirst(me.todo, action) => ChecksFirst(left, action)
        BY <1>2 DEF ChecksFirst
    <2>6. QED BY <2>1, <2>4, <2>5
<1>5. QED BY <1>3, <1>4

\* A handler about to append a privileged event has done its check, and
\* needs no other event of the kind.
LEMMA PrivilegedHead ==
    ASSUME NEW n \in Nat, NEW me \in Local(n), Progress(me), me.at = "append",
           NEW type \in PrivilegedType, Kind(me.todo[1]) = type, NEW src, NEW action
    PROVE  /\ Needs(me, type) /\ ~ChecksFirst(me.todo, action)
           /\ ~Needs(Advanced(me, src), type)
<1> DEFINE next == Advanced(me, src)
           left == Tail(me.todo)
<1>1. me.todo \in Seq(Seq(Event)) /\ me.todo # <<>> /\ Orderly(me.todo) /\ DOMAIN me.todo = 1..Len(me.todo)
      /\ Len(me.todo) \in Nat
    BY DEF Progress
<1>2. /\ \A b \in DOMAIN left : b + 1 \in DOMAIN me.todo /\ left[b] = me.todo[b + 1]
      /\ 1 \in DOMAIN me.todo /\ left \in Seq(Seq(Event))
    BY <1>1, TailKeeps
<1>3. Needs(me, type)
    BY <1>2 DEF Needs, Appends
<1>4. \A c \in DOMAIN me.todo : 1 < c => Kind(me.todo[c]) \notin PrivilegedType \cup {"authorization_check"}
    BY <1>1, <1>2 DEF Orderly
<1>5. Kind(AllowedCheck(action)) = "authorization_check"
    BY Kinds DEF AllowedCheck, Kind
<1>6. ~ChecksFirst(me.todo, action)
    <2> SUFFICES ASSUME NEW c \in DOMAIN me.todo, me.todo[c] = AllowedCheck(action) PROVE FALSE
        BY DEF ChecksFirst
    <2>1. c # 1
        BY <1>5 DEF PrivilegedType
    <2>2. 1 < c
        BY <1>1, <2>1
    <2>3. QED BY <1>4, <1>5, <2>2
<1>7. ~Appends(left, type)
    <2> SUFFICES ASSUME NEW b \in DOMAIN left, Kind(left[b]) = type PROVE FALSE
        BY DEF Appends
    <2>1. b \in Nat /\ b >= 1
        BY <1>2
    <2>2. 1 < b + 1
        BY <2>1
    <2>3. QED BY <1>2, <1>4, <2>2
<1>8. me.then = "derive"
    <2>1. Alone(me.todo[1]) /\ me.todo[1] \in Seq(Event)
        BY <1>1, <1>2 DEF Orderly
    <2>2. 1 \in DOMAIN me.todo[1]
        BY <2>1 DEF Alone
    <2>3. ~Neutral(me.todo[1][1])
        BY DEF Neutral, Kind, PrivilegedType
    <2>4. ~Quiet(me.todo)
        BY <1>2, <2>2, <2>3 DEF Quiet
    <2>5. QED BY <2>4 DEF Progress
<1>9. ~Needs(next, type)
    <2>1. CASE next = Idle
        BY <2>1, IdleIs DEF Needs, Appends
    <2>2. CASE next # Idle
        <3>1. next.todo = left /\ next.then = me.then /\ next.at = IF left = <<>> THEN me.then ELSE "append"
            BY <2>2, AdvancedIs
        <3>2. QED BY <1>7, <1>8, <3>1 DEF Needs
    <2>3. QED BY <2>1, <2>2
<1>10. QED BY <1>3, <1>6, <1>9

\* Only an append of a check makes a handler one that need not check again.
LEMMA FormHolds ==
    ASSUME ProgressInv, NEW p \in Procs, NEW next, Form(proc[p], next),
           NEW x \in Privileges, Needs(next, x[1]), ~ChecksFirst(next.todo, x[2])
    PROVE  \/ Needs(proc[p], x[1]) /\ ~ChecksFirst(proc[p].todo, x[2])
           \/ Writes(proc[p], next) /\ proc[p].todo[1] = AllowedCheck(x[2])
<1> DEFINE me == proc[p]
<1>1. me \in Local(Len(log)) /\ Len(log) \in Nat /\ Progress(me)
    BY DEF ProgressInv, RecoveryInv, TypeInv, TypeOK
<1>2. ~Needs(Idle, x[1]) /\ next # Idle
    BY IdleIs DEF Needs, Appends
<1>3. x[1] # "authorization_check" /\ x[1] # "followup_created" /\ x[1] \in PrivilegedType
    BY DEF Privileges, PrivilegedType
<1>4. ~Starts(me, next)
    <2> SUFFICES ASSUME NEW batches, NEW then, Planned(batches, then),
                        next = Running(IF batches = <<>> THEN then ELSE "append", batches, then)
                 PROVE  FALSE
        BY DEF Starts
    <2>1. next.todo = batches /\ next.then = then /\ next.at = IF batches = <<>> THEN then ELSE "append"
        BY DEF Running
    <2>2. Appends(batches, x[1]) \/ (x[1] = "recovery_opened" /\ then = "examine")
        BY <2>1 DEF Needs, Planned
    <2>3. QED BY <2>1, <2>2 DEF Planned
<1>5. CASE Obliges(me, next)
    <2>1. me.todo[1] # AllowedCheck(x[2])
        BY <1>5, Kinds DEF Obliges, Duty, AllowedCheck
    <2>2. QED BY <1>1, <1>3, <1>5, <2>1, AdvancedNeeds DEF Obliges
<1>6. CASE Writes(me, next)
    BY <1>1, <1>3, <1>6, AdvancedNeeds DEF Writes
<1>7. CASE Examines(me, next)
    <2> DEFINE all == <<<<RecoveryOpened>>, Duty>>
    <2>1. next.todo = all /\ next.then = "derive" /\ next.at = "append" /\ me.at = "examine"
        BY <1>2, <1>7 DEF Examines
    <2>2. \A b \in DOMAIN all : Kind(all[b]) \in {"recovery_opened", "followup_created"}
        BY Kinds DEF Kind, Duty
    <2> HIDE DEF all
    <2>3. x[1] = "recovery_opened"
        BY <1>3, <2>1, <2>2 DEF Needs, Appends
    <2>4. me.todo = <<>>
        BY <1>1, <2>1 DEF Progress
    <2>5. QED BY <2>1, <2>3, <2>4 DEF Needs, ChecksFirst
<1>8. ~(Derives(me, next) \/ Compares(me, next) \/ Gates(me, next))
    <2> SUFFICES ASSUME Derives(me, next) \/ Compares(me, next) \/ Gates(me, next) PROVE FALSE
        OBVIOUS
    <2>1. next.todo = me.todo /\ me.at \notin {"append", "examine"} /\ next.at \notin {"append", "examine"}
        BY <1>2 DEF Derives, Compares, Gates, Keeps
    <2>2. next.todo = <<>>
        BY <1>1, <2>1 DEF Progress
    <2>3. QED BY <2>1, <2>2 DEF Needs, Appends
<1>9. QED
    BY <1>2, <1>4, <1>5, <1>6, <1>7, <1>8 DEF Form, Records, Emits, Dies

LEMMA AllowedKept ==
    ASSUME NEW evs \in Seq(Event), NEW more \in Seq(Event), NEW action
    PROVE  /\ AllowedIn(evs, action) \subseteq AllowedIn(evs \o more, action)
           /\ (\A k \in DOMAIN more : more[k].type # "authorization_check")
                 => AllowedIn(evs \o more, action) = AllowedIn(evs, action)
<1> DEFINE all == evs \o more
<1>1. \A i \in DOMAIN evs : i \in DOMAIN all /\ all[i] = evs[i]
    OBVIOUS
<1>2. (\A k \in DOMAIN more : more[k].type # "authorization_check") =>
          Positions(all, "authorization_check") = Positions(evs, "authorization_check")
    BY PositionsKept
<1> HIDE DEF all
<1>3. AllowedIn(evs, action) \subseteq AllowedIn(all, action)
    BY <1>1 DEF AllowedIn, Positions
<1>4. Positions(evs, "authorization_check") \subseteq DOMAIN evs
    BY DEF Positions
<1>5. Positions(all, "authorization_check") = Positions(evs, "authorization_check") =>
          AllowedIn(all, action) = AllowedIn(evs, action)
    BY <1>1, <1>4 DEF AllowedIn
<1>6. QED BY <1>2, <1>3, <1>5 DEF all

OneLonger(all, evs, e) == all = evs \o <<e>>

LEMMA OneMore ==
    ASSUME NEW evs \in Seq(Event), NEW e \in Event, NEW type, NEW all, OneLonger(all, evs, e),
           NEW n, n = Len(evs) + 1
    PROVE  /\ e.type = type => Positions(all, type) = Positions(evs, type) \cup {n}
           /\ e.type # type => Positions(all, type) = Positions(evs, type)
           /\ n \notin Positions(evs, type) /\ all[n] = e
           /\ \A i \in DOMAIN evs : all[i] = evs[i]
<1>1. /\ DOMAIN all = 1..n /\ DOMAIN evs = 1..Len(evs) /\ Len(evs) \in Nat
      /\ all[n] = e /\ \A i \in DOMAIN evs : all[i] = evs[i]
    BY DEF OneLonger
<1>2. \A i \in 1..n : i \in 1..Len(evs) \/ i = n
    BY <1>1
<1>3. n \notin Positions(evs, type)
    BY <1>1 DEF Positions
<1>4. e.type = type => Positions(all, type) = Positions(evs, type) \cup {n}
    BY <1>1, <1>2 DEF Positions
<1>5. e.type # type => Positions(all, type) = Positions(evs, type)
    BY <1>1, <1>2 DEF Positions
<1>6. QED BY <1>1, <1>3, <1>4, <1>5

LEMMA NextBackedInv == BackedInv /\ [Next]_vars => BackedInv'
<1> SUFFICES ASSUME BackedInv, [Next]_vars PROVE BackedInv'
    OBVIOUS
<1>1. ProgressInv /\ ProgressInv'
    BY NextProgressInv DEF BackedInv
<1>2. CASE Age \/ Tamper \/ UNCHANGED vars
    <2>1. log' = log /\ proc' = proc
        BY <1>2 DEF Age, Tamper, vars
    <2>2. QED BY <1>1, <2>1 DEF BackedInv, Backed, Holders
<1>3. ASSUME NEW p \in Procs, Command(p) \/ Step(p) \/ Crash(p) PROVE BackedInv'
    <2> DEFINE me == proc[p]
    <2>1. PICK next : proc' = [proc EXCEPT ![p] = next] /\ Form(proc[p], next)
        BY <1>1, <1>3, StepForms
    <2>2. proc'[p] = next /\ \A q \in Procs : q # p => proc'[q] = proc[q]
        BY <1>1, <2>1, OthersStay
    <2>3. PICK evs \in Seq(Event) : log' = log \o evs /\ Sourced(evs, me, next)
        BY <1>1, <2>1, FormAppends
    <2>4. log \in Seq(Event) /\ Len(log) \in Nat /\ me \in Local(Len(log)) /\ Progress(me)
        BY <1>1 DEF ProgressInv, RecoveryInv, TypeInv, TypeOK
    <2>5. ASSUME NEW x \in Privileges PROVE Backed(x[1], x[2])'
        <3> DEFINE type == x[1]
                   action == x[2]
                   P == Positions(log, type)
                   H == Holders(type, action)
                   A == AllowedIn(log, action)
                   H2 == {q \in Procs : Needs(proc'[q], type) /\ ~ChecksFirst(proc'[q].todo, action)}
                   checks == Writes(me, next) /\ me.todo[1] = AllowedCheck(action)
                   n == Len(log) + 1
        <3>1. Covered(P, H, A)
            BY DEF BackedInv, Backed
        <3>2. Backed(type, action)' <=> Covered(Positions(log', type), H2, AllowedIn(log', action))
            BY DEF Backed, Holders
        <3>3. type \in PrivilegedType /\ type # "authorization_check"
            BY DEF Privileges, PrivilegedType
        <3>4. H2 \subseteq H \cup {p} /\ (~checks => H2 \subseteq H)
            <4>1. \A q \in Procs : q # p => (q \in H2 <=> q \in H)
                BY <2>2 DEF Holders
            <4>2. p \in H2 /\ ~checks => p \in H
                BY <1>1, <2>1, <2>2, FormHolds DEF Holders
            <4>3. QED BY <4>1, <4>2
        <3>5. A \subseteq AllowedIn(log', action)
            BY <2>3, <2>4, AllowedKept
        <3>6. ASSUME \A k \in DOMAIN evs : evs[k].type # type PROVE Positions(log', type) = P
            BY <2>3, <2>4, <3>6, PositionsKept
        <3>7. CASE \E k \in DOMAIN evs : evs[k].type = type
            <4>1. PICK k \in DOMAIN evs : evs[k].type = type
                BY <3>7
            <4> DEFINE e == evs[k]
            <4>2. Writes(me, next) /\ evs = <<e>> /\ me.todo[1] = <<e>> /\ e \in Event /\ e.type = type
                BY <2>3, <3>3, <4>1 DEF Sourced
            <4> HIDE DEF e
            <4>3. Kind(me.todo[1]) = type /\ me.at = "append"
                BY <4>2 DEF Kind, Writes
            <4>4. next = Advanced(me, Len(log'))
                BY <4>2 DEF Writes
            <4>5. p \in H /\ p \notin H2
                BY <2>2, <2>4, <3>3, <4>3, <4>4, PrivilegedHead DEF Holders
            <4>6. Positions(log', type) = P \cup {n} /\ n \notin P
                <5>1. OneLonger(log', log, e)
                    BY <2>3, <4>2 DEF OneLonger
                <5>2. QED BY <2>4, <4>2, <5>1, OneMore
            <4>7. Covered(P \cup {n}, H \ {p}, A)
                BY <3>1, <4>5, <4>6, CoveredByHolder
            <4>8. H2 \in SUBSET (H \ {p})
                BY <3>4, <4>5
            <4> HIDE DEF P, H, A, H2
            <4>9. Covered(P \cup {n}, H2, AllowedIn(log', action))
                BY <3>5, <4>7, <4>8, CoveredShrinks
            <4>10. QED BY <3>2, <4>6, <4>9
        <3>8. CASE checks
            <4> DEFINE e == AuthorizationChecked(action, "allowed")
            <4>1. action \in CommandName
                BY DEF Privileges, CommandName
            <4>2. /\ e \in Event /\ e.type = "authorization_check" /\ e.action = action
                  /\ e.decision = "allowed"
                BY <4>1, EventsTyped DEF AuthorizationChecked
            <4>3. log' = log \o <<e>> /\ me.todo[1] = <<e>>
                BY <3>8 DEF Writes, AllowedCheck
            <4> HIDE DEF e
            <4>4. /\ Positions(log', type) = P /\ log'[n] = e
                  /\ Positions(log', "authorization_check") = Positions(log, "authorization_check") \cup {n}
                  /\ n \notin Positions(log, "authorization_check")
                  /\ \A i \in DOMAIN log : log'[i] = log[i]
                <5>1. "authorization_check" # type /\ e.type # type
                    BY <3>3, <4>2
                <5>0. OneLonger(log', log, e)
                    BY <4>3 DEF OneLonger
                <5> HIDE DEF type
                <5>2. Positions(log', type) = Positions(log, type)
                    BY <2>4, <4>2, <5>0, <5>1, OneMore
                <5>3. /\ Positions(log', "authorization_check") = Positions(log, "authorization_check") \cup {n}
                      /\ n \notin Positions(log, "authorization_check")
                    BY <2>4, <4>2, <5>0, OneMore
                <5>4. log'[n] = e /\ \A i \in DOMAIN log : log'[i] = log[i]
                    BY <2>4, <4>2, <4>3
                <5>5. QED BY <5>2, <5>3, <5>4
            <4>5. AllowedIn(log', action) = A \cup {n} /\ n \notin A
                BY <4>2, <4>4 DEF AllowedIn, Positions
            <4>6. p \notin H
                <5>1. me.todo # <<>> /\ me.todo[1] = AllowedCheck(action) /\ me.todo \in Seq(Seq(Event))
                    BY <2>4, <3>8 DEF Writes, Progress
                <5>2. ChecksFirst(me.todo, action)
                    BY <5>1, TailKeeps DEF ChecksFirst
                <5>3. QED BY <5>2 DEF Holders
            <4> HIDE DEF P, H, A
            <4>7. Covered(P, H \cup {p}, A \cup {n})
                BY <3>1, <4>5, <4>6, CoveredByNew
            <4> HIDE DEF H2
            <4>8. H2 \in SUBSET (H \cup {p})
                BY <3>4
            <4>9. Covered(P, H2, A \cup {n})
                BY <4>7, <4>8, CoveredShrinks
            <4>10. QED BY <3>2, <4>4, <4>5, <4>9
        <3>9. CASE ~checks /\ \A k \in DOMAIN evs : evs[k].type # type
            <4>1. Positions(log', type) = P /\ H2 \in SUBSET H
                BY <3>4, <3>6, <3>9
            <4> HIDE DEF P, H, A, H2
            <4>2. Covered(P, H2, AllowedIn(log', action))
                BY <3>1, <3>5, <4>1, CoveredShrinks
            <4>3. QED BY <3>2, <4>1, <4>2
        <3>10. QED BY <3>7, <3>8, <3>9
    <2>6. QED BY <1>1, <2>5 DEF BackedInv
<1>4. QED BY <1>2, <1>3 DEF Next

(* No override, recovery or recovery verdict without an allowed check of   *)
(* its own, for any number of processes, whoever is killed between the     *)
(* check and the deed (authorization.py:123-143, pca_cli.py:3131-3145).    *)
THEOREM PrivilegesAreChecked == Spec => []Privileged
<1>1. BackedInv => Privileged
    <2> SUFFICES ASSUME BackedInv PROVE Privileged
        OBVIOUS
    <2>1. ASSUME NEW x \in Privileges
          PROVE  Cardinality(Positions(log, x[1])) <= Cardinality(AllowedIn(log, x[2]))
        <3>1. log \in Seq(Event) /\ Len(log) \in Nat
            BY DEF BackedInv, ProgressInv, RecoveryInv, TypeInv, TypeOK
        <3>2. AllowedIn(log, x[2]) \subseteq 1..Len(log)
            BY <3>1 DEF AllowedIn, Positions
        <3>3. IsFiniteSet(AllowedIn(log, x[2]))
            <4>1. IsFiniteSet(1..Len(log))
                BY <3>1, FS_Interval
            <4>2. QED BY <3>2, <4>1, FS_Subset
        <3>4. QED BY <3>3, CoveredCounts DEF BackedInv, Backed
    <2>2. \A x \in Privileges : Count(x[1]) <= Allowed(x[2])
        BY <2>1 DEF Count, Allowed, AllowedIn
    <2>3. QED BY <2>2 DEF Privileged, Privileges
<1>2. QED BY <1>1, InitBackedInv, NextBackedInv, PTL DEF Spec
=============================================================================
