----------------------------- MODULE Continuity -----------------------------
(***************************************************************************)
(* The continuity handlers of pca_cli.py, run by several processes over    *)
(* one ledger.  A handler appends its events one call at a time, each      *)
(* append atomic under the ledger's lock (module Ledger), and reads the    *)
(* ledger without any lock; nothing ties what it read to what it appends   *)
(* next.  Nearly every handler ends in record_claim_if_changed: derive the *)
(* claim, compare it with the last claim record, append a new one.         *)
(***************************************************************************)
EXTENDS Claims

CONSTANTS
    Procs,                 \* processes that run commands
    Commands,              \* the commands they run (a bound)
    Checkable,             \* the constraint names given to check and breach
    Authorities,           \* the authorities given to --authority
    FollowupsPerOverride,  \* obligations an override creates
    Faults,                \* of "crash", "age", "tamper"
    MaxCommands            \* bound: how many commands are ever started

CommandName ==
    {"check", "breach", "seed-required", "fork", "transform", "override",
     "runtime-signal", "gate-output", "open-recovery",
     "complete-recovery-audit", "complete-followup", "fail-followup", "audit"}

AUTHORITY_RANK ==
    [observer |-> 0, operator |-> 1, steward |-> 2,
     recovery_authority |-> 3, root_authority |-> 4]

ASSUME ContinuityAssumption ==
    /\ Commands \subseteq CommandName
    /\ FollowupsPerOverride \in Nat \ {0}
    /\ MaxCommands \in Nat
    /\ Authorities \subseteq DOMAIN AUTHORITY_RANK
    /\ Faults \subseteq {"crash", "age", "tamper"}

VARIABLES
    log,       \* the events of the ledger
    ok,        \* verify_chain(): nobody has edited a line by hand
    aged,      \* evidence up to here is older than freshness_seconds
    proc,      \* the local state of each process
    started    \* number of commands started

vars == <<log, ok, aged, proc, started>>

(* A process at rest.  A running handler keeps: where it is, the batches   *)
(* of events it has yet to append, where it goes after them, the event its *)
(* claim record and follow-ups refer to, the claim it derived and the      *)
(* claim record it compared that with.                                     *)
Running(at, batches, then) ==
    [at |-> at, todo |-> batches, then |-> then, source |-> 0, derived |-> "none", prior |-> 0]

Idle == Running("idle", <<>>, "idle")

\* AuthorizationPolicy's defaults.
MinAuthority ==
    [override |-> "operator", complete_followup |-> "operator",
     fail_followup |-> "steward", recovery |-> "recovery_authority"]

\* What run_audit can return: never require_review.
AuditOutcome == {"certify_continuity", "remain_uncertified", "mark_continuity_break"}

authorize(authority, required) == AUTHORITY_RANK[authority] >= AUTHORITY_RANK[required]

-----------------------------------------------------------------------------
(* Starting a command: the process knows which events it will append up to *)
(* the point where the handler reads the ledger again.                     *)

Begin(p, batches, then) ==
    /\ proc[p] = Idle
    /\ started < MaxCommands
    /\ started' = started + 1
    /\ proc' = [proc EXCEPT ![p] =
            Running(IF batches = <<>> THEN then ELSE "append", batches, then)]
    /\ UNCHANGED <<log, ok, aged>>

(* Mutant: the check is logged but does not stop the handler.              *)
AuthorizedLeniently(p, command, authority, required, batches, then) ==
    LET allowed == authorize(authority, required)
        check == AuthorizationChecked(command, IF allowed THEN "allowed" ELSE "denied")
    IN  Begin(p, <<<<check>>>> \o batches, then)

(* log_authorization_check records every attempt; a denied one ends the    *)
(* handler there, without a claim record.                                  *)
Authorized(p, command, authority, required, batches, then) ==
    LET allowed == authorize(authority, required)
        check == AuthorizationChecked(command, IF allowed THEN "allowed" ELSE "denied")
    IN  IF allowed THEN Begin(p, <<<<check>>>> \o batches, then)
                   ELSE Begin(p, <<<<check>>>>, "idle")

Check(p) ==
    /\ "check" \in Commands
    /\ \E c \in Checkable : Begin(p, <<<<Checked(c)>>>>, "derive")

Breach(p) ==
    /\ "breach" \in Commands
    /\ \E c \in Checkable, s \in {"soft", "hard"} :
           Begin(p, <<<<Breached(c, s)>>>>, "derive")

SeedRequired(p) ==
    /\ "seed-required" \in Commands
    /\ Begin(p, [i \in DOMAIN RequiredConstraints |-> <<Checked(RequiredConstraints[i])>>],
             "derive")

(* Mutant: fork does not end in record_claim_if_changed.                   *)
ForkUnrecorded(p) == "fork" \in Commands /\ Begin(p, <<<<Forked>>>>, "idle")

Fork(p) == "fork" \in Commands /\ Begin(p, <<<<Forked>>>>, "derive")

Transform(p) == "transform" \in Commands /\ Begin(p, <<<<Evaluated>>>>, "derive")

(* Mutant: the override returns before it creates its obligations.         *)
OverrideUnobliged(p) ==
    /\ "override" \in Commands
    /\ \/ \E a \in Authorities :
            LET allowed == authorize(a, MinAuthority.override)
                check == AuthorizationChecked("override", IF allowed THEN "allowed" ELSE "denied")
            IN  IF allowed
                THEN Begin(p, <<<<Evaluated>>, <<check>>, <<Overridden>>>>, "derive")
                ELSE Begin(p, <<<<Evaluated>>, <<check>>>>, "idle")
       \/ Begin(p, <<<<Evaluated>>>>, "idle")

(* The evaluation is recorded first.  Without --authority, or when the     *)
(* policy forbids overriding, the handler stops right after it; a denied   *)
(* authority stops it after the check.                                     *)
Override(p) ==
    /\ "override" \in Commands
    /\ \/ \E a \in Authorities :
            LET allowed == authorize(a, MinAuthority.override)
                check == AuthorizationChecked("override", IF allowed THEN "allowed" ELSE "denied")
            IN  IF allowed
                THEN Begin(p, <<<<Evaluated>>, <<check>>, <<Overridden>>>>
                              \o [i \in 1..FollowupsPerOverride |-> <<FollowupCreated(0)>>],
                           "derive")
                ELSE Begin(p, <<<<Evaluated>>, <<check>>>>, "idle")
       \/ Begin(p, <<<<Evaluated>>>>, "idle")

(* record_runtime_signal: signal and breach in one critical section.       *)
RuntimeSignal(p) ==
    /\ "runtime-signal" \in Commands
    /\ \/ Begin(p, <<<<Signal("GREEN")>>>>, "derive")
       \/ Begin(p, <<<<Signal("AMBER"), Breached("runtime_csm_amber", "soft")>>>>, "derive")
       \/ Begin(p, <<<<Signal("RED"), Breached("runtime_csm_red", "hard")>>>>, "derive")

(* emit a text that does, or does not, contain an identity claim.          *)
GateOutput(p) ==
    /\ "gate-output" \in Commands
    /\ \E then \in {"gate_claiming", "gate_plain"} : Begin(p, <<>>, then)

OpenRecovery(p) ==
    /\ "open-recovery" \in Commands
    /\ \E a \in Authorities :
           Authorized(p, "open-recovery", a, MinAuthority.recovery, <<>>, "examine")

(* The recovery and the follow-up are looked up after the check; an        *)
(* unknown id ends the handler there.  The follow-up need not be the       *)
(* recovery's own.  An incomplete audit rejects as a failed one does.      *)
CompleteRecoveryAudit(p) ==
    /\ "complete-recovery-audit" \in Commands
    /\ \E a \in Authorities :
       \/ Authorized(p, "complete-recovery-audit", a, MinAuthority.recovery, <<>>, "idle")
       \/ \E r \in Recoveries(log), f \in Followups(log), outcome \in AuditOutcome :
            LET passed == outcome = "certify_continuity"
            IN  Authorized(p, "complete-recovery-audit", a, MinAuthority.recovery,
                    <<<<Audited(outcome)>>,
                      <<FollowupUpdated(f, IF passed THEN "completed" ELSE "failed")>>,
                      <<RecoveryUpdated(r, IF passed THEN "recovery_certified"
                                                     ELSE "recovery_rejected")>>>>,
                    "derive")

(* Evidence that lacks a required item ends the handler after the check.   *)
CompleteFollowup(p) ==
    /\ "complete-followup" \in Commands
    /\ \E a \in Authorities, f \in Followups(log) :
       \/ Authorized(p, "complete-followup", a, MinAuthority.complete_followup,
                     <<<<FollowupUpdated(f, "completed")>>>>, "derive")
       \/ Authorized(p, "complete-followup", a, MinAuthority.complete_followup, <<>>, "idle")

FailFollowup(p) ==
    /\ "fail-followup" \in Commands
    /\ \E a \in Authorities, f \in Followups(log) :
           Authorized(p, "fail-followup", a, MinAuthority.fail_followup,
                      <<<<FollowupUpdated(f, "failed")>>>>, "derive")

(* An incomplete audit is recorded and leaves the follow-up as it is.      *)
Audit(p) ==
    /\ "audit" \in Commands
    /\ \E f \in Followups(log) :
       \/ Begin(p, <<<<Audited("certify_continuity")>>, <<FollowupUpdated(f, "completed")>>>>,
                "derive")
       \/ Begin(p, <<<<Audited("mark_continuity_break")>>, <<FollowupUpdated(f, "failed")>>>>,
                "derive")
       \/ Begin(p, <<<<Audited("remain_uncertified")>>>>, "derive")

-----------------------------------------------------------------------------
(* The steps of a handler.                                                 *)

(* A follow-up names the override or the recovery it was created by.       *)
Stamped(batch, src) ==
    [i \in DOMAIN batch |->
        IF batch[i].type = "followup_created" THEN FollowupCreated(src) ELSE batch[i]]

(* One append, append_many or locked pair.                                 *)
AppendBatch(p) ==
    /\ proc[p].at = "append"
    /\ LET me == proc[p]
           batch == Stamped(Head(me.todo), me.source)
           left == Tail(me.todo)
       IN  /\ log' = log \o batch
           /\ proc' = [proc EXCEPT ![p] =
                  IF left = <<>> /\ me.then = "idle" THEN Idle
                  ELSE [me EXCEPT !.todo = left,
                          !.at = IF left = <<>> THEN me.then ELSE "append",
                          !.source = IF batch[1].type = "followup_created"
                                     THEN me.source ELSE Len(log')]]
    /\ UNCHANGED <<ok, aged, started>>

(* open-recovery looks at the recorded claim, not at the derived one.      *)
ExamineClaim(p) ==
    /\ proc[p].at = "examine"
    /\ LET current == CurrentClaimRecord(log) IN
         proc' = [proc EXCEPT ![p] =
             IF current # 0 /\ log[current].claim = "certified_continuity" THEN Idle
             ELSE [@ EXCEPT !.at = "append", !.then = "derive",
                            !.todo = <<<<RecoveryOpened>>, <<FollowupCreated(0)>>>>]]
    /\ UNCHANGED <<log, ok, aged, started>>

(* Mutant: the events were read before the handler appended its own.       *)
DeriveClaimStale(p) ==
    /\ proc[p].at = "derive"
    /\ LET claim == derive_current_claim(SubSeq(log, 1, proc[p].source - 1), ok, aged)
       IN  proc' = [proc EXCEPT ![p] = [@ EXCEPT !.at = "compare", !.derived = claim]]
    /\ UNCHANGED <<log, ok, aged, started>>

(* derive_current_claim: an unlocked read of the events, and of the chain. *)
DeriveClaim(p) ==
    /\ proc[p].at = "derive"
    /\ LET claim == derive_current_claim(log, ok, aged)
       IN  proc' = [proc EXCEPT ![p] = [@ EXCEPT !.at = "compare", !.derived = claim]]
    /\ UNCHANGED <<log, ok, aged, started>>

(* Mutants: a record is appended even when nothing changed; only the first *)
(* record is ever appended.                                                *)
CompareClaimAlways(p) ==
    /\ proc[p].at = "compare"
    /\ proc' = [proc EXCEPT ![p] = [@ EXCEPT !.at = "record", !.prior = CurrentClaimRecord(log)]]
    /\ UNCHANGED <<log, ok, aged, started>>

CompareClaimOnce(p) ==
    /\ proc[p].at = "compare"
    /\ proc' = [proc EXCEPT ![p] =
           IF CurrentClaimRecord(log) # 0 THEN Idle ELSE [@ EXCEPT !.at = "record"]]
    /\ UNCHANGED <<log, ok, aged, started>>

(* A second unlocked read for the previous record; no record if unchanged. *)
CompareClaim(p) ==
    /\ proc[p].at = "compare"
    /\ LET previous == CurrentClaimRecord(log) IN
         proc' = [proc EXCEPT ![p] =
             IF previous # 0 /\ log[previous].claim = proc[p].derived THEN Idle
             ELSE [@ EXCEPT !.at = "record", !.prior = previous]]
    /\ UNCHANGED <<log, ok, aged, started>>

RecordClaim(p) ==
    /\ proc[p].at = "record"
    /\ log' = Append(log, ClaimRecord(proc[p].derived, proc[p].prior, proc[p].source))
    /\ proc' = [proc EXCEPT ![p] = Idle]
    /\ UNCHANGED <<ok, aged, started>>

(* PCAOutputWrapper.emit: decide on the derived claim, then append the     *)
(* audit event of what goes out.                                           *)
GateText(p) ==
    /\ proc[p].at \in {"gate_claiming", "gate_plain"}
    /\ LET claim == derive_current_claim(log, ok, aged)
       IN  proc' = [proc EXCEPT ![p] = [@ EXCEPT !.at = "emit", !.derived = claim]]
    /\ UNCHANGED <<log, ok, aged, started>>

EmitText(p) ==
    /\ proc[p].at = "emit"
    /\ LET identity == proc[p].then = "gate_claiming"
           claim == proc[p].derived
       IN  log' = Append(log, OutputGated(claim, process_output(claim, identity), identity))
    /\ proc' = [proc EXCEPT ![p] = Idle]
    /\ UNCHANGED <<ok, aged, started>>

-----------------------------------------------------------------------------
(* The environment.                                                        *)

(* The process is killed between two calls on the ledger, or inside a      *)
(* batch, of which the first events are then on the ledger.                *)
Crash(p) ==
    /\ "crash" \in Faults
    /\ proc[p].at # "idle"
    /\ \/ UNCHANGED log
       \/ /\ proc[p].at = "append"
          /\ \E n \in 1..Len(Head(proc[p].todo)) - 1 :
                 log' = log \o SubSeq(Stamped(Head(proc[p].todo), proc[p].source), 1, n)
    /\ proc' = [proc EXCEPT ![p] = Idle]
    /\ UNCHANGED <<ok, aged, started>>

(* Time passes until everything recorded so far is stale.                  *)
Age ==
    /\ "age" \in Faults
    /\ aged < Len(log)
    /\ aged' = Len(log)
    /\ UNCHANGED <<log, ok, proc, started>>

(* Somebody edits a line of the file.                                      *)
Tamper ==
    /\ "tamper" \in Faults
    /\ ok /\ log # <<>>
    /\ ok' = FALSE
    /\ UNCHANGED <<log, aged, proc, started>>

-----------------------------------------------------------------------------

Init ==
    /\ log = <<>> /\ ok = TRUE /\ aged = 0
    /\ proc = [p \in Procs |-> Idle]
    /\ started = 0

Command(p) ==
    \/ Check(p) \/ Breach(p) \/ SeedRequired(p) \/ Fork(p) \/ Transform(p)
    \/ Override(p) \/ RuntimeSignal(p) \/ GateOutput(p) \/ OpenRecovery(p)
    \/ CompleteRecoveryAudit(p) \/ CompleteFollowup(p) \/ FailFollowup(p) \/ Audit(p)

Step(p) ==
    \/ AppendBatch(p) \/ ExamineClaim(p) \/ DeriveClaim(p) \/ CompareClaim(p)
    \/ RecordClaim(p) \/ GateText(p) \/ EmitText(p)

Next ==
    \/ \E p \in Procs : Command(p) \/ Step(p) \/ Crash(p)
    \/ Age \/ Tamper

Spec == Init /\ [][Next]_vars

(* A running handler never waits for anything but the ledger's lock, which *)
(* every writer gives back (Ledger!AppendReturns).                         *)
FairSpec == Spec /\ \A p \in Procs : WF_vars(Step(p))

-----------------------------------------------------------------------------
(* Properties.                                                             *)

ConstraintName == Required \cup Checkable \cup {"runtime_csm_amber", "runtime_csm_red"}

Event ==
    {Checked(c) : c \in ConstraintName}
    \cup {Breached(c, s) : c \in ConstraintName, s \in {"soft", "hard"}}
    \cup {Signal(s) : s \in {"GREEN", "AMBER", "RED"}}
    \cup {Forked, Evaluated, Overridden, RecoveryOpened}
    \cup {Audited(o) : o \in AuditOutcome}
    \cup [type : {"authorization_check"}, action : CommandName,
          decision : {"allowed", "denied"}]
    \cup [type : {"followup_created"}, source : Nat]
    \cup [type : {"followup_updated"}, id : Nat, status : {"completed", "failed"}]
    \cup [type : {"recovery_updated"}, id : Nat,
          status : {"recovery_certified", "recovery_rejected"}]
    \cup [type : {"continuity_claim_record"}, claim : Claim, supersedes : Nat, source : Nat]
    \cup [type : {"runtime.output_gate"}, claim : Claim,
          text : {"original", "disclosed", "status"}, identity : BOOLEAN]

Stage == {"idle", "append", "examine", "derive", "compare", "record",
          "gate_claiming", "gate_plain", "emit"}

\* What a process keeps while the ledger has n events.
Local(n) ==
    [at : Stage, todo : Seq(Seq(Event)), then : Stage, source : 0..n,
     derived : Claim \cup {"none"}, prior : 0..n]

TypeOK ==
    /\ log \in Seq(Event)
    /\ ok \in BOOLEAN
    /\ aged \in 0..Len(log)
    /\ proc \in [Procs -> Local(Len(log))]
    /\ started \in 0..MaxCommands

Prefix(n) == SubSeq(log, 1, n)
Derived == derive_current_claim(log, ok, aged)
Recorded ==
    LET current == CurrentClaimRecord(log)
    IN  IF current = 0 THEN "none" ELSE log[current].claim

(* The conditions the documents put on certified continuity, each stated   *)
(* on the bare events.                                                     *)
Unbroken(evs) == \A i \in DOMAIN evs :
    evs[i].type = "constraint.breached" => evs[i].severity # "hard"

Undivided(evs) == \A i \in DOMAIN evs : evs[i].type # "identity.forked"

Evidenced(evs) ==
    /\ \A c \in Required : \E i \in DOMAIN evs : evs[i] = Checked(c)
    /\ \A i \in DOMAIN evs : evs[i].type = "constraint.breached" =>
           \E j \in DOMAIN evs : j > i /\ evs[j] = Checked(evs[i].constraint)

Discharged(evs) == \A f \in DOMAIN evs : evs[f].type = "followup_created" =>
    \E i \in DOMAIN evs :
        /\ evs[i] = FollowupUpdated(f, "completed")
        /\ \A j \in DOMAIN evs : j > i => evs[j] # FollowupUpdated(f, "failed")

Unrejected(evs) == \A i \in DOMAIN evs :
    (evs[i].type = "recovery_updated" /\ evs[i].status = "recovery_rejected") =>
        \E j \in DOMAIN evs :
            \/ evs[j].type = "recovery_opened" /\ j > evs[i].id
            \/ evs[j] = RecoveryUpdated(evs[i].id, "recovery_certified") /\ j > i

Clear(evs) ==
    /\ Unbroken(evs) /\ Undivided(evs) /\ Evidenced(evs)
    /\ Discharged(evs) /\ Unrejected(evs)

(* Certified continuity is derived from exactly the clear ledgers whose    *)
(* chain verifies and whose required evidence is fresh: not while a        *)
(* follow-up is open or failed, after a hard breach or a fork, or under a  *)
(* rejected recovery (state.py:24-49, ARCHITECTURE.md:82).                 *)
CertifiedIffClear ==
    Derived = "certified_continuity" <=>
        /\ ok /\ log # <<>> /\ Clear(log)
        /\ \A c \in Perishable : \E i \in DOMAIN log : i > aged /\ log[i] = Checked(c)

(* A certified claim record rests on a clear ledger that already held the  *)
(* event and the obligations of its own command, whatever other processes  *)
(* were doing and whoever died (state.py:52-70).                           *)
CertifiedRecordsRestOnClear ==
    \A i \in Positions(log, "continuity_claim_record") :
        log[i].claim = "certified_continuity" =>
            \E n \in log[i].source..(i - 1) :
                /\ \A f \in 1..(i - 1) : log[f] = FollowupCreated(log[i].source) => f <= n
                /\ Clear(Prefix(n))

(* No evidence, transform, fork, signal, claim record or passage of time   *)
(* leads out of continuity_break: only a change to a follow-up or to a     *)
(* recovery does, or an edit of the file (evaluator.py:47-55).             *)
BreakLeftDeliberately ==
    [][(Derived = "continuity_break" /\ Derived' # "continuity_break" /\ ok') =>
          \E i \in Len(log) + 1..Len(log') :
              log'[i].type \in {"followup_created", "followup_updated",
                               "recovery_opened", "recovery_updated"}]_vars

Count(type) == Cardinality(Positions(log, type))
Allowed(action) ==
    Cardinality({i \in Positions(log, "authorization_check") :
                    log[i].action = action /\ log[i].decision = "allowed"})

(* No override, recovery or recovery verdict without an allowed check of   *)
(* its own before it (authorization.py:123-143, pca_cli.py:3131-3145).     *)
Privileged ==
    /\ Count("transform.override") <= Allowed("override")
    /\ Count("recovery_opened") <= Allowed("open-recovery")
    /\ Count("recovery_updated") <= Allowed("complete-recovery-audit")

Quiescent == \A p \in Procs : proc[p] = Idle

(* Between commands the last claim record is what the ledger justifies;    *)
(* with none, nothing but review_required is (state.py:52-70).  Holds when *)
(* commands do not overlap and none is killed.                             *)
RecordedClaimCurrent ==
    Quiescent => \/ Recorded = Derived
                 \/ Recorded = "none" /\ Derived = "review_required"

(* The claim records form one chain of genuine changes: each supersedes    *)
(* the record before it and says something else (claims.py:66-75).         *)
ClaimsFormChain ==
    LET claims == Positions(log, "continuity_claim_record") IN
    \A i \in claims :
        /\ log[i].supersedes = CurrentClaimRecord(Prefix(i - 1))
        /\ log[i].supersedes # 0 => log[log[i].supersedes].claim # log[i].claim

(* A text that claims the identity leaves undisclosed only if the ledger   *)
(* was clear when it did (runtime_adapter.py:124-140).                     *)
SpeechIsClear ==
    \A i \in Positions(log, "runtime.output_gate") :
        (log[i].text = "original" /\ log[i].identity) => Clear(Prefix(i - 1))

(* An override that completed left its obligations in the ledger, and only *)
(* those (pca_cli.py:267-286).                                             *)
OverrideObliges ==
    Quiescent => \A i \in Positions(log, "transform.override") :
        Cardinality({f \in Followups(log) : log[f].source = i}) = FollowupsPerOverride

(* A hard breach reaches the claim record: the recorded claim stops being  *)
(* certified once a hard breach is on the ledger.                          *)
BreachReachesRecord ==
    HardBreaches(log) # {} ~> Recorded \notin {"none", "certified_continuity"}

(* ARCHITECTURE.md:105-107: after a recorded break a certified recovery    *)
(* audit leads to a constrained claim, not automatically back to certified *)
(* continuity.                                                             *)
RecoveryNeverCertifies ==
    [][\A i \in Len(log) + 1..Len(log') :
          /\ log'[i].type = "recovery_updated" /\ log'[i].status = "recovery_certified"
          /\ \E j \in Positions(log, "continuity_claim_record") :
                 log[j].claim = "continuity_break"
          => Derived' # "certified_continuity"]_vars
=============================================================================
