---------------------------- MODULE MCContinuity ----------------------------
(***************************************************************************)
(* Instances of Continuity for TLC.  One required, perishable constraint   *)
(* and the runtime's own constraint names stand for the manifest.          *)
(***************************************************************************)
EXTENDS Continuity

MCRequired == <<"ledger_integrity">>
MCPerishable == {"ledger_integrity"}

\* Both required constraints of examples/minimal_identity.json.
MCTwoRequired == <<"ledger_integrity", "origin_traceability">>
MCTwoPerishable == {"ledger_integrity", "origin_traceability"}

MCCheckable == {"ledger_integrity", "runtime_csm_amber"}

AllCommands == CommandName

\* The commands that lead to and from certified continuity.
CertifyingCommands ==
    {"seed-required", "breach", "override", "open-recovery",
     "complete-recovery-audit", "complete-followup", "fail-followup"}

\* The commands whose claims race.
RacingCommands ==
    {"seed-required", "breach", "override", "audit", "open-recovery", "gate-output"}

\* The commands of a break by a failed obligation and its recovery.
RecoveringCommands ==
    {"seed-required", "override", "open-recovery", "complete-recovery-audit",
     "complete-followup", "fail-followup"}

\* Denied everything or allowed everything; allowed everything.
LowAndHigh == {"observer", "recovery_authority"}
High == {"recovery_authority"}

MCOne == {"cli"}
MCTwo == {"cli", "chat"}
=============================================================================
