------------------------------- MODULE Trials -------------------------------
(***************************************************************************)
(* The trials the project runs on itself: governance scenarios, each in a  *)
(* sandbox directory that is kept from one run to the next (scenarios.py,  *)
(* scenario_runner.py, scripts/regression_check.py); the direct continuity *)
(* experiment, in temporary directories (direct_continuity_experiment.py); *)
(* and the blinded rating of outputs, a conversation with raters that      *)
(* spans many commands (output_only_rating.py).                            *)
(*                                                                         *)
(* Two runs of one scenario at the same time are left out: each would      *)
(* delete the other's ledger and lock.                                     *)
(***************************************************************************)
EXTENDS TrialRecords, Handlers

CONSTANTS
    Raters,
    Samples   \* of Conditions: bound on the samples that are presented

Labels == 1..Cardinality(Samples)
Judgments == {"same", "different"}

\* What these commands write to the ledger of the project.
Event ==
    [type : {"direct_continuity_experiment.ran"}, passed : SUBSET Conditions]
    \cup [type : {"output_only_rating.presented"}, mapping : Bijection(Labels, Samples)]
    \cup [type : {"output_only_rating.recorded"}, condition : Samples, rater : Raters,
          judgment : Judgments, label : Labels, read : Nat]

(* A rating is of a presentation made before it, and counts for what its   *)
(* label stood for in that one or in another one made in the meantime.     *)
Founded(evs, rating) ==
    /\ rating.read \in Presentations(evs)
    /\ \E i \in Presentations(evs) :
        i >= rating.read /\ rating.condition = evs[i].mapping[rating.label]

\* Such ledgers are what earlier commands leave.
Opening(evs) ==
    /\ evs \in Seq(Event)
    /\ \A i \in Ratings(evs) : Founded(SubSeq(evs, 1, i - 1), evs[i])

ASSUME TrialsAssumption ==
    /\ Samples \subseteq Conditions
    /\ \A evs \in StartLogs : Opening(evs)
    /\ Limit \in [{"run", "run-all", "report", "verify", "verify-all",
                   "experiment", "samples", "submit"} -> Nat]

VARIABLES
    sandbox,   \* per scenario, the events of its ledger; empty if there is no file
    results,   \* per scenario, the summary in result.json
    verdicts,  \* per scenario, what the last verification said
    sheet      \* per rater, the presentation they have in front of them, 0 if none

vars == <<handlers, sandbox, results, verdicts, sheet>>
sandboxes == <<sandbox, results, verdicts>>

NoResult == [final_claim |-> "none"]

-----------------------------------------------------------------------------
(* Commands.                                                               *)

Prepare(s)        == [do |-> "prepare", scenario |-> s]
Finalize(s, aged) == [do |-> "finalize", scenario |-> s, aged |-> aged]
Verify(s)         == [do |-> "verify", scenario |-> s]
Play(s, item) ==
    [f \in DOMAIN item \cup {"scenario"} |-> IF f = "scenario" THEN s ELSE item[f]]

\* What run_scenario does once it has removed the ledger of an earlier run.
PlayCalls(s) ==
    LET items == _seed_required \o Script(s)
    IN  [i \in DOMAIN items |-> Play(s, items[i])] \o <<Finalize(s, 0)>>

\* report_scenario: a ledger that exists is reported as it is.
ReportCalls(s, aged) == IF sandbox[s] = <<>> THEN <<Prepare(s)>> ELSE <<Finalize(s, aged)>>

\* verify_scenario, verify_all_scenarios
VerifyCalls(s) == <<Prepare(s), Verify(s)>>
run_all_scenarios == [k \in DOMAIN scenario_ids |-> Prepare(scenario_ids[k])]
verify_all_scenarios ==
    [k \in 1..(2 * Len(scenario_ids)) |->
        IF k % 2 = 1 THEN Prepare(scenario_ids[(k + 1) \div 2])
        ELSE Verify(scenario_ids[k \div 2])]

UsedBy(p) == {todo[p][i].scenario :
                i \in {i \in DOMAIN todo[p] : "scenario" \in DOMAIN todo[p][i]}}
Unused(s) == \A p \in Procs : s \notin UsedBy(p)

RunScenario(p, s)    == Unused(s) /\ Begin(p, "run", <<Prepare(s)>>)
ReportScenario(p, s) ==
    /\ Unused(s)
    /\ \E aged \in {0, Len(sandbox[s])} : Begin(p, "report", ReportCalls(s, aged))
VerifyScenario(p, s) == Unused(s) /\ Begin(p, "verify", VerifyCalls(s))
RunAll(p) == (\A s \in Scenarios : Unused(s)) /\ Begin(p, "run-all", run_all_scenarios)
VerifyAll(p) == (\A s \in Scenarios : Unused(s)) /\ Begin(p, "verify-all", verify_all_scenarios)
RunExperiment(p) == Begin(p, "experiment", <<Appending(ExperimentRan)>>)
PresentSamples(p) == Begin(p, "samples", <<[do |-> "present"]>>)

\* A rater submits a judgment of a sample they have read.
SubmitRating(p) ==
    \E r \in Raters, label \in Labels, judgment \in Judgments :
        /\ sheet[r] # 0
        /\ Begin(p, "submit", <<[do |-> "rate", rater |-> r, label |-> label,
                                 judgment |-> judgment, read |-> sheet[r]]>>)

-----------------------------------------------------------------------------
(* Scenarios.                                                              *)

\* Mutant: the ledger of an earlier run is kept.
prepare_over(p) ==
    /\ Called(p, "prepare")
    /\ Return(p, TRUE, PlayCalls(Call(p).scenario))
    /\ UNCHANGED <<sandboxes, sheet>>

(* run_scenario unlinks the ledger of an earlier run, and its lock.        *)
prepare(p) ==
    /\ Called(p, "prepare")
    /\ sandbox' = [sandbox EXCEPT ![Call(p).scenario] = <<>>]
    /\ Return(p, TRUE, PlayCalls(Call(p).scenario))
    /\ UNCHANGED <<results, verdicts, sheet>>

put(p) ==
    /\ Called(p, "put")
    /\ sandbox' = [sandbox EXCEPT ![Call(p).scenario] = @ \o Call(p).events]
    /\ Return(p, TRUE, <<>>)
    /\ UNCHANGED <<results, verdicts, sheet>>

record_claim_if_changed(p) ==
    /\ Called(p, "claim")
    /\ sandbox' = [sandbox EXCEPT ![Call(p).scenario] = Recorded(@, TRUE, 0)]
    /\ Return(p, TRUE, <<>>)
    /\ UNCHANGED <<results, verdicts, sheet>>

emit(p) ==
    /\ Called(p, "emit")
    /\ sandbox' = [sandbox EXCEPT ![Call(p).scenario] =
                      Append(@, Gated(derive_current_claim(@, TRUE, 0), Call(p).identity))]
    /\ Return(p, TRUE, <<>>)
    /\ UNCHANGED <<results, verdicts, sheet>>

complete_recovery_audit(p) ==
    /\ Called(p, "close")
    /\ LET s == Call(p).scenario
           events == Closing(sandbox[s])
       IN  Return(p, TRUE, [i \in DOMAIN events |-> Play(s, Put(<<events[i]>>))])
    /\ UNCHANGED <<sandboxes, sheet>>

_finalize(p) ==
    /\ Called(p, "finalize")
    /\ LET s == Call(p).scenario IN
       results' = [results EXCEPT ![s] = Summary(sandbox[s], TRUE, Call(p).aged)]
    /\ Return(p, TRUE, <<>>)
    /\ UNCHANGED <<sandbox, verdicts, sheet>>

verify(p) ==
    /\ Called(p, "verify")
    /\ LET s == Call(p).scenario IN
       verdicts' = [verdicts EXCEPT ![s] =
           IF _verify_expectations(s, results[s], sandbox[s]) THEN "passed" ELSE "failed"]
    /\ Return(p, TRUE, <<>>)
    /\ UNCHANGED <<sandbox, results, sheet>>

-----------------------------------------------------------------------------
(* Ratings.                                                                *)

(* The labels are dealt to the conditions, and some raters are shown the   *)
(* samples.                                                                *)
present_blinded_samples(p) ==
    /\ Called(p, "present")
    /\ \E mapping \in Bijection(Labels, Samples) : log' = Append(log, Presented(mapping))
    /\ \E readers \in SUBSET Raters :
        sheet' = [r \in Raters |-> IF r \in readers THEN Len(log') ELSE sheet[r]]
    /\ todo' = [todo EXCEPT ![p] = Idle]
    /\ UNCHANGED <<started, overlap, killed, sandboxes>>

(* The judgment goes to the condition that the label stood for last.       *)
record_rating(p) ==
    /\ Called(p, "rate")
    /\ LET call == Call(p)
           latest == LatestPresentation(log)
       IN  Return(p, latest # 0,
               <<Appending(Rated(log[latest].mapping[call.label], call.rater, call.judgment,
                                 call.label, call.read))>>)
    /\ UNCHANGED <<sandboxes, sheet>>

AppendRecord(p) == AppendEvent(p) /\ UNCHANGED <<sandboxes, sheet>>
Killed(p) == Crash(p) /\ UNCHANGED <<sandboxes, sheet>>

-----------------------------------------------------------------------------
Init ==
    /\ HandlersInit
    /\ sandbox = [s \in Scenarios |-> <<>>]
    /\ results = [s \in Scenarios |-> NoResult]
    /\ verdicts = [s \in Scenarios |-> "none"]
    /\ sheet = [r \in Raters |-> 0]

StartCommand(p) ==
    /\ \/ \E s \in Scenarios : RunScenario(p, s) \/ ReportScenario(p, s) \/ VerifyScenario(p, s)
       \/ RunAll(p) \/ VerifyAll(p) \/ RunExperiment(p) \/ PresentSamples(p) \/ SubmitRating(p)
    /\ UNCHANGED <<sandboxes, sheet>>

Step(p) ==
    \/ prepare(p) \/ put(p) \/ record_claim_if_changed(p) \/ emit(p)
    \/ complete_recovery_audit(p) \/ _finalize(p) \/ verify(p)
    \/ present_blinded_samples(p) \/ record_rating(p) \/ AppendRecord(p)

Next == \E p \in Procs : StartCommand(p) \/ Step(p) \/ Killed(p)

Spec == Init /\ [][Next]_vars

-----------------------------------------------------------------------------
(* Whatever runs were killed half-way before it, and whatever their        *)
(* ledgers and results have been left in, a verification finds the         *)
(* scenario as its definition expects it, and the experiment finds each    *)
(* condition with the claim, the gate mode and the certification that are  *)
(* expected of it (scripts/regression_check.py).                           *)
TrialsMeetExpectations ==
    /\ \A s \in Scenarios : verdicts[s] # "failed"
    /\ \A i \in Positions(log, "direct_continuity_experiment.ran") :
        log[i].passed = Conditions

(* While nobody was shown other samples between a rater's reading and      *)
(* their rating, the score is about what the raters read: a condition that *)
(* is not certifiable counts as accepted, and the control as rejected, by  *)
(* the last judgment that some rater gave of its sample; and a condition   *)
(* is detected if it was judged different and by nobody, in the end, the   *)
(* same (output_only_rating.py: score_output_only_arm).                    *)
Meant(i) == log[log[i].read].mapping[log[i].label]
LastWord(i) ==
    \A j \in Ratings(log) : j > i => ~(log[j].rater = log[i].rater /\ Meant(j) = Meant(i))
ScoresFollowReaders ==
    (\A i \in Ratings(log) :
        ~\E j \in (log[i].read + 1)..(i - 1) : log[j].type = "output_only_rating.presented")
    =>
    LET score == score_output_only_arm(log)
        finally(judgment) ==
            {Meant(i) : i \in {i \in Ratings(log) : log[i].judgment = judgment /\ LastWord(i)}}
    IN  /\ score.accepted = finally("same") \ {"control"}
        /\ score.rejected = finally("different") \cap {"control"}
        /\ score.detected = (finally("different") \ finally("same"))
                            \cup (finally("different") \cap {"control"})
=============================================================================
