----------------------------- MODULE TrialsProofs -----------------------------
(***************************************************************************)
(* Theorems about Trials, for any processes, raters and samples, and any   *)
(* ledger to start from that earlier commands may have left: the score of  *)
(* the blinded ratings is about what the raters read.                      *)
(*                                                                         *)
(* A rating is submitted of a presentation its rater has read, and gets    *)
(* the condition that its label stands for in the presentation that is the *)
(* latest one when the command looks; it reaches the ledger later still.   *)
(* So every rating, in the ledger or yet to be appended, is Founded on the *)
(* presentations before it, and if none of them came after the reading     *)
(* then its condition is the one the rater meant.                          *)
(***************************************************************************)
EXTENDS Trials, FoldLemmas, TLAPS

-----------------------------------------------------------------------------
(* Ratings and presentations.                                              *)

LEMMA PositionsOf ==
    ASSUME NEW evs \in Seq(Event), NEW type
    PROVE  Positions(evs, type) = {i \in 1..Len(evs) : evs[i].type = type}
BY DEF Positions

LEMMA PresentationFields ==
    ASSUME NEW evs \in Seq(Event), NEW i \in Presentations(evs)
    PROVE  i \in 1..Len(evs) /\ evs[i].mapping \in [Labels -> Samples]
<1>1. i \in 1..Len(evs) /\ evs[i] \in Event /\ evs[i].type = "output_only_rating.presented"
    BY PositionsOf DEF Presentations
<1>2. evs[i].mapping \in Bijection(Labels, Samples)
    BY <1>1 DEF Event
<1>3. QED BY <1>1, <1>2 DEF Bijection, Injection

LEMMA RatingFields ==
    ASSUME NEW e \in Event, e.type = "output_only_rating.recorded"
    PROVE  /\ e.condition \in Samples /\ e.rater \in Raters /\ e.judgment \in Judgments
           /\ e.label \in Labels /\ e.read \in Nat
BY DEF Event

LEMMA LatestIsPresentation ==
    ASSUME NEW evs \in Seq(Event), LatestPresentation(evs) # 0
    PROVE  /\ LatestPresentation(evs) \in Presentations(evs)
           /\ \A i \in Presentations(evs) : i <= LatestPresentation(evs)
<1> DEFINE S == {i \in 1..Len(evs) : evs[i].type = "output_only_rating.presented"}
<1>1. S = Presentations(evs) /\ S \in SUBSET (0..Len(evs)) /\ Len(evs) \in Nat
    <2>1. \A i \in S : i \in 0..Len(evs)
        OBVIOUS
    <2>2. QED BY <2>1, PositionsOf DEF Presentations
<1>2. LatestPresentation(evs) = IF S # {} THEN Max(S) ELSE 0
    BY DEF LatestPresentation, SelectLastInSeq
<1> HIDE DEF S
<1>3. S # {} /\ LatestPresentation(evs) = Max(S)
    BY <1>2
<1>4. QED BY <1>1, <1>3, MaxIsGreatest

LEMMA FoundedGrows ==
    ASSUME NEW evs \in Seq(Event), NEW e
    PROVE  /\ Presentations(evs) \subseteq Presentations(Append(evs, e))
           /\ \A rating : Founded(evs, rating) => Founded(Append(evs, e), rating)
<1>1. evs \in Seq(Event \cup {e}) /\ Append(evs, e) \in Seq(Event \cup {e})
    OBVIOUS
<1>2. ASSUME NEW i \in Presentations(evs)
      PROVE  i \in Presentations(Append(evs, e)) /\ Append(evs, e)[i] = evs[i]
    BY <1>1, <1>2 DEF Presentations, Positions
<1>3. QED BY <1>2 DEF Founded

LEMMA OpeningGrows ==
    ASSUME NEW evs, Opening(evs), NEW e \in Event,
           e.type = "output_only_rating.recorded" => Founded(evs, e)
    PROVE  Opening(Append(evs, e))
<1> DEFINE more == Append(evs, e)
<1>1. evs \in Seq(Event) /\ more \in Seq(Event) /\ Len(more) = Len(evs) + 1 /\ Len(evs) \in Nat
    BY DEF Opening
<1>2. IsSequence(evs)
    BY <1>1 DEF IsSequence
<1>3. ASSUME NEW i \in Ratings(more) PROVE Founded(SubSeq(more, 1, i - 1), more[i])
    <2>1. i \in 1..Len(more) /\ more[i].type = "output_only_rating.recorded"
        BY <1>1, PositionsOf DEF Ratings
    <2>2. CASE i \in 1..Len(evs)
        <3>1. more[i] = evs[i] /\ SubSeq(more, 1, i - 1) = SubSeq(evs, 1, i - 1)
            BY <1>2, <2>2, Appended, PrefixStays DEF UpTo
        <3>2. i \in Ratings(evs)
            BY <1>1, <2>1, <2>2, <3>1, PositionsOf DEF Ratings
        <3>3. QED BY <3>1, <3>2 DEF Opening
    <2>3. CASE i = Len(evs) + 1
        <3>1. more[i] = e /\ SubSeq(more, 1, i - 1) = evs
            BY <1>2, <2>3, Appended, PrefixStays DEF UpTo
        <3>2. QED BY <2>1, <3>1
    <2>4. QED BY <1>1, <2>1, <2>2, <2>3
<1>4. QED BY <1>1, <1>3 DEF Opening

-----------------------------------------------------------------------------
(* The invariant: what handlers hold is founded as well.                   *)

CallFounded(evs, c) ==
    /\ c.do = "append" =>
        /\ c.event \in Event
        /\ c.event.type = "output_only_rating.recorded" => Founded(evs, c.event)
    /\ c.do = "rate" =>
        /\ c.rater \in Raters /\ c.label \in Labels /\ c.judgment \in Judgments
        /\ c.read \in Presentations(evs)
    /\ c.do = "prepare" => c.scenario \in Scenarios

AllFounded(evs, calls) ==
    IsSequence(calls) /\ \A k \in 1..Len(calls) : CallFounded(evs, calls[k])

Inv ==
    /\ Opening(log)
    /\ todo = [p \in Procs |-> todo[p]]
    /\ \A p \in Procs : AllFounded(log, todo[p])
    /\ \A r \in Raters : sheet[r] = 0 \/ sheet[r] \in Presentations(log)

LEMMA CallsStayFounded ==
    ASSUME NEW evs \in Seq(Event), NEW e, NEW calls, AllFounded(evs, calls)
    PROVE  AllFounded(Append(evs, e), calls)
<1>1. ASSUME NEW c, CallFounded(evs, c) PROVE CallFounded(Append(evs, e), c)
    BY <1>1, FoundedGrows DEF CallFounded
<1>2. QED BY <1>1 DEF AllFounded

LEMMA JoinedFounded ==
    ASSUME NEW evs, NEW s, NEW t, AllFounded(evs, s), AllFounded(evs, t)
    PROVE  AllFounded(evs, s \o t)
<1>1. IsSequence(s) /\ IsSequence(t)
    BY DEF AllFounded
<1>2. ASSUME NEW k \in 1..Len(s \o t) PROVE CallFounded(evs, (s \o t)[k])
    <2>1. CASE k \in 1..Len(s)
        BY <1>1, <2>1, Concatenated DEF AllFounded
    <2>2. CASE k \in Len(s) + 1..Len(s \o t)
        BY <1>1, <2>2, Concatenated DEF AllFounded
    <2>3. QED BY <1>1, <2>1, <2>2, Concatenated
<1>3. QED BY <1>1, <1>2, Concatenated DEF AllFounded

LEMMA OneFounded ==
    ASSUME NEW evs, NEW c, CallFounded(evs, c)
    PROVE  AllFounded(evs, <<c>>)
<1>1. IsSequence(<<c>>) /\ Len(<<c>>) = 1 /\ <<c>>[1] = c
    BY OneElement
<1>2. QED BY <1>1 DEF AllFounded

LEMMA NoneFounded == ASSUME NEW evs PROVE AllFounded(evs, <<>>)
BY NoElement DEF AllFounded

LEMMA RestFounded ==
    ASSUME NEW evs, NEW s, AllFounded(evs, s), s # <<>>
    PROVE  AllFounded(evs, Tail(s)) /\ CallFounded(evs, Head(s))
<1>1. IsSequence(s)
    BY DEF AllFounded
<1>2. QED BY <1>1, HeadAndTail DEF AllFounded

-----------------------------------------------------------------------------
(* What the scenarios append stays in their sandboxes.                     *)

Playable(item) == "do" \in DOMAIN item /\ item.do \in {"put", "claim", "emit", "close"}
Played(items) == IsSequence(items) /\ \A k \in 1..Len(items) : Playable(items[k])

LEMMA PlayedItem ==
    ASSUME NEW s, NEW item, Playable(item), NEW evs
    PROVE  CallFounded(evs, Play(s, item))
<1>1. Play(s, item).do = item.do
    BY DEF Play, Playable
<1>2. QED BY <1>1 DEF CallFounded, Playable

LEMMA PlayedCalls ==
    ASSUME NEW items, Played(items), NEW s, NEW evs
    PROVE  AllFounded(evs, [i \in DOMAIN items |-> Play(s, items[i])])
<1> DEFINE calls == [i \in DOMAIN items |-> Play(s, items[i])]
<1>1. PICK S : items \in Seq(S)
    BY DEF Played, IsSequence
<1>2. DOMAIN items = 1..Len(items) /\ Len(items) \in Nat
    BY <1>1
<1>3. \A k \in 1..Len(items) : CallFounded(evs, calls[k])
    BY <1>2, PlayedItem DEF Played
<1>4. calls = [k \in 1..Len(items) |-> calls[k]]
    BY <1>2
<1> HIDE DEF calls
<1>5. IsSequence(calls) /\ Len(calls) = Len(items)
    BY <1>2, <1>4, BuiltCalls
<1>6. AllFounded(evs, calls)
    BY <1>3, <1>5 DEF AllFounded
<1>7. QED BY <1>6 DEF calls

LEMMA PlayedJoined ==
    ASSUME NEW s, NEW t, Played(s), Played(t)
    PROVE  Played(s \o t)
<1>1. IsSequence(s) /\ IsSequence(t)
    BY DEF Played
<1>2. ASSUME NEW k \in 1..Len(s \o t) PROVE Playable((s \o t)[k])
    <2>1. CASE k \in 1..Len(s)
        BY <1>1, <2>1, Concatenated DEF Played
    <2>2. CASE k \in Len(s) + 1..Len(s \o t)
        BY <1>1, <2>2, Concatenated DEF Played
    <2>3. QED BY <1>1, <2>1, <2>2, Concatenated
<1>3. QED BY <1>1, <1>2, Concatenated DEF Played

LEMMA Items ==
    /\ \A events : Playable(Put(events))
    /\ \A identity : Playable(Emit(identity))
    /\ \A action : Playable(Put(<<AuthorizationChecked(action, "allowed")>>))
    /\ Playable(Claim_) /\ Playable(Close)
<1>1. \A events : Playable(Put(events))
    BY DEF Playable, Put
<1>2. \A identity : Playable(Emit(identity))
    BY DEF Playable, Emit
<1>3. QED BY <1>1, <1>2 DEF Playable, Claim_, Close

LEMMA PlayedOne == ASSUME NEW a, Playable(a) PROVE Played(<<a>>)
BY OneElement DEF Played

LEMMA PlayedTwo == ASSUME NEW a, NEW b, Playable(a), Playable(b) PROVE Played(<<a, b>>)
<1>1. IsSequence(<<a, b>>) /\ Len(<<a, b>>) = 2 /\ <<a, b>>[1] = a /\ <<a, b>>[2] = b
    BY TwoElements
<1>2. QED BY <1>1 DEF Played

LEMMA PlayedThree ==
    ASSUME NEW a, NEW b, NEW c, Playable(a), Playable(b), Playable(c)
    PROVE  Played(<<a, b, c>>)
<1>1. <<a, b, c>> = <<a, b>> \o <<c>>
    OBVIOUS
<1>2. QED BY <1>1, PlayedOne, PlayedTwo, PlayedJoined

LEMMA PlayedFour ==
    ASSUME NEW a, NEW b, NEW c, NEW d, Playable(a), Playable(b), Playable(c), Playable(d)
    PROVE  Played(<<a, b, c, d>>)
<1>1. <<a, b, c, d>> = <<a, b>> \o <<c, d>>
    OBVIOUS
<1>2. QED BY <1>1, PlayedTwo, PlayedJoined

LEMMA PlayedScript == ASSUME NEW s \in Scenarios PROVE Played(Script(s))
<1>1. \A action : Playable(_authorize_event(action))
    BY Items DEF _authorize_event
<1>2. Played(_scenario_csm_red_continuity_break)
    BY Items, PlayedThree DEF _scenario_csm_red_continuity_break
<1>3. Played(_open_recovery)
    BY <1>1, Items, PlayedFour DEF _open_recovery
<1>4. Played(_complete_recovery_audit)
    BY Items, PlayedTwo DEF _complete_recovery_audit
<1>5. Played(_override_substrate_migration)
    <2> DEFINE first == Put(<<TransformEvaluated("substrate_migration", "deny")>>)
               second == _authorize_event("override")
               third == Put(<<Overridden>>)
               fourth == Put(<<Followup("post_migration_identity_audit")>>)
               fifth == Put(<<Followup("lineage_freeze")>>)
    <2>1. Playable(first) /\ Playable(second) /\ Playable(third) /\ Playable(fourth) /\ Playable(fifth)
        BY <1>1, Items
    <2>2. _override_substrate_migration = <<first, second, third, fourth, fifth, Claim_>>
        BY DEF _override_substrate_migration
    <2> HIDE DEF first, second, third, fourth, fifth
    <2>3. <<first, second, third, fourth, fifth, Claim_>>
              = <<first, second, third>> \o <<fourth, fifth, Claim_>>
        OBVIOUS
    <2>4. Played(<<first, second, third>>) /\ Played(<<fourth, fifth, Claim_>>)
        BY <2>1, Items, PlayedThree
    <2>5. QED BY <2>2, <2>3, <2>4, PlayedJoined
<1>6. Played(<<Emit(TRUE)>>) /\ Played(<<Emit(FALSE)>>)
    BY Items, PlayedOne
<1>7. CASE s \in {"memory_compaction_review", "csm_amber_degradation", "fork_declared"}
    <2>1. \E events, identity : Script(s) = <<Put(events), Claim_, Emit(identity)>>
        BY <1>7 DEF Script
    <2>2. QED BY <2>1, Items, PlayedThree
<1>8. CASE s = "substrate_migration_override"
    <2>1. Script(s) = _override_substrate_migration \o <<Emit(TRUE)>>
        BY <1>8 DEF Script
    <2>2. QED BY <1>5, <1>6, <2>1, PlayedJoined
<1>9. CASE s = "csm_red_continuity_break"
    <2>1. Script(s) = _scenario_csm_red_continuity_break
        BY <1>9 DEF Script
    <2>2. QED BY <1>2, <2>1
<1>10. CASE s \in {"recovery_opened", "recovery_audit_completed"}
    <2>1. Played(_scenario_csm_red_continuity_break \o _open_recovery)
        BY <1>2, <1>3, PlayedJoined
    <2>2. Played((_scenario_csm_red_continuity_break \o _open_recovery) \o _complete_recovery_audit)
        BY <1>4, <2>1, PlayedJoined
    <2>3. Played(((_scenario_csm_red_continuity_break \o _open_recovery) \o _complete_recovery_audit)
                 \o <<Emit(FALSE)>>)
        BY <1>6, <2>2, PlayedJoined
    <2>4. QED BY <1>10, <2>1, <2>3 DEF Script
<1>11. QED BY <1>7, <1>8, <1>9, <1>10 DEF Scenarios, scenario_ids

LEMMA RunFounded ==
    ASSUME TrialsAssumption, ClaimsAssumption, NEW s \in Scenarios, NEW evs
    PROVE  AllFounded(evs, PlayCalls(s))
<1> DEFINE seeds == [i \in DOMAIN RequiredConstraints |-> Put(<<Checked(RequiredConstraints[i])>>)]
           items == _seed_required \o Script(s)
<1>1. Played(seeds)
    <2>1. DOMAIN RequiredConstraints = 1..Len(RequiredConstraints) /\ Len(RequiredConstraints) \in Nat
        BY DEF ClaimsAssumption
    <2>2. /\ seeds = [k \in 1..Len(RequiredConstraints) |-> seeds[k]]
          /\ \A k \in 1..Len(RequiredConstraints) : Playable(seeds[k])
        BY <2>1, Items
    <2> HIDE DEF seeds
    <2>3. IsSequence(seeds) /\ Len(seeds) = Len(RequiredConstraints)
        BY <2>1, <2>2, BuiltCalls
    <2>4. QED BY <2>2, <2>3 DEF Played
<1>2. Played(_seed_required)
    <2>1. _seed_required = seeds \o <<Claim_>>
        BY DEF _seed_required
    <2>2. Played(<<Claim_>>)
        BY Items, PlayedOne
    <2> HIDE DEF seeds
    <2>3. QED BY <1>1, <2>1, <2>2, PlayedJoined
<1>3. Played(items)
    BY <1>2, PlayedScript, PlayedJoined
<1>4. CallFounded(evs, Finalize(s, 0))
    BY DEF CallFounded, Finalize
<1>5. PlayCalls(s) = [i \in DOMAIN items |-> Play(s, items[i])] \o <<Finalize(s, 0)>>
    BY DEF PlayCalls
<1> HIDE DEF items
<1>6. AllFounded(evs, [i \in DOMAIN items |-> Play(s, items[i])])
    BY <1>3, PlayedCalls
<1>7. QED BY <1>4, <1>5, <1>6, OneFounded, JoinedFounded

-----------------------------------------------------------------------------
(* The steps.                                                              *)

LEMMA Began ==
    ASSUME Inv, NEW p \in Procs, NEW calls, AllFounded(log, calls),
           UNCHANGED <<log, sheet>>, todo' = [todo EXCEPT ![p] = calls]
    PROVE  Inv'
BY DEF Inv

LEMMA Returned ==
    ASSUME Inv, NEW p \in Procs, todo[p] # Idle, NEW allowed, NEW next, AllFounded(log, next),
           Return(p, allowed, next), UNCHANGED sheet
    PROVE  Inv'
<1> DEFINE calls == IF allowed THEN next \o Tail(todo[p]) ELSE Idle
<1>1. AllFounded(log, Tail(todo[p]))
    BY RestFounded DEF Inv, Idle
<1>2. AllFounded(log, calls)
    BY <1>1, JoinedFounded, NoneFounded DEF Idle
<1>3. todo' = [todo EXCEPT ![p] = calls] /\ UNCHANGED <<log, sheet>>
    BY DEF Return
<1> HIDE DEF calls
<1>4. QED BY <1>2, <1>3, Began

LEMMA EventAppended ==
    ASSUME Inv, NEW p \in Procs, NEW e \in Event, log' = Append(log, e),
           e.type = "output_only_rating.recorded" => Founded(log, e),
           NEW calls, AllFounded(log, calls), todo' = [todo EXCEPT ![p] = calls],
           \A r \in Raters : sheet'[r] = sheet[r] \/ sheet'[r] \in Presentations(log')
    PROVE  Inv'
<1>1. log \in Seq(Event) /\ Opening(log)
    BY DEF Inv, Opening
<1>2. Opening(log')
    BY <1>1, OpeningGrows
<1>3. ASSUME NEW some, AllFounded(log, some) PROVE AllFounded(log', some)
    BY <1>1, <1>3, CallsStayFounded
<1>4. todo' = [q \in Procs |-> todo'[q]] /\ \A q \in Procs : AllFounded(log', todo'[q])
    BY <1>3 DEF Inv
<1>5. \A r \in Raters : sheet'[r] = 0 \/ sheet'[r] \in Presentations(log')
    BY <1>1, FoundedGrows DEF Inv
<1>6. QED BY <1>2, <1>4, <1>5 DEF Inv

LEMMA StartPreserves ==
    ASSUME TrialsAssumption, Inv, NEW p \in Procs, StartCommand(p)
    PROVE  Inv'
<1>1. ASSUME NEW command, NEW calls, Begin(p, command, calls), AllFounded(log, calls) PROVE Inv'
    BY <1>1, Began DEF Begin, BeginCalls, StartCommand
<1>2. ASSUME NEW s \in Scenarios, NEW evs
      PROVE  /\ CallFounded(evs, Prepare(s)) /\ CallFounded(evs, Verify(s))
             /\ \A aged : CallFounded(evs, Finalize(s, aged))
    BY DEF CallFounded, Prepare, Verify, Finalize
<1>3. ASSUME NEW s \in Scenarios, RunScenario(p, s) PROVE Inv'
    BY <1>1, <1>2, <1>3, OneFounded DEF RunScenario
<1>4. ASSUME NEW s \in Scenarios, ReportScenario(p, s) PROVE Inv'
    <2>1. PICK aged : Begin(p, "report", ReportCalls(s, aged))
        BY <1>4 DEF ReportScenario
    <2>2. AllFounded(log, ReportCalls(s, aged))
        BY <1>2, OneFounded DEF ReportCalls
    <2>3. QED BY <1>1, <2>1, <2>2
<1>5. ASSUME NEW s \in Scenarios, VerifyScenario(p, s) PROVE Inv'
    <2>1. VerifyCalls(s) = <<Prepare(s)>> \o <<Verify(s)>>
        BY DEF VerifyCalls
    <2>2. AllFounded(log, VerifyCalls(s))
        BY <1>2, <2>1, OneFounded, JoinedFounded
    <2>3. QED BY <1>1, <1>5, <2>2 DEF VerifyScenario
<1>6. Len(scenario_ids) = 7 /\ DOMAIN scenario_ids = 1..7 /\ \A k \in 1..7 : scenario_ids[k] \in Scenarios
    <2>1. Len(scenario_ids) = 7 /\ DOMAIN scenario_ids = 1..7
        BY DEF scenario_ids
    <2>2. QED BY <2>1 DEF Scenarios
<1>7. CASE RunAll(p)
    <2> DEFINE calls == run_all_scenarios
    <2>1. calls = [k \in 1..7 |-> calls[k]] /\ \A k \in 1..7 : CallFounded(log, calls[k])
        BY <1>2, <1>6 DEF run_all_scenarios
    <2> HIDE DEF calls
    <2>2. AllFounded(log, calls)
        BY <2>1, BuiltCalls DEF AllFounded
    <2>3. QED BY <1>1, <1>7, <2>2 DEF RunAll, calls
<1>8. CASE VerifyAll(p)
    <2> DEFINE calls == verify_all_scenarios
    <2>1. ASSUME NEW k \in 1..14 PROVE CallFounded(log, calls[k])
        <3>1. CASE k % 2 = 1
            <4>1. (k + 1) \div 2 \in 1..7
                OBVIOUS
            <4>2. calls[k] = Prepare(scenario_ids[(k + 1) \div 2])
                BY <1>6, <3>1 DEF verify_all_scenarios
            <4>3. QED BY <1>2, <1>6, <4>1, <4>2
        <3>2. CASE k % 2 # 1
            <4>1. k \div 2 \in 1..7
                BY <3>2
            <4>2. calls[k] = Verify(scenario_ids[k \div 2])
                BY <1>6, <3>2 DEF verify_all_scenarios
            <4>3. QED BY <1>2, <1>6, <4>1, <4>2
        <3>3. QED BY <3>1, <3>2
    <2>2. calls = [k \in 1..14 |-> calls[k]]
        BY <1>6 DEF verify_all_scenarios
    <2> HIDE DEF calls
    <2>3. AllFounded(log, calls)
        BY <2>1, <2>2, BuiltCalls DEF AllFounded
    <2>4. QED BY <1>1, <1>8, <2>3 DEF VerifyAll, calls
<1>9. CASE RunExperiment(p)
    <2>1. ExperimentRan \in Event /\ ExperimentRan.type # "output_only_rating.recorded"
        BY DEF ExperimentRan, Event
    <2>2. CallFounded(log, Appending(ExperimentRan))
        BY <2>1 DEF CallFounded, Appending
    <2>3. QED BY <1>1, <1>9, <2>2, OneFounded DEF RunExperiment
<1>10. CASE PresentSamples(p)
    <2>1. CallFounded(log, [do |-> "present"])
        BY DEF CallFounded
    <2>2. QED BY <1>1, <1>10, <2>1, OneFounded DEF PresentSamples
<1>11. CASE SubmitRating(p)
    <2>1. PICK r \in Raters, label \in Labels, judgment \in Judgments :
            /\ sheet[r] # 0
            /\ Begin(p, "submit", <<[do |-> "rate", rater |-> r, label |-> label,
                                     judgment |-> judgment, read |-> sheet[r]]>>)
        BY <1>11 DEF SubmitRating
    <2>2. sheet[r] \in Presentations(log)
        BY <2>1 DEF Inv
    <2>3. CallFounded(log, [do |-> "rate", rater |-> r, label |-> label,
                            judgment |-> judgment, read |-> sheet[r]])
        BY <2>2 DEF CallFounded
    <2>4. QED BY <1>1, <2>1, <2>3, OneFounded
<1>12. QED
    BY <1>3, <1>4, <1>5, <1>7, <1>8, <1>9, <1>10, <1>11 DEF StartCommand

LEMMA RatingFounded ==
    ASSUME Inv, NEW c, CallFounded(log, c), c.do = "rate", LatestPresentation(log) # 0
    PROVE  CallFounded(log, Appending(Rated(log[LatestPresentation(log)].mapping[c.label],
                                            c.rater, c.judgment, c.label, c.read)))
<1> DEFINE latest == LatestPresentation(log)
           e == Rated(log[latest].mapping[c.label], c.rater, c.judgment, c.label, c.read)
<1>1. log \in Seq(Event)
    BY DEF Inv, Opening
<1>2. latest \in Presentations(log) /\ \A i \in Presentations(log) : i <= latest
    BY <1>1, LatestIsPresentation
<1>3. /\ c.rater \in Raters /\ c.label \in Labels /\ c.judgment \in Judgments
      /\ c.read \in Presentations(log) /\ c.read \in Nat
    BY <1>1, PresentationFields DEF CallFounded
<1>4. log[latest].mapping[c.label] \in Samples
    BY <1>1, <1>2, <1>3, PresentationFields
<1>5. e \in Event
    BY <1>3, <1>4 DEF Event, Rated
<1>6. e.read = c.read /\ e.label = c.label /\ e.condition = log[latest].mapping[c.label]
    BY DEF Rated
<1>7. latest >= c.read
    BY <1>1, <1>2, <1>3, PresentationFields
<1>8. Founded(log, e)
    BY <1>2, <1>3, <1>6, <1>7 DEF Founded
<1> HIDE DEF e
<1>9. CallFounded(log, Appending(e))
    BY <1>5, <1>8 DEF CallFounded, Appending
<1>10. QED BY <1>9 DEF e

LEMMA StepPreserves ==
    ASSUME TrialsAssumption, ClaimsAssumption, Inv, NEW p \in Procs, Step(p)
    PROVE  Inv'
<1>1. CASE prepare(p)
    <2>1. todo[p] # Idle /\ Call(p).do = "prepare" /\ Return(p, TRUE, PlayCalls(Call(p).scenario))
          /\ UNCHANGED sheet
        BY <1>1 DEF prepare, Called, Call
    <2>2. CallFounded(log, Call(p))
        BY <2>1, RestFounded DEF Inv, Idle, Call
    <2>3. QED BY <2>1, <2>2, RunFounded, Returned DEF CallFounded
<1>2. CASE put(p) \/ record_claim_if_changed(p) \/ emit(p) \/ _finalize(p) \/ verify(p)
    <2>1. todo[p] # Idle /\ Return(p, TRUE, <<>>) /\ UNCHANGED sheet
        BY <1>2 DEF put, record_claim_if_changed, emit, _finalize, verify, Called
    <2>2. QED BY <2>1, NoneFounded, Returned
<1>3. CASE complete_recovery_audit(p)
    <2> DEFINE s == Call(p).scenario
               events == Closing(sandbox[s])
               items == [i \in DOMAIN events |-> Put(<<events[i]>>)]
               calls == [i \in DOMAIN items |-> Play(s, items[i])]
    <2>1. todo[p] # Idle /\ UNCHANGED sheet
          /\ Return(p, TRUE, [i \in DOMAIN events |-> Play(s, Put(<<events[i]>>))])
        BY <1>3 DEF complete_recovery_audit, Called
    <2>2. DOMAIN events = 1..3
        BY DEF Closing
    <2> HIDE DEF events
    <2>3. items = [k \in 1..3 |-> items[k]] /\ \A k \in 1..3 : Playable(items[k])
        BY <2>2, Items
    <2>4. [i \in DOMAIN events |-> Play(s, Put(<<events[i]>>))] = calls
        BY <2>2
    <2> HIDE DEF items, s
    <2>5. Played(items)
        BY <2>3, BuiltCalls DEF Played
    <2>6. AllFounded(log, calls)
        BY <2>5, PlayedCalls
    <2> HIDE DEF calls
    <2>7. QED BY <2>1, <2>4, <2>6, Returned
<1>4. CASE present_blinded_samples(p)
    <2>1. PICK mapping \in Bijection(Labels, Samples) : log' = Append(log, Presented(mapping))
        BY <1>4 DEF present_blinded_samples
    <2>2. PICK readers \in SUBSET Raters :
            sheet' = [r \in Raters |-> IF r \in readers THEN Len(log') ELSE sheet[r]]
        BY <1>4 DEF present_blinded_samples
    <2> DEFINE e == Presented(mapping)
    <2>3. e \in Event /\ e.type = "output_only_rating.presented"
        BY DEF Event, Presented
    <2>4. log \in Seq(Event) /\ log' = Append(log, e) /\ todo' = [todo EXCEPT ![p] = Idle]
        BY <1>4, <2>1 DEF Inv, Opening, present_blinded_samples
    <2> HIDE DEF e
    <2>5. log' \in Seq(Event) /\ Len(log') \in 1..Len(log') /\ log'[Len(log')] = e
        BY <2>3, <2>4
    <2>6. Len(log') \in Presentations(log')
        BY <2>3, <2>5 DEF Presentations, Positions
    <2>7. \A r \in Raters : sheet'[r] = sheet[r] \/ sheet'[r] \in Presentations(log')
        BY <2>2, <2>6
    <2>8. QED BY <2>3, <2>4, <2>7, NoneFounded, EventAppended DEF Idle
<1>5. CASE record_rating(p)
    <2> DEFINE latest == LatestPresentation(log)
               next == Appending(Rated(log[latest].mapping[Call(p).label], Call(p).rater,
                                       Call(p).judgment, Call(p).label, Call(p).read))
    <2>1. /\ todo[p] # Idle /\ Call(p).do = "rate" /\ UNCHANGED sheet
          /\ Return(p, latest # 0, <<next>>)
        BY <1>5 DEF record_rating, Called, Call
    <2>2. CallFounded(log, Call(p))
        BY <2>1, RestFounded DEF Inv, Idle, Call
    <2>3. CASE latest # 0
        <3>1. AllFounded(log, <<next>>)
            BY <2>1, <2>2, <2>3, RatingFounded, OneFounded
        <3> HIDE DEF next
        <3>2. QED BY <2>1, <3>1, Returned
    <2>4. CASE latest = 0
        <3>1. todo' = [todo EXCEPT ![p] = Idle] /\ UNCHANGED <<log, sheet>>
            BY <2>1, <2>4 DEF Return
        <3>2. QED BY <3>1, NoneFounded, Began DEF Idle
    <2>5. QED BY <2>3, <2>4
<1>6. CASE AppendRecord(p)
    <2>1. /\ todo[p] # Idle /\ Call(p).do = "append" /\ UNCHANGED sheet
          /\ log' = Append(log, Call(p).event) /\ todo' = [todo EXCEPT ![p] = Tail(todo[p])]
        BY <1>6 DEF AppendRecord, AppendEvent, Called, Call
    <2>2. CallFounded(log, Call(p)) /\ AllFounded(log, Tail(todo[p]))
        BY <2>1, RestFounded DEF Inv, Idle, Call
    <2>3. QED BY <2>1, <2>2, EventAppended DEF CallFounded
<1>7. QED BY <1>1, <1>2, <1>3, <1>4, <1>5, <1>6 DEF Step

LEMMA InvInit == ASSUME TrialsAssumption, Init PROVE Inv
<1>1. /\ Opening(log) /\ todo = [p \in Procs |-> Idle] /\ sheet = [r \in Raters |-> 0]
    BY DEF Init, HandlersInit, TrialsAssumption
<1>2. QED BY <1>1, NoneFounded DEF Inv, Idle

LEMMA InvStep == ASSUME TrialsAssumption, ClaimsAssumption, Inv, [Next]_vars PROVE Inv'
<1>1. ASSUME NEW p \in Procs, Killed(p) PROVE Inv'
    <2>1. todo' = [todo EXCEPT ![p] = Idle] /\ UNCHANGED <<log, sheet>>
        BY <1>1 DEF Killed, Crash
    <2>2. QED BY <2>1, NoneFounded, Began DEF Idle
<1>2. CASE UNCHANGED vars
    <2>1. log' = log /\ todo' = todo /\ sheet' = sheet
        BY <1>2 DEF vars, handlers
    <2>2. QED BY <2>1 DEF Inv
<1>3. QED BY <1>1, <1>2, StartPreserves, StepPreserves DEF Next

-----------------------------------------------------------------------------
(* The score.                                                              *)

(* Nobody was shown other samples in between: the condition is the one     *)
(* the rater meant.                                                        *)
LEMMA ConditionMeant ==
    ASSUME Opening(log), NEW i \in Ratings(log),
           ~\E j \in (log[i].read + 1)..(i - 1) : log[j].type = "output_only_rating.presented"
    PROVE  /\ log[i].condition = Meant(i) /\ i \in 1..Len(log)
           /\ log[i].condition \in Conditions
<1> DEFINE evs == SubSeq(log, 1, i - 1)
<1>1. log \in Seq(Event) /\ Founded(evs, log[i])
    BY DEF Opening
<1>2. i \in 1..Len(log) /\ log[i] \in Event /\ log[i].type = "output_only_rating.recorded"
    BY <1>1, PositionsOf DEF Ratings
<1>3. evs \in Seq(Event) /\ Len(evs) = i - 1 /\ \A k \in 1..i - 1 : evs[k] = log[k]
    BY <1>1, <1>2
<1> HIDE DEF evs
<1>4. PICK k \in Presentations(evs) :
        k >= log[i].read /\ log[i].condition = evs[k].mapping[log[i].label]
    BY <1>1 DEF Founded
<1>5. /\ k \in 1..i - 1 /\ log[k].type = "output_only_rating.presented" /\ evs[k] = log[k]
      /\ log[i].read \in 1..i - 1
    BY <1>1, <1>3, <1>4, PositionsOf DEF Presentations, Founded
<1>6. k = log[i].read
    BY <1>2, <1>4, <1>5
<1>7. log[i].condition \in Samples
    BY <1>2, RatingFields
<1>8. QED BY <1>2, <1>4, <1>5, <1>6, <1>7, TrialsAssumption DEF Meant, TrialsAssumption

LEMMA ScoreIsMeant == ASSUME Opening(log) PROVE ScoresFollowReaders
<1> SUFFICES ASSUME \A i \in Ratings(log) :
                ~\E j \in (log[i].read + 1)..(i - 1) : log[j].type = "output_only_rating.presented"
             PROVE  LET score == score_output_only_arm(log)
                        finally(judgment) ==
                            {Meant(i) : i \in {i \in Ratings(log) :
                                log[i].judgment = judgment /\ LastWord(i)}}
                    IN  /\ score.accepted = finally("same") \ {"control"}
                        /\ score.rejected = finally("different") \cap {"control"}
                        /\ score.detected = (finally("different") \ finally("same"))
                                            \cup (finally("different") \cap {"control"})
    BY DEF ScoresFollowReaders
<1> DEFINE finally(judgment) ==
               {Meant(i) : i \in {i \in Ratings(log) : log[i].judgment = judgment /\ LastWord(i)}}
           said(c, judgment) ==
               \E r \in LatestRatings(log) : r.condition = c /\ r.judgment = judgment
           accepted == {c \in Conditions : ~expected_certifiable(c) /\ said(c, "same")}
<1>1. \A i \in Ratings(log) :
        log[i].condition = Meant(i) /\ i \in 1..Len(log) /\ Meant(i) \in Conditions
    BY ConditionMeant
<1>2. ASSUME NEW i \in Ratings(log)
      PROVE  LastWord(i) <=> \A j \in Ratings(log) :
                log[j].condition = log[i].condition /\ log[j].rater = log[i].rater => j <= i
    BY <1>1 DEF LastWord
<1>3. ASSUME NEW c, NEW judgment PROVE said(c, judgment) <=> c \in finally(judgment)
    <2>1. LatestRatings(log) = {log[i] : i \in {i \in Ratings(log) : LastWord(i)}}
        BY <1>2 DEF LatestRatings
    <2>2. QED BY <1>1, <2>1
<1>4. ASSUME NEW judgment PROVE finally(judgment) \subseteq Conditions
    BY <1>1
<1>5. /\ score_output_only_arm(log).accepted = accepted
      /\ score_output_only_arm(log).rejected
             = {c \in Conditions : expected_certifiable(c) /\ said(c, "different")}
      /\ score_output_only_arm(log).detected = {c \in Conditions \ accepted : said(c, "different")}
    BY DEF score_output_only_arm
<1>6. accepted = finally("same") \ {"control"}
    <2> HIDE DEF finally, said
    <2>1. QED BY <1>3, <1>4 DEF expected_certifiable
<1>7. {c \in Conditions : expected_certifiable(c) /\ said(c, "different")}
          = finally("different") \cap {"control"}
    <2> HIDE DEF finally, said
    <2>1. QED BY <1>3, <1>4 DEF expected_certifiable
<1>8. {c \in Conditions \ accepted : said(c, "different")}
          = (finally("different") \ finally("same")) \cup (finally("different") \cap {"control"})
    <2> HIDE DEF finally, said, accepted
    <2>1. QED BY <1>3, <1>4, <1>6
<1> HIDE DEF said, accepted
<1>9. QED BY <1>5, <1>6, <1>7, <1>8

(* While nobody is shown other samples between a reading and the rating    *)
(* that follows from it, the score is about what the raters read           *)
(* (output_only_rating.py: score_output_only_arm).                         *)
THEOREM ScoresAreOfWhatWasRead == Spec => []ScoresFollowReaders
<1>1. Init => Inv
    BY InvInit, TrialsAssumption
<1>2. Inv /\ [Next]_vars => Inv'
    BY InvStep, TrialsAssumption, ClaimsAssumption
<1>3. Inv => ScoresFollowReaders
    BY ScoreIsMeant DEF Inv
<1>4. QED BY <1>1, <1>2, <1>3, PTL DEF Spec
=============================================================================
