----------------------------- MODULE WorkProofs -----------------------------
(***************************************************************************)
(* Theorems about Work, for any processes, any actions, any ledger to      *)
(* start from, and any handlers killed.                                    *)
(*                                                                         *)
(* The proofs have two layers.  The first, Inv, is about what was read     *)
(* before it is used: the approval is read long before the action runs and *)
(* its execution is recorded, while other handlers go on.  CallSound says  *)
(* of each call that a handler has yet to make that the ledger and the     *)
(* runs, as they are, support it, and an append or a run of anybody takes  *)
(* no support away, for the ledger only grows.                             *)
(*                                                                         *)
(* The second, GroundedInv, is about order: which call may stand behind    *)
(* which (MayPrecede), which owes another one behind it (Owes), and that   *)
(* events refer to earlier ones.  Every step is one of five forms (Form,   *)
(* StepForms); what a call leads to may stand where it stood (Leads).  On  *)
(* it rest, each with an invariant of its own:                             *)
(*                                                                         *)
(*   WorkIsApproved           Inv alone            any interleaving        *)
(*   SoleWorkIsDoneOnce       OnceInv              no overlap              *)
(*   EvidenceFollowsReviews   UpdatesInv, AgreeInv any; then no overlap    *)
(*   FailedWorkHasItsTask     QueuedInv            any interleaving        *)
(***************************************************************************)
EXTENDS Work, FoldLemmas, FiniteSetTheorems, TLAPS

ApprovedBy(evs, i, n) == \E j \in 1..n : evs[j] = ActionReviewed(i, "approved")

\* An event that says of an autonomy item only what any handler may say.
Plain(e) ==
    /\ e.type # "autonomy.action_executed"
    /\ e.type = "autonomy.action_proposed" => e.status = "proposed"
    /\ e.type = "autonomy.action_reviewed" => e = ActionReviewed(e.item, e.status)

\* An execution that the first n events, and the runs they saw, support.
Backed(evs, runs, e, n) ==
    /\ e.type = "autonomy.action_executed"
    /\ e.item \in 1..n /\ ApprovedBy(evs, e.item, n)
    /\ evs[e.item].action = "approval_only" => e.status = "failed"
    /\ evs[e.item].action # "approval_only" => \E r \in runs : r.item = e.item /\ r.at <= n

LogSound(evs, runs) ==
    /\ IsSequence(evs)
    /\ \A n \in 1..Len(evs) : Plain(evs[n]) \/ Backed(evs, runs, evs[n], n - 1)

RunsSound(evs, runs) == \A r \in runs : r.at \in 0..Len(evs) /\ ApprovedBy(evs, r.item, r.at)

\* The calls of a learning review's plan, and those that follow a created
\* record.
PlanCall(c) ==
    c.do \in {"propose_skill", "open_task"} \/ (c.do = "append" /\ Plain(c.event))
Planned(calls) == IsSequence(calls) /\ \A k \in 1..Len(calls) : PlanCall(calls[k])
Following(c) ==
    \/ \E e, target : c = Link(e, target)
    \/ \E cited : IsFiniteSet(cited) /\ c = LinkCited(cited)
    \/ \E plan : Planned(plan) /\ c = ApplyPlan(plan)

TaskClosing == {"reflection.task_resolved", "reflection.task_dismissed"}

CallSound(evs, runs, c) ==
    /\ c.do = "append" => Plain(c.event) \/ Backed(evs, runs, c.event, Len(evs))
    /\ c.do = "create" => Plain(c.event) /\ Following(c.then)
    /\ c.do \in {"not_executed", "run"} =>
           c.item \in 1..Len(evs) /\ ApprovedBy(evs, c.item, Len(evs))
    /\ c.do \in {"claim", "link_cited"} => IsFiniteSet(c.cited)
    /\ c.do = "apply_plan" => Planned(c.plan)
    /\ c.do = "learning_review" => c.scope \in {"step", "mission", "session"}
    /\ c.do \in {"close_task", "close_tasks"} => c.how \in TaskClosing

Sound(evs, runs, calls) ==
    IsSequence(calls) /\ \A k \in 1..Len(calls) : CallSound(evs, runs, calls[k])

Inv ==
    /\ LogSound(log, ran)
    /\ RunsSound(log, ran)
    /\ todo = [p \in Procs |-> todo[p]]
    /\ \A p \in Procs : Sound(log, ran, todo[p])

-----------------------------------------------------------------------------
(* Lists of calls.                                                         *)

LEMMA NoCalls == ASSUME NEW evs, NEW runs PROVE Sound(evs, runs, <<>>) /\ Planned(<<>>)
<1>1. IsSequence(<<>>)
    <2>1. <<>> \in Seq({})
        OBVIOUS
    <2>2. QED BY <2>1, Zenon DEF IsSequence
<1>2. 1..Len(<<>>) = {}
    OBVIOUS
<1>3. QED BY <1>1, <1>2, Zenon DEF Sound, Planned

LEMMA OneCall ==
    ASSUME NEW c
    PROVE  /\ IsSequence(<<c>>) /\ Len(<<c>>) = 1 /\ <<c>>[1] = c
           /\ Planned(<<c>>) <=> PlanCall(c)
           /\ \A evs, runs : Sound(evs, runs, <<c>>) <=> CallSound(evs, runs, c)
<1>1. IsSequence(<<c>>)
    <2>1. <<c>> \in Seq({c})
        OBVIOUS
    <2>2. QED BY <2>1, Zenon DEF IsSequence
<1>2. 1..Len(<<c>>) = {1} /\ Len(<<c>>) = 1 /\ <<c>>[1] = c
    OBVIOUS
<1>3. \A evs, runs : Sound(evs, runs, <<c>>) <=> CallSound(evs, runs, c)
    BY <1>1, <1>2, Zenon DEF Sound
<1>4. Planned(<<c>>) <=> PlanCall(c)
    BY <1>1, <1>2, Zenon DEF Planned
<1>5. QED BY <1>1, <1>2, <1>3, <1>4

LEMMA Joined ==
    ASSUME NEW evs, NEW runs, NEW s, NEW t, Sound(evs, runs, s), Sound(evs, runs, t)
    PROVE  Sound(evs, runs, s \o t)
<1>1. IsSequence(s) /\ IsSequence(t)
    BY DEF Sound
<1>2. ASSUME NEW k \in 1..Len(s \o t) PROVE CallSound(evs, runs, (s \o t)[k])
    <2>1. CASE k \in 1..Len(s)
        BY <1>1, <2>1, Concatenated DEF Sound
    <2>2. CASE k \in Len(s) + 1..Len(s \o t)
        BY <1>1, <2>2, Concatenated DEF Sound
    <2>3. QED BY <1>1, <2>1, <2>2, Concatenated
<1>3. QED BY <1>1, <1>2, Concatenated DEF Sound

LEMMA JoinedPlans ==
    ASSUME NEW s, NEW t, Planned(s), Planned(t)
    PROVE  Planned(s \o t)
<1>1. IsSequence(s) /\ IsSequence(t)
    BY DEF Planned
<1>2. ASSUME NEW k \in 1..Len(s \o t) PROVE PlanCall((s \o t)[k])
    <2>1. CASE k \in 1..Len(s)
        BY <1>1, <2>1, Concatenated DEF Planned
    <2>2. CASE k \in Len(s) + 1..Len(s \o t)
        BY <1>1, <2>2, Concatenated DEF Planned
    <2>3. QED BY <1>1, <2>1, <2>2, Concatenated
<1>3. QED BY <1>1, <1>2, Concatenated DEF Planned

LEMMA FirstCall ==
    ASSUME NEW evs, NEW runs, NEW s, Sound(evs, runs, s), s # <<>>
    PROVE  CallSound(evs, runs, Head(s)) /\ Sound(evs, runs, Tail(s))
<1>1. PICK S : s \in Seq(S)
    BY DEF Sound, IsSequence
<1>2. /\ Tail(s) \in Seq(S) /\ Head(s) = s[1] /\ Len(s) \in Nat \ {0}
      /\ Len(Tail(s)) = Len(s) - 1 /\ \A k \in 1..Len(Tail(s)) : Tail(s)[k] = s[k + 1]
    BY <1>1
<1>3. ASSUME NEW k \in 1..Len(Tail(s)) PROVE CallSound(evs, runs, Tail(s)[k])
    <2>1. k + 1 \in 1..Len(s) /\ Tail(s)[k] = s[k + 1]
        BY <1>2
    <2>2. QED BY <2>1 DEF Sound
<1>4. CallSound(evs, runs, Head(s))
    BY <1>2 DEF Sound
<1>5. QED BY <1>2, <1>3, <1>4 DEF Sound, IsSequence

-----------------------------------------------------------------------------
(* The ledger only grows, and so do the runs.                              *)

LEMMA ApprovalStays ==
    ASSUME NEW evs, IsSequence(evs), NEW e, NEW i, NEW n \in 0..Len(evs), NEW k \in Nat, n <= k,
           ApprovedBy(evs, i, n)
    PROVE  ApprovedBy(Append(evs, e), i, k)
<1>1. PICK j \in 1..n : evs[j] = ActionReviewed(i, "approved")
    BY DEF ApprovedBy
<1>2. j \in 1..k /\ Append(evs, e)[j] = evs[j]
    BY Appended
<1>3. QED BY <1>1, <1>2 DEF ApprovedBy

LEMMA BackingStays ==
    ASSUME NEW evs, IsSequence(evs), NEW runs, NEW e, NEW f,
           NEW n \in 0..Len(evs), NEW k \in Nat, n <= k,
           \A r \in runs : r.at \in Nat, Backed(evs, runs, f, n)
    PROVE  Backed(Append(evs, e), runs, f, k)
<1>1. f.item \in 1..n /\ f.item \in 1..k /\ Append(evs, e)[f.item] = evs[f.item]
    BY Appended DEF Backed
<1>2. ApprovedBy(Append(evs, e), f.item, k)
    BY ApprovalStays DEF Backed
<1>3. ASSUME NEW r \in runs, r.at <= n PROVE r.at <= k
    BY <1>3
<1>4. QED BY <1>1, <1>2, <1>3 DEF Backed

LEMMA CallsStaySound ==
    ASSUME NEW evs, IsSequence(evs), NEW runs, RunsSound(evs, runs), NEW e,
           NEW c, CallSound(evs, runs, c)
    PROVE  CallSound(Append(evs, e), runs, c)
<1> DEFINE new == Append(evs, e)
<1>1. Len(evs) \in Nat /\ Len(new) = Len(evs) + 1
    BY Appended
<1>2. \A r \in runs : r.at \in Nat
    BY <1>1 DEF RunsSound
<1>3. Backed(evs, runs, c.event, Len(evs)) => Backed(new, runs, c.event, Len(new))
    <2>1. Len(evs) \in 0..Len(evs) /\ Len(new) \in Nat /\ Len(evs) <= Len(new)
        BY <1>1
    <2>2. QED BY <1>2, <2>1, BackingStays
<1>4. ASSUME c.item \in 1..Len(evs), ApprovedBy(evs, c.item, Len(evs))
      PROVE  c.item \in 1..Len(new) /\ ApprovedBy(new, c.item, Len(new))
    <2>1. Len(evs) \in 0..Len(evs) /\ Len(new) \in Nat /\ Len(evs) <= Len(new)
        BY <1>1
    <2>2. QED BY <1>1, <1>4, <2>1, ApprovalStays
<1> HIDE DEF new
<1>5. QED BY <1>3, <1>4 DEF CallSound, new

LEMMA LogStaysSound ==
    ASSUME NEW evs, NEW runs, LogSound(evs, runs), RunsSound(evs, runs), NEW e,
           Plain(e) \/ Backed(evs, runs, e, Len(evs))
    PROVE  LogSound(Append(evs, e), runs) /\ RunsSound(Append(evs, e), runs)
<1> DEFINE new == Append(evs, e)
<1>1. IsSequence(evs)
    BY DEF LogSound
<1>2. Len(evs) \in Nat /\ Len(new) = Len(evs) + 1 /\ IsSequence(new) /\ new[Len(new)] = e
    BY <1>1, Appended
<1>3. \A r \in runs : r.at \in Nat
    BY <1>2 DEF RunsSound
<1>4. ASSUME NEW f, NEW n \in 0..Len(evs), Backed(evs, runs, f, n) PROVE Backed(new, runs, f, n)
    <2>1. n \in Nat /\ n <= n
        BY <1>2
    <2>2. QED BY <1>1, <1>3, <1>4, <2>1, BackingStays
<1>5. ASSUME NEW n \in 1..Len(new) PROVE Plain(new[n]) \/ Backed(new, runs, new[n], n - 1)
    <2>1. CASE n \in 1..Len(evs)
        <3>1. new[n] = evs[n] /\ n - 1 \in 0..Len(evs)
            BY <1>1, <1>2, <2>1, Appended
        <3>2. Plain(evs[n]) \/ Backed(evs, runs, evs[n], n - 1)
            BY <2>1 DEF LogSound
        <3> HIDE DEF new
        <3>3. QED BY <1>4, <3>1, <3>2
    <2>2. CASE n = Len(new)
        <3>1. new[n] = e /\ n - 1 = Len(evs) /\ Len(evs) \in 0..Len(evs)
            BY <1>2, <2>2
        <3> HIDE DEF new
        <3>2. QED BY <1>4, <3>1
    <2>3. QED BY <1>2, <2>1, <2>2
<1>6. ASSUME NEW r \in runs PROVE r.at \in 0..Len(new) /\ ApprovedBy(new, r.item, r.at)
    <2>1. r.at \in 0..Len(evs) /\ ApprovedBy(evs, r.item, r.at) /\ r.at \in Nat /\ r.at <= r.at
        BY <1>2 DEF RunsSound
    <2>2. QED BY <1>1, <1>2, <2>1, ApprovalStays
<1> HIDE DEF new
<1>7. QED BY <1>2, <1>5, <1>6 DEF LogSound, RunsSound, new

(* A run takes no support away either.                                     *)
LEMMA RunsGrow ==
    ASSUME NEW evs, NEW runs, NEW more, runs \subseteq more
    PROVE  /\ LogSound(evs, runs) => LogSound(evs, more)
           /\ \A calls : Sound(evs, runs, calls) => Sound(evs, more, calls)
<1>1. \A f, n : Backed(evs, runs, f, n) => Backed(evs, more, f, n)
    BY DEF Backed
<1>2. LogSound(evs, runs) => LogSound(evs, more)
    BY <1>1 DEF LogSound
<1>3. \A c : CallSound(evs, runs, c) => CallSound(evs, more, c)
    BY <1>1 DEF CallSound
<1>4. QED BY <1>2, <1>3 DEF Sound

-----------------------------------------------------------------------------
(* What a list of calls is made of.                                        *)

LEMMA TwoCalls ==
    ASSUME NEW c, NEW d
    PROVE  /\ PlanCall(c) /\ PlanCall(d) => Planned(<<c, d>>)
           /\ \A evs, runs : CallSound(evs, runs, c) /\ CallSound(evs, runs, d)
                             => Sound(evs, runs, <<c, d>>)
<1>1. IsSequence(<<c, d>>)
    <2>1. <<c, d>> \in Seq({c, d})
        OBVIOUS
    <2>2. QED BY <2>1, Zenon DEF IsSequence
<1>2. 1..Len(<<c, d>>) = {1, 2} /\ <<c, d>>[1] = c /\ <<c, d>>[2] = d
    OBVIOUS
<1>3. \A evs, runs : CallSound(evs, runs, c) /\ CallSound(evs, runs, d)
                     => Sound(evs, runs, <<c, d>>)
    BY <1>1, <1>2, Zenon DEF Sound
<1>4. PlanCall(c) /\ PlanCall(d) => Planned(<<c, d>>)
    BY <1>1, <1>2, Zenon DEF Planned
<1>5. QED BY <1>3, <1>4

LEMMA PlannedIsSound ==
    ASSUME NEW evs, NEW runs, NEW calls, Planned(calls)
    PROVE  Sound(evs, runs, calls)
<1>1. \A c : PlanCall(c) => CallSound(evs, runs, c)
    BY DEF PlanCall, CallSound
<1>2. QED BY <1>1 DEF Planned, Sound

(* The calls that need no support.                                         *)
Free(c) == c.do \notin {"append", "create", "not_executed", "run", "claim", "link_cited",
                        "apply_plan", "learning_review", "close_task", "close_tasks"}

LEMMA FreeIsSound == ASSUME NEW evs, NEW runs, NEW c, Free(c) PROVE CallSound(evs, runs, c)
BY DEF Free, CallSound

LEMMA AppendingIsSound ==
    ASSUME NEW e, Plain(e)
    PROVE  PlanCall(Appending(e)) /\ \A evs, runs : CallSound(evs, runs, Appending(e))
BY DEF PlanCall, CallSound, Appending

LEMMA FreeCalls ==
    /\ \A i : Free(Item("execute", i))
    /\ \A i, status : Free(ReviewItem(i, status))
    /\ Free(ExecuteApproved) /\ \A done : Free(ExecuteEach(done))
    /\ \A s, strict : Free(Learn(s, strict)) /\ PlanCall(Learn(s, strict))
    /\ Free(AutoPropose) /\ \A done : Free(ProposeRepeated(done))
    /\ \A k, status : Free(ReviewSkill(k, status))
    /\ \A m, steps : Free(LinkTo(m, steps))
    /\ \A c : Free(LessonOf(c))
    /\ Free(AutoProposeFromCheckpoints)
    /\ \A e, target : Free(Link(e, target))
    /\ \A e, status : Free(ReviewEvidence(e, status)) /\ Free(Inbox(e, status))
    /\ \A packet, status : Free(InboxPacket(packet, status)) /\ Free(ReviewPacket(packet, status))
    /\ \A g, status, text : Free(SetGoal(g, status, text))
    /\ \A g, m : Free(LinkGoal(g, m))
    /\ \A g, b : Free(BlockGoal(g, b))
    /\ \A subject : Free(OpenTask(subject)) /\ PlanCall(OpenTask(subject))
BY DEF Free, PlanCall, Item, ReviewItem, ExecuteApproved, ExecuteEach, Learn, AutoPropose,
       ProposeRepeated, ReviewSkill, LinkTo, LessonOf, AutoProposeFromCheckpoints, Link,
       ReviewEvidence, Inbox, InboxPacket, ReviewPacket, SetGoal, LinkGoal, BlockGoal, OpenTask

(* The events that say nothing of an autonomy item, or only what any       *)
(* handler may say.                                                        *)
LEMMA PlainEvents ==
    /\ \A s, outcome : Plain(StepSettled(s, outcome))
    /\ \A action : Plain(ActionProposed(action))
    /\ \A i, status : Plain(ActionReviewed(i, status))
    /\ Plain(ResearchCycleRan)
    /\ \A steps, auto : Plain(SkillProposed(steps, auto))
    /\ \A k, status : Plain(SkillReviewed(k, status))
    /\ \A m, steps : Plain(CheckpointLinked(m, steps))
    /\ \A c : Plain(CheckpointLesson(c))
    /\ \A links, steps : Plain(CheckpointSkill(links, steps))
    /\ \A packet : Plain(EvidenceAdded(packet))
    /\ \A e, status : Plain(EvidenceReviewed(e, status)) /\ Plain(EvidenceUpdated(e, status))
    /\ \A cited : Plain(EvidenceClaimed(cited))
    /\ \A e, target : Plain(EvidenceLinked(e, target))
    /\ \A type, g, status, missions, blockers :
          type \in GoalUpdate \cup {"goal.created"}
          => Plain(GoalWritten(type, g, status, missions, blockers))
    /\ Plain(GoalCreated)
    /\ \A m, kind : Plain(MissionItemAdded(m, kind))
    /\ Plain(GrowthProposed) /\ Plain(LearningStarted) /\ \A r : Plain(LearningCompleted(r))
    /\ \A subject : Plain(ReflectionRecorded(subject)) /\ Plain(TaskOpened(subject))
    /\ \A t : \A type \in TaskClosing : Plain(TaskClosed(type, t))
BY DEF Plain, StepSettled, ActionProposed, ActionReviewed, ResearchCycleRan, SkillProposed,
       SkillReviewed, CheckpointLinked, CheckpointLesson, CheckpointSkill, EvidenceAdded,
       EvidenceReviewed, EvidenceUpdated, EvidenceClaimed, EvidenceLinked, GoalWritten, GoalUpdate,
       GoalCreated, MissionItemAdded, GrowthProposed, LearningStarted, LearningCompleted,
       ReflectionRecorded, TaskOpened, TaskClosed, TaskClosing

(* Sets of positions of the ledger.                                        *)
LEMMA PositionsAreFinite ==
    ASSUME Inv, NEW S \in SUBSET (DOMAIN log)
    PROVE  IsFiniteSet(S) /\ Cardinality(S) \in Nat
<1>1. DOMAIN log = 1..Len(log) /\ Len(log) \in Nat
    BY DEF Inv, LogSound, IsSequence
<1>2. IsFiniteSet(1..Len(log))
    BY <1>1, FS_Interval
<1>3. IsFiniteSet(S)
    BY <1>1, <1>2, FS_Subset
<1>4. QED BY <1>3, FS_CardinalityType

LEMMA GroupsAreFinite ==
    ASSUME Inv, NEW sources, NEW minimum
    PROVE  /\ Cardinality(RepeatedWork(log, sources, minimum)) \in Nat
           /\ Cardinality(RepeatedCheckpoints(log, minimum)) \in Nat
<1>1. \A from : IsFiniteSet(RepeatedWork(log, from, minimum))
    <2>1. TAKE from
    <2>2. RepeatedWork(log, from, minimum) \subseteq SUBSET (DOMAIN log)
        BY DEF RepeatedWork, Steps, Positions
    <2>3. IsFiniteSet(SUBSET (DOMAIN log))
        BY PositionsAreFinite, FS_SUBSET
    <2>4. QED BY <2>2, <2>3, FS_Subset
<1>2. RepeatedCheckpoints(log, minimum) \subseteq
          RepeatedWork(log, SourceSteps(log) \cup {s \in Steps(log) : CheckpointsOf(log, {s}) = {}},
                       minimum)
    BY DEF RepeatedCheckpoints
<1>3. IsFiniteSet(RepeatedCheckpoints(log, minimum))
    BY <1>1, <1>2, FS_Subset
<1>4. QED BY <1>1, <1>3, FS_CardinalityType

(* The status of an item is that of its last review.                       *)
LEMMA ApprovedIsApproved ==
    ASSUME Inv, NEW i \in Items(log), ItemStatus(log, i) = "approved"
    PROVE  i \in 1..Len(log) /\ ApprovedBy(log, i, Len(log))
<1>1. DOMAIN log = 1..Len(log) /\ Len(log) \in Nat
    BY DEF Inv, LogSound, IsSequence
<1> DEFINE S == {i} \cup ItemReviews(log, i)
<1>2. i \in 1..Len(log) /\ log[i].type = "autonomy.action_proposed"
    BY <1>1 DEF Items, Positions
<1>3. S \in SUBSET (0..Len(log)) /\ S # {}
    BY <1>1, <1>2 DEF ItemReviews, Positions
<1>4. Max(S) \in S
    <2> HIDE DEF S
    <2>1. QED BY <1>1, <1>3, MaxIsGreatest
<1>5. log[Max(S)].status = "approved"
    BY DEF ItemStatus
<1>6. \A n \in 1..Len(log) : Plain(log[n]) \/ log[n].type = "autonomy.action_executed"
    BY DEF Inv, LogSound, Backed
<1>7. log[i].status = "proposed"
    BY <1>2, <1>6 DEF Plain
<1>8. Max(S) \in ItemReviews(log, i)
    <2>1. Max(S) # i
        BY <1>5, <1>7
    <2>2. QED BY <1>4, <2>1
<1> DEFINE j == Max(S)
<1>9. j \in 1..Len(log) /\ log[j].type = "autonomy.action_reviewed" /\ log[j].item = i
    BY <1>1, <1>8 DEF ItemReviews, Positions
<1>10. log[j] = ActionReviewed(i, "approved")
    BY <1>5, <1>6, <1>9 DEF Plain
<1> HIDE DEF j
<1>11. QED BY <1>2, <1>9, <1>10 DEF ApprovedBy

-----------------------------------------------------------------------------
(* Handlers.                                                               *)

LEMMA CallsReplaced ==
    ASSUME Inv, NEW p \in Procs, NEW calls, Sound(log, ran, calls),
           todo' = [todo EXCEPT ![p] = calls], UNCHANGED <<log, ran>>
    PROVE  Inv'
<1>1. todo' = [q \in Procs |-> todo'[q]]
    BY DEF Inv
<1>2. ASSUME NEW q \in Procs PROVE Sound(log, ran, todo'[q])
    <2>1. todo'[q] = IF q = p THEN calls ELSE todo[q]
        BY DEF Inv
    <2>2. QED BY <2>1 DEF Inv
<1>3. QED BY <1>1, <1>2 DEF Inv

LEMMA Began ==
    ASSUME Inv, NEW p \in Procs, NEW command, NEW c, CallSound(log, ran, c),
           Begin(p, command, <<c>>), UNCHANGED ran
    PROVE  Inv'
<1>1. todo' = [todo EXCEPT ![p] = <<c>>] /\ UNCHANGED <<log, ran>>
    BY DEF Begin, BeginCalls
<1>2. Sound(log, ran, <<c>>)
    BY OneCall
<1>3. QED BY <1>1, <1>2, CallsReplaced

LEMMA HeadCall ==
    ASSUME Inv, NEW p \in Procs, todo[p] # Idle
    PROVE  CallSound(log, ran, Call(p)) /\ Sound(log, ran, Tail(todo[p]))
<1>1. Sound(log, ran, todo[p])
    BY DEF Inv
<1>2. QED BY <1>1, FirstCall DEF Call, Idle

LEMMA Returned ==
    ASSUME Inv, NEW p \in Procs, todo[p] # Idle, NEW next, NEW allowed,
           allowed => Sound(log, ran, next), Return(p, allowed, next), UNCHANGED ran
    PROVE  Inv'
<1>1. CASE allowed
    <2>1. todo' = [todo EXCEPT ![p] = next \o Tail(todo[p])] /\ UNCHANGED <<log, ran>>
        BY <1>1 DEF Return
    <2>2. Sound(log, ran, next \o Tail(todo[p]))
        BY <1>1, HeadCall, Joined
    <2>3. QED BY <2>1, <2>2, CallsReplaced
<1>2. CASE ~allowed
    <2>1. todo' = [todo EXCEPT ![p] = Idle] /\ UNCHANGED <<log, ran>>
        BY <1>2 DEF Return
    <2>2. QED BY <2>1, NoCalls, CallsReplaced DEF Idle
<1>3. QED BY <1>1, <1>2

(* A list built by CallEach or CallBoth.                                   *)
LEMMA BuiltIsSound ==
    ASSUME NEW n \in Nat, NEW calls, calls = [k \in 1..n |-> calls[k]]
    PROVE  /\ (\A k \in 1..n : PlanCall(calls[k])) => Planned(calls)
           /\ \A evs, runs : (\A k \in 1..n : CallSound(evs, runs, calls[k]))
                             => Sound(evs, runs, calls)
BY BuiltCalls DEF Planned, Sound

LEMMA CommandPreserves ==
    ASSUME Inv, NEW p \in Procs, Command(p), UNCHANGED ran
    PROVE  Inv'
<1>1. CASE SettleStep(p) \/ ProposeAction(p) \/ CreateGoal(p)
    <2>1. PICK command, e : Plain(e) /\ Begin(p, command, <<Appending(e)>>)
        BY <1>1, PlainEvents DEF SettleStep, ProposeAction, CreateGoal
    <2>2. QED BY <2>1, AppendingIsSound, Began
<1>2. CASE AddEvidence(p)
    <2> DEFINE added == EvidenceAdded("none")
    <2>1. CASE Begin(p, "evidence-add", <<Appending(added)>>)
        <3>1. CallSound(log, ran, Appending(added))
            BY PlainEvents, AppendingIsSound
        <3> HIDE DEF added
        <3>2. QED BY <2>1, <3>1, Began
    <2>2. CASE \E m : Begin(p, "evidence-add", <<Creating(added, Link(0, m))>>)
        <3>1. PICK m : Begin(p, "evidence-add", <<Creating(added, Link(0, m))>>)
            BY <2>2
        <3>2. Plain(added)
            BY PlainEvents
        <3> HIDE DEF added
        <3>3. CallSound(log, ran, Creating(added, Link(0, m)))
            BY <3>2 DEF CallSound, Creating, Following
        <3>4. QED BY <3>1, <3>3, Began
    <2>3. QED BY <1>2, <2>1, <2>2 DEF AddEvidence
<1>3. CASE ClaimEvidence(p)
    <2>1. PICK cited \in SUBSET Evidence(log) : Begin(p, "evidence-claim", <<Claim(cited)>>)
        BY <1>3 DEF ClaimEvidence
    <2>2. IsFiniteSet(cited)
        BY PositionsAreFinite DEF Evidence, Positions
    <2>3. CallSound(log, ran, Claim(cited))
        BY <2>2 DEF CallSound, Claim
    <2>4. QED BY <2>1, <2>3, Began
<1>4. CASE ReviewLearnings(p)
    <2>1. PICK scope, target, apply :
              /\ scope \in {"step", "mission", "session"}
              /\ Begin(p, "learning-review", <<ReviewLearning(scope, target, apply)>>)
        BY <1>4 DEF ReviewLearnings
    <2>2. CallSound(log, ran, ReviewLearning(scope, target, apply))
        BY <2>1 DEF CallSound, ReviewLearning
    <2>3. QED BY <2>1, <2>2, Began
<1>5. ASSUME NEW command, NEW c, Free(c), Begin(p, command, <<c>>) PROVE Inv'
    BY <1>5, FreeIsSound, Began
<1>6. CASE ReviewAction(p) \/ ExecuteAction(p) \/ ExecuteApprovedActions(p)
    BY <1>5, <1>6, FreeCalls DEF ReviewAction, ExecuteAction, ExecuteApprovedActions
<1>7. CASE ProposeSkill(p) \/ AutoProposeSkills(p) \/ ReviewSkillCandidate(p)
    BY <1>5, <1>7, FreeCalls DEF ProposeSkill, AutoProposeSkills, ReviewSkillCandidate
<1>8. CASE LinkCheckpoint(p) \/ ProposeCheckpointLesson(p) \/ ProposeCheckpointSkills(p)
    BY <1>5, <1>8, FreeCalls DEF LinkCheckpoint, ProposeCheckpointLesson, ProposeCheckpointSkills
<1>9. CASE LinkEvidence(p)
    BY <1>5, <1>9, FreeCalls DEF LinkEvidence
<1>10. CASE ReviewSomeEvidence(p)
    BY <1>5, <1>10, FreeCalls DEF ReviewSomeEvidence
<1>11. CASE UpdateGoal(p)
    BY <1>5, <1>11, FreeCalls DEF UpdateGoal
<1>12. CASE CloseReviewTasks(p)
    <2>1. PICK c : /\ c.do \in {"close_task", "close_tasks"} /\ c.how \in TaskClosing
                   /\ Begin(p, "reflection-task", <<c>>)
        BY <1>12 DEF CloseReviewTasks, CloseTask, TaskClosing
    <2>2. CallSound(log, ran, c)
        BY <2>1 DEF CallSound
    <2>3. QED BY <2>1, <2>2, Began
<1>13. QED BY <1>1, <1>2, <1>3, <1>4, <1>6, <1>7, <1>8, <1>9, <1>10, <1>11, <1>12 DEF Command

LEMMA AppendPreserves ==
    ASSUME Inv, NEW p \in Procs, AppendEvent(p) \/ CreateRecord(p), UNCHANGED ran
    PROVE  Inv'
<1> DEFINE e == Call(p).event
           n == Len(log) + 1
           calls == IF Call(p).do = "append" THEN <<>> ELSE <<[Call(p).then EXCEPT !.own = n]>>
<1>1. /\ todo[p] # Idle /\ Call(p).do \in {"append", "create"}
      /\ log' = Append(log, e) /\ ran' = ran
    BY DEF AppendEvent, CreateRecord, Called, Call
<1>2. CallSound(log, ran, Call(p)) /\ Sound(log, ran, Tail(todo[p]))
    BY <1>1, HeadCall
<1>3. Plain(e) \/ Backed(log, ran, e, Len(log))
    BY <1>1, <1>2 DEF CallSound
<1>4. LogSound(log', ran') /\ RunsSound(log', ran')
    BY <1>1, <1>3, LogStaysSound DEF Inv
<1>5. \A c : CallSound(log, ran, c) => CallSound(log', ran', c)
    BY <1>1, CallsStaySound DEF Inv, LogSound
<1>6. \A s : Sound(log, ran, s) => Sound(log', ran', s)
    BY <1>5 DEF Sound
<1>7. Sound(log', ran', calls)
    <2>1. CASE Call(p).do = "append"
        BY <2>1, NoCalls
    <2>2. CASE Call(p).do = "create"
        <3> DEFINE then == Call(p).then
                   next == [then EXCEPT !.own = n]
        <3>1. Following(then)
            BY <1>2, <2>2 DEF CallSound
        <3>2. CallSound(log', ran', next)
            <4>1. CASE \E f, target : then = Link(f, target)
                <5>1. PICK f, target : then = Link(f, target)
                    BY <4>1
                <5>2. next.do = "link"
                    BY <5>1 DEF Link
                <5> HIDE DEF next
                <5>3. QED BY <5>2, FreeIsSound DEF Free
            <4>2. CASE \E cited : IsFiniteSet(cited) /\ then = LinkCited(cited)
                <5>1. PICK cited : IsFiniteSet(cited) /\ then = LinkCited(cited)
                    BY <4>2
                <5>2. next.do = "link_cited" /\ next.cited = cited
                    BY <5>1 DEF LinkCited
                <5> HIDE DEF next
                <5>3. QED BY <5>1, <5>2 DEF CallSound
            <4>3. CASE \E plan : Planned(plan) /\ then = ApplyPlan(plan)
                <5>1. PICK plan : Planned(plan) /\ then = ApplyPlan(plan)
                    BY <4>3
                <5>2. next.do = "apply_plan" /\ next.plan = plan
                    BY <5>1 DEF ApplyPlan
                <5> HIDE DEF next
                <5>3. QED BY <5>1, <5>2 DEF CallSound
            <4>4. QED BY <3>1, <4>1, <4>2, <4>3 DEF Following
        <3> HIDE DEF next
        <3>3. calls = <<next>>
            BY <2>2 DEF next
        <3>4. QED BY <3>2, <3>3, OneCall
    <2>3. QED BY <1>1, <2>1, <2>2
<1>8. todo' = [todo EXCEPT ![p] = IF Call(p).do = "append" THEN Tail(todo[p])
                                  ELSE calls \o Tail(todo[p])]
    BY DEF AppendEvent, CreateRecord, Called, Call
<1>9. Sound(log', ran', IF Call(p).do = "append" THEN Tail(todo[p]) ELSE calls \o Tail(todo[p]))
    <2> HIDE DEF calls
    <2>1. QED BY <1>2, <1>6, <1>7, Joined
<1>10. todo' = [q \in Procs |-> todo'[q]]
    BY <1>8 DEF Inv
<1>11. ASSUME NEW q \in Procs PROVE Sound(log', ran', todo'[q])
    <2> HIDE DEF calls
    <2>1. CASE q = p
        BY <1>8, <1>9, <2>1 DEF Inv
    <2>2. CASE q # p
        <3>1. todo'[q] = todo[q]
            BY <1>8, <2>2 DEF Inv
        <3>2. QED BY <1>6, <3>1 DEF Inv
    <2>3. QED BY <2>1, <2>2
<1>12. QED BY ONLY <1>4, <1>10, <1>11 DEF Inv

(* Of an autonomy item: the approval is read, then whether it was executed *)
(* already; the ledger never loses what was read.                          *)
LEMMA AutonomyPreserves ==
    ASSUME Inv, NEW p \in Procs, UNCHANGED ran,
           \/ review_autonomy_action(p) \/ execute_autonomy_action(p) \/ execution_for_item(p)
           \/ execute_approved_autonomy_actions(p) \/ execute_each(p)
    PROVE  Inv'
<1> DEFINE i == Call(p).item
<1>1. CASE review_autonomy_action(p)
    <2> DEFINE e == ActionReviewed(i, Call(p).status)
    <2>1. Sound(log, ran, <<Appending(e)>>)
        BY PlainEvents, AppendingIsSound, OneCall
    <2>2. todo[p] # Idle /\ Return(p, ItemStatus(log, i) = "proposed", <<Appending(e)>>)
        BY <1>1 DEF review_autonomy_action, Called
    <2> HIDE DEF e, i
    <2>3. QED BY <2>1, <2>2, Returned
<1>2. CASE execute_autonomy_action(p)
    <2> DEFINE allowed == i \in Items(log) /\ ItemStatus(log, i) = "approved"
    <2>1. todo[p] # Idle /\ Return(p, allowed, <<Item("not_executed", i)>>)
        BY <1>2 DEF execute_autonomy_action, Called
    <2>2. ASSUME allowed PROVE Sound(log, ran, <<Item("not_executed", i)>>)
        <3>1. CallSound(log, ran, Item("not_executed", i))
            BY <2>2, ApprovedIsApproved DEF CallSound, Item
        <3>2. QED BY <3>1, OneCall
    <2> HIDE DEF allowed, i
    <2>3. QED BY <2>1, <2>2, Returned
<1>3. CASE execution_for_item(p)
    <2>1. todo[p] # Idle /\ Return(p, Executions(log, i) = {}, <<Item("run", i)>>)
        BY <1>3 DEF execution_for_item, Called
    <2>2. i \in 1..Len(log) /\ ApprovedBy(log, i, Len(log))
        BY <1>3, <2>1, HeadCall DEF execution_for_item, Called, Call, CallSound
    <2>3. Sound(log, ran, <<Item("run", i)>>)
        <3>1. CallSound(log, ran, Item("run", i))
            BY <2>2 DEF CallSound, Item
        <3>2. QED BY <3>1, OneCall
    <2> HIDE DEF i
    <2>4. QED BY <2>1, <2>3, Returned
<1>4. CASE execute_approved_autonomy_actions(p)
    <2>1. Sound(log, ran, <<ExecuteEach(Executed(log))>>)
        BY FreeCalls, FreeIsSound, OneCall
    <2>2. QED BY <1>4, <2>1, Returned DEF execute_approved_autonomy_actions, Called
<1>5. CASE execute_each(p)
    <2> DEFINE approved == {j \in Items(log) \ Call(p).executed : ItemStatus(log, j) = "approved"}
               n == Cardinality(approved)
               calls == CallEach(n, LAMBDA k : Item("execute", InOrder(approved)[k]))
    <2>1. n \in Nat
        BY PositionsAreFinite DEF Items, Positions
    <2>2. calls = [k \in 1..n |-> Item("execute", InOrder(approved)[k])]
        BY DEF CallEach
    <2>3. todo[p] # Idle /\ Return(p, TRUE, calls)
        BY <1>5 DEF execute_each, Called
    <2> HIDE DEF n, approved, calls
    <2>4. \A k \in 1..n : CallSound(log, ran, calls[k])
        BY <2>2, FreeCalls, FreeIsSound
    <2>5. Sound(log, ran, calls)
        BY <2>1, <2>2, <2>4, BuiltIsSound
    <2>6. QED BY <2>3, <2>5, Returned
<1>6. QED BY <1>1, <1>2, <1>3, <1>4, <1>5

(* The run is supported by the approval, and the record by the run.        *)
LEMMA ExecutionPreserves ==
    ASSUME Inv, NEW p \in Procs, execute_allowed_action(p)
    PROVE  Inv'
<1> DEFINE i == Call(p).item
           here == Len(log)
           failed == ActionExecuted(i, "failed")
           completed == ActionExecuted(i, "completed")
           run == [item |-> i, at |-> here]
<1>1. todo[p] # Idle /\ i \in 1..here /\ ApprovedBy(log, i, here)
    BY HeadCall DEF execute_allowed_action, Called, Call, CallSound
<1>2. here \in Nat
    BY DEF Inv, LogSound, IsSequence
<1>3. \A subject : Sound(log, ran, <<Appending(ReflectionRecorded(subject)),
                                     Appending(TaskOpened(subject))>>)
    BY PlainEvents, AppendingIsSound, TwoCalls
<1>4. ASSUME NEW runs, NEW status \in {"failed", "completed"},
             Backed(log, runs, ActionExecuted(i, status), here)
      PROVE  Sound(log, runs, Recorded(i, status))
    <2> DEFINE added == Appending(EvidenceAdded("none"))
               executed == Appending(ActionExecuted(i, status))
               review == <<Appending(ReflectionRecorded(Subject("autonomy", i))),
                           Appending(TaskOpened(Subject("autonomy", i)))>>
               more == IF status = "failed" THEN review ELSE <<>>
    <2>1. CallSound(log, runs, added)
        BY PlainEvents, AppendingIsSound
    <2>2. CallSound(log, runs, executed)
        BY <1>4 DEF CallSound, Appending
    <2>3. Sound(log, runs, review)
        BY PlainEvents, AppendingIsSound, TwoCalls
    <2>4. Recorded(i, status) = <<added, executed>> \o more
        BY DEF Recorded
    <2> HIDE DEF added, executed, review, i
    <2>5. Sound(log, runs, <<added, executed>>)
        BY <2>1, <2>2, TwoCalls
    <2>6. Sound(log, runs, more)
        BY <2>3, NoCalls
    <2> HIDE DEF more
    <2>7. QED BY <2>4, <2>5, <2>6, Joined
<1>5. CASE log[i].action = "approval_only"
    <2>1. Backed(log, ran, failed, here)
        BY <1>1, <1>5 DEF Backed, ActionExecuted
    <2>2. Sound(log, ran, Recorded(i, "failed"))
        BY <1>4, <2>1
    <2>3. Return(p, TRUE, Recorded(i, "failed")) /\ UNCHANGED ran
        BY <1>5 DEF execute_allowed_action
    <2> HIDE DEF i
    <2>4. QED BY <1>1, <2>2, <2>3, Returned
<1>6. CASE log[i].action # "approval_only"
    <2> DEFINE runs == ran \cup {run}
               cycle == IF log[i].action = "research" THEN <<Appending(ResearchCycleRan)>> ELSE <<>>
    <2>1. ran' = runs
        BY <1>6 DEF execute_allowed_action
    <2>2. /\ LogSound(log, runs) /\ \A calls : Sound(log, ran, calls) => Sound(log, runs, calls)
          /\ run \in runs
        <3> HIDE DEF run
        <3>1. QED BY RunsGrow DEF Inv
    <2>3. RunsSound(log, runs)
        <3>1. run.item = i /\ run.at = here
            OBVIOUS
        <3>2. run.at \in 0..Len(log) /\ ApprovedBy(log, run.item, run.at)
            BY <1>1, <1>2, <3>1
        <3> HIDE DEF run
        <3>3. QED BY <3>2 DEF Inv, RunsSound
    <2>4. Backed(log, runs, failed, here) /\ Backed(log, runs, completed, here)
        <3>1. run.item = i /\ run.at = here /\ here <= here
            BY <1>2
        <3> HIDE DEF run, runs
        <3>2. QED BY <1>1, <1>6, <2>2, <3>1 DEF Backed, ActionExecuted
    <2>5. Sound(log, runs, Recorded(i, "failed")) /\ Sound(log, runs, Recorded(i, "completed"))
        BY <1>4, <2>4
    <2>6. Sound(log, runs, cycle)
        <3>1. Sound(log, runs, <<Appending(ResearchCycleRan)>>)
            BY PlainEvents, AppendingIsSound, OneCall
        <3> HIDE DEF runs, i
        <3>2. QED BY <3>1, NoCalls
    <2>7. PICK allowed, next :
              (allowed => Sound(log, runs, next)) /\ Return(p, allowed, next)
        <3> DEFINE first == cycle \o Recorded(i, "completed")
        <3>1. Sound(log, runs, first)
            <4> HIDE DEF runs, cycle, i
            <4>1. QED BY <2>5, <2>6, Joined
        <3>2. \/ Return(p, TRUE, first) \/ Return(p, TRUE, Recorded(i, "failed"))
              \/ Return(p, FALSE, <<>>)
            BY <1>6 DEF execute_allowed_action
        <3> HIDE DEF runs, first, i
        <3>3. QED BY <2>5, <3>1, <3>2
    <2>8. log' = log
        BY <2>7 DEF Return
    <2>9. todo' = [todo EXCEPT ![p] = IF allowed THEN next \o Tail(todo[p]) ELSE Idle]
        BY <2>7 DEF Return
    <2>10. Sound(log, runs, IF allowed THEN next \o Tail(todo[p]) ELSE Idle)
        <3> HIDE DEF runs
        <3>1. QED BY <1>1, <2>2, <2>7, HeadCall, Joined, NoCalls DEF Idle
    <2>11. todo' = [q \in Procs |-> todo'[q]]
        BY <2>9 DEF Inv
    <2>12. ASSUME NEW q \in Procs PROVE Sound(log, runs, todo'[q])
        <3> HIDE DEF runs
        <3>1. CASE q = p
            BY <2>9, <2>10, <3>1 DEF Inv
        <3>2. CASE q # p
            <4>1. todo'[q] = todo[q]
                BY <2>9, <3>2 DEF Inv
            <4>2. QED BY <2>2, <4>1 DEF Inv
        <3>3. QED BY <3>1, <3>2
    <2> HIDE DEF runs
    <2>13. QED BY ONLY <2>1, <2>2, <2>3, <2>8, <2>11, <2>12 DEF Inv
<1>7. QED BY <1>5, <1>6

LEMMA OneAppended ==
    ASSUME Inv, NEW p \in Procs, todo[p] # Idle, NEW e, Plain(e), NEW allowed,
           Return(p, allowed, <<Appending(e)>>), UNCHANGED ran
    PROVE  Inv'
<1>1. Sound(log, ran, <<Appending(e)>>)
    BY AppendingIsSound, OneCall
<1>2. QED BY <1>1, Returned

LEMMA TwoAppended ==
    ASSUME Inv, NEW p \in Procs, todo[p] # Idle, NEW e, Plain(e), NEW f, Plain(f), NEW allowed,
           Return(p, allowed, <<Appending(e), Appending(f)>>), UNCHANGED ran
    PROVE  Inv'
<1>1. Sound(log, ran, <<Appending(e), Appending(f)>>)
    BY AppendingIsSound, TwoCalls
<1>2. QED BY <1>1, Returned

LEMMA OneFree ==
    ASSUME Inv, NEW p \in Procs, todo[p] # Idle, NEW c, Free(c), NEW allowed,
           Return(p, allowed, <<c>>), UNCHANGED ran
    PROVE  Inv'
<1>1. Sound(log, ran, <<c>>)
    BY FreeIsSound, OneCall
<1>2. QED BY <1>1, Returned

LEMMA ManyFree ==
    ASSUME Inv, NEW p \in Procs, todo[p] # Idle, NEW n \in Nat, NEW calls,
           calls = [k \in 1..n |-> calls[k]], \A k \in 1..n : Free(calls[k]), NEW allowed,
           Return(p, allowed, calls), UNCHANGED ran
    PROVE  Inv'
<1>1. Sound(log, ran, calls)
    BY FreeIsSound, BuiltIsSound
<1>2. QED BY <1>1, Returned

LEMMA SkillsPreserve ==
    ASSUME Inv, NEW p \in Procs, UNCHANGED ran,
           \/ propose_skill_candidate(p) \/ skill_sources(p) \/ auto_propose_skill_candidates(p)
           \/ review_skill_candidate(p) \/ link_checkpoint_to_mission(p)
           \/ propose_checkpoint_lesson(p) \/ auto_propose_checkpoint_skill_candidates(p)
    PROVE  Inv'
<1>1. CASE propose_skill_candidate(p)
    <2> DEFINE s == Call(p).step
               done == Outcome(log, s) = "completed"
               next == IF done THEN <<Appending(SkillProposed({s}, FALSE))>> ELSE <<>>
    <2>1. todo[p] # Idle /\ Return(p, done \/ ~Call(p).strict, next)
        BY <1>1 DEF propose_skill_candidate, Called
    <2>2. Sound(log, ran, next)
        <3>1. Sound(log, ran, <<Appending(SkillProposed({s}, FALSE))>>)
            BY PlainEvents, AppendingIsSound, OneCall
        <3> HIDE DEF done, s
        <3>2. QED BY <3>1, NoCalls
    <2> HIDE DEF next, done
    <2>3. QED BY <2>1, <2>2, Returned
<1>2. CASE skill_sources(p)
    BY <1>2, FreeCalls, OneFree DEF skill_sources, Called
<1>3. CASE auto_propose_skill_candidates(p)
    <2> DEFINE groups == RepeatedWork(log, Call(p).sources, MinimumRepetitions)
               n == Cardinality(groups)
               calls == CallEach(n, LAMBDA k : Appending(SkillProposed(Ranked(groups, Min)[k], TRUE)))
    <2>1. n \in Nat
        BY GroupsAreFinite
    <2>2. calls = [k \in 1..n |-> Appending(SkillProposed(Ranked(groups, Min)[k], TRUE))]
        BY DEF CallEach
    <2>3. todo[p] # Idle /\ Return(p, TRUE, calls)
        BY <1>3 DEF auto_propose_skill_candidates, Called
    <2> HIDE DEF n, groups, calls
    <2>4. \A k \in 1..n : CallSound(log, ran, calls[k])
        BY <2>2, PlainEvents, AppendingIsSound
    <2>5. Sound(log, ran, calls)
        BY <2>1, <2>2, <2>4, BuiltIsSound
    <2>6. QED BY <2>3, <2>5, Returned
<1>4. CASE review_skill_candidate(p)
    BY <1>4, PlainEvents, OneAppended DEF review_skill_candidate, Called
<1>5. CASE link_checkpoint_to_mission(p)
    BY <1>5, PlainEvents, OneAppended DEF link_checkpoint_to_mission, Called
<1>6. CASE propose_checkpoint_lesson(p)
    <2> DEFINE c == Call(p).link
               m == log[c].mission
               lesson == <<Appending(CheckpointLesson(c))>>
    <2>1. todo[p] # Idle /\ Return(p, TRUE, Lesson(m) \o lesson)
        BY <1>6 DEF propose_checkpoint_lesson, Called
    <2>2. Sound(log, ran, lesson)
        BY PlainEvents, AppendingIsSound, OneCall
    <2>3. Sound(log, ran, Lesson(m))
        BY PlainEvents, AppendingIsSound, TwoCalls DEF Lesson
    <2> HIDE DEF m, lesson
    <2>4. Sound(log, ran, Lesson(m) \o lesson)
        BY <2>2, <2>3, Joined
    <2>5. QED BY <2>1, <2>4, Returned
<1>7. CASE auto_propose_checkpoint_skill_candidates(p)
    <2> DEFINE groups == RepeatedCheckpoints(log, MinimumRepetitions)
               steps(k) == Ranked(groups, Min)[k]
               n == Cardinality(groups)
               skill(k) == Appending(SkillProposed(steps(k), TRUE))
               linked(k) == Appending(CheckpointSkill(CheckpointsOf(log, steps(k)), steps(k)))
               calls == CallBoth(n, skill, linked)
    <2>1. n \in Nat /\ 2 * n \in Nat
        BY GroupsAreFinite
    <2>2. calls = [k \in 1..2 * n |-> IF k % 2 = 1 THEN skill((k + 1) \div 2) ELSE linked(k \div 2)]
        BY DEF CallBoth
    <2>3. todo[p] # Idle /\ Return(p, TRUE, calls)
        BY <1>7 DEF auto_propose_checkpoint_skill_candidates, Called
    <2>4. \A k : CallSound(log, ran, skill(k)) /\ CallSound(log, ran, linked(k))
        <3> HIDE DEF steps
        <3>1. QED BY PlainEvents, AppendingIsSound
    <2> HIDE DEF n, skill, linked
    <2>5. \A k \in 1..2 * n : CallSound(log, ran, calls[k])
        BY <2>2, <2>4
    <2> HIDE DEF calls
    <2>6. Sound(log, ran, calls)
        BY <2>1, <2>2, <2>5, BuiltIsSound
    <2>7. QED BY <2>3, <2>6, Returned
<1>8. QED BY <1>1, <1>2, <1>3, <1>4, <1>5, <1>6, <1>7

LEMMA EvidencePreserves ==
    ASSUME Inv, NEW p \in Procs, UNCHANGED ran,
           \/ add_evidence_claim(p) \/ link_cited(p) \/ link_evidence(p) \/ review_evidence(p)
           \/ inbox_evidence(p) \/ inbox_packet(p) \/ review_packet(p)
    PROVE  Inv'
<1>1. CASE add_evidence_claim(p)
    <2> DEFINE cited == Call(p).cited
               create == Creating(EvidenceClaimed(cited), LinkCited(cited))
    <2>1. todo[p] # Idle /\ Return(p, cited \subseteq Evidence(log), <<create>>)
        BY <1>1 DEF add_evidence_claim, Called
    <2>2. IsFiniteSet(cited)
        BY <1>1, <2>1, HeadCall DEF add_evidence_claim, Called, Call, CallSound
    <2>3. Plain(EvidenceClaimed(cited))
        BY PlainEvents
    <2>4. CallSound(log, ran, create)
        BY <2>2, <2>3 DEF CallSound, Creating, Following
    <2> HIDE DEF create, cited
    <2>5. QED BY <2>1, <2>4, OneCall, Returned
<1>2. CASE link_cited(p)
    <2> DEFINE cited == Call(p).cited
               n == Cardinality(cited)
               calls == CallEach(n, LAMBDA k : Link(InOrder(cited)[k], Call(p).own))
    <2>1. todo[p] # Idle /\ Return(p, TRUE, calls)
        BY <1>2 DEF link_cited, Called
    <2>2. n \in Nat
        <3>1. IsFiniteSet(cited)
            BY <1>2, <2>1, HeadCall DEF link_cited, Called, Call, CallSound
        <3>2. QED BY <3>1, FS_CardinalityType
    <2>3. calls = [k \in 1..n |-> Link(InOrder(cited)[k], Call(p).own)]
        BY DEF CallEach
    <2> HIDE DEF n, cited, calls
    <2>4. calls = [k \in 1..n |-> calls[k]] /\ \A k \in 1..n : Free(calls[k])
        BY <2>3, FreeCalls
    <2>5. QED BY <2>1, <2>2, <2>4, ManyFree
<1>3. CASE link_evidence(p)
    <2>1. PICK e, allowed :
              todo[p] # Idle /\ Return(p, allowed, <<Appending(EvidenceLinked(e, Call(p).target))>>)
        BY <1>3 DEF link_evidence, Called
    <2>2. QED BY <2>1, PlainEvents, OneAppended
<1>4. CASE review_evidence(p)
    BY <1>4, PlainEvents, TwoAppended DEF review_evidence, Called
<1>5. CASE inbox_evidence(p)
    BY <1>5, FreeCalls, OneFree DEF inbox_evidence, Called
<1>6. CASE inbox_packet(p)
    BY <1>6, FreeCalls, OneFree DEF inbox_packet, Called
<1>7. CASE review_packet(p)
    <2> DEFINE raw == Packet(log, Call(p).packet)
               n == Cardinality(raw)
               calls == CallEach(n, LAMBDA k : ReviewEvidence(InOrder(raw)[k], Call(p).status))
    <2>1. todo[p] # Idle /\ Return(p, TRUE, calls)
        BY <1>7 DEF review_packet, Called
    <2>2. n \in Nat
        BY PositionsAreFinite DEF Packet, Evidence, Positions
    <2>3. calls = [k \in 1..n |-> ReviewEvidence(InOrder(raw)[k], Call(p).status)]
        BY DEF CallEach
    <2> HIDE DEF n, raw, calls
    <2>4. calls = [k \in 1..n |-> calls[k]] /\ \A k \in 1..n : Free(calls[k])
        BY <2>3, FreeCalls
    <2>5. QED BY <2>1, <2>2, <2>4, ManyFree
<1>8. QED BY <1>1, <1>2, <1>3, <1>4, <1>5, <1>6, <1>7

LEMMA GoalsPreserve ==
    ASSUME Inv, NEW p \in Procs, UNCHANGED ran,
           update_goal_status(p) \/ link_goal_mission(p) \/ add_goal_blocker(p)
    PROVE  Inv'
<1>1. PICK type, g, status, missions, blockers, allowed :
          /\ todo[p] # Idle /\ type \in GoalUpdate
          /\ Return(p, allowed, <<Appending(GoalWritten(type, g, status, missions, blockers))>>)
    BY DEF update_goal_status, link_goal_mission, add_goal_blocker, Called, GoalUpdate
<1>2. Plain(GoalWritten(type, g, status, missions, blockers))
    BY <1>1, PlainEvents
<1>3. QED BY <1>1, <1>2, OneAppended

(* What a learning review plans.                                           *)
LEMMA PlansArePlanned ==
    ASSUME Inv, NEW scope \in {"step", "mission", "session"}, NEW target
    PROVE  Planned(Plan(scope, target))
<1>1. \A m : Planned(Lesson(m))
    BY PlainEvents, AppendingIsSound, TwoCalls DEF Lesson
<1>2. \A subject : Planned(Reflection(subject))
    BY PlainEvents, AppendingIsSound, FreeCalls, TwoCalls DEF Reflection
<1>3. ASSUME NEW m PROVE Planned(MissingEvidence(m))
    <2>1. Planned(<<Appending(MissionItemAdded(m, "evidence"))>>)
        BY PlainEvents, AppendingIsSound, OneCall
    <2>2. QED BY <1>2, <2>1, JoinedPlans DEF MissingEvidence
<1>4. Planned(<<>>)
    BY NoCalls
<1>5. CASE scope = "step"
    <2>1. Planned(<<Learn(target, FALSE)>>)
        BY FreeCalls, OneCall
    <2>2. Planned(Reflection(LearningSubject(target)) \o Lesson(log[target].mission))
        BY <1>1, <1>2, JoinedPlans
    <2>3. Planned(StepPlan(target))
        BY <1>4, <2>1, <2>2 DEF StepPlan
    <2>4. QED BY <1>5, <2>3 DEF Plan
<1>6. CASE scope = "mission"
    <2> DEFINE completed == StepsThat(log, target, "completed")
               failed == StepsThat(log, target, "failed") \cup StepsThat(log, target, "blocked")
               supported == \E i \in Positions(log, "mission.item_added") :
                               log[i].mission = target /\ log[i].kind = "evidence"
               n == Cardinality(completed)
               learning == CallEach(n, LAMBDA k : Learn(InOrder(completed)[k], FALSE))
               subject(k) == LearningSubject(InOrder(failed)[k])
               reflection(k) == Appending(ReflectionRecorded(subject(k)))
               task(k) == OpenTask(subject(k))
               f == Cardinality(failed)
               reviewing == CallBoth(f, reflection, task)
               missing == IF supported THEN <<>> ELSE MissingEvidence(target)
               lesson == IF completed = {} /\ failed = {} THEN <<>> ELSE Lesson(target)
    <2>1. n \in Nat /\ f \in Nat /\ 2 * f \in Nat
        <3>1. completed \in SUBSET (DOMAIN log) /\ failed \in SUBSET (DOMAIN log)
            BY DEF StepsThat, Steps, Positions
        <3>2. n \in Nat /\ f \in Nat
            BY <3>1, PositionsAreFinite
        <3>3. QED BY <3>2
    <2>2. Planned(learning)
        <3>1. learning = [k \in 1..n |-> Learn(InOrder(completed)[k], FALSE)]
            BY DEF CallEach
        <3> HIDE DEF n, completed, learning
        <3>2. \A k \in 1..n : PlanCall(learning[k])
            BY <3>1, FreeCalls
        <3>3. QED BY <2>1, <3>1, <3>2, BuiltIsSound
    <2>3. Planned(reviewing)
        <3>1. reviewing = [k \in 1..2 * f |-> IF k % 2 = 1 THEN reflection((k + 1) \div 2)
                                              ELSE task(k \div 2)]
            BY DEF CallBoth
        <3> HIDE DEF subject
        <3>2. \A k : PlanCall(reflection(k)) /\ PlanCall(task(k))
            BY PlainEvents, AppendingIsSound, FreeCalls
        <3> HIDE DEF f, reflection, task, reviewing
        <3>3. \A k \in 1..2 * f : PlanCall(reviewing[k])
            BY <3>1, <3>2
        <3>4. QED BY <2>1, <3>1, <3>3, BuiltIsSound
    <2>4. Planned(missing)
        <3> HIDE DEF supported
        <3>1. QED BY <1>3, <1>4
    <2>5. Planned(lesson)
        <3> HIDE DEF completed, failed
        <3>1. QED BY <1>1, <1>4
    <2>6. MissionPlan(target) = learning \o reviewing \o missing \o lesson
        BY DEF MissionPlan
    <2> HIDE DEF learning, reviewing, missing, lesson
    <2>7. Planned(MissionPlan(target))
        BY <2>2, <2>3, <2>4, <2>5, <2>6, JoinedPlans
    <2>8. QED BY <1>6, <2>7 DEF Plan
<1>7. CASE scope = "session"
    <2>1. Planned(<<Appending(GrowthProposed)>>)
        BY PlainEvents, AppendingIsSound, OneCall
    <2>2. QED BY <1>7, <2>1 DEF Plan
<1>8. QED BY <1>5, <1>6, <1>7

LEMMA LearningPreserves ==
    ASSUME Inv, NEW p \in Procs, UNCHANGED ran,
           \/ run_learning_review(p) \/ apply_learning_plan(p) \/ open_tasks_from_reflection(p)
           \/ update_reflection_task(p) \/ close_mission_tasks(p)
    PROVE  Inv'
<1>1. CASE run_learning_review(p)
    <2> DEFINE plan == IF Call(p).apply THEN Plan(Call(p).scope, Call(p).target) ELSE <<>>
               create == Creating(LearningStarted, ApplyPlan(plan))
    <2>1. todo[p] # Idle /\ Return(p, TRUE, <<create>>)
        BY <1>1 DEF run_learning_review, Called
    <2>2. Call(p).scope \in {"step", "mission", "session"}
        BY <1>1, <2>1, HeadCall DEF run_learning_review, Called, Call, CallSound
    <2>3. Planned(plan)
        BY <2>2, PlansArePlanned, NoCalls
    <2> HIDE DEF plan
    <2>4. CallSound(log, ran, create)
        BY <2>3, PlainEvents DEF CallSound, Creating, Following
    <2> HIDE DEF create
    <2>5. QED BY <2>1, <2>4, OneCall, Returned
<1>2. CASE apply_learning_plan(p)
    <2> DEFINE completed == <<Appending(LearningCompleted(Call(p).own))>>
    <2>1. todo[p] # Idle /\ Return(p, TRUE, Call(p).plan \o completed)
        BY <1>2 DEF apply_learning_plan, Called
    <2>2. Sound(log, ran, Call(p).plan)
        <3>1. Planned(Call(p).plan)
            BY <1>2, <2>1, HeadCall DEF apply_learning_plan, Called, Call, CallSound
        <3>2. QED BY <3>1, PlannedIsSound
    <2>3. Sound(log, ran, completed)
        BY PlainEvents, AppendingIsSound, OneCall
    <2> HIDE DEF completed
    <2>4. QED BY <2>1, <2>2, <2>3, Joined, Returned
<1>3. CASE open_tasks_from_reflection(p)
    <2> DEFINE task == TaskOpened(Call(p).subject)
               exists == \E t \in OpenTasks(log) : log[t] = task
               next == IF exists THEN <<>> ELSE <<Appending(task)>>
    <2>1. todo[p] # Idle /\ Return(p, TRUE, next)
        BY <1>3 DEF open_tasks_from_reflection, Called
    <2>2. Sound(log, ran, next)
        <3>1. Sound(log, ran, <<Appending(task)>>)
            BY PlainEvents, AppendingIsSound, OneCall
        <3> HIDE DEF exists, task
        <3>2. QED BY <3>1, NoCalls
    <2> HIDE DEF next
    <2>3. QED BY <2>1, <2>2, Returned
<1>4. CASE update_reflection_task(p)
    <2>1. todo[p] # Idle /\ Call(p).how \in TaskClosing
        BY <1>4, HeadCall DEF update_reflection_task, Called, Call, CallSound
    <2>2. Plain(TaskClosed(Call(p).how, Call(p).task))
        BY <2>1, PlainEvents
    <2>3. QED BY <1>4, <2>1, <2>2, OneAppended DEF update_reflection_task
<1>5. CASE close_mission_tasks(p)
    <2> DEFINE naming == {t \in OpenTasks(log) :
                             log[t].subject = Subject("evidence", Call(p).mission)}
               n == Cardinality(naming)
               calls == CallEach(n, LAMBDA k : CloseTask(InOrder(naming)[k], Call(p).how))
    <2>1. todo[p] # Idle /\ Return(p, TRUE, calls)
        BY <1>5 DEF close_mission_tasks, Called
    <2>2. n \in Nat
        BY PositionsAreFinite DEF OpenTasks, Tasks, Positions
    <2>3. calls = [k \in 1..n |-> CloseTask(InOrder(naming)[k], Call(p).how)]
        BY DEF CallEach
    <2>4. Call(p).how \in TaskClosing
        BY <1>5, <2>1, HeadCall DEF close_mission_tasks, Called, Call, CallSound
    <2> HIDE DEF n, naming, calls
    <2>5. \A k \in 1..n : CallSound(log, ran, calls[k])
        BY <2>3, <2>4 DEF CallSound, CloseTask
    <2>6. Sound(log, ran, calls)
        BY <2>2, <2>3, <2>5, BuiltIsSound
    <2>7. QED BY <2>1, <2>6, Returned
<1>6. QED BY <1>1, <1>2, <1>3, <1>4, <1>5

LEMMA CrashPreserves ==
    ASSUME Inv, NEW p \in Procs, Crash(p), UNCHANGED ran
    PROVE  Inv'
<1>1. todo' = [todo EXCEPT ![p] = <<>>] /\ UNCHANGED <<log, ran>>
    BY DEF Crash, Idle
<1>2. QED BY <1>1, NoCalls, CallsReplaced

-----------------------------------------------------------------------------
(* The invariant.                                                          *)

(* Every command and every call leaves the ledger, the runs and what       *)
(* handlers are about to do sound.                                         *)
LEMMA InvHolds == Spec => []Inv
<1>1. Init => Inv
    <2> SUFFICES ASSUME Init PROVE Inv
        OBVIOUS
    <2>1. log \in Seq(StartEvent) /\ todo = [p \in Procs |-> <<>>] /\ ran = {}
        BY WorkAssumption DEF Init, HandlersInit, Idle, Opening
    <2>2. \A e \in StartEvent : Plain(e)
        BY DEF StartEvent, Plain, ActionReviewed, MissionOpened, SessionStarted, GoalCreated,
               GoalWritten
    <2>3. LogSound(log, ran)
        BY <2>1, <2>2 DEF LogSound, IsSequence
    <2>4. \A p \in Procs : Sound(log, ran, todo[p])
        BY <2>1, NoCalls
    <2>5. QED BY <2>1, <2>3, <2>4 DEF Inv, RunsSound
<1>2. Inv /\ [Next]_vars => Inv'
    <2> SUFFICES ASSUME Inv, [Next]_vars PROVE Inv'
        OBVIOUS
    <2>1. CASE UNCHANGED vars
        BY <2>1 DEF Inv, vars, handlers
    <2>2. ASSUME NEW p \in Procs, Command(p), UNCHANGED ran PROVE Inv'
        BY <2>2, CommandPreserves
    <2>3. ASSUME NEW p \in Procs, Step(p), UNCHANGED ran PROVE Inv'
        BY <2>3, AppendPreserves, AutonomyPreserves, SkillsPreserve, EvidencePreserves,
           GoalsPreserve, LearningPreserves DEF Step
    <2>4. ASSUME NEW p \in Procs, Crash(p), UNCHANGED ran PROVE Inv'
        BY <2>4, CrashPreserves
    <2>5. ASSUME NEW p \in Procs, execute_allowed_action(p) PROVE Inv'
        BY <2>5, ExecutionPreserves
    <2>6. QED BY <2>1, <2>2, <2>3, <2>4, <2>5 DEF Next
<1>3. QED BY <1>1, <1>2, PTL DEF Spec

(* An autonomy action runs only after a steward approved it, and is        *)
(* recorded as executed only if it was approved and has run, or, as        *)
(* failed, if it is approval-only: for any number of processes,            *)
(* overlapping in any order, any of them killed between any two of its     *)
(* calls (autonomy_queue.py:266-296).                                      *)
THEOREM WorkIsApproved == Spec => []ExecutedOnApproval
<1>1. Inv => ExecutedOnApproval
    <2> SUFFICES ASSUME Inv PROVE ExecutedOnApproval
        OBVIOUS
    <2>1. \A r \in ran : ApprovedBefore(r.item, r.at)
        BY DEF Inv, RunsSound, ApprovedBy, ApprovedBefore
    <2>2. ASSUME NEW n \in Positions(log, "autonomy.action_executed")
          PROVE  LET i == log[n].item IN
                 /\ ApprovedBefore(i, n)
                 /\ IF log[i].action = "approval_only" THEN log[n].status = "failed"
                    ELSE \E r \in ran : r.item = i /\ r.at < n
        <3>1. n \in 1..Len(log) /\ Len(log) \in Nat /\ log[n].type = "autonomy.action_executed"
            BY DEF Inv, LogSound, IsSequence, Positions
        <3>2. Backed(log, ran, log[n], n - 1)
            BY <3>1 DEF Inv, LogSound, Plain
        <3>3. ApprovedBefore(log[n].item, n)
            BY <3>1, <3>2 DEF Backed, ApprovedBy, ApprovedBefore
        <3>4. \A r \in ran : r.at \in 0..Len(log)
            BY DEF Inv, RunsSound
        <3>5. QED BY <3>1, <3>2, <3>3, <3>4 DEF Backed
    <2>3. QED BY <2>1, <2>2 DEF ExecutedOnApproval
<1>2. QED BY <1>1, InvHolds, PTL

-----------------------------------------------------------------------------
(* The order of calls.                                                     *)

Says(c, type) == c.do = "append" /\ c.event.type = type
ByRepetition(c) == Says(c, "skill.candidate_proposed") /\ c.event.auto
Updating(c) == Says(c, "evidence.updated")
Failed(e) == e.type = "autonomy.action_executed" /\ e.status = "failed"
OwnTask(e) == TaskOpened(Subject("autonomy", e.item))

\* Calls that stand behind no other call.
Leading(c) ==
    \/ c.do \in {"run", "propose_repeated"}
    \/ Says(c, "autonomy.action_reviewed") \/ Says(c, "skill.candidate_reviewed")
    \/ Says(c, "evidence.reviewed")
Tasking(c) == c.do = "open_task" \/ Says(c, "reflection.task_opened")
Mild(c) == c.do = "propose_skill" /\ ~c.strict   \* does not raise

\* Call x may be in front of call y in what a handler has yet to do.
MayPrecede(x, y) ==
    /\ ~Leading(y)
    /\ Says(y, "autonomy.action_executed") =>
           Says(x, "coherence_research.cycle_ran") \/ Says(x, "evidence.added")
    /\ ByRepetition(y) => \/ Says(x, "checkpoint.skill_candidate_proposed")
                          \/ ByRepetition(x) /\ x.event.steps \cap y.event.steps = {}
    /\ Updating(y) => x = Appending(EvidenceReviewed(y.event.evidence, y.event.status))
    /\ Tasking(y) => x.do \in {"append", "open_task"} \/ Mild(x)

\* A failed execution and a reflection are followed by their task, and a
\* review of evidence by its update.
Opens(c, subject) == c = OpenTask(subject) \/ c = Appending(TaskOpened(subject))
Owes(c, d) ==
    \/ Failed(c.event) /\ d = Appending(OwnTask(c.event))
    \/ c.event.type = "lucien.reflection_recorded" /\ Opens(d, c.event.subject)
    \/ /\ c.event.type = "evidence.reviewed"
       /\ d = Appending(EvidenceUpdated(c.event.evidence, c.event.status))
Owing(c) ==
    /\ c.do = "append"
    /\ Failed(c.event) \/ c.event.type \in {"lucien.reflection_recorded", "evidence.reviewed"}

Ordered(calls) ==
    /\ IsSequence(calls)
    /\ \A j, k \in 1..Len(calls) : j < k => MayPrecede(calls[j], calls[k])
    /\ \A j \in 1..Len(calls) : Owing(calls[j]) =>
          \E k \in 1..Len(calls) : j < k /\ Owes(calls[j], calls[k])

\* Calls that may stand behind any other, and that any call leaves current.
Simple(c) ==
    ~(Leading(c) \/ Says(c, "autonomy.action_executed") \/ ByRepetition(c) \/ Updating(c)
      \/ Tasking(c) \/ Owing(c))

-----------------------------------------------------------------------------
(* What the calls and the events refer to.                                 *)

\* An event behind n others.
EventGrounded(e, n) ==
    /\ e.type = "autonomy.action_reviewed" => e.item \in 1..n /\ e.status \in AutonomyReview
    /\ e.type = "skill.candidate_reviewed" => e.skill \in 1..n /\ e.status \in SkillReview
    /\ e.type \in {"evidence.reviewed", "evidence.updated"} => e.evidence \in 1..n
    /\ e.type \in TaskClosing => e.task \in 1..n

StepOfPlan(c) ==
    \/ Mild(c) \/ c.do = "open_task"
    \/ c.do = "append" /\ c.event.type \in {"mission.item_added", "lucien.growth_proposed",
                                            "lucien.reflection_recorded"}
Orderly(plan) == Ordered(plan) /\ \A c \in Listed(plan) : StepOfPlan(c)

CallGrounded(n, c) ==
    /\ c.do = "append" => EventGrounded(c.event, n)
    /\ c.do = "review_item" => c.item \in 1..n /\ c.status \in AutonomyReview
    /\ c.do = "review_skill" => c.skill \in 1..n /\ c.status \in SkillReview
    /\ c.do = "apply_plan" => Orderly(c.plan)
    /\ c.do = "create" =>
           /\ c.event.type \in {"learning_review.started", "evidence.claim_recorded",
                                "evidence.added"}
           /\ c.then.do \in {"link", "link_cited", "apply_plan"}
           /\ c.then.do = "apply_plan" => Orderly(c.then.plan)

GroundedInv ==
    /\ \A i \in 1..Len(log) : EventGrounded(log[i], i - 1)
    /\ \A p \in Procs : Ordered(todo[p])
    /\ \A p \in Procs : \A c \in Listed(todo[p]) : CallGrounded(Len(log), c)

\* What call c has read, or has yet to append, is so.
Current(evs, c) ==
    /\ c.do = "run" => Executions(evs, c.item) = {}
    /\ Says(c, "autonomy.action_executed") => Executions(evs, c.event.item) = {}
    /\ Says(c, "autonomy.action_reviewed") => ItemReviews(evs, c.event.item) = {}
    /\ Says(c, "skill.candidate_reviewed") => SkillReviews(evs, c.event.skill) = {}
    /\ c.do = "propose_repeated" => c.sources = SourceSteps(evs)
    /\ ByRepetition(c) => c.event.steps \cap SourceSteps(evs) = {}

\* What call c hands on to call d, if it leads to it.
LeadsTo(evs, c, d) ==
    /\ CallGrounded(Len(evs), d)
    /\ Current(evs, c) => Current(evs, d)
    /\ \A y : MayPrecede(c, y) => MayPrecede(d, y)

Leads(evs, c, calls) == Ordered(calls) /\ \A d \in Listed(calls) : LeadsTo(evs, c, d)

-----------------------------------------------------------------------------
(* Lists of calls in order.                                                *)

LEMMA NoneOrdered == Ordered(<<>>) /\ Listed(<<>>) = {} /\ \A evs, c : Leads(evs, c, <<>>)
<1> DEFINE none == <<>>
<1>1. IsSequence(none) /\ 1..Len(none) = {}
    BY NoElement
<1> HIDE DEF none
<1>2. Ordered(none) /\ Listed(none) = {}
    BY <1>1 DEF Ordered, Listed
<1>3. \A evs, c : Leads(evs, c, none)
    BY <1>2 DEF Leads
<1>4. QED BY <1>2, <1>3 DEF none

LEMMA OneOrdered ==
    ASSUME NEW c
    PROVE  Listed(<<c>>) = {c} /\ (~Owing(c) => Ordered(<<c>>))
<1> DEFINE one == <<c>>
<1>1. IsSequence(one) /\ 1..Len(one) = {1} /\ one[1] = c
    BY OneElement
<1> HIDE DEF one
<1>2. Listed(one) = {c} /\ (~Owing(c) => Ordered(one))
    BY <1>1 DEF Ordered, Listed
<1>3. QED BY <1>2 DEF one

LEMMA TwoOrdered ==
    ASSUME NEW c, NEW d, MayPrecede(c, d), Owing(c) => Owes(c, d), ~Owing(d)
    PROVE  Ordered(<<c, d>>) /\ Listed(<<c, d>>) = {c, d}
<1> DEFINE two == <<c, d>>
<1>1. IsSequence(two) /\ 1..Len(two) = {1, 2} /\ two[1] = c /\ two[2] = d
    BY TwoElements
<1> HIDE DEF two
<1>2. Ordered(two) /\ Listed(two) = {c, d}
    BY <1>1 DEF Ordered, Listed
<1>3. QED BY <1>2 DEF two

LEMMA JoinedOrdered ==
    ASSUME NEW s, NEW t, Ordered(s), Ordered(t),
           \A x \in Listed(s), y \in Listed(t) : MayPrecede(x, y)
    PROVE  Ordered(s \o t) /\ Listed(s \o t) = Listed(s) \cup Listed(t)
<1> DEFINE calls == s \o t
<1>1. /\ IsSequence(calls) /\ Len(s) \in Nat /\ Len(t) \in Nat
      /\ Len(calls) = Len(s) + Len(t)
      /\ \A k \in 1..Len(s) : calls[k] = s[k]
      /\ \A k \in Len(s) + 1..Len(calls) : k - Len(s) \in 1..Len(t) /\ calls[k] = t[k - Len(s)]
    BY Concatenated DEF Ordered
<1>2. Listed(calls) = Listed(s) \cup Listed(t)
    BY JoinedList DEF Ordered
<1> HIDE DEF calls
<1>3. \A k \in 1..Len(t) : k + Len(s) \in Len(s) + 1..Len(calls) /\ calls[k + Len(s)] = t[k]
    BY <1>1
<1>4. \A j \in 1..Len(s), k \in 1..Len(t) : MayPrecede(s[j], t[k])
    BY DEF Listed
<1>5. ASSUME NEW j \in 1..Len(calls), NEW k \in 1..Len(calls), j < k
      PROVE  MayPrecede(calls[j], calls[k])
    <2>1. CASE k \in 1..Len(s)
        <3>1. j \in 1..Len(s)
            BY <1>1, <1>5, <2>1
        <3>2. QED BY <1>1, <1>5, <2>1, <3>1 DEF Ordered
    <2>2. CASE k \in Len(s) + 1..Len(calls)
        <3>1. CASE j \in 1..Len(s)
            BY <1>1, <1>4, <2>2, <3>1
        <3>2. CASE j \in Len(s) + 1..Len(calls)
            <4>1. j - Len(s) < k - Len(s)
                BY <1>1, <1>5, <2>2, <3>2
            <4>2. QED BY <1>1, <2>2, <3>2, <4>1 DEF Ordered
        <3>3. QED BY <1>1, <3>1, <3>2
    <2>3. QED BY <1>1, <2>1, <2>2
<1>6. ASSUME NEW j \in 1..Len(calls), Owing(calls[j])
      PROVE  \E k \in 1..Len(calls) : j < k /\ Owes(calls[j], calls[k])
    <2>1. CASE j \in 1..Len(s)
        <3>1. PICK k \in 1..Len(s) : j < k /\ Owes(s[j], s[k])
            BY <1>1, <1>6, <2>1 DEF Ordered
        <3>2. k \in 1..Len(calls) /\ calls[k] = s[k] /\ calls[j] = s[j]
            BY <1>1, <2>1
        <3>3. QED BY <3>1, <3>2
    <2>2. CASE j \in Len(s) + 1..Len(calls)
        <3>1. j - Len(s) \in 1..Len(t) /\ calls[j] = t[j - Len(s)]
            BY <1>1, <2>2
        <3>2. PICK k \in 1..Len(t) : j - Len(s) < k /\ Owes(t[j - Len(s)], t[k])
            BY <1>6, <3>1 DEF Ordered
        <3>3. k + Len(s) \in 1..Len(calls) /\ calls[k + Len(s)] = t[k] /\ j < k + Len(s)
            BY <1>1, <1>3, <2>2, <3>2
        <3>4. QED BY <3>1, <3>2, <3>3
    <2>3. QED BY <1>1, <2>1, <2>2
<1>7. QED BY <1>1, <1>2, <1>5, <1>6 DEF Ordered, calls

(* A list built call by call.                                              *)
LEMMA EachOrdered ==
    ASSUME NEW n \in Nat, NEW calls, calls = [k \in 1..n |-> calls[k]],
           \A j, k \in 1..n : j < k => MayPrecede(calls[j], calls[k]),
           \A j \in 1..n : Owing(calls[j]) =>
              \E k \in 1..n : j < k /\ Owes(calls[j], calls[k])
    PROVE  /\ Ordered(calls) /\ Len(calls) = n
           /\ \A d \in Listed(calls) : \E k \in 1..n : d = calls[k]
<1>1. IsSequence(calls) /\ Len(calls) = n
    BY BuiltCalls
<1>2. QED BY <1>1 DEF Ordered, Listed

LEMMA TailOrdered ==
    ASSUME NEW calls, Ordered(calls), calls # <<>>
    PROVE  /\ Ordered(Tail(calls)) /\ Listed(calls) = {Head(calls)} \cup Listed(Tail(calls))
           /\ \A y \in Listed(Tail(calls)) : MayPrecede(Head(calls), y)
           /\ Owing(Head(calls)) => \E y \in Listed(Tail(calls)) : Owes(Head(calls), y)
<1> DEFINE rest == Tail(calls)
<1>1. /\ Head(calls) = calls[1] /\ Len(calls) \in Nat \ {0}
      /\ IsSequence(rest) /\ Len(rest) = Len(calls) - 1
      /\ \A k \in 1..Len(rest) : k + 1 \in 2..Len(calls) /\ rest[k] = calls[k + 1]
    BY HeadAndTail DEF Ordered
<1> HIDE DEF rest
<1>2. ASSUME NEW j \in 1..Len(rest), NEW k \in 1..Len(rest), j < k
      PROVE  MayPrecede(rest[j], rest[k])
    <2>1. j + 1 < k + 1 /\ j + 1 \in 1..Len(calls) /\ k + 1 \in 1..Len(calls)
        BY <1>1, <1>2
    <2>2. QED BY <1>1, <2>1 DEF Ordered
<1>3. ASSUME NEW j \in 1..Len(rest), Owing(rest[j])
      PROVE  \E k \in 1..Len(rest) : j < k /\ Owes(rest[j], rest[k])
    <2>1. j + 1 \in 1..Len(calls) /\ rest[j] = calls[j + 1]
        BY <1>1
    <2>2. PICK k \in 1..Len(calls) : j + 1 < k /\ Owes(calls[j + 1], calls[k])
        BY <1>3, <2>1 DEF Ordered
    <2>3. k - 1 \in 1..Len(rest) /\ rest[k - 1] = calls[k] /\ j < k - 1
        BY <1>1, <2>2
    <2>4. QED BY <2>1, <2>2, <2>3
<1>4. \A k \in 2..Len(calls) : k - 1 \in 1..Len(rest) /\ calls[k] = rest[k - 1]
    BY <1>1
<1>5. 1 \in 1..Len(calls) /\ \A k \in 1..Len(calls) : k = 1 \/ k \in 2..Len(calls)
    BY <1>1
<1>6. \A k \in 1..Len(rest) : k + 1 \in 1..Len(calls) /\ 1 < k + 1 /\ rest[k] = calls[k + 1]
    BY <1>1
<1>7. \A y \in Listed(rest) : MayPrecede(calls[1], y)
    BY <1>5, <1>6 DEF Ordered, Listed
<1>8. Listed(calls) = {calls[1]} \cup Listed(rest)
    <2>1. \A x \in Listed(calls) : x \in {calls[1]} \cup Listed(rest)
        BY <1>4, <1>5 DEF Listed
    <2>2. \A x \in Listed(rest) : x \in Listed(calls)
        BY <1>6 DEF Listed
    <2>3. calls[1] \in Listed(calls)
        BY <1>5 DEF Listed
    <2>4. QED BY <2>1, <2>2, <2>3
<1>9. ASSUME Owing(calls[1]) PROVE \E y \in Listed(rest) : Owes(calls[1], y)
    <2>1. PICK k \in 1..Len(calls) : 1 < k /\ Owes(calls[1], calls[k])
        BY <1>5, <1>9 DEF Ordered
    <2>2. k - 1 \in 1..Len(rest) /\ calls[k] = rest[k - 1]
        BY <1>4, <1>5, <2>1
    <2>3. QED BY <2>1, <2>2 DEF Listed
<1>10. QED BY <1>1, <1>2, <1>3, <1>7, <1>8, <1>9 DEF Ordered, rest

-----------------------------------------------------------------------------
(* What calls hand on.                                                     *)

\* Calls that raise, or that lead to calls of any kind.
Easy(c) == c.do \notin {"append", "open_task"} /\ ~Mild(c)

LEMMA Inherited ==
    ASSUME NEW c, NEW d, Easy(c) \/ (c.do # "append" /\ d.do = "append"), NEW y,
           MayPrecede(c, y)
    PROVE  MayPrecede(d, y)
BY DEF Easy, MayPrecede, Says, ByRepetition, Appending

LEMMA SimpleStands ==
    ASSUME NEW d, Simple(d)
    PROVE  (\A x : MayPrecede(x, d)) /\ (\A evs : Current(evs, d)) /\ ~Owing(d)
BY DEF Simple, MayPrecede, Current, Leading

LEMMA SimpleLeads ==
    ASSUME NEW evs, NEW c, NEW d, Easy(c) \/ (c.do # "append" /\ d.do = "append"),
           Simple(d), CallGrounded(Len(evs), d)
    PROVE  LeadsTo(evs, c, d)
BY Inherited, SimpleStands DEF LeadsTo

LEMMA OneSimple ==
    ASSUME NEW evs, NEW c, NEW d, Easy(c) \/ (c.do # "append" /\ d.do = "append"),
           Simple(d), CallGrounded(Len(evs), d)
    PROVE  Leads(evs, c, <<d>>)
BY SimpleLeads, SimpleStands, OneOrdered DEF Leads

LEMMA ManySimple ==
    ASSUME NEW evs, NEW c, Easy(c), NEW n \in Nat, NEW calls, calls = [k \in 1..n |-> calls[k]],
           \A k \in 1..n : Simple(calls[k]) /\ CallGrounded(Len(evs), calls[k])
    PROVE  Leads(evs, c, calls) /\ \A d \in Listed(calls) : Simple(d)
<1>1. \A j, k \in 1..n : MayPrecede(calls[j], calls[k])
    BY SimpleStands
<1>2. \A k \in 1..n : LeadsTo(evs, c, calls[k]) /\ ~Owing(calls[k])
    BY SimpleLeads, SimpleStands
<1>3. Ordered(calls) /\ \A d \in Listed(calls) : \E k \in 1..n : d = calls[k]
    BY <1>1, <1>2, EachOrdered
<1>4. QED BY <1>2, <1>3 DEF Leads

-----------------------------------------------------------------------------
(* The forms of a step.                                                    *)

PassesOn(evs, c, next) ==
    /\ Len(next) # 0 => ~Updating(next[1])
    /\ c.do = "open_task" => \/ \E t \in OpenTasks(evs) : evs[t] = TaskOpened(c.subject)
                             \/ Appending(TaskOpened(c.subject)) \in Listed(next)

Runs(p) ==
    \/ ran' = ran
    \/ Call(p).do = "run" /\ ran' = ran \cup {[item |-> Call(p).item, at |-> Len(log)]}

Commands(p, c) ==
    /\ todo[p] = Idle /\ todo' = [todo EXCEPT ![p] = <<c>>]
    /\ overlap' = (overlap \/ ~Quiescent) /\ UNCHANGED <<log, ran, killed>>
    /\ Simple(c) /\ CallGrounded(Len(log), c)

Returns(p, next) ==
    /\ todo[p] # Idle /\ Call(p).do \notin {"append", "create"}
    /\ todo' = [todo EXCEPT ![p] = next \o Tail(todo[p])]
    /\ Runs(p) /\ UNCHANGED <<log, overlap, killed>>
    /\ Leads(log, Call(p), next) /\ PassesOn(log, Call(p), next)

Appends(p) ==
    /\ todo[p] # Idle /\ Call(p).do = "append"
    /\ log' = Append(log, Call(p).event) /\ todo' = [todo EXCEPT ![p] = Tail(todo[p])]
    /\ UNCHANGED <<ran, overlap, killed>>

Created(p) == [Call(p).then EXCEPT !.own = Len(log) + 1]
Creates(p) ==
    /\ todo[p] # Idle /\ Call(p).do = "create"
    /\ log' = Append(log, Call(p).event)
    /\ todo' = [todo EXCEPT ![p] = <<Created(p)>> \o Tail(todo[p])]
    /\ UNCHANGED <<ran, overlap, killed>>

Ends(p) ==
    /\ todo[p] # Idle /\ todo' = [todo EXCEPT ![p] = Idle]
    /\ Runs(p) /\ UNCHANGED <<log, overlap>>
    /\ killed' \/ (Easy(Call(p)) /\ killed' = killed)

Form(p) ==
    \/ \E c : Commands(p, c)
    \/ \E next : Returns(p, next)
    \/ Appends(p) \/ Creates(p) \/ Ends(p)

LEMMA Turned ==
    ASSUME NEW p \in Procs, NEW next, NEW allowed, Return(p, allowed, next), Runs(p),
           todo[p] # Idle, Call(p).do \notin {"append", "create"},
           allowed => Leads(log, Call(p), next) /\ PassesOn(log, Call(p), next),
           ~allowed => Easy(Call(p))
    PROVE  Form(p)
<1>1. CASE allowed
    <2>1. Returns(p, next)
        BY <1>1 DEF Return, Returns
    <2>2. QED BY <2>1 DEF Form
<1>2. CASE ~allowed
    <2>1. Ends(p)
        BY <1>2 DEF Return, Ends
    <2>2. QED BY <2>1 DEF Form
<1>3. QED BY <1>1, <1>2

\* Calls that lead to simple ones.
LEMMA PassesSimple ==
    ASSUME NEW evs, NEW c, Easy(c), NEW next, Ordered(next),
           \A d \in Listed(next) : ~Updating(d)
    PROVE  PassesOn(evs, c, next)
<1>1. Len(next) # 0 => 1 \in 1..Len(next)
    BY DEF Ordered, IsSequence
<1>2. QED BY <1>1 DEF PassesOn, Easy, Listed

LEMMA TurnedOne ==
    ASSUME NEW p \in Procs, NEW d, NEW allowed, Return(p, allowed, <<d>>), UNCHANGED ran,
           todo[p] # Idle, Call(p).do # "create", Easy(Call(p)),
           Simple(d), allowed => CallGrounded(Len(log), d)
    PROVE  Form(p)
<1> DEFINE next == <<d>>
<1>1. allowed => Leads(log, Call(p), next)
    BY OneSimple
<1>2. Ordered(next) /\ Listed(next) = {d} /\ ~Updating(d)
    BY SimpleStands, OneOrdered DEF Simple
<1> HIDE DEF next
<1>3. PassesOn(log, Call(p), next)
    BY <1>2, PassesSimple
<1>4. Return(p, allowed, next)
    BY DEF next
<1>5. QED BY <1>1, <1>3, <1>4, Turned DEF Runs, Easy

LEMMA TurnedEach ==
    ASSUME NEW p \in Procs, NEW n \in Nat, NEW calls, calls = [k \in 1..n |-> calls[k]],
           Return(p, TRUE, calls), UNCHANGED ran,
           todo[p] # Idle, Call(p).do # "create", Easy(Call(p)),
           \A k \in 1..n : Simple(calls[k]) /\ CallGrounded(Len(log), calls[k])
    PROVE  Form(p)
<1>1. Leads(log, Call(p), calls) /\ \A d \in Listed(calls) : Simple(d)
    BY ManySimple
<1>2. PassesOn(log, Call(p), calls)
    BY <1>1, PassesSimple DEF Simple, Leads
<1>3. QED BY <1>1, <1>2, Turned DEF Runs, Easy

LEMMA Commanded ==
    ASSUME NEW p \in Procs, NEW command, NEW c, Begin(p, command, <<c>>), UNCHANGED ran,
           Simple(c), CallGrounded(Len(log), c)
    PROVE  Form(p)
<1>1. Commands(p, c)
    BY DEF Begin, BeginCalls, MayBegin, Commands
<1>2. QED BY <1>1 DEF Form

LEMMA HeadGrounded ==
    ASSUME GroundedInv, NEW p \in Procs, todo[p] # Idle
    PROVE  CallGrounded(Len(log), Call(p))
<1>1. Call(p) \in Listed(todo[p])
    BY TailOrdered DEF GroundedInv, Call, Idle
<1>2. QED BY <1>1 DEF GroundedInv

LEMMA LedgerPositions ==
    ASSUME Inv
    PROVE  /\ IsSequence(log) /\ Len(log) \in Nat /\ DOMAIN log = 1..Len(log)
           /\ \A type, i : i \in Positions(log, type) <=> i \in 1..Len(log) /\ log[i].type = type
<1>1. IsSequence(log) /\ Len(log) \in Nat /\ DOMAIN log = 1..Len(log)
    BY DEF Inv, LogSound, IsSequence
<1>2. QED BY <1>1 DEF Positions

-----------------------------------------------------------------------------
(* Commands begin with a simple call.                                      *)

LEMMA SimpleAppends ==
    ASSUME NEW e,
           e.type \notin {"autonomy.action_reviewed", "skill.candidate_reviewed",
                          "evidence.reviewed", "autonomy.action_executed",
                          "skill.candidate_proposed", "evidence.updated",
                          "reflection.task_opened", "lucien.reflection_recorded"}
    PROVE  Simple(Appending(e)) /\ ~Says(Appending(e), "evidence.updated")
BY DEF Simple, Leading, Says, ByRepetition, Updating, Tasking, Owing, Failed, Appending

LEMMA GroundedAppends ==
    ASSUME NEW e, NEW n, EventGrounded(e, n)
    PROVE  CallGrounded(n, Appending(e))
BY DEF CallGrounded, Appending

LEMMA SimpleEvents ==
    ASSUME NEW n
    PROVE  /\ \A s, outcome : EventGrounded(StepSettled(s, outcome), n)
           /\ \A action : EventGrounded(ActionProposed(action), n)
           /\ EventGrounded(ResearchCycleRan, n)
           /\ \A steps, auto : EventGrounded(SkillProposed(steps, auto), n)
           /\ \A m, steps : EventGrounded(CheckpointLinked(m, steps), n)
           /\ \A c : EventGrounded(CheckpointLesson(c), n)
           /\ \A links, steps : EventGrounded(CheckpointSkill(links, steps), n)
           /\ \A packet : EventGrounded(EvidenceAdded(packet), n)
           /\ \A cited : EventGrounded(EvidenceClaimed(cited), n)
           /\ \A e, target : EventGrounded(EvidenceLinked(e, target), n)
           /\ \A type \in GoalUpdate \cup {"goal.created"} : \A g, status, missions, blockers :
                 EventGrounded(GoalWritten(type, g, status, missions, blockers), n)
           /\ EventGrounded(GoalCreated, n)
           /\ \A m, kind : EventGrounded(MissionItemAdded(m, kind), n)
           /\ EventGrounded(GrowthProposed, n) /\ EventGrounded(LearningStarted, n)
           /\ \A r : EventGrounded(LearningCompleted(r), n)
           /\ \A subject : EventGrounded(ReflectionRecorded(subject), n)
           /\ \A subject : EventGrounded(TaskOpened(subject), n)
           /\ \A i, status : EventGrounded(ActionExecuted(i, status), n)
BY DEF EventGrounded, TaskClosing, StepSettled, ActionProposed, ResearchCycleRan, SkillProposed,
       CheckpointLinked, CheckpointLesson, CheckpointSkill, EvidenceAdded, EvidenceClaimed,
       EvidenceLinked, GoalWritten, GoalUpdate, GoalCreated, MissionItemAdded, GrowthProposed,
       LearningStarted, LearningCompleted, ReflectionRecorded, TaskOpened, ActionExecuted

\* Calls that read.
Reading(c) ==
    c.do \notin {"run", "propose_repeated", "append", "open_task", "review_item", "review_skill",
                 "apply_plan", "create"}
LEMMA ReadingIsSimple == ASSUME NEW c, Reading(c), NEW n PROVE Simple(c) /\ CallGrounded(n, c)
BY DEF Reading, Simple, Leading, Says, ByRepetition, Updating, Tasking, Owing, CallGrounded

LEMMA ReadingCalls ==
    /\ \A i : Reading(Item("execute", i)) /\ Reading(Item("not_executed", i))
    /\ Reading(ExecuteApproved) /\ \A done : Reading(ExecuteEach(done))
    /\ \A s, strict : Reading(Learn(s, strict))
    /\ Reading(AutoPropose)
    /\ \A m, steps : Reading(LinkTo(m, steps))
    /\ \A c : Reading(LessonOf(c))
    /\ Reading(AutoProposeFromCheckpoints)
    /\ \A e, target : Reading(Link(e, target))
    /\ \A e, status : Reading(ReviewEvidence(e, status)) /\ Reading(Inbox(e, status))
    /\ \A packet, status : Reading(InboxPacket(packet, status)) /\ Reading(ReviewPacket(packet, status))
    /\ \A g, status, text : Reading(SetGoal(g, status, text))
    /\ \A g, m : Reading(LinkGoal(g, m))
    /\ \A g, b : Reading(BlockGoal(g, b))
    /\ \A cited : Reading(Claim(cited))
    /\ \A scope, target, apply : Reading(ReviewLearning(scope, target, apply))
    /\ \A t, how : Reading(CloseTask(t, how))
    /\ \A m, how : Reading([do |-> "close_tasks", mission |-> m, how |-> how])
BY DEF Reading, Item, ExecuteApproved, ExecuteEach, Learn, AutoPropose,
       LinkTo, LessonOf, AutoProposeFromCheckpoints, Link, Claim, ReviewLearning, CloseTask,
       ReviewEvidence, Inbox, InboxPacket, ReviewPacket, SetGoal, LinkGoal, BlockGoal

LEMMA CommandForms ==
    ASSUME Inv, NEW p \in Procs, Command(p), UNCHANGED ran
    PROVE  Form(p)
<1>1. CASE SettleStep(p) \/ ProposeAction(p) \/ CreateGoal(p)
    <2>1. ASSUME NEW command, NEW e, EventGrounded(e, Len(log)),
                 e.type \in {"mission.step_settled", "autonomy.action_proposed", "goal.created"},
                 Begin(p, command, <<Appending(e)>>)
          PROVE  Form(p)
        BY <2>1, SimpleAppends, GroundedAppends, Commanded
    <2>2. /\ \A s, outcome : StepSettled(s, outcome).type = "mission.step_settled"
          /\ \A action : ActionProposed(action).type = "autonomy.action_proposed"
          /\ GoalCreated.type = "goal.created"
        BY DEF StepSettled, ActionProposed, GoalCreated, GoalWritten
    <2>3. CASE SettleStep(p)
        BY <2>1, <2>2, <2>3, SimpleEvents DEF SettleStep
    <2>4. CASE ProposeAction(p)
        BY <2>1, <2>2, <2>4, SimpleEvents DEF ProposeAction
    <2>5. CASE CreateGoal(p)
        BY <2>1, <2>2, <2>5, SimpleEvents DEF CreateGoal
    <2>6. QED BY <1>1, <2>3, <2>4, <2>5
<1>2. CASE AddEvidence(p)
    <2> DEFINE added == EvidenceAdded("none")
    <2>1. added.type = "evidence.added" /\ EventGrounded(added, Len(log))
        BY SimpleEvents DEF EvidenceAdded
    <2> HIDE DEF added
    <2>2. CASE Begin(p, "evidence-add", <<Appending(added)>>)
        BY <2>1, <2>2, SimpleAppends, GroundedAppends, Commanded
    <2>3. CASE \E m : Begin(p, "evidence-add", <<Creating(added, Link(0, m))>>)
        <3>1. PICK m : Begin(p, "evidence-add", <<Creating(added, Link(0, m))>>)
            BY <2>3
        <3> DEFINE c == Creating(added, Link(0, m))
        <3>2. c.do = "create" /\ c.event = added /\ c.then.do = "link"
            BY DEF Creating, Link
        <3> HIDE DEF c
        <3>3. Simple(c) /\ CallGrounded(Len(log), c)
            BY <2>1, <3>2 DEF Simple, Leading, Says, ByRepetition, Updating, Tasking, Owing,
                              CallGrounded
        <3>4. QED BY <3>1, <3>3, Commanded DEF c
    <2>4. QED BY <1>2, <2>2, <2>3 DEF AddEvidence, added
<1>3. CASE ReviewAction(p)
    <2>1. PICK i \in Items(log), status \in AutonomyReview :
              Begin(p, "autonomy-review", <<ReviewItem(i, status)>>)
        BY <1>3 DEF ReviewAction
    <2> DEFINE c == ReviewItem(i, status)
    <2>2. c.do = "review_item" /\ c.item \in 1..Len(log) /\ c.status \in AutonomyReview
        BY LedgerPositions DEF ReviewItem, Items
    <2> HIDE DEF c
    <2>3. Simple(c) /\ CallGrounded(Len(log), c)
        BY <2>2 DEF Simple, Leading, Says, ByRepetition, Updating, Tasking, Owing, CallGrounded
    <2>4. QED BY <2>1, <2>3, Commanded DEF c
<1>4. CASE ReviewSkillCandidate(p)
    <2>1. PICK k \in Skills(log), status \in SkillReview :
              Begin(p, "skill-review", <<ReviewSkill(k, status)>>)
        BY <1>4 DEF ReviewSkillCandidate
    <2> DEFINE c == ReviewSkill(k, status)
    <2>2. c.do = "review_skill" /\ c.skill \in 1..Len(log) /\ c.status \in SkillReview
        BY LedgerPositions DEF ReviewSkill, Skills
    <2> HIDE DEF c
    <2>3. Simple(c) /\ CallGrounded(Len(log), c)
        BY <2>2 DEF Simple, Leading, Says, ByRepetition, Updating, Tasking, Owing, CallGrounded
    <2>4. QED BY <2>1, <2>3, Commanded DEF c
<1>5. ASSUME NEW command, NEW c, Reading(c), Begin(p, command, <<c>>) PROVE Form(p)
    BY <1>5, ReadingIsSimple, Commanded
<1>6. CASE ExecuteAction(p) \/ ExecuteApprovedActions(p)
    BY <1>5, <1>6, ReadingCalls DEF ExecuteAction, ExecuteApprovedActions
<1>7. CASE ProposeSkill(p) \/ AutoProposeSkills(p)
    BY <1>5, <1>7, ReadingCalls DEF ProposeSkill, AutoProposeSkills
<1>8. CASE LinkCheckpoint(p) \/ ProposeCheckpointLesson(p) \/ ProposeCheckpointSkills(p)
    BY <1>5, <1>8, ReadingCalls
    DEF LinkCheckpoint, ProposeCheckpointLesson, ProposeCheckpointSkills
<1>9. CASE LinkEvidence(p) \/ ClaimEvidence(p)
    BY <1>5, <1>9, ReadingCalls DEF LinkEvidence, ClaimEvidence
<1>10. CASE ReviewSomeEvidence(p)
    BY <1>5, <1>10, ReadingCalls DEF ReviewSomeEvidence
<1>11. CASE UpdateGoal(p)
    BY <1>5, <1>11, ReadingCalls DEF UpdateGoal
<1>12. CASE CloseReviewTasks(p)
    BY <1>5, <1>12, ReadingCalls DEF CloseReviewTasks
<1>13. CASE ReviewLearnings(p)
    BY <1>5, <1>13, ReadingCalls DEF ReviewLearnings
<1>14. QED BY <1>1, <1>2, <1>3, <1>4, <1>6, <1>7, <1>8, <1>9, <1>10, <1>11, <1>12, <1>13
       DEF Command
-----------------------------------------------------------------------------
(* The steps of a handler.                                                 *)

LEMMA TurnedLed ==
    ASSUME NEW p \in Procs, NEW d, NEW allowed, Return(p, allowed, <<d>>), UNCHANGED ran,
           todo[p] # Idle, Call(p).do # "create", Easy(Call(p)), ~Owing(d), ~Updating(d),
           allowed => CallGrounded(Len(log), d),
           allowed /\ Current(log, Call(p)) => Current(log, d)
    PROVE  Form(p)
<1> DEFINE next == <<d>>
<1>1. Ordered(next) /\ Listed(next) = {d}
    BY OneOrdered
<1> HIDE DEF next
<1>2. allowed => Leads(log, Call(p), next)
    BY <1>1, Inherited DEF Leads, LeadsTo
<1>3. PassesOn(log, Call(p), next)
    BY <1>1, PassesSimple
<1>4. Return(p, allowed, next)
    BY DEF next
<1>5. QED BY <1>2, <1>3, <1>4, Turned DEF Runs, Easy

(* Reviews are of earlier events, so a proposed item has none.             *)
LEMMA NotReviewed ==
    ASSUME Inv, GroundedInv, NEW i \in 1..Len(log)
    PROVE  /\ ItemStatus(log, i) = "proposed" => ItemReviews(log, i) = {}
           /\ SkillStatus(log, i) = "proposed" => SkillReviews(log, i) = {}
<1>1. ASSUME NEW R \in SUBSET (1..Len(log)), NEW j \in R, \A k \in R : i < k
      PROVE  Max({i} \cup R) \in R
    <2> DEFINE S == {i} \cup R
    <2>1. Len(log) \in Nat
        BY LedgerPositions
    <2>2. S \in SUBSET (0..Len(log)) /\ S # {} /\ j \in S /\ \A k \in S : k = i \/ k \in R
        BY <2>1
    <2> HIDE DEF S
    <2>3. Max(S) \in S /\ j <= Max(S)
        BY <2>1, <2>2, MaxIsGreatest
    <2>4. Max(S) # i
        BY <1>1, <2>3
    <2>5. Max(S) \in R
        BY <2>2, <2>3, <2>4
    <2>6. QED BY <2>5 DEF S
<1>2. ASSUME ItemStatus(log, i) = "proposed", NEW j \in ItemReviews(log, i) PROVE FALSE
    <2> DEFINE R == ItemReviews(log, i)
    <2>1. \A k \in R : /\ k \in 1..Len(log) /\ log[k].type = "autonomy.action_reviewed"
                       /\ log[k].item = i
        BY LedgerPositions DEF ItemReviews
    <2>2. \A k \in R : i \in 1..k - 1 /\ log[k].status \in AutonomyReview
        BY <2>1 DEF GroundedInv, EventGrounded
    <2>3. \A k \in R : i < k
        BY <2>1, <2>2
    <2> HIDE DEF R
    <2>4. Max({i} \cup R) \in R
        BY <1>1, <1>2, <2>1, <2>3 DEF R
    <2>5. log[Max({i} \cup R)].status \in AutonomyReview
        BY <2>2, <2>4
    <2>6. QED BY <1>2, <2>5 DEF ItemStatus, AutonomyReview, R
<1>3. ASSUME SkillStatus(log, i) = "proposed", NEW j \in SkillReviews(log, i) PROVE FALSE
    <2> DEFINE R == SkillReviews(log, i)
    <2>1. \A k \in R : /\ k \in 1..Len(log) /\ log[k].type = "skill.candidate_reviewed"
                       /\ log[k].skill = i
        BY LedgerPositions DEF SkillReviews
    <2>2. \A k \in R : i \in 1..k - 1 /\ log[k].status \in SkillReview
        BY <2>1 DEF GroundedInv, EventGrounded
    <2>3. \A k \in R : i < k
        BY <2>1, <2>2
    <2> HIDE DEF R
    <2>4. Max({i} \cup R) \in R
        BY <1>1, <1>3, <2>1, <2>3 DEF R
    <2>5. log[Max({i} \cup R)].status \in SkillReview
        BY <2>2, <2>4
    <2>6. QED BY <1>3, <2>5 DEF SkillStatus, SkillReview, R
<1>4. QED BY <1>2, <1>3

LEMMA AutonomyForms ==
    ASSUME Inv, GroundedInv, NEW p \in Procs, UNCHANGED ran,
           \/ review_autonomy_action(p) \/ execute_autonomy_action(p) \/ execution_for_item(p)
           \/ execute_approved_autonomy_actions(p) \/ execute_each(p)
    PROVE  Form(p)
<1> DEFINE i == Call(p).item
<1>1. CASE review_autonomy_action(p)
    <2> DEFINE e == ActionReviewed(i, Call(p).status)
               d == Appending(e)
    <2>1. /\ todo[p] # Idle /\ Call(p).do = "review_item"
          /\ Return(p, ItemStatus(log, i) = "proposed", <<d>>)
        BY <1>1 DEF review_autonomy_action, Called, Call
    <2>2. i \in 1..Len(log) /\ Call(p).status \in AutonomyReview
        BY <2>1, HeadGrounded DEF CallGrounded
    <2>3. d.do = "append" /\ d.event.type = "autonomy.action_reviewed" /\ d.event.item = i
          /\ d.event.status = Call(p).status
        BY DEF Appending, ActionReviewed
    <2> HIDE DEF d, i
    <2>4. /\ CallGrounded(Len(log), d) /\ ~Owing(d) /\ ~Updating(d) /\ Easy(Call(p))
          /\ Call(p).do # "create"
        BY <2>1, <2>2, <2>3
        DEF CallGrounded, EventGrounded, Owing, Failed, Updating, Says, Easy, Mild, TaskClosing
    <2>5. ItemStatus(log, i) = "proposed" => Current(log, d)
        BY <2>2, <2>3, NotReviewed DEF Current, Says, ByRepetition
    <2>6. QED BY <2>1, <2>4, <2>5, TurnedLed
<1>2. CASE execute_autonomy_action(p)
    <2>1. PICK allowed : /\ todo[p] # Idle /\ Call(p).do = "execute"
                         /\ Return(p, allowed, <<Item("not_executed", i)>>)
        BY <1>2 DEF execute_autonomy_action, Called, Call
    <2>2. QED BY <2>1, ReadingCalls, ReadingIsSimple, TurnedOne DEF Easy, Mild
<1>3. CASE execution_for_item(p)
    <2> DEFINE d == Item("run", i)
    <2>1. /\ todo[p] # Idle /\ Call(p).do = "not_executed"
          /\ Return(p, Executions(log, i) = {}, <<d>>)
        BY <1>3 DEF execution_for_item, Called, Call
    <2>2. d.do = "run" /\ d.item = i
        BY DEF Item
    <2> HIDE DEF d, i
    <2>3. /\ CallGrounded(Len(log), d) /\ ~Owing(d) /\ ~Updating(d) /\ Easy(Call(p))
          /\ Call(p).do # "create"
        BY <2>1, <2>2 DEF CallGrounded, Owing, Updating, Says, Easy, Mild
    <2>4. Executions(log, i) = {} => Current(log, d)
        BY <2>2 DEF Current, Says, ByRepetition
    <2>5. QED BY <2>1, <2>3, <2>4, TurnedLed
<1>4. CASE execute_approved_autonomy_actions(p)
    <2>1. /\ todo[p] # Idle /\ Call(p).do = "execute_approved"
          /\ Return(p, TRUE, <<ExecuteEach(Executed(log))>>)
        BY <1>4 DEF execute_approved_autonomy_actions, Called, Call
    <2>2. QED BY <2>1, ReadingCalls, ReadingIsSimple, TurnedOne DEF Easy, Mild
<1>5. CASE execute_each(p)
    <2> DEFINE approved == {j \in Items(log) \ Call(p).executed : ItemStatus(log, j) = "approved"}
               n == Cardinality(approved)
               calls == CallEach(n, LAMBDA k : Item("execute", InOrder(approved)[k]))
    <2>1. n \in Nat
        BY PositionsAreFinite DEF Items, Positions
    <2>2. calls = [k \in 1..n |-> Item("execute", InOrder(approved)[k])]
        BY DEF CallEach
    <2>3. todo[p] # Idle /\ Call(p).do = "execute_each" /\ Return(p, TRUE, calls)
        BY <1>5 DEF execute_each, Called, Call
    <2> HIDE DEF n, approved, calls
    <2>4. /\ calls = [k \in 1..n |-> calls[k]]
          /\ \A k \in 1..n : Simple(calls[k]) /\ CallGrounded(Len(log), calls[k])
        BY <2>2, ReadingCalls, ReadingIsSimple
    <2>5. QED BY <2>1, <2>3, <2>4, TurnedEach DEF Easy, Mild
<1>6. QED BY <1>1, <1>2, <1>3, <1>4, <1>5

LEMMA FourCalls ==
    ASSUME NEW a, NEW b, NEW c, NEW d
    PROVE  LET calls == <<a, b>> \o <<c, d>> IN
           /\ IsSequence(calls) /\ Len(calls) = 4 /\ 1..4 = {1, 2, 3, 4}
           /\ calls[1] = a /\ calls[2] = b /\ calls[3] = c /\ calls[4] = d
<1> DEFINE s == <<a, b>>
           t == <<c, d>>
           calls == s \o t
<1>1. /\ IsSequence(s) /\ Len(s) = 2 /\ s[1] = a /\ s[2] = b
      /\ IsSequence(t) /\ Len(t) = 2 /\ t[1] = c /\ t[2] = d
    BY TwoElements
<1> HIDE DEF s, t
<1>2. /\ IsSequence(calls) /\ Len(calls) = Len(s) + Len(t)
      /\ \A k \in 1..Len(s) : calls[k] = s[k]
      /\ \A k \in Len(s) + 1..Len(calls) : k - Len(s) \in 1..Len(t) /\ calls[k] = t[k - Len(s)]
    BY <1>1, Concatenated
<1> HIDE DEF calls
<1>3. Len(calls) = 4 /\ 1 \in 1..2 /\ 2 \in 1..2 /\ 3 \in 3..4 /\ 4 \in 3..4
    BY <1>1, <1>2
<1>4. /\ calls[1] = a /\ calls[2] = b /\ calls[3] = t[3 - 2] /\ calls[4] = t[4 - 2]
    BY <1>1, <1>2, <1>3
<1>5. QED BY <1>1, <1>2, <1>3, <1>4 DEF calls, s, t

(* A failure is recorded with its reflection and its task.                 *)
LEMMA RecordedLeads ==
    ASSUME NEW evs, NEW c, c.do = "run", NEW status \in {"completed", "failed"}
    PROVE  /\ Leads(evs, c, Recorded(c.item, status))
           /\ \A d \in Listed(Recorded(c.item, status)) : ~Updating(d) /\ ~Leading(d)
           /\ \A x, d : /\ d \in Listed(Recorded(c.item, status))
                        /\ Says(x, "coherence_research.cycle_ran")
                        => MayPrecede(x, d)
<1> DEFINE i == c.item
           added == Appending(EvidenceAdded("none"))
           executed == Appending(ActionExecuted(i, status))
           subject == Subject("autonomy", i)
           reflection == Appending(ReflectionRecorded(subject))
           task == Appending(TaskOpened(subject))
<1>1. /\ added.do = "append" /\ added.event.type = "evidence.added"
      /\ executed.do = "append" /\ executed.event.type = "autonomy.action_executed"
      /\ executed.event.item = i /\ executed.event.status = status
      /\ reflection.do = "append" /\ reflection.event.type = "lucien.reflection_recorded"
      /\ reflection.event.subject = subject
      /\ task.do = "append" /\ task.event.type = "reflection.task_opened"
    BY DEF Appending, EvidenceAdded, ActionExecuted, ReflectionRecorded, TaskOpened
<1>2. \A n : /\ CallGrounded(n, added) /\ CallGrounded(n, executed)
             /\ CallGrounded(n, reflection) /\ CallGrounded(n, task)
    BY SimpleEvents, GroundedAppends
<1>3. Owes(reflection, task) /\ (status = "failed" => Owes(executed, task))
    <2>1. task = Appending(TaskOpened(reflection.event.subject))
        BY <1>1
    <2>2. task = Appending(OwnTask(executed.event))
        BY <1>1 DEF OwnTask
    <2> HIDE DEF executed, reflection, task, subject
    <2>3. QED BY <1>1, <2>1, <2>2 DEF Owes, Opens, Failed
<1>4. /\ Recorded(i, "completed") = <<added, Appending(ActionExecuted(i, "completed"))>> \o <<>>
      /\ Recorded(i, "failed") =
            <<added, Appending(ActionExecuted(i, "failed"))>> \o <<reflection, task>>
    BY DEF Recorded
<1> HIDE DEF added, executed, reflection, task, subject
<1> DEFINE Part(d) == d = added \/ d = executed \/ d = reflection \/ d = task
<1>5. ASSUME NEW d, Part(d) PROVE LeadsTo(evs, c, d) /\ ~Updating(d) /\ ~Leading(d)
    <2>1. Current(evs, c) => Current(evs, d)
        BY <1>1, <1>5 DEF Current, Says, ByRepetition
    <2>2. \A y : MayPrecede(c, y) => MayPrecede(d, y)
        BY Inherited DEF Easy, Mild
    <2>3. QED BY <1>1, <1>2, <1>5, <2>1, <2>2 DEF LeadsTo, Updating, Leading, Says
<1>6. ASSUME NEW x, NEW d, Part(d), Says(x, "coherence_research.cycle_ran")
      PROVE  MayPrecede(x, d)
    BY <1>1, <1>6 DEF MayPrecede, Leading, Says, ByRepetition, Updating, Tasking
<1>7. /\ MayPrecede(added, executed) /\ MayPrecede(added, reflection) /\ MayPrecede(added, task)
      /\ MayPrecede(executed, reflection) /\ MayPrecede(executed, task)
      /\ MayPrecede(reflection, task)
    BY <1>1 DEF MayPrecede, Leading, Says, ByRepetition, Updating, Tasking
<1>8. ~Owing(added) /\ ~Owing(task) /\ (status = "completed" => ~Owing(executed))
    BY <1>1 DEF Owing, Failed
<1>9. Ordered(Recorded(i, status)) /\ \A d \in Listed(Recorded(i, status)) : Part(d)
    <2>1. CASE status = "completed"
        <3>1. Ordered(<<added, executed>>) /\ Listed(<<added, executed>>) = {added, executed}
            BY <1>7, <1>8, <2>1, TwoOrdered
        <3>2. Recorded(i, status) = <<added, executed>>
            BY <1>4, <2>1 DEF executed
        <3>3. QED BY <3>1, <3>2
    <2>2. CASE status = "failed"
        <3> DEFINE calls == <<added, executed>> \o <<reflection, task>>
        <3>1. /\ IsSequence(calls) /\ Len(calls) = 4 /\ 1..4 = {1, 2, 3, 4}
              /\ calls[1] = added /\ calls[2] = executed /\ calls[3] = reflection
              /\ calls[4] = task
            BY FourCalls
        <3>2. Recorded(i, status) = calls
            BY <1>4, <2>2 DEF executed
        <3> HIDE DEF calls
        <3>3. \A j, k \in 1..4 : j < k => MayPrecede(calls[j], calls[k])
            BY <1>7, <3>1
        <3>4. \A j \in 1..4 : Owing(calls[j]) => \E k \in 1..4 : j < k /\ Owes(calls[j], calls[k])
            BY <1>3, <1>8, <2>2, <3>1
        <3>5. Ordered(calls) /\ \A d \in Listed(calls) : \E k \in 1..4 : d = calls[k]
            BY <3>1, <3>3, <3>4 DEF Ordered, Listed
        <3>6. QED BY <3>1, <3>2, <3>5
    <2>3. QED BY <2>1, <2>2
<1> HIDE DEF Part
<1>10. QED BY <1>5, <1>6, <1>9 DEF Leads

LEMMA ExecutionForms ==
    ASSUME NEW p \in Procs, execute_allowed_action(p)
    PROVE  Form(p)
<1> DEFINE c == Call(p)
           cycle == Appending(ResearchCycleRan)
           some == If(log[c.item].action = "research", cycle)
<1>1. todo[p] # Idle /\ c.do = "run" /\ Easy(c)
    BY DEF execute_allowed_action, Called, Call, Easy, Mild
<1>2. Says(cycle, "coherence_research.cycle_ran")
    BY DEF Says, Appending, ResearchCycleRan
<1>3. CallGrounded(Len(log), cycle) /\ Simple(cycle)
    <2>1. EventGrounded(ResearchCycleRan, Len(log))
        BY SimpleEvents
    <2>2. QED BY <1>2, <2>1, GroundedAppends, SimpleAppends DEF Says, ResearchCycleRan
<1>4. PICK allowed, next :
          /\ Return(p, allowed, next) /\ Runs(p)
          /\ \/ next = Recorded(c.item, "failed")
             \/ next = some \o Recorded(c.item, "completed")
             \/ ~allowed
    <2> DEFINE failing == Recorded(c.item, "failed")
               done == Recorded(c.item, "completed")
    <2>1. some = IF log[c.item].action = "research" THEN <<cycle>> ELSE <<>>
        BY DEF If
    <2>2. \/ Return(p, TRUE, failing) /\ Runs(p)
          \/ Return(p, TRUE, some \o done) /\ Runs(p)
          \/ Return(p, FALSE, <<>>) /\ Runs(p)
        BY <1>1, <2>1 DEF execute_allowed_action, Runs
    <2> HIDE DEF failing, done, some
    <2>3. QED BY <2>2 DEF failing, done
<1>5. Leads(log, c, some) /\ \A d \in Listed(some) : Says(d, "coherence_research.cycle_ran")
    <2>1. Leads(log, c, <<cycle>>) /\ Listed(<<cycle>>) = {cycle}
        BY <1>1, <1>3, OneSimple, OneOrdered
    <2> HIDE DEF cycle, c
    <2>2. QED BY <1>2, <2>1, NoneOrdered DEF If
<1> HIDE DEF c, cycle, some
<1>6. ASSUME allowed PROVE Leads(log, c, next) /\ \A d \in Listed(next) : ~Updating(d)
    <2>1. CASE next = Recorded(c.item, "failed")
        BY <1>1, <2>1, RecordedLeads
    <2>2. CASE next = some \o Recorded(c.item, "completed")
        <3> DEFINE rest == Recorded(c.item, "completed")
        <3>1. /\ Leads(log, c, rest) /\ \A d \in Listed(rest) : ~Updating(d)
              /\ \A x \in Listed(some), y \in Listed(rest) : MayPrecede(x, y)
            BY <1>1, <1>5, RecordedLeads
        <3> HIDE DEF rest
        <3>2. Ordered(some \o rest) /\ Listed(some \o rest) = Listed(some) \cup Listed(rest)
            BY <1>5, <3>1, JoinedOrdered DEF Leads
        <3>3. QED BY <1>5, <2>2, <3>1, <3>2 DEF Leads, rest, Says, Updating
    <2>3. QED BY <1>4, <1>6, <2>1, <2>2
<1>7. allowed => PassesOn(log, c, next)
    BY <1>1, <1>6, PassesSimple DEF Leads
<1>8. QED BY <1>1, <1>4, <1>6, <1>7, Turned DEF c
-----------------------------------------------------------------------------
(* Candidates from repetition: their steps are apart.                      *)

Apart(groups) ==
    /\ IsFiniteSet(groups)
    /\ \A g \in groups : g \subseteq 1..Len(log) /\ g # {}
    /\ \A g, h \in groups : g # h => g \cap h = {}

LEMMA GroupsAreApart ==
    ASSUME Inv, NEW sources, NEW minimum
    PROVE  /\ Apart(RepeatedWork(log, sources, minimum))
           /\ \A g \in RepeatedWork(log, sources, minimum) : g \cap sources = {}
<1> DEFINE fresh == {s \in Steps(log) : Outcome(log, s) = "completed" /\ s \notin sources}
           with(s) == {r \in fresh : log[r].tool = log[s].tool}
           groups == RepeatedWork(log, sources, minimum)
<1>1. \A g \in groups : \E s \in fresh : g = with(s)
    BY DEF RepeatedWork
<1>2. fresh \subseteq 1..Len(log) /\ fresh \cap sources = {}
    BY LedgerPositions DEF Steps
<1>3. groups \subseteq SUBSET (1..Len(log))
    BY <1>1, <1>2
<1>4. IsFiniteSet(groups)
    <2>1. IsFiniteSet(1..Len(log))
        BY LedgerPositions, FS_Interval
    <2>2. QED BY <1>3, <2>1, FS_SUBSET, FS_Subset
<1> HIDE DEF fresh, groups
<1>5. ASSUME NEW g \in groups PROVE g # {} /\ g \cap sources = {}
    BY <1>1, <1>2
<1>6. ASSUME NEW g \in groups, NEW h \in groups, NEW x \in g, x \in h PROVE g = h
    <2>1. PICK s \in fresh : g = with(s)
        BY <1>1
    <2>2. PICK t \in fresh : h = with(t)
        BY <1>1
    <2>3. log[s].tool = log[t].tool
        BY <1>6, <2>1, <2>2
    <2>4. QED BY <2>1, <2>2, <2>3
<1>7. Apart(groups)
    BY <1>3, <1>4, <1>5, <1>6 DEF Apart
<1>8. QED BY <1>5, <1>7 DEF groups

(* Groups that are apart are told apart by their least step.               *)
LEMMA GroupsAreListed ==
    ASSUME Inv, NEW groups, Apart(groups)
    PROVE  /\ Cardinality(groups) \in Nat
           /\ \A k \in 1..Cardinality(groups) : Ranked(groups, Min)[k] \in groups
           /\ \A j, k \in 1..Cardinality(groups) : j # k =>
                 Ranked(groups, Min)[j] \cap Ranked(groups, Min)[k] = {}
<1> DEFINE key == [g \in groups |-> Min(g)]
           list == Ranked(groups, Min)
<1>1. \A g \in groups : g \in SUBSET Nat /\ g # {}
    BY LedgerPositions DEF Apart
<1>2. \A g \in groups : Min(g) \in g /\ Min(g) \in Int
    BY <1>1, MinIsLeast
<1>3. \A g \in groups : key[g] = Min(g)
    OBVIOUS
<1>4. key \in [groups -> Int]
    BY <1>2
<1> HIDE DEF key
<1>5. IsKey(groups, key)
    <2>1. ASSUME NEW g \in groups, NEW h \in groups, key[g] = key[h] PROVE g = h
        <3>1. Min(g) \in g /\ Min(g) \in h
            BY <1>2, <1>3, <2>1
        <3>2. QED BY <3>1 DEF Apart
    <2>2. QED BY <1>4, <2>1 DEF IsKey
<1>6. \A x \in groups : LowerKeys(groups, key, x) = {y \in groups : Min(y) < Min(x)}
    BY <1>3 DEF LowerKeys
<1>7. ASSUME NEW k \in 1..Cardinality(groups), NEW x \in groups,
             Cardinality(LowerKeys(groups, key, x)) = k - 1
      PROVE  list[k] \in groups /\ Cardinality(LowerKeys(groups, key, list[k])) = k - 1
    <2>1. list[k] = CHOOSE z \in groups : Cardinality({y \in groups : Min(y) < Min(z)}) = k - 1
        BY DEF Ranked
    <2>2. Cardinality({y \in groups : Min(y) < Min(x)}) = k - 1
        BY <1>6, <1>7
    <2>3. list[k] \in groups /\ Cardinality({y \in groups : Min(y) < Min(list[k])}) = k - 1
        BY <2>1, <2>2
    <2>4. QED BY <1>6, <2>3
<1> HIDE DEF list
<1>8. ListsByKey(list, groups, key)
    BY <1>7 DEF ListsByKey
<1>9. IsFiniteSet(groups)
    BY DEF Apart
<1>10. ListsOnce(list, groups)
    BY <1>5, <1>8, <1>9, RankedMembers, Zenon
<1>11. Cardinality(groups) \in Nat /\ \A k \in 1..Cardinality(groups) : list[k] \in groups
    BY <1>10 DEF ListsOnce
<1>12. ASSUME NEW j \in 1..Cardinality(groups), NEW k \in 1..Cardinality(groups), j # k
       PROVE  list[j] \cap list[k] = {}
    <2>1. j < k \/ k < j
        BY <1>11, <1>12
    <2>2. list[j] # list[k]
        BY <1>10, <2>1 DEF ListsOnce
    <2>3. QED BY <1>11, <2>2 DEF Apart
<1>13. QED BY <1>11, <1>12 DEF list

LEMMA RepeatedLeads ==
    ASSUME Inv, NEW p \in Procs, UNCHANGED ran, auto_propose_skill_candidates(p)
    PROVE  Form(p)
<1> DEFINE c == Call(p)
           groups == RepeatedWork(log, c.sources, MinimumRepetitions)
           n == Cardinality(groups)
           steps == Ranked(groups, Min)
           calls == CallEach(n, LAMBDA k : Appending(SkillProposed(Ranked(groups, Min)[k], TRUE)))
<1>1. todo[p] # Idle /\ c.do = "propose_repeated" /\ Return(p, TRUE, calls)
    BY DEF auto_propose_skill_candidates, Called, Call
<1>2. /\ n \in Nat /\ \A k \in 1..n : steps[k] \cap c.sources = {}
      /\ \A j, k \in 1..n : j # k => steps[j] \cap steps[k] = {}
    BY GroupsAreApart, GroupsAreListed
<1>3. calls = [k \in 1..n |-> Appending(SkillProposed(steps[k], TRUE))]
    BY DEF CallEach
<1> HIDE DEF groups, n, steps, calls, c
<1>4. calls = [k \in 1..n |-> calls[k]]
      /\ \A k \in 1..n : calls[k] = Appending(SkillProposed(steps[k], TRUE))
    BY <1>3
<1>5. ASSUME NEW k \in 1..n
      PROVE  /\ calls[k].do = "append" /\ calls[k].event.type = "skill.candidate_proposed"
             /\ calls[k].event.auto /\ calls[k].event.steps = steps[k]
    BY <1>4 DEF Appending, SkillProposed
<1>6. ASSUME NEW j \in 1..n, NEW k \in 1..n, j < k PROVE MayPrecede(calls[j], calls[k])
    <2>1. j # k /\ steps[j] \cap steps[k] = {}
        BY <1>2, <1>6
    <2>2. QED BY <1>5, <2>1 DEF MayPrecede, Leading, Says, ByRepetition, Updating, Tasking
<1>7. ASSUME NEW k \in 1..n
      PROVE  LeadsTo(log, c, calls[k]) /\ ~Owing(calls[k]) /\ ~Updating(calls[k])
    <2>1. CallGrounded(Len(log), calls[k])
        BY <1>5 DEF CallGrounded, EventGrounded, TaskClosing
    <2>2. Current(log, c) => Current(log, calls[k])
        BY <1>1, <1>2, <1>5 DEF Current, Says, ByRepetition
    <2>3. \A y : MayPrecede(c, y) => MayPrecede(calls[k], y)
        BY <1>1, Inherited DEF Easy, Mild
    <2>4. QED BY <1>5, <2>1, <2>2, <2>3 DEF LeadsTo, Owing, Failed, Updating, Says
<1>8. Ordered(calls) /\ \A d \in Listed(calls) : \E k \in 1..n : d = calls[k]
    BY <1>2, <1>4, <1>6, <1>7, EachOrdered
<1>9. Leads(log, c, calls) /\ \A d \in Listed(calls) : ~Updating(d)
    BY <1>7, <1>8 DEF Leads
<1>10. PassesOn(log, c, calls)
    BY <1>1, <1>8, <1>9, PassesSimple DEF Easy, Mild
<1>11. QED BY <1>1, <1>9, <1>10, Turned DEF Runs, c

LEMMA CheckpointSkillsLead ==
    ASSUME Inv, NEW p \in Procs, UNCHANGED ran, auto_propose_checkpoint_skill_candidates(p)
    PROVE  Form(p)
<1> DEFINE c == Call(p)
           groups == RepeatedCheckpoints(log, MinimumRepetitions)
           n == Cardinality(groups)
           steps == Ranked(groups, Min)
           skill(k) == Appending(SkillProposed(steps[k], TRUE))
           linked(k) == Appending(CheckpointSkill(CheckpointsOf(log, steps[k]), steps[k]))
           calls == CallBoth(n, skill, linked)
<1>1. todo[p] # Idle /\ c.do = "checkpoint_skills" /\ Return(p, TRUE, calls)
    BY DEF auto_propose_checkpoint_skill_candidates, Called, Call
<1>2. Apart(groups) /\ \A g \in groups : g \cap SourceSteps(log) = {}
    <2> DEFINE sources ==
                   SourceSteps(log) \cup {s \in Steps(log) : CheckpointsOf(log, {s}) = {}}
               work == RepeatedWork(log, sources, MinimumRepetitions)
    <2>1. groups \subseteq work
        BY DEF RepeatedCheckpoints
    <2>2. Apart(work) /\ \A g \in work : g \cap sources = {}
        BY GroupsAreApart
    <2>3. SourceSteps(log) \subseteq sources
        OBVIOUS
    <2> HIDE DEF work, groups, sources
    <2>4. IsFiniteSet(groups)
        BY <2>1, <2>2, FS_Subset DEF Apart
    <2>5. Apart(groups)
        BY <2>1, <2>2, <2>4 DEF Apart
    <2>6. QED BY <2>1, <2>2, <2>3, <2>5
<1>3. /\ n \in Nat /\ \A k \in 1..n : steps[k] \cap SourceSteps(log) = {}
      /\ \A j, k \in 1..n : j # k => steps[j] \cap steps[k] = {}
    BY <1>2, GroupsAreListed
<1>4. calls = [k \in 1..2 * n |-> IF k % 2 = 1 THEN skill((k + 1) \div 2) ELSE linked(k \div 2)]
    BY DEF CallBoth
<1>5. /\ \A k : /\ skill(k).do = "append" /\ skill(k).event.type = "skill.candidate_proposed"
                /\ skill(k).event.auto /\ skill(k).event.steps = steps[k]
      /\ \A k : linked(k).do = "append"
                /\ linked(k).event.type = "checkpoint.skill_candidate_proposed"
    BY DEF Appending, SkillProposed, CheckpointSkill
<1> HIDE DEF groups, n, steps, skill, linked, calls, c
<1> DEFINE Seeds(k) ==
               /\ calls[k].do = "append" /\ calls[k].event.type = "skill.candidate_proposed"
               /\ calls[k].event.auto /\ calls[k].event.steps = steps[(k + 1) \div 2]
               /\ (k + 1) \div 2 \in 1..n /\ k = 2 * ((k + 1) \div 2) - 1
           Links(k) ==
               calls[k].do = "append" /\ calls[k].event.type = "checkpoint.skill_candidate_proposed"
<1>6. ASSUME NEW k \in 1..2 * n PROVE Seeds(k) \/ Links(k)
    <2>1. CASE k % 2 = 1
        <3>1. (k + 1) \div 2 \in 1..n /\ k = 2 * ((k + 1) \div 2) - 1
            BY <1>3, <2>1
        <3>2. calls[k] = skill((k + 1) \div 2)
            BY <1>4, <2>1
        <3>3. QED BY <1>5, <3>1, <3>2
    <2>2. CASE k % 2 # 1
        <3>1. calls[k] = linked(k \div 2)
            BY <1>4, <2>2
        <3>2. QED BY <1>5, <3>1
    <2>3. QED BY <2>1, <2>2
<1>7. 2 * n \in Nat /\ calls = [k \in 1..2 * n |-> calls[k]]
    BY <1>3, <1>4
<1>8. ASSUME NEW j \in 1..2 * n, NEW k \in 1..2 * n, j < k PROVE MayPrecede(calls[j], calls[k])
    <2>1. CASE Seeds(j) /\ Seeds(k)
        <3>1. (j + 1) \div 2 # (k + 1) \div 2
            BY <1>8, <2>1
        <3>2. steps[(j + 1) \div 2] \cap steps[(k + 1) \div 2] = {}
            BY <1>3, <2>1, <3>1
        <3>3. calls[j].event.steps \cap calls[k].event.steps = {}
            BY <2>1, <3>2
        <3>4. QED BY <2>1, <3>3 DEF MayPrecede, Leading, Says, ByRepetition, Updating, Tasking
    <2>2. CASE Links(j) \/ Links(k)
        BY <1>6, <2>2 DEF MayPrecede, Leading, Says, ByRepetition, Updating, Tasking
    <2>3. QED BY <1>6, <2>1, <2>2
<1>9. ASSUME NEW k \in 1..2 * n
      PROVE  LeadsTo(log, c, calls[k]) /\ ~Owing(calls[k]) /\ ~Updating(calls[k])
    <2>1. CallGrounded(Len(log), calls[k])
        BY <1>6 DEF CallGrounded, EventGrounded, TaskClosing
    <2>2. Current(log, calls[k])
        BY <1>3, <1>6 DEF Current, Says, ByRepetition
    <2>3. \A y : MayPrecede(c, y) => MayPrecede(calls[k], y)
        BY <1>1, Inherited DEF Easy, Mild
    <2>4. QED BY <1>6, <2>1, <2>2, <2>3 DEF LeadsTo, Owing, Failed, Updating, Says
<1> HIDE DEF Seeds, Links
<1>10. Ordered(calls) /\ \A d \in Listed(calls) : \E k \in 1..2 * n : d = calls[k]
    BY <1>7, <1>8, <1>9, EachOrdered
<1>11. Leads(log, c, calls) /\ \A d \in Listed(calls) : ~Updating(d)
    BY <1>9, <1>10 DEF Leads
<1>12. PassesOn(log, c, calls)
    BY <1>1, <1>10, <1>11, PassesSimple DEF Easy, Mild
<1>13. QED BY <1>1, <1>11, <1>12, Turned DEF Runs, c

LEMMA SkillForms ==
    ASSUME Inv, GroundedInv, NEW p \in Procs, UNCHANGED ran,
           \/ propose_skill_candidate(p) \/ skill_sources(p) \/ auto_propose_skill_candidates(p)
           \/ review_skill_candidate(p) \/ link_checkpoint_to_mission(p)
           \/ propose_checkpoint_lesson(p) \/ auto_propose_checkpoint_skill_candidates(p)
    PROVE  Form(p)
<1>1. CASE propose_skill_candidate(p)
    <2> DEFINE s == Call(p).step
               done == Outcome(log, s) = "completed"
               d == Appending(SkillProposed({s}, FALSE))
    <2>1. /\ todo[p] # Idle /\ Call(p).do = "propose_skill"
          /\ Return(p, done \/ ~Call(p).strict, If(done, d))
        BY <1>1 DEF propose_skill_candidate, Called, Call, If
    <2>2. Simple(d) /\ CallGrounded(Len(log), d) /\ d.do = "append"
        <3>1. d.do = "append" /\ d.event.type = "skill.candidate_proposed" /\ ~d.event.auto
            BY DEF Appending, SkillProposed
        <3> HIDE DEF d
        <3>2. QED BY <3>1 DEF Simple, Leading, Says, ByRepetition, Updating, Tasking, Owing,
                              Failed, CallGrounded, EventGrounded, TaskClosing
    <2> HIDE DEF d, done
    <2> DEFINE next == If(done, d)
    <2>3. Leads(log, Call(p), next)
        <3>1. Leads(log, Call(p), <<d>>)
            BY <2>1, <2>2, OneSimple
        <3>2. QED BY <3>1, NoneOrdered DEF If
    <2>4. PassesOn(log, Call(p), next)
        <3>1. PassesOn(log, Call(p), <<d>>)
            <4>1. <<d>>[1] = d
                OBVIOUS
            <4>2. QED BY <2>1, <2>2, <4>1 DEF PassesOn, Simple
        <3>2. PassesOn(log, Call(p), <<>>)
            BY <2>1, NoElement DEF PassesOn
        <3>3. QED BY <3>1, <3>2 DEF If
    <2> HIDE DEF next
    <2>5. Return(p, done \/ ~Call(p).strict, next)
        BY <2>1 DEF next
    <2>6. QED BY <2>1, <2>3, <2>4, <2>5, Turned DEF Runs, Easy, Mild
<1>2. CASE skill_sources(p)
    <2> DEFINE d == ProposeRepeated(SourceSteps(log))
    <2>1. todo[p] # Idle /\ Call(p).do = "skill_sources" /\ Return(p, TRUE, <<d>>)
        BY <1>2 DEF skill_sources, Called, Call
    <2>2. d.do = "propose_repeated" /\ d.sources = SourceSteps(log)
        BY DEF ProposeRepeated
    <2> HIDE DEF d
    <2>3. /\ CallGrounded(Len(log), d) /\ ~Owing(d) /\ ~Updating(d) /\ Easy(Call(p))
          /\ Call(p).do # "create" /\ Current(log, d)
        BY <2>1, <2>2 DEF CallGrounded, Owing, Updating, Says, Easy, Mild, Current, ByRepetition
    <2>4. QED BY <2>1, <2>3, TurnedLed
<1>3. CASE review_skill_candidate(p)
    <2> DEFINE k == Call(p).skill
               d == Appending(SkillReviewed(k, Call(p).status))
    <2>1. /\ todo[p] # Idle /\ Call(p).do = "review_skill"
          /\ Return(p, SkillStatus(log, k) = "proposed", <<d>>)
        BY <1>3 DEF review_skill_candidate, Called, Call
    <2>2. k \in 1..Len(log) /\ Call(p).status \in SkillReview
        BY <2>1, HeadGrounded DEF CallGrounded
    <2>3. d.do = "append" /\ d.event.type = "skill.candidate_reviewed" /\ d.event.skill = k
          /\ d.event.status = Call(p).status
        BY DEF Appending, SkillReviewed
    <2> HIDE DEF d, k
    <2>4. /\ CallGrounded(Len(log), d) /\ ~Owing(d) /\ ~Updating(d) /\ Easy(Call(p))
          /\ Call(p).do # "create"
        BY <2>1, <2>2, <2>3
        DEF CallGrounded, EventGrounded, Owing, Failed, Updating, Says, Easy, Mild, TaskClosing
    <2>5. SkillStatus(log, k) = "proposed" => Current(log, d)
        BY <2>2, <2>3, NotReviewed DEF Current, Says, ByRepetition
    <2>6. QED BY <2>1, <2>4, <2>5, TurnedLed
<1>4. CASE link_checkpoint_to_mission(p)
    <2> DEFINE e == CheckpointLinked(Call(p).mission, Call(p).steps)
    <2>1. e.type = "checkpoint.linked_to_mission" /\ EventGrounded(e, Len(log))
        BY SimpleEvents DEF CheckpointLinked
    <2>2. PICK allowed : /\ todo[p] # Idle /\ Call(p).do = "link_checkpoint"
                         /\ Return(p, allowed, <<Appending(e)>>)
        BY <1>4 DEF link_checkpoint_to_mission, Called, Call
    <2> HIDE DEF e
    <2>3. QED BY <2>1, <2>2, SimpleAppends, GroundedAppends, TurnedOne DEF Easy, Mild
<1>5. CASE propose_checkpoint_lesson(p)
    <2> DEFINE c == Call(p)
               a == Appending(MissionItemAdded(log[c.link].mission, "lesson"))
               b == Appending(GrowthProposed)
               d == Appending(CheckpointLesson(c.link))
               next == <<a, b>> \o <<d>>
    <2>1. todo[p] # Idle /\ c.do = "checkpoint_lesson" /\ Return(p, TRUE, next)
        BY <1>5 DEF propose_checkpoint_lesson, Called, Call, Lesson
    <2>2. /\ Simple(a) /\ CallGrounded(Len(log), a) /\ Simple(b) /\ CallGrounded(Len(log), b)
          /\ Simple(d) /\ CallGrounded(Len(log), d)
        <3>1. \A m, kind : MissionItemAdded(m, kind).type = "mission.item_added"
            BY DEF MissionItemAdded
        <3>2. \A l : CheckpointLesson(l).type = "checkpoint.lesson_candidate_proposed"
            BY DEF CheckpointLesson
        <3>3. GrowthProposed.type = "lucien.growth_proposed"
            BY DEF GrowthProposed
        <3>4. QED BY <3>1, <3>2, <3>3, SimpleEvents, SimpleAppends, GroundedAppends
    <2> HIDE DEF a, b, d, c
    <2>3. Ordered(<<a, b>>) /\ Listed(<<a, b>>) = {a, b} /\ Ordered(<<d>>) /\ Listed(<<d>>) = {d}
        BY <2>2, SimpleStands, TwoOrdered, OneOrdered
    <2>4. Ordered(next) /\ Listed(next) = {a, b} \cup {d}
        BY <2>2, <2>3, SimpleStands, JoinedOrdered
    <2> HIDE DEF next
    <2>5. Leads(log, c, next) /\ \A x \in Listed(next) : ~Updating(x)
        BY <2>1, <2>2, <2>4, SimpleLeads DEF Leads, Easy, Mild, Simple
    <2>6. PassesOn(log, c, next)
        BY <2>1, <2>4, <2>5, PassesSimple DEF Easy, Mild
    <2>7. QED BY <2>1, <2>5, <2>6, Turned DEF Runs, c
<1>6. QED BY <1>1, <1>2, <1>3, <1>4, <1>5, RepeatedLeads, CheckpointSkillsLead

LEMMA EvidenceForms ==
    ASSUME Inv, GroundedInv, NEW p \in Procs, UNCHANGED ran,
           \/ add_evidence_claim(p) \/ link_cited(p) \/ link_evidence(p) \/ review_evidence(p)
           \/ inbox_evidence(p) \/ inbox_packet(p) \/ review_packet(p)
    PROVE  Form(p)
<1>1. CASE add_evidence_claim(p)
    <2> DEFINE cited == Call(p).cited
               d == Creating(EvidenceClaimed(cited), LinkCited(cited))
    <2>1. /\ todo[p] # Idle /\ Call(p).do = "claim"
          /\ Return(p, cited \subseteq Evidence(log), <<d>>)
        BY <1>1 DEF add_evidence_claim, Called, Call
    <2>2. /\ d.do = "create" /\ d.event.type = "evidence.claim_recorded"
          /\ d.then.do = "link_cited"
        BY DEF Creating, EvidenceClaimed, LinkCited
    <2> HIDE DEF d, cited
    <2>3. Simple(d) /\ CallGrounded(Len(log), d)
        BY <2>2 DEF Simple, Leading, Says, ByRepetition, Updating, Tasking, Owing, CallGrounded
    <2>4. QED BY <2>1, <2>3, TurnedOne DEF Easy, Mild
<1>2. CASE link_cited(p)
    <2> DEFINE cited == Call(p).cited
               n == Cardinality(cited)
               calls == CallEach(n, LAMBDA k : Link(InOrder(cited)[k], Call(p).own))
    <2>1. todo[p] # Idle /\ Call(p).do = "link_cited" /\ Return(p, TRUE, calls)
        BY <1>2 DEF link_cited, Called, Call
    <2>2. n \in Nat
        <3>1. IsFiniteSet(cited)
            BY <2>1, HeadCall DEF CallSound
        <3>2. QED BY <3>1, FS_CardinalityType
    <2>3. calls = [k \in 1..n |-> Link(InOrder(cited)[k], Call(p).own)]
        BY DEF CallEach
    <2> HIDE DEF n, cited, calls
    <2>4. /\ calls = [k \in 1..n |-> calls[k]]
          /\ \A k \in 1..n : Simple(calls[k]) /\ CallGrounded(Len(log), calls[k])
        BY <2>3, ReadingCalls, ReadingIsSimple
    <2>5. QED BY <2>1, <2>2, <2>4, TurnedEach DEF Easy, Mild
<1>3. CASE link_evidence(p)
    <2>1. PICK e, allowed :
              /\ todo[p] # Idle /\ Call(p).do = "link"
              /\ Return(p, allowed, <<Appending(EvidenceLinked(e, Call(p).target))>>)
        BY <1>3 DEF link_evidence, Called, Call
    <2> DEFINE f == EvidenceLinked(e, Call(p).target)
    <2>2. f.type = "evidence.linked" /\ EventGrounded(f, Len(log))
        BY SimpleEvents DEF EvidenceLinked
    <2>3. Return(p, allowed, <<Appending(f)>>)
        BY <2>1
    <2> HIDE DEF f
    <2>4. QED BY <2>1, <2>2, <2>3, SimpleAppends, GroundedAppends, TurnedOne DEF Easy, Mild
<1>4. CASE review_evidence(p)
    <2> DEFINE c == Call(p)
               a == Appending(EvidenceReviewed(c.evidence, c.status))
               b == Appending(EvidenceUpdated(c.evidence, c.status))
               next == <<a, b>>
    <2>1. /\ todo[p] # Idle /\ c.do = "review_evidence"
          /\ Return(p, c.evidence \in Evidence(log), next)
        BY <1>4 DEF review_evidence, Called, Call
    <2>2. /\ a.do = "append" /\ a.event.type = "evidence.reviewed"
          /\ a.event.evidence = c.evidence /\ a.event.status = c.status
          /\ b.do = "append" /\ b.event.type = "evidence.updated"
          /\ b.event.evidence = c.evidence /\ b.event.status = c.status
        BY DEF Appending, EvidenceReviewed, EvidenceUpdated
    <2>3. /\ a = Appending(EvidenceReviewed(b.event.evidence, b.event.status))
          /\ b = Appending(EvidenceUpdated(a.event.evidence, a.event.status))
        BY <2>2
    <2> HIDE DEF a, b, c
    <2>4. MayPrecede(a, b) /\ Owes(a, b) /\ ~Owing(b) /\ ~Updating(a)
        BY <2>2, <2>3 DEF MayPrecede, Leading, Says, ByRepetition, Updating, Tasking, Owes, Owing,
                          Failed
    <2>5. Ordered(next) /\ Listed(next) = {a, b} /\ next[1] = a
        BY <2>4, TwoOrdered, TwoElements
    <2> HIDE DEF next
    <2>6. ASSUME c.evidence \in Evidence(log) PROVE Leads(log, c, next)
        <3>1. c.evidence \in 1..Len(log)
            BY <2>6, LedgerPositions DEF Evidence
        <3>2. CallGrounded(Len(log), a) /\ CallGrounded(Len(log), b)
            BY <2>2, <3>1 DEF CallGrounded, EventGrounded, TaskClosing
        <3>3. Current(log, a) /\ Current(log, b)
            BY <2>2 DEF Current, Says, ByRepetition
        <3>4. \A y : MayPrecede(c, y) => MayPrecede(a, y) /\ MayPrecede(b, y)
            BY <2>1, Inherited DEF Easy, Mild
        <3>5. QED BY <2>5, <3>2, <3>3, <3>4 DEF Leads, LeadsTo
    <2>7. PassesOn(log, c, next)
        BY <2>1, <2>4, <2>5 DEF PassesOn
    <2>8. QED BY <2>1, <2>6, <2>7, Turned DEF Runs, Easy, Mild, c
<1>5. ASSUME NEW d, NEW allowed, Return(p, allowed, <<d>>), Reading(d),
             todo[p] # Idle, Call(p).do \in {"inbox_evidence", "inbox_packet"}
      PROVE  Form(p)
    BY <1>5, ReadingIsSimple, TurnedOne DEF Easy, Mild
<1>6. CASE inbox_evidence(p)
    BY <1>5, <1>6, ReadingCalls DEF inbox_evidence, Called, Call
<1>7. CASE inbox_packet(p)
    BY <1>5, <1>7, ReadingCalls DEF inbox_packet, Called, Call
<1>8. CASE review_packet(p)
    <2> DEFINE raw == Packet(log, Call(p).packet)
               n == Cardinality(raw)
               calls == CallEach(n, LAMBDA k : ReviewEvidence(InOrder(raw)[k], Call(p).status))
    <2>1. todo[p] # Idle /\ Call(p).do = "review_packet" /\ Return(p, TRUE, calls)
        BY <1>8 DEF review_packet, Called, Call
    <2>2. n \in Nat
        BY PositionsAreFinite DEF Packet, Evidence, Positions
    <2>3. calls = [k \in 1..n |-> ReviewEvidence(InOrder(raw)[k], Call(p).status)]
        BY DEF CallEach
    <2> HIDE DEF n, raw, calls
    <2>4. /\ calls = [k \in 1..n |-> calls[k]]
          /\ \A k \in 1..n : Simple(calls[k]) /\ CallGrounded(Len(log), calls[k])
        BY <2>3, ReadingCalls, ReadingIsSimple
    <2>5. QED BY <2>1, <2>2, <2>4, TurnedEach DEF Easy, Mild
<1>9. QED BY <1>1, <1>2, <1>3, <1>4, <1>6, <1>7, <1>8

LEMMA GoalForms ==
    ASSUME NEW p \in Procs, UNCHANGED ran,
           update_goal_status(p) \/ link_goal_mission(p) \/ add_goal_blocker(p)
    PROVE  Form(p)
<1>1. PICK type, g, status, missions, blockers, allowed :
          /\ todo[p] # Idle /\ type \in GoalUpdate
          /\ Call(p).do \in {"goal_status", "goal_mission", "goal_blocker"}
          /\ Return(p, allowed, <<Appending(GoalWritten(type, g, status, missions, blockers))>>)
    BY DEF update_goal_status, link_goal_mission, add_goal_blocker, Called, Call, GoalUpdate
<1> DEFINE e == GoalWritten(type, g, status, missions, blockers)
<1>2. EventGrounded(e, Len(log)) /\ e.type \in GoalUpdate
    BY <1>1, SimpleEvents DEF GoalWritten
<1>3. Return(p, allowed, <<Appending(e)>>)
    BY <1>1
<1> HIDE DEF e
<1>4. Simple(Appending(e)) /\ CallGrounded(Len(log), Appending(e))
    BY <1>2, SimpleAppends, GroundedAppends DEF GoalUpdate
<1>5. QED BY <1>1, <1>3, <1>4, TurnedOne DEF Easy, Mild

-----------------------------------------------------------------------------
(* Plans of a learning review.                                             *)

LEMMA StepsAreOrdered ==
    ASSUME NEW x, NEW y, StepOfPlan(x), StepOfPlan(y)
    PROVE  MayPrecede(x, y)
BY DEF StepOfPlan, Mild, MayPrecede, Leading, Says, ByRepetition, Updating, Tasking

LEMMA JoinedOrderly ==
    ASSUME NEW s, NEW t, Orderly(s), Orderly(t)
    PROVE  Orderly(s \o t)
<1>1. Ordered(s \o t) /\ Listed(s \o t) = Listed(s) \cup Listed(t)
    BY StepsAreOrdered, JoinedOrdered DEF Orderly
<1>2. QED BY <1>1 DEF Orderly

LEMMA OrderlySteps ==
    ASSUME NEW c, StepOfPlan(c), ~Owing(c)
    PROVE  Orderly(<<c>>)
<1>1. Ordered(<<c>>) /\ Listed(<<c>>) = {c}
    BY OneOrdered
<1>2. QED BY <1>1 DEF Orderly

LEMMA StepCalls ==
    /\ \A s : StepOfPlan(Learn(s, FALSE)) /\ ~Owing(Learn(s, FALSE))
    /\ \A m, kind : LET c == Appending(MissionItemAdded(m, kind)) IN StepOfPlan(c) /\ ~Owing(c)
    /\ StepOfPlan(Appending(GrowthProposed)) /\ ~Owing(Appending(GrowthProposed))
    /\ \A subject : /\ StepOfPlan(Appending(ReflectionRecorded(subject)))
                    /\ StepOfPlan(OpenTask(subject)) /\ ~Owing(OpenTask(subject))
                    /\ Owes(Appending(ReflectionRecorded(subject)), OpenTask(subject))
BY DEF StepOfPlan, Mild, Owing, Failed, Owes, Opens, Learn, Appending, MissionItemAdded,
       GrowthProposed, ReflectionRecorded, OpenTask

LEMMA PlansAreOrderly ==
    ASSUME Inv, NEW scope \in {"step", "mission", "session"}, NEW target
    PROVE  Orderly(Plan(scope, target))
<1>1. ASSUME NEW c, NEW d, StepOfPlan(c), StepOfPlan(d), Owing(c) => Owes(c, d), ~Owing(d)
      PROVE  Orderly(<<c, d>>)
    <2>1. Ordered(<<c, d>>) /\ Listed(<<c, d>>) = {c, d}
        BY <1>1, StepsAreOrdered, TwoOrdered
    <2>2. QED BY <1>1, <2>1 DEF Orderly
<1>2. ASSUME NEW m PROVE Orderly(Lesson(m))
    <2> DEFINE a == Appending(MissionItemAdded(m, "lesson"))
               b == Appending(GrowthProposed)
    <2>1. StepOfPlan(a) /\ ~Owing(a) /\ StepOfPlan(b) /\ ~Owing(b)
        BY StepCalls
    <2> HIDE DEF a, b
    <2>2. Orderly(<<a, b>>)
        BY <1>1, <2>1
    <2>3. QED BY <2>2 DEF Lesson, a, b
<1>3. ASSUME NEW subject PROVE Orderly(Reflection(subject))
    <2> DEFINE a == Appending(ReflectionRecorded(subject))
               b == OpenTask(subject)
    <2>1. StepOfPlan(a) /\ Owes(a, b) /\ StepOfPlan(b) /\ ~Owing(b)
        BY StepCalls
    <2> HIDE DEF a, b
    <2>2. Orderly(<<a, b>>)
        BY <1>1, <2>1
    <2>3. QED BY <2>2 DEF Reflection, a, b
<1>4. ASSUME NEW m PROVE Orderly(MissingEvidence(m))
    <2>1. Orderly(<<Appending(MissionItemAdded(m, "evidence"))>>)
        BY StepCalls, OrderlySteps
    <2>2. QED BY <1>3, <2>1, JoinedOrderly DEF MissingEvidence
<1>5. Orderly(<<>>)
    BY NoneOrdered DEF Orderly
<1>6. CASE scope = "step"
    <2>1. Orderly(<<Learn(target, FALSE)>>)
        BY StepCalls, OrderlySteps
    <2>2. Orderly(Reflection(LearningSubject(target)) \o Lesson(log[target].mission))
        BY <1>2, <1>3, JoinedOrderly
    <2>3. Orderly(StepPlan(target))
        BY <1>5, <2>1, <2>2 DEF StepPlan
    <2>4. QED BY <1>6, <2>3 DEF Plan
<1>7. CASE scope = "mission"
    <2> DEFINE completed == StepsThat(log, target, "completed")
               failed == StepsThat(log, target, "failed") \cup StepsThat(log, target, "blocked")
               supported == \E i \in Positions(log, "mission.item_added") :
                               log[i].mission = target /\ log[i].kind = "evidence"
               n == Cardinality(completed)
               learning == CallEach(n, LAMBDA k : Learn(InOrder(completed)[k], FALSE))
               subject(k) == LearningSubject(InOrder(failed)[k])
               reflection(k) == Appending(ReflectionRecorded(subject(k)))
               task(k) == OpenTask(subject(k))
               f == Cardinality(failed)
               reviewing == CallBoth(f, reflection, task)
               missing == IF supported THEN <<>> ELSE MissingEvidence(target)
               lesson == IF completed = {} /\ failed = {} THEN <<>> ELSE Lesson(target)
    <2>1. n \in Nat /\ f \in Nat /\ 2 * f \in Nat
        <3>1. completed \in SUBSET (DOMAIN log) /\ failed \in SUBSET (DOMAIN log)
            BY DEF StepsThat, Steps, Positions
        <3>2. n \in Nat /\ f \in Nat
            BY <3>1, PositionsAreFinite
        <3>3. QED BY <3>2
    <2>2. Orderly(learning)
        <3>1. learning = [k \in 1..n |-> Learn(InOrder(completed)[k], FALSE)]
            BY DEF CallEach
        <3> HIDE DEF n, completed, learning
        <3>2. /\ learning = [k \in 1..n |-> learning[k]]
              /\ \A k \in 1..n : StepOfPlan(learning[k]) /\ ~Owing(learning[k])
            BY <3>1, StepCalls
        <3>3. Ordered(learning) /\ \A d \in Listed(learning) : \E k \in 1..n : d = learning[k]
            BY <2>1, <3>2, StepsAreOrdered, EachOrdered
        <3>4. QED BY <3>2, <3>3 DEF Orderly
    <2>3. Orderly(reviewing)
        <3>1. reviewing = [k \in 1..2 * f |-> IF k % 2 = 1 THEN reflection((k + 1) \div 2)
                                              ELSE task(k \div 2)]
            BY DEF CallBoth
        <3> HIDE DEF subject
        <3>2. \A k : /\ StepOfPlan(reflection(k)) /\ Owes(reflection(k), task(k))
                     /\ StepOfPlan(task(k)) /\ ~Owing(task(k))
            BY StepCalls
        <3> HIDE DEF f, reflection, task, reviewing
        <3>4. ASSUME NEW k \in 1..2 * f
              PROVE  \/ k % 2 = 1 /\ reviewing[k] = reflection((k + 1) \div 2)
                     \/ k % 2 # 1 /\ reviewing[k] = task(k \div 2)
            BY <3>1
        <3>5. reviewing = [k \in 1..2 * f |-> reviewing[k]]
              /\ \A k \in 1..2 * f : StepOfPlan(reviewing[k])
            BY <3>1, <3>2, <3>4
        <3>6. ASSUME NEW j \in 1..2 * f, Owing(reviewing[j])
              PROVE  \E k \in 1..2 * f : j < k /\ Owes(reviewing[j], reviewing[k])
            <4>1. j % 2 = 1 /\ reviewing[j] = reflection((j + 1) \div 2)
                BY <3>2, <3>4, <3>6
            <4>2. j + 1 \in 1..2 * f /\ (j + 1) % 2 # 1 /\ j < j + 1
                BY <2>1, <4>1
            <4>3. reviewing[j + 1] = task((j + 1) \div 2)
                BY <3>4, <4>2
            <4>4. QED BY <3>2, <4>1, <4>2, <4>3
        <3>7. Ordered(reviewing)
              /\ \A d \in Listed(reviewing) : \E k \in 1..2 * f : d = reviewing[k]
            BY <2>1, <3>5, <3>6, StepsAreOrdered, EachOrdered
        <3>8. QED BY <3>5, <3>7 DEF Orderly
    <2>4. Orderly(missing)
        <3> HIDE DEF supported
        <3>1. QED BY <1>4, <1>5
    <2>5. Orderly(lesson)
        <3> HIDE DEF completed, failed
        <3>1. QED BY <1>2, <1>5
    <2>6. MissionPlan(target) = learning \o reviewing \o missing \o lesson
        BY DEF MissionPlan
    <2> HIDE DEF learning, reviewing, missing, lesson
    <2>7. Orderly(MissionPlan(target))
        BY <2>2, <2>3, <2>4, <2>5, <2>6, JoinedOrderly
    <2>8. QED BY <1>7, <2>7 DEF Plan
<1>8. CASE scope = "session"
    <2>1. Orderly(<<Appending(GrowthProposed)>>)
        BY StepCalls, OrderlySteps
    <2>2. QED BY <1>8, <2>1 DEF Plan
<1>9. QED BY <1>6, <1>7, <1>8

LEMMA PlanLeads ==
    ASSUME NEW evs, NEW c, c.do = "apply_plan", NEW d, StepOfPlan(d)
    PROVE  LeadsTo(evs, c, d) /\ ~Updating(d)
<1>1. CallGrounded(Len(evs), d) /\ Current(evs, d) /\ ~Updating(d)
    BY DEF StepOfPlan, Mild, CallGrounded, EventGrounded, TaskClosing, Current, Says, ByRepetition,
           Updating
<1>2. \A y : MayPrecede(c, y) => MayPrecede(d, y)
    BY Inherited DEF Easy, Mild
<1>3. QED BY <1>1, <1>2 DEF LeadsTo

LEMMA LearningForms ==
    ASSUME Inv, GroundedInv, NEW p \in Procs, UNCHANGED ran,
           \/ run_learning_review(p) \/ apply_learning_plan(p) \/ open_tasks_from_reflection(p)
           \/ update_reflection_task(p) \/ close_mission_tasks(p)
    PROVE  Form(p)
<1>1. CASE run_learning_review(p)
    <2> DEFINE plan == IF Call(p).apply THEN Plan(Call(p).scope, Call(p).target) ELSE <<>>
               d == Creating(LearningStarted, ApplyPlan(plan))
    <2>1. todo[p] # Idle /\ Call(p).do = "learning_review" /\ Return(p, TRUE, <<d>>)
        BY <1>1 DEF run_learning_review, Called, Call
    <2>2. Call(p).scope \in {"step", "mission", "session"}
        BY <2>1, HeadCall DEF CallSound
    <2>3. Orderly(plan)
        BY <2>2, PlansAreOrderly, NoneOrdered DEF Orderly
    <2> HIDE DEF plan
    <2>4. /\ d.do = "create" /\ d.event.type = "learning_review.started"
          /\ d.then.do = "apply_plan" /\ d.then.plan = plan
        BY DEF Creating, LearningStarted, ApplyPlan
    <2> HIDE DEF d
    <2>5. Simple(d) /\ CallGrounded(Len(log), d)
        BY <2>3, <2>4
        DEF Simple, Leading, Says, ByRepetition, Updating, Tasking, Owing, CallGrounded
    <2>6. QED BY <2>1, <2>5, TurnedOne DEF Easy, Mild
<1>2. CASE apply_learning_plan(p)
    <2> DEFINE c == Call(p)
               e == LearningCompleted(c.own)
               d == Appending(e)
               end == <<d>>
               next == c.plan \o end
    <2>1. todo[p] # Idle /\ c.do = "apply_plan" /\ Return(p, TRUE, next)
        BY <1>2 DEF apply_learning_plan, Called, Call
    <2>2. Orderly(c.plan)
        BY <2>1, HeadGrounded DEF CallGrounded
    <2>3. e.type = "learning_review.completed" /\ EventGrounded(e, Len(log))
        BY SimpleEvents DEF LearningCompleted
    <2> HIDE DEF e
    <2>4. Simple(d) /\ CallGrounded(Len(log), d)
        BY <2>3, SimpleAppends, GroundedAppends
    <2>5. Ordered(end) /\ Listed(end) = {d} /\ LeadsTo(log, c, d) /\ ~Updating(d)
        BY <2>1, <2>4, SimpleStands, OneOrdered, SimpleLeads DEF Easy, Mild, Simple
    <2> HIDE DEF d, end, c
    <2>6. Ordered(next) /\ Listed(next) = Listed(c.plan) \cup Listed(end)
        BY <2>2, <2>4, <2>5, SimpleStands, JoinedOrdered DEF Orderly
    <2> HIDE DEF next
    <2>7. Leads(log, c, next) /\ \A x \in Listed(next) : ~Updating(x)
        BY <2>1, <2>2, <2>5, <2>6, PlanLeads DEF Leads, Orderly
    <2>8. PassesOn(log, c, next)
        BY <2>1, <2>6, <2>7, PassesSimple DEF Easy, Mild
    <2>9. QED BY <2>1, <2>7, <2>8, Turned DEF Runs, c
<1>3. CASE open_tasks_from_reflection(p)
    <2> DEFINE c == Call(p)
               task == TaskOpened(c.subject)
               exists == \E t \in OpenTasks(log) : log[t] = task
               d == Appending(task)
               next == If(~exists, d)
    <2>1. todo[p] # Idle /\ c.do = "open_task" /\ Return(p, TRUE, next)
        BY <1>3 DEF open_tasks_from_reflection, Called, Call, If
    <2>2. task.type = "reflection.task_opened"
        BY DEF TaskOpened
    <2>3. d.do = "append" /\ d.event = task
        BY DEF Appending
    <2>4. (exists => next = <<>>) /\ (~exists => next = <<d>>)
        BY DEF If
    <2>5. exists => \E t \in OpenTasks(log) : log[t] = TaskOpened(c.subject)
        OBVIOUS
    <2>6. d = Appending(TaskOpened(c.subject))
        OBVIOUS
    <2> HIDE DEF d, task, exists, c, next
    <2>7. CallGrounded(Len(log), d) /\ Current(log, d) /\ ~Owing(d) /\ ~Updating(d)
        BY <2>2, <2>3 DEF CallGrounded, EventGrounded, TaskClosing, Current, Says, ByRepetition,
                          Owing, Failed, Updating
    <2>8. LeadsTo(log, c, d)
        BY <2>1, <2>3, <2>7, Inherited DEF LeadsTo
    <2>9. Ordered(<<d>>) /\ Listed(<<d>>) = {d} /\ <<d>>[1] = d
        BY <2>7, OneOrdered, OneElement
    <2>10. Leads(log, c, <<d>>) /\ PassesOn(log, c, <<d>>)
        BY <2>6, <2>7, <2>8, <2>9 DEF Leads, PassesOn
    <2>11. Leads(log, c, <<>>) /\ (exists => PassesOn(log, c, <<>>))
        BY <2>5, NoneOrdered, NoElement DEF PassesOn
    <2>12. Leads(log, c, next) /\ PassesOn(log, c, next)
        BY <2>4, <2>10, <2>11
    <2>13. QED BY <2>1, <2>12, Turned DEF Runs, c
<1>4. CASE update_reflection_task(p)
    <2> DEFINE e == TaskClosed(Call(p).how, Call(p).task)
    <2>1. /\ todo[p] # Idle /\ Call(p).do = "close_task"
          /\ Return(p, Call(p).task \in OpenTasks(log), <<Appending(e)>>)
        BY <1>4 DEF update_reflection_task, Called, Call
    <2>2. Call(p).how \in TaskClosing
        BY <2>1, HeadCall DEF CallSound
    <2>3. e.type \in TaskClosing /\ e.task = Call(p).task
        BY <2>2 DEF TaskClosed
    <2> HIDE DEF e
    <2>4. Simple(Appending(e))
        BY <2>3, SimpleAppends DEF TaskClosing
    <2>5. ASSUME Call(p).task \in OpenTasks(log) PROVE CallGrounded(Len(log), Appending(e))
        <3>1. e.task \in 1..Len(log)
            BY <2>3, <2>5, LedgerPositions DEF OpenTasks, Tasks
        <3>2. EventGrounded(e, Len(log))
            BY <2>3, <3>1 DEF EventGrounded, TaskClosing
        <3>3. QED BY <3>2, GroundedAppends
    <2>6. QED BY <2>1, <2>4, <2>5, TurnedOne DEF Easy, Mild
<1>5. CASE close_mission_tasks(p)
    <2> DEFINE naming == {t \in OpenTasks(log) :
                             log[t].subject = Subject("evidence", Call(p).mission)}
               n == Cardinality(naming)
               calls == CallEach(n, LAMBDA k : CloseTask(InOrder(naming)[k], Call(p).how))
    <2>1. todo[p] # Idle /\ Call(p).do = "close_tasks" /\ Return(p, TRUE, calls)
        BY <1>5 DEF close_mission_tasks, Called, Call
    <2>2. n \in Nat
        BY PositionsAreFinite DEF OpenTasks, Tasks, Positions
    <2>3. calls = [k \in 1..n |-> CloseTask(InOrder(naming)[k], Call(p).how)]
        BY DEF CallEach
    <2> HIDE DEF n, naming, calls
    <2>4. /\ calls = [k \in 1..n |-> calls[k]]
          /\ \A k \in 1..n : Simple(calls[k]) /\ CallGrounded(Len(log), calls[k])
        BY <2>3, ReadingCalls, ReadingIsSimple
    <2>5. QED BY <2>1, <2>2, <2>4, TurnedEach DEF Easy, Mild
<1>6. QED BY <1>1, <1>2, <1>3, <1>4, <1>5

(* Every step is one of five forms.                                        *)
LEMMA StepForms ==
    ASSUME Inv, GroundedInv, [Next]_vars
    PROVE  (\E p \in Procs : Form(p)) \/ UNCHANGED vars
<1>1. ASSUME NEW p \in Procs, Command(p), UNCHANGED ran PROVE Form(p)
    BY <1>1, CommandForms
<1>2. ASSUME NEW p \in Procs, AppendEvent(p) \/ CreateRecord(p), UNCHANGED ran PROVE Form(p)
    <2>1. CASE AppendEvent(p)
        <3>1. Appends(p)
            BY <1>2, <2>1 DEF AppendEvent, Called, Call, Appends
        <3>2. QED BY <3>1 DEF Form
    <2>2. CASE CreateRecord(p)
        <3>1. Creates(p)
            BY <1>2, <2>2 DEF CreateRecord, Called, Call, Creates, Created
        <3>2. QED BY <3>1 DEF Form
    <2>3. QED BY <1>2, <2>1, <2>2
<1>3. ASSUME NEW p \in Procs, Step(p), UNCHANGED ran PROVE Form(p)
    BY <1>2, <1>3, AutonomyForms, SkillForms, EvidenceForms, GoalForms, LearningForms DEF Step
<1>4. ASSUME NEW p \in Procs, Crash(p), UNCHANGED ran PROVE Form(p)
    <2>1. Ends(p)
        BY <1>4 DEF Crash, Ends, Runs
    <2>2. QED BY <2>1 DEF Form
<1>5. ASSUME NEW p \in Procs, execute_allowed_action(p) PROVE Form(p)
    BY <1>5, ExecutionForms
<1>6. QED BY <1>1, <1>3, <1>4, <1>5 DEF Next

-----------------------------------------------------------------------------
(* What a step does to the lists of calls.                                 *)

LEMMA OthersStay ==
    ASSUME Inv, NEW p \in Procs, NEW calls, todo' = [todo EXCEPT ![p] = calls]
    PROVE  /\ todo'[p] = calls /\ \A q \in Procs : q # p => todo'[q] = todo[q]
           /\ todo' = [q \in Procs |-> todo'[q]]
BY DEF Inv

LEMMA HeadsOrdered ==
    ASSUME GroundedInv, NEW p \in Procs, todo[p] # Idle
    PROVE  LET rest == Tail(todo[p]) IN
           /\ IsSequence(todo[p]) /\ Ordered(todo[p])
           /\ Ordered(rest) /\ Listed(todo[p]) = {Call(p)} \cup Listed(rest)
           /\ \A y \in Listed(rest) : MayPrecede(Call(p), y)
           /\ Owing(Call(p)) => \E y \in Listed(rest) : Owes(Call(p), y)
<1>1. Ordered(todo[p]) /\ todo[p] # <<>>
    BY DEF GroundedInv, Idle
<1>2. QED BY <1>1, TailOrdered DEF Call, Ordered

LEMMA ReturnsLists ==
    ASSUME Inv, GroundedInv, NEW p \in Procs, NEW next, Returns(p, next)
    PROVE  LET rest == Tail(todo[p]) IN
           /\ Ordered(todo'[p]) /\ Listed(todo'[p]) = Listed(next) \cup Listed(rest)
           /\ Len(next) # 0 => todo'[p] # Idle /\ Head(todo'[p]) = next[1]
           /\ Len(next) = 0 => todo'[p] = rest
<1> DEFINE rest == Tail(todo[p])
<1>1. /\ todo'[p] = next \o rest /\ Ordered(next)
      /\ \A x \in Listed(next) : LeadsTo(log, Call(p), x)
    BY OthersStay DEF Returns, Leads
<1>2. Ordered(rest) /\ \A y \in Listed(rest) : MayPrecede(Call(p), y)
    BY HeadsOrdered DEF Returns
<1> HIDE DEF rest
<1>3. \A x \in Listed(next), y \in Listed(rest) : MayPrecede(x, y)
    BY <1>1, <1>2 DEF LeadsTo
<1>4. Ordered(next \o rest) /\ Listed(next \o rest) = Listed(next) \cup Listed(rest)
    BY <1>1, <1>2, <1>3, JoinedOrdered
<1>5. IsSequence(next) /\ IsSequence(rest)
    BY <1>1, <1>2 DEF Ordered
<1>6. QED BY <1>1, <1>4, <1>5, JoinedHead DEF rest, Idle

(* The call that follows a created record may stand where its call did.    *)
LEMMA CreatedCall ==
    ASSUME Inv, GroundedInv, NEW p \in Procs, Creates(p)
    PROVE  /\ Simple(Created(p)) /\ \A n : CallGrounded(n, Created(p))
           /\ Created(p).do \in {"link", "link_cited", "apply_plan"}
           /\ \A y : MayPrecede(Call(p), y) => MayPrecede(Created(p), y)
<1> DEFINE c == Call(p)
           d == Created(p)
<1>1. /\ todo[p] # Idle /\ c.do = "create"
      /\ CallGrounded(Len(log), c) /\ CallSound(log, ran, c)
    BY HeadGrounded, HeadCall DEF Creates
<1>2. /\ c.then.do \in {"link", "link_cited", "apply_plan"}
      /\ c.then.do = "apply_plan" => Orderly(c.then.plan)
    BY <1>1 DEF CallGrounded
<1>3. Following(c.then)
    BY <1>1 DEF CallSound
<1>4. d = [c.then EXCEPT !.own = Len(log) + 1]
    BY DEF Created
<1> HIDE DEF d, c
<1>5. d.do = c.then.do /\ (d.do = "apply_plan" => d.plan = c.then.plan)
    <2>1. CASE \E e, target : c.then = Link(e, target)
        BY <1>4, <2>1 DEF Link
    <2>2. CASE \E cited : c.then = LinkCited(cited)
        BY <1>4, <2>2 DEF LinkCited
    <2>3. CASE \E plan : c.then = ApplyPlan(plan)
        BY <1>4, <2>3 DEF ApplyPlan
    <2>4. QED BY <1>3, <2>1, <2>2, <2>3 DEF Following
<1>6. /\ Simple(d) /\ (\A n : CallGrounded(n, d))
      /\ d.do \in {"link", "link_cited", "apply_plan"}
    BY <1>2, <1>5
    DEF Simple, Leading, Says, ByRepetition, Updating, Tasking, Owing, CallGrounded
<1>7. \A y : MayPrecede(c, y) => MayPrecede(d, y)
    BY <1>1, Inherited DEF Easy, Mild
<1>8. QED BY <1>6, <1>7 DEF c, d

LEMMA CreatesLists ==
    ASSUME Inv, GroundedInv, NEW p \in Procs, Creates(p)
    PROVE  /\ Ordered(todo'[p]) /\ Listed(todo'[p]) = {Created(p)} \cup Listed(Tail(todo[p]))
           /\ todo'[p] # Idle /\ Head(todo'[p]) = Created(p)
<1> DEFINE rest == Tail(todo[p])
           d == Created(p)
           first == <<d>>
<1>1. todo'[p] = first \o rest
    BY OthersStay DEF Creates
<1>2. Ordered(rest) /\ \A y \in Listed(rest) : MayPrecede(Call(p), y)
    BY HeadsOrdered DEF Creates
<1>3. Simple(d) /\ \A y : MayPrecede(Call(p), y) => MayPrecede(d, y)
    BY CreatedCall
<1>4. Ordered(first) /\ Listed(first) = {d} /\ Len(first) # 0 /\ first[1] = d
    BY <1>3, OneOrdered, OneElement, SimpleStands
<1> HIDE DEF first, rest, d
<1>5. Ordered(first \o rest) /\ Listed(first \o rest) = {d} \cup Listed(rest)
    BY <1>2, <1>3, <1>4, JoinedOrdered
<1>6. first \o rest # <<>> /\ Head(first \o rest) = first[1]
    BY <1>2, <1>4, JoinedHead DEF Ordered
<1>7. QED BY <1>1, <1>4, <1>5, <1>6 DEF rest, Idle, d

LEMMA CommandsLists ==
    ASSUME Inv, NEW p \in Procs, NEW c, Commands(p, c)
    PROVE  Ordered(todo'[p]) /\ Listed(todo'[p]) = {c} /\ todo'[p] # Idle /\ Head(todo'[p]) = c
<1> DEFINE one == <<c>>
<1>1. todo'[p] = one
    BY OthersStay DEF Commands
<1>2. Ordered(one) /\ Listed(one) = {c}
    BY OneOrdered, SimpleStands DEF Commands
<1>3. one # <<>> /\ Head(one) = c
    OBVIOUS
<1>4. QED BY <1>1, <1>2, <1>3 DEF Idle

-----------------------------------------------------------------------------
(* Events refer to earlier ones, and calls are in order.                   *)

LEMMA GroundingStays ==
    ASSUME NEW n \in Nat, NEW m \in Nat, n <= m
    PROVE  /\ \A e : EventGrounded(e, n) => EventGrounded(e, m)
           /\ \A c : CallGrounded(n, c) => CallGrounded(m, c)
<1>1. \A i : i \in 1..n => i \in 1..m
    OBVIOUS
<1>2. \A e : EventGrounded(e, n) => EventGrounded(e, m)
    BY <1>1 DEF EventGrounded
<1>3. \A c : CallGrounded(n, c) => CallGrounded(m, c)
    BY <1>1, <1>2 DEF CallGrounded
<1>4. QED BY <1>2, <1>3

\* What becomes of the ledger.
LEMMA LogForms ==
    ASSUME Inv, GroundedInv, NEW p \in Procs, Form(p)
    PROVE  /\ Len(log) \in Nat
           /\ \/ log' = log
              \/ /\ log' = Append(log, Call(p).event) /\ Len(log') = Len(log) + 1
                 /\ \A i \in 1..Len(log) : log'[i] = log[i]
                 /\ log'[Len(log) + 1] = Call(p).event
                 /\ EventGrounded(Call(p).event, Len(log))
                 /\ todo[p] # Idle
                 /\ Appends(p) \/ Creates(p)
<1>1. IsSequence(log) /\ Len(log) \in Nat
    BY LedgerPositions
<1>2. ASSUME Appends(p) \/ Creates(p)
      PROVE  EventGrounded(Call(p).event, Len(log)) /\ log' = Append(log, Call(p).event)
             /\ todo[p] # Idle
    <2>1. CallGrounded(Len(log), Call(p))
        BY <1>2, HeadGrounded DEF Appends, Creates
    <2>2. CASE Appends(p)
        BY <2>1, <2>2 DEF Appends, CallGrounded
    <2>3. CASE Creates(p)
        BY <2>1, <2>3 DEF Creates, CallGrounded, EventGrounded, TaskClosing
    <2>4. QED BY <1>2, <2>2, <2>3
<1>3. ~(Appends(p) \/ Creates(p)) => log' = log
    BY DEF Form, Commands, Returns, Ends
<1>4. QED BY <1>1, <1>2, <1>3, Appended

\* What a handler's list holds after its step, and those of the others.
LEMMA ListForms ==
    ASSUME Inv, GroundedInv, NEW p \in Procs, Form(p)
    PROVE  /\ \A q \in Procs : q # p => todo'[q] = todo[q]
           /\ Ordered(todo'[p])
           /\ \/ \E c : Commands(p, c) /\ Listed(todo'[p]) = {c}
              \/ \E next : /\ Returns(p, next)
                           /\ Listed(todo'[p]) = Listed(next) \cup Listed(Tail(todo[p]))
              \/ Appends(p) /\ todo'[p] = Tail(todo[p])
              \/ Creates(p) /\ Listed(todo'[p]) = {Created(p)} \cup Listed(Tail(todo[p]))
              \/ Ends(p) /\ todo'[p] = Idle /\ Listed(todo'[p]) = {}
<1>1. CASE \E c : Commands(p, c)
    <2>1. PICK c : Commands(p, c)
        BY <1>1
    <2>2. \A q \in Procs : q # p => todo'[q] = todo[q]
        BY <2>1, OthersStay DEF Commands
    <2>3. QED BY <2>1, <2>2, CommandsLists
<1>2. CASE \E next : Returns(p, next)
    <2>1. PICK next : Returns(p, next)
        BY <1>2
    <2>2. \A q \in Procs : q # p => todo'[q] = todo[q]
        BY <2>1, OthersStay DEF Returns
    <2>3. QED BY <2>1, <2>2, ReturnsLists
<1>3. CASE Appends(p)
    <2>1. /\ \A q \in Procs : q # p => todo'[q] = todo[q]
          /\ todo'[p] = Tail(todo[p])
        BY <1>3, OthersStay DEF Appends
    <2>2. QED BY <1>3, <2>1, HeadsOrdered DEF Appends
<1>4. CASE Creates(p)
    <2>1. \A q \in Procs : q # p => todo'[q] = todo[q]
        BY <1>4, OthersStay DEF Creates
    <2>2. QED BY <1>4, <2>1, CreatesLists
<1>5. CASE Ends(p)
    <2>1. (\A q \in Procs : q # p => todo'[q] = todo[q]) /\ todo'[p] = Idle
        BY <1>5, OthersStay DEF Ends
    <2>2. Ordered(Idle) /\ Listed(Idle) = {}
        BY NoneOrdered DEF Idle
    <2>3. QED BY <1>5, <2>1, <2>2
<1>6. QED BY <1>1, <1>2, <1>3, <1>4, <1>5 DEF Form

LEMMA GroundedForms ==
    ASSUME Inv, GroundedInv, NEW p \in Procs, Form(p)
    PROVE  GroundedInv'
<1>1. Len(log) \in Nat /\ Len(log') \in Nat /\ Len(log) <= Len(log')
    BY LogForms
<1>2. \A i \in 1..Len(log') : EventGrounded(log'[i], i - 1)
    <2>1. CASE log' = log
        BY <2>1 DEF GroundedInv
    <2>2. CASE /\ Len(log') = Len(log) + 1
               /\ \A i \in 1..Len(log) : log'[i] = log[i]
               /\ EventGrounded(log'[Len(log) + 1], Len(log))
        <3>1. \A i \in 1..Len(log') : i \in 1..Len(log) \/ i = Len(log) + 1
            BY <1>1, <2>2
        <3>2. Len(log) + 1 - 1 = Len(log)
            BY <1>1
        <3>3. QED BY <2>2, <3>1, <3>2 DEF GroundedInv
    <2>3. QED BY <2>1, <2>2, LogForms
<1>3. ASSUME NEW q \in Procs, NEW c \in Listed(todo'[q])
      PROVE  CallGrounded(Len(log'), c)
    <2>1. ASSUME CallGrounded(Len(log), c) PROVE CallGrounded(Len(log'), c)
        BY <1>1, <2>1, GroundingStays
    <2>2. ASSUME todo[p] # Idle, c \in Listed(Tail(todo[p])) PROVE CallGrounded(Len(log'), c)
        BY <2>1, <2>2, HeadsOrdered DEF GroundedInv
    <2>3. CASE q # p
        BY <1>3, <2>1, <2>3, ListForms DEF GroundedInv
    <2>4. CASE q = p
        <3>1. ASSUME NEW d, Commands(p, d), Listed(todo'[p]) = {d}
              PROVE  CallGrounded(Len(log'), c)
            BY <1>3, <2>1, <2>4, <3>1 DEF Commands
        <3>2. ASSUME NEW next, Returns(p, next),
                     Listed(todo'[p]) = Listed(next) \cup Listed(Tail(todo[p]))
              PROVE  CallGrounded(Len(log'), c)
            BY <1>3, <2>1, <2>2, <2>4, <3>2 DEF Returns, Leads, LeadsTo
        <3>3. CASE Appends(p) /\ todo'[p] = Tail(todo[p])
            BY <1>3, <2>2, <2>4, <3>3 DEF Appends
        <3>4. CASE Creates(p) /\ Listed(todo'[p]) = {Created(p)} \cup Listed(Tail(todo[p]))
            BY <1>3, <2>2, <2>4, <3>4, CreatedCall DEF Creates
        <3>5. CASE Listed(todo'[p]) = {}
            BY <1>3, <2>4, <3>5
        <3>6. QED BY <3>1, <3>2, <3>3, <3>4, <3>5, ListForms
    <2>5. QED BY <2>3, <2>4
<1>4. ASSUME NEW q \in Procs PROVE Ordered(todo'[q])
    BY ListForms DEF GroundedInv
<1>5. QED BY <1>2, <1>3, <1>4 DEF GroundedInv

LEMMA GroundedInit == ASSUME Init PROVE GroundedInv
<1>1. Opening(log) /\ todo = [p \in Procs |-> <<>>]
    BY WorkAssumption DEF Init, HandlersInit, Idle
<1>2. log \in Seq(StartEvent)
    BY <1>1 DEF Opening
<1>3. ASSUME NEW i \in 1..Len(log) PROVE EventGrounded(log[i], i - 1)
    <2>1. log[i] \in StartEvent /\ i \in Nat /\ DOMAIN log = 1..Len(log) /\ Len(log) \in Nat
        BY <1>2
    <2>2. CASE log[i].type = "autonomy.action_reviewed"
        <3>1. i \in Positions(log, "autonomy.action_reviewed")
            BY <2>1, <2>2 DEF Positions
        <3>2. log[i].item \in Items(log) /\ log[i].item < i
            BY <1>1, <3>1 DEF Opening
        <3>3. log[i].item \in 1..i - 1
            BY <2>1, <3>2 DEF Items, Positions
        <3>4. log[i].status \in AutonomyReview
            BY <2>1, <2>2 DEF StartEvent, MissionOpened, SessionStarted, GoalCreated, GoalWritten
        <3>5. QED BY <2>2, <3>3, <3>4 DEF EventGrounded, TaskClosing
    <2>3. CASE log[i].type # "autonomy.action_reviewed"
        BY <2>1, <2>3 DEF StartEvent, EventGrounded, TaskClosing, MissionOpened, SessionStarted,
                          GoalCreated, GoalWritten
    <2>4. QED BY <2>2, <2>3
<1>4. ASSUME NEW p \in Procs PROVE Ordered(todo[p]) /\ Listed(todo[p]) = {}
    BY <1>1, NoneOrdered
<1>5. QED BY <1>3, <1>4 DEF GroundedInv

LEMMA GroundedHolds == Spec => [](Inv /\ GroundedInv)
<1>1. Init => GroundedInv
    BY GroundedInit
<1>2. Inv /\ GroundedInv /\ [Next]_vars => GroundedInv'
    <2> SUFFICES ASSUME Inv, GroundedInv, [Next]_vars PROVE GroundedInv'
        OBVIOUS
    <2>1. CASE UNCHANGED vars
        BY <2>1 DEF GroundedInv, vars, handlers
    <2>2. QED BY <2>1, StepForms, GroundedForms
<1>3. QED BY <1>1, <1>2, InvHolds, PTL DEF Spec

-----------------------------------------------------------------------------
(* While handlers do not overlap, nothing is done twice.                   *)

Sole == \A p, q \in Procs : todo[p] # Idle /\ todo[q] # Idle => p = q

RecordsOnce(evs) ==
    /\ \A j, k \in Positions(evs, "autonomy.action_reviewed") : evs[j].item = evs[k].item => j = k
    /\ \A j, k \in Positions(evs, "autonomy.action_executed") : evs[j].item = evs[k].item => j = k
    /\ \A j, k \in Positions(evs, "skill.candidate_reviewed") : evs[j].skill = evs[k].skill => j = k
    /\ \A k \in Skills(evs) : evs[k].auto => evs[k].steps \cap SourceSteps(UpTo(evs, k)) = {}

RanBefore(evs, runs) ==
    \A r \in runs : \A n \in Positions(evs, "autonomy.action_executed") :
        r.item = evs[n].item => r.at < n

OnceInv ==
    ~overlap =>
        /\ Sole
        /\ \A p \in Procs : \A c \in Listed(todo[p]) : Current(log, c)
        /\ RecordsOnce(log)
        /\ RanBefore(log, ran)

LEMMA AppendedPositions ==
    ASSUME NEW evs, IsSequence(evs), NEW e
    PROVE  LET new == Append(evs, e) IN
           /\ \A type, i : i \in Positions(new, type) <=>
                 i \in Positions(evs, type) \/ (i = Len(evs) + 1 /\ e.type = type)
           /\ \A type, i : i \in Positions(evs, type) =>
                 /\ i \in 1..Len(evs) /\ i < Len(evs) + 1 /\ new[i] = evs[i]
                 /\ evs[i].type = type
           /\ new[Len(evs) + 1] = e
<1> DEFINE new == Append(evs, e)
<1>1. /\ IsSequence(new) /\ Len(evs) \in Nat /\ Len(new) = Len(evs) + 1
      /\ \A k \in 1..Len(evs) : new[k] = evs[k]
      /\ new[Len(evs) + 1] = e
    BY Appended
<1>2. DOMAIN evs = 1..Len(evs) /\ DOMAIN new = 1..Len(new)
    BY <1>1 DEF IsSequence
<1> HIDE DEF new
<1>3. \A i : i \in 1..Len(new) <=> i \in 1..Len(evs) \/ i = Len(evs) + 1
    BY <1>1
<1>4. \A i \in 1..Len(evs) : i < Len(evs) + 1 /\ i # Len(evs) + 1
    BY <1>1
<1>5. QED BY <1>1, <1>2, <1>3, <1>4 DEF Positions, new

LEMMA AppendedSources ==
    ASSUME NEW evs, IsSequence(evs), NEW e
    PROVE  /\ e.type # "skill.candidate_proposed" =>
                  SourceSteps(Append(evs, e)) = SourceSteps(evs)
           /\ SourceSteps(Append(evs, e)) \subseteq SourceSteps(evs) \cup e.steps
<1> DEFINE new == Append(evs, e)
           m == Len(evs) + 1
<1>1. /\ \A i : i \in Skills(new) <=>
            i \in Skills(evs) \/ (i = m /\ e.type = "skill.candidate_proposed")
      /\ \A i : i \in Skills(evs) => new[i] = evs[i]
      /\ new[m] = e
    BY AppendedPositions DEF Skills
<1> HIDE DEF new, m
<1>2. ASSUME NEW s \in SourceSteps(new)
      PROVE  s \in SourceSteps(evs) \/ (e.type = "skill.candidate_proposed" /\ s \in e.steps)
    <2>1. PICK k \in Skills(new) : s \in new[k].steps
        BY DEF SourceSteps
    <2>2. QED BY <1>1, <2>1 DEF SourceSteps
<1>3. ASSUME NEW s \in SourceSteps(evs) PROVE s \in SourceSteps(new)
    <2>1. PICK k \in Skills(evs) : s \in evs[k].steps
        BY DEF SourceSteps
    <2>2. k \in Skills(new) /\ s \in new[k].steps
        BY <1>1, <2>1
    <2>3. QED BY <2>2 DEF SourceSteps
<1>4. QED BY <1>2, <1>3 DEF new

(* A call leaves those behind it current.                                  *)
LEMMA StaysCurrent ==
    ASSUME NEW evs, IsSequence(evs), NEW c, NEW x, MayPrecede(c, x), Current(evs, x)
    PROVE  Current(Append(evs, c.event), x)
<1> DEFINE new == Append(evs, c.event)
<1>1. /\ ~Leading(x)
      /\ Says(x, "autonomy.action_executed") =>
             c.event.type # "autonomy.action_executed" /\ Executions(evs, x.event.item) = {}
    BY DEF MayPrecede, Says, Current
<1>2. Says(x, "autonomy.action_executed") => Executions(new, x.event.item) = {}
    BY <1>1, AppendedPositions DEF Executions
<1>3. ASSUME ByRepetition(x) PROVE x.event.steps \cap SourceSteps(new) = {}
    <2>1. x.event.steps \cap SourceSteps(evs) = {}
        BY <1>3 DEF Current
    <2>2. CASE Says(c, "checkpoint.skill_candidate_proposed")
        BY <2>1, <2>2, AppendedSources DEF Says
    <2>3. CASE c.event.steps \cap x.event.steps = {}
        <3>1. SourceSteps(new) \subseteq SourceSteps(evs) \cup c.event.steps
            BY AppendedSources
        <3> HIDE DEF new
        <3>2. QED BY <2>1, <2>3, <3>1
    <2>4. QED BY <1>3, <2>2, <2>3 DEF MayPrecede
<1> HIDE DEF new
<1>4. Current(new, x)
    BY <1>1, <1>2, <1>3 DEF Current, Leading
<1>5. QED BY <1>4 DEF new

(* What is appended while it is current is no repetition.                  *)
LEMMA RecordedOnce ==
    ASSUME NEW evs, IsSequence(evs), NEW e, Current(evs, Appending(e)), RecordsOnce(evs)
    PROVE  RecordsOnce(Append(evs, e))
<1> DEFINE new == Append(evs, e)
           m == Len(evs) + 1
<1>1. /\ \A type, i : i \in Positions(new, type) <=>
             i \in Positions(evs, type) \/ (i = m /\ e.type = type)
      /\ \A type, i : i \in Positions(evs, type) => i \in 1..Len(evs) /\ new[i] = evs[i]
      /\ new[m] = e
    BY AppendedPositions
<1>2. /\ \A i \in 1..Len(evs) : UpTo(new, i) = UpTo(evs, i)
      /\ UpTo(new, m) = evs
    BY PrefixStays
<1>3. /\ e.type = "autonomy.action_reviewed" => ItemReviews(evs, e.item) = {}
      /\ e.type = "autonomy.action_executed" => Executions(evs, e.item) = {}
      /\ e.type = "skill.candidate_reviewed" => SkillReviews(evs, e.skill) = {}
      /\ e.type = "skill.candidate_proposed" /\ e.auto => e.steps \cap SourceSteps(evs) = {}
    BY DEF Current, Says, ByRepetition, Appending
<1> HIDE DEF new, m
<1>4. \A j, k \in Positions(new, "autonomy.action_reviewed") : new[j].item = new[k].item => j = k
    BY <1>1, <1>3 DEF RecordsOnce, ItemReviews
<1>5. \A j, k \in Positions(new, "autonomy.action_executed") : new[j].item = new[k].item => j = k
    BY <1>1, <1>3 DEF RecordsOnce, Executions
<1>6. \A j, k \in Positions(new, "skill.candidate_reviewed") : new[j].skill = new[k].skill => j = k
    BY <1>1, <1>3 DEF RecordsOnce, SkillReviews
<1>7. ASSUME NEW k \in Skills(new), new[k].auto
      PROVE  new[k].steps \cap SourceSteps(UpTo(new, k)) = {}
    <2>1. CASE k \in Skills(evs)
        BY <1>1, <1>2, <1>7, <2>1 DEF RecordsOnce, Skills
    <2>2. CASE k = m /\ e.type = "skill.candidate_proposed"
        BY <1>1, <1>2, <1>3, <1>7, <2>2
    <2>3. QED BY <1>1, <2>1, <2>2 DEF Skills
<1>8. QED BY <1>4, <1>5, <1>6, <1>7 DEF RecordsOnce, new

LEMMA RanBeforeAppended ==
    ASSUME NEW evs, IsSequence(evs), NEW runs, RunsSound(evs, runs), RanBefore(evs, runs), NEW e
    PROVE  RanBefore(Append(evs, e), runs)
<1> DEFINE new == Append(evs, e)
           m == Len(evs) + 1
<1>1. /\ \A type, i : i \in Positions(new, type) <=>
             i \in Positions(evs, type) \/ (i = m /\ e.type = type)
      /\ \A type, i : i \in Positions(evs, type) => new[i] = evs[i]
    BY AppendedPositions
<1>2. \A r \in runs : r.at < m
    BY Appended DEF RunsSound
<1> HIDE DEF new, m
<1>3. ASSUME NEW r \in runs, NEW n \in Positions(new, "autonomy.action_executed"),
             r.item = new[n].item
      PROVE  r.at < n
    <2>1. CASE n = m
        BY <1>2, <2>1
    <2>2. CASE n \in Positions(evs, "autonomy.action_executed")
        BY <1>1, <1>3, <2>2 DEF RanBefore
    <2>3. QED BY <1>1, <2>1, <2>2
<1>4. RanBefore(new, runs)
    BY <1>3 DEF RanBefore
<1>5. QED BY <1>4 DEF new

LEMMA RanBeforeRun ==
    ASSUME NEW evs, NEW runs, RanBefore(evs, runs), NEW i, Executions(evs, i) = {}, NEW n
    PROVE  RanBefore(evs, runs \cup {[item |-> i, at |-> n]})
BY DEF RanBefore, Executions

(* Two handlers under way overlap.                                         *)
LEMMA SoleForms ==
    ASSUME Inv, GroundedInv, NEW p \in Procs, Form(p), ~overlap', overlap \/ Sole
    PROVE  /\ ~overlap /\ Sole /\ Sole'
           /\ \A q \in Procs : q # p => todo[q] = Idle /\ todo'[q] = Idle
<1>1. \A q \in Procs : q # p => todo'[q] = todo[q]
    BY ListForms
<1>2. CASE \E c : Commands(p, c)
    <2>1. ~overlap /\ Quiescent
        BY <1>2 DEF Commands
    <2>2. QED BY <1>1, <2>1 DEF Sole, Quiescent
<1>3. CASE ~ \E c : Commands(p, c)
    <2>1. ~overlap /\ todo[p] # Idle
        <3>1. CASE \E next : Returns(p, next)
            BY <3>1 DEF Returns
        <3>2. CASE Ends(p)
            BY <3>2 DEF Ends
        <3>3. QED BY <1>3, <3>1, <3>2 DEF Form, Appends, Creates
    <2>2. QED BY <1>1, <2>1 DEF Sole
<1>4. QED BY <1>2, <1>3

LEMMA CurrentForms ==
    ASSUME Inv, GroundedInv, NEW p \in Procs, Form(p),
           \A c \in Listed(todo[p]) : Current(log, c), NEW c \in Listed(todo'[p])
    PROVE  Current(log', c)
<1> DEFINE rest == Tail(todo[p])
<1>1. IsSequence(log)
    BY LedgerPositions
<1>2. ASSUME todo[p] # Idle
      PROVE  /\ Current(log, Call(p))
             /\ \A d \in Listed(rest) : Current(log, d) /\ MayPrecede(Call(p), d)
    BY <1>2, HeadsOrdered
<1> HIDE DEF rest
<1>3. ASSUME Appends(p) \/ Creates(p), c \in Listed(rest) PROVE Current(log', c)
    <2>1. todo[p] # Idle /\ log' = Append(log, Call(p).event)
        BY <1>3 DEF Appends, Creates
    <2>2. QED BY <1>1, <1>2, <1>3, <2>1, StaysCurrent
<1>4. ASSUME NEW d, Commands(p, d), Listed(todo'[p]) = {d} PROVE Current(log', c)
    BY <1>4, SimpleStands DEF Commands
<1>5. ASSUME NEW next, Returns(p, next), Listed(todo'[p]) = Listed(next) \cup Listed(rest)
      PROVE  Current(log', c)
    BY <1>2, <1>5 DEF Returns, Leads, LeadsTo
<1>6. CASE Appends(p) /\ todo'[p] = rest
    BY <1>3, <1>6
<1>7. CASE Creates(p) /\ Listed(todo'[p]) = {Created(p)} \cup Listed(rest)
    BY <1>3, <1>7, CreatedCall, SimpleStands
<1>8. CASE Listed(todo'[p]) = {}
    BY <1>8
<1>9. QED BY <1>4, <1>5, <1>6, <1>7, <1>8, ListForms DEF rest

LEMMA OnceForms ==
    ASSUME Inv, GroundedInv, OnceInv, NEW p \in Procs, Form(p)
    PROVE  OnceInv'
<1> SUFFICES ASSUME ~overlap' PROVE OnceInv'
    BY DEF OnceInv
<1>1. /\ ~overlap /\ Sole'
      /\ \A q \in Procs : q # p => todo'[q] = Idle
    BY SoleForms DEF OnceInv
<1>2. /\ \A q \in Procs : \A c \in Listed(todo[q]) : Current(log, c)
      /\ RecordsOnce(log) /\ RanBefore(log, ran)
    BY <1>1 DEF OnceInv
<1>3. IsSequence(log) /\ RunsSound(log, ran)
    BY LedgerPositions DEF Inv
<1>4. ASSUME NEW q \in Procs, NEW c \in Listed(todo'[q]) PROVE Current(log', c)
    <2>1. q = p
        BY <1>1, <1>4, NoneOrdered DEF Idle
    <2>2. QED BY <1>2, <1>4, <2>1, CurrentForms
<1>5. ASSUME todo[p] # Idle PROVE Current(log, Call(p))
    BY <1>2, <1>5, HeadsOrdered
<1>6. RecordsOnce(log') /\ RanBefore(log', ran')
    <2>1. CASE Appends(p) \/ Creates(p)
        <3>1. todo[p] # Idle /\ log' = Append(log, Call(p).event) /\ ran' = ran
            BY <2>1 DEF Appends, Creates
        <3>2. Current(log, Appending(Call(p).event))
            <4>1. CASE Appends(p)
                BY <1>5, <3>1, <4>1 DEF Appends, Current, Appending, Says, ByRepetition
            <4>2. CASE Creates(p)
                BY <3>1, <4>2, HeadGrounded
                DEF Creates, CallGrounded, Current, Appending, Says, ByRepetition
            <4>3. QED BY <2>1, <4>1, <4>2
        <3>3. QED BY <1>2, <1>3, <3>1, <3>2, RecordedOnce, RanBeforeAppended
    <2>2. CASE log' = log /\ Runs(p) /\ todo[p] # Idle
        <3>1. CASE ran' = ran
            BY <1>2, <2>2, <3>1
        <3>2. CASE /\ Call(p).do = "run"
                   /\ ran' = ran \cup {[item |-> Call(p).item, at |-> Len(log)]}
            <4>1. Executions(log, Call(p).item) = {}
                BY <1>5, <2>2, <3>2 DEF Current
            <4>2. QED BY <1>2, <2>2, <3>2, <4>1, RanBeforeRun
        <3>3. QED BY <2>2, <3>1, <3>2 DEF Runs
    <2>3. CASE log' = log /\ ran' = ran
        BY <1>2, <2>3
    <2>4. QED BY <2>1, <2>2, <2>3 DEF Form, Commands, Returns, Ends
<1>7. QED BY <1>1, <1>4, <1>6 DEF OnceInv

LEMMA OnceInit == ASSUME Init PROVE OnceInv
<1>1. /\ Opening(log) /\ log \in Seq(StartEvent) /\ todo = [p \in Procs |-> <<>>]
      /\ ran = {}
    BY WorkAssumption DEF Init, HandlersInit, Idle, Opening
<1>2. ASSUME NEW i \in DOMAIN log
      PROVE  log[i].type \notin {"autonomy.action_executed", "skill.candidate_reviewed",
                                 "skill.candidate_proposed"}
    <2>1. log[i] \in StartEvent
        BY <1>1
    <2>2. QED BY <2>1 DEF StartEvent, MissionOpened, SessionStarted, GoalCreated, GoalWritten
<1>3. /\ Positions(log, "autonomy.action_executed") = {} /\ Skills(log) = {}
      /\ Positions(log, "skill.candidate_reviewed") = {}
    BY <1>2 DEF Positions, Skills
<1>4. ASSUME NEW j \in Positions(log, "autonomy.action_reviewed"),
             NEW k \in Positions(log, "autonomy.action_reviewed"), log[j].item = log[k].item
      PROVE  j = k
    <2>1. ItemReviews(log, log[j].item) = {j} /\ k \in ItemReviews(log, log[j].item)
        BY <1>1, <1>4 DEF Opening, ItemReviews
    <2>2. QED BY <2>1
<1>5. RecordsOnce(log)
    BY <1>3, <1>4 DEF RecordsOnce
<1>6. RanBefore(log, ran)
    BY <1>1 DEF RanBefore
<1>7. Sole
    BY <1>1 DEF Sole, Idle
<1>8. \A p \in Procs : Listed(todo[p]) = {}
    BY <1>1, NoneOrdered
<1>9. QED BY <1>5, <1>6, <1>7, <1>8 DEF OnceInv

LEMMA AtMostOne == ASSUME NEW S, \A j, k \in S : j = k PROVE Cardinality(S) <= 1
<1>1. CASE S = {}
    BY <1>1, FS_EmptySet
<1>2. CASE S # {}
    <2>1. PICK j \in S : TRUE
        BY <1>2
    <2>2. S = {j}
        BY <2>1
    <2>3. QED BY <2>2, FS_Singleton
<1>3. QED BY <1>1, <1>2

(* While handlers do not overlap, an autonomy item is decided once,        *)
(* executed once and not run again after its execution was recorded; a     *)
(* skill candidate is decided once, and one that was derived by repetition *)
(* seeds on no step an earlier candidate was made of: whoever dies, and    *)
(* whatever the handlers are (autonomy_queue.py:248, 269,                  *)
(* skill_memory.py:152-162, 199, checkpoint_links.py:259-273).             *)
THEOREM SoleWorkIsDoneOnce == Spec => []NoRework
<1>1. Init => OnceInv
    BY OnceInit
<1>2. Inv /\ GroundedInv /\ OnceInv /\ [Next]_vars => OnceInv'
    <2> SUFFICES ASSUME Inv, GroundedInv, OnceInv, [Next]_vars PROVE OnceInv'
        OBVIOUS
    <2>1. CASE UNCHANGED vars
        BY <2>1 DEF OnceInv, Sole, vars, handlers
    <2>2. QED BY <2>1, StepForms, OnceForms
<1>3. OnceInv => NoRework
    <2> SUFFICES ASSUME OnceInv, ~overlap PROVE NoRework
        BY DEF NoRework
    <2>1. RecordsOnce(log) /\ RanBefore(log, ran)
        BY DEF OnceInv
    <2>2. ASSUME NEW i \in Items(log)
          PROVE  /\ Cardinality(ItemReviews(log, i)) <= 1
                 /\ Cardinality(Executions(log, i)) <= 1
                 /\ \A r \in ran, n \in Executions(log, i) : r.item = i => r.at < n
        <3>1. \A j, k \in ItemReviews(log, i) : j = k
            BY <2>1 DEF RecordsOnce, ItemReviews
        <3>2. \A j, k \in Executions(log, i) : j = k
            BY <2>1 DEF RecordsOnce, Executions
        <3>3. \A r \in ran, n \in Executions(log, i) : r.item = i => r.at < n
            BY <2>1 DEF RanBefore, Executions
        <3>4. QED BY <3>1, <3>2, <3>3, AtMostOne
    <2>3. ASSUME NEW k \in Skills(log)
          PROVE  /\ Cardinality(SkillReviews(log, k)) <= 1
                 /\ log[k].auto => log[k].steps \cap SourceSteps(Before(k)) = {}
        <3>1. \A j, l \in SkillReviews(log, k) : j = l
            BY <2>1 DEF RecordsOnce, SkillReviews
        <3>2. Before(k) = UpTo(log, k)
            BY DEF Before, UpTo
        <3>3. QED BY <2>1, <3>1, <3>2, AtMostOne DEF RecordsOnce
    <2>4. QED BY <2>2, <2>3 DEF NoRework
<1>4. QED BY <1>1, <1>2, <1>3, GroundedHolds, PTL DEF Spec

-----------------------------------------------------------------------------
(* Reviews of evidence.                                                    *)

IsReview(f, e, s) == f.type = "evidence.reviewed" /\ f.evidence = e /\ f.status = s
IsUpdate(f, e, s) == f.type = "evidence.updated" /\ f.evidence = e /\ f.status = s

ReviewsIn(evs, n, e, s) == {i \in 1..n : IsReview(evs[i], e, s)}
UpdatesIn(evs, n, e, s) == {i \in 1..n : IsUpdate(evs[i], e, s)}

\* The handlers that have written a review and are about to change the record.
Rewriting(e, s) ==
    {p \in Procs : todo[p] # Idle /\ Call(p).do = "append" /\ IsUpdate(Call(p).event, e, s)}

\* Each change made, and each about to be, has a review to itself.
UpdatesCovered(e, s) ==
    Covered(UpdatesIn(log, Len(log), e, s), Rewriting(e, s), ReviewsIn(log, Len(log), e, s))

UpdatesInv ==
    /\ \A e, s : UpdatesCovered(e, s)
    /\ \A n \in 1..Len(log) : \A e, s :
          Cardinality(UpdatesIn(log, n, e, s)) <= Cardinality(ReviewsIn(log, n, e, s))

LEMMA NothingCovered == ASSUME NEW A PROVE Covered({}, {}, A)
<1> DEFINE f == [x \in {} |-> x]
<1>1. f \in [{} -> A]
    OBVIOUS
<1> HIDE DEF f
<1>2. QED BY <1>1 DEF Covered

\* What one more event adds to the changes and the reviews.
LEMMA MoreReviews ==
    ASSUME NEW evs, IsSequence(evs), NEW f, NEW e, NEW s
    PROVE  LET n == Len(evs) + 1
               new == Append(evs, f)
           IN  /\ Len(new) = n /\ n \notin 1..Len(evs)
               /\ UpdatesIn(new, n, e, s) =
                     UpdatesIn(evs, Len(evs), e, s) \cup {k \in {n} : IsUpdate(f, e, s)}
               /\ ReviewsIn(new, n, e, s) =
                     ReviewsIn(evs, Len(evs), e, s) \cup {k \in {n} : IsReview(f, e, s)}
<1> DEFINE new == Append(evs, f)
           n == Len(evs) + 1
<1>1. /\ Len(evs) \in Nat /\ Len(new) = n /\ new[n] = f
      /\ \A k \in 1..Len(evs) : new[k] = evs[k]
    BY Appended
<1> HIDE DEF new
<1>2. 1..n = 1..Len(evs) \cup {n} /\ n \notin 1..Len(evs)
    BY <1>1
<1> HIDE DEF n
<1>3. /\ UpdatesIn(new, n, e, s) =
            UpdatesIn(evs, Len(evs), e, s) \cup {k \in {n} : IsUpdate(f, e, s)}
      /\ ReviewsIn(new, n, e, s) =
            ReviewsIn(evs, Len(evs), e, s) \cup {k \in {n} : IsReview(f, e, s)}
    BY <1>1, <1>2 DEF ReviewsIn, UpdatesIn
<1>4. QED BY <1>1, <1>2, <1>3 DEF new, n

LEMMA EarlierReviews ==
    ASSUME NEW evs, IsSequence(evs), NEW f, NEW e, NEW s, NEW m \in 1..Len(evs)
    PROVE  /\ UpdatesIn(Append(evs, f), m, e, s) = UpdatesIn(evs, m, e, s)
           /\ ReviewsIn(Append(evs, f), m, e, s) = ReviewsIn(evs, m, e, s)
<1> DEFINE new == Append(evs, f)
<1>1. Len(evs) \in Nat /\ \A k \in 1..Len(evs) : new[k] = evs[k]
    BY Appended
<1> HIDE DEF new
<1>2. \A k \in 1..m : new[k] = evs[k]
    BY <1>1
<1>3. /\ UpdatesIn(new, m, e, s) = UpdatesIn(evs, m, e, s)
      /\ ReviewsIn(new, m, e, s) = ReviewsIn(evs, m, e, s)
    BY <1>2 DEF ReviewsIn, UpdatesIn
<1>4. QED BY <1>3 DEF new

\* A ledger starts without reviews or changes of evidence.
LEMMA NoneReviewed ==
    ASSUME Init
    PROVE  /\ Len(log) \in Nat /\ DOMAIN log = 1..Len(log)
           /\ \A p \in Procs : todo[p] = Idle
           /\ \A i \in 1..Len(log) : log[i].type \notin {"evidence.reviewed", "evidence.updated"}
<1>1. log \in Seq(StartEvent) /\ todo = [p \in Procs |-> Idle]
    BY WorkAssumption DEF Init, HandlersInit, Opening
<1>2. \A f \in StartEvent : f.type \notin {"evidence.reviewed", "evidence.updated"}
    BY DEF StartEvent, MissionOpened, SessionStarted, GoalCreated, GoalWritten
<1>3. QED BY <1>1, <1>2

LEMMA UpdatesInit == ASSUME Init PROVE UpdatesInv
<1>1. Len(log) \in Nat /\ \A n \in 1..Len(log) : 1..n \subseteq 1..Len(log) /\ IsFiniteSet(1..n)
    BY NoneReviewed, FS_Interval
<1>2. ASSUME NEW e, NEW s PROVE UpdatesCovered(e, s)
    <2>1. UpdatesIn(log, Len(log), e, s) = {} /\ Rewriting(e, s) = {}
        BY NoneReviewed DEF UpdatesIn, IsUpdate, Rewriting
    <2>2. QED BY <2>1, NothingCovered DEF UpdatesCovered
<1>3. ASSUME NEW n \in 1..Len(log), NEW e, NEW s
      PROVE  Cardinality(UpdatesIn(log, n, e, s)) <= Cardinality(ReviewsIn(log, n, e, s))
    <2>1. UpdatesIn(log, n, e, s) = {}
        BY <1>1, NoneReviewed DEF UpdatesIn, IsUpdate
    <2>2. IsFiniteSet(ReviewsIn(log, n, e, s))
        BY <1>1, FS_Subset DEF ReviewsIn
    <2>3. Cardinality(ReviewsIn(log, n, e, s)) \in Nat
        BY <2>2, FS_CardinalityType
    <2>4. QED BY <2>1, <2>3, FS_EmptySet
<1>4. QED BY <1>2, <1>3 DEF UpdatesInv

\* When nothing is recorded, no handler comes to be about to change a record.
LEMMA NoNewRewriting ==
    ASSUME UpdatesInv, log' = log, \A e, s : Rewriting(e, s)' \subseteq Rewriting(e, s)
    PROVE  UpdatesInv'
<1>1. ASSUME NEW e, NEW s PROVE UpdatesCovered(e, s)'
    BY CoveredShrinks DEF UpdatesInv, UpdatesCovered
<1>2. QED BY <1>1 DEF UpdatesInv

LEMMA RecordedReviews ==
    ASSUME Inv, UpdatesInv, NEW f, log' = Append(log, f), \A e, s : UpdatesCovered(e, s)'
    PROVE  UpdatesInv'
<1>1. IsSequence(log) /\ Len(log) \in Nat
    BY LedgerPositions
<1>2. Len(log') = Len(log) + 1
    BY <1>1, Appended
<1>3. ASSUME NEW n \in 1..Len(log'), NEW e, NEW s
      PROVE  Cardinality(UpdatesIn(log', n, e, s)) <= Cardinality(ReviewsIn(log', n, e, s))
    <2>1. CASE n \in 1..Len(log)
        <3>1. /\ UpdatesIn(log', n, e, s) = UpdatesIn(log, n, e, s)
              /\ ReviewsIn(log', n, e, s) = ReviewsIn(log, n, e, s)
            BY <1>1, <2>1, EarlierReviews
        <3>2. Cardinality(UpdatesIn(log, n, e, s)) <= Cardinality(ReviewsIn(log, n, e, s))
            BY <2>1 DEF UpdatesInv
        <3>3. QED BY <3>1, <3>2
    <2>2. CASE n = Len(log')
        <3>1. IsFiniteSet(1..Len(log'))
            BY <1>1, <1>2, FS_Interval
        <3>2. IsFiniteSet(ReviewsIn(log', n, e, s))
            BY <2>2, <3>1, FS_Subset DEF ReviewsIn
        <3>3. QED BY <2>2, <3>2, CoveredCounts DEF UpdatesCovered
    <2>3. QED BY <1>1, <1>2, <2>1, <2>2
<1>4. QED BY <1>3 DEF UpdatesInv

\* Only the process whose calls change matters.
LEMMA RewritingHeads ==
    ASSUME NEW p \in Procs, \A q \in Procs : q # p => todo'[q] = todo[q], NEW e, NEW s
    PROVE  Rewriting(e, s)' \subseteq Rewriting(e, s) \cup {p}
BY DEF Rewriting, Call

LEMMA RewritingOthers ==
    ASSUME NEW p \in Procs, \A q \in Procs : q # p => todo'[q] = todo[q], NEW e, NEW s,
           todo'[p] # Idle => ~Updating(Head(todo'[p]))
    PROVE  Rewriting(e, s)' \subseteq Rewriting(e, s) \ {p}
BY DEF Rewriting, Call, Updating, Says, IsUpdate

(* A change that comes to the front has its review in front of it.         *)
LEMMA UpdateBehind ==
    ASSUME GroundedInv, NEW p \in Procs, todo[p] # Idle, Tail(todo[p]) # Idle,
           Updating(Head(Tail(todo[p])))
    PROVE  LET f == Head(Tail(todo[p])).event IN
           Call(p) = Appending(EvidenceReviewed(f.evidence, f.status))
<1> DEFINE rest == Tail(todo[p])
<1>1. Ordered(rest) /\ \A y \in Listed(rest) : MayPrecede(Call(p), y)
    BY HeadsOrdered
<1> HIDE DEF rest
<1>2. rest # <<>>
    BY DEF rest, Idle
<1>3. Head(rest) \in Listed(rest)
    BY <1>1, <1>2, TailOrdered
<1>4. QED BY <1>1, <1>3 DEF MayPrecede, rest

\* What stands in front after a step.
LEMMA HeadForms ==
    ASSUME Inv, GroundedInv, NEW p \in Procs, Form(p), todo'[p] # Idle, Updating(Head(todo'[p]))
    PROVE  LET f == Head(todo'[p]).event IN
           Appends(p) /\ Call(p) = Appending(EvidenceReviewed(f.evidence, f.status))
<1>1. ASSUME NEW c, Commands(p, c) PROVE FALSE
    BY <1>1, CommandsLists DEF Commands, Simple
<1>2. ASSUME NEW next, Returns(p, next) PROVE FALSE
    <2>1. /\ Len(next) # 0 => Head(todo'[p]) = next[1] /\ ~Updating(next[1])
          /\ Len(next) = 0 => todo'[p] = Tail(todo[p])
        BY <1>2, ReturnsLists DEF Returns, PassesOn
    <2>2. todo[p] # Idle /\ Call(p).do # "append"
        BY <1>2 DEF Returns
    <2>3. \A f : Appending(f).do = "append"
        BY DEF Appending
    <2>4. CASE Len(next) = 0
        <3>1. Tail(todo[p]) # Idle /\ Updating(Head(Tail(todo[p])))
            BY <2>1, <2>4
        <3>2. \E f : Call(p) = Appending(f)
            BY <2>2, <3>1, UpdateBehind
        <3>3. QED BY <2>2, <2>3, <3>2
    <2>5. QED BY <2>1, <2>4
<1>3. CASE Creates(p)
    <2>1. Head(todo'[p]) = Created(p) /\ Created(p).do # "append"
        BY <1>3, CreatesLists, CreatedCall
    <2>2. QED BY <2>1 DEF Updating, Says
<1>4. CASE Appends(p)
    <2>1. todo[p] # Idle /\ todo'[p] = Tail(todo[p])
        BY <1>4, OthersStay DEF Appends
    <2>2. QED BY <1>4, <2>1, UpdateBehind
<1>5. CASE Ends(p)
    BY <1>5, OthersStay DEF Ends
<1>6. QED BY <1>1, <1>2, <1>3, <1>4, <1>5 DEF Form

LEMMA UpdatedAppend ==
    ASSUME Inv, GroundedInv, UpdatesInv, NEW p \in Procs, Form(p), Appends(p) \/ Creates(p),
           NEW e, NEW s
    PROVE  UpdatesCovered(e, s)'
<1> DEFINE f == Call(p).event
           n == Len(log) + 1
           P == UpdatesIn(log, Len(log), e, s)
           H == Rewriting(e, s)
           A == ReviewsIn(log, Len(log), e, s)
<1>1. /\ \A q \in Procs : q # p => todo'[q] = todo[q]
      /\ todo[p] # Idle /\ log' = Append(log, Call(p).event)
    BY ListForms DEF Appends, Creates
<1>2. IsSequence(log)
    BY LedgerPositions
<1>3. /\ Len(log') = n /\ n \notin 1..Len(log)
      /\ UpdatesIn(log', Len(log'), e, s) = P \cup {k \in {n} : IsUpdate(f, e, s)}
      /\ ReviewsIn(log', Len(log'), e, s) = A \cup {k \in {n} : IsReview(f, e, s)}
    BY <1>1, <1>2, MoreReviews
<1>4. n \notin P /\ n \notin A
    BY <1>3 DEF ReviewsIn, UpdatesIn
<1>5. Covered(P, H, A)
    BY DEF UpdatesInv, UpdatesCovered
<1>6. /\ IsUpdate(f, e, s) => p \in H
      /\ p \in H => IsUpdate(f, e, s)
    <2>1. Creates(p) => ~IsUpdate(f, e, s)
        BY <1>1, HeadGrounded DEF Creates, CallGrounded, IsUpdate
    <2>2. QED BY <1>1, <2>1 DEF Rewriting, Appends
<1>7. p \in Rewriting(e, s)' => IsReview(f, e, s)
    <2>1. ASSUME p \in Rewriting(e, s)' PROVE IsReview(f, e, s)
        <3>1. /\ todo'[p] # Idle /\ Updating(Head(todo'[p]))
              /\ IsUpdate(Head(todo'[p]).event, e, s)
            BY <2>1 DEF Rewriting, Call, Updating, Says, IsUpdate
        <3>2. Call(p) = Appending(EvidenceReviewed(e, s))
            BY <3>1, HeadForms DEF IsUpdate
        <3>3. QED BY <3>2 DEF Appending, EvidenceReviewed, IsReview
    <2>2. QED BY <2>1
<1>8. Rewriting(e, s)' \subseteq H \cup {p}
    BY <1>1, RewritingHeads
<1> HIDE DEF f, n, P, H, A
<1>9. CASE IsUpdate(f, e, s)
    <2>1. ~IsReview(f, e, s)
        BY <1>9 DEF IsReview, IsUpdate
    <2>2. Rewriting(e, s)' \subseteq H \ {p}
        BY <1>7, <1>8, <2>1
    <2>3. /\ UpdatesIn(log', Len(log'), e, s) = P \cup {n}
          /\ ReviewsIn(log', Len(log'), e, s) = A
        BY <1>3, <1>9, <2>1
    <2>4. Covered(P \cup {n}, H \ {p}, A)
        BY <1>4, <1>5, <1>6, <1>9, CoveredByHolder
    <2>5. Covered(P \cup {n}, Rewriting(e, s)', A)
        BY <2>2, <2>4, CoveredShrinks
    <2>6. QED BY <2>3, <2>5 DEF UpdatesCovered
<1>10. CASE IsReview(f, e, s)
    <2>1. ~IsUpdate(f, e, s)
        BY <1>10 DEF IsReview, IsUpdate
    <2>2. /\ UpdatesIn(log', Len(log'), e, s) = P
          /\ ReviewsIn(log', Len(log'), e, s) = A \cup {n}
        BY <1>3, <1>10, <2>1
    <2>3. Covered(P, H \cup {p}, A \cup {n})
        BY <1>4, <1>5, <1>6, <2>1, CoveredByNew
    <2>4. Covered(P, Rewriting(e, s)', A \cup {n})
        BY <1>8, <2>3, CoveredShrinks
    <2>5. QED BY <2>2, <2>4 DEF UpdatesCovered
<1>11. CASE ~IsReview(f, e, s) /\ ~IsUpdate(f, e, s)
    <2>1. Rewriting(e, s)' \subseteq H
        BY <1>7, <1>8, <1>11
    <2>2. /\ UpdatesIn(log', Len(log'), e, s) = P
          /\ ReviewsIn(log', Len(log'), e, s) = A
        BY <1>3, <1>11
    <2>3. Covered(P, Rewriting(e, s)', A)
        BY <1>5, <2>1, CoveredShrinks
    <2>4. QED BY <2>2, <2>3 DEF UpdatesCovered
<1>12. QED BY <1>9, <1>10, <1>11

LEMMA UpdatesForms ==
    ASSUME Inv, GroundedInv, UpdatesInv, NEW p \in Procs, Form(p)
    PROVE  UpdatesInv'
<1>1. CASE Appends(p) \/ Creates(p)
    <2>1. log' = Append(log, Call(p).event)
        BY <1>1 DEF Appends, Creates
    <2>2. QED BY <1>1, <2>1, UpdatedAppend, RecordedReviews
<1>2. CASE ~(Appends(p) \/ Creates(p))
    <2>1. log' = log
        BY <1>2 DEF Form, Commands, Returns, Ends
    <2>2. todo'[p] # Idle => ~Updating(Head(todo'[p]))
        BY <1>2, HeadForms
    <2>3. \A e, s : Rewriting(e, s)' \subseteq Rewriting(e, s)
        BY <2>2, ListForms, RewritingOthers
    <2>4. QED BY <2>1, <2>3, NoNewRewriting
<1>3. QED BY <1>1, <1>2

-----------------------------------------------------------------------------
(* A record of evidence shows its last review.                             *)

LastReview(evs, e) == evs[Max(EvidenceReviews(evs, e))]

\* The last review of e is written, and the record is the next of these calls.
Completing(evs, calls, e) ==
    calls # Idle /\ Head(calls) = Appending(EvidenceUpdated(e, LastReview(evs, e).status))

Agrees(evs, e) == EvidenceStatus(evs, e) = LastReview(evs, e).status

AgreeInv ==
    ~overlap =>
        /\ Sole
        /\ ~killed =>
              /\ \A e \in Evidence(log) : EvidenceReviews(log, e) # {} =>
                    Agrees(log, e) \/ \E p \in Procs : Completing(log, todo[p], e)
              /\ \A p \in Procs : todo[p] # Idle /\ Updating(Call(p)) =>
                    Completing(log, todo[p], Call(p).event.evidence)

LEMMA LatestAdded ==
    ASSUME NEW n \in Nat, NEW S \in SUBSET (0..n)
    PROVE  Max(S \cup {n + 1}) = n + 1
<1> DEFINE T == S \cup {n + 1}
           m == n + 1
<1>1. m \in Nat /\ T \in SUBSET (0..m) /\ T # {} /\ m \in T
    OBVIOUS
<1> HIDE DEF T, m
<1>2. Max(T) \in T /\ m <= Max(T)
    BY <1>1, MaxIsGreatest
<1>3. Max(T) \in 0..m
    BY <1>1, <1>2
<1>4. Max(T) = m
    BY <1>1, <1>2, <1>3
<1>5. QED BY <1>4 DEF T, m

\* What an event says of the evidence before it.
LEMMA EvidenceAppended ==
    ASSUME NEW evs, IsSequence(evs), NEW f, NEW e \in 1..Len(evs)
    PROVE  LET new == Append(evs, f) IN
           /\ ~(f.type = "evidence.updated" /\ f.evidence = e) =>
                 EvidenceStatus(new, e) = EvidenceStatus(evs, e)
           /\ f.type = "evidence.updated" /\ f.evidence = e => EvidenceStatus(new, e) = f.status
           /\ ~(f.type = "evidence.reviewed" /\ f.evidence = e) =>
                 /\ EvidenceReviews(new, e) = EvidenceReviews(evs, e)
                 /\ EvidenceReviews(evs, e) # {} => LastReview(new, e) = LastReview(evs, e)
           /\ f.type = "evidence.reviewed" /\ f.evidence = e => LastReview(new, e) = f
<1> DEFINE new == Append(evs, f)
           m == Len(evs) + 1
           R == EvidenceReviews(evs, e)
           U == EvidenceUpdates(evs, e)
<1>1. Len(evs) \in Nat
    BY Appended
<1>2. /\ \A type, i : i \in Positions(new, type) <=>
             i \in Positions(evs, type) \/ (i = m /\ f.type = type)
      /\ \A type, i : i \in Positions(evs, type) => i \in 1..Len(evs) /\ new[i] = evs[i]
      /\ new[m] = f
    BY AppendedPositions
<1>3. new[e] = evs[e]
    BY Appended
<1> HIDE DEF new, m
<1>4. /\ \A i \in R : i \in 1..Len(evs) /\ new[i] = evs[i]
      /\ \A i \in U : i \in 1..Len(evs) /\ new[i] = evs[i]
    BY <1>2 DEF EvidenceReviews, EvidenceUpdates
<1>5. /\ f.type = "evidence.reviewed" /\ f.evidence = e =>
            EvidenceReviews(new, e) = R \cup {m}
      /\ ~(f.type = "evidence.reviewed" /\ f.evidence = e) => EvidenceReviews(new, e) = R
    BY <1>2 DEF EvidenceReviews
<1>6. /\ f.type = "evidence.updated" /\ f.evidence = e =>
            EvidenceUpdates(new, e) = U \cup {m}
      /\ ~(f.type = "evidence.updated" /\ f.evidence = e) => EvidenceUpdates(new, e) = U
    BY <1>2 DEF EvidenceUpdates
<1> HIDE DEF R, U
<1>7. R # {} => Max(R) \in R
    <2>1. R \in SUBSET (0..Len(evs))
        BY <1>1, <1>4
    <2>2. QED BY <1>1, <2>1, MaxIsGreatest
<1>8. new[Max({e} \cup U)] = evs[Max({e} \cup U)]
    <2> DEFINE S == {e} \cup U
    <2>1. \A i \in S : i \in 0..Len(evs) /\ new[i] = evs[i]
        BY <1>1, <1>3, <1>4
    <2>2. S \in SUBSET (0..Len(evs)) /\ S # {}
        BY <2>1
    <2> HIDE DEF S
    <2>3. Max(S) \in S
        BY <1>1, <2>2, MaxIsGreatest
    <2>4. QED BY <2>1, <2>3 DEF S
<1>9. Max(R \cup {m}) = m /\ Max({e} \cup (U \cup {m})) = m
    <2> DEFINE S == {e} \cup U
    <2>1. \A i \in R \cup S : i \in 0..Len(evs)
        BY <1>1, <1>4
    <2>2. R \in SUBSET (0..Len(evs)) /\ S \in SUBSET (0..Len(evs))
        BY <2>1
    <2>3. {e} \cup (U \cup {m}) = S \cup {m}
        OBVIOUS
    <2> HIDE DEF S
    <2>4. QED BY <1>1, <2>2, <2>3, LatestAdded DEF m
<1>10. /\ ~(f.type = "evidence.updated" /\ f.evidence = e) =>
             EvidenceStatus(new, e) = EvidenceStatus(evs, e)
       /\ f.type = "evidence.updated" /\ f.evidence = e => EvidenceStatus(new, e) = f.status
    BY <1>2, <1>6, <1>8, <1>9 DEF EvidenceStatus, U
<1>11. ASSUME ~(f.type = "evidence.reviewed" /\ f.evidence = e)
       PROVE  /\ EvidenceReviews(new, e) = EvidenceReviews(evs, e)
              /\ EvidenceReviews(evs, e) # {} => LastReview(new, e) = LastReview(evs, e)
    BY <1>4, <1>5, <1>7, <1>11 DEF LastReview, R
<1>12. f.type = "evidence.reviewed" /\ f.evidence = e => LastReview(new, e) = f
    BY <1>2, <1>5, <1>9 DEF LastReview
<1>13. QED BY <1>10, <1>11, <1>12 DEF new

(* After a review comes the change of the record, and nothing in between.  *)
LEMMA ReviewThenUpdate ==
    ASSUME GroundedInv, NEW p \in Procs, todo[p] # Idle, Says(Call(p), "evidence.reviewed")
    PROVE  /\ Tail(todo[p]) # Idle
           /\ Head(Tail(todo[p])) =
                 Appending(EvidenceUpdated(Call(p).event.evidence, Call(p).event.status))
<1> DEFINE rest == Tail(todo[p])
           f == Call(p).event
           u == Appending(EvidenceUpdated(f.evidence, f.status))
<1>1. /\ Ordered(rest) /\ \A y \in Listed(rest) : MayPrecede(Call(p), y)
      /\ Owing(Call(p)) => \E y \in Listed(rest) : Owes(Call(p), y)
    BY HeadsOrdered
<1>2. u \in Listed(rest)
    <2>1. Owing(Call(p)) /\ f.type = "evidence.reviewed"
        BY DEF Owing, Says
    <2>2. PICK y \in Listed(rest) : Owes(Call(p), y)
        BY <1>1, <2>1
    <2>3. y = u
        BY <2>1, <2>2 DEF Owes, Failed
    <2>4. QED BY <2>2, <2>3
<1>3. Updating(u)
    BY DEF Updating, Says, Appending, EvidenceUpdated
<1>4. u.event.evidence = f.evidence /\ u.event.status = f.status
    BY DEF Appending, EvidenceUpdated
<1> HIDE DEF rest, u
<1>5. rest # <<>>
    BY <1>2, NoneOrdered
<1>6. /\ Listed(rest) = {Head(rest)} \cup Listed(Tail(rest))
      /\ \A y \in Listed(Tail(rest)) : MayPrecede(Head(rest), y)
    BY <1>1, <1>5, TailOrdered
<1>7. Head(rest) = u
    <2>1. ASSUME u \in Listed(Tail(rest)) PROVE FALSE
        <3>1. Head(rest) = Appending(EvidenceReviewed(u.event.evidence, u.event.status))
            BY <1>3, <1>6, <2>1 DEF MayPrecede
        <3>2. Says(Head(rest), "evidence.reviewed")
            BY <3>1 DEF Says, Appending, EvidenceReviewed
        <3>3. ~Leading(Head(rest))
            BY <1>1, <1>6 DEF MayPrecede
        <3>4. QED BY <3>2, <3>3 DEF Leading
    <2>2. QED BY <1>2, <1>6, <2>1
<1>8. QED BY <1>5, <1>7 DEF rest, u, Idle

\* An event about evidence is about some in the ledger.
EvidenceGroundedBy(f) ==
    f.type \in {"evidence.reviewed", "evidence.updated"} => f.evidence \in 1..Len(log)

LEMMA AgreesStays ==
    ASSUME Inv, NEW f, log' = Append(log, f), NEW e \in 1..Len(log),
           f.type \in {"evidence.reviewed", "evidence.updated"} => f.evidence # e,
           EvidenceReviews(log, e) # {} => Agrees(log, e), EvidenceReviews(log', e) # {}
    PROVE  Agrees(log', e)
<1>1. IsSequence(log)
    BY LedgerPositions
<1>2. /\ EvidenceStatus(log', e) = EvidenceStatus(log, e)
      /\ EvidenceReviews(log', e) = EvidenceReviews(log, e)
      /\ EvidenceReviews(log, e) # {} => LastReview(log', e) = LastReview(log, e)
    BY <1>1, EvidenceAppended
<1>3. QED BY <1>2 DEF Agrees

LEMMA AgreeForms ==
    ASSUME Inv, GroundedInv, AgreeInv, NEW p \in Procs, Form(p)
    PROVE  AgreeInv'
<1> SUFFICES ASSUME ~overlap' PROVE AgreeInv'
    BY DEF AgreeInv
<1>1. /\ ~overlap /\ Sole'
      /\ \A q \in Procs : q # p => todo[q] = Idle /\ todo'[q] = Idle
    BY SoleForms DEF AgreeInv
<1> SUFFICES ASSUME ~killed'
    PROVE  /\ \A e \in Evidence(log') : EvidenceReviews(log', e) # {} =>
                 Agrees(log', e) \/ Completing(log', todo'[p], e)
           /\ todo'[p] # Idle /\ Updating(Head(todo'[p])) =>
                 Completing(log', todo'[p], Head(todo'[p]).event.evidence)
    <2>1. ASSUME NEW q \in Procs, todo'[q] # Idle PROVE q = p
        BY <1>1, <2>1
    <2>2. QED BY <1>1, <2>1 DEF AgreeInv, Call
<1>2. ~killed /\ (Ends(p) => Easy(Call(p)))
    BY DEF Form, Commands, Returns, Appends, Creates, Ends
<1>3. /\ \A e \in Evidence(log) : EvidenceReviews(log, e) # {} => Agrees(log, e) \/ Completing(log, todo[p], e)
      /\ todo[p] # Idle /\ Updating(Call(p)) => Completing(log, todo[p], Call(p).event.evidence)
    BY <1>1, <1>2 DEF AgreeInv, Completing
<1>4. /\ IsSequence(log) /\ Len(log) \in Nat
      /\ \A e : e \in Evidence(log) => e \in 1..Len(log)
    BY LedgerPositions DEF Evidence
<1>5. ASSUME NEW e, Completing(log, todo[p], e)
      PROVE  /\ todo[p] # Idle /\ Updating(Call(p)) /\ Call(p).event.evidence = e
             /\ Call(p).event.status = LastReview(log, e).status
    BY <1>5 DEF Completing, Call, Updating, Says, Appending, EvidenceUpdated
<1>6. CASE Appends(p) \/ Creates(p)
    <2> DEFINE f == Call(p).event
               m == Len(log) + 1
    <2>1. /\ todo[p] # Idle /\ log' = Append(log, f) /\ EvidenceGroundedBy(f)
          /\ Creates(p) => f.type \notin {"evidence.reviewed", "evidence.updated"}
          /\ Appends(p) => todo'[p] = Tail(todo[p]) /\ Call(p).do = "append"
          /\ Creates(p) => Call(p).do = "create"
        <3>1. todo[p] # Idle /\ log' = Append(log, f)
            BY <1>6 DEF Appends, Creates
        <3>2. CallGrounded(Len(log), Call(p))
            BY <3>1, HeadGrounded
        <3>3. Creates(p) => /\ f.type \notin {"evidence.reviewed", "evidence.updated"}
                            /\ Call(p).do = "create"
            BY <3>2 DEF Creates, CallGrounded
        <3>4. Appends(p) => todo'[p] = Tail(todo[p]) /\ Call(p).do = "append"
            BY OthersStay DEF Appends
        <3>5. EvidenceGroundedBy(f)
            BY <1>6, <3>2, <3>3 DEF Appends, CallGrounded, EventGrounded, EvidenceGroundedBy
        <3>6. QED BY <3>1, <3>3, <3>4, <3>5
    <2>2. \A e : e \in Evidence(log') <=>
              e \in Evidence(log) \/ (e = m /\ f.type = "evidence.added")
        BY <1>4, <2>1, AppendedPositions DEF Evidence
    <2>3. CASE f.type = "evidence.reviewed"
        <3>1. Says(Call(p), "evidence.reviewed") /\ Appends(p) /\ f.evidence \in 1..Len(log)
            BY <1>6, <2>1, <2>3 DEF Says, EvidenceGroundedBy
        <3>2. /\ todo'[p] # Idle
              /\ Head(todo'[p]) = Appending(EvidenceUpdated(f.evidence, f.status))
            BY <2>1, <3>1, ReviewThenUpdate
        <3>3. LastReview(log', f.evidence) = f
            BY <1>4, <2>1, <2>3, <3>1, EvidenceAppended
        <3>4. Completing(log', todo'[p], f.evidence)
            BY <3>2, <3>3 DEF Completing, Call
        <3>5. Head(todo'[p]).event.evidence = f.evidence
            BY <3>2 DEF Appending, EvidenceUpdated
        <3>6. ASSUME NEW e \in Evidence(log'), EvidenceReviews(log', e) # {}, e # f.evidence
              PROVE  Agrees(log', e)
            <4>1. e \in Evidence(log) /\ e \in 1..Len(log) /\ ~Completing(log, todo[p], e)
                BY <1>4, <1>5, <2>2, <2>3, <3>6
            <4> HIDE DEF f
            <4>2. QED BY <1>3, <2>1, <3>6, <4>1, AgreesStays
        <3> HIDE DEF f
        <3>7. QED BY <3>4, <3>5, <3>6
    <2>4. ASSUME f.type # "evidence.reviewed", todo'[p] # Idle, Updating(Head(todo'[p]))
          PROVE  FALSE
        BY <2>4, HeadForms DEF Appending, EvidenceReviewed
    <2>5. CASE f.type = "evidence.updated"
        <3>1. Updating(Call(p)) /\ f.evidence \in 1..Len(log)
            BY <1>6, <2>1, <2>5 DEF Updating, Says, EvidenceGroundedBy
        <3>2. f.status = LastReview(log, f.evidence).status
            BY <1>3, <1>5, <2>1, <3>1
        <3>3. ASSUME NEW e \in Evidence(log'), EvidenceReviews(log', e) # {} PROVE Agrees(log', e)
            <4>1. e \in Evidence(log) /\ e \in 1..Len(log)
                BY <1>4, <2>2, <2>5, <3>3
            <4>2. CASE e = f.evidence
                <5>1. EvidenceStatus(log', e) = f.status
                    BY <1>4, <2>1, <2>5, <4>1, <4>2, EvidenceAppended
                <5>2. LastReview(log', e) = LastReview(log, e)
                    BY <1>4, <2>1, <2>5, <3>3, <4>1, EvidenceAppended
                <5> HIDE DEF f
                <5>3. QED BY <3>2, <4>2, <5>1, <5>2 DEF Agrees
            <4>3. CASE e # f.evidence
                <5>1. ~Completing(log, todo[p], e)
                    BY <1>5, <4>3
                <5> HIDE DEF f
                <5>2. QED BY <1>3, <2>1, <3>3, <4>1, <4>3, <5>1, AgreesStays
            <4>4. QED BY <4>2, <4>3
        <3>4. QED BY <2>4, <2>5, <3>3
    <2>6. CASE f.type \notin {"evidence.reviewed", "evidence.updated"}
        <3>1. ASSUME NEW e \in Evidence(log'), EvidenceReviews(log', e) # {} PROVE Agrees(log', e)
            <4>1. CASE e \in Evidence(log)
                <5>1. ~Completing(log, todo[p], e)
                    BY <1>5, <2>6 DEF Updating, Says
                <5>2. e \in 1..Len(log)
                    BY <1>4, <4>1
                <5> HIDE DEF f
                <5>3. QED BY <1>3, <2>1, <2>6, <3>1, <4>1, <5>1, <5>2, AgreesStays
            <4>2. CASE e = m
                <5>1. PICK r \in EvidenceReviews(log', e) : TRUE
                    BY <3>1
                <5>2. r \in Positions(log', "evidence.reviewed") /\ log'[r].evidence = m
                    BY <4>2, <5>1 DEF EvidenceReviews
                <5>3. /\ r \in 1..Len(log) /\ log[r].type = "evidence.reviewed"
                      /\ log[r].evidence = m
                    BY <1>4, <2>1, <2>6, <5>2, AppendedPositions
                <5>4. m \in 1..r - 1
                    BY <5>3 DEF GroundedInv, EventGrounded
                <5>5. QED BY <1>4, <5>3, <5>4
            <4>3. QED BY <2>2, <4>1, <4>2
        <3>2. QED BY <2>4, <2>6, <3>1
    <2>7. QED BY <2>3, <2>5, <2>6
<1>7. CASE ~(Appends(p) \/ Creates(p))
    <2>1. log' = log
        BY <1>7 DEF Form, Commands, Returns, Ends
    <2>2. todo'[p] # Idle => ~Updating(Head(todo'[p]))
        BY <1>7, HeadForms
    <2>3. todo[p] # Idle => ~Updating(Call(p))
        BY <1>2, <1>7 DEF Form, Commands, Returns, Easy, Updating, Says
    <2>4. ASSUME NEW e \in Evidence(log'), EvidenceReviews(log', e) # {} PROVE Agrees(log', e)
        BY <1>3, <1>5, <2>1, <2>3, <2>4 DEF Agrees
    <2>5. QED BY <2>2, <2>4
<1>8. QED BY <1>6, <1>7

LEMMA AgreeInit == ASSUME Init PROVE AgreeInv
<1>1. \A e : EvidenceReviews(log, e) = {}
    BY NoneReviewed DEF EvidenceReviews, Positions
<1>2. QED BY <1>1, NoneReviewed DEF AgreeInv, Sole

(* A record of evidence never changes without a review that says so, for   *)
(* any processes in any order and any of them killed between the review    *)
(* and the record; between commands it shows the last review, unless       *)
(* handlers overlapped or were killed (evidence_locker.py:388-404).        *)
THEOREM EvidenceFollowsReviews == Spec => []EvidenceReviewsAgree
<1>1. Init => UpdatesInv /\ AgreeInv
    BY UpdatesInit, AgreeInit
<1>2. Inv /\ GroundedInv /\ (UpdatesInv /\ AgreeInv) /\ [Next]_vars => (UpdatesInv /\ AgreeInv)'
    <2> SUFFICES ASSUME Inv, GroundedInv, UpdatesInv, AgreeInv, [Next]_vars
                 PROVE  UpdatesInv' /\ AgreeInv'
        OBVIOUS
    <2>1. CASE UNCHANGED vars
        BY <2>1 DEF UpdatesInv, UpdatesCovered, Rewriting, AgreeInv, Agrees, Completing, Sole, Call,
                    vars, handlers
    <2>2. QED BY <2>1, StepForms, UpdatesForms, AgreeForms
<1>3. Inv /\ UpdatesInv /\ AgreeInv => EvidenceReviewsAgree
    <2> SUFFICES ASSUME Inv, UpdatesInv, AgreeInv PROVE EvidenceReviewsAgree
        OBVIOUS
    <2>1. ASSUME NEW n \in Positions(log, "evidence.updated")
          PROVE  Cardinality({i \in 1..n : /\ log[i].type = "evidence.updated"
                                           /\ log[i].evidence = log[n].evidence
                                           /\ log[i].status = log[n].status})
                 <= Cardinality({i \in 1..n : /\ log[i].type = "evidence.reviewed"
                                              /\ log[i].evidence = log[n].evidence
                                              /\ log[i].status = log[n].status})
        <3>1. n \in 1..Len(log)
            BY <2>1, LedgerPositions
        <3>2. UpdatesIn(log, n, log[n].evidence, log[n].status) =
                  {i \in 1..n : /\ log[i].type = "evidence.updated"
                                /\ log[i].evidence = log[n].evidence
                                /\ log[i].status = log[n].status}
            BY DEF UpdatesIn, IsUpdate
        <3>3. ReviewsIn(log, n, log[n].evidence, log[n].status) =
                  {i \in 1..n : /\ log[i].type = "evidence.reviewed"
                                /\ log[i].evidence = log[n].evidence
                                /\ log[i].status = log[n].status}
            BY DEF ReviewsIn, IsReview
        <3>4. Cardinality(UpdatesIn(log, n, log[n].evidence, log[n].status))
              <= Cardinality(ReviewsIn(log, n, log[n].evidence, log[n].status))
            BY <3>1 DEF UpdatesInv
        <3>5. QED BY <3>2, <3>3, <3>4
    <2>2. ASSUME Quiescent, ~overlap, ~killed, NEW e \in Evidence(log),
                 EvidenceReviews(log, e) # {}
          PROVE  EvidenceStatus(log, e) = log[Max(EvidenceReviews(log, e))].status
        BY <2>2 DEF AgreeInv, Completing, Quiescent, Agrees, LastReview
    <2>3. QED BY <2>1, <2>2 DEF EvidenceReviewsAgree
<1>4. QED BY <1>1, <1>2, <1>3, GroundedHolds, PTL DEF Spec

-----------------------------------------------------------------------------
(* The tasks of failed work.                                               *)

\* The task of failed execution n is there, or a handler is to append it.
HasTask(evs, n) == \E t \in 1..Len(evs) : t > n /\ evs[t] = OwnTask(evs[n])
Due(lists, e) == \E p \in Procs : Appending(OwnTask(e)) \in Listed(lists[p])

\* A task of subject s is there that was not closed before event n, or a
\* handler is to see to one.
OpenedSince(evs, n, s) ==
    \E t \in 1..Len(evs) : evs[t] = TaskOpened(s) /\ \A j \in Closings(evs, t) : j > n
Expected(lists, s) == \E p \in Procs : \E c \in Listed(lists[p]) : Opens(c, s)

QueuedInv == ~killed =>
    \A n \in 1..Len(log) :
        /\ Failed(log[n]) => HasTask(log, n) \/ Due(todo, log[n])
        /\ log[n].type = "lucien.reflection_recorded" =>
               OpenedSince(log, n, log[n].subject) \/ Expected(todo, log[n].subject)

LEMMA TaskStays ==
    ASSUME NEW evs, IsSequence(evs), NEW e, NEW n \in 1..Len(evs)
    PROVE  LET new == Append(evs, e) IN
           /\ HasTask(evs, n) => HasTask(new, n)
           /\ e = OwnTask(evs[n]) => HasTask(new, n)
<1> DEFINE new == Append(evs, e)
           m == Len(evs) + 1
<1>1. /\ Len(evs) \in Nat /\ Len(new) = m /\ new[m] = e
      /\ \A k \in 1..Len(evs) : new[k] = evs[k]
    BY Appended
<1> HIDE DEF new
<1>2. (\A k \in 1..Len(evs) : k \in 1..Len(new)) /\ m \in 1..Len(new) /\ m > n
    BY <1>1
<1>3. (HasTask(evs, n) => HasTask(new, n)) /\ (e = OwnTask(evs[n]) => HasTask(new, n))
    BY <1>1, <1>2 DEF HasTask
<1>4. QED BY <1>3 DEF new

LEMMA StaysOpened ==
    ASSUME NEW evs, IsSequence(evs), NEW e, NEW n \in 1..Len(evs), NEW s, OpenedSince(evs, n, s)
    PROVE  OpenedSince(Append(evs, e), n, s)
<1> DEFINE new == Append(evs, e)
           m == Len(evs) + 1
<1>1. /\ Len(evs) \in Nat /\ Len(new) = m
      /\ \A k \in 1..Len(evs) : new[k] = evs[k]
    BY Appended
<1>2. PICK t \in 1..Len(evs) : evs[t] = TaskOpened(s) /\ \A j \in Closings(evs, t) : j > n
    BY DEF OpenedSince
<1>3. \A j \in Closings(new, t) : j \in Closings(evs, t) \/ j = m
    BY AppendedPositions DEF Closings
<1> HIDE DEF new
<1>4. t \in 1..Len(new) /\ new[t] = TaskOpened(s) /\ m > n
    BY <1>1, <1>2
<1>5. OpenedSince(new, n, s)
    BY <1>2, <1>3, <1>4 DEF OpenedSince
<1>6. QED BY <1>5 DEF new

\* A task that is appended has not been closed yet.
LEMMA OpenedNow ==
    ASSUME Inv, GroundedInv, NEW s, NEW n \in 1..Len(log)
    PROVE  OpenedSince(Append(log, TaskOpened(s)), n, s)
<1> DEFINE e == TaskOpened(s)
           new == Append(log, e)
           m == Len(log) + 1
<1>1. IsSequence(log) /\ Len(log) \in Nat
    BY LedgerPositions
<1>2. Len(new) = m /\ new[m] = e
    BY <1>1, Appended
<1>3. ASSUME NEW j \in Closings(new, m) PROVE FALSE
    <2>1. /\ new[j].task = m
          /\ \E type \in TaskClosing : j \in Positions(new, type)
        BY <1>3 DEF Closings, TaskClosing
    <2>2. PICK type \in TaskClosing : j \in Positions(new, type)
        BY <2>1
    <2>3. e.type \notin TaskClosing
        BY DEF TaskOpened, TaskClosing
    <2>4. j \in 1..Len(log) /\ log[j].type \in TaskClosing /\ log[j].task = m
        BY <1>1, <2>1, <2>2, <2>3, AppendedPositions
    <2>5. m \in 1..j - 1
        BY <2>4 DEF GroundedInv, EventGrounded
    <2>6. QED BY <1>1, <2>4, <2>5
<1>4. m \in 1..Len(new)
    BY <1>1, <1>2
<1> HIDE DEF new
<1>5. QED BY <1>2, <1>3, <1>4 DEF OpenedSince, new

(* A call for a task stays, or its turn has come: no handler that is not   *)
(* killed ends before it.                                                  *)
LEMMA TaskingStays ==
    ASSUME Inv, GroundedInv, NEW p \in Procs, Form(p), ~killed',
           NEW c \in Listed(todo[p]), Tasking(c)
    PROVE  \/ c \in Listed(todo'[p])
           \/ c = Call(p) /\ Appends(p)
           \/ /\ c = Call(p) /\ c.do = "open_task" /\ log' = log
              /\ \E next : PassesOn(log, c, next) /\ Listed(next) \subseteq Listed(todo'[p])
<1>1. todo[p] # Idle
    BY NoneOrdered DEF Idle
<1>2. /\ c = Call(p) \/ c \in Listed(Tail(todo[p]))
      /\ c \in Listed(Tail(todo[p])) => MayPrecede(Call(p), c)
    BY <1>1, HeadsOrdered
<1>3. c.do \in {"append", "open_task"}
    BY DEF Tasking, Says
<1>4. ASSUME NEW d, Commands(p, d) PROVE FALSE
    BY <1>1, <1>4 DEF Commands
<1>5. ASSUME NEW next, Returns(p, next),
             Listed(todo'[p]) = Listed(next) \cup Listed(Tail(todo[p])), c = Call(p)
      PROVE  /\ c.do = "open_task" /\ log' = log
             /\ PassesOn(log, c, next) /\ Listed(next) \subseteq Listed(todo'[p])
    BY <1>3, <1>5 DEF Returns
<1>6. ASSUME Ends(p) PROVE FALSE
    <2>1. Easy(Call(p))
        BY <1>6 DEF Ends
    <2>2. CASE c = Call(p)
        BY <1>3, <2>1, <2>2 DEF Easy
    <2>3. CASE MayPrecede(Call(p), c)
        BY <2>1, <2>3 DEF MayPrecede, Easy
    <2>4. QED BY <1>2, <2>2, <2>3
<1>7. CASE Appends(p) /\ todo'[p] = Tail(todo[p])
    BY <1>2, <1>7
<1>8. CASE Creates(p) /\ Listed(todo'[p]) = {Created(p)} \cup Listed(Tail(todo[p]))
    BY <1>2, <1>3, <1>8 DEF Creates
<1>9. QED BY <1>2, <1>4, <1>5, <1>6, <1>7, <1>8, ListForms

LEMMA QueuedForms ==
    ASSUME Inv, GroundedInv, QueuedInv, NEW p \in Procs, Form(p)
    PROVE  QueuedInv'
<1> SUFFICES ASSUME ~killed' PROVE QueuedInv'
    BY DEF QueuedInv
<1>1. ~killed
    BY DEF Form, Commands, Returns, Appends, Creates, Ends
<1>2. IsSequence(log) /\ Len(log) \in Nat
    BY LedgerPositions
<1>3. \A q \in Procs : q # p => todo'[q] = todo[q]
    BY ListForms
<1>4. ASSUME NEW c, Tasking(c), NEW q \in Procs, c \in Listed(todo[q])
      PROVE  \/ \E r \in Procs : c \in Listed(todo'[r])
             \/ c = Call(p) /\ Appends(p)
             \/ /\ c = Call(p) /\ c.do = "open_task" /\ log' = log
                /\ \E next : PassesOn(log, c, next) /\ Listed(next) \subseteq Listed(todo'[p])
    <2>1. CASE q # p
        BY <1>3, <1>4, <2>1
    <2>2. CASE q = p
        BY <1>4, <2>2, TaskingStays
    <2>3. QED BY <2>1, <2>2
<1>5. log' = log \/ log' = Append(log, Call(p).event)
    BY LogForms
<1>6. ASSUME NEW n \in 1..Len(log), Failed(log[n]) PROVE HasTask(log', n) \/ Due(todo', log[n])
    <2>1. CASE HasTask(log, n)
        BY <1>2, <1>5, <2>1, TaskStays
    <2>2. CASE Due(todo, log[n])
        <3> DEFINE c == Appending(OwnTask(log[n]))
        <3>1. c.do = "append" /\ c.event = OwnTask(log[n]) /\ Tasking(c)
            BY DEF Appending, OwnTask, TaskOpened, Tasking, Says
        <3>2. PICK q \in Procs : c \in Listed(todo[q])
            BY <2>2 DEF Due
        <3>3. CASE c = Call(p) /\ Appends(p)
            <4>1. log' = Append(log, OwnTask(log[n]))
                BY <3>1, <3>3 DEF Appends
            <4>2. QED BY <1>2, <4>1, TaskStays
        <3>4. CASE \E r \in Procs : c \in Listed(todo'[r])
            BY <3>4 DEF Due
        <3> HIDE DEF c
        <3>5. QED BY <1>4, <3>1, <3>2, <3>3, <3>4
    <2>3. QED BY <1>1, <1>6, <2>1, <2>2 DEF QueuedInv
<1>7. ASSUME NEW n \in 1..Len(log), log[n].type = "lucien.reflection_recorded"
      PROVE  OpenedSince(log', n, log[n].subject) \/ Expected(todo', log[n].subject)
    <2> DEFINE s == log[n].subject
    <2> HIDE DEF s
    <2>1. CASE OpenedSince(log, n, s)
        BY <1>2, <1>5, <2>1, StaysOpened DEF s
    <2>2. CASE Expected(todo, s)
        <3>1. PICK q \in Procs : \E d \in Listed(todo[q]) : Opens(d, s)
            BY <2>2 DEF Expected
        <3>2. PICK c \in Listed(todo[q]) : Opens(c, s)
            BY <3>1
        <3>3. Tasking(c)
            BY <3>2 DEF Opens, OpenTask, Appending, TaskOpened, Tasking, Says
        <3>4. CASE \E r \in Procs : c \in Listed(todo'[r])
            BY <3>2, <3>4 DEF Expected, s
        <3>5. CASE c = Call(p) /\ Appends(p)
            <4>1. c.event = TaskOpened(s)
                BY <3>2, <3>5 DEF Appends, Opens, OpenTask, Appending
            <4>2. log' = Append(log, TaskOpened(s))
                BY <3>5, <4>1 DEF Appends
            <4>3. QED BY <4>2, OpenedNow DEF s
        <3>6. ASSUME c.do = "open_task", log' = log,
                     NEW next, PassesOn(log, c, next), Listed(next) \subseteq Listed(todo'[p])
              PROVE  OpenedSince(log', n, s) \/ Expected(todo', s)
            <4>1. c.subject = s
                BY <3>2, <3>6 DEF Opens, OpenTask, Appending
            <4>2. CASE Appending(TaskOpened(s)) \in Listed(next)
                <5>1. Appending(TaskOpened(s)) \in Listed(todo'[p])
                    BY <3>6, <4>2
                <5>2. Opens(Appending(TaskOpened(s)), s)
                    BY DEF Opens
                <5>3. \E d \in Listed(todo'[p]) : Opens(d, s)
                    BY <5>1, <5>2
                <5>4. QED BY <5>3 DEF Expected, s
            <4>3. CASE \E t \in OpenTasks(log) : log[t] = TaskOpened(s)
                <5>1. PICK t \in OpenTasks(log) : log[t] = TaskOpened(s)
                    BY <4>3
                <5>2. t \in 1..Len(log) /\ Closings(log, t) = {}
                    BY LedgerPositions DEF OpenTasks, Tasks
                <5>3. QED BY <3>6, <5>1, <5>2 DEF OpenedSince
            <4>4. QED BY <3>6, <4>1, <4>2, <4>3 DEF PassesOn
        <3>7. QED BY <1>4, <3>3, <3>4, <3>5, <3>6 DEF s
    <2>3. QED BY <1>1, <1>7, <2>1, <2>2 DEF QueuedInv, s
<1>8. CASE log' = log
    BY <1>6, <1>7, <1>8 DEF QueuedInv, Due, Expected
<1>9. CASE log' # log
    <2> DEFINE e == Call(p).event
               m == Len(log) + 1
    <2>1. /\ Len(log') = m /\ log'[m] = e /\ (\A i \in 1..Len(log) : log'[i] = log[i])
          /\ todo[p] # Idle /\ (Appends(p) \/ Creates(p))
        BY <1>9, LogForms
    <2>2. ASSUME Failed(e) \/ e.type = "lucien.reflection_recorded"
          PROVE  \E y \in Listed(todo'[p]) : Owes(Call(p), y)
        <3>1. ~Creates(p)
            BY <2>2, HeadGrounded DEF Creates, CallGrounded, Failed
        <3>2. Call(p).do = "append" /\ todo'[p] = Tail(todo[p])
            BY <2>1, <3>1, OthersStay DEF Appends
        <3>3. Owing(Call(p))
            BY <2>2, <3>2 DEF Owing
        <3>4. QED BY <2>1, <3>2, <3>3, HeadsOrdered
    <2>3. Failed(e) => Due(todo', e)
        <3>1. ASSUME Failed(e), NEW y \in Listed(todo'[p]), Owes(Call(p), y) PROVE Due(todo', e)
            <4>1. y = Appending(OwnTask(e))
                BY <3>1 DEF Owes, Failed
            <4> HIDE DEF e
            <4>2. QED BY <3>1, <4>1 DEF Due
        <3>2. QED BY <2>2, <3>1
    <2>4. e.type = "lucien.reflection_recorded" => Expected(todo', e.subject)
        <3>1. ASSUME e.type = "lucien.reflection_recorded",
                     NEW y \in Listed(todo'[p]), Owes(Call(p), y)
              PROVE  Expected(todo', e.subject)
            <4>1. Opens(y, e.subject)
                BY <3>1 DEF Owes, Failed
            <4> HIDE DEF e
            <4>2. QED BY <3>1, <4>1 DEF Expected
        <3>2. QED BY <2>2, <3>1
    <2> HIDE DEF e
    <2>5. ASSUME NEW n \in 1..Len(log')
          PROVE  /\ Failed(log'[n]) => HasTask(log', n) \/ Due(todo', log'[n])
                 /\ log'[n].type = "lucien.reflection_recorded" =>
                       OpenedSince(log', n, log'[n].subject) \/ Expected(todo', log'[n].subject)
        <3>1. CASE n \in 1..Len(log)
            BY <1>6, <1>7, <2>1, <3>1
        <3>2. CASE n = m
            BY <2>1, <2>3, <2>4, <3>2
        <3>3. QED BY <1>2, <2>1, <3>1, <3>2
    <2>6. QED BY <2>5 DEF QueuedInv
<1>10. QED BY <1>8, <1>9

LEMMA QueuedInit == ASSUME Init PROVE QueuedInv
<1>1. \A i \in 1..Len(log) : log[i] \in StartEvent
    BY WorkAssumption DEF Init, HandlersInit, Opening
<1>2. \A e \in StartEvent : ~Failed(e) /\ e.type # "lucien.reflection_recorded"
    BY DEF StartEvent, MissionOpened, SessionStarted, GoalCreated, GoalWritten, Failed
<1>3. QED BY <1>1, <1>2 DEF QueuedInv

(* Between commands, failed work has a review task: a failed execution its *)
(* own, and a reflection one that was open then or was opened since,       *)
(* whatever handlers overlapped (autonomy_queue.py:299-318,                *)
(* learning_review.py:344-355).                                            *)
THEOREM FailedWorkHasItsTask == Spec => []FailedWorkIsQueued
<1>1. Init => QueuedInv
    BY QueuedInit
<1>2. Inv /\ GroundedInv /\ QueuedInv /\ [Next]_vars => QueuedInv'
    <2> SUFFICES ASSUME Inv, GroundedInv, QueuedInv, [Next]_vars PROVE QueuedInv'
        OBVIOUS
    <2>1. CASE UNCHANGED vars
        BY <2>1 DEF QueuedInv, Due, Expected, vars, handlers
    <2>2. QED BY <2>1, StepForms, QueuedForms
<1>3. Inv /\ QueuedInv => FailedWorkIsQueued
    <2> SUFFICES ASSUME Inv, QueuedInv, Quiescent, ~killed PROVE FailedWorkIsQueued
        BY DEF FailedWorkIsQueued
    <2>1. \A q \in Procs : Listed(todo[q]) = {}
        BY NoneOrdered DEF Quiescent, Idle
    <2>2. ASSUME NEW n \in Positions(log, "autonomy.action_executed"), log[n].status = "failed"
          PROVE  \E t \in Tasks(log) : t > n /\ log[t] = TaskOpened(Subject("autonomy", log[n].item))
        <3>1. n \in 1..Len(log) /\ Failed(log[n])
            BY <2>2, LedgerPositions DEF Failed
        <3>2. PICK t \in 1..Len(log) : t > n /\ log[t] = OwnTask(log[n])
            BY <2>1, <3>1 DEF QueuedInv, HasTask, Due
        <3>3. t \in Tasks(log)
            BY <3>2, LedgerPositions DEF Tasks, OwnTask, TaskOpened
        <3>4. QED BY <3>2, <3>3 DEF OwnTask
    <2>3. ASSUME NEW n \in Positions(log, "lucien.reflection_recorded")
          PROVE  \E t \in Tasks(log) :
                     log[t] = TaskOpened(log[n].subject) /\ \A j \in Closings(log, t) : j > n
        <3>1. n \in 1..Len(log) /\ log[n].type = "lucien.reflection_recorded"
            BY <2>3, LedgerPositions
        <3>2. PICK t \in 1..Len(log) :
                  log[t] = TaskOpened(log[n].subject) /\ \A j \in Closings(log, t) : j > n
            BY <2>1, <3>1 DEF QueuedInv, OpenedSince, Expected
        <3>3. t \in Tasks(log)
            BY <3>2, LedgerPositions DEF Tasks, TaskOpened
        <3>4. QED BY <3>2, <3>3
    <2>4. QED BY <2>2, <2>3 DEF FailedWorkIsQueued
<1>4. QED BY <1>1, <1>2, <1>3, GroundedHolds, PTL DEF Spec

=============================================================================
