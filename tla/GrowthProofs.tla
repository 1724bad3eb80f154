---------------------------- MODULE GrowthProofs ----------------------------
(***************************************************************************)
(* Theorems about Growth, for any processes and threads, any messages and  *)
(* proposals, any number of commands, and any ledger to start from on      *)
(* which commands one at a time moved claims and proposed and accepted     *)
(* growth (Opening).                                                       *)
(*                                                                         *)
(* A handler's function that returns puts the calls it leads to in front   *)
(* of those still to come (Leads).  LeadsTo says what a call hands on to   *)
(* the calls it leads to: that the ledger supports it (CallSound), that    *)
(* what it read is still so while nobody else is under way (Current), that *)
(* the growth of a turn has no conflict it ignores (Settled), and which    *)
(* calls it may stand in front of (MayPrecede).  Every step is one of a    *)
(* few forms (Form, StepForms), and each theorem has an invariant of its   *)
(* own that is shown for the forms.                                        *)
(***************************************************************************)
EXTENDS Growth, FoldLemmas, TLAPS

-----------------------------------------------------------------------------
(* What the ledger supports.                                               *)

\* Growth g may have been accepted under the claim, going by the first n
\* events.
Permitted(evs, g, claim, n) ==
    /\ claim \in {"certified_continuity", "declared_fork", "review_required"}
    /\ claim = "review_required" => evs[g].impact \in {"low", "medium"}
    /\ \E j \in 1..n : evs[j] = ContinuityMoved(claim)

Proposed(evs, g, n) == g \in 1..n /\ evs[g].type = "lucien.growth_proposed"

TaskClosing == {"reflection.task_resolved", "reflection.task_dismissed"}

\* What event e may say after the first n events.
Sensible(evs, e, n) ==
    /\ e.type = "continuity" => e = ContinuityMoved(e.claim)
    /\ e.type = "lucien.growth_proposed" => e.status # "accepted" /\ e.impact \in IdentityImpact
    /\ e.type = "lucien.growth_updated" =>
          /\ Proposed(evs, e.growth, n)
          /\ e.status = "accepted" => Permitted(evs, e.growth, e.claim, n)
          /\ e.auto => evs[e.growth].impact = "low"
    /\ e.type = "lucien.growth_conflict_detected" => Proposed(evs, e.growth, n)
    /\ e.type \in TaskClosing => e.task \in 1..n
    /\ e.type \in {"lucien.chat_turn_recorded", "lucien.chat_session_closed"} => e.session \in 1..n

LogSound(evs) ==
    /\ IsSequence(evs)
    /\ Len(evs) # 0 /\ evs[1].type = "continuity"
    /\ \A i \in 1..Len(evs) : Sensible(evs, evs[i], i - 1)

-----------------------------------------------------------------------------
(* The calls of a handler.                                                 *)

Begun == [do |-> "begin"]   \* stands for the command in front of its calls
Says(c, type) == c.do = "append" /\ c.event.type = type

TurnStage ==
    {"start_session", "enter_session", "see_self", "turn_growth", "detect_conflict",
     "auto_accept", "record_turn"}
IsTurn(t) ==
    t = [do |-> t.do, live |-> t.live, message |-> t.message, suppress |-> t.suppress,
         session |-> t.session, card |-> t.card, against |-> t.against, own |-> t.own]

\* The growth a turn proposed is the one on the ledger.
OnOwn(evs, t) ==
    /\ Proposed(evs, t.own, Len(evs))
    /\ evs[t.own].impact = t.message.growth.impact
    /\ evs[t.own].contrary = t.message.contrary

CallSound(evs, c) ==
    /\ c.do = "append" => Sensible(evs, c.event, Len(evs))
    /\ c.do = "create" =>
          /\ IsTurn(c.then) /\ c.then.message.growth.impact \in IdentityImpact
          /\ \/ c.then.do = "enter_session" /\ c.event = SessionStarted
             \/ /\ c.then.do = "detect_conflict"
                /\ c.event = GrowthProposed(c.then.message.growth.kind,
                                c.then.message.growth.impact, FALSE, c.then.message.contrary)
    /\ c.do = "propose" => c.growth.impact \in IdentityImpact
    /\ c.do \in {"accept_now", "accept", "reject", "review"} => Proposed(evs, c.growth, Len(evs))
    /\ c.do = "accept" =>
          /\ \E j \in 1..Len(evs) : evs[j] = ContinuityMoved(c.claim)
          /\ c.auto \in BOOLEAN /\ (c.auto => evs[c.growth].impact = "low")
    /\ c.do = "review" => c.decision \in GrowthReviewDecision
    /\ c.do = "close_task" => c.how \in TaskClosing
    /\ c.do = "derive_claim" =>
          LET r == c.reflection IN r = ReflectionRecorded("none", r.growth, r.conflicts, r.cards)
    /\ c.do \in TurnStage => IsTurn(c) /\ c.message.growth.impact \in IdentityImpact
    /\ c.do \in {"detect_conflict", "auto_accept"} => OnOwn(evs, c)
    /\ c.do = "enter_session" => c.own \in 1..Len(evs)
    /\ c.do \in {"see_self", "turn_growth", "detect_conflict", "auto_accept", "record_turn",
                 "close_session"} => c.session \in 1..Len(evs)
    /\ c.do = "create" /\ c.then.do = "detect_conflict" => c.then.session \in 1..Len(evs)

\* What was read is still so, if nobody else has been under way since.
Accepts(evs, g, claim, auto) ==
    claim = CurrentClaim(evs) /\ (auto /\ evs[g].contrary => StandingCommitments(evs) = {})
Against(evs, t) == t.against = detect_growth_conflict(t.message.contrary, StandingCommitments(evs))

Current(evs, c) ==
    /\ c.do = "accept" => Accepts(evs, c.growth, c.claim, c.auto)
    /\ Says(c, "lucien.growth_updated") /\ c.event.status = "accepted" =>
          Accepts(evs, c.event.growth, c.event.claim, c.event.auto)
    /\ c.do \in {"turn_growth", "detect_conflict", "auto_accept"} => Against(evs, c)
    /\ c.do = "create" /\ c.then.do = "detect_conflict" => Against(evs, c.then)
    /\ Says(c, "lucien.growth_conflict_resolved") => ResolutionsOf(evs, c.event.conflict) = {}

\* The calls of the turn that proposed g which may still record a conflict
\* about it, or accept it.
Holds(c, g) ==
    \/ c.do \in {"detect_conflict", "auto_accept"} /\ c.own = g
    \/ c.do = "accept" /\ c.auto /\ c.growth = g
    \/ Says(c, "lucien.growth_updated") /\ c.event.auto /\ c.event.growth = g
    \/ Says(c, "lucien.growth_conflict_detected") /\ c.event.growth = g

AutoUpdated(evs, g) ==
    \E i \in 1..Len(evs) : /\ evs[i].type = "lucien.growth_updated"
                           /\ evs[i].auto /\ evs[i].growth = g
InConflict(evs, g) ==
    \E i \in 1..Len(evs) :
        evs[i].type = "lucien.growth_conflict_detected" /\ evs[i].growth = g

\* Calls that go by there being no such update, and no such conflict.
BeforeUpdate(c) ==
    c.do \in {"detect_conflict", "auto_accept"} \/ Says(c, "lucien.growth_conflict_detected")
WithoutConflict(c) ==
    \/ c.do \in {"accept", "detect_conflict"}
    \/ Says(c, "lucien.growth_updated")
    \/ c.do = "auto_accept" /\ c.against = {}

Settled(evs, c) == \A g : Holds(c, g) =>
    /\ BeforeUpdate(c) => ~AutoUpdated(evs, g)
    /\ WithoutConflict(c) => ~InConflict(evs, g)

\* What a task is opened for.
Tasking(c) == c.do = "open_tasks" \/ Says(c, "reflection.task_opened")
InSpecs(r, x) == \E k \in 1..Len(TaskSpecs(r)) : TaskSpecs(r)[k] = x
Pressing(c, x) ==
    \/ c.do = "open_tasks" /\ InSpecs(c.reflection, x)
    \/ Says(c, "reflection.task_opened") /\ c.event = x

Closes(c, t) ==
    \/ c.do = "close_task" /\ c.task = t
    \/ c.do = "append" /\ c.event.type \in TaskClosing /\ c.event.task = t

\* The calls of a review that change the status it reports.
Changes(c, review) ==
    \/ c.do = "accept" /\ ~c.auto /\ c.growth = review.growth /\ review.decision = "accepted"
    \/ c.do = "reject" /\ c.growth = review.growth /\ review.decision = "rejected"
    \/ /\ Says(c, "lucien.growth_updated") /\ ~c.event.auto
       /\ c.event.growth = review.growth /\ c.event.status = review.decision

\* Session s is the one that call c is in, and may end.
SessionCalls ==
    {"see_self", "turn_growth", "detect_conflict", "auto_accept", "record_turn", "close_session"}
MayEnd(c, s) ==
    \/ c.do \in SessionCalls \ {"close_session"} /\ ~c.live /\ c.session = s
    \/ c.do = "enter_session" /\ ~c.live /\ c.own = s
    \/ c.do = "create" /\ c.then.do = "detect_conflict" /\ ~c.then.live /\ c.then.session = s
    \/ c.do = "close_session" /\ c.session = s
    \/ Says(c, "lucien.chat_session_closed") /\ c.event.session = s

SessionOpen(evs, c) ==
    /\ c.do \in SessionCalls => ClosingsOf(evs, c.session) = {}
    /\ c.do = "enter_session" => ClosingsOf(evs, c.own) = {}
    /\ c.do = "create" /\ c.then.do = "detect_conflict" => ClosingsOf(evs, c.then.session) = {}
    /\ Says(c, "lucien.chat_turn_recorded") =>
          /\ ClosingsOf(evs, c.event.session) = {}
          /\ c.event.index = Cardinality(TurnsOf(evs, c.event.session)) + 1
    /\ Says(c, "lucien.chat_session_closed") =>
          /\ ClosingsOf(evs, c.event.session) = {}
          /\ c.event.turns = Cardinality(TurnsOf(evs, c.event.session))

ClosesSession(c) == c.do = "close_session" \/ Says(c, "lucien.chat_session_closed")
Reflecting(c) ==
    \/ c.do \in {"reflect", "derive_claim", "open_tasks"}
    \/ /\ c.do = "append"
       /\ c.event.type \in {"lucien.chat_turn_recorded", "lucien.reflection_recorded",
                            "reflection.task_opened"}

\* Calls that are made as soon as they are led to.
Leading(c) ==
    \/ c.do \in {"accept", "create", "enter_session", "see_self", "detect_conflict"}
    \/ /\ c.do = "append"
       /\ c.event.type \in TaskClosing \cup
            {"continuity", "lucien.growth_updated", "lucien.growth_conflict_resolved",
             "lucien.reflection_recorded", "lucien.chat_turn_recorded",
             "lucien.chat_session_closed"}

\* Call x may be in front of call y in what a handler has yet to do.
MayPrecede(x, y) ==
    /\ x.do # "begin" /\ ~Says(x, "continuity")
    /\ ~Leading(y)
    /\ Tasking(y) => x.do = "append"
    /\ Says(y, "lucien.growth_reviewed") => Changes(x, y.event)
    /\ y.do \in {"turn_growth", "auto_accept"} \/ Says(y, "lucien.growth_conflict_detected") =>
          /\ x.do = "append"
          /\ x.event.type \in {"lucien.input", "runtime.output_gate",
                               "lucien.growth_conflict_detected"}
          /\ Says(x, "lucien.growth_conflict_detected") => y.do = "auto_accept" /\ y.against # {}
    /\ y.do = "record_turn" =>
          \/ x.do = "accept"
          \/ /\ x.do = "append"
             /\ x.event.type \in {"runtime.output_gate", "lucien.memory_signal_recorded",
                                  "lucien.growth_updated"}
    /\ y.do = "close_session" => Reflecting(x)
    /\ y.do = "forget_session" => ClosesSession(x)
    /\ y.do = "start_session" => ClosesSession(x) \/ x.do = "forget_session"
    /\ y.do = "close_task" => \E t : Closes(x, t) /\ t # y.task
    /\ y.do = "resolve_tasks" /\ y.kind = "resolve_conflict" =>
          Says(x, "lucien.growth_conflict_resolved")

\* The tasks of a reflection, and of a resolution, are seen to after it.
Owes(c, d) ==
    \/ Says(c, "lucien.reflection_recorded") /\ d = OpenTasksFrom(c.event)
    \/ Says(c, "lucien.growth_conflict_resolved") /\ d = ResolveTasks("resolve_conflict")
Owing(c) == Says(c, "lucien.reflection_recorded") \/ Says(c, "lucien.growth_conflict_resolved")

Ordered(calls) ==
    /\ IsSequence(calls)
    /\ \A j, k \in 1..Len(calls) : j < k => MayPrecede(calls[j], calls[k])
    /\ \A j \in 1..Len(calls) : Owing(calls[j]) =>
          \E k \in 1..Len(calls) : j < k /\ Owes(calls[j], calls[k])

\* What call c hands on to call d, if it leads to it.
LeadsTo(evs, c, d) ==
    /\ CallSound(evs, d)
    /\ Current(evs, c) => Current(evs, d)
    /\ Settled(evs, c) => Settled(evs, d)
    /\ \A g : Holds(d, g) => Holds(c, g)
    /\ \A y : MayPrecede(c, y) => MayPrecede(d, y)
    /\ Says(d, "lucien.growth_reviewed") => c.do = "review"
    /\ d.do = "close_task" => c.do = "begin" \/ d.task \in OpenTasks(evs)
    /\ c.do # "begin" => d.do # "forget_session" /\ \A s : MayEnd(d, s) => MayEnd(c, s)
    /\ c.do \notin {"begin", "start_session"} /\ SessionOpen(evs, c) => SessionOpen(evs, d)

Leads(evs, c, calls) ==
    /\ Ordered(calls)
    /\ \A k \in 1..Len(calls) : LeadsTo(evs, c, calls[k])

-----------------------------------------------------------------------------
(* Lists of calls.                                                         *)

LEMMA NoCalls == Ordered(<<>>) /\ \A evs, c : Leads(evs, c, <<>>)
BY NoElement DEF Ordered, Leads

LEMMA OneCall ==
    ASSUME NEW evs, NEW c, NEW d, LeadsTo(evs, c, d), ~Owing(d)
    PROVE  Leads(evs, c, <<d>>)
<1> DEFINE calls == <<d>>
<1>1. IsSequence(calls) /\ 1..Len(calls) = {1} /\ calls[1] = d
    BY OneElement
<1> HIDE DEF calls
<1>2. Ordered(calls)
    BY <1>1 DEF Ordered
<1>3. Leads(evs, c, calls)
    BY <1>1, <1>2 DEF Leads
<1>4. QED BY <1>3 DEF calls

LEMMA TwoCalls ==
    ASSUME NEW evs, NEW c, NEW d, NEW e, LeadsTo(evs, c, d), LeadsTo(evs, c, e),
           MayPrecede(d, e), Owing(d) => Owes(d, e), ~Owing(e)
    PROVE  Leads(evs, c, <<d, e>>)
<1> DEFINE calls == <<d, e>>
<1>1. IsSequence(calls) /\ 1..Len(calls) = {1, 2} /\ calls[1] = d /\ calls[2] = e
    BY TwoElements
<1> HIDE DEF calls
<1>2. Ordered(calls)
    BY <1>1 DEF Ordered
<1>3. Leads(evs, c, calls)
    BY <1>1, <1>2 DEF Leads
<1>4. QED BY <1>3 DEF calls

LEMMA JoinedOrdered ==
    ASSUME NEW s, NEW t, Ordered(s), Ordered(t),
           \A j \in 1..Len(s), k \in 1..Len(t) : MayPrecede(s[j], t[k])
    PROVE  Ordered(s \o t)
<1> DEFINE calls == s \o t
<1>1. /\ IsSequence(calls) /\ Len(s) \in Nat /\ Len(t) \in Nat
      /\ Len(calls) = Len(s) + Len(t)
      /\ \A k \in 1..Len(s) : calls[k] = s[k]
      /\ \A k \in Len(s) + 1..Len(calls) : k - Len(s) \in 1..Len(t) /\ calls[k] = t[k - Len(s)]
    BY Concatenated DEF Ordered
<1> HIDE DEF calls
<1>2. \A k \in 1..Len(t) : k + Len(s) \in Len(s) + 1..Len(calls) /\ calls[k + Len(s)] = t[k]
    BY <1>1
<1>3. ASSUME NEW j \in 1..Len(calls), NEW k \in 1..Len(calls), j < k
      PROVE  MayPrecede(calls[j], calls[k])
    <2>1. CASE k \in 1..Len(s)
        <3>1. j \in 1..Len(s)
            BY <1>1, <1>3, <2>1
        <3>2. QED BY <1>1, <1>3, <2>1, <3>1 DEF Ordered
    <2>2. CASE k \in Len(s) + 1..Len(calls)
        <3>1. CASE j \in 1..Len(s)
            BY <1>1, <2>2, <3>1
        <3>2. CASE j \in Len(s) + 1..Len(calls)
            <4>1. j - Len(s) < k - Len(s)
                BY <1>1, <1>3, <2>2, <3>2
            <4>2. QED BY <1>1, <2>2, <3>2, <4>1 DEF Ordered
        <3>3. QED BY <1>1, <3>1, <3>2
    <2>3. QED BY <1>1, <2>1, <2>2
<1>4. ASSUME NEW j \in 1..Len(calls), Owing(calls[j])
      PROVE  \E k \in 1..Len(calls) : j < k /\ Owes(calls[j], calls[k])
    <2>1. CASE j \in 1..Len(s)
        <3>1. PICK k \in 1..Len(s) : j < k /\ Owes(s[j], s[k])
            BY <1>1, <1>4, <2>1 DEF Ordered
        <3>2. k \in 1..Len(calls) /\ calls[k] = s[k] /\ calls[j] = s[j]
            BY <1>1, <2>1
        <3>3. QED BY <3>1, <3>2
    <2>2. CASE j \in Len(s) + 1..Len(calls)
        <3>1. j - Len(s) \in 1..Len(t) /\ calls[j] = t[j - Len(s)]
            BY <1>1, <2>2
        <3>2. PICK k \in 1..Len(t) : j - Len(s) < k /\ Owes(t[j - Len(s)], t[k])
            BY <1>4, <3>1 DEF Ordered
        <3>3. k + Len(s) \in 1..Len(calls) /\ calls[k + Len(s)] = t[k] /\ j < k + Len(s)
            BY <1>1, <1>2, <2>2, <3>2
        <3>4. QED BY <3>1, <3>2, <3>3
    <2>3. QED BY <1>1, <2>1, <2>2
<1>5. QED BY <1>1, <1>3, <1>4 DEF Ordered, calls

LEMMA Joined ==
    ASSUME NEW evs, NEW c, NEW s, NEW t, Leads(evs, c, s), Leads(evs, c, t),
           \A j \in 1..Len(s), k \in 1..Len(t) : MayPrecede(s[j], t[k])
    PROVE  Leads(evs, c, s \o t)
<1>1. IsSequence(s) /\ IsSequence(t) /\ Ordered(s \o t)
    BY JoinedOrdered DEF Leads, Ordered
<1>2. ASSUME NEW k \in 1..Len(s \o t) PROVE LeadsTo(evs, c, (s \o t)[k])
    <2>1. CASE k \in 1..Len(s)
        BY <1>1, <2>1, Concatenated DEF Leads
    <2>2. CASE k \in Len(s) + 1..Len(s \o t)
        BY <1>1, <2>2, Concatenated DEF Leads
    <2>3. QED BY <1>1, <2>1, <2>2, Concatenated
<1>3. QED BY <1>1, <1>2 DEF Leads

LEMMA EachCall ==
    ASSUME NEW evs, NEW c, NEW n \in Nat, NEW calls, calls = [k \in 1..n |-> calls[k]],
           \A k \in 1..n : LeadsTo(evs, c, calls[k]) /\ ~Owing(calls[k]),
           \A j, k \in 1..n : j < k => MayPrecede(calls[j], calls[k])
    PROVE  Leads(evs, c, calls)
<1>1. IsSequence(calls) /\ Len(calls) = n
    BY BuiltCalls
<1>2. QED BY <1>1 DEF Leads, Ordered

LEMMA TailOrdered ==
    ASSUME NEW calls, Ordered(calls), calls # <<>>
    PROVE  /\ Head(calls) = calls[1] /\ Len(calls) \in Nat \ {0} /\ Ordered(Tail(calls))
           /\ Len(Tail(calls)) = Len(calls) - 1
           /\ \A k \in 1..Len(Tail(calls)) :
                 k + 1 \in 2..Len(calls) /\ Tail(calls)[k] = calls[k + 1]
           /\ \A k \in 1..Len(Tail(calls)) : MayPrecede(Head(calls), Tail(calls)[k])
<1> DEFINE rest == Tail(calls)
<1>1. /\ Head(calls) = calls[1] /\ Len(calls) \in Nat \ {0}
      /\ IsSequence(rest) /\ Len(rest) = Len(calls) - 1
      /\ \A k \in 1..Len(rest) : k + 1 \in 2..Len(calls) /\ rest[k] = calls[k + 1]
    BY HeadAndTail DEF Ordered
<1> HIDE DEF rest
<1>2. ASSUME NEW j \in 1..Len(rest), NEW k \in 1..Len(rest), j < k
      PROVE  MayPrecede(rest[j], rest[k])
    <2>1. j + 1 < k + 1 /\ j + 1 \in 1..Len(calls) /\ k + 1 \in 1..Len(calls)
        BY <1>1, <1>2
    <2>2. QED BY <1>1, <2>1 DEF Ordered
<1>3. ASSUME NEW j \in 1..Len(rest), Owing(rest[j])
      PROVE  \E k \in 1..Len(rest) : j < k /\ Owes(rest[j], rest[k])
    <2>1. j + 1 \in 1..Len(calls) /\ rest[j] = calls[j + 1]
        BY <1>1
    <2>2. PICK k \in 1..Len(calls) : j + 1 < k /\ Owes(calls[j + 1], calls[k])
        BY <1>3, <2>1 DEF Ordered
    <2>3. k - 1 \in 1..Len(rest) /\ rest[k - 1] = calls[k] /\ j < k - 1
        BY <1>1, <2>2
    <2>4. QED BY <2>1, <2>2, <2>3
<1>4. \A k \in 1..Len(rest) : MayPrecede(calls[1], rest[k])
    <2>1. ASSUME NEW k \in 1..Len(rest) PROVE MayPrecede(calls[1], rest[k])
        <3>1. 1 \in 1..Len(calls) /\ k + 1 \in 1..Len(calls) /\ 1 < k + 1
            BY <1>1
        <3>2. QED BY <1>1, <3>1 DEF Ordered
    <2>2. QED BY <2>1
<1>5. QED BY <1>1, <1>2, <1>3, <1>4 DEF Ordered, rest

(* A call that returns is replaced by the calls it leads to.               *)
LEMMA CallReplaced ==
    ASSUME NEW evs, NEW calls, Ordered(calls), calls # <<>>, NEW next,
           Leads(evs, Head(calls), next)
    PROVE  /\ Ordered(next \o Tail(calls))
           /\ \A k \in 1..Len(next \o Tail(calls)) :
                 \/ k \in 1..Len(next) /\ (next \o Tail(calls))[k] = next[k]
                 \/ /\ k - Len(next) + 1 \in 2..Len(calls)
                    /\ (next \o Tail(calls))[k] = calls[k - Len(next) + 1]
<1>1. \A j \in 1..Len(next), k \in 1..Len(Tail(calls)) : MayPrecede(next[j], Tail(calls)[k])
    BY TailOrdered DEF Leads, LeadsTo
<1>2. Ordered(next \o Tail(calls))
    BY <1>1, TailOrdered, JoinedOrdered DEF Leads
<1>3. ASSUME NEW k \in 1..Len(next \o Tail(calls))
      PROVE  \/ k \in 1..Len(next) /\ (next \o Tail(calls))[k] = next[k]
             \/ /\ k - Len(next) + 1 \in 2..Len(calls)
                /\ (next \o Tail(calls))[k] = calls[k - Len(next) + 1]
    <2>1. IsSequence(next) /\ IsSequence(Tail(calls))
        BY TailOrdered DEF Leads, Ordered
    <2>2. CASE k \in 1..Len(next)
        BY <2>1, <2>2, Concatenated
    <2>3. CASE k \in Len(next) + 1..Len(next \o Tail(calls))
        BY <2>1, <2>3, Concatenated, TailOrdered
    <2>4. QED BY <2>1, <2>2, <2>3, Concatenated
<1>4. QED BY <1>2, <1>3

-----------------------------------------------------------------------------
(* The ledger grows.                                                       *)

LEMMA SensibleStays ==
    ASSUME NEW evs, IsSequence(evs), NEW e, NEW f, NEW n \in 0..Len(evs), NEW m \in Nat, n <= m,
           Sensible(evs, f, n)
    PROVE  Sensible(Append(evs, e), f, m)
<1> DEFINE new == Append(evs, e)
<1>1. Len(evs) \in Nat /\ \A k \in 1..Len(evs) : new[k] = evs[k]
    BY Appended
<1> HIDE DEF new
<1>2. \A g : Proposed(evs, g, n) => Proposed(new, g, m) /\ new[g] = evs[g]
    BY <1>1 DEF Proposed
<1>3. ASSUME NEW g, NEW claim, Proposed(evs, g, n), Permitted(evs, g, claim, n)
      PROVE  Permitted(new, g, claim, m)
    <2>1. PICK j \in 1..n : evs[j] = ContinuityMoved(claim)
        BY <1>3 DEF Permitted
    <2>2. j \in 1..m /\ new[j] = ContinuityMoved(claim)
        BY <1>1, <2>1
    <2>3. QED BY <1>2, <1>3, <2>2 DEF Permitted
<1>4. Sensible(new, f, m)
    BY <1>2, <1>3 DEF Sensible
<1>5. QED BY <1>4 DEF new

LEMMA LogStaysSound ==
    ASSUME NEW evs, LogSound(evs), NEW e, Sensible(evs, e, Len(evs))
    PROVE  LogSound(Append(evs, e))
<1> DEFINE new == Append(evs, e)
<1>1. /\ IsSequence(new) /\ Len(evs) \in Nat \ {0} /\ Len(new) = Len(evs) + 1
      /\ \A k \in 1..Len(evs) : new[k] = evs[k]
      /\ new[Len(evs) + 1] = e
    BY Appended DEF LogSound
<1>2. \A f, n : n \in 0..Len(evs) /\ Sensible(evs, f, n) => Sensible(new, f, n)
    BY <1>1, SensibleStays DEF LogSound
<1> HIDE DEF new
<1>3. ASSUME NEW i \in 1..Len(new) PROVE Sensible(new, new[i], i - 1)
    <2>1. CASE i \in 1..Len(evs)
        <3>1. Sensible(evs, evs[i], i - 1) /\ i - 1 \in 0..Len(evs)
            BY <1>1, <2>1 DEF LogSound
        <3>2. QED BY <1>1, <1>2, <2>1, <3>1
    <2>2. CASE i = Len(evs) + 1
        BY <1>1, <1>2, <2>2
    <2>3. QED BY <1>1, <2>1, <2>2
<1>4. LogSound(new)
    BY <1>1, <1>3 DEF LogSound
<1>5. QED BY <1>4 DEF new

LEMMA CallStaysSound ==
    ASSUME NEW evs, IsSequence(evs), NEW e, NEW c, CallSound(evs, c)
    PROVE  CallSound(Append(evs, e), c)
<1> DEFINE new == Append(evs, e)
<1>1. /\ Len(evs) \in Nat /\ Len(new) = Len(evs) + 1
      /\ \A k \in 1..Len(evs) : new[k] = evs[k]
    BY Appended
<1>2. \A f : Sensible(evs, f, Len(evs)) => Sensible(new, f, Len(new))
    BY <1>1, SensibleStays
<1> HIDE DEF new
<1>3. \A g : Proposed(evs, g, Len(evs)) => Proposed(new, g, Len(new)) /\ new[g] = evs[g]
    BY <1>1 DEF Proposed
<1>4. \A t : OnOwn(evs, t) => OnOwn(new, t)
    BY <1>3 DEF OnOwn
<1>5. \A claim : (\E j \in 1..Len(evs) : evs[j] = ContinuityMoved(claim))
                 => \E j \in 1..Len(new) : new[j] = ContinuityMoved(claim)
    BY <1>1
<1>6. 1..Len(evs) \subseteq 1..Len(new)
    BY <1>1
<1>7. CallSound(new, c)
    BY <1>2, <1>3, <1>4, <1>5, <1>6 DEF CallSound
<1>8. QED BY <1>7 DEF new

-----------------------------------------------------------------------------
(* What the ledger's folds say.                                            *)

LEMMA LogPositions ==
    ASSUME NEW evs, IsSequence(evs), NEW type
    PROVE  /\ DOMAIN evs = 1..Len(evs) /\ Len(evs) \in Nat
           /\ Positions(evs, type) = {i \in 1..Len(evs) : evs[i].type = type}
           /\ IsFiniteSet(Positions(evs, type))
<1>1. DOMAIN evs = 1..Len(evs) /\ Len(evs) \in Nat
    BY DEF IsSequence
<1>2. Positions(evs, type) \in SUBSET (1..Len(evs)) /\ IsFiniteSet(1..Len(evs))
    BY <1>1, FS_Interval DEF Positions
<1>3. QED BY <1>1, <1>2, FS_Subset DEF Positions

\* The positions of a type when one more event is there.
LEMMA MorePositions ==
    ASSUME NEW evs, IsSequence(evs), NEW e, NEW type
    PROVE  /\ e.type = type => Positions(Append(evs, e), type) = Positions(evs, type) \cup {Len(evs) + 1}
           /\ e.type # type => Positions(Append(evs, e), type) = Positions(evs, type)
<1> DEFINE new == Append(evs, e)
<1>1. /\ IsSequence(new) /\ Len(evs) \in Nat /\ Len(new) = Len(evs) + 1
      /\ \A k \in 1..Len(evs) : new[k] = evs[k]
      /\ new[Len(evs) + 1] = e
    BY Appended
<1> HIDE DEF new
<1>2. /\ Positions(new, type) = {i \in 1..Len(new) : new[i].type = type}
      /\ Positions(evs, type) = {i \in 1..Len(evs) : evs[i].type = type}
    BY <1>1, LogPositions
<1>3. e.type = type => Positions(new, type) = Positions(evs, type) \cup {Len(evs) + 1}
    BY <1>1, <1>2
<1>4. e.type # type => Positions(new, type) = Positions(evs, type)
    BY <1>1, <1>2
<1>5. QED BY <1>3, <1>4 DEF new

LEMMA ClaimWasMoved ==
    ASSUME NEW evs, LogSound(evs)
    PROVE  \E j \in 1..Len(evs) : evs[j] = ContinuityMoved(CurrentClaim(evs))
<1> DEFINE S == Positions(evs, "continuity")
<1>1. S = {i \in 1..Len(evs) : evs[i].type = "continuity"} /\ Len(evs) \in Nat \ {0}
    BY LogPositions DEF LogSound
<1>2. S \in SUBSET (0..Len(evs)) /\ S # {}
    BY <1>1 DEF LogSound
<1>3. Max(S) \in S
    BY <1>1, <1>2, MaxIsGreatest
<1>4. evs[Max(S)] = ContinuityMoved(evs[Max(S)].claim)
    BY <1>1, <1>3 DEF LogSound, Sensible
<1>5. QED BY <1>1, <1>3, <1>4 DEF CurrentClaim

LEMMA SameClaim ==
    ASSUME NEW evs, LogSound(evs), NEW e, e.type # "continuity"
    PROVE  CurrentClaim(Append(evs, e)) = CurrentClaim(evs)
<1> DEFINE S == Positions(evs, "continuity")
           new == Append(evs, e)
<1>1. S = {i \in 1..Len(evs) : evs[i].type = "continuity"} /\ Len(evs) \in Nat \ {0}
    BY LogPositions DEF LogSound
<1>2. S \in SUBSET (0..Len(evs)) /\ S # {}
    BY <1>1 DEF LogSound
<1>3. Max(S) \in S
    BY <1>1, <1>2, MaxIsGreatest
<1>4. IsSequence(evs)
    BY DEF LogSound
<1>5. new[Max(S)] = evs[Max(S)]
    <2> HIDE DEF S
    <2>1. Max(S) \in 1..Len(evs)
        BY <1>1, <1>3
    <2>2. QED BY <1>4, <2>1, Appended
<1>6. Positions(new, "continuity") = S
    BY <1>4, MorePositions
<1>7. QED BY <1>5, <1>6 DEF CurrentClaim

LEMMA UpdatesArePositions ==
    ASSUME NEW evs, LogSound(evs), NEW g \in Growths(evs)
    PROVE  /\ g \in 1..Len(evs) /\ evs[g].type = "lucien.growth_proposed"
           /\ {g} \cup UpdatesOf(evs, g) \in SUBSET (0..Len(evs))
           /\ Max({g} \cup UpdatesOf(evs, g)) \in {g} \cup UpdatesOf(evs, g)
<1> DEFINE S == {g} \cup UpdatesOf(evs, g)
<1>1. Len(evs) \in Nat /\ g \in 1..Len(evs) /\ evs[g].type = "lucien.growth_proposed"
    BY LogPositions DEF LogSound, Growths
<1>2. S \in SUBSET (0..Len(evs)) /\ S # {}
    <2>1. Positions(evs, "lucien.growth_updated") \subseteq 1..Len(evs)
        BY LogPositions DEF LogSound
    <2>2. QED BY <1>1, <2>1 DEF UpdatesOf
<1>3. Max(S) \in S
    <2> HIDE DEF S
    <2>1. QED BY <1>1, <1>2, MaxIsGreatest
<1>4. QED BY <1>1, <1>2, <1>3

\* An event that changes no growth leaves the standing commitments alone.
LEMMA SameCommitments ==
    ASSUME NEW evs, LogSound(evs), NEW e, Sensible(evs, e, Len(evs)),
           e.type # "lucien.growth_updated"
    PROVE  StandingCommitments(Append(evs, e)) = StandingCommitments(evs)
<1> DEFINE new == Append(evs, e)
           n == Len(evs) + 1
<1>1. /\ IsSequence(evs) /\ Len(evs) \in Nat /\ LogSound(new) /\ IsSequence(new)
      /\ \A k \in 1..Len(evs) : new[k] = evs[k]
      /\ new[n] = e
    BY Appended, LogStaysSound DEF LogSound
<1>2. \A g : UpdatesOf(new, g) = UpdatesOf(evs, g)
    <2>1. Positions(new, "lucien.growth_updated") = Positions(evs, "lucien.growth_updated")
        BY <1>1, MorePositions
    <2>2. \A i \in Positions(evs, "lucien.growth_updated") : new[i] = evs[i]
        BY <1>1, LogPositions
    <2>3. QED BY <2>1, <2>2 DEF UpdatesOf
<1>3. ASSUME NEW g \in Growths(evs)
      PROVE  /\ GrowthRecord(new, g) = GrowthRecord(evs, g) /\ new[g] = evs[g]
    <2>1. Max({g} \cup UpdatesOf(evs, g)) \in 1..Len(evs)
        BY <1>1, UpdatesArePositions, LogPositions DEF UpdatesOf
    <2>2. QED BY <1>1, <1>2, <2>1, UpdatesArePositions DEF GrowthRecord
<1>4. /\ e.type = "lucien.growth_proposed" => Growths(new) = Growths(evs) \cup {n}
      /\ e.type # "lucien.growth_proposed" => Growths(new) = Growths(evs)
    BY <1>1, MorePositions DEF Growths
<1>5. ASSUME e.type = "lucien.growth_proposed" PROVE GrowthRecord(new, n).status # "accepted"
    <2>1. UpdatesOf(evs, n) = {}
        <3>1. ASSUME NEW i \in UpdatesOf(evs, n) PROVE FALSE
            <4>1. i \in 1..Len(evs) /\ evs[i].type = "lucien.growth_updated" /\ evs[i].growth = n
                BY <1>1, <3>1, LogPositions DEF UpdatesOf
            <4>2. Sensible(evs, evs[i], i - 1)
                BY <4>1 DEF LogSound
            <4>3. QED BY <1>1, <4>1, <4>2 DEF Sensible, Proposed
        <3>2. QED BY <3>1
    <2>2. Max({n} \cup UpdatesOf(new, n)) = n
        BY <1>1, <1>2, <1>4, <1>5, <2>1, UpdatesArePositions
    <2>3. QED BY <1>1, <1>5, <2>2 DEF GrowthRecord, Sensible
<1>6. Accepted(new) = Accepted(evs)
    BY <1>3, <1>4, <1>5 DEF Accepted
<1>7. \A g \in Accepted(evs) : new[g] = evs[g]
    BY <1>3 DEF Accepted
<1>8. QED BY <1>6, <1>7 DEF StandingCommitments

-----------------------------------------------------------------------------
(* What each function leads to.                                            *)

\* Calls that nothing has to follow, and that have to follow nothing.
Plain(c) ==
    c.do \notin {"begin", "append", "accept", "reject", "close_task", "close_session",
                 "forget_session", "reflect", "derive_claim", "open_tasks"}
Neutral(d) ==
    /\ d.do \notin {"begin", "accept", "turn_growth", "detect_conflict", "auto_accept", "create",
                    "enter_session", "see_self", "record_turn", "close_session",
                    "forget_session", "close_task"}
    /\ d.do = "append" => d.event.type \notin
          {"lucien.growth_updated", "lucien.growth_conflict_resolved",
           "lucien.growth_conflict_detected", "lucien.growth_reviewed",
           "lucien.chat_turn_recorded", "lucien.chat_session_closed"}

LEMMA PlainPrecedes ==
    ASSUME NEW c, Plain(c), NEW d, d.do # "begin", ~Says(d, "continuity"),
           NEW y, MayPrecede(c, y)
    PROVE  MayPrecede(d, y)
BY DEF MayPrecede, Plain, Says, Tasking, Changes, ClosesSession, Reflecting, Closes

LEMMA NeutralCall ==
    ASSUME NEW d, Neutral(d)
    PROVE  /\ \A evs : Current(evs, d) /\ Settled(evs, d) /\ SessionOpen(evs, d)
           /\ \A g : ~Holds(d, g)
           /\ \A s : ~MayEnd(d, s)
           /\ ~Says(d, "lucien.growth_reviewed")
<1>1. \A g : ~Holds(d, g)
    BY DEF Neutral, Holds, Says
<1>2. \A s : ~MayEnd(d, s)
    BY DEF Neutral, MayEnd, Says, SessionCalls
<1>3. \A evs : Current(evs, d)
    BY DEF Neutral, Current, Says
<1>4. \A evs : SessionOpen(evs, d)
    BY DEF Neutral, SessionOpen, Says, SessionCalls
<1>5. QED BY <1>1, <1>2, <1>3, <1>4 DEF Settled, Neutral, Says

LEMMA PlainLeads ==
    ASSUME NEW evs, NEW c, Plain(c), NEW d, Neutral(d), ~Says(d, "continuity"), CallSound(evs, d)
    PROVE  LeadsTo(evs, c, d)
<1>1. d.do \notin {"begin", "forget_session", "close_task"}
    BY DEF Neutral
<1>2. QED BY <1>1, NeutralCall, PlainPrecedes DEF LeadsTo

LEMMA BegunLeads ==
    ASSUME NEW evs, NEW d, Neutral(d), CallSound(evs, d)
    PROVE  LeadsTo(evs, Begun, d)
<1>1. Begun.do = "begin" /\ \A y : ~MayPrecede(Begun, y)
    BY DEF Begun, MayPrecede
<1>2. QED BY <1>1, NeutralCall DEF LeadsTo, Neutral

LEMMA ProposeLeads ==
    ASSUME NEW evs, NEW c, CallSound(evs, c), c.do = "propose",
           NEW marked, NEW contrary, NEW kind
    PROVE  Leads(evs, c, <<Appending(GrowthProposed(kind, c.growth.impact, marked, contrary))>>)
<1> DEFINE d == Appending(GrowthProposed(kind, c.growth.impact, marked, contrary))
<1>1. /\ d.do = "append" /\ d.event.type = "lucien.growth_proposed"
      /\ d.event.impact = c.growth.impact /\ d.event.status # "accepted"
    BY DEF Appending, GrowthProposed
<1>2. c.growth.impact \in IdentityImpact
    BY DEF CallSound
<1> HIDE DEF d
<1>3. CallSound(evs, d)
    BY <1>1, <1>2 DEF CallSound, Sensible, TurnStage, TaskClosing
<1>4. LeadsTo(evs, c, d) /\ ~Owing(d)
    BY <1>1, <1>3, PlainLeads DEF Plain, Neutral, Says, Owing
<1>5. QED BY <1>4, OneCall DEF d

LEMMA AcceptNowLeads ==
    ASSUME NEW evs, LogSound(evs), NEW c, CallSound(evs, c), c.do = "accept_now"
    PROVE  Leads(evs, c, <<Accept(c.growth, CurrentClaim(evs), FALSE)>>)
<1> DEFINE d == Accept(c.growth, CurrentClaim(evs), FALSE)
<1>1. d.do = "accept" /\ d.growth = c.growth /\ d.claim = CurrentClaim(evs) /\ d.auto = FALSE
    BY DEF Accept
<1> HIDE DEF d
<1>2. Proposed(evs, d.growth, Len(evs))
    BY <1>1 DEF CallSound
<1>3. CallSound(evs, d)
    BY <1>1, <1>2, ClaimWasMoved DEF CallSound, TurnStage
<1>4. \A y : MayPrecede(c, y) => MayPrecede(d, y)
    BY <1>1, PlainPrecedes DEF Plain, Says
<1>5. Current(evs, d)
    BY <1>1 DEF Current, Accepts, Says
<1>6. (\A g : ~Holds(d, g)) /\ (\A s : ~MayEnd(d, s)) /\ SessionOpen(evs, d) /\ ~Owing(d)
    BY <1>1 DEF Holds, MayEnd, SessionOpen, SessionCalls, Says, Owing
<1>7. LeadsTo(evs, c, d)
    BY <1>1, <1>3, <1>4, <1>5, <1>6 DEF LeadsTo, Settled, Says
<1>8. QED BY <1>6, <1>7, OneCall DEF d

LEMMA AcceptLeads ==
    ASSUME NEW evs, LogSound(evs), NEW c, CallSound(evs, c), c.do = "accept",
           GrowthGate(c.claim, "accept", evs[c.growth].impact)
    PROVE  Leads(evs, c, <<Appending(GrowthUpdated(c.growth, "accepted", c.claim, c.auto))>>)
<1> DEFINE d == Appending(GrowthUpdated(c.growth, "accepted", c.claim, c.auto))
<1>1. /\ d.do = "append" /\ d.event.type = "lucien.growth_updated" /\ d.event.growth = c.growth
      /\ d.event.status = "accepted" /\ d.event.claim = c.claim /\ d.event.auto = c.auto
    BY DEF Appending, GrowthUpdated
<1> HIDE DEF d
<1>2. /\ c.claim \in {"certified_continuity", "declared_fork", "review_required"}
      /\ c.claim = "review_required" => evs[c.growth].impact \in {"low", "medium"}
    <2>1. Proposed(evs, c.growth, Len(evs))
        BY DEF CallSound
    <2>2. evs[c.growth].impact \in IdentityImpact
        BY <2>1 DEF LogSound, Sensible, Proposed
    <2>3. QED BY <2>2 DEF GrowthGate, IdentityImpact
<1>3. Permitted(evs, c.growth, c.claim, Len(evs))
    BY <1>2 DEF CallSound, Permitted
<1>4. Sensible(evs, d.event, Len(evs))
    BY <1>1, <1>3 DEF CallSound, Sensible, TaskClosing
<1>5. CallSound(evs, d)
    BY <1>1, <1>4 DEF CallSound, TurnStage
<1>6. \A y : MayPrecede(c, y) => MayPrecede(d, y)
    BY <1>1 DEF MayPrecede, Says, Tasking, Changes, ClosesSession, Reflecting, Closes
<1>7. Current(evs, c) => Current(evs, d)
    BY <1>1 DEF Current, Says
<1>8. \A g : Holds(d, g) => Holds(c, g)
    BY <1>1 DEF Holds, Says, CallSound
<1>9. Settled(evs, c) => Settled(evs, d)
    BY <1>1, <1>8 DEF Settled, BeforeUpdate, WithoutConflict, Says
<1>10. (\A s : ~MayEnd(d, s)) /\ SessionOpen(evs, d) /\ ~Owing(d)
    BY <1>1 DEF MayEnd, SessionOpen, SessionCalls, Says, Owing
<1>11. LeadsTo(evs, c, d)
    BY <1>1, <1>5, <1>6, <1>7, <1>8, <1>9, <1>10 DEF LeadsTo, Says
<1>12. QED BY <1>10, <1>11, OneCall DEF d

LEMMA RejectLeads ==
    ASSUME NEW evs, NEW c, CallSound(evs, c), c.do = "reject", NEW claim
    PROVE  Leads(evs, c, <<Appending(GrowthUpdated(c.growth, "rejected", claim, FALSE))>>)
<1> DEFINE d == Appending(GrowthUpdated(c.growth, "rejected", claim, FALSE))
<1>1. /\ d.do = "append" /\ d.event.type = "lucien.growth_updated" /\ d.event.growth = c.growth
      /\ d.event.status = "rejected" /\ d.event.auto = FALSE
    BY DEF Appending, GrowthUpdated
<1> HIDE DEF d
<1>2. Sensible(evs, d.event, Len(evs))
    BY <1>1 DEF CallSound, Sensible, TaskClosing
<1>3. CallSound(evs, d)
    BY <1>1, <1>2 DEF CallSound, TurnStage
<1>4. \A y : MayPrecede(c, y) => MayPrecede(d, y)
    BY <1>1 DEF MayPrecede, Says, Tasking, Changes, ClosesSession, Reflecting, Closes
<1>5. Current(evs, d) /\ \A g : ~Holds(d, g)
    BY <1>1 DEF Current, Holds, Says
<1>6. (\A s : ~MayEnd(d, s)) /\ SessionOpen(evs, d) /\ ~Owing(d)
    BY <1>1 DEF MayEnd, SessionOpen, SessionCalls, Says, Owing
<1>7. LeadsTo(evs, c, d)
    BY <1>1, <1>3, <1>4, <1>5, <1>6 DEF LeadsTo, Settled, Says
<1>8. QED BY <1>6, <1>7, OneCall DEF d

\* The status changes, and then the review is recorded.
LEMMA ReviewLeads ==
    ASSUME NEW evs, LogSound(evs), NEW c, CallSound(evs, c), c.do = "review", NEW live
    PROVE  Leads(evs, c,
              <<IF c.decision = "accepted" THEN Accept(c.growth, CurrentClaim(evs), FALSE)
                ELSE Reject(c.growth),
                Appending(GrowthReviewed(c.growth, c.decision, CurrentClaim(evs)))>>
              \o (IF live THEN <<ResolveTasks("review_growth")>> ELSE <<>>))
<1> DEFINE d == IF c.decision = "accepted" THEN Accept(c.growth, CurrentClaim(evs), FALSE)
                ELSE Reject(c.growth)
           e == Appending(GrowthReviewed(c.growth, c.decision, CurrentClaim(evs)))
           f == ResolveTasks("review_growth")
<1>1. /\ c.decision \in {"accepted", "rejected"} /\ Proposed(evs, c.growth, Len(evs))
      /\ d.do \in {"accept", "reject"} /\ d.growth = c.growth
      /\ c.decision = "accepted" =>
            d.do = "accept" /\ d.claim = CurrentClaim(evs) /\ d.auto = FALSE
      /\ c.decision = "rejected" => d.do = "reject"
    BY DEF CallSound, GrowthReviewDecision, Accept, Reject
<1>2. /\ e.do = "append" /\ e.event.type = "lucien.growth_reviewed"
      /\ e.event.growth = c.growth /\ e.event.decision = c.decision
      /\ f.do = "resolve_tasks" /\ f.kind = "review_growth"
    BY DEF Appending, GrowthReviewed, ResolveTasks
<1> HIDE DEF d, e, f
<1>3. CallSound(evs, d)
    BY <1>1, ClaimWasMoved DEF CallSound, TurnStage
<1>4. CallSound(evs, e) /\ CallSound(evs, f)
    BY <1>2 DEF CallSound, Sensible, TaskClosing, TurnStage
<1>5. \A y : MayPrecede(c, y) => MayPrecede(d, y) /\ MayPrecede(e, y)
    BY <1>1, <1>2, PlainPrecedes DEF Plain, Says
<1>6. Current(evs, d) /\ (\A g : ~Holds(d, g)) /\ (\A s : ~MayEnd(d, s)) /\ SessionOpen(evs, d)
    BY <1>1 DEF Current, Accepts, Holds, MayEnd, SessionOpen, SessionCalls, Says
<1>7. Current(evs, e) /\ (\A g : ~Holds(e, g)) /\ (\A s : ~MayEnd(e, s)) /\ SessionOpen(evs, e)
    BY <1>2 DEF Current, Holds, MayEnd, SessionOpen, SessionCalls, Says
<1>8. LeadsTo(evs, c, d) /\ ~Owing(d)
    BY <1>1, <1>3, <1>5, <1>6 DEF LeadsTo, Settled, Says, Owing
<1>9. LeadsTo(evs, c, e) /\ ~Owing(e)
    BY <1>2, <1>4, <1>5, <1>7 DEF LeadsTo, Settled, Says, Owing
<1>10. LeadsTo(evs, c, f) /\ ~Owing(f)
    BY <1>2, <1>4, PlainLeads DEF Plain, Neutral, Says, Owing
<1>11. MayPrecede(d, e)
    BY <1>1, <1>2 DEF MayPrecede, Says, Leading, Tasking, Changes, TaskClosing
<1>12. MayPrecede(d, f) /\ MayPrecede(e, f)
    BY <1>1, <1>2 DEF MayPrecede, Says, Leading, Tasking
<1> DEFINE two == <<d, e>>
           one == <<f>>
<1>13. Leads(evs, c, two) /\ Leads(evs, c, one)
    BY <1>8, <1>9, <1>10, <1>11, OneCall, TwoCalls
<1>14. /\ 1..Len(two) = {1, 2} /\ two[1] = d /\ two[2] = e
       /\ 1..Len(one) = {1} /\ one[1] = f
    BY OneElement, TwoElements
<1> HIDE DEF two, one
<1>15. Leads(evs, c, two \o one)
    BY <1>12, <1>13, <1>14, Joined
<1> DEFINE none == <<>>
<1>16. Leads(evs, c, none) /\ 1..Len(none) = {}
    BY NoCalls, NoElement
<1> HIDE DEF none
<1>17. Leads(evs, c, two \o none)
    BY <1>13, <1>16, Joined
<1>18. Leads(evs, c, two \o IF live THEN one ELSE none)
    BY <1>15, <1>17
<1>19. QED BY <1>18 DEF two, one, none, d, e, f

LEMMA ResolveLeads ==
    ASSUME NEW evs, NEW c, c.do = "resolve_conflict", c.conflict \in UnresolvedConflicts(evs)
    PROVE  Leads(evs, c, <<Appending(ConflictResolved(c.conflict, c.decision)),
                           ResolveTasks("resolve_conflict")>>)
<1> DEFINE d == Appending(ConflictResolved(c.conflict, c.decision))
           e == ResolveTasks("resolve_conflict")
<1>1. d.do = "append" /\ d.event.type = "lucien.growth_conflict_resolved" /\ d.event.conflict = c.conflict
    BY DEF Appending, ConflictResolved
<1>2. e.do = "resolve_tasks" /\ e.kind = "resolve_conflict" /\ Owes(d, e)
    BY <1>1 DEF ResolveTasks, Owes, Says
<1> HIDE DEF d, e
<1>3. CallSound(evs, d) /\ CallSound(evs, e)
    BY <1>1, <1>2 DEF CallSound, Sensible, TaskClosing, TurnStage
<1>4. \A y : MayPrecede(c, y) => MayPrecede(d, y)
    BY <1>1, PlainPrecedes DEF Plain, Says
<1>5. Current(evs, d)
    BY <1>1 DEF Current, Says, UnresolvedConflicts
<1>6. (\A g : ~Holds(d, g)) /\ (\A s : ~MayEnd(d, s)) /\ SessionOpen(evs, d)
    BY <1>1 DEF Holds, MayEnd, SessionOpen, SessionCalls, Says
<1>7. LeadsTo(evs, c, d)
    BY <1>1, <1>3, <1>4, <1>5, <1>6 DEF LeadsTo, Settled, Says
<1>8. LeadsTo(evs, c, e) /\ ~Owing(e)
    BY <1>2, <1>3, PlainLeads DEF Plain, Neutral, Says, Owing
<1>9. MayPrecede(d, e)
    BY <1>1, <1>2 DEF MayPrecede, Says, Leading, Tasking
<1>10. QED BY <1>2, <1>7, <1>8, <1>9, TwoCalls DEF d, e

\* The members of a set by increasing value: each is there once.
LEMMA MembersInOrder ==
    ASSUME NEW n \in Nat, NEW S \in SUBSET (1..n)
    PROVE  /\ Cardinality(S) \in Nat
           /\ \A k \in 1..Cardinality(S) : InOrder(S)[k] \in S
           /\ \A j, k \in 1..Cardinality(S) : j < k => InOrder(S)[j] # InOrder(S)[k]
           /\ \A x \in S : \E k \in 1..Cardinality(S) : InOrder(S)[k] = x
<1> DEFINE key == [x \in S |-> x]
           list == InOrder(S)
<1>1. IsFiniteSet(S)
    <2>1. IsFiniteSet(1..n)
        BY FS_Interval
    <2>2. QED BY <2>1, FS_Subset
<1>2. IsKey(S, key)
    BY DEF IsKey
<1>3. \A x \in S : LowerKeys(S, key, x) = {y \in S : y < x}
    BY DEF LowerKeys
<1> HIDE DEF key
<1>4. ASSUME NEW k \in 1..Cardinality(S), NEW x \in S,
             Cardinality(LowerKeys(S, key, x)) = k - 1
      PROVE  list[k] \in S /\ Cardinality(LowerKeys(S, key, list[k])) = k - 1
    <2>1. list[k] = CHOOSE z \in S : Cardinality({y \in S : y < z}) = k - 1
        BY DEF InOrder, Ranked
    <2>2. Cardinality({y \in S : y < x}) = k - 1
        BY <1>3, <1>4
    <2>3. list[k] \in S /\ Cardinality({y \in S : y < list[k]}) = k - 1
        BY <2>1, <2>2
    <2>4. QED BY <1>3, <2>3
<1> HIDE DEF list
<1>5. ListsByKey(list, S, key)
    BY <1>4 DEF ListsByKey
<1>6. ListsOnce(list, S)
    BY <1>1, <1>2, <1>5, RankedMembers, Zenon
<1>7. QED BY <1>6 DEF ListsOnce, list

LEMMA TasksInLog ==
    ASSUME NEW evs, IsSequence(evs)
    PROVE  /\ Tasks(evs) = {t \in 1..Len(evs) : evs[t].type = "reflection.task_opened"}
           /\ Len(evs) \in Nat
           /\ OpenTasks(evs) \subseteq 1..Len(evs)
BY LogPositions DEF Tasks, OpenTasks

Matching(evs, kind) == {t \in OpenTasks(evs) : evs[t].kind = kind}

\* Each of the tasks is closed, one after another.
ClosingCalls(matching) ==
    CallEach(Cardinality(matching),
             LAMBDA k : CloseTask(InOrder(matching)[k], "reflection.task_resolved"))

LEMMA ResolveTasksLeads ==
    ASSUME NEW evs, LogSound(evs), NEW c, c.do = "resolve_tasks",
           NEW matching, matching = Matching(evs, c.kind)
    PROVE  /\ Leads(evs, c, ClosingCalls(matching))
           /\ \A t \in matching : \E k \in 1..Len(ClosingCalls(matching)) :
                 Closes(ClosingCalls(matching)[k], t)
<1> DEFINE n == Cardinality(matching)
           task == InOrder(matching)
           calls == ClosingCalls(matching)
<1>1. /\ matching = {t \in OpenTasks(evs) : evs[t].kind = c.kind}
      /\ matching \in SUBSET (1..Len(evs)) /\ Len(evs) \in Nat
    BY TasksInLog DEF LogSound, Matching
<1>2. /\ n \in Nat
      /\ \A k \in 1..n : task[k] \in matching
      /\ \A j, k \in 1..n : j < k => task[j] # task[k]
      /\ \A x \in matching : \E k \in 1..n : task[k] = x
    <2> HIDE DEF calls
    <2>1. QED BY <1>1, MembersInOrder
<1>5. calls = [k \in 1..n |-> CloseTask(task[k], "reflection.task_resolved")]
    BY DEF CallEach, ClosingCalls
<1> HIDE DEF n, task, calls
<1>6. calls = [k \in 1..n |-> calls[k]]
    BY <1>5
<1>7. \A k \in 1..n : calls[k].do = "close_task" /\ calls[k].task = task[k] /\ calls[k].how \in TaskClosing
    BY <1>5 DEF CloseTask, TaskClosing
<1>8. ASSUME NEW k \in 1..n PROVE LeadsTo(evs, c, calls[k]) /\ ~Owing(calls[k])
    <2> DEFINE d == calls[k]
    <2>1. d.do = "close_task" /\ d.task \in OpenTasks(evs) /\ d.how \in TaskClosing
        BY <1>1, <1>2, <1>7
    <2> HIDE DEF d
    <2>2. CallSound(evs, d) /\ Current(evs, d) /\ (\A g : ~Holds(d, g))
        BY <2>1 DEF CallSound, TurnStage, Current, Holds, Says
    <2>3. (\A s : ~MayEnd(d, s)) /\ SessionOpen(evs, d) /\ ~Owing(d)
        BY <2>1 DEF MayEnd, SessionOpen, SessionCalls, Says, Owing
    <2>4. \A y : MayPrecede(c, y) => MayPrecede(d, y)
        BY <2>1, PlainPrecedes DEF Plain, Says
    <2>5. LeadsTo(evs, c, d)
        BY <2>1, <2>2, <2>3, <2>4 DEF LeadsTo, Settled, Says
    <2>6. QED BY <2>3, <2>5 DEF d
<1>9. ASSUME NEW j \in 1..n, NEW k \in 1..n, j < k PROVE MayPrecede(calls[j], calls[k])
    <2> DEFINE x == calls[j]
               y == calls[k]
    <2>1. /\ x.do = "close_task" /\ y.do = "close_task" /\ x.task # y.task
        BY <1>2, <1>7, <1>9
    <2> HIDE DEF x, y
    <2>2. Closes(x, x.task)
        BY <2>1 DEF Closes
    <2>3. MayPrecede(x, y)
        BY <2>1, <2>2 DEF MayPrecede, Says, Leading, Tasking
    <2>4. QED BY <2>3 DEF x, y
<1>10. Leads(evs, c, calls) /\ Len(calls) = n
    BY <1>2, <1>6, <1>8, <1>9, EachCall, BuiltCalls
<1>11. \A t \in matching : \E k \in 1..Len(calls) : Closes(calls[k], t)
    BY <1>2, <1>7, <1>10 DEF Closes
<1>12. QED BY <1>10, <1>11 DEF calls

LEMMA CloseTaskLeads ==
    ASSUME NEW evs, LogSound(evs), NEW c, c.do = "close_task", c.task \in OpenTasks(evs),
           NEW how \in TaskClosing
    PROVE  /\ Leads(evs, c, <<Appending(TaskClosed(how, c.task))>>)
           /\ Closes(Appending(TaskClosed(how, c.task)), c.task)
<1> DEFINE d == Appending(TaskClosed(how, c.task))
<1>1. d.do = "append" /\ d.event.type \in TaskClosing /\ d.event.task = c.task
    BY DEF Appending, TaskClosed
<1> HIDE DEF d
<1>2. c.task \in 1..Len(evs)
    BY TasksInLog DEF LogSound
<1>3. CallSound(evs, d)
    BY <1>1, <1>2 DEF CallSound, Sensible, TaskClosing, TurnStage
<1>4. \A y : MayPrecede(c, y) => MayPrecede(d, y)
    BY <1>1 DEF MayPrecede, Says, Tasking, Changes, ClosesSession, Reflecting, Closes, TaskClosing
<1>5. Neutral(d) /\ d.do # "begin" /\ ~Says(d, "continuity") /\ ~Owing(d)
    BY <1>1 DEF Neutral, TaskClosing, Says, Owing
<1>6. LeadsTo(evs, c, d)
    BY <1>1, <1>3, <1>4, <1>5, NeutralCall DEF LeadsTo
<1>7. QED BY <1>1, <1>5, <1>6, OneCall DEF d, Closes

\* The tasks that a reflection calls for and that are not there yet.
LEMMA ListedTasks ==
    ASSUME NEW r, NEW existing
    PROVE  /\ IsSequence(NewTaskSpecs(r, existing)) /\ IsSequence(TaskSpecs(r))
           /\ Listed(NewTaskSpecs(r, existing)) = Listed(TaskSpecs(r)) \ existing
           /\ \A x \in Listed(TaskSpecs(r)) : x.type = "reflection.task_opened"
<1> DEFINE x1 == TaskOpened("review_growth", r.growth)
           x2 == TaskOpened("resolve_conflict", r.conflicts)
           x3 == TaskOpened("audit_memory", r.cards)
           x4 == TaskOpened("open_recovery", 1)
           c1 == r.growth > 0
           c2 == r.conflicts > 0
           c3 == r.cards > 0
           c4 == r.claim = "continuity_break"
<1>1. ASSUME NEW E
      PROVE  NewTaskSpecs(r, E) = If(c1 /\ x1 \notin E, x1) \o If(c2 /\ x2 \notin E, x2)
                                  \o If(c3 /\ x3 \notin E, x3) \o If(c4 /\ x4 \notin E, x4)
    BY DEF NewTaskSpecs, If
<1>2. \A x \in {x1, x2, x3, x4} : x.type = "reflection.task_opened"
    BY DEF TaskOpened
<1> HIDE DEF x1, x2, x3, x4, c1, c2, c3, c4
<1>3. ASSUME NEW E
      PROVE  /\ IsSequence(NewTaskSpecs(r, E))
             /\ Listed(NewTaskSpecs(r, E)) =
                   {y \in {x1} : c1 /\ x1 \notin E} \cup {y \in {x2} : c2 /\ x2 \notin E}
                   \cup {y \in {x3} : c3 /\ x3 \notin E} \cup {y \in {x4} : c4 /\ x4 \notin E}
    <2> DEFINE s1 == If(c1 /\ x1 \notin E, x1)
               s2 == If(c2 /\ x2 \notin E, x2)
               s3 == If(c3 /\ x3 \notin E, x3)
               s4 == If(c4 /\ x4 \notin E, x4)
    <2>1. /\ IsSequence(s1) /\ Listed(s1) = {y \in {x1} : c1 /\ x1 \notin E}
          /\ IsSequence(s2) /\ Listed(s2) = {y \in {x2} : c2 /\ x2 \notin E}
          /\ IsSequence(s3) /\ Listed(s3) = {y \in {x3} : c3 /\ x3 \notin E}
          /\ IsSequence(s4) /\ Listed(s4) = {y \in {x4} : c4 /\ x4 \notin E}
        BY ListedIf
    <2>2. NewTaskSpecs(r, E) = s1 \o s2 \o s3 \o s4
        BY <1>1
    <2> HIDE DEF s1, s2, s3, s4
    <2>3. IsSequence(s1 \o s2) /\ Listed(s1 \o s2) = Listed(s1) \cup Listed(s2)
        BY <2>1, JoinedList
    <2>4. /\ IsSequence(s1 \o s2 \o s3)
          /\ Listed(s1 \o s2 \o s3) = Listed(s1) \cup Listed(s2) \cup Listed(s3)
        BY <2>1, <2>3, JoinedList
    <2>5. /\ IsSequence(s1 \o s2 \o s3 \o s4)
          /\ Listed(s1 \o s2 \o s3 \o s4) = Listed(s1) \cup Listed(s2) \cup Listed(s3) \cup Listed(s4)
        BY <2>1, <2>4, JoinedList
    <2>6. QED BY <2>1, <2>2, <2>5
<1>4. IsSequence(TaskSpecs(r)) /\ Listed(TaskSpecs(r)) =
                   {y \in {x1} : c1} \cup {y \in {x2} : c2} \cup {y \in {x3} : c3} \cup {y \in {x4} : c4}
    BY <1>3 DEF TaskSpecs
<1>5. Listed(NewTaskSpecs(r, existing)) = Listed(TaskSpecs(r)) \ existing
    BY <1>3, <1>4
<1>6. QED BY <1>2, <1>3, <1>4, <1>5

LEMMA ReflectLeads ==
    ASSUME NEW evs, NEW c, c.do = "reflect", NEW growth, NEW conflicts, NEW cards
    PROVE  Leads(evs, c, <<DeriveClaim(ReflectionRecorded("none", growth, conflicts, cards))>>)
<1> DEFINE r == ReflectionRecorded("none", growth, conflicts, cards)
           d == DeriveClaim(r)
<1>1. d.do = "derive_claim" /\ d.reflection = r
    BY DEF DeriveClaim
<1>2. r = ReflectionRecorded("none", r.growth, r.conflicts, r.cards)
    BY DEF ReflectionRecorded
<1> HIDE DEF r, d
<1>3. CallSound(evs, d)
    BY <1>1, <1>2 DEF CallSound, TurnStage
<1>4. \A y : MayPrecede(c, y) => MayPrecede(d, y)
    BY <1>1 DEF MayPrecede, Says, Tasking, Changes, ClosesSession, Reflecting, Closes
<1>5. Neutral(d) /\ d.do \notin {"begin", "forget_session", "close_task"} /\ ~Owing(d)
    BY <1>1 DEF Neutral, Says, Owing
<1>6. LeadsTo(evs, c, d)
    BY <1>3, <1>4, <1>5, NeutralCall DEF LeadsTo
<1>7. QED BY <1>5, <1>6, OneCall DEF d, r

LEMMA DeriveClaimLeads ==
    ASSUME NEW evs, NEW c, CallSound(evs, c), c.do = "derive_claim", NEW claim,
           NEW r, r = [c.reflection EXCEPT !.claim = claim]
    PROVE  Leads(evs, c, <<Appending(r), OpenTasksFrom(r)>>)
<1> DEFINE d == Appending(r)
           e == OpenTasksFrom(r)
<1>1. r.type = "lucien.reflection_recorded"
    BY DEF CallSound, ReflectionRecorded
<1>2. d.do = "append" /\ d.event = r /\ e.do = "open_tasks"
    BY DEF Appending, OpenTasksFrom
<1>3. Owes(d, e)
    BY <1>1, <1>2 DEF Owes, Says
<1> HIDE DEF d, e
<1>4. CallSound(evs, d) /\ CallSound(evs, e)
    BY <1>1, <1>2 DEF CallSound, Sensible, TaskClosing, TurnStage
<1>5. \A y : MayPrecede(c, y) => MayPrecede(d, y) /\ MayPrecede(e, y)
    BY <1>1, <1>2 DEF MayPrecede, Says, Tasking, Changes, ClosesSession, Reflecting, Closes
<1>6. /\ Neutral(d) /\ d.do \notin {"begin", "forget_session", "close_task"}
      /\ Neutral(e) /\ e.do \notin {"begin", "forget_session", "close_task"} /\ ~Owing(e)
    BY <1>1, <1>2 DEF Neutral, Says, Owing
<1>7. LeadsTo(evs, c, d) /\ LeadsTo(evs, c, e)
    BY <1>4, <1>5, <1>6, NeutralCall DEF LeadsTo
<1>8. MayPrecede(d, e)
    BY <1>1, <1>2 DEF MayPrecede, Says, Leading, Tasking
<1>9. QED BY <1>3, <1>6, <1>7, <1>8, TwoCalls DEF d, e

OpeningCalls(new) == CallEach(Len(new), LAMBDA k : Appending(new[k]))

\* Each task that is not there yet is opened.
LEMMA OpenTasksLeads ==
    ASSUME NEW evs, NEW c, c.do = "open_tasks", NEW existing,
           NEW new, new = NewTaskSpecs(c.reflection, existing)
    PROVE  /\ Leads(evs, c, OpeningCalls(new))
           /\ \A x : InSpecs(c.reflection, x) => x \in existing
                  \/ \E k \in 1..Len(OpeningCalls(new)) : Pressing(OpeningCalls(new)[k], x)
<1> DEFINE n == Len(new)
           calls == OpeningCalls(new)
<1>1. /\ n \in Nat /\ Listed(new) = Listed(TaskSpecs(c.reflection)) \ existing
      /\ \A k \in 1..n : new[k].type = "reflection.task_opened"
    <2>1. /\ IsSequence(new) /\ Listed(new) = Listed(TaskSpecs(c.reflection)) \ existing
          /\ \A x \in Listed(new) : x.type = "reflection.task_opened"
        BY ListedTasks
    <2>2. QED BY <2>1 DEF Listed, IsSequence
<1>2. calls = [k \in 1..n |-> Appending(new[k])]
    BY DEF CallEach, OpeningCalls
<1> HIDE DEF n, calls
<1>3. calls = [k \in 1..n |-> calls[k]]
    BY <1>2
<1>4. \A k \in 1..n : calls[k].do = "append" /\ calls[k].event = new[k]
    BY <1>2 DEF Appending
<1>5. ASSUME NEW k \in 1..n PROVE LeadsTo(evs, c, calls[k]) /\ ~Owing(calls[k])
    <2> DEFINE d == calls[k]
    <2>1. d.do = "append" /\ d.event.type = "reflection.task_opened"
        BY <1>1, <1>4
    <2> HIDE DEF d
    <2>2. CallSound(evs, d)
        BY <2>1 DEF CallSound, Sensible, TaskClosing, TurnStage
    <2>3. \A y : MayPrecede(c, y) => MayPrecede(d, y)
        BY <2>1 DEF MayPrecede, Says, Tasking, Changes, ClosesSession, Reflecting, Closes
    <2>4. Neutral(d) /\ d.do \notin {"begin", "forget_session", "close_task"} /\ ~Owing(d)
        BY <2>1 DEF Neutral, Says, Owing
    <2>5. LeadsTo(evs, c, d)
        BY <2>2, <2>3, <2>4, NeutralCall DEF LeadsTo
    <2>6. QED BY <2>4, <2>5 DEF d
<1>6. ASSUME NEW j \in 1..n, NEW k \in 1..n, j < k PROVE MayPrecede(calls[j], calls[k])
    <2> DEFINE x == calls[j]
               y == calls[k]
    <2>1. /\ x.do = "append" /\ x.event.type = "reflection.task_opened"
          /\ y.do = "append" /\ y.event.type = "reflection.task_opened"
        BY <1>1, <1>4
    <2> HIDE DEF x, y
    <2>2. MayPrecede(x, y)
        BY <2>1 DEF MayPrecede, Says, Leading, TaskClosing
    <2>3. QED BY <2>2 DEF x, y
<1>7. Leads(evs, c, calls) /\ Len(calls) = n
    BY <1>1, <1>3, <1>5, <1>6, EachCall, BuiltCalls
<1>8. ASSUME NEW x, InSpecs(c.reflection, x), x \notin existing
      PROVE  \E k \in 1..Len(calls) : Pressing(calls[k], x)
    <2>1. x \in Listed(new)
        BY <1>1, <1>8 DEF InSpecs, Listed
    <2>2. PICK k \in 1..n : new[k] = x
        BY <2>1 DEF Listed, n
    <2>3. QED BY <1>1, <1>4, <1>7, <2>2 DEF Pressing, Says
<1>9. QED BY <1>7, <1>8 DEF calls

LEMMA LedIf ==
    ASSUME NEW evs, NEW c, NEW cond, NEW d, cond => LeadsTo(evs, c, d) /\ ~Owing(d)
    PROVE  Leads(evs, c, If(cond, d))
<1>1. CASE cond
    BY <1>1, OneCall DEF If
<1>2. CASE ~cond
    BY <1>2, NoCalls DEF If
<1>3. QED BY <1>1, <1>2

LEMMA JoinedLists ==
    ASSUME NEW evs, NEW c, NEW s, NEW t, Leads(evs, c, s), Leads(evs, c, t),
           \A x \in Listed(s), y \in Listed(t) : MayPrecede(x, y)
    PROVE  Leads(evs, c, s \o t)
<1>1. IsSequence(s) /\ IsSequence(t)
    BY DEF Leads, Ordered
<1>2. \A j \in 1..Len(s), k \in 1..Len(t) : MayPrecede(s[j], t[k])
    BY DEF Listed
<1>3. QED BY <1>2, Joined

\* What a turn carries from one stage to the next.
IsStage(u, t, f) ==
    /\ IsTurn(u) /\ u.do = f /\ u.live = t.live /\ u.message = t.message /\ u.card = t.card
    /\ u.against = t.against /\ u.session = t.session /\ u.own = t.own

LEMMA NextStage ==
    ASSUME NEW t, IsTurn(t), NEW f
    PROVE  /\ IsStage(Stage(t, f), t, f)
           /\ Stage(t, f) = [do |-> f, live |-> t.live, message |-> t.message,
                             suppress |-> t.suppress, session |-> t.session, card |-> t.card,
                             against |-> t.against, own |-> t.own]
<1>1. Stage(t, f) = [do |-> f, live |-> t.live, message |-> t.message,
                     suppress |-> t.suppress, session |-> t.session, card |-> t.card,
                     against |-> t.against, own |-> t.own]
    BY DEF IsTurn, Stage
<1>2. IsTurn(Stage(t, f))
    BY <1>1 DEF IsTurn
<1>3. QED BY <1>1, <1>2 DEF IsStage

\* The same turn in a session, and with what it sees of the self-model.
In(t, s)             == [t EXCEPT !.session = s]
Entered(t, s)        == [t EXCEPT !.session = s, !.own = 0]
Seeing(t, card, against) == [t EXCEPT !.card = card, !.against = against]

LEMMA TurnIn ==
    ASSUME NEW t, IsTurn(t), NEW s
    PROVE  /\ IsTurn(In(t, s)) /\ In(t, s).do = t.do /\ In(t, s).live = t.live
           /\ In(t, s).message = t.message /\ In(t, s).session = s
<1> DEFINE u == In(t, s)
<1>1. u = [do |-> t.do, live |-> t.live, message |-> t.message, suppress |-> t.suppress,
           session |-> s, card |-> t.card, against |-> t.against, own |-> t.own]
    BY DEF IsTurn, In
<1> HIDE DEF u
<1>2. IsTurn(u) /\ u.do = t.do /\ u.live = t.live /\ u.message = t.message /\ u.session = s
    BY <1>1 DEF IsTurn
<1>3. QED BY <1>2 DEF u

LEMMA TurnEntered ==
    ASSUME NEW t, IsTurn(t), NEW s
    PROVE  /\ IsTurn(Entered(t, s)) /\ Entered(t, s).do = t.do /\ Entered(t, s).live = t.live
           /\ Entered(t, s).message = t.message /\ Entered(t, s).session = s
<1> DEFINE u == Entered(t, s)
<1>1. u = [do |-> t.do, live |-> t.live, message |-> t.message, suppress |-> t.suppress,
               session |-> s, card |-> t.card, against |-> t.against, own |-> 0]
    <2> DEFINE v == [t EXCEPT !.session = s]
    <2>1. v = [do |-> t.do, live |-> t.live, message |-> t.message, suppress |-> t.suppress,
               session |-> s, card |-> t.card, against |-> t.against, own |-> t.own]
        BY DEF IsTurn
    <2>2. u = [v EXCEPT !.own = 0]
        BY DEF Entered
    <2> HIDE DEF v, u
    <2>3. [v EXCEPT !.own = 0] = [do |-> t.do, live |-> t.live, message |-> t.message, suppress |-> t.suppress,
               session |-> s, card |-> t.card, against |-> t.against, own |-> 0]
        BY <2>1
    <2>4. QED BY <2>2, <2>3
<1> HIDE DEF u
<1>2. IsTurn(u) /\ u.do = t.do /\ u.live = t.live /\ u.message = t.message /\ u.session = s
    BY <1>1 DEF IsTurn
<1>3. QED BY <1>2 DEF u

LEMMA TurnSeeing ==
    ASSUME NEW t, IsTurn(t), NEW card, NEW against
    PROVE  LET u == Seeing(t, card, against) IN
           /\ IsTurn(u) /\ u.do = t.do /\ u.live = t.live /\ u.message = t.message
           /\ u.session = t.session /\ u.against = against
<1> DEFINE u == Seeing(t, card, against)
<1>1. u = [do |-> t.do, live |-> t.live, message |-> t.message, suppress |-> t.suppress,
               session |-> t.session, card |-> card, against |-> against, own |-> t.own]
    <2> DEFINE v == [t EXCEPT !.card = card]
    <2>1. v = [do |-> t.do, live |-> t.live, message |-> t.message, suppress |-> t.suppress,
               session |-> t.session, card |-> card, against |-> t.against, own |-> t.own]
        BY DEF IsTurn
    <2>2. u = [v EXCEPT !.against = against]
        BY DEF Seeing
    <2> HIDE DEF v, u
    <2>3. [v EXCEPT !.against = against] = [do |-> t.do, live |-> t.live, message |-> t.message, suppress |-> t.suppress,
               session |-> t.session, card |-> card, against |-> against, own |-> t.own]
        BY <2>1
    <2>4. QED BY <2>2, <2>3
<1> HIDE DEF u
<1>2. /\ IsTurn(u) /\ u.do = t.do /\ u.live = t.live /\ u.message = t.message
      /\ u.session = t.session /\ u.against = against
    BY <1>1 DEF IsTurn
<1>3. QED BY <1>2 DEF u

LEMMA TurnSound ==
    ASSUME NEW evs, NEW c, CallSound(evs, c), c.do \in TurnStage
    PROVE  /\ IsTurn(c) /\ c.message.growth.impact \in IdentityImpact
           /\ c.do \in SessionCalls => c.session \in 1..Len(evs)
           /\ c.do = "enter_session" => c.own \in 1..Len(evs)
           /\ c.do \in {"detect_conflict", "auto_accept"} => OnOwn(evs, c)
BY DEF CallSound, TurnStage, SessionCalls

\* A stage that follows another in the same session.
LEMMA StageSound ==
    ASSUME NEW evs, NEW u, IsTurn(u), u.message.growth.impact \in IdentityImpact,
           u.do \in {"see_self", "turn_growth", "auto_accept", "record_turn"},
           u.session \in 1..Len(evs), u.do = "auto_accept" => OnOwn(evs, u)
    PROVE  CallSound(evs, u) /\ ~Owing(u)
<1>1. u.do \notin {"append", "create", "propose", "accept_now", "accept", "reject", "review",
                   "derive_claim", "enter_session", "detect_conflict"}
    OBVIOUS
<1>2. ~Owing(u)
    BY <1>1 DEF Owing, Says
<1>3. QED BY <1>1, <1>2 DEF CallSound, TurnStage

LEMMA StageOpen ==
    ASSUME NEW evs, NEW c, c.do \in SessionCalls \ {"close_session"},
           NEW u, u.do \in SessionCalls \ {"close_session"}, u.live = c.live, u.session = c.session
    PROVE  /\ SessionOpen(evs, c) => SessionOpen(evs, u)
           /\ \A s : MayEnd(u, s) => MayEnd(c, s)
<1>1. /\ c.do \notin {"append", "create", "enter_session", "close_session"}
      /\ u.do \notin {"append", "create", "enter_session", "close_session"}
    BY DEF SessionCalls
<1>2. SessionOpen(evs, c) => SessionOpen(evs, u)
    BY <1>1 DEF SessionOpen, Says
<1>3. QED BY <1>1, <1>2 DEF MayEnd, Says

-----------------------------------------------------------------------------
LEMMA StartShellLeads ==
    ASSUME NEW evs, NEW c, CallSound(evs, c), c.do = "start_session",
           NEW s \in 1..Len(evs)
    PROVE  c.live => Leads(evs, c, <<In(Stage(c, "see_self"), s)>>)
<1> DEFINE u == In(Stage(c, "see_self"), s)
<1>1. IsTurn(c) /\ c.message.growth.impact \in IdentityImpact
    BY TurnSound DEF TurnStage
<1>2. IsStage(Stage(c, "see_self"), c, "see_self")
    BY <1>1, NextStage
<1>3. IsTurn(u) /\ u.do = "see_self" /\ u.message = c.message /\ u.session = s /\ u.live = c.live
    BY <1>2, TurnIn DEF IsStage
<1> HIDE DEF u
<1>4. CallSound(evs, u) /\ ~Owing(u)
    BY <1>1, <1>3, StageSound
<1>5. \A y : MayPrecede(c, y) => MayPrecede(u, y)
    BY <1>3, PlainPrecedes DEF Plain, Says
<1>6. Current(evs, u) /\ (\A g : ~Holds(u, g)) /\ (c.live => \A t : ~MayEnd(u, t))
    BY <1>3 DEF Current, Holds, MayEnd, Says
<1>7. c.live => LeadsTo(evs, c, u)
    BY <1>3, <1>4, <1>5, <1>6 DEF LeadsTo, Settled, Says
<1>8. QED BY <1>4, <1>7, OneCall DEF u

LEMMA StartSessionLeads ==
    ASSUME NEW evs, NEW c, CallSound(evs, c), c.do = "start_session"
    PROVE  Leads(evs, c, <<Creating(SessionStarted, Stage(c, "enter_session"))>>)
<1> DEFINE u == Stage(c, "enter_session")
           d == Creating(SessionStarted, u)
<1>1. IsTurn(c) /\ c.message.growth.impact \in IdentityImpact
    BY TurnSound DEF TurnStage
<1>2. IsTurn(u) /\ u.do = "enter_session" /\ u.message = c.message
    BY <1>1, NextStage DEF IsStage
<1>3. d.do = "create" /\ d.then = u /\ d.event = SessionStarted
    BY DEF Creating
<1> HIDE DEF u, d
<1>4. CallSound(evs, d) /\ ~Owing(d)
    BY <1>1, <1>2, <1>3 DEF CallSound, TurnStage, Owing, Says
<1>5. \A y : MayPrecede(c, y) => MayPrecede(d, y)
    BY <1>3, PlainPrecedes DEF Plain, Says
<1>6. Current(evs, d) /\ (\A g : ~Holds(d, g)) /\ (\A t : ~MayEnd(d, t)) /\ SessionOpen(evs, d)
    BY <1>2, <1>3 DEF Current, Holds, MayEnd, SessionOpen, SessionCalls, Says
<1>7. LeadsTo(evs, c, d)
    BY <1>3, <1>4, <1>5, <1>6 DEF LeadsTo, Settled, Says
<1>8. QED BY <1>4, <1>7, OneCall DEF d, u

LEMMA EnterSessionLeads ==
    ASSUME NEW evs, NEW c, CallSound(evs, c), c.do = "enter_session"
    PROVE  Leads(evs, c, <<Entered(Stage(c, "see_self"), c.own)>>)
<1> DEFINE u == Entered(Stage(c, "see_self"), c.own)
<1>1. IsTurn(c) /\ c.message.growth.impact \in IdentityImpact /\ c.own \in 1..Len(evs)
    BY TurnSound DEF TurnStage
<1>2. IsStage(Stage(c, "see_self"), c, "see_self")
    BY <1>1, NextStage
<1>3. IsTurn(u) /\ u.do = "see_self" /\ u.message = c.message /\ u.session = c.own /\ u.live = c.live
    BY <1>2, TurnEntered DEF IsStage
<1> HIDE DEF u
<1>4. CallSound(evs, u) /\ ~Owing(u)
    BY <1>1, <1>3, StageSound
<1>5. \A y : MayPrecede(c, y) => MayPrecede(u, y)
    BY <1>3, PlainPrecedes DEF Plain, Says
<1>6. Current(evs, u) /\ (\A g : ~Holds(u, g))
    BY <1>3 DEF Current, Holds, Says
<1>7. (\A t : MayEnd(u, t) => MayEnd(c, t)) /\ (SessionOpen(evs, c) => SessionOpen(evs, u))
    BY <1>3 DEF MayEnd, SessionOpen, SessionCalls, Says
<1>8. LeadsTo(evs, c, u)
    BY <1>3, <1>4, <1>5, <1>6, <1>7 DEF LeadsTo, Settled, Says
<1>9. QED BY <1>4, <1>8, OneCall DEF u

LEMMA SeeSelfLeads ==
    ASSUME NEW evs, NEW c, CallSound(evs, c), c.do = "see_self", NEW card, NEW against,
           against = detect_growth_conflict(c.message.contrary, StandingCommitments(evs))
    PROVE  Leads(evs, c, <<Appending(TurnInput),
                           Seeing(Stage(c, "turn_growth"), card, against)>>)
<1> DEFINE d == Appending(TurnInput)
           u == Seeing(Stage(c, "turn_growth"), card, against)
<1>1. IsTurn(c) /\ c.message.growth.impact \in IdentityImpact /\ c.session \in 1..Len(evs)
    BY TurnSound DEF TurnStage, SessionCalls
<1>2. IsStage(Stage(c, "turn_growth"), c, "turn_growth")
    BY <1>1, NextStage
<1>3. /\ IsTurn(u) /\ u.do = "turn_growth" /\ u.message = c.message /\ u.session = c.session
      /\ u.live = c.live /\ u.against = against
    BY <1>2, TurnSeeing DEF IsStage
<1>4. d.do = "append" /\ d.event.type = "lucien.input"
    BY DEF Appending, TurnInput
<1> HIDE DEF u, d
<1>5. CallSound(evs, u) /\ ~Owing(u)
    BY <1>1, <1>3, StageSound
<1>6. CallSound(evs, d) /\ ~Owing(d)
    BY <1>4 DEF CallSound, Sensible, TaskClosing, TurnStage, Owing, Says
<1>7. \A y : MayPrecede(c, y) => MayPrecede(u, y)
    BY <1>3, PlainPrecedes DEF Plain, Says
<1>8. LeadsTo(evs, c, d)
    BY <1>4, <1>6, PlainLeads DEF Plain, Neutral, Says
<1>9. Current(evs, u) /\ (\A g : ~Holds(u, g))
    BY <1>3 DEF Current, Against, Holds, Says
<1>10. (\A t : MayEnd(u, t) => MayEnd(c, t)) /\ (SessionOpen(evs, c) => SessionOpen(evs, u))
    BY <1>3, StageOpen DEF SessionCalls
<1>11. LeadsTo(evs, c, u)
    BY <1>3, <1>5, <1>7, <1>9, <1>10 DEF LeadsTo, Settled, Says
<1>12. MayPrecede(d, u)
    BY <1>3, <1>4 DEF MayPrecede, Says, Leading, Tasking
<1>13. QED BY <1>5, <1>6, <1>8, <1>11, <1>12, TwoCalls DEF d, u

\* What ends a turn may follow what is said, and what is accepted.
LEMMA ClosingLeads ==
    ASSUME NEW evs, NEW c, CallSound(evs, c), c.do \in {"turn_growth", "auto_accept"}
    PROVE  /\ Leads(evs, c, Closing(c))
           /\ \A x : (x.do = "append" /\ x.event.type = "runtime.output_gate") \/ x.do = "accept" =>
                 \A y \in Listed(Closing(c)) : MayPrecede(x, y)
<1> DEFINE cond == c.message.signal # "none" /\ c.card # 0
           d == Appending(MemorySignalRecorded(c.card, c.message.signal))
           u == Stage(c, "record_turn")
           signalled == If(cond, d)
           ended == <<u>>
<1>1. IsTurn(c) /\ c.message.growth.impact \in IdentityImpact /\ c.session \in 1..Len(evs)
    BY TurnSound DEF TurnStage, SessionCalls
<1>2. /\ IsTurn(u) /\ u.do = "record_turn" /\ u.message = c.message /\ u.session = c.session
      /\ u.live = c.live
    BY <1>1, NextStage DEF IsStage
<1>3. d.do = "append" /\ d.event.type = "lucien.memory_signal_recorded"
    BY DEF Appending, MemorySignalRecorded
<1>4. Closing(c) = signalled \o ended
    BY DEF Closing, If, record_memory_signal
<1> HIDE DEF u, d, cond
<1>5. CallSound(evs, u) /\ ~Owing(u)
    BY <1>1, <1>2, StageSound
<1>6. CallSound(evs, d) /\ ~Owing(d)
    BY <1>3 DEF CallSound, Sensible, TaskClosing, TurnStage, Owing, Says
<1>7. \A y : MayPrecede(c, y) => MayPrecede(u, y)
    BY <1>2, PlainPrecedes DEF Plain, Says
<1>8. LeadsTo(evs, c, d)
    BY <1>3, <1>6, PlainLeads DEF Plain, Neutral, Says
<1>9. Current(evs, u) /\ (\A g : ~Holds(u, g))
    BY <1>2 DEF Current, Holds, Says
<1>10. (\A t : MayEnd(u, t) => MayEnd(c, t)) /\ (SessionOpen(evs, c) => SessionOpen(evs, u))
    BY <1>2, StageOpen DEF SessionCalls
<1>11. LeadsTo(evs, c, u)
    BY <1>2, <1>5, <1>7, <1>9, <1>10 DEF LeadsTo, Settled, Says
<1>12. Leads(evs, c, signalled) /\ Listed(signalled) \subseteq {d}
    BY <1>6, <1>8, LedIf, ListedIf
<1>13. 1..Len(ended) = {1} /\ ended[1] = u
    BY OneElement
<1>14. Leads(evs, c, ended) /\ Listed(ended) = {u}
    BY <1>5, <1>11, <1>13, OneCall DEF Listed
<1> HIDE DEF signalled, ended
<1>15. \A x \in Listed(signalled), y \in Listed(ended) : MayPrecede(x, y)
    <2>1. MayPrecede(d, u)
        BY <1>2, <1>3 DEF MayPrecede, Says, Leading, Tasking
    <2>2. QED BY <1>12, <1>14, <2>1
<1>16. Leads(evs, c, Closing(c)) /\ Listed(Closing(c)) \subseteq {d, u}
    <2>1. Leads(evs, c, signalled) /\ Leads(evs, c, ended)
        BY <1>12, <1>14
    <2>2. Leads(evs, c, signalled \o ended)
        BY <1>15, <2>1, JoinedLists
    <2>3. Listed(signalled \o ended) = Listed(signalled) \cup Listed(ended)
        BY <2>1, JoinedList DEF Leads, Ordered
    <2>4. QED BY <1>4, <1>12, <1>14, <2>2, <2>3
<1>17. ASSUME NEW x, (x.do = "append" /\ x.event.type = "runtime.output_gate") \/ x.do = "accept"
       PROVE  MayPrecede(x, d) /\ MayPrecede(x, u)
    BY <1>2, <1>3, <1>17 DEF MayPrecede, Says, Leading, Tasking, TaskClosing
<1>18. QED BY <1>16, <1>17

LEMMA TurnOutputLeads ==
    ASSUME NEW evs, NEW c, Plain(c)
    PROVE  /\ Leads(evs, c, <<Appending(TurnOutput)>>)
           /\ Listed(<<Appending(TurnOutput)>>) = {Appending(TurnOutput)}
           /\ Appending(TurnOutput).do = "append"
           /\ Appending(TurnOutput).event.type = "runtime.output_gate"
<1> DEFINE d == Appending(TurnOutput)
           one == <<d>>
<1>1. d.do = "append" /\ d.event.type = "runtime.output_gate"
    BY DEF Appending, TurnOutput
<1> HIDE DEF d
<1>2. CallSound(evs, d) /\ ~Owing(d)
    BY <1>1 DEF CallSound, Sensible, TaskClosing, TurnStage, Owing, Says
<1>3. LeadsTo(evs, c, d)
    BY <1>1, <1>2, PlainLeads DEF Neutral, Says
<1>4. 1..Len(one) = {1} /\ one[1] = d
    BY OneElement
<1>5. Leads(evs, c, one) /\ Listed(one) = {d}
    BY <1>2, <1>3, <1>4, OneCall DEF Listed
<1>6. QED BY <1>1, <1>5 DEF d

LEMMA NoGrowthLeads ==
    ASSUME NEW evs, NEW c, CallSound(evs, c), c.do = "turn_growth"
    PROVE  Leads(evs, c, <<Appending(TurnOutput)>> \o Closing(c))
<1> DEFINE said == <<Appending(TurnOutput)>>
<1>1. /\ Leads(evs, c, said) /\ Listed(said) = {Appending(TurnOutput)}
      /\ Appending(TurnOutput).do = "append"
      /\ Appending(TurnOutput).event.type = "runtime.output_gate"
    BY TurnOutputLeads DEF Plain
<1> HIDE DEF said
<1>2. Leads(evs, c, said \o Closing(c))
    BY <1>1, ClosingLeads, JoinedLists
<1>3. QED BY <1>2 DEF said

LEMMA TurnGrowthLeads ==
    ASSUME NEW evs, NEW c, CallSound(evs, c), c.do = "turn_growth"
    PROVE  Leads(evs, c,
              <<Creating(GrowthProposed(c.message.growth.kind, c.message.growth.impact, FALSE,
                                        c.message.contrary),
                         Stage(c, "detect_conflict"))>>)
<1> DEFINE u == Stage(c, "detect_conflict")
           e == GrowthProposed(c.message.growth.kind, c.message.growth.impact, FALSE,
                               c.message.contrary)
           d == Creating(e, u)
<1>1. IsTurn(c) /\ c.message.growth.impact \in IdentityImpact /\ c.session \in 1..Len(evs)
    BY TurnSound DEF TurnStage, SessionCalls
<1>2. IsStage(u, c, "detect_conflict")
    BY <1>1, NextStage
<1>3. d.do = "create" /\ d.then = u /\ d.event = e
    BY DEF Creating
<1>4. e = GrowthProposed(u.message.growth.kind, u.message.growth.impact, FALSE, u.message.contrary)
    BY <1>2 DEF IsStage
<1> HIDE DEF u, d, e
<1>5. CallSound(evs, d) /\ ~Owing(d)
    BY <1>1, <1>2, <1>3, <1>4 DEF CallSound, TurnStage, Owing, Says, IsStage
<1>6. \A y : MayPrecede(c, y) => MayPrecede(d, y)
    BY <1>3, PlainPrecedes DEF Plain, Says
<1>7. (Current(evs, c) => Current(evs, d)) /\ (\A g : ~Holds(d, g))
    BY <1>2, <1>3 DEF Current, Against, Holds, Says, IsStage
<1>8. (\A t : MayEnd(d, t) => MayEnd(c, t)) /\ (SessionOpen(evs, c) => SessionOpen(evs, d))
    BY <1>2, <1>3 DEF MayEnd, SessionOpen, SessionCalls, Says, IsStage
<1>9. LeadsTo(evs, c, d)
    BY <1>3, <1>5, <1>6, <1>7, <1>8 DEF LeadsTo, Settled, Says
<1>10. QED BY <1>5, <1>9, OneCall DEF d, e, u

LEMMA DetectLeads ==
    ASSUME NEW evs, NEW c, CallSound(evs, c), c.do = "detect_conflict"
    PROVE  Leads(evs, c,
              <<Appending(TurnOutput)>>
              \o If(c.against # {}, Appending(ConflictDetected(c.own, c.against)))
              \o <<Stage(c, "auto_accept")>>)
<1> DEFINE o == Appending(TurnOutput)
           d == Appending(ConflictDetected(c.own, c.against))
           u == Stage(c, "auto_accept")
           said == <<o>>
           noted == If(c.against # {}, d)
           last == <<u>>
<1>1. /\ IsTurn(c) /\ c.message.growth.impact \in IdentityImpact /\ c.session \in 1..Len(evs)
      /\ OnOwn(evs, c)
    BY TurnSound DEF TurnStage, SessionCalls
<1>2. IsStage(u, c, "auto_accept")
    BY <1>1, NextStage
<1>3. /\ d.do = "append" /\ d.event.type = "lucien.growth_conflict_detected"
      /\ d.event.growth = c.own
    BY DEF Appending, ConflictDetected
<1>4. Leads(evs, c, said) /\ Listed(said) = {o} /\ o.do = "append" /\ o.event.type = "runtime.output_gate"
    BY TurnOutputLeads DEF Plain
<1> HIDE DEF o, d, u
<1>5. OnOwn(evs, u)
    BY <1>1, <1>2 DEF OnOwn, IsStage
<1>6. CallSound(evs, u) /\ ~Owing(u)
    BY <1>1, <1>2, <1>5, StageSound DEF IsStage
<1>7. CallSound(evs, d) /\ ~Owing(d)
    BY <1>1, <1>3 DEF CallSound, Sensible, TaskClosing, TurnStage, Owing, Says, OnOwn
<1>8. \A y : MayPrecede(c, y) => MayPrecede(u, y) /\ MayPrecede(d, y)
    BY <1>2, <1>3, PlainPrecedes DEF Plain, Says, IsStage
<1>9. /\ Current(evs, d) /\ (Current(evs, c) => Current(evs, u))
      /\ \A g : (Holds(d, g) => g = c.own) /\ (Holds(u, g) => g = c.own) /\ Holds(c, c.own)
    BY <1>2, <1>3 DEF Current, Against, Holds, Says, IsStage
<1>10. Settled(evs, c) => ~AutoUpdated(evs, c.own) /\ ~InConflict(evs, c.own)
    BY <1>9 DEF Settled, BeforeUpdate, WithoutConflict
<1>11. Settled(evs, c) => Settled(evs, d) /\ Settled(evs, u)
    BY <1>9, <1>10 DEF Settled
<1>12. (\A t : MayEnd(u, t) => MayEnd(c, t)) /\ (SessionOpen(evs, c) => SessionOpen(evs, u))
    BY <1>2, StageOpen DEF SessionCalls, IsStage
<1>13. (\A t : ~MayEnd(d, t)) /\ SessionOpen(evs, d)
    BY <1>3 DEF MayEnd, SessionOpen, SessionCalls, Says
<1>14. LeadsTo(evs, c, d)
    BY <1>3, <1>7, <1>8, <1>9, <1>11, <1>13 DEF LeadsTo, Says
<1>15. LeadsTo(evs, c, u)
    BY <1>2, <1>6, <1>8, <1>9, <1>11, <1>12 DEF LeadsTo, Says, IsStage
<1>16. Leads(evs, c, noted) /\ Listed(noted) = {x \in {d} : c.against # {}}
    BY <1>7, <1>14, LedIf, ListedIf
<1>17. 1..Len(last) = {1} /\ last[1] = u
    BY OneElement
<1>18. Leads(evs, c, last) /\ Listed(last) = {u}
    BY <1>6, <1>15, <1>17, OneCall DEF Listed
<1>19. MayPrecede(o, d) /\ MayPrecede(o, u)
    BY <1>2, <1>3, <1>4 DEF MayPrecede, Says, Leading, Tasking, TaskClosing, IsStage
<1>20. c.against # {} => MayPrecede(d, u)
    BY <1>2, <1>3 DEF MayPrecede, Says, Leading, Tasking, IsStage
<1> HIDE DEF said, noted, last
<1>21. Leads(evs, c, said \o noted) /\ Listed(said \o noted) = Listed(said) \cup Listed(noted)
    <2>1. \A x \in Listed(said), y \in Listed(noted) : MayPrecede(x, y)
        BY <1>4, <1>16, <1>19
    <2>2. Leads(evs, c, said) /\ Leads(evs, c, noted)
        BY <1>4, <1>16
    <2>3. Leads(evs, c, said \o noted)
        BY <2>1, <2>2, JoinedLists
    <2>4. Listed(said \o noted) = Listed(said) \cup Listed(noted)
        BY <2>2, JoinedList DEF Leads, Ordered
    <2>5. QED BY <2>3, <2>4
<1>22. Leads(evs, c, (said \o noted) \o last)
    <2>1. \A x \in Listed(said \o noted), y \in Listed(last) : MayPrecede(x, y)
        BY <1>4, <1>16, <1>18, <1>19, <1>20, <1>21
    <2>2. QED BY <1>18, <1>21, <2>1, JoinedLists
<1>23. QED BY <1>22 DEF said, noted, last, o, d, u

LEMMA AutoAcceptLeads ==
    ASSUME NEW evs, LogSound(evs), NEW c, CallSound(evs, c), c.do = "auto_accept", NEW cond,
           cond => c.message.growth.impact = "low" /\ c.against = {}
    PROVE  Leads(evs, c, If(cond, Accept(c.own, CurrentClaim(evs), TRUE)) \o Closing(c))
<1> DEFINE d == Accept(c.own, CurrentClaim(evs), TRUE)
           accepted == If(cond, d)
<1>1. d.do = "accept" /\ d.growth = c.own /\ d.claim = CurrentClaim(evs) /\ d.auto = TRUE
    BY DEF Accept
<1>2. Proposed(evs, c.own, Len(evs)) /\ OnOwn(evs, c)
    BY TurnSound DEF TurnStage, OnOwn
<1> HIDE DEF d
<1>3. ASSUME cond PROVE LeadsTo(evs, c, d) /\ ~Owing(d)
    <2>1. evs[c.own].impact = "low" /\ c.against = {}
        BY <1>2, <1>3 DEF OnOwn
    <2>2. CallSound(evs, d)
        BY <1>1, <1>2, <2>1, ClaimWasMoved DEF CallSound, TurnStage
    <2>3. \A y : MayPrecede(c, y) => MayPrecede(d, y)
        BY <1>1, PlainPrecedes DEF Plain, Says
    <2>4. Current(evs, c) /\ evs[c.own].contrary => StandingCommitments(evs) = {}
        BY <1>2, <2>1 DEF Current, Against, OnOwn, detect_growth_conflict
    <2>5. Current(evs, c) => Current(evs, d)
        BY <1>1, <2>4 DEF Current, Accepts, Says
    <2>6. Holds(c, c.own) /\ \A g : Holds(d, g) => g = c.own
        BY <1>1 DEF Holds, Says
    <2>7. Settled(evs, c) => Settled(evs, d)
        BY <1>1, <2>1, <2>6 DEF Settled, BeforeUpdate, WithoutConflict, Says
    <2>8. (\A t : ~MayEnd(d, t)) /\ SessionOpen(evs, d) /\ ~Owing(d)
        BY <1>1 DEF MayEnd, SessionOpen, SessionCalls, Says, Owing
    <2>9. \A g : Holds(d, g) => Holds(c, g)
        BY <2>6
    <2>10. QED BY <1>1, <2>2, <2>3, <2>5, <2>7, <2>8, <2>9 DEF LeadsTo, Says
<1>4. Leads(evs, c, accepted) /\ Listed(accepted) \subseteq {d}
    BY <1>3, LedIf, ListedIf
<1>5. \A x \in Listed(accepted), y \in Listed(Closing(c)) : MayPrecede(x, y)
    BY <1>1, <1>4, ClosingLeads
<1>6. Leads(evs, c, Closing(c))
    BY ClosingLeads
<1> HIDE DEF accepted
<1>7. Leads(evs, c, accepted \o Closing(c))
    BY <1>4, <1>5, <1>6, JoinedLists
<1>8. QED BY <1>7 DEF accepted, d

LEMMA RecordTurnLeads ==
    ASSUME NEW evs, NEW c, CallSound(evs, c), c.do = "record_turn", NEW reflects, NEW closes,
           closes => ~c.live
    PROVE  Leads(evs, c,
              <<Appending(TurnRecorded(c.session, Cardinality(TurnsOf(evs, c.session)) + 1))>>
              \o If(reflects, Reflect)
              \o If(closes, CloseSession(c.session)))
<1> DEFINE d == Appending(TurnRecorded(c.session, Cardinality(TurnsOf(evs, c.session)) + 1))
           r == Reflect
           e == CloseSession(c.session)
           recorded == <<d>>
           reflected == If(reflects, r)
           closed == If(closes, e)
<1>1. /\ d.do = "append" /\ d.event.type = "lucien.chat_turn_recorded"
      /\ d.event.session = c.session
      /\ d.event.index = Cardinality(TurnsOf(evs, c.session)) + 1
    BY DEF Appending, TurnRecorded
<1>2. r.do = "reflect"
    BY DEF Reflect
<1>3. e.do = "close_session" /\ e.session = c.session
    BY DEF CloseSession
<1>4. c.session \in 1..Len(evs)
    BY TurnSound DEF TurnStage, SessionCalls
<1> HIDE DEF d, r, e
<1>5. CallSound(evs, d) /\ CallSound(evs, r) /\ CallSound(evs, e)
    BY <1>1, <1>2, <1>3, <1>4 DEF CallSound, Sensible, TaskClosing, TurnStage
<1>6. ~Owing(d) /\ ~Owing(r) /\ ~Owing(e)
    BY <1>1, <1>2, <1>3 DEF Owing, Says
<1>7. \A y : MayPrecede(c, y) => MayPrecede(d, y) /\ MayPrecede(r, y) /\ MayPrecede(e, y)
    BY <1>1, <1>2, <1>3, PlainPrecedes DEF Plain, Says
<1>8. /\ Current(evs, d) /\ (\A g : ~Holds(d, g)) /\ (\A s : ~MayEnd(d, s))
      /\ SessionOpen(evs, c) => SessionOpen(evs, d)
    BY <1>1 DEF Current, Holds, MayEnd, SessionOpen, SessionCalls, Says
<1>9. LeadsTo(evs, c, d)
    BY <1>1, <1>5, <1>7, <1>8 DEF LeadsTo, Settled, Says
<1>10. LeadsTo(evs, c, r)
    BY <1>2, <1>5, PlainLeads DEF Plain, Neutral, Says
<1>11. ASSUME closes PROVE LeadsTo(evs, c, e)
    <2>1. Current(evs, e) /\ (\A g : ~Holds(e, g)) /\ (SessionOpen(evs, c) => SessionOpen(evs, e))
        BY <1>3 DEF Current, Holds, SessionOpen, SessionCalls, Says
    <2>2. \A s : MayEnd(e, s) => MayEnd(c, s)
        BY <1>3, <1>11 DEF MayEnd, SessionCalls, Says
    <2>3. QED BY <1>3, <1>5, <1>7, <2>1, <2>2 DEF LeadsTo, Settled, Says
<1>12. 1..Len(recorded) = {1} /\ recorded[1] = d
    BY OneElement
<1>13. Leads(evs, c, recorded) /\ Listed(recorded) = {d}
    BY <1>6, <1>9, <1>12, OneCall DEF Listed
<1>14. Leads(evs, c, reflected) /\ Listed(reflected) \subseteq {r}
    BY <1>6, <1>10, LedIf, ListedIf
<1>15. Leads(evs, c, closed) /\ Listed(closed) \subseteq {e}
    BY <1>6, <1>11, LedIf, ListedIf
<1>16. MayPrecede(d, r) /\ MayPrecede(d, e) /\ MayPrecede(r, e)
    BY <1>1, <1>2, <1>3 DEF MayPrecede, Says, Leading, Tasking, Reflecting
<1> HIDE DEF recorded, reflected, closed
<1>17. Leads(evs, c, recorded \o reflected) /\ Listed(recorded \o reflected) \subseteq {d, r}
    <2>1. \A x \in Listed(recorded), y \in Listed(reflected) : MayPrecede(x, y)
        BY <1>13, <1>14, <1>16
    <2>2. Leads(evs, c, recorded \o reflected)
        BY <1>13, <1>14, <2>1, JoinedLists
    <2>3. Listed(recorded \o reflected) = Listed(recorded) \cup Listed(reflected)
        BY <1>13, <1>14, JoinedList DEF Leads, Ordered
    <2>4. QED BY <1>13, <1>14, <2>2, <2>3
<1>18. Leads(evs, c, (recorded \o reflected) \o closed)
    <2>1. \A x \in Listed(recorded \o reflected), y \in Listed(closed) : MayPrecede(x, y)
        BY <1>15, <1>16, <1>17
    <2>2. QED BY <1>15, <1>17, <2>1, JoinedLists
<1>19. QED BY <1>18 DEF recorded, reflected, closed, d, r, e

LEMMA CloseSessionLeads ==
    ASSUME NEW evs, NEW c, CallSound(evs, c), c.do = "close_session"
    PROVE  Leads(evs, c, <<Appending(SessionClosed(c.session, Cardinality(TurnsOf(evs, c.session))))>>)
<1> DEFINE d == Appending(SessionClosed(c.session, Cardinality(TurnsOf(evs, c.session))))
<1>1. /\ d.do = "append" /\ d.event.type = "lucien.chat_session_closed"
      /\ d.event.session = c.session /\ d.event.turns = Cardinality(TurnsOf(evs, c.session))
    BY DEF Appending, SessionClosed
<1> HIDE DEF d
<1>2. c.session \in 1..Len(evs)
    BY DEF CallSound
<1>3. CallSound(evs, d) /\ ~Owing(d)
    BY <1>1, <1>2 DEF CallSound, Sensible, TaskClosing, TurnStage, Owing, Says
<1>4. \A y : MayPrecede(c, y) => MayPrecede(d, y)
    BY <1>1 DEF MayPrecede, Says, Tasking, Changes, ClosesSession, Reflecting, Closes, TaskClosing
<1>5. Current(evs, d) /\ (\A g : ~Holds(d, g)) /\ (\A s : MayEnd(d, s) => MayEnd(c, s))
    BY <1>1 DEF Current, Holds, MayEnd, SessionCalls, Says
<1>6. SessionOpen(evs, c) => SessionOpen(evs, d)
    BY <1>1 DEF SessionOpen, SessionCalls, Says
<1>7. LeadsTo(evs, c, d)
    BY <1>1, <1>3, <1>4, <1>5, <1>6 DEF LeadsTo, Settled, Says
<1>8. QED BY <1>3, <1>7, OneCall DEF d

-----------------------------------------------------------------------------
(* What each command begins with.                                          *)

\* The sessions that a command of process p is about.
BegunIn(evs, s, p, calls) == \A k \in 1..Len(calls) :
    /\ calls[k].do = "forget_session" => p \in Threads
    /\ calls[k].do = "close_task" => Len(calls) = 1
    /\ SessionOpen(evs, calls[k]) \/ calls[k] = CloseSession(s)
    /\ \A r : MayEnd(calls[k], r) =>
          r = s /\ \E m \in 1..Len(calls) : k < m /\ calls[m].do = "forget_session"

Begins(evs, s, p, calls) == Leads(evs, Begun, calls) /\ BegunIn(evs, s, p, calls)

LEMMA NeutralBegins ==
    ASSUME NEW evs, NEW s, NEW p, NEW calls, Leads(evs, Begun, calls),
           \A k \in 1..Len(calls) : Neutral(calls[k])
    PROVE  Begins(evs, s, p, calls)
<1>1. \A k \in 1..Len(calls) : calls[k].do \notin {"forget_session", "close_task"}
    BY DEF Neutral
<1>2. QED BY <1>1, NeutralCall DEF Begins, BegunIn

LEMMA OneBegins ==
    ASSUME NEW evs, NEW d, CallSound(evs, d), Neutral(d), ~Owing(d), NEW s, NEW p
    PROVE  Begins(evs, s, p, <<d>>)
<1> DEFINE calls == <<d>>
<1>1. Leads(evs, Begun, calls)
    BY BegunLeads, OneCall
<1>2. 1..Len(calls) = {1} /\ calls[1] = d
    BY OneElement
<1> HIDE DEF calls
<1>3. Begins(evs, s, p, calls)
    BY <1>1, <1>2, NeutralBegins
<1>4. QED BY <1>3 DEF calls

LEMMA SimpleBegins ==
    ASSUME NEW evs, IsSequence(evs), NEW s, NEW p
    PROVE  /\ \A c : Begins(evs, s, p, <<Appending(ContinuityMoved(c))>>)
           /\ \A g \in Proposals : Begins(evs, s, p, <<Propose(g)>>)
           /\ \A g \in Growths(evs) :
                 /\ Begins(evs, s, p, <<AcceptNow(g)>>) /\ Begins(evs, s, p, <<Reject(g)>>)
                 /\ \A decision \in GrowthReviewDecision : \A live :
                       Begins(evs, s, p, <<Review(g, decision, live)>>)
                 /\ Begins(evs, s, p, <<Appending(MemoryEvidenceRequested(g))>>)
           /\ \A c, decision : Begins(evs, s, p, <<Resolve(c, decision)>>)
           /\ Begins(evs, s, p, <<Reflect>>)
<1>1. ASSUME NEW c PROVE Begins(evs, s, p, <<Appending(ContinuityMoved(c))>>)
    <2> DEFINE d == Appending(ContinuityMoved(c))
    <2>1. d.do = "append" /\ d.event.type = "continuity" /\ d.event = ContinuityMoved(d.event.claim)
        BY DEF Appending, ContinuityMoved
    <2> HIDE DEF d
    <2>2. CallSound(evs, d) /\ Neutral(d) /\ ~Owing(d)
        BY <2>1 DEF CallSound, Sensible, TaskClosing, TurnStage, Neutral, Owing, Says
    <2>3. QED BY <2>2, OneBegins DEF d
<1>2. ASSUME NEW g \in Proposals PROVE Begins(evs, s, p, <<Propose(g)>>)
    <2> DEFINE d == Propose(g)
    <2>1. d.do = "propose" /\ d.growth.impact \in IdentityImpact
        BY GrowthAssumption DEF Propose
    <2> HIDE DEF d
    <2>2. CallSound(evs, d) /\ Neutral(d) /\ ~Owing(d)
        BY <2>1 DEF CallSound, TurnStage, Neutral, Owing, Says
    <2>3. QED BY <2>2, OneBegins DEF d
<1>3. ASSUME NEW g \in Growths(evs), NEW d,
             \/ d.do \in {"accept_now", "reject"}
             \/ d.do = "review" /\ d.decision \in GrowthReviewDecision,
             d.growth = g
      PROVE  Begins(evs, s, p, <<d>>)
    <2>1. Proposed(evs, d.growth, Len(evs))
        BY <1>3, LogPositions DEF Growths, Proposed
    <2>2. CallSound(evs, d) /\ Neutral(d) /\ ~Owing(d)
        BY <1>3, <2>1 DEF CallSound, TurnStage, Neutral, Owing, Says
    <2>3. QED BY <2>2, OneBegins
<1>4. \A g : /\ AcceptNow(g).do = "accept_now" /\ AcceptNow(g).growth = g
             /\ Reject(g).do = "reject" /\ Reject(g).growth = g
             /\ \A decision, live : LET d == Review(g, decision, live) IN
                   d.do = "review" /\ d.growth = g /\ d.decision = decision
    BY DEF AcceptNow, Reject, Review
<1>5. ASSUME NEW g PROVE Begins(evs, s, p, <<Appending(MemoryEvidenceRequested(g))>>)
    <2> DEFINE d == Appending(MemoryEvidenceRequested(g))
    <2>1. d.do = "append" /\ d.event.type = "lucien.memory_evidence_requested"
        BY DEF Appending, MemoryEvidenceRequested
    <2> HIDE DEF d
    <2>2. CallSound(evs, d) /\ Neutral(d) /\ ~Owing(d)
        BY <2>1 DEF CallSound, Sensible, TaskClosing, TurnStage, Neutral, Owing, Says
    <2>3. QED BY <2>2, OneBegins DEF d
<1>6. ASSUME NEW d, d.do \in {"resolve_conflict", "reflect"} PROVE Begins(evs, s, p, <<d>>)
    <2>1. CallSound(evs, d) /\ Neutral(d) /\ ~Owing(d)
        BY <1>6 DEF CallSound, TurnStage, Neutral, Owing, Says
    <2>2. QED BY <2>1, OneBegins
<1>7. Reflect.do = "reflect" /\ \A c, decision : Resolve(c, decision).do = "resolve_conflict"
    BY DEF Reflect, Resolve
<1>8. \A g \in Growths(evs) :
          /\ Begins(evs, s, p, <<AcceptNow(g)>>) /\ Begins(evs, s, p, <<Reject(g)>>)
          /\ \A decision \in GrowthReviewDecision : \A live :
                Begins(evs, s, p, <<Review(g, decision, live)>>)
    BY <1>3, <1>4
<1>9. /\ \A c, decision : Begins(evs, s, p, <<Resolve(c, decision)>>)
      /\ Begins(evs, s, p, <<Reflect>>)
    BY <1>6, <1>7
<1>10. QED BY <1>1, <1>2, <1>5, <1>8, <1>9

LEMMA SignalBegins ==
    ASSUME NEW evs, NEW s, NEW p, NEW g, NEW signal, NEW reflects
    PROVE  Begins(evs, s, p, record_memory_signal(g, signal) \o If(reflects, Reflect))
<1> DEFINE d == Appending(MemorySignalRecorded(g, signal))
           r == Reflect
           one == <<d>>
           two == If(reflects, r)
<1>1. d.do = "append" /\ d.event.type = "lucien.memory_signal_recorded" /\ r.do = "reflect"
    BY DEF Appending, MemorySignalRecorded, Reflect
<1> HIDE DEF d, r
<1>2. CallSound(evs, d) /\ Neutral(d) /\ ~Owing(d)
    BY <1>1 DEF CallSound, Sensible, TaskClosing, TurnStage, Neutral, Owing, Says
<1>3. CallSound(evs, r) /\ Neutral(r) /\ ~Owing(r)
    BY <1>1 DEF CallSound, TurnStage, Neutral, Owing, Says
<1>4. Leads(evs, Begun, one) /\ Leads(evs, Begun, two)
    BY <1>2, <1>3, BegunLeads, OneCall, LedIf
<1>5. IsSequence(one) /\ 1..Len(one) = {1} /\ one[1] = d
    BY OneElement
<1>6. IsSequence(two) /\ Listed(one) = {d} /\ Listed(two) \subseteq {r}
    BY <1>5, ListedIf DEF Listed
<1>7. MayPrecede(d, r)
    BY <1>1 DEF MayPrecede, Says, Leading, Tasking
<1> HIDE DEF one, two
<1>8. Leads(evs, Begun, one \o two)
    <2>1. \A x \in Listed(one), y \in Listed(two) : MayPrecede(x, y)
        BY <1>6, <1>7
    <2>2. QED BY <1>4, <2>1, JoinedLists
<1>9. Listed(one \o two) \subseteq {d, r}
    BY <1>5, <1>6, JoinedList
<1>10. \A k \in 1..Len(one \o two) : Neutral((one \o two)[k])
    BY <1>2, <1>3, <1>9 DEF Listed
<1>11. Begins(evs, s, p, one \o two)
    BY <1>8, <1>10, NeutralBegins
<1>12. QED BY <1>11 DEF one, two, d, r, record_memory_signal

LEMMA UpdateTaskBegins ==
    ASSUME NEW evs, NEW s, NEW p, NEW t, NEW how \in TaskClosing
    PROVE  Begins(evs, s, p, <<CloseTask(t, how)>>)
<1> DEFINE d == CloseTask(t, how)
           calls == <<d>>
<1>1. d.do = "close_task" /\ d.how \in TaskClosing
    BY DEF CloseTask
<1> HIDE DEF d
<1>2. CallSound(evs, d) /\ Current(evs, d) /\ (\A g : ~Holds(d, g)) /\ ~Owing(d)
    BY <1>1 DEF CallSound, TurnStage, Current, Holds, Owing, Says
<1>3. (\A r : ~MayEnd(d, r)) /\ SessionOpen(evs, d)
    BY <1>1 DEF MayEnd, SessionOpen, SessionCalls, Says
<1>4. Begun.do = "begin" /\ \A y : ~MayPrecede(Begun, y)
    BY DEF Begun, MayPrecede
<1>5. LeadsTo(evs, Begun, d)
    BY <1>1, <1>2, <1>3, <1>4 DEF LeadsTo, Settled, Says
<1>6. Leads(evs, Begun, calls)
    BY <1>2, <1>5, OneCall
<1>7. Len(calls) = 1 /\ 1..Len(calls) = {1} /\ calls[1] = d
    BY OneElement
<1> HIDE DEF calls
<1>8. Begins(evs, s, p, calls)
    BY <1>1, <1>3, <1>6, <1>7 DEF Begins, BegunIn
<1>9. QED BY <1>8 DEF calls, d

LEMMA TurnBegins ==
    ASSUME NEW evs, NEW live, NEW suppress, NEW message, message.growth.impact \in IdentityImpact
    PROVE  LET d == Turn(live, message, suppress) IN
           /\ d.do = "start_session" /\ d.live = live
           /\ CallSound(evs, d) /\ Neutral(d) /\ ~Owing(d)
<1> DEFINE d == Turn(live, message, suppress)
<1>1. IsTurn(d) /\ d.do = "start_session" /\ d.message = message /\ d.live = live
    BY DEF Turn, IsTurn
<1> HIDE DEF d
<1>2. CallSound(evs, d) /\ Neutral(d) /\ ~Owing(d)
    BY <1>1 DEF CallSound, TurnStage, Neutral, Owing, Says
<1>3. QED BY <1>1, <1>2 DEF d

LEMMA ChatBegins ==
    ASSUME NEW evs, NEW s, NEW p, NEW live, NEW suppress, NEW message \in Messages
    PROVE  Begins(evs, s, p, <<Turn(live, message, suppress)>>)
<1>1. message.growth.impact \in IdentityImpact
    BY GrowthAssumption DEF Message, classify_growth, NoGrowth, IdentityImpact
<1>2. QED BY <1>1, TurnBegins, OneBegins

LEMMA CleanSessionBegins ==
    ASSUME NEW evs, NEW s \in 0..Len(evs), Len(evs) \in Nat, NEW p \in Threads
    PROVE  Begins(evs, s, p,
              If(s # 0, CloseSession(s)) \o <<ForgetSession, Turn(TRUE, NoMessage, TRUE)>>)
<1> DEFINE c == CloseSession(s)
           f == ForgetSession
           t == Turn(TRUE, NoMessage, TRUE)
           closed == If(s # 0, c)
           rest == <<f, t>>
           calls == closed \o rest
<1>1. c.do = "close_session" /\ c.session = s /\ f.do = "forget_session"
    BY DEF CloseSession, ForgetSession
<1>2. t.do = "start_session" /\ CallSound(evs, t) /\ Neutral(t) /\ ~Owing(t)
    <2>1. NoMessage.growth.impact \in IdentityImpact
        BY DEF NoMessage, NoGrowth, IdentityImpact
    <2>2. QED BY <2>1, TurnBegins
<1>3. Begun.do = "begin" /\ \A y : ~MayPrecede(Begun, y)
    BY DEF Begun, MayPrecede
<1> HIDE DEF c, f, t
<1>4. LeadsTo(evs, Begun, t)
    BY <1>2, BegunLeads
<1>5. /\ CallSound(evs, f) /\ Current(evs, f) /\ (\A g : ~Holds(f, g)) /\ ~Owing(f)
      /\ (\A r : ~MayEnd(f, r)) /\ SessionOpen(evs, f)
    BY <1>1 DEF CallSound, TurnStage, Current, Holds, Owing, Says, MayEnd, SessionOpen, SessionCalls
<1>6. LeadsTo(evs, Begun, f)
    BY <1>1, <1>3, <1>5 DEF LeadsTo, Settled, Says
<1>7. ASSUME s # 0 PROVE LeadsTo(evs, Begun, c) /\ ~Owing(c)
    <2>1. CallSound(evs, c)
        BY <1>1, <1>7 DEF CallSound, TurnStage
    <2>2. Current(evs, c) /\ (\A g : ~Holds(c, g)) /\ ~Owing(c)
        BY <1>1 DEF Current, Holds, Owing, Says
    <2>3. QED BY <1>1, <1>3, <2>1, <2>2 DEF LeadsTo, Settled, Says
<1>8. MayPrecede(c, f) /\ MayPrecede(c, t) /\ MayPrecede(f, t)
    BY <1>1, <1>2 DEF MayPrecede, Says, Leading, Tasking, ClosesSession
<1>9. Leads(evs, Begun, closed) /\ Listed(closed) \subseteq {c} /\ IsSequence(closed)
    BY <1>7, LedIf, ListedIf
<1>10. Leads(evs, Begun, rest)
    BY <1>2, <1>4, <1>5, <1>6, <1>8, TwoCalls
<1>11. IsSequence(rest) /\ Len(rest) = 2 /\ 1..Len(rest) = {1, 2} /\ rest[1] = f /\ rest[2] = t
    BY TwoElements
<1>12. Listed(rest) = {f, t}
    BY <1>11 DEF Listed
<1> HIDE DEF closed, rest
<1>13. Leads(evs, Begun, calls)
    <2>1. \A x \in Listed(closed), y \in Listed(rest) : MayPrecede(x, y)
        BY <1>8, <1>9, <1>12
    <2>2. QED BY <1>9, <1>10, <2>1, JoinedLists
<1>14. /\ Len(closed) \in Nat /\ Len(calls) = Len(closed) + 2
       /\ \A k \in 1..Len(closed) : calls[k] = c
       /\ \A k \in Len(closed) + 1..Len(calls) :
             k - Len(closed) \in {1, 2} /\ calls[k] = rest[k - Len(closed)]
    <2>1. /\ Len(closed) \in Nat /\ Len(calls) = Len(closed) + Len(rest)
          /\ \A k \in 1..Len(closed) : calls[k] = closed[k]
          /\ \A k \in Len(closed) + 1..Len(calls) :
                k - Len(closed) \in 1..Len(rest) /\ calls[k] = rest[k - Len(closed)]
        BY <1>9, <1>11, Concatenated
    <2>2. \A k \in 1..Len(closed) : closed[k] \in Listed(closed)
        BY DEF Listed
    <2>3. \A k \in 1..Len(closed) : closed[k] = c
        BY <1>9, <2>2
    <2> HIDE DEF calls
    <2>4. QED BY <1>11, <2>1, <2>3
<1>15. ASSUME NEW k \in 1..Len(calls)
       PROVE  \/ calls[k] = c /\ k < Len(closed) + 1
              \/ calls[k] = f \/ calls[k] = t
    BY <1>11, <1>14
<1>16. Len(closed) + 1 \in 1..Len(calls) /\ calls[Len(closed) + 1] = f
    BY <1>11, <1>14
<1>17. \A r : MayEnd(c, r) => r = s
    BY <1>1 DEF MayEnd, SessionCalls, Says
<1> HIDE DEF calls
<1>18. BegunIn(evs, s, p, calls)
    <2>1. ASSUME NEW k \in 1..Len(calls), calls[k] = c, k < Len(closed) + 1
          PROVE  /\ calls[k].do \notin {"forget_session", "close_task"} /\ calls[k] = CloseSession(s)
                 /\ \A r : MayEnd(calls[k], r) =>
                       r = s /\ \E m \in 1..Len(calls) : k < m /\ calls[m].do = "forget_session"
        BY <1>1, <1>16, <1>17, <2>1 DEF c
    <2>2. ASSUME NEW k \in 1..Len(calls), calls[k] = f \/ calls[k] = t
          PROVE  /\ SessionOpen(evs, calls[k]) /\ \A r : ~MayEnd(calls[k], r)
                 /\ calls[k].do # "close_task"
        BY <1>1, <1>2, <1>5, <2>2, NeutralCall
    <2>3. QED BY <1>15, <2>1, <2>2 DEF BegunIn
<1>19. QED BY <1>13, <1>18 DEF Begins, calls, closed, rest, c, f, t

-----------------------------------------------------------------------------
(* The forms of a step.                                                    *)

\* Besides what LeadsTo says of each: what all the calls that call c leads to
\* see to, while the shell is in session s.
PassesOn(evs, s, c, next) ==
    /\ c.do \in {"accept", "reject"} => Len(next) # 0
    /\ c.do = "review" => Len(next) # 0 /\ next[1].do \in {"accept", "reject"}
    /\ c.do = "open_tasks" => \A x : InSpecs(c.reflection, x) =>
          \/ \E t \in OpenTasks(evs) : evs[t] = x
          \/ \E k \in 1..Len(next) : Pressing(next[k], x)
    /\ c.do = "resolve_tasks" => \A t \in OpenTasks(evs) : evs[t].kind = c.kind =>
          \E k \in 1..Len(next) : Closes(next[k], t)
    /\ c.do = "close_task" => \E k \in 1..Len(next) : Closes(next[k], c.task)
    /\ c.do = "start_session" /\ (s # 0 => ClosingsOf(evs, s) = {}) =>
          \A k \in 1..Len(next) : SessionOpen(evs, next[k])

Goes(evs, s, c, next) == Leads(evs, c, next) /\ PassesOn(evs, s, c, next)

LEMMA GoesPlainly ==
    ASSUME NEW evs, NEW s, NEW c, NEW next, Leads(evs, c, next),
           c.do \notin {"accept", "reject", "review", "open_tasks", "resolve_tasks", "close_task",
                        "start_session"}
    PROVE  Goes(evs, s, c, next)
BY DEF Goes, PassesOn

LEMMA ChangeGoes ==
    ASSUME NEW evs, NEW s, NEW c, NEW d, Leads(evs, c, <<d>>), c.do \in {"accept", "reject"}
    PROVE  Goes(evs, s, c, <<d>>)
<1> DEFINE next == <<d>>
<1>1. Len(next) # 0 /\ Leads(evs, c, next)
    BY OneElement
<1> HIDE DEF next
<1>2. Goes(evs, s, c, next)
    BY <1>1 DEF Goes, PassesOn
<1>3. QED BY <1>2 DEF next

LEMMA ReviewGoes ==
    ASSUME NEW evs, LogSound(evs), NEW s, NEW c, CallSound(evs, c), c.do = "review", NEW live
    PROVE  Goes(evs, s, c,
              <<IF c.decision = "accepted" THEN Accept(c.growth, CurrentClaim(evs), FALSE)
                ELSE Reject(c.growth),
                Appending(GrowthReviewed(c.growth, c.decision, CurrentClaim(evs)))>>
              \o (IF live THEN <<ResolveTasks("review_growth")>> ELSE <<>>))
<1> DEFINE d == IF c.decision = "accepted" THEN Accept(c.growth, CurrentClaim(evs), FALSE)
                ELSE Reject(c.growth)
           e == Appending(GrowthReviewed(c.growth, c.decision, CurrentClaim(evs)))
           two == <<d, e>>
           rest == IF live THEN <<ResolveTasks("review_growth")>> ELSE <<>>
           next == two \o rest
<1>1. d.do \in {"accept", "reject"}
    BY DEF Accept, Reject
<1>2. Leads(evs, c, next)
    BY ReviewLeads
<1> HIDE DEF d, e
<1>3. IsSequence(two) /\ Len(two) = 2 /\ two[1] = d
    BY TwoElements
<1>4. IsSequence(rest)
    BY OneElement, NoElement
<1> HIDE DEF two, rest
<1>5. Len(next) # 0 /\ next[1] = d
    BY <1>3, <1>4, Concatenated
<1> HIDE DEF next
<1>6. Goes(evs, s, c, next)
    BY <1>1, <1>2, <1>5 DEF Goes, PassesOn
<1>7. QED BY <1>6 DEF next, two, rest, d, e

LEMMA OpenTasksGoes ==
    ASSUME NEW evs, NEW s, NEW c, c.do = "open_tasks",
           NEW new, new = NewTaskSpecs(c.reflection, {evs[t] : t \in OpenTasks(evs)})
    PROVE  Goes(evs, s, c, OpeningCalls(new))
<1> DEFINE existing == {evs[t] : t \in OpenTasks(evs)}
           next == OpeningCalls(new)
<1>1. /\ Leads(evs, c, next)
      /\ \A x : InSpecs(c.reflection, x) => x \in existing
            \/ \E k \in 1..Len(next) : Pressing(next[k], x)
    <2> HIDE DEF existing, next
    <2>1. new = NewTaskSpecs(c.reflection, existing)
        BY DEF existing
    <2>2. QED BY <2>1, OpenTasksLeads DEF next
<1> HIDE DEF next
<1>2. Goes(evs, s, c, next)
    BY <1>1 DEF Goes, PassesOn
<1>3. QED BY <1>2 DEF next

LEMMA ResolveTasksGoes ==
    ASSUME NEW evs, LogSound(evs), NEW s, NEW c, c.do = "resolve_tasks",
           NEW matching, matching = Matching(evs, c.kind)
    PROVE  Goes(evs, s, c, ClosingCalls(matching))
<1> DEFINE next == ClosingCalls(matching)
<1>1. Leads(evs, c, next) /\ \A t \in matching : \E k \in 1..Len(next) : Closes(next[k], t)
    BY ResolveTasksLeads
<1> HIDE DEF next
<1>2. Goes(evs, s, c, next)
    BY <1>1 DEF Goes, PassesOn, Matching
<1>3. QED BY <1>2 DEF next

LEMMA CloseTaskGoes ==
    ASSUME NEW evs, LogSound(evs), NEW s, NEW c, c.do = "close_task", c.task \in OpenTasks(evs),
           NEW how \in TaskClosing
    PROVE  Goes(evs, s, c, <<Appending(TaskClosed(how, c.task))>>)
<1> DEFINE d == Appending(TaskClosed(how, c.task))
           next == <<d>>
<1>1. Leads(evs, c, next) /\ Closes(d, c.task)
    BY CloseTaskLeads
<1> HIDE DEF d
<1>2. 1..Len(next) = {1} /\ next[1] = d
    BY OneElement
<1> HIDE DEF next
<1>3. Goes(evs, s, c, next)
    BY <1>1, <1>2 DEF Goes, PassesOn
<1>4. QED BY <1>3 DEF next, d

LEMMA StartShellGoes ==
    ASSUME NEW evs, NEW c, CallSound(evs, c), c.do = "start_session", NEW s \in 1..Len(evs), s # 0
    PROVE  c.live => Goes(evs, s, c, <<In(Stage(c, "see_self"), s)>>)
<1> DEFINE u == In(Stage(c, "see_self"), s)
           next == <<u>>
<1>1. IsTurn(c)
    BY TurnSound DEF TurnStage
<1>2. u.do = "see_self" /\ u.session = s
    BY <1>1, NextStage, TurnIn DEF IsStage
<1>3. c.live => Leads(evs, c, next)
    BY StartShellLeads
<1> HIDE DEF u
<1>4. 1..Len(next) = {1} /\ next[1] = u
    BY OneElement
<1>5. ClosingsOf(evs, s) = {} => SessionOpen(evs, u)
    BY <1>2 DEF SessionOpen, Says
<1> HIDE DEF next
<1>6. PassesOn(evs, s, c, next)
    BY <1>4, <1>5 DEF PassesOn
<1>7. c.live => Goes(evs, s, c, next)
    BY <1>3, <1>6 DEF Goes
<1>8. QED BY <1>7 DEF next, u

LEMMA StartSessionGoes ==
    ASSUME NEW evs, NEW s, NEW c, CallSound(evs, c), c.do = "start_session"
    PROVE  Goes(evs, s, c, <<Creating(SessionStarted, Stage(c, "enter_session"))>>)
<1> DEFINE u == Stage(c, "enter_session")
           d == Creating(SessionStarted, u)
           next == <<d>>
<1>1. IsTurn(c)
    BY TurnSound DEF TurnStage
<1>2. u.do = "enter_session" /\ d.do = "create" /\ d.then = u
    BY <1>1, NextStage DEF IsStage, Creating
<1>3. Leads(evs, c, next)
    BY StartSessionLeads
<1> HIDE DEF u, d
<1>4. 1..Len(next) = {1} /\ next[1] = d
    BY OneElement
<1>5. SessionOpen(evs, d)
    BY <1>2 DEF SessionOpen, SessionCalls, Says
<1> HIDE DEF next
<1>6. Goes(evs, s, c, next)
    BY <1>3, <1>4, <1>5 DEF Goes, PassesOn
<1>7. QED BY <1>6 DEF next, d, u

\* The ledger supports every event on it, and every call that a handler still
\* has to make; and the calls stand in an order they may stand in.
SoundInv ==
    /\ HandlersTypeOK /\ LogSound(log) /\ shell \in 0..Len(log)
    /\ \A p \in Procs :
          Ordered(todo[p]) /\ \A c \in Listed(todo[p]) : CallSound(log, c)

\* A call returns, and the handler makes the calls it leads to; or it raises,
\* and the handler is over.
Passes(p, next) ==
    /\ todo' = [todo EXCEPT ![p] = next \o Tail(@)]
    /\ UNCHANGED <<log, started, overlap, killed>>
Ends(p) ==
    /\ todo' = [todo EXCEPT ![p] = Idle]
    /\ UNCHANGED <<log, started, overlap, killed>>

Returns(p, next) ==
    /\ todo[p] # Idle /\ Call(p).do \notin {"begin", "append", "create"}
    /\ Goes(log, shell, Call(p), next)
    /\ Passes(p, next)
    /\ \/ shell' = shell /\ Call(p).do # "forget_session"
       \/ shell' = 0 /\ Call(p).do = "forget_session"
       \/ shell' = Call(p).own /\ Call(p).do = "enter_session" /\ Call(p).live

Raises(p) ==
    /\ todo[p] # Idle
    /\ Call(p).do \in {"propose", "accept", "resolve_conflict", "close_task", "turn_growth"}
    /\ Call(p).do = "close_task" => Call(p).task \notin OpenTasks(log)
    /\ Ends(p) /\ shell' = shell

Commands(p, calls) ==
    /\ todo[p] = Idle /\ Begins(log, shell, p, calls)
    /\ todo' = [todo EXCEPT ![p] = calls]
    /\ started' = started + 1 /\ overlap' = (overlap \/ ~Quiescent)
    /\ UNCHANGED <<log, shell, killed>>

Appends(p) == AppendEvent(p) /\ shell' = shell
Creates(p) == CreateRecord(p) /\ shell' = shell

\* A process is killed, or the live server with its shell.
Dies ==
    /\ killed' = TRUE
    /\ DOMAIN todo' = Procs /\ \A p \in Procs : todo'[p] \in {todo[p], Idle}
    /\ \/ shell' = 0
       \/ shell' = shell /\ \A p \in Threads : todo'[p] = todo[p]
    /\ UNCHANGED <<log, started, overlap>>

\* What a step is, whichever function takes it.
Form ==
    \/ \E p \in Procs : \E calls : Commands(p, calls)
    \/ \E p \in Procs : \E next : Returns(p, next)
    \/ \E p \in Procs : Raises(p) \/ Appends(p) \/ Creates(p)
    \/ Dies

LEMMA CallIsSound ==
    ASSUME SoundInv, NEW p \in Procs, todo[p] # Idle
    PROVE  CallSound(log, Call(p))
<1>1. Ordered(todo[p]) /\ todo[p] # <<>>
    BY DEF SoundInv, Idle
<1>2. Call(p) = todo[p][1] /\ 1 \in 1..Len(todo[p])
    BY <1>1, HeadAndTail DEF Ordered, Call
<1>3. QED BY <1>2 DEF SoundInv, Listed

LEMMA Returned ==
    ASSUME NEW p \in Procs, todo[p] # Idle,
           Call(p).do \notin {"begin", "append", "create", "forget_session"},
           NEW next, Goes(log, shell, Call(p), next), Passes(p, next), shell' = shell
    PROVE  Form
BY DEF Form, Returns

LEMMA Raised ==
    ASSUME NEW p \in Procs, todo[p] # Idle,
           Call(p).do \in {"propose", "accept", "resolve_conflict", "close_task", "turn_growth"},
           Call(p).do = "close_task" => Call(p).task \notin OpenTasks(log),
           Ends(p), shell' = shell
    PROVE  Form
BY DEF Form, Raises

LEMMA Commanded ==
    ASSUME NEW p \in Procs, NEW command, NEW calls, Begins(log, shell, p, calls),
           Begin(p, command, calls), shell' = shell
    PROVE  Form
<1>1. Commands(p, calls)
    BY DEF Begin, BeginCalls, MayBegin, Commands
<1>2. QED BY <1>1 DEF Form

-----------------------------------------------------------------------------
LEMMA CommandForms ==
    ASSUME SoundInv, NEW p \in Procs, Command(p), shell' = shell
    PROVE  Form
<1>1. IsSequence(log) /\ Len(log) \in Nat /\ shell \in 0..Len(log)
    BY DEF SoundInv, LogSound, IsSequence
<1> USE <1>1
<1>2. CASE MoveContinuity(p)
    <2>1. PICK c \in Moves : Begin(p, "continuity", <<Appending(ContinuityMoved(c))>>)
        BY <1>2 DEF MoveContinuity
    <2>2. Begins(log, shell, p, <<Appending(ContinuityMoved(c))>>)
        BY SimpleBegins
    <2>3. QED BY <2>1, <2>2, Commanded
<1>3. CASE ProposeGrowth(p)
    <2>1. PICK g \in Proposals : Begin(p, "propose-growth", <<Propose(g)>>)
        BY <1>3 DEF ProposeGrowth
    <2>2. Begins(log, shell, p, <<Propose(g)>>)
        BY SimpleBegins
    <2>3. QED BY <2>1, <2>2, Commanded
<1>4. CASE AcceptGrowth(p)
    <2>1. PICK g \in Growths(log) : Begin(p, "accept-growth", <<AcceptNow(g)>>)
        BY <1>4 DEF AcceptGrowth
    <2>2. Begins(log, shell, p, <<AcceptNow(g)>>)
        BY SimpleBegins
    <2>3. QED BY <2>1, <2>2, Commanded
<1>5. CASE RejectGrowth(p)
    <2>1. PICK g \in Growths(log) : Begin(p, "reject-growth", <<Reject(g)>>)
        BY <1>5 DEF RejectGrowth
    <2>2. Begins(log, shell, p, <<Reject(g)>>)
        BY SimpleBegins
    <2>3. QED BY <2>1, <2>2, Commanded
<1>6. CASE ReviewGrowth(p)
    <2>1. PICK g \in Growths(log), decision \in GrowthReviewDecision :
              Begin(p, "review-growth", <<Review(g, decision, p \in Threads)>>)
        BY <1>6 DEF ReviewGrowth
    <2>2. Begins(log, shell, p, <<Review(g, decision, p \in Threads)>>)
        BY SimpleBegins
    <2>3. QED BY <2>1, <2>2, Commanded
<1>7. CASE ResolveConflict(p)
    <2>1. PICK c \in Conflicts(log), decision \in GrowthConflictDecision :
              Begin(p, "resolve-conflict", <<Resolve(c, decision)>>)
        BY <1>7 DEF ResolveConflict
    <2>2. Begins(log, shell, p, <<Resolve(c, decision)>>)
        BY SimpleBegins
    <2>3. QED BY <2>1, <2>2, Commanded
<1>8. CASE SignalMemory(p)
    <2>1. PICK g \in MemoryCards(log), signal \in MemorySignalType :
              Begin(p, "memory-signal",
                  record_memory_signal(g, signal)
                  \o (IF p \in Threads /\ signal \in {"contradicted", "stale"}
                      THEN <<Reflect>> ELSE <<>>))
        BY <1>8 DEF SignalMemory
    <2>2. Begin(p, "memory-signal",
              record_memory_signal(g, signal)
              \o If(p \in Threads /\ signal \in {"contradicted", "stale"}, Reflect))
        BY <2>1 DEF If
    <2>3. Begins(log, shell, p,
              record_memory_signal(g, signal)
              \o If(p \in Threads /\ signal \in {"contradicted", "stale"}, Reflect))
        BY SignalBegins
    <2>4. QED BY <2>2, <2>3, Commanded
<1>9. CASE RequestMemoryEvidence(p)
    <2>1. PICK g \in Growths(log) :
              Begin(p, "memory-evidence", <<Appending(MemoryEvidenceRequested(g))>>)
        BY <1>9 DEF RequestMemoryEvidence
    <2>2. Begins(log, shell, p, <<Appending(MemoryEvidenceRequested(g))>>)
        BY SimpleBegins
    <2>3. QED BY <2>1, <2>2, Commanded
<1>10. CASE RunReflection(p)
    <2>1. Begins(log, shell, p, <<Reflect>>)
        BY SimpleBegins
    <2>2. QED BY <1>10, <2>1, Commanded DEF RunReflection
<1>11. CASE UpdateReflectionTask(p)
    <2>1. PICK t \in Tasks(log),
               how \in {"reflection.task_resolved", "reflection.task_dismissed"} :
              Begin(p, "reflection-task", <<CloseTask(t, how)>>)
        BY <1>11 DEF UpdateReflectionTask
    <2>2. Begins(log, shell, p, <<CloseTask(t, how)>>)
        BY UpdateTaskBegins DEF TaskClosing
    <2>3. QED BY <2>1, <2>2, Commanded
<1>12. CASE Chat(p)
    <2>1. PICK message \in Messages, suppress \in BOOLEAN :
              Begin(p, "chat", <<Turn(p \in Threads, message, suppress)>>)
        BY <1>12 DEF Chat
    <2>2. Begins(log, shell, p, <<Turn(p \in Threads, message, suppress)>>)
        BY ChatBegins
    <2>3. QED BY <2>1, <2>2, Commanded
<1>13. CASE StartCleanSession(p)
    <2>1. p \in Threads /\ Begin(p, "clean-session",
              (IF shell = 0 THEN <<>> ELSE <<CloseSession(shell)>>)
              \o <<ForgetSession, Turn(TRUE, NoMessage, TRUE)>>)
        BY <1>13 DEF StartCleanSession
    <2>2. Begin(p, "clean-session",
              If(shell # 0, CloseSession(shell)) \o <<ForgetSession, Turn(TRUE, NoMessage, TRUE)>>)
        BY <2>1 DEF If
    <2>3. Begins(log, shell, p,
              If(shell # 0, CloseSession(shell)) \o <<ForgetSession, Turn(TRUE, NoMessage, TRUE)>>)
        BY <2>1, CleanSessionBegins
    <2>4. QED BY <2>2, <2>3, Commanded
<1>14. QED
    BY <1>2, <1>3, <1>4, <1>5, <1>6, <1>7, <1>8, <1>9, <1>10, <1>11, <1>12, <1>13 DEF Command

LEMMA GrowthForms ==
    ASSUME SoundInv, NEW p \in Procs, shell' = shell,
           \/ propose_growth(p) \/ accept_growth_now(p) \/ accept_growth(p) \/ reject_growth(p)
           \/ review_growth(p) \/ resolve_growth_conflict(p)
    PROVE  Form
<1> DEFINE c == Call(p)
<1>1. LogSound(log)
    BY DEF SoundInv
<1>2. todo[p] # Idle
    BY DEF propose_growth, accept_growth_now, accept_growth, reject_growth, review_growth,
           resolve_growth_conflict, Called
<1>3. CallSound(log, c)
    BY <1>2, CallIsSound
<1>4. CASE propose_growth(p)
    <2> DEFINE g == c.growth
               next == <<Appending(GrowthProposed(g.kind, g.impact, g.marked, g.contrary))>>
    <2>1. c.do = "propose" /\ Return(p, GrowthGate(CurrentClaim(log), "propose", g.impact), next)
        BY <1>4 DEF propose_growth, Called, Call
    <2>2. Goes(log, shell, c, next)
        BY <1>3, <2>1, ProposeLeads, GoesPlainly
    <2> HIDE DEF next
    <2>3. CASE GrowthGate(CurrentClaim(log), "propose", g.impact)
        <3>1. Passes(p, next)
            BY <2>1, <2>3 DEF Return, Passes
        <3>2. QED BY <1>2, <2>1, <2>2, <3>1, Returned
    <2>4. CASE ~GrowthGate(CurrentClaim(log), "propose", g.impact)
        <3>1. Ends(p)
            BY <2>1, <2>4 DEF Return, Ends
        <3>2. QED BY <1>2, <2>1, <3>1, Raised
    <2>5. QED BY <2>3, <2>4
<1>5. CASE accept_growth_now(p)
    <2> DEFINE next == <<Accept(c.growth, CurrentClaim(log), FALSE)>>
    <2>1. c.do = "accept_now" /\ Return(p, TRUE, next)
        BY <1>5 DEF accept_growth_now, Called, Call
    <2>2. Goes(log, shell, c, next)
        BY <1>1, <1>3, <2>1, AcceptNowLeads, GoesPlainly
    <2> HIDE DEF next
    <2>3. Passes(p, next)
        BY <2>1 DEF Return, Passes
    <2>4. QED BY <1>2, <2>1, <2>2, <2>3, Returned
<1>6. CASE accept_growth(p)
    <2> DEFINE g == c.growth
               next == <<Appending(GrowthUpdated(g, "accepted", c.claim, c.auto))>>
    <2>1. c.do = "accept" /\ Return(p, GrowthGate(c.claim, "accept", log[g].impact), next)
        BY <1>6 DEF accept_growth, Called, Call
    <2>2. ASSUME GrowthGate(c.claim, "accept", log[g].impact) PROVE Goes(log, shell, c, next)
        BY <1>1, <1>3, <2>1, <2>2, AcceptLeads, ChangeGoes
    <2> HIDE DEF next
    <2>3. CASE GrowthGate(c.claim, "accept", log[g].impact)
        <3>1. Passes(p, next)
            BY <2>1, <2>3 DEF Return, Passes
        <3>2. QED BY <1>2, <2>1, <2>2, <2>3, <3>1, Returned
    <2>4. CASE ~GrowthGate(c.claim, "accept", log[g].impact)
        <3>1. Ends(p)
            BY <2>1, <2>4 DEF Return, Ends
        <3>2. QED BY <1>2, <2>1, <3>1, Raised
    <2>5. QED BY <2>3, <2>4
<1>7. CASE reject_growth(p)
    <2> DEFINE next == <<Appending(GrowthUpdated(c.growth, "rejected",
                                                 GrowthRecord(log, c.growth).claim, FALSE))>>
    <2>1. c.do = "reject" /\ Return(p, TRUE, next)
        BY <1>7 DEF reject_growth, Called, Call
    <2>2. Goes(log, shell, c, next)
        BY <1>3, <2>1, RejectLeads, ChangeGoes
    <2> HIDE DEF next
    <2>3. Passes(p, next)
        BY <2>1 DEF Return, Passes
    <2>4. QED BY <1>2, <2>1, <2>2, <2>3, Returned
<1>8. CASE review_growth(p)
    <2> DEFINE next ==
              <<IF c.decision = "accepted" THEN Accept(c.growth, CurrentClaim(log), FALSE)
                ELSE Reject(c.growth),
                Appending(GrowthReviewed(c.growth, c.decision, CurrentClaim(log)))>>
              \o (IF c.live THEN <<ResolveTasks("review_growth")>> ELSE <<>>)
    <2>1. c.do = "review" /\ Return(p, TRUE, next)
        BY <1>8 DEF review_growth, Called, Call
    <2>2. Goes(log, shell, c, next)
        BY <1>1, <1>3, <2>1, ReviewGoes
    <2> HIDE DEF next
    <2>3. Passes(p, next)
        BY <2>1 DEF Return, Passes
    <2>4. QED BY <1>2, <2>1, <2>2, <2>3, Returned
<1>9. CASE resolve_growth_conflict(p)
    <2> DEFINE next == <<Appending(ConflictResolved(c.conflict, c.decision)),
                         ResolveTasks("resolve_conflict")>>
    <2>1. c.do = "resolve_conflict" /\ Return(p, c.conflict \in UnresolvedConflicts(log), next)
        BY <1>9 DEF resolve_growth_conflict, Called, Call
    <2>2. ASSUME c.conflict \in UnresolvedConflicts(log) PROVE Goes(log, shell, c, next)
        BY <2>1, <2>2, ResolveLeads, GoesPlainly
    <2> HIDE DEF next
    <2>3. CASE c.conflict \in UnresolvedConflicts(log)
        <3>1. Passes(p, next)
            BY <2>1, <2>3 DEF Return, Passes
        <3>2. QED BY <1>2, <2>1, <2>2, <2>3, <3>1, Returned
    <2>4. CASE c.conflict \notin UnresolvedConflicts(log)
        <3>1. Ends(p)
            BY <2>1, <2>4 DEF Return, Ends
        <3>2. QED BY <1>2, <2>1, <3>1, Raised
    <2>5. QED BY <2>3, <2>4
<1>10. QED BY <1>4, <1>5, <1>6, <1>7, <1>8, <1>9

LEMMA ReflectionForms ==
    ASSUME SoundInv, NEW p \in Procs, shell' = shell,
           \/ resolve_matching_tasks(p) \/ update_reflection_task(p)
           \/ build_reflection(p) \/ record_reflection(p) \/ open_tasks_from_reflection(p)
    PROVE  Form
<1> DEFINE c == Call(p)
<1>1. LogSound(log)
    BY DEF SoundInv
<1>2. todo[p] # Idle
    BY DEF resolve_matching_tasks, update_reflection_task, build_reflection, record_reflection,
           open_tasks_from_reflection, Called
<1>3. CallSound(log, c)
    BY <1>2, CallIsSound
<1>4. CASE resolve_matching_tasks(p)
    <2> DEFINE next == ClosingCalls(Matching(log, c.kind))
    <2>1. c.do = "resolve_tasks" /\ Return(p, TRUE, next)
        BY <1>4 DEF resolve_matching_tasks, Called, Call, ClosingCalls, Matching
    <2>2. Goes(log, shell, c, next)
        BY <1>1, <2>1, ResolveTasksGoes
    <2> HIDE DEF next
    <2>3. Passes(p, next)
        BY <2>1 DEF Return, Passes
    <2>4. QED BY <1>2, <2>1, <2>2, <2>3, Returned
<1>5. CASE update_reflection_task(p)
    <2> DEFINE next == <<Appending(TaskClosed(c.how, c.task))>>
    <2>1. c.do = "close_task" /\ Return(p, c.task \in OpenTasks(log), next)
        BY <1>5 DEF update_reflection_task, Called, Call
    <2>2. c.how \in TaskClosing
        BY <1>3, <2>1 DEF CallSound, TaskClosing
    <2>3. ASSUME c.task \in OpenTasks(log) PROVE Goes(log, shell, c, next)
        BY <1>1, <2>1, <2>2, <2>3, CloseTaskGoes
    <2> HIDE DEF next
    <2>4. CASE c.task \in OpenTasks(log)
        <3>1. Passes(p, next)
            BY <2>1, <2>4 DEF Return, Passes
        <3>2. QED BY <1>2, <2>1, <2>3, <2>4, <3>1, Returned
    <2>5. CASE c.task \notin OpenTasks(log)
        <3>1. Ends(p)
            BY <2>1, <2>5 DEF Return, Ends
        <3>2. QED BY <1>2, <2>1, <2>5, <3>1, Raised
    <2>6. QED BY <2>4, <2>5
<1>6. CASE build_reflection(p)
    <2> DEFINE next == <<DeriveClaim(ReflectionRecorded("none", Cardinality(ActiveGrowth(log)),
                             Cardinality(UnresolvedConflicts(log)), Cardinality(WeakCards(log))))>>
    <2>1. c.do = "reflect" /\ Return(p, TRUE, next)
        BY <1>6 DEF build_reflection, Called, Call
    <2>2. Goes(log, shell, c, next)
        BY <2>1, ReflectLeads, GoesPlainly
    <2> HIDE DEF next
    <2>3. Passes(p, next)
        BY <2>1 DEF Return, Passes
    <2>4. QED BY <1>2, <2>1, <2>2, <2>3, Returned
<1>7. CASE record_reflection(p)
    <2> DEFINE r == [c.reflection EXCEPT !.claim = CurrentClaim(log)]
               next == <<Appending(r), OpenTasksFrom(r)>>
    <2>1. c.do = "derive_claim" /\ Return(p, TRUE, next)
        BY <1>7 DEF record_reflection, Called, Call
    <2>2. Goes(log, shell, c, next)
        BY <1>3, <2>1, DeriveClaimLeads, GoesPlainly
    <2> HIDE DEF next
    <2>3. Passes(p, next)
        BY <2>1 DEF Return, Passes
    <2>4. QED BY <1>2, <2>1, <2>2, <2>3, Returned
<1>8. CASE open_tasks_from_reflection(p)
    <2> DEFINE new == NewTaskSpecs(c.reflection, {log[t] : t \in OpenTasks(log)})
               next == OpeningCalls(new)
    <2>1. c.do = "open_tasks" /\ Return(p, TRUE, next)
        BY <1>8 DEF open_tasks_from_reflection, Called, Call, OpeningCalls
    <2>2. Goes(log, shell, c, next)
        BY <2>1, OpenTasksGoes
    <2> HIDE DEF next
    <2>3. Passes(p, next)
        BY <2>1 DEF Return, Passes
    <2>4. QED BY <1>2, <2>1, <2>2, <2>3, Returned
<1>9. QED BY <1>4, <1>5, <1>6, <1>7, <1>8

LEMMA TurnForms ==
    ASSUME SoundInv, NEW p \in Procs, shell' = shell,
           \/ derive_self_model(p) \/ process_turn(p) \/ record_growth_conflict(p)
           \/ auto_accept(p) \/ record_chat_turn(p) \/ close_chat_session(p)
    PROVE  Form
<1> DEFINE c == Call(p)
           g == c.message.growth
<1>1. LogSound(log)
    BY DEF SoundInv
<1>2. todo[p] # Idle
    BY DEF derive_self_model, process_turn, record_growth_conflict, auto_accept,
           record_chat_turn, close_chat_session, Called
<1>3. CallSound(log, c)
    BY <1>2, CallIsSound
<1>4. CASE derive_self_model(p)
    <2> DEFINE against == detect_growth_conflict(c.message.contrary, StandingCommitments(log))
               seen == Seeing(Stage(c, "turn_growth"), LatestMemoryCard(log), against)
               some == <<Appending(TurnInput), seen>>
               none == <<>>
    <2>1. c.do = "see_self" /\ Return(p, TRUE, IF c.message = NoMessage THEN none ELSE some)
        BY <1>4 DEF derive_self_model, Called, Call, Seeing
    <2>2. Goes(log, shell, c, some)
        BY <1>3, <2>1, SeeSelfLeads, GoesPlainly
    <2>3. Goes(log, shell, c, none)
        BY <2>1, NoCalls, GoesPlainly
    <2> HIDE DEF some, none
    <2>4. CASE c.message = NoMessage
        <3>1. Passes(p, none)
            BY <2>1, <2>4 DEF Return, Passes
        <3>2. QED BY <1>2, <2>1, <2>3, <3>1, Returned
    <2>5. CASE c.message # NoMessage
        <3>1. Passes(p, some)
            BY <2>1, <2>5 DEF Return, Passes
        <3>2. QED BY <1>2, <2>1, <2>2, <3>1, Returned
    <2>6. QED BY <2>4, <2>5
<1>5. CASE process_turn(p)
    <2> DEFINE done == <<Appending(TurnOutput)>> \o Closing(c)
               new == <<Creating(GrowthProposed(g.kind, g.impact, FALSE, c.message.contrary),
                                 Stage(c, "detect_conflict"))>>
    <2>1. c.do = "turn_growth"
        BY <1>5 DEF process_turn, Called, Call
    <2>2. IF g = NoGrowth THEN Return(p, TRUE, done)
          ELSE Return(p, GrowthGate(CurrentClaim(log), "propose", g.impact), new)
        BY <1>5 DEF process_turn
    <2>3. Goes(log, shell, c, done) /\ Goes(log, shell, c, new)
        BY <1>3, <2>1, NoGrowthLeads, TurnGrowthLeads, GoesPlainly
    <2> HIDE DEF done, new
    <2>4. CASE g = NoGrowth
        <3>1. Passes(p, done)
            BY <2>2, <2>4 DEF Return, Passes
        <3>2. QED BY <1>2, <2>1, <2>3, <3>1, Returned
    <2>5. CASE g # NoGrowth /\ GrowthGate(CurrentClaim(log), "propose", g.impact)
        <3>1. Passes(p, new)
            BY <2>2, <2>5 DEF Return, Passes
        <3>2. QED BY <1>2, <2>1, <2>3, <3>1, Returned
    <2>6. CASE g # NoGrowth /\ ~GrowthGate(CurrentClaim(log), "propose", g.impact)
        <3>1. Ends(p)
            BY <2>2, <2>6 DEF Return, Ends
        <3>2. QED BY <1>2, <2>1, <3>1, Raised
    <2>7. QED BY <2>4, <2>5, <2>6
<1>6. CASE record_growth_conflict(p)
    <2> DEFINE next == <<Appending(TurnOutput)>>
                       \o If(c.against # {}, Appending(ConflictDetected(c.own, c.against)))
                       \o <<Stage(c, "auto_accept")>>
    <2>1. c.do = "detect_conflict" /\ Return(p, TRUE, next)
        BY <1>6 DEF record_growth_conflict, Called, Call, If
    <2>2. Goes(log, shell, c, next)
        BY <1>3, <2>1, DetectLeads, GoesPlainly
    <2> HIDE DEF next
    <2>3. Passes(p, next)
        BY <2>1 DEF Return, Passes
    <2>4. QED BY <1>2, <2>1, <2>2, <2>3, Returned
<1>7. CASE auto_accept(p)
    <2> DEFINE claim == CurrentClaim(log)
               cond == GrowthGate(claim, "accept", g.impact) /\ g.impact = "low" /\ c.against = {}
               next == If(cond, Accept(c.own, claim, TRUE)) \o Closing(c)
    <2>1. c.do = "auto_accept" /\ Return(p, TRUE, next)
        BY <1>7 DEF auto_accept, Called, Call, If
    <2>2. Goes(log, shell, c, next)
        BY <1>1, <1>3, <2>1, AutoAcceptLeads, GoesPlainly
    <2> HIDE DEF next
    <2>3. Passes(p, next)
        BY <2>1 DEF Return, Passes
    <2>4. QED BY <1>2, <2>1, <2>2, <2>3, Returned
<1>8. CASE record_chat_turn(p)
    <2> DEFINE notable == \/ c.own # 0 /\ c.against # {}
                          \/ c.message.signal # "none" /\ c.card # 0
                          \/ CurrentClaim(log) # "certified_continuity"
               reflects == c.live /\ ~c.suppress /\ notable
               next == <<Appending(TurnRecorded(c.session, Cardinality(TurnsOf(log, c.session)) + 1))>>
                       \o If(reflects, Reflect) \o If(~c.live, CloseSession(c.session))
    <2>1. c.do = "record_turn" /\ Return(p, TRUE, next)
        BY <1>8 DEF record_chat_turn, Called, Call, If
    <2>2. Goes(log, shell, c, next)
        BY <1>3, <2>1, RecordTurnLeads, GoesPlainly
    <2> HIDE DEF next
    <2>3. Passes(p, next)
        BY <2>1 DEF Return, Passes
    <2>4. QED BY <1>2, <2>1, <2>2, <2>3, Returned
<1>9. CASE close_chat_session(p)
    <2> DEFINE next == <<Appending(SessionClosed(c.session, Cardinality(TurnsOf(log, c.session))))>>
    <2>1. c.do = "close_session" /\ Return(p, TRUE, next)
        BY <1>9 DEF close_chat_session, Called, Call
    <2>2. Goes(log, shell, c, next)
        BY <1>3, <2>1, CloseSessionLeads, GoesPlainly
    <2> HIDE DEF next
    <2>3. Passes(p, next)
        BY <2>1 DEF Return, Passes
    <2>4. QED BY <1>2, <2>1, <2>2, <2>3, Returned
<1>10. QED BY <1>4, <1>5, <1>6, <1>7, <1>8, <1>9

\* The calls that look at the shell of the live server, or change it.
LEMMA ShellForms ==
    ASSUME SoundInv, NEW p \in Procs, start_session(p) \/ enter_session(p) \/ forget_session(p)
    PROVE  Form
<1> DEFINE c == Call(p)
<1>1. LogSound(log) /\ shell \in 0..Len(log) /\ Len(log) \in Nat
    BY DEF SoundInv, LogSound, IsSequence
<1>2. todo[p] # Idle
    BY DEF start_session, enter_session, forget_session, Called
<1>3. CallSound(log, c)
    BY <1>2, CallIsSound
<1>4. CASE start_session(p)
    <2> DEFINE known == <<In(Stage(c, "see_self"), shell)>>
               new == <<Creating(SessionStarted, Stage(c, "enter_session"))>>
    <2>1. c.do = "start_session" /\ shell' = shell
        BY <1>4 DEF start_session, Called, Call
    <2>2. IF c.live /\ shell # 0 THEN Return(p, TRUE, known) ELSE Return(p, TRUE, new)
        BY <1>4 DEF start_session, In
    <2>3. ASSUME shell # 0 PROVE c.live => Goes(log, shell, c, known)
        <3>1. shell \in 1..Len(log)
            BY <1>1, <2>3
        <3>2. QED BY <1>3, <2>1, <3>1, <2>3, StartShellGoes
    <2>4. Goes(log, shell, c, new)
        BY <1>3, <2>1, StartSessionGoes
    <2> HIDE DEF known, new
    <2>5. CASE c.live /\ shell # 0
        <3>1. Passes(p, known)
            BY <2>2, <2>5 DEF Return, Passes
        <3>2. Goes(log, shell, c, known)
            BY <2>3, <2>5
        <3>3. QED BY <1>2, <2>1, <3>1, <3>2, Returned
    <2>6. CASE ~(c.live /\ shell # 0)
        <3>1. Passes(p, new)
            BY <2>2, <2>6 DEF Return, Passes
        <3>2. QED BY <1>2, <2>1, <2>4, <3>1, Returned
    <2>7. QED BY <2>5, <2>6
<1>5. CASE enter_session(p)
    <2> DEFINE next == <<Entered(Stage(c, "see_self"), c.own)>>
    <2>1. c.do = "enter_session" /\ Return(p, TRUE, next)
        BY <1>5 DEF enter_session, Called, Call, Entered
    <2>2. shell' = IF c.live THEN c.own ELSE shell
        BY <1>5 DEF enter_session
    <2>3. Goes(log, shell, c, next)
        BY <1>3, <2>1, EnterSessionLeads, GoesPlainly
    <2> HIDE DEF next
    <2>4. Passes(p, next)
        BY <2>1 DEF Return, Passes
    <2>5. Returns(p, next)
        BY <1>2, <2>1, <2>2, <2>3, <2>4 DEF Returns
    <2>6. QED BY <2>5 DEF Form
<1>6. CASE forget_session(p)
    <2> DEFINE none == <<>>
    <2>1. c.do = "forget_session" /\ Return(p, TRUE, none) /\ shell' = 0
        BY <1>6 DEF forget_session, Called, Call
    <2>2. Goes(log, shell, c, none)
        BY <2>1, NoCalls, GoesPlainly
    <2> HIDE DEF none
    <2>3. Passes(p, none)
        BY <2>1 DEF Return, Passes
    <2>4. Returns(p, none)
        BY <1>2, <2>1, <2>2, <2>3 DEF Returns
    <2>5. QED BY <2>4 DEF Form
<1>7. QED BY <1>4, <1>5, <1>6

LEMMA DyingForms ==
    ASSUME SoundInv, (\E p \in Procs \ Threads : Crash(p) /\ UNCHANGED shell) \/ ServerCrash
    PROVE  Form
<1>1. DOMAIN todo = Procs
    BY DEF SoundInv, HandlersTypeOK
<1>2. CASE \E p \in Procs \ Threads : Crash(p) /\ UNCHANGED shell
    BY <1>1, <1>2 DEF Crash, Dies, Form
<1>3. CASE ServerCrash
    BY <1>1, <1>3 DEF ServerCrash, Dies, Form
<1>4. QED BY <1>2, <1>3

(* Every step is of one of the forms, or changes nothing.                  *)
LEMMA StepForms == SoundInv /\ [Next]_vars => Form \/ UNCHANGED vars
<1> SUFFICES ASSUME SoundInv, Next PROVE Form
    OBVIOUS
<1>1. CASE \E p \in Procs : (Command(p) \/ Step(p)) /\ UNCHANGED shell
    <2>1. PICK p \in Procs : (Command(p) \/ Step(p)) /\ UNCHANGED shell
        BY <1>1
    <2>2. CASE Command(p)
        BY <2>1, <2>2, CommandForms
    <2>3. CASE AppendEvent(p) \/ CreateRecord(p)
        BY <2>1, <2>3 DEF Form, Appends, Creates
    <2>4. CASE \/ propose_growth(p) \/ accept_growth_now(p) \/ accept_growth(p)
               \/ reject_growth(p) \/ review_growth(p) \/ resolve_growth_conflict(p)
        BY <2>1, <2>4, GrowthForms
    <2>5. CASE \/ resolve_matching_tasks(p) \/ update_reflection_task(p)
               \/ build_reflection(p) \/ record_reflection(p) \/ open_tasks_from_reflection(p)
        BY <2>1, <2>5, ReflectionForms
    <2>6. CASE \/ derive_self_model(p) \/ process_turn(p) \/ record_growth_conflict(p)
               \/ auto_accept(p) \/ record_chat_turn(p) \/ close_chat_session(p)
        BY <2>1, <2>6, TurnForms
    <2>7. QED BY <2>1, <2>2, <2>3, <2>4, <2>5, <2>6 DEF Step
<1>2. CASE \E p \in Procs : start_session(p) \/ enter_session(p) \/ forget_session(p)
    BY <1>2, ShellForms
<1>3. CASE (\E p \in Procs \ Threads : Crash(p) /\ UNCHANGED shell) \/ ServerCrash
    BY <1>3, DyingForms
<1>4. QED BY <1>1, <1>2, <1>3 DEF Next

-----------------------------------------------------------------------------
(* What is in the lists after a step.                                      *)

Rest(p) == Listed(Tail(todo[p]))

LEMMA ListedCalls ==
    ASSUME SoundInv, NEW p \in Procs
    PROVE  /\ todo[p] = Idle => Listed(todo[p]) = {}
           /\ todo[p] # Idle =>
                 /\ Listed(todo[p]) = {Call(p)} \cup Rest(p)
                 /\ \A y \in Rest(p) : MayPrecede(Call(p), y)
                 /\ Owing(Call(p)) => \E y \in Rest(p) : Owes(Call(p), y)
                 /\ Ordered(Tail(todo[p]))
<1> DEFINE calls == todo[p]
<1>1. Ordered(calls)
    BY DEF SoundInv
<1>2. calls = <<>> => Listed(calls) = {}
    BY NoElement DEF Listed
<1>3. ASSUME calls # <<>>
      PROVE  /\ Listed(calls) = {Head(calls)} \cup Listed(Tail(calls))
             /\ \A y \in Listed(Tail(calls)) : MayPrecede(Head(calls), y)
             /\ Owing(Head(calls)) => \E y \in Listed(Tail(calls)) : Owes(Head(calls), y)
             /\ Ordered(Tail(calls))
    <2> DEFINE rest == Tail(calls)
    <2>1. /\ Head(calls) = calls[1] /\ Len(calls) \in Nat \ {0} /\ Ordered(rest)
          /\ Len(rest) = Len(calls) - 1
          /\ \A k \in 1..Len(rest) : k + 1 \in 2..Len(calls) /\ rest[k] = calls[k + 1]
          /\ \A k \in 1..Len(rest) : MayPrecede(Head(calls), rest[k])
        BY <1>1, <1>3, TailOrdered
    <2> HIDE DEF calls, rest
    <2>2. \A k \in 2..Len(calls) : k - 1 \in 1..Len(rest) /\ calls[k] = rest[k - 1]
        BY <2>1
    <2>3. 1 \in 1..Len(calls) /\ \A k \in 1..Len(calls) : k = 1 \/ k \in 2..Len(calls)
        BY <2>1
    <2>4. \A k \in 1..Len(rest) : calls[k + 1] \in Listed(calls) /\ rest[k] = calls[k + 1]
        BY <2>1 DEF Listed
    <2>5. Listed(calls) = {Head(calls)} \cup Listed(rest)
        <3>1. \A x \in Listed(calls) : x \in {Head(calls)} \cup Listed(rest)
            BY <2>1, <2>2, <2>3 DEF Listed
        <3>2. \A x \in Listed(rest) : x \in Listed(calls)
            BY <2>4 DEF Listed
        <3>3. Head(calls) \in Listed(calls)
            BY <2>1, <2>3 DEF Listed
        <3>4. QED BY <3>1, <3>2, <3>3
    <2>6. ASSUME Owing(Head(calls)) PROVE \E y \in Listed(rest) : Owes(Head(calls), y)
        <3>1. PICK k \in 1..Len(calls) : 1 < k /\ Owes(calls[1], calls[k])
            BY <1>1, <2>1, <2>3, <2>6 DEF Ordered
        <3>2. k - 1 \in 1..Len(rest) /\ calls[k] = rest[k - 1]
            BY <2>1, <2>2, <3>1
        <3>3. QED BY <2>1, <3>1, <3>2 DEF Listed
    <2>7. QED BY <2>1, <2>5, <2>6 DEF Listed, rest
<1>4. QED BY <1>2, <1>3 DEF Rest, Call, Idle

LEMMA FirstListed ==
    ASSUME NEW calls, Ordered(calls), calls # Idle
    PROVE  Head(calls) \in Listed(calls)
BY HeadAndTail DEF Ordered, Idle, Listed

LEMMA ReturnsLists ==
    ASSUME SoundInv, NEW p \in Procs, NEW next, Returns(p, next)
    PROVE  /\ DOMAIN todo' = Procs /\ \A q \in Procs \ {p} : todo'[q] = todo[q]
           /\ Ordered(todo'[p]) /\ Listed(todo'[p]) = Listed(next) \cup Rest(p)
           /\ Len(next) # 0 => todo'[p] # Idle /\ Head(todo'[p]) = next[1]
           /\ Len(next) = 0 => todo'[p] = Tail(todo[p])
<1>1. /\ DOMAIN todo' = Procs /\ \A q \in Procs \ {p} : todo'[q] = todo[q]
      /\ todo'[p] = next \o Tail(todo[p])
    BY DEF SoundInv, HandlersTypeOK, Returns, Passes
<1>2. /\ Ordered(todo[p]) /\ todo[p] # <<>> /\ Leads(log, Head(todo[p]), next)
    BY DEF SoundInv, Returns, Idle, Goes, Call
<1>3. Ordered(next \o Tail(todo[p]))
    BY <1>2, CallReplaced
<1>4. IsSequence(next) /\ IsSequence(Tail(todo[p]))
    BY <1>2, TailOrdered DEF Leads, Ordered
<1>5. Listed(next \o Tail(todo[p])) = Listed(next) \cup Rest(p)
    BY <1>4, JoinedList DEF Rest
<1>6. ASSUME Len(next) # 0
      PROVE  next \o Tail(todo[p]) # <<>> /\ Head(next \o Tail(todo[p])) = next[1]
    <2> DEFINE s == next
               t == Tail(todo[p])
               l == s \o t
    <2> HIDE DEF s, t
    <2>1. /\ IsSequence(l) /\ Len(l) = Len(s) + Len(t) /\ Len(s) \in Nat /\ Len(t) \in Nat
          /\ Len(s) # 0 /\ \A k \in 1..Len(s) : l[k] = s[k]
        BY <1>4, <1>6, Concatenated DEF s, t
    <2> HIDE DEF l
    <2>2. Len(l) # 0 /\ l[1] = s[1]
        BY <2>1
    <2>3. l # <<>>
        BY <2>2, NoElement
    <2>4. QED BY <2>1, <2>2, <2>3, HeadAndTail DEF l, s, t
<1>7. ASSUME Len(next) = 0 PROVE next \o Tail(todo[p]) = Tail(todo[p])
    <2>1. PICK S : next \in Seq(S)
        BY <1>4 DEF IsSequence
    <2>2. PICK T : Tail(todo[p]) \in Seq(T)
        BY <1>4 DEF IsSequence
    <2>3. QED BY <1>7, <2>1, <2>2
<1>8. QED BY <1>1, <1>3, <1>5, <1>6, <1>7 DEF Idle

LEMMA AppendsLists ==
    ASSUME SoundInv, NEW p \in Procs, Appends(p)
    PROVE  /\ DOMAIN todo' = Procs /\ \A q \in Procs \ {p} : todo'[q] = todo[q]
           /\ todo'[p] = Tail(todo[p]) /\ Ordered(todo'[p]) /\ Listed(todo'[p]) = Rest(p)
           /\ todo[p] # Idle /\ Call(p).do = "append" /\ Call(p) \in Listed(todo[p])
           /\ CallSound(log, Call(p)) /\ Sensible(log, Call(p).event, Len(log))
           /\ log' = Append(log, Call(p).event)
<1>1. /\ DOMAIN todo' = Procs /\ \A q \in Procs \ {p} : todo'[q] = todo[q]
      /\ todo'[p] = Tail(todo[p]) /\ todo[p] # Idle /\ Call(p).do = "append"
      /\ log' = Append(log, Call(p).event)
    BY DEF SoundInv, HandlersTypeOK, Appends, AppendEvent, Called, Call
<1>2. Ordered(Tail(todo[p])) /\ Listed(todo[p]) = {Call(p)} \cup Rest(p)
    BY <1>1, ListedCalls
<1>3. CallSound(log, Call(p))
    BY <1>1, CallIsSound
<1>4. Sensible(log, Call(p).event, Len(log))
    BY <1>1, <1>3 DEF CallSound
<1>5. QED BY <1>1, <1>2, <1>3, <1>4 DEF Rest

Created(p) == [Call(p).then EXCEPT !.own = Len(log) + 1]

LEMMA CreatedCall ==
    ASSUME SoundInv, NEW p \in Procs, todo[p] # Idle, Call(p).do = "create"
    PROVE  LET c == Call(p)
               u == Created(p)
           IN  /\ IsTurn(u) /\ u.message = c.then.message /\ u.own = Len(log) + 1
               /\ u.do = c.then.do /\ u.live = c.then.live /\ u.session = c.then.session
               /\ u.against = c.then.against
               /\ u.do \in {"enter_session", "detect_conflict"}
               /\ Sensible(log, c.event, Len(log))
               /\ u.do = "enter_session" => c.event.type = "lucien.chat_session_started"
               /\ u.do = "detect_conflict" => c.event.type = "lucien.growth_proposed"
               /\ CallSound(Append(log, c.event), u) /\ ~Owing(u)
               /\ \A y : MayPrecede(c, y) => MayPrecede(u, y)
<1> DEFINE c == Call(p)
           t == c.then
           u == Created(p)
           n == Len(log) + 1
           new == Append(log, c.event)
<1>1. CallSound(log, c) /\ c.do = "create"
    BY CallIsSound
<1>2. /\ IsTurn(t) /\ t.message.growth.impact \in IdentityImpact
      /\ \/ t.do = "enter_session" /\ c.event = SessionStarted
         \/ /\ t.do = "detect_conflict" /\ t.session \in 1..Len(log)
            /\ c.event = GrowthProposed(t.message.growth.kind, t.message.growth.impact, FALSE,
                                        t.message.contrary)
    BY <1>1 DEF CallSound
<1>3. u = [do |-> t.do, live |-> t.live, message |-> t.message, suppress |-> t.suppress,
           session |-> t.session, card |-> t.card, against |-> t.against, own |-> n]
    BY <1>2 DEF IsTurn, Created
<1>4. /\ Len(log) \in Nat /\ Len(new) = n /\ new[n] = c.event /\ IsSequence(log)
    BY Appended DEF SoundInv, LogSound
<1>5. /\ t.do = "enter_session" => c.event.type = "lucien.chat_session_started"
      /\ t.do = "detect_conflict" =>
            /\ c.event.type = "lucien.growth_proposed" /\ t.session \in 1..Len(log)
            /\ c.event.impact = t.message.growth.impact /\ c.event.contrary = t.message.contrary
            /\ c.event.status # "accepted"
      /\ t.do \in {"enter_session", "detect_conflict"}
    BY <1>2 DEF SessionStarted, GrowthProposed
<1> HIDE DEF u, new, c, t
<1>6. Sensible(log, c.event, Len(log))
    BY <1>2, <1>5 DEF Sensible, TaskClosing
<1>7. /\ IsTurn(u) /\ u.message = t.message /\ u.own = n /\ u.do = t.do /\ u.live = t.live
      /\ u.session = t.session /\ u.against = t.against
    BY <1>3 DEF IsTurn
<1>8. ASSUME t.do = "detect_conflict" PROVE OnOwn(new, u) /\ u.session \in 1..Len(new)
    BY <1>4, <1>5, <1>7, <1>8 DEF OnOwn, Proposed
<1>9. CallSound(new, u)
    <2>1. CASE t.do = "enter_session"
        <3>1. u.own \in 1..Len(new)
            BY <1>4, <1>7
        <3>2. QED BY <1>2, <1>7, <2>1, <3>1 DEF CallSound, TurnStage
    <2>2. CASE t.do = "detect_conflict"
        BY <1>2, <1>7, <1>8, <2>2 DEF CallSound, TurnStage
    <2>3. QED BY <1>5, <2>1, <2>2
<1>10. ~Owing(u) /\ \A y : MayPrecede(c, y) => MayPrecede(u, y)
    BY <1>1, <1>5, <1>7, PlainPrecedes DEF Owing, Says, Plain
<1>11. QED BY <1>5, <1>6, <1>7, <1>9, <1>10 DEF u, new, c, t

LEMMA CreatesLists ==
    ASSUME SoundInv, NEW p \in Procs, Creates(p)
    PROVE  /\ DOMAIN todo' = Procs /\ \A q \in Procs \ {p} : todo'[q] = todo[q]
           /\ todo'[p] # Idle /\ Head(todo'[p]) = Created(p)
           /\ Ordered(todo'[p]) /\ Listed(todo'[p]) = {Created(p)} \cup Rest(p)
           /\ todo[p] # Idle /\ Call(p).do = "create" /\ Call(p) \in Listed(todo[p])
           /\ log' = Append(log, Call(p).event)
<1> DEFINE u == Created(p)
           one == <<u>>
           t == Tail(todo[p])
           l == one \o t
<1>1. /\ DOMAIN todo' = Procs /\ \A q \in Procs \ {p} : todo'[q] = todo[q]
      /\ todo'[p] = l /\ todo[p] # Idle /\ Call(p).do = "create"
      /\ log' = Append(log, Call(p).event)
    BY DEF SoundInv, HandlersTypeOK, Creates, CreateRecord, Called, Call, Created
<1>2. /\ Ordered(t) /\ Listed(todo[p]) = {Call(p)} \cup Rest(p)
      /\ \A y \in Listed(t) : MayPrecede(Call(p), y)
    BY <1>1, ListedCalls DEF Rest
<1>3. ~Owing(u) /\ \A y \in Listed(t) : MayPrecede(u, y)
    BY <1>1, <1>2, CreatedCall
<1> HIDE DEF u
<1>4. IsSequence(one) /\ Len(one) = 1 /\ 1..Len(one) = {1} /\ one[1] = u
    BY OneElement
<1> HIDE DEF one, t
<1>5. Ordered(one)
    BY <1>3, <1>4 DEF Ordered
<1>6. Ordered(l)
    BY <1>2, <1>3, <1>4, <1>5, JoinedOrdered DEF Listed
<1>7. Listed(l) = {u} \cup Listed(t)
    <2>1. Listed(one) = {u}
        BY <1>4 DEF Listed
    <2>2. IsSequence(t)
        BY <1>2 DEF Ordered
    <2>3. Listed(l) = Listed(one) \cup Listed(t)
        BY <1>4, <2>2, JoinedList
    <2>4. QED BY <2>1, <2>3
<1>8. l # <<>> /\ Head(l) = u
    <2> DEFINE s == one
               r == t
    <2>1. IsSequence(s) /\ IsSequence(r) /\ Len(s) = 1 /\ s[1] = u
        BY <1>2, <1>4 DEF Ordered
    <2> HIDE DEF s, r
    <2> DEFINE sr == s \o r
    <2>2. /\ IsSequence(sr) /\ Len(sr) = Len(s) + Len(r) /\ Len(s) \in Nat /\ Len(r) \in Nat
          /\ \A k \in 1..Len(s) : sr[k] = s[k]
        BY <2>1, Concatenated
    <2> HIDE DEF sr
    <2>3. Len(sr) # 0 /\ sr[1] = u
        BY <2>1, <2>2
    <2>4. sr # <<>>
        BY <2>3, NoElement
    <2>5. QED BY <2>2, <2>3, <2>4, HeadAndTail DEF sr, s, r
<1>9. QED BY <1>1, <1>2, <1>6, <1>7, <1>8 DEF u, t, Rest, Idle

LEMMA EndsLists ==
    ASSUME SoundInv, NEW p \in Procs, Ends(p)
    PROVE  /\ DOMAIN todo' = Procs /\ \A q \in Procs \ {p} : todo'[q] = todo[q]
           /\ todo'[p] = Idle /\ Ordered(todo'[p]) /\ Listed(todo'[p]) = {}
<1>1. /\ DOMAIN todo' = Procs /\ \A q \in Procs \ {p} : todo'[q] = todo[q]
      /\ todo'[p] = Idle
    BY DEF SoundInv, HandlersTypeOK, Ends
<1>2. Ordered(Idle) /\ Listed(Idle) = {}
    BY NoCalls, NoElement DEF Idle, Listed
<1>3. QED BY <1>1, <1>2

LEMMA CommandsLists ==
    ASSUME SoundInv, NEW p \in Procs, NEW calls, Commands(p, calls)
    PROVE  /\ DOMAIN todo' = Procs /\ \A q \in Procs \ {p} : todo'[q] = todo[q]
           /\ todo'[p] = calls /\ Ordered(calls)
           /\ \A d \in Listed(calls) : LeadsTo(log, Begun, d)
<1>1. /\ DOMAIN todo' = Procs /\ \A q \in Procs \ {p} : todo'[q] = todo[q]
      /\ todo'[p] = calls
    BY DEF SoundInv, HandlersTypeOK, Commands
<1>2. Ordered(calls) /\ \A d \in Listed(calls) : LeadsTo(log, Begun, d)
    BY DEF Commands, Begins, Leads, Listed
<1>3. QED BY <1>1, <1>2

LEMMA DiesLists ==
    ASSUME SoundInv, Dies, NEW p \in Procs
    PROVE  Ordered(todo'[p]) /\ Listed(todo'[p]) \subseteq Listed(todo[p])
<1>1. Ordered(Idle) /\ Listed(Idle) = {}
    BY NoCalls, NoElement DEF Idle, Listed
<1>2. QED BY <1>1 DEF Dies, SoundInv

-----------------------------------------------------------------------------
(* The ledger and the calls are sound.                                     *)

\* The events before a position.
LEMMA Prefix ==
    ASSUME NEW evs, IsSequence(evs), NEW i \in 1..Len(evs) + 1
    PROVE  LET pre == SubSeq(evs, 1, i - 1) IN
           /\ IsSequence(pre) /\ Len(pre) = i - 1 /\ i - 1 \in 0..Len(evs)
           /\ \A k \in 1..i - 1 : pre[k] = evs[k]
<1>1. PICK S : evs \in Seq(S)
    BY DEF IsSequence
<1>2. Len(evs) \in Nat /\ i - 1 \in 0..Len(evs)
    BY <1>1
<1>3. SubSeq(evs, 1, i - 1) \in Seq(S)
    BY <1>1, <1>2
<1>4. /\ Len(SubSeq(evs, 1, i - 1)) = i - 1
      /\ \A k \in 1..i - 1 : SubSeq(evs, 1, i - 1)[k] = evs[k]
    BY <1>1, <1>2
<1>5. QED BY <1>2, <1>3, <1>4 DEF IsSequence

LEMMA OpeningSound ==
    ASSUME NEW evs, Opening(evs)
    PROVE  LogSound(evs)
<1>1. /\ evs \in Seq(StartEvent) /\ IsSequence(evs) /\ Len(evs) \in Nat \ {0}
      /\ evs[1].type = "continuity"
    BY DEF Opening, IsSequence
<1>2. ASSUME NEW i \in 1..Len(evs)
      PROVE  /\ evs[i].type \in {"continuity", "lucien.growth_proposed", "lucien.growth_updated"}
             /\ evs[i].type = "continuity" => evs[i] = ContinuityMoved(evs[i].claim)
             /\ evs[i].type = "lucien.growth_proposed" =>
                   evs[i].status # "accepted" /\ evs[i].impact \in IdentityImpact
             /\ evs[i].type = "lucien.growth_updated" => evs[i].auto = FALSE
    <2>1. evs[i] \in StartEvent
        BY <1>1
    <2>2. QED BY <2>1 DEF StartEvent, ContinuityMoved
<1>3. ASSUME NEW i \in 1..Len(evs), evs[i].type = "lucien.growth_updated"
      PROVE  /\ Proposed(evs, evs[i].growth, i - 1)
             /\ Permitted(evs, evs[i].growth, evs[i].claim, i - 1)
    <2> DEFINE e == evs[i]
               g == e.growth
               pre == SubSeq(evs, 1, i - 1)
               S == Positions(pre, "continuity")
    <2>1. i \in Positions(evs, "lucien.growth_updated")
        BY <1>1, <1>3, LogPositions
    <2>2. g \in Growths(evs) /\ g < i /\ e.claim = CurrentClaim(pre)
          /\ GrowthGate(e.claim, "accept", evs[g].impact)
        BY <2>1 DEF Opening
    <2>3. g \in 1..Len(evs) /\ evs[g].type = "lucien.growth_proposed"
        BY <1>1, <2>2, LogPositions DEF Growths
    <2>4. Proposed(evs, g, i - 1) /\ evs[g].impact \in IdentityImpact
        <3> HIDE DEF g, pre
        <3>1. g \in 1..i - 1
            BY <1>1, <2>2, <2>3
        <3>2. QED BY <1>2, <2>3, <3>1 DEF Proposed
    <2>5. /\ IsSequence(pre) /\ Len(pre) = i - 1 /\ i - 1 \in Nat
          /\ \A k \in 1..i - 1 : pre[k] = evs[k]
        BY <1>1, Prefix
    <2> HIDE DEF pre
    <2>6. S = {k \in 1..Len(pre) : pre[k].type = "continuity"}
        BY <2>5, LogPositions
    <2>7. 1 \in S
        <3>1. i # 1
            BY <1>1, <1>3
        <3>2. 1 \in 1..i - 1
            BY <1>1, <3>1
        <3>3. QED BY <1>1, <2>5, <2>6, <3>2
    <2>8. S \in SUBSET (0..i - 1)
        BY <2>5, <2>6
    <2> HIDE DEF S
    <2>9. Max(S) \in S
        BY <2>5, <2>7, <2>8, MaxIsGreatest
    <2>10. Max(S) \in 1..i - 1 /\ evs[Max(S)] = ContinuityMoved(e.claim)
        <3>1. Max(S) \in 1..i - 1 /\ evs[Max(S)].type = "continuity" /\ Max(S) \in 1..Len(evs)
            BY <1>1, <2>5, <2>6, <2>9
        <3>2. e.claim = evs[Max(S)].claim
            BY <2>2, <2>5, <3>1 DEF CurrentClaim, S
        <3>3. QED BY <1>2, <3>1, <3>2
    <2>11. Permitted(evs, g, e.claim, i - 1)
        <3>1. e.claim \in {"certified_continuity", "declared_fork", "review_required"}
              /\ (e.claim = "review_required" => evs[g].impact \in {"low", "medium"})
            BY <2>2, <2>4 DEF GrowthGate, IdentityImpact
        <3>2. QED BY <2>10, <3>1 DEF Permitted
    <2>12. QED BY <2>4, <2>11
<1>4. ASSUME NEW i \in 1..Len(evs) PROVE Sensible(evs, evs[i], i - 1)
    BY <1>2, <1>3 DEF Sensible, TaskClosing
<1>5. QED BY <1>1, <1>4 DEF LogSound

LEMMA SoundInit == Init => SoundInv
<1> SUFFICES ASSUME Init PROVE SoundInv
    OBVIOUS
<1>1. /\ HandlersTypeOK /\ Opening(log) /\ shell = 0
      /\ \A p \in Procs : todo[p] = Idle
    BY GrowthAssumption DEF Init, HandlersInit, HandlersTypeOK
<1>2. LogSound(log)
    BY <1>1, OpeningSound
<1>3. shell \in 0..Len(log)
    BY <1>1, <1>2 DEF LogSound, IsSequence
<1>4. Ordered(Idle) /\ Listed(Idle) = {}
    BY NoCalls, NoElement DEF Idle, Listed
<1>5. QED BY <1>1, <1>2, <1>3, <1>4 DEF SoundInv

LEMMA SoundForms == SoundInv /\ Form => SoundInv'
<1> SUFFICES ASSUME SoundInv, Form PROVE SoundInv'
    OBVIOUS
<1>1. /\ HandlersTypeOK /\ LogSound(log) /\ shell \in 0..Len(log) /\ Len(log) \in Nat
      /\ IsSequence(log)
    BY DEF SoundInv, LogSound, IsSequence
<1>2. \A p \in Procs : Ordered(todo[p]) /\ \A c \in Listed(todo[p]) : CallSound(log, c)
    BY DEF SoundInv
<1>3. ASSUME NEW p \in Procs, todo[p] # Idle
      PROVE  CallSound(log, Call(p)) /\ \A c \in Rest(p) : CallSound(log, c)
    BY <1>2, <1>3, ListedCalls
<1>4. ASSUME NEW p \in Procs, NEW calls, Commands(p, calls) PROVE SoundInv'
    <2>1. /\ DOMAIN todo' = Procs /\ \A q \in Procs \ {p} : todo'[q] = todo[q]
          /\ todo'[p] = calls /\ Ordered(calls)
          /\ \A d \in Listed(calls) : LeadsTo(log, Begun, d)
        BY <1>4, CommandsLists
    <2>2. /\ log' = log /\ shell' = shell /\ killed' = killed /\ started' = started + 1
          /\ overlap' \in BOOLEAN
        BY <1>4 DEF Commands
    <2>3. \A q \in Procs : Ordered(todo'[q]) /\ \A c \in Listed(todo'[q]) : CallSound(log, c)
        BY <1>2, <2>1 DEF LeadsTo
    <2>4. QED BY <1>1, <2>1, <2>2, <2>3 DEF SoundInv, HandlersTypeOK
<1>5. ASSUME NEW p \in Procs, NEW next, Returns(p, next) PROVE SoundInv'
    <2>1. /\ DOMAIN todo' = Procs /\ \A q \in Procs \ {p} : todo'[q] = todo[q]
          /\ Ordered(todo'[p]) /\ Listed(todo'[p]) = Listed(next) \cup Rest(p)
        BY <1>5, ReturnsLists
    <2>2. /\ todo[p] # Idle /\ Leads(log, Call(p), next) /\ UNCHANGED <<log, started, overlap, killed>>
        BY <1>5 DEF Returns, Passes, Goes
    <2>3. \A c \in Listed(next) : CallSound(log, c)
        BY <2>2 DEF Leads, LeadsTo, Listed
    <2>4. \A q \in Procs : Ordered(todo'[q]) /\ \A c \in Listed(todo'[q]) : CallSound(log, c)
        BY <1>2, <1>3, <2>1, <2>2, <2>3
    <2>5. shell' \in 0..Len(log)
        <3>1. Call(p).do = "enter_session" => Call(p).own \in 1..Len(log)
            BY <1>3, <2>2 DEF CallSound
        <3>2. QED BY <1>1, <1>5, <3>1 DEF Returns
    <2>6. QED BY <1>1, <2>1, <2>2, <2>4, <2>5 DEF SoundInv, HandlersTypeOK
<1>6. ASSUME NEW p \in Procs, Raises(p) PROVE SoundInv'
    <2>1. Ends(p) /\ shell' = shell /\ UNCHANGED <<log, started, overlap, killed>>
        BY <1>6 DEF Raises, Ends
    <2>2. /\ DOMAIN todo' = Procs /\ \A q \in Procs \ {p} : todo'[q] = todo[q]
          /\ Ordered(todo'[p]) /\ Listed(todo'[p]) = {}
        BY <2>1, EndsLists
    <2>3. QED BY <1>1, <1>2, <2>1, <2>2 DEF SoundInv, HandlersTypeOK
<1>7. ASSUME NEW e, Sensible(log, e, Len(log)), log' = Append(log, e)
      PROVE  /\ LogSound(log') /\ shell \in 0..Len(log')
             /\ \A c : CallSound(log, c) => CallSound(log', c)
    <2>1. LogSound(log') /\ \A c : CallSound(log, c) => CallSound(log', c)
        BY <1>1, <1>7, LogStaysSound, CallStaysSound
    <2>2. Len(log') = Len(log) + 1
        BY <1>1, <1>7, Appended
    <2>3. QED BY <1>1, <2>1, <2>2
<1>8. ASSUME NEW p \in Procs, Appends(p) PROVE SoundInv'
    <2>1. /\ DOMAIN todo' = Procs /\ \A q \in Procs \ {p} : todo'[q] = todo[q]
          /\ Ordered(todo'[p]) /\ Listed(todo'[p]) = Rest(p) /\ todo[p] # Idle
          /\ Sensible(log, Call(p).event, Len(log)) /\ log' = Append(log, Call(p).event)
        BY <1>8, AppendsLists
    <2>2. UNCHANGED <<shell, started, overlap, killed>>
        BY <1>8 DEF Appends, AppendEvent
    <2>3. LogSound(log') /\ shell \in 0..Len(log') /\ \A c : CallSound(log, c) => CallSound(log', c)
        BY <1>7, <2>1
    <2>4. QED BY <1>1, <1>2, <1>3, <2>1, <2>2, <2>3 DEF SoundInv, HandlersTypeOK
<1>9. ASSUME NEW p \in Procs, Creates(p) PROVE SoundInv'
    <2>1. /\ DOMAIN todo' = Procs /\ \A q \in Procs \ {p} : todo'[q] = todo[q]
          /\ Ordered(todo'[p]) /\ Listed(todo'[p]) = {Created(p)} \cup Rest(p)
          /\ todo[p] # Idle /\ Call(p).do = "create" /\ log' = Append(log, Call(p).event)
        BY <1>9, CreatesLists
    <2>2. UNCHANGED <<shell, started, overlap, killed>>
        BY <1>9 DEF Creates, CreateRecord
    <2>3. /\ Sensible(log, Call(p).event, Len(log))
          /\ CallSound(Append(log, Call(p).event), Created(p))
        BY <2>1, CreatedCall
    <2>4. LogSound(log') /\ shell \in 0..Len(log') /\ \A c : CallSound(log, c) => CallSound(log', c)
        BY <1>7, <2>1, <2>3
    <2>5. QED BY <1>1, <1>2, <1>3, <2>1, <2>2, <2>3, <2>4 DEF SoundInv, HandlersTypeOK
<1>10. CASE Dies
    <2>1. \A q \in Procs : Ordered(todo'[q]) /\ Listed(todo'[q]) \subseteq Listed(todo[q])
        BY <1>10, DiesLists
    <2>2. DOMAIN todo' = Procs /\ UNCHANGED <<log, started, overlap>> /\ shell' \in {0, shell}
          /\ killed' = TRUE
        BY <1>10 DEF Dies
    <2>3. QED BY <1>1, <1>2, <2>1, <2>2 DEF SoundInv, HandlersTypeOK
<1>11. QED BY <1>4, <1>5, <1>6, <1>8, <1>9, <1>10 DEF Form

LEMMA SoundStep == SoundInv /\ [Next]_vars => SoundInv' /\ (Form \/ UNCHANGED vars)
<1>1. SoundInv /\ UNCHANGED vars => SoundInv'
    BY DEF SoundInv, vars, handlers, HandlersTypeOK
<1>2. QED BY <1>1, StepForms, SoundForms

LEMMA IsSound == Spec => []SoundInv
BY SoundInit, SoundStep, PTL DEF Spec

-----------------------------------------------------------------------------
(* What was read is still so, while handlers do not overlap.               *)

\* Only one handler is under way.
Sole == \A p, q \in Procs : Listed(todo[p]) # {} /\ Listed(todo[q]) # {} => p = q

\* Each acceptance went by what was so when it was made, and no conflict is
\* resolved twice.
RecordsCurrent(evs) ==
    /\ \A i \in 1..Len(evs) :
          evs[i].type = "lucien.growth_updated" /\ evs[i].status = "accepted" =>
              Accepts(UpTo(evs, i), evs[i].growth, evs[i].claim, evs[i].auto)
    /\ \A i, j \in Positions(evs, "lucien.growth_conflict_resolved") :
          evs[i].conflict = evs[j].conflict => i = j

UndisturbedInv ==
    ~overlap =>
        /\ Sole
        /\ \A p \in Procs : \A c \in Listed(todo[p]) : Current(log, c)
        /\ RecordsCurrent(log)

LEMMA RecordsStayCurrent ==
    ASSUME NEW evs, IsSequence(evs), RecordsCurrent(evs), NEW e,
           e.type = "lucien.growth_updated" /\ e.status = "accepted" =>
               Accepts(evs, e.growth, e.claim, e.auto),
           e.type = "lucien.growth_conflict_resolved" => ResolutionsOf(evs, e.conflict) = {}
    PROVE  RecordsCurrent(Append(evs, e))
<1> DEFINE new == Append(evs, e)
           n == Len(evs) + 1
           R == Positions(evs, "lucien.growth_conflict_resolved")
<1>1. /\ Len(evs) \in Nat /\ Len(new) = n /\ new[n] = e
      /\ \A k \in 1..Len(evs) : new[k] = evs[k] /\ UpTo(new, k) = UpTo(evs, k)
      /\ UpTo(new, n) = evs
    BY Appended, PrefixStays
<1>2. /\ R \subseteq 1..Len(evs)
      /\ e.type = "lucien.growth_conflict_resolved" =>
            Positions(new, "lucien.growth_conflict_resolved") = R \cup {n}
      /\ e.type # "lucien.growth_conflict_resolved" =>
            Positions(new, "lucien.growth_conflict_resolved") = R
    BY LogPositions, MorePositions
<1>3. e.type = "lucien.growth_conflict_resolved" => \A i \in R : evs[i].conflict # e.conflict
    BY DEF ResolutionsOf
<1> HIDE DEF new, R
<1>4. ASSUME NEW i \in 1..Len(new), new[i].type = "lucien.growth_updated", new[i].status = "accepted"
      PROVE  Accepts(UpTo(new, i), new[i].growth, new[i].claim, new[i].auto)
    <2>1. CASE i = n
        BY <1>1, <1>4, <2>1
    <2>2. CASE i # n
        <3>1. i \in 1..Len(evs)
            BY <1>1, <2>2
        <3>2. QED BY <1>1, <1>4, <3>1 DEF RecordsCurrent
    <2>3. QED BY <2>1, <2>2
<1>5. ASSUME NEW i \in Positions(new, "lucien.growth_conflict_resolved"),
             NEW j \in Positions(new, "lucien.growth_conflict_resolved"),
             new[i].conflict = new[j].conflict
      PROVE  i = j
    <2>1. \A k \in R : k \in 1..Len(evs) /\ new[k] = evs[k]
        BY <1>1, <1>2
    <2>2. \A k, m \in R : evs[k].conflict = evs[m].conflict => k = m
        BY DEF RecordsCurrent, R
    <2>3. CASE i \in R /\ j \in R
        BY <1>5, <2>1, <2>2, <2>3
    <2>4. CASE i = n /\ j \in R /\ e.type = "lucien.growth_conflict_resolved"
        BY <1>1, <1>3, <1>5, <2>1, <2>4
    <2>5. CASE j = n /\ i \in R /\ e.type = "lucien.growth_conflict_resolved"
        BY <1>1, <1>3, <1>5, <2>1, <2>5
    <2>6. QED BY <1>2, <2>3, <2>4, <2>5
<1>6. RecordsCurrent(new)
    BY <1>4, <1>5 DEF RecordsCurrent
<1>7. QED BY <1>6 DEF new

\* A call behind one that appends stays current.
LEMMA RestStaysCurrent ==
    ASSUME NEW evs, LogSound(evs), NEW x, x.do \in {"append", "create"},
           Sensible(evs, x.event, Len(evs)), NEW y, MayPrecede(x, y), Current(evs, y)
    PROVE  Current(Append(evs, x.event), y)
<1> DEFINE new == Append(evs, x.event)
<1>1. ~Leading(y)
    BY DEF MayPrecede
<1>2. ASSUME y.do \in {"turn_growth", "auto_accept"}
      PROVE  StandingCommitments(new) = StandingCommitments(evs)
    <2>1. x.event.type # "lucien.growth_updated"
        BY <1>2 DEF MayPrecede
    <2>2. QED BY <2>1, SameCommitments
<1> HIDE DEF new
<1>3. Current(new, y)
    BY <1>1, <1>2 DEF Current, Leading, Says, Against
<1>4. QED BY <1>3 DEF new

LEMMA CreatedIsCurrent ==
    ASSUME SoundInv, NEW p \in Procs, todo[p] # Idle, Call(p).do = "create",
           Current(log, Call(p))
    PROVE  Current(Append(log, Call(p).event), Created(p))
<1> DEFINE new == Append(log, Call(p).event)
           u == Created(p)
<1>1. /\ u.message = Call(p).then.message /\ u.do = Call(p).then.do
      /\ u.against = Call(p).then.against
      /\ u.do \in {"enter_session", "detect_conflict"}
      /\ Sensible(log, Call(p).event, Len(log))
      /\ u.do = "detect_conflict" => Call(p).event.type = "lucien.growth_proposed"
    BY CreatedCall
<1>2. LogSound(log)
    BY DEF SoundInv
<1>3. u.do = "detect_conflict" => StandingCommitments(new) = StandingCommitments(log)
    BY <1>1, <1>2, SameCommitments
<1> HIDE DEF new, u
<1>4. Current(new, u)
    BY <1>1, <1>3 DEF Current, Against, Says
<1>5. QED BY <1>4 DEF new, u

LEMMA NoneListed ==
    ASSUME SoundInv
    PROVE  /\ \A p \in Procs : todo[p] = Idle <=> Listed(todo[p]) = {}
           /\ Quiescent <=> \A p \in Procs : Listed(todo[p]) = {}
<1>1. \A p \in Procs : todo[p] = Idle <=> Listed(todo[p]) = {}
    BY ListedCalls
<1>2. QED BY <1>1 DEF Quiescent

LEMMA SoleStays ==
    ASSUME Sole, \A q \in Procs : Listed(todo[q]) = {} => Listed(todo'[q]) = {}
    PROVE  Sole'
BY DEF Sole

LEMMA UndisturbedInit == Init => UndisturbedInv
<1> SUFFICES ASSUME Init PROVE UndisturbedInv
    OBVIOUS
<1>1. Opening(log) /\ \A p \in Procs : todo[p] = Idle
    BY GrowthAssumption DEF Init, HandlersInit
<1>2. Listed(Idle) = {}
    BY NoElement DEF Idle, Listed
<1>3. Sole /\ \A p \in Procs : \A c \in Listed(todo[p]) : Current(log, c)
    BY <1>1, <1>2 DEF Sole
<1>4. log \in Seq(StartEvent) /\ IsSequence(log)
    BY <1>1 DEF Opening, IsSequence
<1>5. ASSUME NEW i \in 1..Len(log), log[i].type = "lucien.growth_updated"
      PROVE  Accepts(UpTo(log, i), log[i].growth, log[i].claim, log[i].auto)
    <2>1. i \in Positions(log, "lucien.growth_updated")
        BY <1>4, <1>5, LogPositions
    <2>2. log[i].claim = CurrentClaim(UpTo(log, i))
        BY <1>1, <2>1 DEF Opening, UpTo
    <2>3. log[i] \in StartEvent
        BY <1>4
    <2>4. log[i].auto = FALSE
        BY <1>5, <2>3 DEF StartEvent
    <2>5. QED BY <2>2, <2>4 DEF Accepts
<1>6. Positions(log, "lucien.growth_conflict_resolved") = {}
    <2>1. \A i \in 1..Len(log) : log[i].type # "lucien.growth_conflict_resolved"
        <3>1. ASSUME NEW i \in 1..Len(log) PROVE log[i].type # "lucien.growth_conflict_resolved"
            <4>1. log[i] \in StartEvent
                BY <1>4
            <4>2. QED BY <4>1 DEF StartEvent
        <3>2. QED BY <3>1
    <2>2. QED BY <1>4, <2>1, LogPositions
<1>7. QED BY <1>3, <1>5, <1>6 DEF UndisturbedInv, RecordsCurrent

LEMMA UndisturbedForms == SoundInv /\ UndisturbedInv /\ Form => UndisturbedInv'
<1> SUFFICES ASSUME SoundInv, UndisturbedInv, Form, ~overlap' PROVE UndisturbedInv'
    BY DEF UndisturbedInv
<1>1. LogSound(log) /\ IsSequence(log)
    BY DEF SoundInv, LogSound
<1>2. ASSUME ~overlap
      PROVE  /\ Sole /\ RecordsCurrent(log)
             /\ \A p \in Procs : \A c \in Listed(todo[p]) : Current(log, c)
    BY <1>2 DEF UndisturbedInv
<1>3. ASSUME NEW p \in Procs, NEW calls, Commands(p, calls) PROVE UndisturbedInv'
    <2>1. /\ \A q \in Procs \ {p} : todo'[q] = todo[q]
          /\ todo'[p] = calls
          /\ \A d \in Listed(calls) : LeadsTo(log, Begun, d)
        BY <1>3, CommandsLists
    <2>2. ~overlap /\ Quiescent /\ log' = log
        BY <1>3 DEF Commands
    <2>3. \A q \in Procs : Listed(todo[q]) = {}
        BY <2>2, NoneListed
    <2>4. Current(log, Begun)
        BY DEF Current, Begun, Says
    <2>5. \A q \in Procs : \A c \in Listed(todo'[q]) : Current(log, c)
        BY <2>1, <2>3, <2>4 DEF LeadsTo
    <2>6. Sole'
        BY <2>1, <2>3 DEF Sole
    <2>7. QED BY <1>2, <2>2, <2>5, <2>6 DEF UndisturbedInv
<1>4. ASSUME NEW p \in Procs, NEW next, Returns(p, next) PROVE UndisturbedInv'
    <2>1. /\ \A q \in Procs \ {p} : todo'[q] = todo[q]
          /\ Listed(todo'[p]) = Listed(next) \cup Rest(p)
        BY <1>4, ReturnsLists
    <2>2. todo[p] # Idle /\ Leads(log, Call(p), next) /\ ~overlap /\ log' = log
        BY <1>4 DEF Returns, Passes, Goes
    <2>3. Listed(todo[p]) = {Call(p)} \cup Rest(p)
        BY <2>2, ListedCalls
    <2>4. \A c \in Listed(next) : Current(log, c)
        BY <1>2, <2>2, <2>3 DEF Leads, LeadsTo, Listed
    <2>5. \A q \in Procs : \A c \in Listed(todo'[q]) : Current(log, c)
        BY <1>2, <2>1, <2>2, <2>3, <2>4
    <2>6. Sole'
        BY <1>2, <2>1, <2>2, <2>3, SoleStays
    <2>7. QED BY <1>2, <2>2, <2>5, <2>6 DEF UndisturbedInv
<1>5. ASSUME NEW p \in Procs, Raises(p) PROVE UndisturbedInv'
    <2>1. Ends(p) /\ ~overlap /\ log' = log
        BY <1>5 DEF Raises, Ends
    <2>2. /\ \A q \in Procs \ {p} : todo'[q] = todo[q]
          /\ Listed(todo'[p]) = {}
        BY <2>1, EndsLists
    <2>3. Sole'
        BY <1>2, <2>1, <2>2, SoleStays
    <2>4. QED BY <1>2, <2>1, <2>2, <2>3 DEF UndisturbedInv
<1>6. ASSUME NEW p \in Procs, todo[p] # Idle, ~overlap, Call(p).do \in {"append", "create"},
             Sensible(log, Call(p).event, Len(log)),
             log' = Append(log, Call(p).event), \A q \in Procs \ {p} : todo'[q] = todo[q],
             Rest(p) \subseteq Listed(todo'[p]),
             \A c \in Listed(todo'[p]) \ Rest(p) : Current(log', c)
      PROVE  /\ Sole' /\ RecordsCurrent(log')
             /\ \A q \in Procs : \A c \in Listed(todo'[q]) : Current(log', c)
    <2>1. /\ Listed(todo[p]) = {Call(p)} \cup Rest(p)
          /\ \A y \in Rest(p) : MayPrecede(Call(p), y)
        BY <1>6, ListedCalls
    <2>2. Current(log, Call(p)) /\ \A y \in Rest(p) : Current(log, y)
        BY <1>2, <1>6, <2>1
    <2>3. \A y \in Rest(p) : Current(log', y)
        BY <1>1, <1>6, <2>1, <2>2, RestStaysCurrent
    <2>4. \A q \in Procs \ {p} : Listed(todo'[q]) = {}
        BY <1>2, <1>6, <2>1 DEF Sole
    <2>5. Sole'
        BY <2>4 DEF Sole
    <2>6. RecordsCurrent(log')
        <3>1. Call(p).do = "create" => Call(p).event.type \in
                  {"lucien.chat_session_started", "lucien.growth_proposed"}
            BY <1>6, CreatedCall
        <3>2. /\ Call(p).event.type = "lucien.growth_updated" /\ Call(p).event.status = "accepted" =>
                    Accepts(log, Call(p).event.growth, Call(p).event.claim, Call(p).event.auto)
              /\ Call(p).event.type = "lucien.growth_conflict_resolved" =>
                    ResolutionsOf(log, Call(p).event.conflict) = {}
            BY <1>6, <2>2, <3>1 DEF Current, Says
        <3>3. QED BY <1>1, <1>2, <1>6, <3>2, RecordsStayCurrent
    <2>7. QED BY <1>6, <2>3, <2>4, <2>5, <2>6
<1>7. ASSUME NEW p \in Procs, Appends(p) PROVE UndisturbedInv'
    <2>1. /\ \A q \in Procs \ {p} : todo'[q] = todo[q]
          /\ Listed(todo'[p]) = Rest(p)
          /\ todo[p] # Idle /\ Call(p).do = "append" /\ Sensible(log, Call(p).event, Len(log))
          /\ log' = Append(log, Call(p).event)
        BY <1>7, AppendsLists
    <2>2. ~overlap
        BY <1>7 DEF Appends, AppendEvent
    <2>3. QED BY <1>6, <2>1, <2>2 DEF UndisturbedInv
<1>8. ASSUME NEW p \in Procs, Creates(p) PROVE UndisturbedInv'
    <2>1. /\ \A q \in Procs \ {p} : todo'[q] = todo[q]
          /\ Listed(todo'[p]) = {Created(p)} \cup Rest(p)
          /\ todo[p] # Idle /\ Call(p).do = "create" /\ Call(p) \in Listed(todo[p])
          /\ log' = Append(log, Call(p).event)
        BY <1>8, CreatesLists
    <2>2. ~overlap
        BY <1>8 DEF Creates, CreateRecord
    <2>3. Sensible(log, Call(p).event, Len(log))
        BY <2>1, CreatedCall
    <2>4. Current(log', Created(p))
        BY <1>2, <2>1, <2>2, CreatedIsCurrent
    <2>5. QED BY <1>6, <2>1, <2>2, <2>3, <2>4 DEF UndisturbedInv
<1>9. CASE Dies
    <2>1. \A q \in Procs : Listed(todo'[q]) \subseteq Listed(todo[q])
        BY <1>9, DiesLists
    <2>2. ~overlap /\ log' = log
        BY <1>9 DEF Dies
    <2>3. Sole'
        BY <1>2, <2>1, <2>2, SoleStays
    <2>4. QED BY <1>2, <2>1, <2>2, <2>3 DEF UndisturbedInv
<1>10. QED BY <1>3, <1>4, <1>5, <1>7, <1>8, <1>9 DEF Form

LEMMA IsUndisturbed == Spec => []UndisturbedInv
<1>1. SoundInv /\ UndisturbedInv /\ [Next]_vars => UndisturbedInv'
    <2>1. UndisturbedInv /\ UNCHANGED vars => UndisturbedInv'
        BY DEF UndisturbedInv, vars, handlers, Sole
    <2>2. QED BY <2>1, SoundStep, UndisturbedForms
<1>2. QED BY <1>1, IsSound, UndisturbedInit, PTL DEF Spec

LEMMA AcceptedByPosition ==
    ASSUME SoundInv, NEW i \in Acceptances
    PROVE  /\ i \in 1..Len(log) /\ log[i].type = "lucien.growth_updated"
           /\ log[i].status = "accepted"
           /\ Sensible(log, log[i], i - 1)
           /\ Before(i) = UpTo(log, i)
<1>1. LogSound(log) /\ IsSequence(log)
    BY DEF SoundInv, LogSound
<1>2. i \in 1..Len(log) /\ log[i].type = "lucien.growth_updated" /\ log[i].status = "accepted"
    BY <1>1, LogPositions DEF Acceptances
<1>3. QED BY <1>1, <1>2 DEF LogSound, Before, UpTo

(* Growth enters the self-model only under a claim that was derived and    *)
(* permits it, over all interleavings and crashes; while handlers do not   *)
(* overlap it is the claim of the moment.                                  *)
THEOREM AcceptancesPassTheGate == Spec => []AcceptedUnderGate
<1>1. ASSUME SoundInv, UndisturbedInv PROVE AcceptedUnderGate
    <2>1. ASSUME NEW i \in Acceptances
          PROVE  /\ Permitted(log, log[i].growth, log[i].claim, i - 1)
                 /\ ~overlap => CurrentClaim(Before(i)) = log[i].claim
        <3>1. Permitted(log, log[i].growth, log[i].claim, i - 1)
            BY <1>1, <2>1, AcceptedByPosition DEF Sensible
        <3>2. ASSUME ~overlap PROVE CurrentClaim(Before(i)) = log[i].claim
            BY <1>1, <2>1, <3>2, AcceptedByPosition DEF UndisturbedInv, RecordsCurrent, Accepts
        <3>3. QED BY <3>1, <3>2
    <2>2. QED BY <2>1 DEF AcceptedUnderGate, Permitted
<1>2. QED BY <1>1, IsSound, IsUndisturbed, PTL
-----------------------------------------------------------------------------
(* Growth accepted by a turn.                                              *)

\* Only the handler that proposed growth holds it, and no growth is both
\* accepted by a turn and in conflict.
SettledInv ==
    /\ \A p, q \in Procs : \A c \in Listed(todo[p]), d \in Listed(todo[q]) : \A g :
          Holds(c, g) /\ Holds(d, g) => p = q
    /\ \A p \in Procs : \A c \in Listed(todo[p]) : Settled(log, c)
    /\ \A g : ~(AutoUpdated(log, g) /\ InConflict(log, g))

LEMMA HeldGrowth ==
    ASSUME NEW evs, NEW n \in Nat, Len(evs) = n, NEW c, CallSound(evs, c), NEW g, Holds(c, g)
    PROVE  g \in 1..n
<1>1. CASE c.do \in {"detect_conflict", "auto_accept"} /\ c.own = g
    BY <1>1 DEF CallSound, OnOwn, Proposed
<1>2. CASE c.do = "accept" /\ c.growth = g
    BY <1>2 DEF CallSound, Proposed
<1>3. CASE Says(c, "lucien.growth_updated") /\ c.event.growth = g
    BY <1>3 DEF CallSound, Proposed, Sensible, Says
<1>4. CASE Says(c, "lucien.growth_conflict_detected") /\ c.event.growth = g
    BY <1>4 DEF CallSound, Proposed, Sensible, Says
<1>5. QED BY <1>1, <1>2, <1>3, <1>4 DEF Holds

\* What event e adds to what is known of growth g.
LEMMA MoreKnown ==
    ASSUME NEW evs, IsSequence(evs), NEW e, NEW g
    PROVE  /\ AutoUpdated(Append(evs, e), g) <=>
                 AutoUpdated(evs, g)
                 \/ (e.type = "lucien.growth_updated" /\ e.auto /\ e.growth = g)
           /\ InConflict(Append(evs, e), g) <=>
                 InConflict(evs, g)
                 \/ (e.type = "lucien.growth_conflict_detected" /\ e.growth = g)
<1> DEFINE new == Append(evs, e)
           n == Len(evs) + 1
<1>1. /\ Len(evs) \in Nat /\ Len(new) = n /\ new[n] = e
      /\ \A k \in 1..Len(evs) : new[k] = evs[k]
    BY Appended
<1> HIDE DEF new
<1>2. n \in 1..n /\ 1..n = 1..Len(evs) \cup {n}
    BY <1>1
<1> HIDE DEF n
<1>3. AutoUpdated(new, g) <=>
          AutoUpdated(evs, g) \/ (e.type = "lucien.growth_updated" /\ e.auto /\ e.growth = g)
    BY <1>1, <1>2 DEF AutoUpdated
<1>4. InConflict(new, g) <=>
          InConflict(evs, g) \/ (e.type = "lucien.growth_conflict_detected" /\ e.growth = g)
    BY <1>1, <1>2 DEF InConflict
<1>5. QED BY <1>3, <1>4 DEF new

\* An event about growth that call c holds changes nothing for other growth,
\* and for the calls behind c it is settled.
LEMMA RestStaysSettled ==
    ASSUME NEW evs, IsSequence(evs), NEW x, x.do = "append", Settled(evs, x),
           NEW y, MayPrecede(x, y), Settled(evs, y)
    PROVE  Settled(Append(evs, x.event), y)
<1> SUFFICES ASSUME NEW g, Holds(y, g)
             PROVE  /\ BeforeUpdate(y) => ~AutoUpdated(Append(evs, x.event), g)
                    /\ WithoutConflict(y) => ~InConflict(Append(evs, x.event), g)
    BY DEF Settled
<1>1. \/ y.do = "auto_accept" \/ Says(y, "lucien.growth_conflict_detected")
    BY DEF MayPrecede, Leading, Holds, Says, TaskClosing
<1>2. /\ x.event.type # "lucien.growth_updated"
      /\ x.event.type = "lucien.growth_conflict_detected" =>
            y.do = "auto_accept" /\ y.against # {}
    BY <1>1 DEF MayPrecede, Says
<1>3. BeforeUpdate(y) => ~AutoUpdated(Append(evs, x.event), g)
    BY <1>2, MoreKnown DEF Settled
<1>4. WithoutConflict(y) => ~InConflict(Append(evs, x.event), g)
    <2>1. WithoutConflict(y) => x.event.type # "lucien.growth_conflict_detected"
        BY <1>2 DEF WithoutConflict, Says
    <2>2. QED BY <2>1, MoreKnown DEF Settled
<1>5. QED BY <1>3, <1>4

LEMMA OthersStaySettled ==
    ASSUME NEW evs, IsSequence(evs), NEW x, x.do = "append",
           NEW y, \A g : Holds(y, g) => ~Holds(x, g), Settled(evs, y)
    PROVE  Settled(Append(evs, x.event), y)
<1> SUFFICES ASSUME NEW g, Holds(y, g)
             PROVE  /\ BeforeUpdate(y) => ~AutoUpdated(Append(evs, x.event), g)
                    /\ WithoutConflict(y) => ~InConflict(Append(evs, x.event), g)
    BY DEF Settled
<1>1. ~Holds(x, g)
    OBVIOUS
<1>2. /\ ~(x.event.type = "lucien.growth_updated" /\ x.event.auto /\ x.event.growth = g)
      /\ ~(x.event.type = "lucien.growth_conflict_detected" /\ x.event.growth = g)
    BY <1>1 DEF Holds, Says
<1>3. QED BY <1>2, MoreKnown DEF Settled

LEMMA PairStaysApart ==
    ASSUME NEW evs, IsSequence(evs), NEW x, x.do = "append", Settled(evs, x), NEW g,
           ~(AutoUpdated(evs, g) /\ InConflict(evs, g))
    PROVE  ~(AutoUpdated(Append(evs, x.event), g) /\ InConflict(Append(evs, x.event), g))
<1>1. CASE x.event.type = "lucien.growth_updated" /\ x.event.auto /\ x.event.growth = g
    <2>1. ~InConflict(evs, g) /\ x.event.type # "lucien.growth_conflict_detected"
        BY <1>1 DEF Settled, Holds, Says, WithoutConflict
    <2>2. QED BY <2>1, MoreKnown
<1>2. CASE x.event.type = "lucien.growth_conflict_detected" /\ x.event.growth = g
    <2>1. ~AutoUpdated(evs, g) /\ x.event.type # "lucien.growth_updated"
        BY <1>2 DEF Settled, Holds, Says, BeforeUpdate
    <2>2. QED BY <2>1, MoreKnown
<1>3. QED BY <1>1, <1>2, MoreKnown

LEMMA KnownGrowth ==
    ASSUME NEW evs, LogSound(evs), NEW g, AutoUpdated(evs, g) \/ InConflict(evs, g)
    PROVE  g \in 1..Len(evs)
<1>1. \A i \in 1..Len(evs) : evs[i].type \in {"lucien.growth_updated",
          "lucien.growth_conflict_detected"} => evs[i].growth \in 1..i - 1
    BY DEF LogSound, Sensible, Proposed
<1>2. Len(evs) \in Nat
    BY DEF LogSound, IsSequence
<1>3. QED BY <1>1, <1>2 DEF AutoUpdated, InConflict

HoldersApart ==
    \A p, q \in Procs : \A c \in Listed(todo[p]), d \in Listed(todo[q]) : \A g :
        Holds(c, g) /\ Holds(d, g) => p = q

LEMMA HoldersStayApart ==
    ASSUME SoundInv, HoldersApart, NEW p \in Procs,
           \A q \in Procs \ {p} : todo'[q] = todo[q],
           \A d \in Listed(todo'[p]) : \A g : Holds(d, g) =>
               g = Len(log) + 1 \/ \E c \in Listed(todo[p]) : Holds(c, g)
    PROVE  HoldersApart'
<1>1. \A q \in Procs : \A c \in Listed(todo[q]) : \A g : Holds(c, g) => g # Len(log) + 1
    <2>1. Len(log) \in Nat
        BY DEF SoundInv, LogSound, IsSequence
    <2>2. ASSUME NEW q \in Procs, NEW c \in Listed(todo[q]), NEW g, Holds(c, g)
          PROVE  g # Len(log) + 1
        <3>1. CallSound(log, c)
            BY <2>2 DEF SoundInv
        <3>2. g \in 1..Len(log)
            BY <2>1, <2>2, <3>1, HeldGrowth
        <3>3. QED BY <2>1, <3>2
    <2>3. QED BY <2>2
<1>2. ASSUME NEW q \in Procs \ {p}, NEW c \in Listed(todo'[q]), NEW d \in Listed(todo'[p]), NEW g
      PROVE  ~(Holds(c, g) /\ Holds(d, g))
    BY <1>1, <1>2 DEF HoldersApart
<1>3. ASSUME NEW q \in Procs \ {p}, NEW r \in Procs \ {p},
             NEW c \in Listed(todo'[q]), NEW d \in Listed(todo'[r]), NEW g,
             Holds(c, g), Holds(d, g)
      PROVE  q = r
    BY <1>3 DEF HoldersApart
<1>4. QED BY <1>2, <1>3 DEF HoldersApart

LEMMA SettledInit == Init => SettledInv
<1> SUFFICES ASSUME Init PROVE SettledInv
    OBVIOUS
<1>1. Opening(log) /\ \A p \in Procs : todo[p] = Idle
    BY GrowthAssumption DEF Init, HandlersInit
<1>2. Listed(Idle) = {}
    BY NoElement DEF Idle, Listed
<1>3. ASSUME NEW g PROVE ~InConflict(log, g)
    <2>1. \A i \in 1..Len(log) : log[i] \in StartEvent
        BY <1>1 DEF Opening
    <2>2. \A e \in StartEvent : e.type # "lucien.growth_conflict_detected"
        BY DEF StartEvent
    <2>3. QED BY <2>1, <2>2 DEF InConflict
<1>4. QED BY <1>1, <1>2, <1>3 DEF SettledInv

LEMMA SettledForms == SoundInv /\ SettledInv /\ Form => SettledInv'
<1> SUFFICES ASSUME SoundInv, SettledInv, Form PROVE SettledInv'
    OBVIOUS
<1>1. LogSound(log) /\ IsSequence(log) /\ HoldersApart
    BY DEF SoundInv, LogSound, SettledInv, HoldersApart
<1>2. /\ \A q \in Procs : \A c \in Listed(todo[q]) : Settled(log, c)
      /\ \A g : ~(AutoUpdated(log, g) /\ InConflict(log, g))
    BY DEF SettledInv
<1>3. ASSUME log' = log, HoldersApart', NEW p \in Procs,
             \A q \in Procs \ {p} : todo'[q] = todo[q],
             \A c \in Listed(todo'[p]) : Settled(log, c)
      PROVE  SettledInv'
    <2>1. \A q \in Procs : \A c \in Listed(todo'[q]) : Settled(log, c)
        BY <1>2, <1>3
    <2>2. QED BY <1>2, <1>3, <2>1 DEF SettledInv, HoldersApart
<1>4. ASSUME NEW p \in Procs, NEW calls, Commands(p, calls) PROVE SettledInv'
    <2>1. /\ \A q \in Procs \ {p} : todo'[q] = todo[q]
          /\ todo'[p] = calls
          /\ \A d \in Listed(calls) : LeadsTo(log, Begun, d)
        BY <1>4, CommandsLists
    <2>2. \A g : ~Holds(Begun, g)
        BY DEF Holds, Begun, Says
    <2>3. Settled(log, Begun)
        BY <2>2 DEF Settled
    <2>4. \A d \in Listed(todo'[p]) : Settled(log, d) /\ \A g : ~Holds(d, g)
        BY <2>1, <2>2, <2>3 DEF LeadsTo
    <2>5. HoldersApart'
        BY <1>1, <2>1, <2>4, HoldersStayApart
    <2>6. log' = log
        BY <1>4 DEF Commands
    <2>7. QED BY <1>3, <2>1, <2>4, <2>5, <2>6
<1>5. ASSUME NEW p \in Procs, NEW next, Returns(p, next) PROVE SettledInv'
    <2>1. /\ \A q \in Procs \ {p} : todo'[q] = todo[q]
          /\ Listed(todo'[p]) = Listed(next) \cup Rest(p)
        BY <1>5, ReturnsLists
    <2>2. todo[p] # Idle /\ Leads(log, Call(p), next) /\ log' = log
        BY <1>5 DEF Returns, Passes, Goes
    <2>3. Listed(todo[p]) = {Call(p)} \cup Rest(p)
        BY <2>2, ListedCalls
    <2>4. \A c \in Listed(next) : Settled(log, c) /\ \A g : Holds(c, g) => Holds(Call(p), g)
        BY <1>2, <2>2, <2>3 DEF Leads, LeadsTo, Listed
    <2>5. HoldersApart'
        BY <1>1, <2>1, <2>3, <2>4, HoldersStayApart
    <2>6. \A c \in Listed(todo'[p]) : Settled(log, c)
        BY <1>2, <2>1, <2>3, <2>4
    <2>7. QED BY <1>3, <2>1, <2>2, <2>5, <2>6
<1>6. ASSUME NEW p \in Procs, Raises(p) PROVE SettledInv'
    <2>1. Ends(p) /\ log' = log
        BY <1>6 DEF Raises, Ends
    <2>2. /\ \A q \in Procs \ {p} : todo'[q] = todo[q]
          /\ Listed(todo'[p]) = {}
        BY <2>1, EndsLists
    <2>3. HoldersApart'
        BY <1>1, <2>2, HoldersStayApart
    <2>4. QED BY <1>3, <2>1, <2>2, <2>3
<1>7. ASSUME NEW p \in Procs, Appends(p) PROVE SettledInv'
    <2>1. /\ \A q \in Procs \ {p} : todo'[q] = todo[q]
          /\ Listed(todo'[p]) = Rest(p)
          /\ todo[p] # Idle /\ Call(p).do = "append" /\ Call(p) \in Listed(todo[p])
          /\ log' = Append(log, Call(p).event)
        BY <1>7, AppendsLists
    <2>2. /\ Listed(todo[p]) = {Call(p)} \cup Rest(p)
          /\ \A y \in Rest(p) : MayPrecede(Call(p), y)
        BY <2>1, ListedCalls
    <2>3. HoldersApart'
        BY <1>1, <2>1, <2>2, HoldersStayApart
    <2>4. \A y \in Rest(p) : Settled(log', y)
        BY <1>1, <1>2, <2>1, <2>2, RestStaysSettled
    <2>5. ASSUME NEW q \in Procs \ {p}, NEW c \in Listed(todo[q]) PROVE Settled(log', c)
        <3>1. \A g : Holds(c, g) => ~Holds(Call(p), g)
            BY <1>1, <2>1, <2>5 DEF HoldersApart
        <3>2. QED BY <1>1, <1>2, <2>1, <2>5, <3>1, OthersStaySettled
    <2>6. \A g : ~(AutoUpdated(log', g) /\ InConflict(log', g))
        BY <1>1, <1>2, <2>1, PairStaysApart
    <2>7. \A q \in Procs : \A c \in Listed(todo'[q]) : Settled(log', c)
        BY <2>1, <2>4, <2>5
    <2>8. QED BY <2>3, <2>6, <2>7 DEF SettledInv, HoldersApart
<1>8. ASSUME NEW p \in Procs, Creates(p) PROVE SettledInv'
    <2>1. /\ \A q \in Procs \ {p} : todo'[q] = todo[q]
          /\ Listed(todo'[p]) = {Created(p)} \cup Rest(p)
          /\ todo[p] # Idle /\ Call(p).do = "create" /\ Call(p) \in Listed(todo[p])
          /\ log' = Append(log, Call(p).event)
        BY <1>8, CreatesLists
    <2>2. Listed(todo[p]) = {Call(p)} \cup Rest(p)
        BY <2>1, ListedCalls
    <2>3. /\ Created(p).own = Len(log) + 1
          /\ Created(p).do \in {"enter_session", "detect_conflict"}
          /\ Call(p).event.type \in {"lucien.chat_session_started", "lucien.growth_proposed"}
        BY <2>1, CreatedCall
    <2>4. \A g : Holds(Created(p), g) => g = Len(log) + 1
        BY <2>3 DEF Holds, Says
    <2>5. HoldersApart'
        BY <1>1, <2>1, <2>2, <2>4, HoldersStayApart
    <2>6. \A g : /\ AutoUpdated(log', g) <=> AutoUpdated(log, g)
                 /\ InConflict(log', g) <=> InConflict(log, g)
        BY <1>1, <2>1, <2>3, MoreKnown
    <2>7. ~AutoUpdated(log, Len(log) + 1) /\ ~InConflict(log, Len(log) + 1)
        <3>1. Len(log) \in Nat /\ Len(log) + 1 \notin 1..Len(log)
            BY <1>1 DEF IsSequence
        <3>2. QED BY <1>1, <3>1, KnownGrowth
    <2>8. Settled(log', Created(p))
        BY <2>4, <2>6, <2>7 DEF Settled
    <2>9. \A c : Settled(log, c) => Settled(log', c)
        BY <2>6 DEF Settled
    <2>10. \A q \in Procs : \A c \in Listed(todo'[q]) : Settled(log', c)
        BY <1>2, <2>1, <2>2, <2>8, <2>9
    <2>11. QED BY <1>2, <2>5, <2>6, <2>10 DEF SettledInv, HoldersApart
<1>9. CASE Dies
    <2>1. \A q \in Procs : Listed(todo'[q]) \subseteq Listed(todo[q])
        BY <1>9, DiesLists
    <2>2. log' = log
        BY <1>9 DEF Dies
    <2>3. \A q \in Procs : \A c \in Listed(todo'[q]) : Settled(log, c)
        BY <1>2, <2>1
    <2>4. HoldersApart'
        BY <1>1, <2>1 DEF HoldersApart
    <2>5. QED BY <1>2, <2>2, <2>3, <2>4 DEF SettledInv, HoldersApart
<1>10. QED BY <1>4, <1>5, <1>6, <1>7, <1>8, <1>9 DEF Form

LEMMA IsSettled == Spec => []SettledInv
<1>1. SoundInv /\ SettledInv /\ [Next]_vars => SettledInv'
    <2>1. SettledInv /\ UNCHANGED vars => SettledInv'
        BY DEF SettledInv, vars, handlers
    <2>2. QED BY <2>1, SoundStep, SettledForms
<1>2. QED BY <1>1, IsSound, SettledInit, PTL DEF Spec

(* Growth that a turn accepts by itself has low impact, and no conflict is *)
(* recorded about it, before or after, whatever overlaps; while handlers   *)
(* do not overlap it contradicts no commitment accepted so far.            *)
THEOREM AutoAcceptancesAreSafe == Spec => []AutoAcceptanceIsSafe
<1>1. ASSUME SoundInv, UndisturbedInv, SettledInv PROVE AutoAcceptanceIsSafe
    <2>1. ASSUME NEW i \in Acceptances, log[i].auto
          PROVE  /\ log[log[i].growth].impact = "low"
                 /\ \A c \in Conflicts(log) : log[c].growth # log[i].growth
                 /\ ~overlap /\ log[log[i].growth].contrary => StandingCommitments(Before(i)) = {}
        <3>1. /\ i \in 1..Len(log) /\ log[i].type = "lucien.growth_updated"
              /\ log[i].status = "accepted"
              /\ log[log[i].growth].impact = "low" /\ Proposed(log, log[i].growth, i - 1)
              /\ Before(i) = UpTo(log, i)
            BY <1>1, <2>1, AcceptedByPosition DEF Sensible
        <3>2. AutoUpdated(log, log[i].growth)
            BY <2>1, <3>1 DEF AutoUpdated
        <3>3. ~InConflict(log, log[i].growth)
            BY <1>1, <3>2 DEF SettledInv
        <3>4. IsSequence(log)
            BY <1>1 DEF SoundInv, LogSound
        <3>5. \A c \in Conflicts(log) : log[c].growth # log[i].growth
            BY <3>3, <3>4, LogPositions DEF InConflict, Conflicts
        <3>6. UpTo(log, i)[log[i].growth] = log[log[i].growth]
            BY <3>1, <3>4, Prefix DEF Proposed, UpTo, IsSequence
        <3>7. ASSUME ~overlap, log[log[i].growth].contrary
              PROVE  StandingCommitments(Before(i)) = {}
            <4>1. Accepts(UpTo(log, i), log[i].growth, log[i].claim, log[i].auto)
                BY <1>1, <3>1, <3>7 DEF UndisturbedInv, RecordsCurrent
            <4>2. QED BY <2>1, <3>1, <3>6, <3>7, <4>1 DEF Accepts
        <3>8. QED BY <3>1, <3>5, <3>7
    <2>2. QED BY <2>1 DEF AutoAcceptanceIsSafe
<1>2. QED BY <1>1, IsSound, IsUndisturbed, IsSettled, PTL

-----------------------------------------------------------------------------
(* Reviews of growth.                                                      *)

IsReview(e, g, d) == e.type = "lucien.growth_reviewed" /\ e.growth = g /\ e.decision = d
IsChange(e, g, d) ==
    e.type = "lucien.growth_updated" /\ e.growth = g /\ e.status = d /\ ~e.auto

ReviewsIn(evs, n, g, d) == {i \in 1..n : IsReview(evs[i], g, d)}
ChangesIn(evs, n, g, d) == {i \in 1..n : IsChange(evs[i], g, d)}

\* The handlers that have made a change and are about to record the review.
Reviewing(g, d) ==
    {p \in Procs : /\ todo[p] # Idle
                   /\ Call(p).do = "append" /\ IsReview(Call(p).event, g, d)}

\* Each review recorded, and each about to be, has a change to itself.
ReviewsCovered(g, d) ==
    Covered(ReviewsIn(log, Len(log), g, d), Reviewing(g, d), ChangesIn(log, Len(log), g, d))

ReviewsInv ==
    /\ \A g, d : ReviewsCovered(g, d)
    /\ \A n \in 1..Len(log) : \A g, d :
          Cardinality(ReviewsIn(log, n, g, d)) <= Cardinality(ChangesIn(log, n, g, d))

LEMMA NothingCovered == ASSUME NEW A PROVE Covered({}, {}, A)
<1> DEFINE f == [x \in {} |-> x]
<1>1. f \in [{} -> A]
    OBVIOUS
<1> HIDE DEF f
<1>2. QED BY <1>1 DEF Covered

\* What one more event adds to the reviews and the changes.
LEMMA MoreReviews ==
    ASSUME NEW evs, IsSequence(evs), NEW e, NEW g, NEW d
    PROVE  LET n == Len(evs) + 1
               new == Append(evs, e)
           IN  /\ Len(new) = n /\ n \notin 1..Len(evs)
               /\ ReviewsIn(new, n, g, d) =
                     ReviewsIn(evs, Len(evs), g, d) \cup {k \in {n} : IsReview(e, g, d)}
               /\ ChangesIn(new, n, g, d) =
                     ChangesIn(evs, Len(evs), g, d) \cup {k \in {n} : IsChange(e, g, d)}
<1> DEFINE new == Append(evs, e)
           n == Len(evs) + 1
<1>1. /\ Len(evs) \in Nat /\ Len(new) = n /\ new[n] = e
      /\ \A k \in 1..Len(evs) : new[k] = evs[k]
    BY Appended
<1> HIDE DEF new
<1>2. 1..n = 1..Len(evs) \cup {n} /\ n \notin 1..Len(evs)
    BY <1>1
<1> HIDE DEF n
<1>4. /\ ReviewsIn(new, n, g, d) =
            ReviewsIn(evs, Len(evs), g, d) \cup {k \in {n} : IsReview(e, g, d)}
      /\ ChangesIn(new, n, g, d) =
            ChangesIn(evs, Len(evs), g, d) \cup {k \in {n} : IsChange(e, g, d)}
    BY <1>1, <1>2 DEF ReviewsIn, ChangesIn
<1>5. QED BY <1>1, <1>2, <1>4 DEF new, n

LEMMA EarlierReviews ==
    ASSUME NEW evs, IsSequence(evs), NEW e, NEW g, NEW d, NEW m \in 1..Len(evs)
    PROVE  /\ ReviewsIn(Append(evs, e), m, g, d) = ReviewsIn(evs, m, g, d)
           /\ ChangesIn(Append(evs, e), m, g, d) = ChangesIn(evs, m, g, d)
<1> DEFINE new == Append(evs, e)
<1>1. Len(evs) \in Nat /\ \A k \in 1..Len(evs) : new[k] = evs[k]
    BY Appended
<1> HIDE DEF new
<1>2. \A k \in 1..m : new[k] = evs[k]
    BY <1>1
<1>3. /\ ReviewsIn(new, m, g, d) = ReviewsIn(evs, m, g, d)
      /\ ChangesIn(new, m, g, d) = ChangesIn(evs, m, g, d)
    BY <1>2 DEF ReviewsIn, ChangesIn
<1>4. QED BY <1>3 DEF new

LEMMA ReviewsInit == Init => ReviewsInv
<1> SUFFICES ASSUME Init PROVE ReviewsInv
    OBVIOUS
<1>1. Opening(log) /\ \A p \in Procs : todo[p] = Idle
    BY GrowthAssumption DEF Init, HandlersInit
<1>2. \A i \in 1..Len(log) : log[i].type # "lucien.growth_reviewed"
    <2>1. \A i \in 1..Len(log) : log[i] \in StartEvent
        BY <1>1 DEF Opening
    <2>2. \A e \in StartEvent : e.type # "lucien.growth_reviewed"
        BY DEF StartEvent
    <2>3. QED BY <2>1, <2>2
<1>3. Len(log) \in Nat /\ \A n \in 1..Len(log) : 1..n \subseteq 1..Len(log) /\ IsFiniteSet(1..n)
    <2>1. Len(log) \in Nat
        BY <1>1 DEF Opening
    <2>2. QED BY <2>1, FS_Interval
<1>4. ASSUME NEW g, NEW d PROVE ReviewsCovered(g, d)
    <2>1. ReviewsIn(log, Len(log), g, d) = {}
        BY <1>2 DEF ReviewsIn, IsReview
    <2>2. Reviewing(g, d) = {}
        BY <1>1 DEF Reviewing
    <2>3. QED BY <2>1, <2>2, NothingCovered DEF ReviewsCovered
<1>5. ASSUME NEW n \in 1..Len(log), NEW g, NEW d
      PROVE  Cardinality(ReviewsIn(log, n, g, d)) <= Cardinality(ChangesIn(log, n, g, d))
    <2>1. ReviewsIn(log, n, g, d) = {}
        BY <1>2, <1>3 DEF ReviewsIn, IsReview
    <2>2. IsFiniteSet(ChangesIn(log, n, g, d))
        BY <1>3, FS_Subset DEF ChangesIn
    <2>3. Cardinality(ChangesIn(log, n, g, d)) \in Nat
        BY <2>2, FS_CardinalityType
    <2>4. QED BY <2>1, <2>3, FS_EmptySet
<1>6. QED BY <1>4, <1>5 DEF ReviewsInv

\* When nothing is recorded, no handler comes to be about to record a review.
LEMMA NoNewReviewing ==
    ASSUME SoundInv, ReviewsInv, log' = log,
           \A g, d : Reviewing(g, d)' \subseteq Reviewing(g, d)
    PROVE  ReviewsInv'
<1>1. ASSUME NEW g, NEW d PROVE ReviewsCovered(g, d)'
    BY CoveredShrinks DEF ReviewsInv, ReviewsCovered
<1>2. QED BY <1>1 DEF ReviewsInv

LEMMA RecordedReviews ==
    ASSUME SoundInv, ReviewsInv, NEW e, log' = Append(log, e), \A g, d : ReviewsCovered(g, d)'
    PROVE  ReviewsInv'
<1>1. IsSequence(log) /\ Len(log) \in Nat
    BY DEF SoundInv, LogSound, IsSequence
<1>2. Len(log') = Len(log) + 1
    BY <1>1, Appended
<1>3. ASSUME NEW n \in 1..Len(log'), NEW g, NEW d
      PROVE  Cardinality(ReviewsIn(log', n, g, d)) <= Cardinality(ChangesIn(log', n, g, d))
    <2>1. CASE n \in 1..Len(log)
        <3>1. /\ ReviewsIn(log', n, g, d) = ReviewsIn(log, n, g, d)
              /\ ChangesIn(log', n, g, d) = ChangesIn(log, n, g, d)
            BY <1>1, <2>1, EarlierReviews
        <3>2. Cardinality(ReviewsIn(log, n, g, d)) <= Cardinality(ChangesIn(log, n, g, d))
            BY <2>1 DEF ReviewsInv
        <3>3. QED BY <3>1, <3>2
    <2>2. CASE n = Len(log')
        <3>1. IsFiniteSet(1..Len(log'))
            BY <1>1, <1>2, FS_Interval
        <3>2. IsFiniteSet(ChangesIn(log', n, g, d))
            BY <2>2, <3>1, FS_Subset DEF ChangesIn
        <3>3. QED BY <2>2, <3>2, CoveredCounts DEF ReviewsCovered
    <2>3. QED BY <1>1, <1>2, <2>1, <2>2
<1>4. QED BY <1>3 DEF ReviewsInv

\* Only the processes whose head call is about to change matter.
LEMMA ReviewingHeads ==
    ASSUME NEW p \in Procs, \A q \in Procs \ {p} : todo'[q] = todo[q], NEW g, NEW d
    PROVE  Reviewing(g, d)' \subseteq Reviewing(g, d) \cup {p}
BY DEF Reviewing, Call

LEMMA ReviewingOthers ==
    ASSUME NEW p \in Procs, \A q \in Procs \ {p} : todo'[q] = todo[q], NEW g, NEW d,
           todo'[p] # Idle => ~Says(Head(todo'[p]), "lucien.growth_reviewed")
    PROVE  Reviewing(g, d)' \subseteq Reviewing(g, d) \ {p}
BY DEF Reviewing, Call, Says, IsReview

\* A review that comes to the front has the change in front of it.
LEMMA ReviewBehind ==
    ASSUME SoundInv, NEW p \in Procs, todo[p] # Idle, todo'[p] = Tail(todo[p]),
           todo'[p] # Idle, Says(Head(todo'[p]), "lucien.growth_reviewed")
    PROVE  Changes(Call(p), Head(todo'[p]).event)
<1>1. Ordered(todo'[p]) /\ \A y \in Rest(p) : MayPrecede(Call(p), y)
    BY ListedCalls
<1>2. Head(todo'[p]) \in Rest(p)
    BY <1>1, FirstListed DEF Rest
<1>3. QED BY <1>1, <1>2 DEF MayPrecede

LEMMA ReviewedAppend ==
    ASSUME SoundInv, ReviewsInv, NEW p \in Procs, Appends(p), NEW g, NEW d
    PROVE  ReviewsCovered(g, d)'
<1> DEFINE e == Call(p).event
           n == Len(log) + 1
           P == ReviewsIn(log, Len(log), g, d)
           H == Reviewing(g, d)
           A == ChangesIn(log, Len(log), g, d)
<1>1. /\ \A q \in Procs \ {p} : todo'[q] = todo[q]
      /\ todo'[p] = Tail(todo[p]) /\ todo[p] # Idle /\ Call(p).do = "append"
      /\ log' = Append(log, Call(p).event)
    BY AppendsLists
<1>2. IsSequence(log)
    BY DEF SoundInv, LogSound
<1>3. /\ Len(log') = n /\ n \notin 1..Len(log)
      /\ ReviewsIn(log', Len(log'), g, d) = P \cup {k \in {n} : IsReview(e, g, d)}
      /\ ChangesIn(log', Len(log'), g, d) = A \cup {k \in {n} : IsChange(e, g, d)}
    BY <1>1, <1>2, MoreReviews
<1>4. n \notin P /\ n \notin A
    BY <1>3 DEF ReviewsIn, ChangesIn
<1>5. Covered(P, H, A)
    BY DEF ReviewsInv, ReviewsCovered
<1>6. p \in H <=> IsReview(e, g, d)
    BY <1>1 DEF Reviewing
<1>7. todo'[p] # Idle /\ Says(Head(todo'[p]), "lucien.growth_reviewed") =>
          Changes(Call(p), Head(todo'[p]).event)
    BY <1>1, ReviewBehind
<1>8. CASE IsReview(e, g, d)
    <2>1. ~IsChange(e, g, d) /\ ~Says(Call(p), "lucien.growth_updated")
        BY <1>8 DEF IsReview, IsChange, Says
    <2>2. Reviewing(g, d)' \subseteq H \ {p}
        BY <1>1, <1>7, <2>1, ReviewingOthers DEF Changes
    <2>3. /\ ReviewsIn(log', Len(log'), g, d) = P \cup {n}
          /\ ChangesIn(log', Len(log'), g, d) = A
        BY <1>3, <1>8, <2>1
    <2>4. Covered(P \cup {n}, H \ {p}, A)
        BY <1>4, <1>5, <1>6, <1>8, CoveredByHolder
    <2>5. Covered(P \cup {n}, Reviewing(g, d)', A)
        BY <2>2, <2>4, CoveredShrinks
    <2>6. QED BY <2>3, <2>5 DEF ReviewsCovered
<1>9. CASE IsChange(e, g, d)
    <2>1. ~IsReview(e, g, d)
        BY <1>9 DEF IsReview, IsChange
    <2>2. Reviewing(g, d)' \subseteq H \cup {p}
        BY <1>1, ReviewingHeads
    <2>3. /\ ReviewsIn(log', Len(log'), g, d) = P
          /\ ChangesIn(log', Len(log'), g, d) = A \cup {n}
        BY <1>3, <1>9, <2>1
    <2>4. Covered(P, H \cup {p}, A \cup {n})
        BY <1>4, <1>5, <1>6, <2>1, CoveredByNew
    <2>5. Covered(P, Reviewing(g, d)', A \cup {n})
        BY <2>2, <2>4, CoveredShrinks
    <2>6. QED BY <2>3, <2>5 DEF ReviewsCovered
<1>10. CASE ~IsReview(e, g, d) /\ ~IsChange(e, g, d)
    <2>1. p \notin Reviewing(g, d)'
        BY <1>1, <1>7, <1>10 DEF Reviewing, Call, IsReview, IsChange, Says, Changes
    <2>2. Reviewing(g, d)' \subseteq H
        BY <1>1, <2>1, ReviewingHeads
    <2>3. /\ ReviewsIn(log', Len(log'), g, d) = P
          /\ ChangesIn(log', Len(log'), g, d) = A
        BY <1>3, <1>10
    <2>4. Covered(P, Reviewing(g, d)', A)
        BY <1>5, <2>2, CoveredShrinks
    <2>5. QED BY <2>3, <2>4 DEF ReviewsCovered
<1>11. QED BY <1>8, <1>9, <1>10

LEMMA ReviewedCreate ==
    ASSUME SoundInv, ReviewsInv, NEW p \in Procs, Creates(p), NEW g, NEW d
    PROVE  ReviewsCovered(g, d)'
<1> DEFINE e == Call(p).event
           n == Len(log) + 1
<1>1. /\ \A q \in Procs \ {p} : todo'[q] = todo[q]
      /\ Head(todo'[p]) = Created(p) /\ todo[p] # Idle /\ Call(p).do = "create"
      /\ log' = Append(log, Call(p).event)
    BY CreatesLists
<1>2. /\ Created(p).do \in {"enter_session", "detect_conflict"}
      /\ e.type \in {"lucien.chat_session_started", "lucien.growth_proposed"}
    BY <1>1, CreatedCall
<1>3. IsSequence(log)
    BY DEF SoundInv, LogSound
<1>4. ~IsReview(e, g, d) /\ ~IsChange(e, g, d)
    BY <1>2 DEF IsReview, IsChange
<1>5. /\ ReviewsIn(log', Len(log'), g, d) = ReviewsIn(log, Len(log), g, d)
      /\ ChangesIn(log', Len(log'), g, d) = ChangesIn(log, Len(log), g, d)
    <2>1. /\ Len(log') = n
          /\ ReviewsIn(log', n, g, d) =
                ReviewsIn(log, Len(log), g, d) \cup {k \in {n} : IsReview(e, g, d)}
          /\ ChangesIn(log', n, g, d) =
                ChangesIn(log, Len(log), g, d) \cup {k \in {n} : IsChange(e, g, d)}
        BY <1>1, <1>3, MoreReviews
    <2>2. QED BY <1>4, <2>1
<1>6. Reviewing(g, d)' \subseteq Reviewing(g, d) \ {p}
    BY <1>1, <1>2, ReviewingOthers DEF Says
<1>7. Covered(ReviewsIn(log, Len(log), g, d), Reviewing(g, d), ChangesIn(log, Len(log), g, d))
    BY DEF ReviewsInv, ReviewsCovered
<1>8. QED BY <1>5, <1>6, <1>7, CoveredShrinks DEF ReviewsCovered

LEMMA ReviewsForms == SoundInv /\ ReviewsInv /\ Form => ReviewsInv'
<1> SUFFICES ASSUME SoundInv, ReviewsInv, Form PROVE ReviewsInv'
    OBVIOUS
<1>1. ASSUME NEW p \in Procs, NEW calls, Commands(p, calls) PROVE ReviewsInv'
    <2>1. /\ \A q \in Procs \ {p} : todo'[q] = todo[q]
          /\ todo'[p] = calls /\ Ordered(calls)
          /\ \A d \in Listed(calls) : LeadsTo(log, Begun, d)
        BY <1>1, CommandsLists
    <2>2. todo'[p] # Idle => ~Says(Head(todo'[p]), "lucien.growth_reviewed")
        BY <2>1, FirstListed DEF LeadsTo, Begun
    <2>3. \A g, d : Reviewing(g, d)' \subseteq Reviewing(g, d)
        BY <2>1, <2>2, ReviewingOthers
    <2>4. log' = log
        BY <1>1 DEF Commands
    <2>5. QED BY <2>3, <2>4, NoNewReviewing
<1>2. ASSUME NEW p \in Procs, NEW next, Returns(p, next) PROVE ReviewsInv'
    <2>1. /\ \A q \in Procs \ {p} : todo'[q] = todo[q]
          /\ Len(next) # 0 => todo'[p] # Idle /\ Head(todo'[p]) = next[1]
          /\ Len(next) = 0 => todo'[p] = Tail(todo[p])
        BY <1>2, ReturnsLists
    <2>2. /\ todo[p] # Idle /\ Leads(log, Call(p), next) /\ log' = log
          /\ PassesOn(log, shell, Call(p), next)
          /\ Call(p).do \notin {"begin", "append", "create"}
        BY <1>2 DEF Returns, Passes, Goes
    <2>3. ASSUME Len(next) # 0 PROVE ~Says(Head(todo'[p]), "lucien.growth_reviewed")
        <3>1. LeadsTo(log, Call(p), next[1])
            <4>1. 1 \in 1..Len(next)
                BY <2>2, <2>3 DEF Leads, Ordered, IsSequence
            <4>2. QED BY <2>2, <4>1 DEF Leads
        <3>2. QED BY <2>1, <2>2, <2>3, <3>1 DEF LeadsTo, PassesOn, Says
    <2>4. ASSUME Len(next) = 0, todo'[p] # Idle
          PROVE  ~Says(Head(todo'[p]), "lucien.growth_reviewed")
        BY <2>1, <2>2, <2>4, ReviewBehind DEF Changes, PassesOn, Says
    <2>5. \A g, d : Reviewing(g, d)' \subseteq Reviewing(g, d)
        BY <2>1, <2>3, <2>4, ReviewingOthers
    <2>6. QED BY <2>2, <2>5, NoNewReviewing
<1>3. ASSUME NEW p \in Procs, Raises(p) PROVE ReviewsInv'
    <2>1. Ends(p) /\ log' = log
        BY <1>3 DEF Raises, Ends
    <2>2. /\ \A q \in Procs \ {p} : todo'[q] = todo[q]
          /\ todo'[p] = Idle
        BY <2>1, EndsLists
    <2>3. \A g, d : Reviewing(g, d)' \subseteq Reviewing(g, d)
        BY <2>2, ReviewingOthers
    <2>4. QED BY <2>1, <2>3, NoNewReviewing
<1>4. ASSUME NEW p \in Procs, Appends(p) PROVE ReviewsInv'
    <2>1. log' = Append(log, Call(p).event)
        BY <1>4, AppendsLists
    <2>2. QED BY <1>4, <2>1, ReviewedAppend, RecordedReviews
<1>5. ASSUME NEW p \in Procs, Creates(p) PROVE ReviewsInv'
    <2>1. log' = Append(log, Call(p).event)
        BY <1>5, CreatesLists
    <2>2. QED BY <1>5, <2>1, ReviewedCreate, RecordedReviews
<1>6. CASE Dies
    <2>1. \A g, d : Reviewing(g, d)' \subseteq Reviewing(g, d)
        BY <1>6 DEF Dies, Reviewing, Call
    <2>2. log' = log
        BY <1>6 DEF Dies
    <2>3. QED BY <2>1, <2>2, NoNewReviewing
<1>7. QED BY <1>1, <1>2, <1>3, <1>4, <1>5, <1>6 DEF Form

(* No growth has more reviews with a decision than changes to that status, *)
(* at any point of the ledger, whichever handlers overlap or die.          *)
THEOREM ReviewsHaveChanges == Spec => []ReviewsFollowChanges
<1>1. SoundInv /\ ReviewsInv /\ [Next]_vars => ReviewsInv'
    <2>1. ReviewsInv /\ UNCHANGED vars => ReviewsInv'
        BY DEF ReviewsInv, ReviewsCovered, Reviewing, Call, vars, handlers
    <2>2. QED BY <2>1, SoundStep, ReviewsForms
<1>2. Spec => []ReviewsInv
    BY <1>1, IsSound, ReviewsInit, PTL DEF Spec
<1>3. ASSUME SoundInv, ReviewsInv PROVE ReviewsFollowChanges
    <2>1. DOMAIN log = 1..Len(log)
        BY <1>3, LogPositions DEF SoundInv, LogSound
    <2>2. ASSUME NEW n \in 1..Len(log)
          PROVE  Cardinality({i \in 1..n : /\ log[i].type = "lucien.growth_reviewed"
                                           /\ log[i].growth = log[n].growth
                                           /\ log[i].decision = log[n].decision})
                 <= Cardinality({i \in 1..n : /\ log[i].type = "lucien.growth_updated"
                                              /\ log[i].growth = log[n].growth
                                              /\ log[i].status = log[n].decision
                                              /\ ~log[i].auto})
        <3>1. ReviewsIn(log, n, log[n].growth, log[n].decision) =
                  {i \in 1..n : /\ log[i].type = "lucien.growth_reviewed"
                                /\ log[i].growth = log[n].growth
                                /\ log[i].decision = log[n].decision}
            BY DEF ReviewsIn, IsReview
        <3>2. ChangesIn(log, n, log[n].growth, log[n].decision) =
                  {i \in 1..n : /\ log[i].type = "lucien.growth_updated"
                                /\ log[i].growth = log[n].growth
                                /\ log[i].status = log[n].decision
                                /\ ~log[i].auto}
            BY DEF ChangesIn, IsChange
        <3>3. Cardinality(ReviewsIn(log, n, log[n].growth, log[n].decision))
              <= Cardinality(ChangesIn(log, n, log[n].growth, log[n].decision))
            BY <1>3, <2>2 DEF ReviewsInv
        <3>4. QED BY <3>1, <3>2, <3>3
    <2>3. QED BY <2>1, <2>2 DEF ReviewsFollowChanges
<1>4. QED BY <1>2, <1>3, IsSound, PTL

-----------------------------------------------------------------------------
(* The tasks of reflections.                                               *)

\* Task x is there and was not closed before event i.
Opened(evs, i, x) == \E t \in 1..Len(evs) : evs[t] = x /\ \A j \in Closings(evs, t) : j > i
Promised(x) == \E p \in Procs : \E c \in Listed(todo[p]) : Pressing(c, x)

\* What a reflection called for is opened, or is still to be.
PressureInv == ~killed =>
    \A i \in 1..Len(log) : log[i].type = "lucien.reflection_recorded" =>
        \A x : InSpecs(log[i], x) => Opened(log, i, x) \/ Promised(x)

LEMMA ClosingsInLog ==
    ASSUME NEW evs, IsSequence(evs), NEW t
    PROVE  Closings(evs, t) = {j \in 1..Len(evs) : evs[j].type \in TaskClosing /\ evs[j].task = t}
BY LogPositions DEF Closings, TaskClosing

LEMMA StaysOpened ==
    ASSUME NEW evs, IsSequence(evs), NEW e, NEW i \in 1..Len(evs), NEW x, Opened(evs, i, x)
    PROVE  Opened(Append(evs, e), i, x)
<1> DEFINE new == Append(evs, e)
           n == Len(evs) + 1
<1>1. /\ IsSequence(new) /\ Len(evs) \in Nat /\ Len(new) = n
      /\ \A k \in 1..Len(evs) : new[k] = evs[k]
    BY Appended
<1> HIDE DEF new
<1>2. PICK t \in 1..Len(evs) : evs[t] = x /\ \A j \in Closings(evs, t) : j > i
    BY DEF Opened
<1>3. t \in 1..Len(new) /\ new[t] = x
    BY <1>1, <1>2
<1>4. ASSUME NEW j \in Closings(new, t) PROVE j > i
    <2>1. j \in 1..Len(new) /\ new[j].type \in TaskClosing /\ new[j].task = t
        BY <1>1, <1>4, ClosingsInLog
    <2>2. CASE j \in 1..Len(evs)
        BY <1>1, <1>2, <2>1, <2>2, ClosingsInLog
    <2>3. CASE j = n
        BY <1>1, <2>3
    <2>4. QED BY <1>1, <2>1, <2>2, <2>3
<1>5. Opened(new, i, x)
    BY <1>3, <1>4 DEF Opened
<1>6. QED BY <1>5 DEF new

LEMMA OpenedNow ==
    ASSUME NEW evs, LogSound(evs), NEW x, Sensible(evs, x, Len(evs)), NEW i \in 1..Len(evs)
    PROVE  Opened(Append(evs, x), i, x)
<1> DEFINE new == Append(evs, x)
           n == Len(evs) + 1
<1>1. /\ IsSequence(new) /\ Len(evs) \in Nat /\ Len(new) = n /\ new[n] = x
      /\ LogSound(new)
    BY Appended, LogStaysSound DEF LogSound
<1> HIDE DEF new
<1>2. ASSUME NEW j \in Closings(new, n) PROVE FALSE
    <2>1. j \in 1..Len(new) /\ new[j].type \in TaskClosing /\ new[j].task = n
        BY <1>1, <1>2, ClosingsInLog
    <2>2. new[j].task \in 1..j - 1
        BY <1>1, <2>1 DEF LogSound, Sensible
    <2>3. QED BY <1>1, <2>1, <2>2
<1>3. n \in 1..Len(new)
    BY <1>1
<1>4. Opened(new, i, x)
    BY <1>1, <1>2, <1>3 DEF Opened
<1>5. QED BY <1>4 DEF new

LEMMA PressureInit == Init => PressureInv
<1> SUFFICES ASSUME Init PROVE PressureInv
    OBVIOUS
<1>1. \A i \in 1..Len(log) : log[i] \in StartEvent
    BY GrowthAssumption DEF Init, HandlersInit, Opening
<1>2. \A e \in StartEvent : e.type # "lucien.reflection_recorded"
    BY DEF StartEvent
<1>3. QED BY <1>1, <1>2 DEF PressureInv

\* The tasks that a reflection still has to open are in front.
LEMMA TaskingFirst ==
    ASSUME SoundInv, NEW p \in Procs, todo[p] # Idle, Call(p).do # "append", NEW x,
           NEW c \in Listed(todo[p]), Pressing(c, x)
    PROVE  c = Call(p) /\ c.do = "open_tasks"
<1>1. /\ Listed(todo[p]) = {Call(p)} \cup Rest(p)
      /\ \A y \in Rest(p) : MayPrecede(Call(p), y)
    BY ListedCalls
<1>2. Tasking(c)
    BY DEF Pressing, Tasking
<1>3. c = Call(p)
    BY <1>1, <1>2 DEF MayPrecede
<1>4. QED BY <1>3 DEF Pressing, Says

LEMMA StaysPromised ==
    ASSUME NEW p \in Procs, \A q \in Procs \ {p} : todo'[q] = todo[q], NEW x, Promised(x),
           \A c \in Listed(todo[p]) : Pressing(c, x) =>
               \E d \in Listed(todo'[p]) : Pressing(d, x)
    PROVE  Promised(x)'
BY DEF Promised

LEMMA PressureForms == SoundInv /\ PressureInv /\ Form => PressureInv'
<1> SUFFICES ASSUME SoundInv, PressureInv, Form, ~killed' PROVE PressureInv'
    BY DEF PressureInv
<1>1. LogSound(log) /\ IsSequence(log) /\ Len(log) \in Nat
    BY DEF SoundInv, LogSound, IsSequence
<1>2. ASSUME ~killed, log' = log,
             \A x : Promised(x) => Promised(x)' \/ \A i \in 1..Len(log) : Opened(log, i, x)
      PROVE  PressureInv'
    BY <1>2 DEF PressureInv
<1>3. ASSUME NEW p \in Procs, NEW calls, Commands(p, calls) PROVE PressureInv'
    <2>1. \A q \in Procs \ {p} : todo'[q] = todo[q]
        BY <1>3, CommandsLists
    <2>2. ~killed /\ log' = log /\ Listed(todo[p]) = {}
        BY <1>3, ListedCalls DEF Commands
    <2>3. \A x : Promised(x) => Promised(x)'
        BY <2>1, <2>2, StaysPromised
    <2>4. QED BY <1>2, <2>2, <2>3
<1>4. ASSUME NEW p \in Procs, NEW next, Returns(p, next) PROVE PressureInv'
    <2>1. /\ \A q \in Procs \ {p} : todo'[q] = todo[q]
          /\ Listed(todo'[p]) = Listed(next) \cup Rest(p)
        BY <1>4, ReturnsLists
    <2>2. /\ todo[p] # Idle /\ Call(p).do \notin {"begin", "append", "create"}
          /\ PassesOn(log, shell, Call(p), next) /\ log' = log /\ ~killed
        BY <1>4 DEF Returns, Passes, Goes
    <2>3. ASSUME NEW x, Promised(x), ~Promised(x)', NEW i \in 1..Len(log)
          PROVE  Opened(log, i, x)
        <3>1. PICK c \in Listed(todo[p]) : Pressing(c, x) /\ \A d \in Listed(todo'[p]) : ~Pressing(d, x)
            BY <2>1, <2>3, StaysPromised
        <3>2. c = Call(p) /\ c.do = "open_tasks" /\ InSpecs(c.reflection, x)
            BY <2>2, <3>1, TaskingFirst DEF Pressing, Says
        <3>3. \A k \in 1..Len(next) : ~Pressing(next[k], x)
            BY <2>1, <3>1 DEF Listed
        <3>4. PICK t \in OpenTasks(log) : log[t] = x
            BY <2>2, <3>2, <3>3 DEF PassesOn
        <3>5. t \in 1..Len(log) /\ Closings(log, t) = {}
            BY <1>1, <3>4, TasksInLog DEF OpenTasks
        <3>6. QED BY <3>4, <3>5 DEF Opened
    <2>4. QED BY <1>2, <2>2, <2>3
<1>5. ASSUME NEW p \in Procs, Raises(p) PROVE PressureInv'
    <2>1. /\ Ends(p) /\ log' = log /\ ~killed /\ todo[p] # Idle
          /\ Call(p).do \notin {"append", "open_tasks"}
        BY <1>5 DEF Raises, Ends
    <2>2. \A q \in Procs \ {p} : todo'[q] = todo[q]
        BY <2>1, EndsLists
    <2>3. \A x : Promised(x) => Promised(x)'
        BY <2>1, <2>2, StaysPromised, TaskingFirst
    <2>4. QED BY <1>2, <2>1, <2>3
<1>6. ASSUME NEW p \in Procs, Appends(p) PROVE PressureInv'
    <2> DEFINE e == Call(p).event
               n == Len(log) + 1
    <2>1. /\ \A q \in Procs \ {p} : todo'[q] = todo[q]
          /\ Listed(todo'[p]) = Rest(p)
          /\ todo[p] # Idle /\ Call(p).do = "append" /\ Sensible(log, e, Len(log))
          /\ log' = Append(log, e)
        BY <1>6, AppendsLists
    <2>2. /\ Listed(todo[p]) = {Call(p)} \cup Rest(p)
          /\ Owing(Call(p)) => \E y \in Rest(p) : Owes(Call(p), y)
        BY <2>1, ListedCalls
    <2>3. ~killed
        BY <1>6 DEF Appends, AppendEvent
    <2>4. Len(log') = n /\ (\A k \in 1..Len(log) : log'[k] = log[k]) /\ log'[n] = e
        BY <1>1, <2>1, Appended
    <2> HIDE DEF e
    <2>5. ASSUME NEW i \in 1..Len(log), log[i].type = "lucien.reflection_recorded",
                 NEW x, InSpecs(log[i], x)
          PROVE  Opened(log', i, x) \/ Promised(x)'
        <3>1. CASE Opened(log, i, x)
            BY <1>1, <2>1, <3>1, StaysOpened
        <3>2. CASE Promised(x) /\ Pressing(Call(p), x)
            <4>1. e = x
                BY <2>1, <3>2 DEF Pressing, e
            <4>2. QED BY <1>1, <2>1, <4>1, OpenedNow
        <3>3. CASE Promised(x) /\ ~Pressing(Call(p), x)
            BY <2>1, <2>2, <3>3, StaysPromised
        <3>4. QED BY <2>3, <2>5, <3>1, <3>2, <3>3 DEF PressureInv
    <2>6. ASSUME e.type = "lucien.reflection_recorded", NEW x, InSpecs(e, x)
          PROVE  Promised(x)'
        <3>1. PICK y \in Rest(p) : Owes(Call(p), y)
            BY <2>1, <2>2, <2>6 DEF Owing, Says, e
        <3>2. Pressing(y, x)
            BY <2>1, <2>6, <3>1 DEF Owes, Says, OpenTasksFrom, Pressing, e
        <3>3. QED BY <2>1, <3>1, <3>2 DEF Promised
    <2>7. ASSUME NEW i \in 1..Len(log'), log'[i].type = "lucien.reflection_recorded",
                 NEW x, InSpecs(log'[i], x)
          PROVE  Opened(log', i, x) \/ Promised(x)'
        <3>1. CASE i \in 1..Len(log)
            BY <2>4, <2>5, <2>7, <3>1
        <3>2. CASE i = n
            BY <2>4, <2>6, <2>7, <3>2
        <3>3. QED BY <1>1, <2>4, <3>1, <3>2
    <2>8. QED BY <2>7 DEF PressureInv
<1>7. ASSUME NEW p \in Procs, Creates(p) PROVE PressureInv'
    <2> DEFINE e == Call(p).event
               n == Len(log) + 1
    <2>1. /\ \A q \in Procs \ {p} : todo'[q] = todo[q]
          /\ todo[p] # Idle /\ Call(p).do = "create" /\ log' = Append(log, e)
        BY <1>7, CreatesLists
    <2>2. e.type \in {"lucien.chat_session_started", "lucien.growth_proposed"}
        BY <2>1, CreatedCall
    <2>3. ~killed
        BY <1>7 DEF Creates, CreateRecord
    <2>4. Len(log') = n /\ (\A k \in 1..Len(log) : log'[k] = log[k]) /\ log'[n] = e
        BY <1>1, <2>1, Appended
    <2>5. \A x : Promised(x) => Promised(x)'
        BY <2>1, StaysPromised, TaskingFirst
    <2>6. ASSUME NEW i \in 1..Len(log'), log'[i].type = "lucien.reflection_recorded",
                 NEW x, InSpecs(log'[i], x)
          PROVE  Opened(log', i, x) \/ Promised(x)'
        <3>1. i \in 1..Len(log) /\ log'[i] = log[i]
            BY <1>1, <2>2, <2>4, <2>6
        <3>2. Opened(log, i, x) => Opened(log', i, x)
            BY <1>1, <2>1, <3>1, StaysOpened
        <3>3. QED BY <2>3, <2>5, <2>6, <3>1, <3>2 DEF PressureInv
    <2>7. QED BY <2>6 DEF PressureInv
<1>8. ~Dies
    BY DEF Dies
<1>9. QED BY <1>3, <1>4, <1>5, <1>6, <1>7, <1>8 DEF Form

(* Between commands, all the pressure that a reflection saw has had a task *)
(* that was open then or was opened since, whatever overlapped.            *)
THEOREM PressureHasItsTask == Spec => []PressureGetsATask
<1>1. SoundInv /\ PressureInv /\ [Next]_vars => PressureInv'
    <2>1. PressureInv /\ UNCHANGED vars => PressureInv'
        BY DEF PressureInv, Promised, vars, handlers
    <2>2. QED BY <2>1, SoundStep, PressureForms
<1>2. Spec => []PressureInv
    BY <1>1, IsSound, PressureInit, PTL DEF Spec
<1>3. ASSUME SoundInv, PressureInv PROVE PressureGetsATask
    <2> SUFFICES ASSUME Quiescent, ~killed,
                        NEW i \in Positions(log, "lucien.reflection_recorded"),
                        NEW k \in DOMAIN TaskSpecs(log[i])
                 PROVE  \E t \in Tasks(log) :
                            log[t] = TaskSpecs(log[i])[k] /\ \A j \in Closings(log, t) : j > i
        BY DEF PressureGetsATask
    <2> DEFINE x == TaskSpecs(log[i])[k]
    <2>1. IsSequence(log)
        BY <1>3 DEF SoundInv, LogSound
    <2>2. i \in 1..Len(log) /\ log[i].type = "lucien.reflection_recorded"
        BY <2>1, LogPositions
    <2>3. /\ k \in 1..Len(TaskSpecs(log[i])) /\ x \in Listed(TaskSpecs(log[i]))
          /\ x.type = "reflection.task_opened"
        <3>1. k \in 1..Len(TaskSpecs(log[i]))
            BY ListedTasks DEF IsSequence
        <3>2. x \in Listed(TaskSpecs(log[i]))
            BY <3>1 DEF Listed
        <3>3. QED BY <3>1, <3>2, ListedTasks
    <2>4. InSpecs(log[i], x)
        BY <2>3 DEF InSpecs
    <2>5. ~Promised(x)
        BY <1>3, NoneListed DEF Promised
    <2>6. Opened(log, i, x)
        BY <1>3, <2>2, <2>4, <2>5 DEF PressureInv
    <2>7. PICK t \in 1..Len(log) : log[t] = x /\ \A j \in Closings(log, t) : j > i
        BY <2>6 DEF Opened
    <2>8. t \in Tasks(log)
        BY <2>1, <2>3, <2>7, TasksInLog
    <2>9. QED BY <2>7, <2>8
<1>4. QED BY <1>2, <1>3, IsSound, PTL

-----------------------------------------------------------------------------
(* The tasks to resolve conflicts.                                         *)

\* The calls that close task t.
Awaited(c, t) == (c.do = "resolve_tasks" /\ c.kind = "resolve_conflict") \/ Closes(c, t)
Expected(t) == \E p \in Procs : \E c \in Listed(todo[p]) : Awaited(c, t)

\* While handlers do not overlap, only a command to close one task can find it
\* closed; and the tasks older than a resolution are closed or will be.
LoopInv ==
    ~overlap =>
        /\ \A p \in Procs : \A c \in Listed(todo[p]) :
              c.do = "close_task" => c.task \in OpenTasks(log) \/ Listed(todo[p]) = {c}
        /\ ~killed =>
              \A i \in 1..Len(log) : log[i].type = "lucien.growth_conflict_resolved" =>
                  \A t \in OpenTasks(log) :
                      log[t].kind = "resolve_conflict" => t > i \/ Expected(t)

LEMMA MoreOpenTasks ==
    ASSUME NEW evs, IsSequence(evs), NEW e, NEW t
    PROVE  /\ t \in OpenTasks(Append(evs, e)) =>
                 \/ t \in OpenTasks(evs) /\ ~(e.type \in TaskClosing /\ e.task = t)
                 \/ t = Len(evs) + 1 /\ e.type = "reflection.task_opened"
           /\ t \in OpenTasks(evs) /\ ~(e.type \in TaskClosing /\ e.task = t) =>
                 t \in OpenTasks(Append(evs, e))
<1> DEFINE new == Append(evs, e)
           n == Len(evs) + 1
<1>1. /\ IsSequence(new) /\ Len(evs) \in Nat /\ Len(new) = n /\ new[n] = e
      /\ \A k \in 1..Len(evs) : new[k] = evs[k]
    BY Appended
<1> HIDE DEF new
<1>2. 1..n = 1..Len(evs) \cup {n} /\ n \in 1..n
    BY <1>1
<1> HIDE DEF n
<1>3. Closings(new, t) = {} <=>
          Closings(evs, t) = {} /\ ~(e.type \in TaskClosing /\ e.task = t)
    <2>1. Closings(evs, t) = {j \in 1..Len(evs) : evs[j].type \in TaskClosing /\ evs[j].task = t}
        BY ClosingsInLog
    <2>2. Closings(new, t) = {j \in 1..n : new[j].type \in TaskClosing /\ new[j].task = t}
        BY <1>1, ClosingsInLog
    <2>3. QED BY <1>1, <1>2, <2>1, <2>2
<1>4. t \in Tasks(new) <=> t \in Tasks(evs) \/ (t = n /\ e.type = "reflection.task_opened")
    <2>1. Tasks(evs) = {k \in 1..Len(evs) : evs[k].type = "reflection.task_opened"}
        BY TasksInLog
    <2>2. Tasks(new) = {k \in 1..n : new[k].type = "reflection.task_opened"}
        BY <1>1, TasksInLog
    <2>3. QED BY <1>1, <1>2, <2>1, <2>2
<1>5. /\ t \in OpenTasks(evs) <=> t \in Tasks(evs) /\ Closings(evs, t) = {}
      /\ t \in OpenTasks(new) <=> t \in Tasks(new) /\ Closings(new, t) = {}
    BY DEF OpenTasks
<1>6. /\ t \in OpenTasks(new) =>
            \/ t \in OpenTasks(evs) /\ ~(e.type \in TaskClosing /\ e.task = t)
            \/ t = n /\ e.type = "reflection.task_opened"
      /\ t \in OpenTasks(evs) /\ ~(e.type \in TaskClosing /\ e.task = t) => t \in OpenTasks(new)
    BY <1>3, <1>4, <1>5
<1>7. QED BY <1>6 DEF new, n

LEMMA LoopInit == Init => LoopInv
<1> SUFFICES ASSUME Init PROVE LoopInv
    OBVIOUS
<1>1. Opening(log) /\ \A p \in Procs : todo[p] = Idle
    BY GrowthAssumption DEF Init, HandlersInit
<1>2. Listed(Idle) = {}
    BY NoElement DEF Idle, Listed
<1>3. \A i \in 1..Len(log) : log[i] \in StartEvent
    BY <1>1 DEF Opening
<1>4. \A e \in StartEvent : e.type # "lucien.growth_conflict_resolved"
    BY DEF StartEvent
<1>5. QED BY <1>1, <1>2, <1>3, <1>4 DEF LoopInv

LEMMA StaysExpected ==
    ASSUME NEW p \in Procs, \A q \in Procs \ {p} : todo'[q] = todo[q], NEW t, Expected(t),
           \A c \in Listed(todo[p]) : Awaited(c, t) =>
               \E d \in Listed(todo'[p]) : Awaited(d, t)
    PROVE  Expected(t)'
BY DEF Expected

\* Of the calls still to come after a call that does not append, none closes
\* another task than it does.
LEMMA AwaitedFirst ==
    ASSUME SoundInv, NEW p \in Procs, todo[p] # Idle,
           Call(p).do \notin {"append", "close_task"}, NEW t,
           NEW c \in Listed(todo[p]), Awaited(c, t)
    PROVE  c = Call(p) /\ c.do = "resolve_tasks" /\ c.kind = "resolve_conflict"
<1>1. /\ Listed(todo[p]) = {Call(p)} \cup Rest(p)
      /\ \A y \in Rest(p) : MayPrecede(Call(p), y)
    BY ListedCalls
<1>2. ASSUME MayPrecede(Call(p), c) PROVE FALSE
    <2>1. ~Leading(c) /\ ~Says(Call(p), "lucien.growth_conflict_resolved")
          /\ \A u : ~Closes(Call(p), u)
        BY <1>2 DEF MayPrecede, Says, Closes
    <2>2. QED BY <1>2, <2>1 DEF MayPrecede, Awaited, Closes, Leading
<1>3. c = Call(p)
    BY <1>1, <1>2
<1>4. QED BY <1>3 DEF Awaited, Closes

\* A call to close a task that has another in front finds it open.
LEMMA RestOpen ==
    ASSUME SoundInv, LoopInv, ~overlap, NEW p \in Procs, todo[p] # Idle,
           NEW c \in Rest(p), c.do = "close_task"
    PROVE  /\ c.task \in OpenTasks(log)
           /\ \E t : Closes(Call(p), t) /\ t # c.task
<1>1. /\ Listed(todo[p]) = {Call(p)} \cup Rest(p)
      /\ \A y \in Rest(p) : MayPrecede(Call(p), y)
    BY ListedCalls
<1>2. PICK t : Closes(Call(p), t) /\ t # c.task
    BY <1>1 DEF MayPrecede
<1>3. Call(p) # c
    BY <1>2 DEF Closes
<1>4. QED BY <1>1, <1>2, <1>3 DEF LoopInv

LEMMA LoopForms == SoundInv /\ UndisturbedInv /\ LoopInv /\ Form => LoopInv'
<1> SUFFICES ASSUME SoundInv, UndisturbedInv, LoopInv, Form, ~overlap' PROVE LoopInv'
    BY DEF LoopInv
<1>1. LogSound(log) /\ IsSequence(log) /\ Len(log) \in Nat
    BY DEF SoundInv, LogSound, IsSequence
<1>2. ASSUME ~overlap, log' = log,
             \A p \in Procs : \A c \in Listed(todo'[p]) : c.do = "close_task" =>
                 c.task \in OpenTasks(log) \/ Listed(todo'[p]) = {c},
             ~killed' => ~killed /\ \A t \in OpenTasks(log) :
                 log[t].kind = "resolve_conflict" /\ Expected(t) => Expected(t)'
      PROVE  LoopInv'
    BY <1>2 DEF LoopInv
<1>3. ASSUME NEW p \in Procs, NEW calls, Commands(p, calls) PROVE LoopInv'
    <2>1. /\ \A q \in Procs \ {p} : todo'[q] = todo[q]
          /\ todo'[p] = calls
        BY <1>3, CommandsLists
    <2>2. ~overlap /\ log' = log /\ killed' = killed /\ Listed(todo[p]) = {}
        BY <1>3, ListedCalls DEF Commands
    <2>3. ASSUME NEW c \in Listed(calls), c.do = "close_task" PROVE Listed(calls) = {c}
        <3>1. Len(calls) = 1
            BY <1>3, <2>3 DEF Commands, Begins, BegunIn, Listed
        <3>2. QED BY <2>3, <3>1 DEF Listed
    <2>4. \A t : Expected(t) => Expected(t)'
        BY <2>1, <2>2, StaysExpected
    <2>5. \A q \in Procs : \A c \in Listed(todo'[q]) : c.do = "close_task" =>
              c.task \in OpenTasks(log) \/ Listed(todo'[q]) = {c}
        BY <2>1, <2>2, <2>3 DEF LoopInv
    <2>6. QED BY <1>2, <2>2, <2>4, <2>5
<1>4. ASSUME NEW p \in Procs, NEW next, Returns(p, next) PROVE LoopInv'
    <2>1. /\ \A q \in Procs \ {p} : todo'[q] = todo[q]
          /\ Listed(todo'[p]) = Listed(next) \cup Rest(p)
        BY <1>4, ReturnsLists
    <2>2. /\ todo[p] # Idle /\ Call(p).do \notin {"begin", "append", "create"}
          /\ Leads(log, Call(p), next) /\ PassesOn(log, shell, Call(p), next)
          /\ log' = log /\ killed' = killed /\ ~overlap
        BY <1>4 DEF Returns, Passes, Goes
    <2>3. Listed(todo[p]) = {Call(p)} \cup Rest(p)
        BY <2>2, ListedCalls
    <2>4. \A c \in Listed(next) : c.do = "close_task" => c.task \in OpenTasks(log)
        BY <2>2 DEF Leads, LeadsTo, Listed
    <2>5. \A c \in Rest(p) : c.do = "close_task" => c.task \in OpenTasks(log)
        BY <2>2, RestOpen
    <2>6. ASSUME NEW t \in OpenTasks(log), log[t].kind = "resolve_conflict",
                 Expected(t), ~Expected(t)'
          PROVE  FALSE
        <3>1. PICK c \in Listed(todo[p]) :
                  Awaited(c, t) /\ \A d \in Listed(todo'[p]) : ~Awaited(d, t)
            BY <2>1, <2>6, StaysExpected
        <3>2. c = Call(p)
            BY <2>1, <2>3, <3>1
        <3>3. \A k \in 1..Len(next) : ~Awaited(next[k], t)
            BY <2>1, <3>1 DEF Listed
        <3>4. CASE c.do = "resolve_tasks" /\ c.kind = "resolve_conflict"
            BY <2>2, <2>6, <3>2, <3>3, <3>4 DEF PassesOn, Awaited
        <3>5. CASE Closes(c, t)
            BY <2>2, <3>2, <3>3, <3>5 DEF PassesOn, Awaited, Closes
        <3>6. QED BY <3>1, <3>4, <3>5 DEF Awaited
    <2>7. \A q \in Procs : \A c \in Listed(todo'[q]) : c.do = "close_task" =>
              c.task \in OpenTasks(log) \/ Listed(todo'[q]) = {c}
        BY <2>1, <2>2, <2>4, <2>5 DEF LoopInv
    <2>8. QED BY <1>2, <2>2, <2>6, <2>7
<1>5. ASSUME NEW p \in Procs, Raises(p) PROVE LoopInv'
    <2>1. /\ Ends(p) /\ log' = log /\ killed' = killed /\ ~overlap /\ todo[p] # Idle
          /\ Call(p).do \notin {"append", "resolve_tasks"}
          /\ Call(p).do = "close_task" => Call(p).task \notin OpenTasks(log)
        BY <1>5 DEF Raises, Ends
    <2>2. /\ \A q \in Procs \ {p} : todo'[q] = todo[q]
          /\ Listed(todo'[p]) = {}
        BY <2>1, EndsLists
    <2>3. ASSUME NEW t \in OpenTasks(log), NEW c \in Listed(todo[p]), Awaited(c, t) PROVE FALSE
        <3>1. CASE Call(p).do = "close_task"
            <4>1. Listed(todo[p]) = {Call(p)} \cup Rest(p)
                BY <2>1, ListedCalls
            <4>2. c = Call(p)
                BY <2>1, <3>1, <4>1 DEF LoopInv
            <4>3. QED BY <2>1, <2>3, <3>1, <4>2 DEF Awaited, Closes
        <3>2. CASE Call(p).do # "close_task"
            BY <2>1, <2>3, <3>2, AwaitedFirst
        <3>3. QED BY <3>1, <3>2
    <2>4. \A t \in OpenTasks(log) : Expected(t) => Expected(t)'
        BY <2>2, <2>3, StaysExpected
    <2>5. \A q \in Procs : \A c \in Listed(todo'[q]) : c.do = "close_task" =>
              c.task \in OpenTasks(log) \/ Listed(todo'[q]) = {c}
        BY <2>1, <2>2 DEF LoopInv
    <2>6. QED BY <1>2, <2>1, <2>4, <2>5
<1>6. ASSUME NEW p \in Procs, todo[p] # Idle, ~overlap
      PROVE  \A q \in Procs \ {p} : Listed(todo[q]) = {}
    BY <1>6, ListedCalls DEF UndisturbedInv, Sole
<1>7. ASSUME NEW p \in Procs, Appends(p) PROVE LoopInv'
    <2> DEFINE e == Call(p).event
               n == Len(log) + 1
    <2>1. /\ \A q \in Procs \ {p} : todo'[q] = todo[q]
          /\ Listed(todo'[p]) = Rest(p)
          /\ todo[p] # Idle /\ Call(p).do = "append" /\ log' = Append(log, e)
        BY <1>7, AppendsLists
    <2>2. /\ Listed(todo[p]) = {Call(p)} \cup Rest(p)
          /\ Owing(Call(p)) => \E y \in Rest(p) : Owes(Call(p), y)
        BY <2>1, ListedCalls
    <2>3. killed' = killed /\ ~overlap
        BY <1>7 DEF Appends, AppendEvent
    <2>4. Len(log') = n /\ (\A k \in 1..Len(log) : log'[k] = log[k]) /\ log'[n] = e
        BY <1>1, <2>1, Appended
    <2>5. ASSUME NEW c \in Rest(p), c.do = "close_task" PROVE c.task \in OpenTasks(log')
        <3>1. PICK t : Closes(Call(p), t) /\ t # c.task
            BY <2>1, <2>3, <2>5, RestOpen
        <3>2. c.task \in OpenTasks(log)
            BY <2>1, <2>3, <2>5, RestOpen
        <3>3. ~(e.type \in TaskClosing /\ e.task = c.task)
            BY <2>1, <3>1 DEF Closes
        <3>4. QED BY <1>1, <2>1, <3>2, <3>3, MoreOpenTasks
    <2>6. \A q \in Procs : \A c \in Listed(todo'[q]) : c.do = "close_task" =>
              c.task \in OpenTasks(log')
        BY <1>6, <2>1, <2>3, <2>5
    <2>7. ASSUME ~killed, NEW i \in 1..Len(log), log[i].type = "lucien.growth_conflict_resolved",
                 NEW t \in OpenTasks(log'), log'[t].kind = "resolve_conflict"
          PROVE  t > i \/ Expected(t)'
        <3>1. CASE t = n
            BY <1>1, <3>1
        <3>2. CASE t \in OpenTasks(log) /\ ~(e.type \in TaskClosing /\ e.task = t)
            <4>1. ~Awaited(Call(p), t)
                BY <2>1, <3>2 DEF Awaited, Closes
            <4>2. Expected(t) => Expected(t)'
                BY <2>1, <2>2, <4>1, StaysExpected
            <4>3. log[t].kind = "resolve_conflict"
                BY <1>1, <2>4, <2>7, <3>2, TasksInLog
            <4>4. QED BY <2>3, <2>7, <3>2, <4>2, <4>3 DEF LoopInv
        <3>3. QED BY <1>1, <2>1, <2>7, <3>1, <3>2, MoreOpenTasks
    <2>8. ASSUME e.type = "lucien.growth_conflict_resolved", NEW t PROVE Expected(t)'
        <3>1. PICK y \in Rest(p) : Owes(Call(p), y)
            BY <2>1, <2>2, <2>8 DEF Owing, Says
        <3>2. Awaited(y, t)
            BY <2>1, <2>8, <3>1 DEF Owes, Says, ResolveTasks, Awaited
        <3>3. QED BY <2>1, <3>1, <3>2 DEF Expected
    <2>9. ASSUME ~killed, NEW i \in 1..Len(log'),
                 log'[i].type = "lucien.growth_conflict_resolved",
                 NEW t \in OpenTasks(log'), log'[t].kind = "resolve_conflict"
          PROVE  t > i \/ Expected(t)'
        <3>1. CASE i \in 1..Len(log)
            BY <2>4, <2>7, <2>9, <3>1
        <3>2. CASE i = n
            BY <2>4, <2>8, <2>9, <3>2
        <3>3. QED BY <1>1, <2>4, <3>1, <3>2
    <2>10. QED BY <2>3, <2>6, <2>9 DEF LoopInv
<1>8. ASSUME NEW p \in Procs, Creates(p) PROVE LoopInv'
    <2> DEFINE e == Call(p).event
               n == Len(log) + 1
    <2>1. /\ \A q \in Procs \ {p} : todo'[q] = todo[q]
          /\ Listed(todo'[p]) = {Created(p)} \cup Rest(p)
          /\ todo[p] # Idle /\ Call(p).do = "create" /\ log' = Append(log, e)
        BY <1>8, CreatesLists
    <2>2. /\ e.type \in {"lucien.chat_session_started", "lucien.growth_proposed"}
          /\ Created(p).do \in {"enter_session", "detect_conflict"}
        BY <2>1, CreatedCall
    <2>3. killed' = killed /\ ~overlap
        BY <1>8 DEF Creates, CreateRecord
    <2>4. Len(log') = n /\ (\A k \in 1..Len(log) : log'[k] = log[k]) /\ log'[n] = e
        BY <1>1, <2>1, Appended
    <2>5. \A c \in Rest(p) : c.do # "close_task"
        BY <2>1, <2>3, RestOpen DEF Closes
    <2>6. \A q \in Procs : \A c \in Listed(todo'[q]) : c.do # "close_task"
        BY <1>6, <2>1, <2>2, <2>3, <2>5
    <2>7. \A t : Expected(t) => Expected(t)'
        BY <2>1, StaysExpected, AwaitedFirst
    <2>8. ASSUME ~killed, NEW i \in 1..Len(log'),
                 log'[i].type = "lucien.growth_conflict_resolved",
                 NEW t \in OpenTasks(log'), log'[t].kind = "resolve_conflict"
          PROVE  t > i \/ Expected(t)'
        <3>1. i \in 1..Len(log) /\ log'[i] = log[i]
            BY <1>1, <2>2, <2>4, <2>8
        <3>2. t \in OpenTasks(log)
            BY <1>1, <2>1, <2>2, <2>8, MoreOpenTasks
        <3>3. log[t].kind = "resolve_conflict"
            BY <1>1, <2>4, <2>8, <3>2, TasksInLog
        <3>4. QED BY <2>3, <2>7, <2>8, <3>1, <3>2, <3>3 DEF LoopInv
    <2>9. QED BY <2>3, <2>6, <2>8 DEF LoopInv
<1>9. CASE Dies
    <2>1. \A q \in Procs : todo'[q] \in {todo[q], Idle}
        BY <1>9 DEF Dies
    <2>2. Listed(Idle) = {}
        BY NoElement DEF Idle, Listed
    <2>3. log' = log /\ killed' /\ ~overlap
        BY <1>9 DEF Dies
    <2>4. \A q \in Procs : \A c \in Listed(todo'[q]) : c.do = "close_task" =>
              c.task \in OpenTasks(log) \/ Listed(todo'[q]) = {c}
        BY <2>1, <2>2, <2>3 DEF LoopInv
    <2>5. QED BY <1>2, <2>3, <2>4
<1>10. QED BY <1>3, <1>4, <1>5, <1>7, <1>8, <1>9 DEF Form

(* While handlers do not overlap, a conflict is resolved once, and between *)
(* commands no task to resolve conflicts that is older is left open.       *)
THEOREM ResolutionsCloseTheLoop == Spec => []ConflictsCloseTheLoop
<1>1. SoundInv /\ UndisturbedInv /\ LoopInv /\ [Next]_vars => LoopInv'
    <2>1. ASSUME LoopInv, UNCHANGED vars PROVE LoopInv'
        <3>1. log' = log /\ todo' = todo /\ overlap' = overlap /\ killed' = killed
            BY <2>1 DEF vars, handlers
        <3>2. \A t : Expected(t)' <=> Expected(t)
            BY <3>1 DEF Expected
        <3>3. QED BY <2>1, <3>1, <3>2 DEF LoopInv
    <2>2. QED BY <2>1, SoundStep, LoopForms
<1>2. Spec => []LoopInv
    BY <1>1, IsSound, IsUndisturbed, LoopInit, PTL DEF Spec
<1>3. ASSUME SoundInv, UndisturbedInv, LoopInv PROVE ConflictsCloseTheLoop
    <2>1. IsSequence(log)
        BY <1>3 DEF SoundInv, LogSound
    <2>2. ASSUME ~overlap, NEW c \in Conflicts(log)
          PROVE  Cardinality(ResolutionsOf(log, c)) <= 1
        <3> DEFINE R == ResolutionsOf(log, c)
        <3>1. \A i, j \in R : i = j
            BY <1>3, <2>2 DEF UndisturbedInv, RecordsCurrent, ResolutionsOf
        <3>2. CASE R = {}
            BY <3>2, FS_EmptySet
        <3>3. CASE R # {}
            <4>1. PICK i \in R : R = {i}
                BY <3>1, <3>3
            <4>2. Cardinality({i}) = 1
                BY FS_Singleton
            <4>3. QED BY <4>1, <4>2
        <3>4. QED BY <3>2, <3>3
    <2>3. ASSUME ~overlap, Quiescent, ~killed,
                 NEW i \in Positions(log, "lucien.growth_conflict_resolved"),
                 NEW t \in OpenTasks(log), log[t].kind = "resolve_conflict"
          PROVE  t > i
        <3>1. i \in 1..Len(log) /\ log[i].type = "lucien.growth_conflict_resolved"
            BY <2>1, LogPositions
        <3>2. ~Expected(t)
            BY <1>3, <2>3, NoneListed DEF Expected
        <3>3. QED BY <1>3, <2>3, <3>1, <3>2 DEF LoopInv
    <2>4. QED BY <2>2, <2>3 DEF ConflictsCloseTheLoop
<1>4. QED BY <1>2, <1>3, IsSound, IsUndisturbed, PTL

-----------------------------------------------------------------------------
(* Chat sessions.                                                          *)

Forgets(p) == \E c \in Listed(todo[p]) : c.do = "forget_session"

\* Each record of a session was right when it was made.
SessionRecords(evs) == \A i \in 1..Len(evs) :
    LET pre == UpTo(evs, i)
        s == evs[i].session
    IN  /\ evs[i].type = "lucien.chat_turn_recorded" =>
              evs[i].index = Cardinality(TurnsOf(pre, s)) + 1 /\ ClosingsOf(pre, s) = {}
        /\ evs[i].type = "lucien.chat_session_closed" =>
              evs[i].turns = Cardinality(TurnsOf(pre, s)) /\ ClosingsOf(pre, s) = {}

\* Only a thread makes the shell forget its session.  While handlers do not
\* overlap, every call finds its session open, and the shell's session has not
\* ended, or is about to be forgotten.
SessionsInv ==
    /\ \A p \in Procs : Forgets(p) => p \in Threads
    /\ ~overlap =>
          /\ \A p \in Procs : \A c \in Listed(todo[p]) : SessionOpen(log, c)
          /\ \A p \in Procs : \A c \in Listed(todo[p]) :
                shell # 0 /\ MayEnd(c, shell) => Forgets(p)
          /\ shell # 0 /\ ClosingsOf(log, shell) # {} => \E p \in Procs : Forgets(p)
          /\ SessionRecords(log)

LEMMA MoreClosings ==
    ASSUME NEW evs, IsSequence(evs), NEW e, NEW s
    PROVE  ClosingsOf(Append(evs, e), s) = {} <=>
               ClosingsOf(evs, s) = {} /\ ~(e.type = "lucien.chat_session_closed" /\ e.session = s)
<1> DEFINE new == Append(evs, e)
           n == Len(evs) + 1
<1>1. /\ IsSequence(new) /\ Len(evs) \in Nat /\ Len(new) = n /\ new[n] = e
      /\ \A k \in 1..Len(evs) : new[k] = evs[k]
    BY Appended
<1> HIDE DEF new
<1>2. 1..n = 1..Len(evs) \cup {n} /\ n \in 1..n
    BY <1>1
<1> HIDE DEF n
<1>3. ClosingsOf(evs, s) = {} <=>
          \A i \in 1..Len(evs) : ~(evs[i].type = "lucien.chat_session_closed" /\ evs[i].session = s)
    BY LogPositions DEF ClosingsOf
<1>4. ClosingsOf(new, s) = {} <=>
          \A i \in 1..n : ~(new[i].type = "lucien.chat_session_closed" /\ new[i].session = s)
    BY <1>1, LogPositions DEF ClosingsOf
<1>5. ClosingsOf(new, s) = {} <=>
          ClosingsOf(evs, s) = {} /\ ~(e.type = "lucien.chat_session_closed" /\ e.session = s)
    BY <1>1, <1>2, <1>3, <1>4
<1>6. QED BY <1>5 DEF new

LEMMA NewSessionOpen ==
    ASSUME NEW evs, LogSound(evs), NEW e, e.type # "lucien.chat_session_closed"
    PROVE  ClosingsOf(Append(evs, e), Len(evs) + 1) = {}
<1>1. IsSequence(evs) /\ Len(evs) \in Nat
    BY DEF LogSound, IsSequence
<1>2. \A i \in 1..Len(evs) : evs[i].type = "lucien.chat_session_closed" =>
          evs[i].session \in 1..i - 1
    BY DEF LogSound, Sensible
<1>3. \A i \in 1..Len(evs) : evs[i].type = "lucien.chat_session_closed" =>
          evs[i].session # Len(evs) + 1
    BY <1>1, <1>2
<1>4. ClosingsOf(evs, Len(evs) + 1) = {}
    BY <1>1, <1>3, LogPositions DEF ClosingsOf
<1>5. QED BY <1>1, <1>4, MoreClosings

\* A record that is right when it is made.
LEMMA RecordsStayRight ==
    ASSUME NEW evs, IsSequence(evs), SessionRecords(evs), NEW e,
           e.type = "lucien.chat_turn_recorded" =>
               /\ e.index = Cardinality(TurnsOf(evs, e.session)) + 1
               /\ ClosingsOf(evs, e.session) = {},
           e.type = "lucien.chat_session_closed" =>
               /\ e.turns = Cardinality(TurnsOf(evs, e.session))
               /\ ClosingsOf(evs, e.session) = {}
    PROVE  SessionRecords(Append(evs, e))
<1> DEFINE new == Append(evs, e)
           n == Len(evs) + 1
<1>1. /\ Len(evs) \in Nat /\ Len(new) = n /\ new[n] = e
      /\ \A k \in 1..Len(evs) : new[k] = evs[k] /\ UpTo(new, k) = UpTo(evs, k)
      /\ UpTo(new, n) = evs
    BY Appended, PrefixStays
<1> HIDE DEF new
<1>2. ASSUME NEW i \in 1..Len(new)
      PROVE  /\ new[i].type = "lucien.chat_turn_recorded" =>
                   /\ new[i].index = Cardinality(TurnsOf(UpTo(new, i), new[i].session)) + 1
                   /\ ClosingsOf(UpTo(new, i), new[i].session) = {}
             /\ new[i].type = "lucien.chat_session_closed" =>
                   /\ new[i].turns = Cardinality(TurnsOf(UpTo(new, i), new[i].session))
                   /\ ClosingsOf(UpTo(new, i), new[i].session) = {}
    <2>1. CASE i \in 1..Len(evs)
        BY <1>1, <2>1 DEF SessionRecords
    <2>2. CASE i = n
        BY <1>1, <2>2
    <2>3. QED BY <1>1, <1>2, <2>1, <2>2
<1>3. SessionRecords(new)
    BY <1>2 DEF SessionRecords
<1>4. QED BY <1>3 DEF new

\* What is behind the end of a session is in no session yet.
LEMMA RestStaysOpen ==
    ASSUME NEW evs, IsSequence(evs), NEW x, x.do \in {"append", "create"},
           x.do = "create" => x.event.type # "lucien.chat_session_closed",
           NEW y, MayPrecede(x, y), SessionOpen(evs, y)
    PROVE  SessionOpen(Append(evs, x.event), y)
<1>1. /\ y.do \notin {"enter_session", "create", "see_self", "detect_conflict"}
      /\ ~Says(y, "lucien.chat_turn_recorded") /\ ~Says(y, "lucien.chat_session_closed")
    BY DEF MayPrecede, Leading, Says, TaskClosing
<1>2. y.do \in SessionCalls => x.event.type # "lucien.chat_session_closed"
    <2>1. y.do \in SessionCalls => y.do \in {"turn_growth", "auto_accept", "record_turn", "close_session"}
        BY <1>1 DEF SessionCalls
    <2>2. QED BY <2>1 DEF MayPrecede, Reflecting
<1>3. QED BY <1>1, <1>2, MoreClosings DEF SessionOpen

LEMMA SessionsInit == Init => SessionsInv
<1> SUFFICES ASSUME Init PROVE SessionsInv
    OBVIOUS
<1>1. shell = 0 /\ Opening(log) /\ \A p \in Procs : todo[p] = Idle
    BY GrowthAssumption DEF Init, HandlersInit
<1>2. Listed(Idle) = {}
    BY NoElement DEF Idle, Listed
<1>3. \A i \in 1..Len(log) : log[i] \in StartEvent
    BY <1>1 DEF Opening
<1>4. \A e \in StartEvent :
          e.type \notin {"lucien.chat_turn_recorded", "lucien.chat_session_closed"}
    BY DEF StartEvent
<1>5. SessionRecords(log)
    BY <1>3, <1>4 DEF SessionRecords
<1>6. QED BY <1>1, <1>2, <1>5 DEF SessionsInv, Forgets

\* The call to forget the session is behind the one that ends it.
LEMMA ForgetsBehind ==
    ASSUME SoundInv, NEW p \in Procs, todo[p] # Idle, Forgets(p), Call(p).do # "forget_session"
    PROVE  ClosesSession(Call(p)) /\ \E f \in Rest(p) : f.do = "forget_session"
<1>1. /\ Listed(todo[p]) = {Call(p)} \cup Rest(p)
      /\ \A y \in Rest(p) : MayPrecede(Call(p), y)
    BY ListedCalls
<1>2. PICK f \in Rest(p) : f.do = "forget_session"
    BY <1>1 DEF Forgets
<1>3. QED BY <1>1, <1>2 DEF MayPrecede

LEMMA StaysForgetting ==
    ASSUME SoundInv, NEW p \in Procs, todo[p] # Idle, Call(p).do # "forget_session",
           \A q \in Procs \ {p} : todo'[q] = todo[q], Rest(p) \subseteq Listed(todo'[p])
    PROVE  \A q \in Procs : Forgets(q) => Forgets(q)'
<1>1. Forgets(p) => Forgets(p)'
    BY ForgetsBehind DEF Forgets
<1>2. \A q \in Procs \ {p} : Forgets(q) => Forgets(q)'
    BY DEF Forgets
<1>3. QED BY <1>1, <1>2

LEMMA SessionsCommand ==
    ASSUME SoundInv, UndisturbedInv, SessionsInv, NEW p \in Procs, NEW calls, Commands(p, calls)
    PROVE  SessionsInv'
<1>1. /\ \A q \in Procs \ {p} : todo'[q] = todo[q]
      /\ todo'[p] = calls
      /\ \A d \in Listed(calls) : LeadsTo(log, Begun, d)
    BY CommandsLists
<1>2. /\ log' = log /\ shell' = shell /\ BegunIn(log, shell, p, calls)
      /\ overlap' = (overlap \/ ~Quiescent)
    BY DEF Commands, Begins
<1>3. \A d \in Listed(calls) :
          /\ d.do = "forget_session" => p \in Threads
          /\ SessionOpen(log, d) \/ d = CloseSession(shell)
          /\ \A r : MayEnd(d, r) => r = shell /\ Forgets(p)'
    <2>1. ASSUME NEW d \in Listed(calls)
          PROVE  /\ d.do = "forget_session" => p \in Threads
                 /\ SessionOpen(log, d) \/ d = CloseSession(shell)
                 /\ \A r : MayEnd(d, r) => r = shell /\ Forgets(p)'
        <3>1. PICK k \in 1..Len(calls) : d = calls[k]
            BY <2>1 DEF Listed
        <3>2. /\ d.do = "forget_session" => p \in Threads
              /\ SessionOpen(log, d) \/ d = CloseSession(shell)
            BY <1>2, <3>1 DEF BegunIn
        <3>3. ASSUME NEW r, MayEnd(d, r) PROVE r = shell /\ Forgets(p)'
            <4>1. r = shell /\ \E m \in 1..Len(calls) :
                      k < m /\ calls[m].do = "forget_session"
                BY <1>2, <3>1, <3>3 DEF BegunIn
            <4>2. \E f \in Listed(calls) : f.do = "forget_session"
                BY <4>1 DEF Listed
            <4>3. QED BY <1>1, <4>1, <4>2 DEF Forgets
        <3>4. QED BY <3>2, <3>3
    <2>2. QED BY <2>1
<1>4. \A q \in Procs : Forgets(q)' => q \in Threads
    BY <1>1, <1>3 DEF SessionsInv, Forgets
<1>5. ASSUME ~overlap'
      PROVE  /\ \A q \in Procs : \A c \in Listed(todo'[q]) : SessionOpen(log, c)
             /\ \A q \in Procs : \A c \in Listed(todo'[q]) : MayEnd(c, shell) => Forgets(q)'
             /\ shell # 0 => ClosingsOf(log, shell) = {}
    <2>1. ~overlap /\ \A q \in Procs : Listed(todo[q]) = {}
        BY <1>2, <1>5, NoneListed
    <2>2. shell # 0 => ClosingsOf(log, shell) = {}
        BY <2>1 DEF SessionsInv, Forgets
    <2>3. ASSUME NEW d \in Listed(calls) PROVE SessionOpen(log, d)
        <3>1. CASE d = CloseSession(shell)
            <4>1. d.do = "close_session" /\ d.session = shell
                BY <3>1 DEF CloseSession
            <4>2. CallSound(log, d)
                BY <1>1, <2>3 DEF LeadsTo
            <4>3. shell \in 1..Len(log)
                BY <4>1, <4>2 DEF CallSound
            <4>4. shell # 0
                BY <4>3 DEF SoundInv, LogSound, IsSequence
            <4>5. QED BY <2>2, <4>1, <4>4 DEF SessionOpen, Says
        <3>2. QED BY <1>3, <3>1
    <2>4. QED BY <1>1, <1>3, <2>1, <2>2, <2>3
<1>6. overlap \/ SessionRecords(log)
    BY DEF SessionsInv
<1>7. QED BY <1>2, <1>4, <1>5, <1>6 DEF SessionsInv

LEMMA SessionsReturn ==
    ASSUME SoundInv, UndisturbedInv, SessionsInv, NEW p \in Procs, NEW next, Returns(p, next)
    PROVE  SessionsInv'
<1> DEFINE c == Call(p)
<1>1. /\ \A q \in Procs \ {p} : todo'[q] = todo[q]
      /\ Listed(todo'[p]) = Listed(next) \cup Rest(p)
    BY ReturnsLists
<1>2. /\ todo[p] # Idle /\ c.do \notin {"begin", "append", "create"}
      /\ Leads(log, c, next) /\ PassesOn(log, shell, c, next)
      /\ log' = log /\ overlap' = overlap
    BY DEF Returns, Passes, Goes
<1>3. /\ Listed(todo[p]) = {c} \cup Rest(p)
      /\ \A y \in Rest(p) : MayPrecede(c, y)
    BY <1>2, ListedCalls
<1>4. \A d \in Listed(next) :
          /\ d.do # "forget_session" /\ \A s : MayEnd(d, s) => MayEnd(c, s)
          /\ c.do # "start_session" /\ SessionOpen(log, c) => SessionOpen(log, d)
    BY <1>2 DEF Leads, LeadsTo, Listed
<1>5. \A q \in Procs : Forgets(q)' => q \in Threads
    BY <1>1, <1>3, <1>4 DEF SessionsInv, Forgets
<1> HIDE DEF c
<1>6. ASSUME ~overlap
      PROVE  /\ \A q \in Procs : \A y \in Listed(todo[q]) : SessionOpen(log, y)
             /\ \A q \in Procs : \A y \in Listed(todo[q]) : MayEnd(y, shell) /\ shell # 0 => Forgets(q)
             /\ shell # 0 /\ ClosingsOf(log, shell) # {} => \E q \in Procs : Forgets(q)
             /\ SessionRecords(log)
             /\ \A q \in Procs \ {p} : Listed(todo[q]) = {}
    BY <1>3, <1>6 DEF SessionsInv, UndisturbedInv, Sole
<1>7. ASSUME ~overlap, NEW y \in Listed(todo'[p]) PROVE SessionOpen(log, y)
    <2>1. CASE y \in Rest(p)
        BY <1>3, <1>6, <1>7, <2>1
    <2>2. CASE y \in Listed(next) /\ c.do # "start_session"
        BY <1>3, <1>4, <1>6, <1>7, <2>2
    <2>3. CASE y \in Listed(next) /\ c.do = "start_session"
        <3>1. ~Forgets(p)
            BY <1>2, <2>3, ForgetsBehind DEF ClosesSession, Says, c
        <3>2. shell # 0 => ClosingsOf(log, shell) = {}
            BY <1>6, <1>7, <3>1 DEF Forgets
        <3>3. QED BY <1>2, <2>3, <3>2 DEF PassesOn, Listed
    <2>4. QED BY <1>1, <1>7, <2>1, <2>2, <2>3
<1>8. CASE shell' = shell /\ c.do # "forget_session"
    <2>1. Forgets(p) => Forgets(p)'
        BY <1>1, <1>2, <1>8, ForgetsBehind DEF Forgets, c
    <2>2. ASSUME ~overlap, shell # 0, NEW y \in Listed(todo'[p]), MayEnd(y, shell) PROVE Forgets(p)'
        BY <1>1, <1>3, <1>4, <1>6, <2>1, <2>2
    <2>3. ASSUME ~overlap, shell # 0, ClosingsOf(log, shell) # {} PROVE Forgets(p)'
        BY <1>6, <2>1, <2>3 DEF Forgets
    <2>4. QED BY <1>1, <1>2, <1>5, <1>6, <1>7, <1>8, <2>2, <2>3 DEF SessionsInv
<1>9. CASE shell' = 0
    BY <1>1, <1>2, <1>5, <1>6, <1>7, <1>9 DEF SessionsInv
<1>10. CASE shell' = c.own /\ c.do = "enter_session" /\ c.live
    <2>1. \A y \in Listed(todo'[p]) : ~MayEnd(y, c.own)
        <3>1. ~MayEnd(c, c.own)
            BY <1>10 DEF MayEnd, SessionCalls, Says
        <3>2. ASSUME NEW y \in Rest(p) PROVE \A s : ~MayEnd(y, s)
            <4>1. MayPrecede(c, y)
                BY <1>3
            <4>2. ~Reflecting(c)
                BY <1>10 DEF Reflecting
            <4>3. /\ y.do \notin {"close_session", "turn_growth", "auto_accept", "record_turn",
                                  "enter_session", "see_self", "detect_conflict", "create"}
                  /\ ~Says(y, "lucien.chat_session_closed")
                BY <1>10, <4>1, <4>2 DEF MayPrecede, Leading, Says, TaskClosing
            <4>4. QED BY <4>3 DEF MayEnd, SessionCalls
        <3>3. QED BY <1>1, <1>4, <3>1, <3>2
    <2>2. ~overlap => ClosingsOf(log, c.own) = {}
        BY <1>3, <1>6, <1>10 DEF SessionOpen
    <2>3. ASSUME ~overlap PROVE \A q \in Procs : \A y \in Listed(todo'[q]) : ~MayEnd(y, c.own)
        BY <1>1, <1>6, <2>1, <2>3
    <2>4. ASSUME ~overlap PROVE \A q \in Procs : \A y \in Listed(todo'[q]) : SessionOpen(log, y)
        BY <1>1, <1>6, <1>7, <2>4
    <2>5. QED BY <1>2, <1>5, <1>6, <1>10, <2>2, <2>3, <2>4 DEF SessionsInv
<1>11. QED BY <1>8, <1>9, <1>10 DEF Returns, c

LEMMA SessionsRaise ==
    ASSUME SoundInv, UndisturbedInv, SessionsInv, NEW p \in Procs, Raises(p)
    PROVE  SessionsInv'
<1>1. /\ Ends(p) /\ shell' = shell /\ log' = log /\ overlap' = overlap /\ todo[p] # Idle
      /\ Call(p).do \notin {"append", "close_session", "forget_session"}
    BY DEF Raises, Ends
<1>2. /\ \A q \in Procs \ {p} : todo'[q] = todo[q]
      /\ Listed(todo'[p]) = {}
    BY <1>1, EndsLists
<1>3. ~Forgets(p)
    BY <1>1, ForgetsBehind DEF ClosesSession, Says
<1>4. \A q \in Procs : Forgets(q)' <=> Forgets(q)
    BY <1>2, <1>3 DEF Forgets
<1>5. \A q \in Procs : \A c \in Listed(todo'[q]) : c \in Listed(todo[q])
    BY <1>2
<1>6. QED BY <1>1, <1>4, <1>5 DEF SessionsInv

LEMMA SessionsAppend ==
    ASSUME SoundInv, UndisturbedInv, SessionsInv, NEW p \in Procs, Appends(p)
    PROVE  SessionsInv'
<1> DEFINE c == Call(p)
           e == c.event
<1>1. /\ \A q \in Procs \ {p} : todo'[q] = todo[q]
      /\ Listed(todo'[p]) = Rest(p)
      /\ todo[p] # Idle /\ c.do = "append" /\ log' = Append(log, e)
    BY AppendsLists
<1>2. shell' = shell /\ overlap' = overlap
    BY DEF Appends, AppendEvent
<1>3. /\ Listed(todo[p]) = {c} \cup Rest(p)
      /\ \A y \in Rest(p) : MayPrecede(c, y)
    BY <1>1, ListedCalls
<1>4. IsSequence(log)
    BY DEF SoundInv, LogSound
<1>5. \A q \in Procs : Forgets(q)' => Forgets(q)
    BY <1>1, <1>3 DEF Forgets
<1>6. \A q \in Procs : Forgets(q) => Forgets(q)'
    BY <1>1, StaysForgetting
<1> HIDE DEF c
<1>7. ASSUME ~overlap
      PROVE  /\ \A y \in Listed(todo[p]) : SessionOpen(log, y)
             /\ \A y \in Listed(todo[p]) : MayEnd(y, shell) /\ shell # 0 => Forgets(p)
             /\ shell # 0 /\ ClosingsOf(log, shell) # {} => \E q \in Procs : Forgets(q)
             /\ SessionRecords(log)
             /\ \A q \in Procs \ {p} : Listed(todo[q]) = {}
    BY <1>1, <1>3, <1>7 DEF SessionsInv, UndisturbedInv, Sole
<1>8. ASSUME ~overlap, NEW q \in Procs, NEW y \in Listed(todo'[q]) PROVE SessionOpen(log', y)
    <2>1. q = p /\ y \in Rest(p)
        BY <1>1, <1>7, <1>8
    <2>2. QED BY <1>1, <1>3, <1>4, <1>7, <1>8, <2>1, RestStaysOpen
<1>9. ASSUME ~overlap, shell # 0, NEW q \in Procs, NEW y \in Listed(todo'[q]), MayEnd(y, shell)
      PROVE  Forgets(q)'
    <2>1. q = p /\ y \in Rest(p)
        BY <1>1, <1>7, <1>9
    <2>2. QED BY <1>3, <1>6, <1>7, <1>9, <2>1
<1>10. ASSUME ~overlap, shell # 0, ClosingsOf(log', shell) # {}
       PROVE  \E q \in Procs : Forgets(q)'
    <2>1. CASE ClosingsOf(log, shell) # {}
        BY <1>6, <1>7, <1>10, <2>1
    <2>2. CASE e.type = "lucien.chat_session_closed" /\ e.session = shell
        <3>1. MayEnd(c, shell)
            BY <1>1, <2>2 DEF MayEnd, Says
        <3>2. QED BY <1>3, <1>6, <1>7, <1>10, <3>1
    <2>3. QED BY <1>1, <1>4, <1>10, <2>1, <2>2, MoreClosings
<1>11. ASSUME ~overlap PROVE SessionRecords(log')
    <2>1. SessionOpen(log, c)
        BY <1>3, <1>7, <1>11
    <2>2. QED BY <1>1, <1>4, <1>7, <1>11, <2>1, RecordsStayRight DEF SessionOpen, Says
<1>12. QED BY <1>2, <1>5, <1>8, <1>9, <1>10, <1>11 DEF SessionsInv

LEMMA SessionsCreate ==
    ASSUME SoundInv, UndisturbedInv, SessionsInv, NEW p \in Procs, Creates(p)
    PROVE  SessionsInv'
<1> DEFINE c == Call(p)
           e == c.event
           u == Created(p)
<1>1. /\ \A q \in Procs \ {p} : todo'[q] = todo[q]
      /\ Listed(todo'[p]) = {u} \cup Rest(p)
      /\ todo[p] # Idle /\ c.do = "create" /\ log' = Append(log, e)
    BY CreatesLists
<1>2. shell' = shell /\ overlap' = overlap
    BY DEF Creates, CreateRecord
<1>3. /\ Listed(todo[p]) = {c} \cup Rest(p)
      /\ \A y \in Rest(p) : MayPrecede(c, y)
    BY <1>1, ListedCalls
<1>4. /\ u.own = Len(log) + 1 /\ u.do = c.then.do /\ u.live = c.then.live
      /\ u.session = c.then.session /\ u.do \in {"enter_session", "detect_conflict"}
      /\ e.type \in {"lucien.chat_session_started", "lucien.growth_proposed"}
    BY <1>1, CreatedCall
<1>5. LogSound(log) /\ IsSequence(log) /\ Len(log) \in Nat /\ shell \in 0..Len(log)
    BY DEF SoundInv, LogSound, IsSequence
<1>6. \A q \in Procs : Forgets(q)' => Forgets(q)
    BY <1>1, <1>3, <1>4 DEF Forgets
<1>7. \A q \in Procs : Forgets(q) => Forgets(q)'
    BY <1>1, StaysForgetting
<1> HIDE DEF c, u
<1>8. ASSUME ~overlap
      PROVE  /\ \A y \in Listed(todo[p]) : SessionOpen(log, y)
             /\ \A y \in Listed(todo[p]) : MayEnd(y, shell) /\ shell # 0 => Forgets(p)
             /\ shell # 0 /\ ClosingsOf(log, shell) # {} => \E q \in Procs : Forgets(q)
             /\ SessionRecords(log)
             /\ \A q \in Procs \ {p} : Listed(todo[q]) = {}
    BY <1>1, <1>3, <1>8 DEF SessionsInv, UndisturbedInv, Sole
<1>9. ASSUME ~overlap PROVE SessionOpen(log', u)
    <2>1. CASE u.do = "enter_session"
        <3>1. ClosingsOf(log', u.own) = {}
            BY <1>1, <1>4, <1>5, NewSessionOpen
        <3>2. QED BY <2>1, <3>1 DEF SessionOpen, SessionCalls, Says
    <2>2. CASE u.do = "detect_conflict"
        <3>1. ClosingsOf(log, u.session) = {}
            BY <1>1, <1>3, <1>4, <1>8, <1>9, <2>2 DEF SessionOpen
        <3>2. ClosingsOf(log', u.session) = {}
            BY <1>1, <1>4, <1>5, <3>1, MoreClosings
        <3>3. QED BY <2>2, <3>2 DEF SessionOpen, SessionCalls, Says
    <2>3. QED BY <1>4, <2>1, <2>2
<1>10. MayEnd(u, shell) => MayEnd(c, shell)
    <2>1. u.own # shell
        BY <1>4, <1>5
    <2>2. CASE u.do = "enter_session"
        BY <2>1, <2>2 DEF MayEnd, SessionCalls, Says
    <2>3. CASE u.do = "detect_conflict"
        <3>1. MayEnd(u, shell) => ~u.live /\ u.session = shell
            BY <2>3 DEF MayEnd, Says
        <3>2. QED BY <1>1, <1>4, <2>3, <3>1 DEF MayEnd
    <2>4. QED BY <1>4, <2>2, <2>3
<1>11. ASSUME ~overlap, NEW q \in Procs, NEW y \in Listed(todo'[q]) PROVE SessionOpen(log', y)
    <2>1. q = p
        BY <1>1, <1>8, <1>11
    <2>2. CASE y = u
        BY <1>9, <1>11, <2>2
    <2>3. CASE y \in Rest(p)
        BY <1>1, <1>3, <1>4, <1>5, <1>8, <1>11, <2>3, RestStaysOpen
    <2>4. QED BY <1>1, <1>11, <2>1, <2>2, <2>3
<1>12. ASSUME ~overlap, shell # 0, NEW q \in Procs, NEW y \in Listed(todo'[q]), MayEnd(y, shell)
       PROVE  Forgets(q)'
    <2>1. q = p
        BY <1>1, <1>8, <1>12
    <2>2. QED BY <1>1, <1>3, <1>7, <1>8, <1>10, <1>12, <2>1
<1>13. ASSUME ~overlap, shell # 0, ClosingsOf(log', shell) # {}
       PROVE  \E q \in Procs : Forgets(q)'
    BY <1>1, <1>4, <1>5, <1>7, <1>8, <1>13, MoreClosings
<1>14. ASSUME ~overlap PROVE SessionRecords(log')
    BY <1>1, <1>4, <1>5, <1>8, <1>14, RecordsStayRight
<1>15. QED BY <1>2, <1>6, <1>11, <1>12, <1>13, <1>14 DEF SessionsInv

LEMMA SessionsDie ==
    ASSUME SoundInv, SessionsInv, Dies
    PROVE  SessionsInv'
<1>1. \A q \in Procs : Listed(todo'[q]) \subseteq Listed(todo[q])
    BY DiesLists
<1>2. log' = log /\ overlap' = overlap
    BY DEF Dies
<1>3. \A q \in Procs : Forgets(q)' => q \in Threads
    BY <1>1 DEF Forgets, SessionsInv
<1>4. ~overlap => \A q \in Procs : \A y \in Listed(todo'[q]) : SessionOpen(log, y)
    BY <1>1 DEF SessionsInv
<1>5. CASE shell' = 0
    BY <1>2, <1>3, <1>4, <1>5 DEF SessionsInv
<1>6. CASE shell' = shell /\ \A p \in Threads : todo'[p] = todo[p]
    <2>1. \A q \in Procs : Forgets(q) => Forgets(q)'
        BY <1>6 DEF Forgets, SessionsInv
    <2>2. QED BY <1>1, <1>2, <1>3, <1>4, <1>6, <2>1 DEF SessionsInv
<1>7. QED BY <1>5, <1>6 DEF Dies

(* While handlers do not overlap, the turns of a session are numbered      *)
(* without a gap, none comes after its end, and it ends once with the      *)
(* number of its turns, over crashes of processes and of the server too.   *)
THEOREM SessionsStayConsistent == Spec => []SessionsConsistent
<1>1. SoundInv /\ UndisturbedInv /\ SessionsInv /\ [Next]_vars => SessionsInv'
    <2>1. ASSUME SessionsInv, UNCHANGED vars PROVE SessionsInv'
        <3>1. log' = log /\ todo' = todo /\ overlap' = overlap /\ shell' = shell
            BY <2>1 DEF vars, handlers
        <3>2. \A p \in Procs : Forgets(p)' <=> Forgets(p)
            BY <3>1 DEF Forgets
        <3>3. QED BY <2>1, <3>1, <3>2 DEF SessionsInv
    <2>2. QED
        BY <2>1, SoundStep, SessionsCommand, SessionsReturn, SessionsRaise, SessionsAppend,
           SessionsCreate, SessionsDie DEF Form
<1>2. Spec => []SessionsInv
    BY <1>1, IsSound, IsUndisturbed, SessionsInit, PTL DEF Spec
<1>3. ASSUME SoundInv, SessionsInv, ~overlap PROVE SessionsConsistent
    <2>1. IsSequence(log)
        BY <1>3 DEF SoundInv, LogSound
    <2>2. \A i \in 1..Len(log) : Before(i) = UpTo(log, i)
        BY DEF Before, UpTo
    <2>3. SessionRecords(log)
        BY <1>3 DEF SessionsInv
    <2>4. ASSUME NEW i \in Positions(log, "lucien.chat_turn_recorded")
          PROVE  /\ log[i].index = Cardinality(TurnsOf(Before(i), log[i].session)) + 1
                 /\ ClosingsOf(Before(i), log[i].session) = {}
        <3>1. i \in 1..Len(log) /\ log[i].type = "lucien.chat_turn_recorded"
            BY <2>1, LogPositions
        <3>2. QED BY <2>2, <2>3, <3>1 DEF SessionRecords
    <2>5. ASSUME NEW i \in Positions(log, "lucien.chat_session_closed")
          PROVE  /\ log[i].turns = Cardinality(TurnsOf(Before(i), log[i].session))
                 /\ ClosingsOf(Before(i), log[i].session) = {}
        <3>1. i \in 1..Len(log) /\ log[i].type = "lucien.chat_session_closed"
            BY <2>1, LogPositions
        <3>2. QED BY <2>2, <2>3, <3>1 DEF SessionRecords
    <2>6. QED BY <2>4, <2>5 DEF SessionsConsistent
<1>4. overlap => SessionsConsistent
    BY DEF SessionsConsistent
<1>5. QED BY <1>2, <1>3, <1>4, IsSound, PTL
=============================================================================
