------------------------------- MODULE Growth -------------------------------
(***************************************************************************)
(* Governed learning: the handlers of pca/growth.py, growth_conflicts.py,  *)
(* memory_signals.py, reflections.py, reflection_queue.py, chat_sessions.py *)
(* and steward_inbox.py, and the chat turn of lucien/chat.py, run by       *)
(* command-line processes and by the threads of the live chat server.      *)
(* The threads share one chat shell, which remembers its session; a turn   *)
(* on the command line has a shell of its own.                             *)
(***************************************************************************)
EXTENDS GrowthRecords, Handlers

CONSTANTS
    Threads,      \* the processes that are threads of the live chat server
    Proposals,    \* the growth proposed on the command line
    Messages,     \* what users say
    Moves         \* the claims that the rest of the system moves to

CommandName ==
    {"continuity", "propose-growth", "accept-growth", "reject-growth", "review-growth",
     "resolve-conflict", "memory-signal", "memory-evidence", "reflect", "reflection-task",
     "chat", "clean-session"}

\* What is in a ledger before the work starts, as commands one at a time leave
\* it: claims, growth proposed, and growth accepted under the claim of the moment.
StartEvent ==
    [type : {"continuity"}, claim : Claim]
    \cup [type : {"lucien.growth_proposed"}, kind : GrowthKind, impact : IdentityImpact,
          marked : BOOLEAN, contrary : BOOLEAN, claim : {"none"},
          status : {"proposed", "requires_review"}]
    \cup [type : {"lucien.growth_updated"}, growth : Nat, status : {"accepted"}, claim : Claim,
          auto : {FALSE}]

Opening(evs) ==
    /\ evs \in Seq(StartEvent)
    /\ evs # <<>> /\ evs[1].type = "continuity"
    /\ \A i \in Positions(evs, "lucien.growth_updated") :
          /\ evs[i].growth \in Growths(evs) /\ evs[i].growth < i
          /\ evs[i].claim = CurrentClaim(SubSeq(evs, 1, i - 1))
          /\ GrowthGate(evs[i].claim, "accept", evs[evs[i].growth].impact)

ASSUME GrowthAssumption ==
    /\ Threads \subseteq Procs
    /\ \A evs \in StartLogs : Opening(evs)
    /\ Proposals \subseteq
         [kind : GrowthKind, impact : IdentityImpact, marked : BOOLEAN, contrary : BOOLEAN]
    /\ Messages \subseteq Message
    /\ Moves \subseteq Claim
    /\ Limit \in [CommandName -> Nat]

VARIABLE shell   \* the session of the live server's shell, 0 for None

vars == <<handlers, shell>>

\* The calls of a handler.
Propose(g)             == [do |-> "propose", growth |-> g]
AcceptNow(g)           == [do |-> "accept_now", growth |-> g]
Accept(g, claim, auto) == [do |-> "accept", growth |-> g, claim |-> claim, auto |-> auto]
Reject(g)              == [do |-> "reject", growth |-> g]
Review(g, decision, live) ==
    [do |-> "review", growth |-> g, decision |-> decision, live |-> live]
Resolve(c, decision)   == [do |-> "resolve_conflict", conflict |-> c, decision |-> decision]
ResolveTasks(kind)     == [do |-> "resolve_tasks", kind |-> kind]
CloseTask(t, how)      == [do |-> "close_task", task |-> t, how |-> how]
Reflect                == [do |-> "reflect"]
DeriveClaim(r)         == [do |-> "derive_claim", reflection |-> r]
OpenTasksFrom(r)       == [do |-> "open_tasks", reflection |-> r]
CloseSession(s)        == [do |-> "close_session", session |-> s]
ForgetSession          == [do |-> "forget_session"]

\* A chat turn is one call that changes as it goes: its message (NoMessage
\* when only the session is wanted), its session, what it saw of the
\* self-model, and the growth it proposed.
NoMessage == [growth |-> NoGrowth, contrary |-> FALSE, signal |-> "skip"]
Turn(live, message, suppress) ==
    [do |-> "start_session", live |-> live, message |-> message, suppress |-> suppress,
     session |-> 0, card |-> 0, against |-> {}, own |-> 0]
Stage(t, f) == [t EXCEPT !.do = f]

-----------------------------------------------------------------------------
(* Starting a command.                                                     *)

MoveContinuity(p) == \E c \in Moves : Begin(p, "continuity", <<Appending(ContinuityMoved(c))>>)

ProposeGrowth(p) == \E g \in Proposals : Begin(p, "propose-growth", <<Propose(g)>>)
AcceptGrowth(p)  == \E g \in Growths(log) : Begin(p, "accept-growth", <<AcceptNow(g)>>)
RejectGrowth(p)  == \E g \in Growths(log) : Begin(p, "reject-growth", <<Reject(g)>>)

\* On the command line; or by the live server, where the inbox offers only
\* active growth and the workbench any.
ReviewGrowth(p) ==
    \E g \in Growths(log), decision \in GrowthReviewDecision :
        Begin(p, "review-growth", <<Review(g, decision, p \in Threads)>>)

ResolveConflict(p) ==
    \E c \in Conflicts(log), decision \in GrowthConflictDecision :
        Begin(p, "resolve-conflict", <<Resolve(c, decision)>>)

record_memory_signal(g, signal) == <<Appending(MemorySignalRecorded(g, signal))>>

\* The live server reflects at once on a memory that was contradicted.
SignalMemory(p) ==
    \E g \in MemoryCards(log), signal \in MemorySignalType :
        Begin(p, "memory-signal",
            record_memory_signal(g, signal)
            \o (IF p \in Threads /\ signal \in {"contradicted", "stale"}
                THEN <<Reflect>> ELSE <<>>))

RequestMemoryEvidence(p) ==
    \E g \in Growths(log) :
        Begin(p, "memory-evidence", <<Appending(MemoryEvidenceRequested(g))>>)

RunReflection(p) == Begin(p, "reflect", <<Reflect>>)

UpdateReflectionTask(p) ==
    \E t \in Tasks(log), how \in {"reflection.task_resolved", "reflection.task_dismissed"} :
        Begin(p, "reflection-task", <<CloseTask(t, how)>>)

Chat(p) ==
    \E message \in Messages, suppress \in BOOLEAN :
        /\ p \notin Threads => ~suppress
        /\ Begin(p, "chat", <<Turn(p \in Threads, message, suppress)>>)

\* start_clean_daily_session: close_session returns at once without one.
StartCleanSession(p) ==
    /\ p \in Threads
    /\ Begin(p, "clean-session",
           (IF shell = 0 THEN <<>> ELSE <<CloseSession(shell)>>)
           \o <<ForgetSession, Turn(TRUE, NoMessage, TRUE)>>)

-----------------------------------------------------------------------------
(* The calls: growth.                                                      *)

propose_growth(p) ==
    /\ Called(p, "propose")
    /\ LET g == Call(p).growth IN
         Return(p, GrowthGate(CurrentClaim(log), "propose", g.impact),
            <<Appending(GrowthProposed(g.kind, g.impact, g.marked, g.contrary))>>)

\* accept-growth derives the claim, then accepts.
accept_growth_now(p) ==
    /\ Called(p, "accept_now")
    /\ Return(p, TRUE, <<Accept(Call(p).growth, CurrentClaim(log), FALSE)>>)

(* Mutant: the gate is asked about the proposal.                           *)
accept_growth_as_proposal(p) ==
    /\ Called(p, "accept")
    /\ LET g == Call(p).growth
           claim == Call(p).claim
       IN  Return(p, GrowthGate(claim, "propose", log[g].impact),
              <<Appending(GrowthUpdated(g, "accepted", claim, Call(p).auto))>>)

(* Only the gate is asked: the status of the record and its conflicts are  *)
(* not looked at.                                                          *)
accept_growth(p) ==
    /\ Called(p, "accept")
    /\ LET g == Call(p).growth
           claim == Call(p).claim
       IN  Return(p, GrowthGate(claim, "accept", log[g].impact),
              <<Appending(GrowthUpdated(g, "accepted", claim, Call(p).auto))>>)

\* A rejected record keeps the claim it was accepted under, if it was.
reject_growth(p) ==
    /\ Called(p, "reject")
    /\ LET g == Call(p).growth IN
         Return(p, TRUE,
            <<Appending(GrowthUpdated(g, "rejected", GrowthRecord(log, g).claim, FALSE))>>)

(* Mutant: the review is recorded before the status changes.               *)
review_growth_first(p) ==
    /\ Called(p, "review")
    /\ LET g == Call(p).growth
           decision == Call(p).decision
           claim == CurrentClaim(log)
       IN  Return(p, TRUE,
              <<Appending(GrowthReviewed(g, decision, claim)),
                IF decision = "accepted" THEN Accept(g, claim, FALSE) ELSE Reject(g)>>
              \o (IF Call(p).live THEN <<ResolveTasks("review_growth")>> ELSE <<>>))

(* The claim is derived, the status changes, the review is recorded; the   *)
(* live server then resolves every open task to review growth.             *)
review_growth(p) ==
    /\ Called(p, "review")
    /\ LET g == Call(p).growth
           decision == Call(p).decision
           claim == CurrentClaim(log)
       IN  Return(p, TRUE,
              <<IF decision = "accepted" THEN Accept(g, claim, FALSE) ELSE Reject(g),
                Appending(GrowthReviewed(g, decision, claim))>>
              \o (IF Call(p).live THEN <<ResolveTasks("review_growth")>> ELSE <<>>))

(* Mutant: a conflict may be resolved again.                               *)
resolve_growth_conflict_again(p) ==
    /\ Called(p, "resolve_conflict")
    /\ LET c == Call(p).conflict IN
         Return(p, TRUE,
            <<Appending(ConflictResolved(c, Call(p).decision)), ResolveTasks("resolve_conflict")>>)

resolve_growth_conflict(p) ==
    /\ Called(p, "resolve_conflict")
    /\ LET c == Call(p).conflict IN
         Return(p, c \in UnresolvedConflicts(log),
            <<Appending(ConflictResolved(c, Call(p).decision)), ResolveTasks("resolve_conflict")>>)

-----------------------------------------------------------------------------
(* The calls: reflections and their tasks.                                 *)

\* resolve_matching_reflection_tasks: the tasks open now, one after another.
resolve_matching_tasks(p) ==
    /\ Called(p, "resolve_tasks")
    /\ LET matching == {t \in OpenTasks(log) : log[t].kind = Call(p).kind}
       IN  Return(p, TRUE,
              CallEach(Cardinality(matching),
                       LAMBDA k : CloseTask(InOrder(matching)[k], "reflection.task_resolved")))

update_reflection_task(p) ==
    /\ Called(p, "close_task")
    /\ LET t == Call(p).task IN
         Return(p, t \in OpenTasks(log), <<Appending(TaskClosed(Call(p).how, t))>>)

\* build_reflection reads the ledger, and then derives the claim.
build_reflection(p) ==
    /\ Called(p, "reflect")
    /\ Return(p, TRUE,
           <<DeriveClaim(ReflectionRecorded("none", Cardinality(ActiveGrowth(log)),
                 Cardinality(UnresolvedConflicts(log)), Cardinality(WeakCards(log))))>>)

record_reflection(p) ==
    /\ Called(p, "derive_claim")
    /\ LET r == [Call(p).reflection EXCEPT !.claim = CurrentClaim(log)] IN
         Return(p, TRUE, <<Appending(r), OpenTasksFrom(r)>>)

(* Mutant: a task that was closed still counts as existing.                *)
open_tasks_once(p) ==
    /\ Called(p, "open_tasks")
    /\ LET existing == {log[t] : t \in Tasks(log)}
           new == NewTaskSpecs(Call(p).reflection, existing)
       IN  Return(p, TRUE, CallEach(Len(new), LAMBDA k : Appending(new[k])))

(* open_tasks_from_reflection: tasks that no open task already asks for.   *)
open_tasks_from_reflection(p) ==
    /\ Called(p, "open_tasks")
    /\ LET existing == {log[t] : t \in OpenTasks(log)}
           new == NewTaskSpecs(Call(p).reflection, existing)
       IN  Return(p, TRUE, CallEach(Len(new), LAMBDA k : Appending(new[k])))

-----------------------------------------------------------------------------
(* The calls: a chat turn.                                                 *)

\* The shell already has a session, or one is started; the session is the
\* shell's from then on.
start_session(p) ==
    /\ Called(p, "start_session")
    /\ LET t == Call(p) IN
         IF t.live /\ shell # 0
         THEN Return(p, TRUE, <<[Stage(t, "see_self") EXCEPT !.session = shell]>>)
         ELSE Return(p, TRUE, <<Creating(SessionStarted, Stage(t, "enter_session"))>>)
    /\ UNCHANGED shell

enter_session(p) ==
    /\ Called(p, "enter_session")
    /\ LET t == Call(p) IN
         /\ Return(p, TRUE, <<[Stage(t, "see_self") EXCEPT !.session = t.own, !.own = 0]>>)
         /\ shell' = IF t.live THEN t.own ELSE shell

(* handle_message derives the self-model and its cards once, at the start. *)
derive_self_model(p) ==
    /\ Called(p, "see_self")
    /\ LET t == Call(p)
           seen == [Stage(t, "turn_growth") EXCEPT
                      !.card = LatestMemoryCard(log),
                      !.against = detect_growth_conflict(t.message.contrary,
                                                         StandingCommitments(log))]
       IN  Return(p, TRUE, IF t.message = NoMessage THEN <<>> ELSE <<Appending(TurnInput), seen>>)

\* What ends a turn: a signal about the card it saw, and its record.
Closing(t) ==
    (IF t.message.signal # "none" /\ t.card # 0
     THEN record_memory_signal(t.card, t.message.signal) ELSE <<>>)
    \o <<Stage(t, "record_turn")>>

(* process_turn: growth the gate refuses ends the turn with a ValueError.  *)
process_turn(p) ==
    /\ Called(p, "turn_growth")
    /\ LET t == Call(p)
           g == t.message.growth
       IN  IF g = NoGrowth
           THEN Return(p, TRUE, <<Appending(TurnOutput)>> \o Closing(t))
           ELSE Return(p, GrowthGate(CurrentClaim(log), "propose", g.impact),
                   <<Creating(GrowthProposed(g.kind, g.impact, FALSE, t.message.contrary),
                              Stage(t, "detect_conflict"))>>)

record_growth_conflict(p) ==
    /\ Called(p, "detect_conflict")
    /\ LET t == Call(p) IN
         Return(p, TRUE,
            <<Appending(TurnOutput)>>
            \o (IF t.against = {} THEN <<>> ELSE <<Appending(ConflictDetected(t.own, t.against))>>)
            \o <<Stage(t, "auto_accept")>>)

(* Mutant: growth is accepted although it conflicts.                       *)
auto_accept_conflicting(p) ==
    /\ Called(p, "auto_accept")
    /\ LET t == Call(p)
           claim == CurrentClaim(log)
           impact == t.message.growth.impact
       IN  Return(p, TRUE,
              (IF GrowthGate(claim, "accept", impact) /\ impact = "low"
               THEN <<Accept(t.own, claim, TRUE)>> ELSE <<>>)
              \o Closing(t))

\* Low-impact growth without a conflict is accepted at once.
auto_accept(p) ==
    /\ Called(p, "auto_accept")
    /\ LET t == Call(p)
           claim == CurrentClaim(log)
           impact == t.message.growth.impact
       IN  Return(p, TRUE,
              (IF GrowthGate(claim, "accept", impact) /\ impact = "low" /\ t.against = {}
               THEN <<Accept(t.own, claim, TRUE)>> ELSE <<>>)
              \o Closing(t))

(* record_chat_turn with the index it finds; then the live server may      *)
(* reflect, and a shell of its own is closed.                              *)
record_chat_turn(p) ==
    /\ Called(p, "record_turn")
    /\ LET t == Call(p)
           notable == \/ t.own # 0 /\ t.against # {}
                      \/ t.message.signal # "none" /\ t.card # 0
                      \/ CurrentClaim(log) # "certified_continuity"
       IN  Return(p, TRUE,
              <<Appending(TurnRecorded(t.session, Cardinality(TurnsOf(log, t.session)) + 1))>>
              \o (IF t.live /\ ~t.suppress /\ notable THEN <<Reflect>> ELSE <<>>)
              \o (IF t.live THEN <<>> ELSE <<CloseSession(t.session)>>))

close_chat_session(p) ==
    /\ Called(p, "close_session")
    /\ LET s == Call(p).session IN
         Return(p, TRUE, <<Appending(SessionClosed(s, Cardinality(TurnsOf(log, s))))>>)

(* Mutant: the shell keeps its closed session.                             *)
keep_session(p) ==
    /\ Called(p, "forget_session")
    /\ Return(p, TRUE, <<>>)
    /\ UNCHANGED shell

forget_session(p) ==
    /\ Called(p, "forget_session")
    /\ Return(p, TRUE, <<>>)
    /\ shell' = 0

(* The live server goes down, with all its threads and its shell.          *)
ServerCrash ==
    /\ "crash" \in Faults
    /\ \E p \in Threads : todo[p] # Idle
    /\ todo' = [p \in Procs |-> IF p \in Threads THEN Idle ELSE todo[p]]
    /\ killed' = TRUE
    /\ shell' = 0
    /\ UNCHANGED <<log, started, overlap>>

-----------------------------------------------------------------------------

Init == HandlersInit /\ shell = 0

Command(p) ==
    /\ MayBegin(p)
    /\ \/ MoveContinuity(p)
       \/ ProposeGrowth(p) \/ AcceptGrowth(p) \/ RejectGrowth(p) \/ ReviewGrowth(p)
       \/ ResolveConflict(p) \/ SignalMemory(p) \/ RequestMemoryEvidence(p)
       \/ RunReflection(p) \/ UpdateReflectionTask(p)
       \/ Chat(p) \/ StartCleanSession(p)

Step(p) ==
    \/ AppendEvent(p) \/ CreateRecord(p)
    \/ propose_growth(p) \/ accept_growth_now(p) \/ accept_growth(p) \/ reject_growth(p)
    \/ review_growth(p) \/ resolve_growth_conflict(p)
    \/ resolve_matching_tasks(p) \/ update_reflection_task(p)
    \/ build_reflection(p) \/ record_reflection(p) \/ open_tasks_from_reflection(p)
    \/ derive_self_model(p) \/ process_turn(p) \/ record_growth_conflict(p)
    \/ auto_accept(p) \/ record_chat_turn(p) \/ close_chat_session(p)

Next ==
    \/ \E p \in Procs : (Command(p) \/ Step(p)) /\ UNCHANGED shell
    \/ \E p \in Procs \ Threads : Crash(p) /\ UNCHANGED shell
    \/ \E p \in Procs : start_session(p) \/ enter_session(p) \/ forget_session(p)
    \/ ServerCrash

Spec == Init /\ [][Next]_vars
-----------------------------------------------------------------------------
(* Properties.                                                             *)

Acceptances == {i \in Positions(log, "lucien.growth_updated") : log[i].status = "accepted"}

(* Whichever handlers overlap and whoever dies, growth enters the          *)
(* self-model only under a claim that was the derived claim and that       *)
(* permits it; while handlers do not overlap, it is the claim of that      *)
(* moment (growth.py:367-374, ARCHITECTURE_OVERVIEW.md:149-152).           *)
AcceptedUnderGate ==
    \A i \in Acceptances :
        /\ log[i].claim \in {"certified_continuity", "declared_fork", "review_required"}
        /\ log[i].claim = "review_required" => log[log[i].growth].impact \in {"low", "medium"}
        /\ \E j \in 1..i - 1 : log[j] = ContinuityMoved(log[i].claim)
        /\ ~overlap => CurrentClaim(Before(i)) = log[i].claim

(* Growth that a chat turn accepts by itself never had a recorded conflict *)
(* (ARCHITECTURE_OVERVIEW.md:167-168), even if handlers overlap; while they *)
(* do not, it contradicts no commitment accepted so far                    *)
(* (lucien/chat.py:330-342).                                               *)
AutoAcceptanceIsSafe ==
    \A i \in Acceptances : log[i].auto =>
        LET g == log[i].growth IN
        /\ log[g].impact = "low"
        /\ \A c \in Conflicts(log) : log[c].growth # g
        /\ ~overlap /\ log[g].contrary => StandingCommitments(Before(i)) = {}

(* A review record follows the change it reports: whichever handlers       *)
(* overlap and whoever dies between the two appends, no growth has more    *)
(* reviews with a decision than changes to that status (growth.py:405-430).*)
ReviewsFollowChanges ==
    \A n \in DOMAIN log : log[n].type = "lucien.growth_reviewed" =>
        LET same(r) == r.growth = log[n].growth IN
        Cardinality({i \in 1..n : /\ log[i].type = "lucien.growth_reviewed"
                                  /\ same(log[i]) /\ log[i].decision = log[n].decision})
        <= Cardinality({i \in 1..n : /\ log[i].type = "lucien.growth_updated"
                                     /\ same(log[i]) /\ log[i].status = log[n].decision
                                     /\ ~log[i].auto})

(* While handlers do not overlap, a conflict is resolved once, and then no *)
(* older task to resolve conflicts is left open (growth_conflicts.py:165-  *)
(* 168, ARCHITECTURE_OVERVIEW.md:238-241).                                 *)
ConflictsCloseTheLoop ==
    ~overlap =>
        /\ \A c \in Conflicts(log) : Cardinality(ResolutionsOf(log, c)) <= 1
        /\ Quiescent /\ ~killed =>
              \A i \in Positions(log, "lucien.growth_conflict_resolved"), t \in OpenTasks(log) :
                  log[t].kind = "resolve_conflict" => t > i

(* Between commands, all the pressure a reflection saw has had its task:   *)
(* one that was open then or was opened since, even if handlers overlapped *)
(* (reflection_queue.py:122-146).                                          *)
PressureGetsATask ==
    Quiescent /\ ~killed =>
        \A i \in Positions(log, "lucien.reflection_recorded") :
            LET specs == TaskSpecs(log[i]) IN
            \A k \in DOMAIN specs : \E t \in Tasks(log) :
                log[t] = specs[k] /\ \A j \in Closings(log, t) : j > i

(* While handlers do not overlap, the turns of a session are numbered from *)
(* 1 without a gap, none comes after its end, and it ends once, with the   *)
(* number of its turns, over restarts of the live server too               *)
(* (lucien/chat.py:142-162 and 356-369, live_chat.py:261-264).             *)
SessionsConsistent ==
    ~overlap =>
        /\ \A i \in Positions(log, "lucien.chat_turn_recorded") :
              /\ log[i].index = Cardinality(TurnsOf(Before(i), log[i].session)) + 1
              /\ ClosingsOf(Before(i), log[i].session) = {}
        /\ \A i \in Positions(log, "lucien.chat_session_closed") :
              /\ log[i].turns = Cardinality(TurnsOf(Before(i), log[i].session))
              /\ ClosingsOf(Before(i), log[i].session) = {}
=============================================================================
