--------------------------- MODULE MissionsProofs ---------------------------
(***************************************************************************)
(* Theorems about Missions, for any processes, any tools, any number of    *)
(* commands and any ledger of proposed steps to start from: type           *)
(* correctness; that nothing risky runs unapproved; that what ended runs   *)
(* again only after a later approval; that whatever calls for a review     *)
(* gets one before the mission is ready to advance; and that the           *)
(* autonomous loop waits for the reviews.                                  *)
(*                                                                         *)
(* A transition is decided on a stale read, so RunsApproved cannot be read *)
(* off the guards.  It holds because approval is only ever written into a  *)
(* step's record when an approval is on the ledger, and the ledger only    *)
(* grows: what a handler concluded from a read remains true.  SoundCall    *)
(* says of each call a handler has yet to make that the ledger, as it is,  *)
(* supports it; Inv says it of all of them.                                *)
(***************************************************************************)
EXTENDS Missions, FoldLemmas, TLAPS

Approves(evs, s, n) ==
    \E i \in 1..n : evs[i].type = "mission.step_approved" /\ evs[i].step = s

AtRisk(e)   == e.risk \in {"medium", "high"}
Guarded(e)  == AtRisk(e) \/ e.tool \in ApprovalTool

\* What event e may say at position n of the ledger evs.
Supported(evs, e, n) ==
    /\ e.type = "mission.step_proposed" => e.approval # "approved"
    /\ e.type \in StepUpdate => (e.approval = "approved" => Approves(evs, e.step, n))
    /\ e.type = "mission.step_started" =>
           e.step \in Steps(evs) /\ (AtRisk(evs[e.step]) => Approves(evs, e.step, n))

LogSound(evs) == \A i \in DOMAIN evs : Supported(evs, evs[i], i)

\* What a handler may yet append: the approval itself needs no support.
Appendable(evs, e) == e.type = "mission.step_approved" \/ Supported(evs, e, Len(evs))

CallSound(evs, c) ==
    /\ c.do = "append" => Appendable(evs, c.event)
    /\ c.do = "execute" => (Guarded(evs[c.step]) => Approves(evs, c.step, Len(evs)))

SoundCall(evs) == {c \in CallOf(evs) : CallSound(evs, c)}

RunOf(evs) == [step : Steps(evs), at : 0..Len(evs)]
SoundRun(evs) == {r \in RunOf(evs) : Guarded(evs[r.step]) => Approves(evs, r.step, r.at)}

Inv ==
    /\ log \in Seq(Event)
    /\ LogSound(log)
    /\ todo \in [Procs -> Seq(SoundCall(log))]
    /\ ran \in Seq(SoundRun(log))
    /\ started \in Nat
    /\ overlap \in BOOLEAN /\ killed \in BOOLEAN

-----------------------------------------------------------------------------
(* What a read of the ledger returns.                                      *)

LEMMA StepsAreEvents ==
    ASSUME NEW evs \in Seq(Event), NEW s \in Steps(evs)
    PROVE  /\ s \in 1..Len(evs) /\ evs[s] \in Event /\ evs[s].type = "mission.step_proposed"
           /\ Len(evs) \in Nat
BY DEF Steps, Positions

(* The fields of the events the folds look at.                             *)
LEMMA ProposalFields ==
    ASSUME NEW e \in Event, e.type = "mission.step_proposed"
    PROVE  /\ e.mission \in Nat /\ e.approval \in MissionStepApprovalStatus
           /\ e.execution \in MissionStepExecutionStatus
BY DEF Event, StepUpdate, MissionOpened, EvidenceAdded

LEMMA UpdateFields ==
    ASSUME NEW e \in Event, e.type \in StepUpdate
    PROVE  /\ e.step \in Nat /\ e.approval \in MissionStepApprovalStatus
           /\ e.execution \in MissionStepExecutionStatus
BY DEF Event, StepUpdate, MissionOpened, EvidenceAdded

(* The record of a step is its proposal or one of its updates.             *)
LEMMA RecordIsEvent ==
    ASSUME NEW evs \in Seq(Event), NEW s \in Steps(evs)
    PROVE  \E i \in 1..Len(evs) :
              /\ StepRecord(evs, s) = evs[i]
              /\ i = s \/ (evs[i].type \in StepUpdate /\ evs[i].step = s)
<1> DEFINE S == {s} \cup UpdatesOf(evs, s)
<1>1. S \in SUBSET (0..Len(evs)) /\ S # {} /\ Len(evs) \in Nat
    BY StepsAreEvents DEF UpdatesOf
<1>2. Max(S) \in S
    <2> HIDE DEF S
    <2>1. QED BY <1>1, MaxIsGreatest
<1>3. Max(S) \in 1..Len(evs)
    BY <1>2, StepsAreEvents DEF UpdatesOf
<1>4. Max(S) = s \/ (evs[Max(S)].type \in StepUpdate /\ evs[Max(S)].step = s)
    BY <1>2 DEF UpdatesOf
<1>5. StepRecord(evs, s) = evs[Max(S)]
    BY DEF StepRecord
<1> HIDE DEF S
<1>6. QED BY <1>3, <1>4, <1>5

LEMMA RecordTyped ==
    ASSUME NEW evs \in Seq(Event), NEW s \in Steps(evs)
    PROVE  /\ StepRecord(evs, s).approval \in MissionStepApprovalStatus
           /\ Execution(evs, s) \in MissionStepExecutionStatus
<1>1. PICK i \in 1..Len(evs) :
          /\ StepRecord(evs, s) = evs[i]
          /\ i = s \/ (evs[i].type \in StepUpdate /\ evs[i].step = s)
    BY RecordIsEvent
<1>2. evs[i] \in Event
    OBVIOUS
<1>3. CASE i = s
    BY <1>1, <1>2, <1>3, StepsAreEvents, ProposalFields DEF Execution
<1>4. CASE evs[i].type \in StepUpdate
    BY <1>1, <1>2, <1>4, UpdateFields DEF Execution
<1>5. QED BY <1>1, <1>3, <1>4

(* A step whose record says approved has been approved.                    *)
LEMMA ApprovedIsApproved ==
    ASSUME NEW evs \in Seq(Event), LogSound(evs), NEW s \in Steps(evs), Approved(evs, s)
    PROVE  Approves(evs, s, Len(evs))
<1>1. PICK i \in 1..Len(evs) :
          /\ StepRecord(evs, s) = evs[i]
          /\ i = s \/ (evs[i].type \in StepUpdate /\ evs[i].step = s)
    BY RecordIsEvent
<1>2. Supported(evs, evs[i], i)
    BY DEF LogSound
<1>3. evs[i].approval = "approved"
    BY <1>1 DEF Approved
<1>4. i # s
    BY <1>2, <1>3, StepsAreEvents DEF Supported
<1>5. Approves(evs, s, i)
    BY <1>1, <1>2, <1>3, <1>4 DEF Supported
<1>6. QED BY <1>5 DEF Approves

-----------------------------------------------------------------------------
(* The ledger only grows: what it supports it goes on supporting.          *)

LEMMA Growth ==
    ASSUME NEW evs \in Seq(Event), NEW e \in Event
    PROVE  /\ Append(evs, e) \in Seq(Event) /\ Len(Append(evs, e)) = Len(evs) + 1
           /\ Len(evs) \in Nat
           /\ \A i \in 1..Len(evs) : Append(evs, e)[i] = evs[i]
           /\ Append(evs, e)[Len(evs) + 1] = e
OBVIOUS

LEMMA StepsGrow ==
    ASSUME NEW evs \in Seq(Event), NEW e \in Event
    PROVE  Steps(evs) \subseteq Steps(Append(evs, e))
<1>1. DOMAIN evs = 1..Len(evs) /\ DOMAIN Append(evs, e) = 1..(Len(evs) + 1)
    BY Growth
<1>2. QED BY <1>1, Growth DEF Steps, Positions

LEMMA ApprovesGrows ==
    ASSUME NEW evs \in Seq(Event), NEW e \in Event, NEW s,
           NEW n \in 0..Len(evs), NEW k \in Nat, n <= k, Approves(evs, s, n)
    PROVE  Approves(Append(evs, e), s, k)
<1>1. PICK i \in 1..n : evs[i].type = "mission.step_approved" /\ evs[i].step = s
    BY DEF Approves
<1>2. Append(evs, e)[i] = evs[i] /\ i \in 1..k
    BY Growth
<1>3. QED BY <1>1, <1>2 DEF Approves

LEMMA SupportedGrows ==
    ASSUME NEW evs \in Seq(Event), NEW e \in Event, NEW f,
           NEW n \in 0..Len(evs), NEW k \in Nat, n <= k, Supported(evs, f, n)
    PROVE  Supported(Append(evs, e), f, k)
<1>1. ASSUME f.type = "mission.step_started"
      PROVE  /\ f.step \in Steps(Append(evs, e))
             /\ AtRisk(Append(evs, e)[f.step]) => Approves(Append(evs, e), f.step, k)
    <2>1. f.step \in Steps(evs) /\ (AtRisk(evs[f.step]) => Approves(evs, f.step, n))
        BY <1>1 DEF Supported
    <2>2. Append(evs, e)[f.step] = evs[f.step]
        BY <2>1, StepsAreEvents, Growth
    <2>3. QED BY <2>1, <2>2, StepsGrow, ApprovesGrows
<1>2. ASSUME f.type \in StepUpdate, f.approval = "approved"
      PROVE  Approves(Append(evs, e), f.step, k)
    BY <1>2, ApprovesGrows DEF Supported
<1>3. QED BY <1>1, <1>2 DEF Supported

LEMMA LogGrows ==
    ASSUME NEW evs \in Seq(Event), LogSound(evs), NEW e \in Event, Appendable(evs, e)
    PROVE  LogSound(Append(evs, e))
<1> DEFINE new == Append(evs, e)
           n == Len(evs)
<1>1. ASSUME NEW i \in 1..n PROVE Supported(new, new[i], i)
    <2>1. Supported(evs, evs[i], i) /\ new[i] = evs[i]
        BY Growth DEF LogSound
    <2>2. i \in 0..Len(evs) /\ i \in Nat /\ i <= i
        OBVIOUS
    <2> HIDE DEF new
    <2>3. QED BY <2>1, <2>2, SupportedGrows DEF new
<1>2. Supported(new, e, n + 1)
    <2>1. CASE e.type = "mission.step_approved"
        <3>1. new[n + 1] = e /\ n + 1 \in 1..(n + 1)
            BY Growth
        <3>2. Approves(new, e.step, n + 1)
            BY <2>1, <3>1 DEF Approves
        <3>3. QED BY <2>1, <3>2 DEF Supported
    <2>2. CASE Supported(evs, e, n)
        BY <2>2, SupportedGrows, Growth
    <2>3. QED BY <2>1, <2>2 DEF Appendable
<1>3. DOMAIN new = 1..(n + 1) /\ new[n + 1] = e /\ n \in Nat
    BY Growth
<1> HIDE DEF new, n
<1>4. QED BY <1>1, <1>2, <1>3 DEF LogSound, new

LEMMA CallsGrow ==
    ASSUME NEW evs \in Seq(Event), NEW e \in Event
    PROVE  SoundCall(evs) \subseteq SoundCall(Append(evs, e))
<1> DEFINE new == Append(evs, e)
<1>1. ASSUME NEW c \in SoundCall(evs) PROVE c \in SoundCall(new)
    <2>1. c \in CallOf(new)
        BY StepsGrow DEF SoundCall, CallOf
    <2>2. ASSUME c.do = "append" PROVE Appendable(new, c.event)
        <3>1. Appendable(evs, c.event)
            BY <2>2 DEF SoundCall, CallSound
        <3>2. QED BY <3>1, SupportedGrows, Growth DEF Appendable
    <2>3. ASSUME c.do = "execute", Guarded(new[c.step])
          PROVE  Approves(new, c.step, Len(new))
        <3>1. c.step \in Steps(evs)
            BY <2>3 DEF SoundCall, CallOf
        <3>2. new[c.step] = evs[c.step]
            BY <3>1, StepsAreEvents, Growth
        <3>3. Approves(evs, c.step, Len(evs))
            BY <2>3, <3>2 DEF SoundCall, CallSound
        <3>4. QED BY <3>3, ApprovesGrows, Growth
    <2>4. QED BY <2>1, <2>2, <2>3 DEF SoundCall, CallSound
<1>2. QED BY <1>1

LEMMA RunsGrow ==
    ASSUME NEW evs \in Seq(Event), NEW e \in Event
    PROVE  SoundRun(evs) \subseteq SoundRun(Append(evs, e))
<1> DEFINE new == Append(evs, e)
<1>1. ASSUME NEW r \in SoundRun(evs) PROVE r \in SoundRun(new)
    <2>1. r \in RunOf(evs) /\ r \in RunOf(new)
        BY StepsGrow, Growth DEF SoundRun, RunOf
    <2>2. new[r.step] = evs[r.step]
        BY <2>1, StepsAreEvents, Growth DEF RunOf
    <2>3. ASSUME Guarded(new[r.step]) PROVE Approves(new, r.step, r.at)
        <3>1. Approves(evs, r.step, r.at)
            BY <2>2, <2>3 DEF SoundRun
        <3>2. r.at \in 0..Len(evs) /\ r.at \in Nat /\ r.at <= r.at
            BY <2>1 DEF RunOf
        <3>3. QED BY <3>1, <3>2, ApprovesGrows
    <2>4. QED BY <2>1, <2>3 DEF SoundRun
<1>2. QED BY <1>1

-----------------------------------------------------------------------------
(* The calls a handler puts on its list are sound.                         *)

LEMMA AppendingSound ==
    ASSUME NEW evs, NEW e \in Event, e.type \notin StepUpdate,
           e.type = "mission.step_proposed" => e.approval # "approved"
    PROVE  Appending(e) \in SoundCall(evs)
<1>1. Appending(e) \in CallOf(evs)
    BY DEF Appending, CallOf
<1>2. Appendable(evs, e)
    BY DEF Appendable, Supported, StepUpdate
<1>3. Appending(e).do = "append" /\ Appending(e).event = e
    BY DEF Appending
<1>4. QED BY <1>1, <1>2, <1>3 DEF SoundCall, CallSound

(* The records about a mission, its items and its tasks.                   *)
LEMMA MissionEvents ==
    ASSUME NEW m \in Nat, NEW kind \in MissionItemKind, NEW weak \in BOOLEAN,
           NEW status \in MissionStatus, NEW evs
    PROVE  /\ Appending(MissionOpened) \in SoundCall(evs)
           /\ Appending(MissionStatusUpdated(m, status)) \in SoundCall(evs)
           /\ Appending(MissionItemAdded(m, kind, weak)) \in SoundCall(evs)
           /\ Appending(ReflectionRecorded(m, kind)) \in SoundCall(evs)
           /\ Appending(TaskOpened(m, kind)) \in SoundCall(evs)
           /\ Appending(GrowthProposed(m)) \in SoundCall(evs)
           /\ Appending(Recommended(m, weak)) \in SoundCall(evs)
           /\ OpenTask(m, kind) \in SoundCall(evs)
           /\ Recommend(m, weak) \in SoundCall(evs)
<1>1. MissionOpened \in Event /\ MissionOpened.type = "mission.opened"
    BY DEF Event, MissionOpened
<1>2. /\ MissionStatusUpdated(m, status) \in Event
      /\ MissionStatusUpdated(m, status).type = "mission.status_updated"
    BY DEF Event, MissionStatusUpdated
<1>3. /\ MissionItemAdded(m, kind, weak) \in Event
      /\ MissionItemAdded(m, kind, weak).type = "mission.item_added"
    BY DEF Event, MissionItemAdded
<1>4. /\ ReflectionRecorded(m, kind) \in Event
      /\ ReflectionRecorded(m, kind).type = "lucien.reflection_recorded"
    BY DEF Event, ReflectionRecorded
<1>5. TaskOpened(m, kind) \in Event /\ TaskOpened(m, kind).type = "reflection.task_opened"
    BY DEF Event, TaskOpened
<1>6. GrowthProposed(m) \in Event /\ GrowthProposed(m).type = "lucien.growth_proposed"
    BY DEF Event, GrowthProposed
<1>7. Recommended(m, weak) \in Event /\ Recommended(m, weak).type = "mission.autonomy_recommended"
    BY DEF Event, Recommended
<1>8. OpenTask(m, kind) \in SoundCall(evs) /\ Recommend(m, weak) \in SoundCall(evs)
    BY DEF OpenTask, Recommend, SoundCall, CallOf, CallSound
<1>9. /\ "mission.opened" \notin StepUpdate /\ "mission.status_updated" \notin StepUpdate
      /\ "mission.item_added" \notin StepUpdate
      /\ "lucien.reflection_recorded" \notin StepUpdate
      /\ "reflection.task_opened" \notin StepUpdate
      /\ "lucien.growth_proposed" \notin StepUpdate
      /\ "mission.autonomy_recommended" \notin StepUpdate
    BY DEF StepUpdate
<1>10. QED BY <1>1, <1>2, <1>3, <1>4, <1>5, <1>6, <1>7, <1>8, <1>9, AppendingSound

(* The records about tools and evidence.                                   *)
LEMMA ToolEvents ==
    ASSUME NEW n \in Nat, NEW allowed \in BOOLEAN, NEW status \in ToolExecutionStatus, NEW evs
    PROVE  /\ Appending(PermissionChecked(n, allowed)) \in SoundCall(evs)
           /\ Appending(PreviewRecorded(n, allowed)) \in SoundCall(evs)
           /\ Appending(ExecutionRecorded(n, status)) \in SoundCall(evs)
           /\ Appending(EvidenceAdded) \in SoundCall(evs)
           /\ Appending(EvidenceLinked(n)) \in SoundCall(evs)
<1>1. /\ PermissionChecked(n, allowed) \in Event
      /\ PermissionChecked(n, allowed).type = "tool.permission_checked"
    BY DEF Event, PermissionChecked
<1>2. /\ PreviewRecorded(n, allowed) \in Event
      /\ PreviewRecorded(n, allowed).type = "tool.preview_recorded"
    BY DEF Event, PreviewRecorded
<1>3. /\ ExecutionRecorded(n, status) \in Event
      /\ ExecutionRecorded(n, status).type = "tool.execution_recorded"
    BY DEF Event, ExecutionRecorded
<1>4. EvidenceAdded \in Event /\ EvidenceAdded.type = "evidence.added"
    BY DEF Event, EvidenceAdded
<1>5. EvidenceLinked(n) \in Event /\ EvidenceLinked(n).type = "evidence.linked"
    BY DEF Event, EvidenceLinked
<1>6. /\ "tool.permission_checked" \notin StepUpdate
      /\ "tool.preview_recorded" \notin StepUpdate
      /\ "tool.execution_recorded" \notin StepUpdate
      /\ "evidence.added" \notin StepUpdate /\ "evidence.linked" \notin StepUpdate
    BY DEF StepUpdate
<1>7. QED BY <1>1, <1>2, <1>3, <1>4, <1>5, <1>6, AppendingSound

(* A task that was open is closed by its position.                         *)
LEMMA TaskEvents ==
    ASSUME NEW t \in Nat, NEW evs,
           NEW how \in {"reflection.task_resolved", "reflection.task_dismissed"}
    PROVE  /\ Appending(TaskClosed(how, t)) \in SoundCall(evs)
           /\ CloseTask(t, how) \in SoundCall(evs)
<1>1. TaskClosed(how, t) \in Event /\ TaskClosed(how, t).type = how
    BY DEF Event, TaskClosed
<1>2. how \notin StepUpdate
    BY DEF StepUpdate
<1>3. CloseTask(t, how) \in SoundCall(evs)
    BY DEF CloseTask, SoundCall, CallOf, CallSound
<1>4. QED BY <1>1, <1>2, <1>3, AppendingSound

(* A step is proposed without an approval.                                 *)
LEMMA ProposalSound ==
    ASSUME NEW m \in Nat, NEW risk \in MissionStepRisk, NEW tool \in Tools \cup TOOL_REGISTRY,
           NEW evs
    PROVE  /\ StepProposed(m, risk, tool) \in Event
           /\ StepProposed(m, risk, tool).approval # "approved"
           /\ Appending(StepProposed(m, risk, tool)) \in SoundCall(evs)
<1>1. /\ StepProposed(m, risk, tool) \in Event
      /\ StepProposed(m, risk, tool).type = "mission.step_proposed"
      /\ StepProposed(m, risk, tool).approval # "approved"
    <2> DEFINE approval == IF risk = "low" THEN "not_required" ELSE "pending"
               execution == IF risk = "low" THEN "ready" ELSE "proposed"
               e == StepProposed(m, risk, tool)
    <2>1. approval \in MissionStepApprovalStatus /\ approval # "approved"
        BY DEF MissionStepApprovalStatus
    <2>2. execution \in MissionStepExecutionStatus
        BY DEF MissionStepExecutionStatus
    <2>3. e = [type |-> "mission.step_proposed", mission |-> m, risk |-> risk, tool |-> tool,
               approval |-> approval, execution |-> execution]
        BY DEF StepProposed
    <2> HIDE DEF approval, execution, e
    <2>4. QED BY <2>1, <2>2, <2>3 DEF Event, e
<1>2. "mission.step_proposed" \notin StepUpdate
    BY DEF StepUpdate
<1>3. QED BY <1>1, <1>2, AppendingSound

(* An update says approved only of a step that has been approved.          *)
LEMMA UpdateSound ==
    ASSUME NEW evs \in Seq(Event), NEW s \in Steps(evs), NEW type \in StepUpdate,
           NEW approval \in MissionStepApprovalStatus,
           NEW execution \in MissionStepExecutionStatus,
           \/ type = "mission.step_approved"
           \/ /\ approval = "approved" => Approves(evs, s, Len(evs))
              /\ type = "mission.step_started" /\ AtRisk(evs[s]) => Approves(evs, s, Len(evs))
    PROVE  Appending(StepUpdated(type, s, approval, execution)) \in SoundCall(evs)
<1> DEFINE e == StepUpdated(type, s, approval, execution)
<1>1. /\ e.type = type /\ e.step = s /\ e.approval = approval /\ e.execution = execution
    BY DEF StepUpdated
<1>2. e \in Event
    BY StepsAreEvents DEF Event, StepUpdated
<1>3. type # "mission.step_proposed"
    BY DEF StepUpdate
<1> HIDE DEF e
<1>4. Appendable(evs, e)
    BY <1>1, <1>3 DEF Appendable, Supported
<1>5. Appending(e) \in CallOf(evs) /\ Appending(e).do = "append" /\ Appending(e).event = e
    BY <1>2 DEF Appending, CallOf
<1>6. QED BY <1>4, <1>5 DEF SoundCall, CallSound, e

(* The calls of add_mission_item.                                          *)
LEMMA ItemSound ==
    ASSUME NEW m \in Nat, NEW kind \in MissionItemKind, NEW weak \in BOOLEAN, NEW evs
    PROVE  add_mission_item(m, kind, weak) \in Seq(SoundCall(evs))
<1> DEFINE item == <<Appending(MissionItemAdded(m, kind, weak))>>
           review == IF Pressing(kind, weak)
                     THEN <<Appending(ReflectionRecorded(m, kind)), OpenTask(m, kind)>>
                     ELSE <<>>
           growth == IF kind = "lesson" THEN <<Appending(GrowthProposed(m))>> ELSE <<>>
<1>0. MissionStatus # {}
    BY DEF MissionStatus
<1>1. item \in Seq(SoundCall(evs))
    BY <1>0, MissionEvents
<1>2. review \in Seq(SoundCall(evs))
    <2>1. Appending(ReflectionRecorded(m, kind)) \in SoundCall(evs)
          /\ OpenTask(m, kind) \in SoundCall(evs)
        BY <1>0, MissionEvents
    <2>2. QED BY <2>1
<1>3. growth \in Seq(SoundCall(evs))
    <2>1. Appending(GrowthProposed(m)) \in SoundCall(evs)
        BY <1>0, MissionEvents
    <2>2. QED BY <2>1
<1>4. add_mission_item(m, kind, weak) = item \o review \o growth
    BY DEF add_mission_item
<1> HIDE DEF item, review, growth
<1>5. QED BY <1>1, <1>2, <1>3, <1>4

(* The calls that name a step.                                             *)
LEMMA StepCalls ==
    ASSUME NEW evs, NEW s \in Steps(evs)
    PROVE  /\ \A f \in DOMAIN StepFunction : Do(f, s) \in SoundCall(evs)
           /\ (Guarded(evs[s]) => Approves(evs, s, Len(evs))) =>
                  Do("execute", s) \in SoundCall(evs)
           /\ \A then \in {"nothing", "preview"} \cup MissionStepExecutionStatus :
                  Permission(s, then) \in SoundCall(evs)
<1>1. DOMAIN StepFunction = {"approve", "start", "complete", "fail", "block", "run_tool"}
    BY DEF StepFunction
<1>2. QED BY <1>1 DEF Do, Permission, SoundCall, CallOf, CallSound

-----------------------------------------------------------------------------
(* The ways a step of the system changes the state.                        *)

(* The list of the next handler's calls, or what is left of a list.        *)
LEMMA CallsReplaced ==
    ASSUME Inv, NEW p \in Procs, NEW calls \in Seq(SoundCall(log)),
           todo' = [todo EXCEPT ![p] = calls], UNCHANGED <<log, ran>>,
           started' \in Nat, overlap' \in BOOLEAN, killed' \in BOOLEAN
    PROVE  Inv'
<1>1. todo' \in [Procs -> Seq(SoundCall(log))]
    BY DEF Inv
<1>2. log' = log /\ ran' = ran
    OBVIOUS
<1>3. Inv /\ started' \in Nat /\ overlap' \in BOOLEAN /\ killed' \in BOOLEAN
    OBVIOUS
<1>4. QED BY ONLY <1>1, <1>2, <1>3 DEF Inv

LEMMA Began ==
    ASSUME Inv, NEW p \in Procs, NEW command \in CommandName,
           NEW calls \in Seq(SoundCall(log)), Begin(p, command, calls)
    PROVE  Inv'
<1>1. /\ todo' = [todo EXCEPT ![p] = calls] /\ UNCHANGED <<log, ran>>
      /\ started' = started + 1 /\ overlap' = (overlap \/ ~Quiescent) /\ killed' = killed
    BY DEF Begin
<1>2. started' \in Nat /\ killed' \in BOOLEAN
    BY <1>1 DEF Inv
<1>3. overlap' \in BOOLEAN
    BY <1>1, Zenon
<1>4. QED BY <1>1, <1>2, <1>3, CallsReplaced

(* The call at the head of a list, and what follows it.                    *)
LEMMA HeadCall ==
    ASSUME Inv, NEW p \in Procs, todo[p] # Idle
    PROVE  /\ Call(p) \in SoundCall(log) /\ Tail(todo[p]) \in Seq(SoundCall(log))
           /\ Idle \in Seq(SoundCall(log))
<1>1. todo[p] \in Seq(SoundCall(log)) /\ todo[p] # <<>>
    BY DEF Inv, Idle
<1>2. QED BY <1>1 DEF Call, Idle

LEMMA Returned ==
    ASSUME Inv, NEW p \in Procs, todo[p] # Idle, NEW next \in Seq(SoundCall(log)),
           \/ todo' = [todo EXCEPT ![p] = next \o Tail(@)]
           \/ todo' = [todo EXCEPT ![p] = Idle],
           UNCHANGED <<log, ran, started, overlap, killed>>
    PROVE  Inv'
<1>1. Tail(todo[p]) \in Seq(SoundCall(log)) /\ Idle \in Seq(SoundCall(log))
    BY HeadCall
<1>2. next \o Tail(todo[p]) \in Seq(SoundCall(log))
    BY <1>1
<1>3. started' \in Nat /\ overlap' \in BOOLEAN /\ killed' \in BOOLEAN
    BY DEF Inv
<1>4. CASE todo' = [todo EXCEPT ![p] = next \o Tail(@)]
    BY <1>2, <1>3, <1>4, CallsReplaced
<1>5. CASE todo' = [todo EXCEPT ![p] = Idle]
    BY <1>1, <1>3, <1>5, CallsReplaced
<1>6. QED BY <1>4, <1>5

(* What the call at the head of a list is about.                           *)
LEMMA CalledStep ==
    ASSUME Inv, NEW p \in Procs, NEW f \in DOMAIN StepFunction \cup {"execute", "permission"},
           Called(p, f)
    PROVE  /\ Call(p).step \in Steps(log) /\ log[Call(p).step].mission \in Nat
           /\ Call(p).step \in Nat
           /\ StepRecord(log, Call(p).step).approval \in MissionStepApprovalStatus
           /\ Execution(log, Call(p).step) \in MissionStepExecutionStatus
<1>1. Call(p) \in CallOf(log) /\ Call(p).do = f
    BY HeadCall DEF Called, Call, SoundCall
<1>2. DOMAIN StepFunction = {"approve", "start", "complete", "fail", "block", "run_tool"}
    BY DEF StepFunction
<1>3. Call(p).step \in Steps(log)
    BY <1>1, <1>2 DEF CallOf
<1>4. log \in Seq(Event)
    BY DEF Inv
<1>5. QED BY <1>3, <1>4, StepsAreEvents, ProposalFields, RecordTyped

-----------------------------------------------------------------------------
(* Commands.                                                               *)

LEMMA CommandNames ==
    /\ {"mission-open", "mission-status", "mission-add", "mission-step-propose",
        "tool-permission", "tool-dry-run", "reflection-task", "mission-next-step"}
           \subseteq CommandName
    /\ \A f \in DOMAIN StepFunction : StepFunction[f] \in CommandName
BY DEF CommandName, StepFunction

LEMMA PositionsAreNumbers ==
    ASSUME Inv
    PROVE  /\ \A m \in Missions(log) : m \in Nat
           /\ \A t \in Tasks(log) : t \in Nat
BY DEF Inv, Missions, Tasks, Positions

LEMMA CommandPreserves ==
    ASSUME Inv, NEW p \in Procs, Command(p)
    PROVE  Inv'
<1>0. /\ MissionStatus # {} /\ MissionItemKind # {} /\ log \in Seq(Event)
    BY DEF MissionStatus, MissionItemKind, Inv
<1>1. CASE OpenMission(p)
    <2>1. Appending(MissionOpened) \in SoundCall(log)
        BY <1>0, MissionEvents
    <2>2. <<Appending(MissionOpened)>> \in Seq(SoundCall(log))
        BY <2>1
    <2>3. QED BY <1>1, <2>2, CommandNames, Began DEF OpenMission
<1>2. CASE UpdateMissionStatus(p)
    <2>1. PICK m \in Missions(log), status \in MissionStatus :
              Begin(p, "mission-status", <<Appending(MissionStatusUpdated(m, status))>>)
        BY <1>2 DEF UpdateMissionStatus
    <2>2. Appending(MissionStatusUpdated(m, status)) \in SoundCall(log)
        BY <1>0, PositionsAreNumbers, MissionEvents
    <2>3. <<Appending(MissionStatusUpdated(m, status))>> \in Seq(SoundCall(log))
        BY <2>2
    <2>4. QED BY <2>1, <2>3, CommandNames, Began
<1>3. CASE AddMissionItem(p)
    <2>1. PICK m \in Missions(log), kind \in MissionItemKind, weak \in BOOLEAN :
              Begin(p, "mission-add", add_mission_item(m, kind, weak))
        BY <1>3 DEF AddMissionItem
    <2>2. add_mission_item(m, kind, weak) \in Seq(SoundCall(log))
        BY PositionsAreNumbers, ItemSound
    <2>3. QED BY <2>1, <2>2, CommandNames, Began
<1>4. CASE ProposeMissionStep(p)
    <2>1. PICK m \in Missions(log), risk \in MissionStepRisk, tool \in Tools :
              Begin(p, "mission-step-propose", <<Appending(StepProposed(m, risk, tool))>>)
        BY <1>4 DEF ProposeMissionStep
    <2>2. Appending(StepProposed(m, risk, tool)) \in SoundCall(log)
        BY PositionsAreNumbers, ProposalSound
    <2>3. <<Appending(StepProposed(m, risk, tool))>> \in Seq(SoundCall(log))
        BY <2>2
    <2>4. QED BY <2>1, <2>3, CommandNames, Began
<1>5. CASE UseStep(p)
    <2>1. PICK s \in Steps(log), f \in DOMAIN StepFunction :
              Begin(p, StepFunction[f], <<Do(f, s)>>)
        BY <1>5 DEF UseStep
    <2>2. Do(f, s) \in SoundCall(log)
        BY StepCalls
    <2>3. <<Do(f, s)>> \in Seq(SoundCall(log)) /\ StepFunction[f] \in CommandName
        BY <2>2, CommandNames
    <2>4. QED BY <2>1, <2>3, Began
<1>6. CASE CheckPermission(p) \/ DryRunTool(p)
    <2>1. PICK s \in Steps(log), then \in {"nothing", "preview"},
               command \in {"tool-permission", "tool-dry-run"} :
              Begin(p, command, <<Permission(s, then)>>)
        BY <1>6 DEF CheckPermission, DryRunTool
    <2>2. Permission(s, then) \in SoundCall(log)
        BY StepCalls
    <2>3. <<Permission(s, then)>> \in Seq(SoundCall(log)) /\ command \in CommandName
        BY <2>2, CommandNames
    <2>4. QED BY <2>1, <2>3, Began
<1>7. CASE UpdateReflectionTask(p)
    <2>1. PICK t \in Tasks(log), how \in {"reflection.task_resolved", "reflection.task_dismissed"} :
              Begin(p, "reflection-task", <<CloseTask(t, how)>>)
        BY <1>7 DEF UpdateReflectionTask
    <2>2. CloseTask(t, how) \in SoundCall(log)
        BY PositionsAreNumbers, TaskEvents
    <2>3. <<CloseTask(t, how)>> \in Seq(SoundCall(log))
        BY <2>2
    <2>4. QED BY <2>1, <2>3, CommandNames, Began
<1>8. CASE NextStep(p)
    <2>1. PICK m \in Missions(log), apply \in BOOLEAN :
              Begin(p, "mission-next-step", <<Recommend(m, apply)>>)
        BY <1>8 DEF NextStep
    <2>2. Recommend(m, apply) \in SoundCall(log)
        BY <1>0, PositionsAreNumbers, MissionEvents
    <2>3. <<Recommend(m, apply)>> \in Seq(SoundCall(log))
        BY <2>2
    <2>4. QED BY <2>1, <2>3, CommandNames, Began
<1>9. QED BY <1>1, <1>2, <1>3, <1>4, <1>5, <1>6, <1>7, <1>8 DEF Command

-----------------------------------------------------------------------------
(* Calls.                                                                  *)

LEMMA AppendPreserves ==
    ASSUME Inv, NEW p \in Procs, AppendEvent(p)
    PROVE  Inv'
<1> DEFINE e == Call(p).event
<1>1. Call(p) \in SoundCall(log) /\ Call(p).do = "append" /\ todo[p] # Idle
    BY HeadCall DEF AppendEvent, Called, Call
<1>2. e \in Event
    <2>1. DOMAIN StepFunction = {"approve", "start", "complete", "fail", "block", "run_tool"}
        BY DEF StepFunction
    <2>2. QED BY <1>1, <2>1 DEF SoundCall, CallOf
<1>3. Appendable(log, e)
    BY <1>1 DEF SoundCall, CallSound
<1>4. log \in Seq(Event) /\ LogSound(log)
    BY DEF Inv
<1>5. /\ log' = Append(log, e) /\ todo' = [todo EXCEPT ![p] = Tail(@)]
      /\ UNCHANGED <<ran, started, overlap, killed>>
    BY DEF AppendEvent
<1> HIDE DEF e
<1>6. log' \in Seq(Event) /\ LogSound(log')
    BY <1>2, <1>3, <1>4, <1>5, LogGrows
<1>7. SoundCall(log) \subseteq SoundCall(log') /\ SoundRun(log) \subseteq SoundRun(log')
    BY <1>2, <1>4, <1>5, CallsGrow, RunsGrow
<1>8. todo' \in [Procs -> Seq(SoundCall(log'))]
    <2>1. todo' \in [Procs -> Seq(SoundCall(log))]
        BY <1>1, <1>5, HeadCall DEF Inv
    <2>2. Seq(SoundCall(log)) \subseteq Seq(SoundCall(log'))
        BY <1>7, SeqGrows
    <2>3. QED BY <2>1, <2>2
<1>9. ran' \in Seq(SoundRun(log'))
    BY <1>5, <1>7, SeqGrows DEF Inv
<1>10. started' \in Nat /\ overlap' \in BOOLEAN /\ killed' \in BOOLEAN
    BY <1>5 DEF Inv
<1>11. QED BY <1>6, <1>8, <1>9, <1>10 DEF Inv

(* The update of a step, and the item it leaves.                           *)
LEMMA UpdatePreserves ==
    ASSUME Inv, NEW p \in Procs, NEW s \in Steps(log), todo[p] # Idle,
           NEW type \in StepUpdate, NEW approval \in MissionStepApprovalStatus,
           NEW execution \in MissionStepExecutionStatus,
           NEW item \in Seq(SoundCall(log)), NEW allowed,
           allowed =>
              \/ type = "mission.step_approved"
              \/ /\ approval = "approved" => Approves(log, s, Len(log))
                 /\ type = "mission.step_started" /\ AtRisk(log[s]) => Approves(log, s, Len(log)),
           Return(p, allowed, <<Appending(StepUpdated(type, s, approval, execution))>> \o item)
    PROVE  Inv'
<1> DEFINE update == Appending(StepUpdated(type, s, approval, execution))
<1>1. CASE allowed
    <2>1. log \in Seq(Event)
        BY DEF Inv
    <2>2. update \in SoundCall(log)
        BY <1>1, <2>1, UpdateSound
    <2> HIDE DEF update
    <2>3. <<update>> \o item \in Seq(SoundCall(log))
        BY <2>2
    <2>4. /\ todo' = [todo EXCEPT ![p] = (<<update>> \o item) \o Tail(@)]
          /\ UNCHANGED <<log, ran, started, overlap, killed>>
        BY <1>1 DEF Return, update
    <2>5. QED BY <2>3, <2>4, Returned
<1>2. CASE ~allowed
    <2>1. /\ todo' = [todo EXCEPT ![p] = Idle]
          /\ UNCHANGED <<log, ran, started, overlap, killed>>
        BY <1>2 DEF Return
    <2>2. Idle \in Seq(SoundCall(log))
        BY HeadCall
    <2>3. QED BY <2>1, <2>2, Returned
<1>3. QED BY <1>1, <1>2

LEMMA TransitionPreserves ==
    ASSUME Inv, NEW p \in Procs,
           \/ approve_mission_step(p) \/ start_mission_step(p) \/ complete_mission_step(p)
           \/ fail_mission_step(p) \/ block_mission_step(p)
    PROVE  Inv'
<1> DEFINE s == Call(p).step
<1>1. PICK f \in DOMAIN StepFunction : Called(p, f)
    BY DEF StepFunction, approve_mission_step, start_mission_step, complete_mission_step,
           fail_mission_step, block_mission_step
<1>2. /\ s \in Steps(log) /\ log[s].mission \in Nat /\ todo[p] # Idle
      /\ Approval(s) \in MissionStepApprovalStatus
    BY <1>1, CalledStep DEF Called, Approval
<1>3. Approved(log, s) => Approves(log, s, Len(log))
    BY <1>2, ApprovedIsApproved DEF Inv
<1>4. Approval(s) = "approved" => Approves(log, s, Len(log))
    BY <1>3 DEF Approval, Approved
<1>5. <<>> \in Seq(SoundCall(log)) /\ \A weak \in BOOLEAN : Outcome(s, weak) \in Seq(SoundCall(log))
    BY <1>2, ItemSound DEF Outcome, MissionItemKind
<1>6. /\ {"mission.step_approved", "mission.step_started", "mission.step_completed",
          "mission.step_failed", "mission.step_blocked"} \subseteq StepUpdate
      /\ {"ready", "running", "completed", "failed", "blocked"}
            \subseteq MissionStepExecutionStatus
      /\ "approved" \in MissionStepApprovalStatus
    BY DEF StepUpdate, MissionStepExecutionStatus, MissionStepApprovalStatus
<1>7. CASE approve_mission_step(p)
    <2> DEFINE calls == <<Appending(StepUpdated("mission.step_approved", s, "approved", "ready"))>>
    <2>1. Return(p, Execution(log, s) \in {"proposed", "ready", "blocked"}, calls)
        BY <1>7 DEF approve_mission_step
    <2>2. calls = calls \o <<>>
        OBVIOUS
    <2>3. Return(p, Execution(log, s) \in {"proposed", "ready", "blocked"}, calls \o <<>>)
        BY <2>1, <2>2
    <2> HIDE DEF s
    <2>4. QED BY <1>2, <1>5, <1>6, <2>3, UpdatePreserves
<1>8. CASE start_mission_step(p)
    <2> DEFINE calls == <<Appending(StepUpdated("mission.step_started", s, Approval(s), "running"))>>
               allowed == ~NeedsApproval(log, s) /\ Execution(log, s) \in {"proposed", "ready"}
    <2>1. Return(p, allowed, calls)
        BY <1>8 DEF start_mission_step
    <2>2. calls = calls \o <<>>
        OBVIOUS
    <2>3. Return(p, allowed, calls \o <<>>)
        BY <2>1, <2>2
    <2>4. allowed => (AtRisk(log[s]) => Approves(log, s, Len(log)))
        BY <1>3 DEF NeedsApproval, AtRisk
    <2> HIDE DEF s, allowed
    <2>5. QED BY <1>2, <1>4, <1>5, <1>6, <2>3, <2>4, UpdatePreserves
<1>9. CASE complete_mission_step(p)
    <2>1. Return(p, Execution(log, s) = "running",
              <<Appending(StepUpdated("mission.step_completed", s, Approval(s), "completed"))>>
              \o Outcome(s, FALSE))
        BY <1>9 DEF complete_mission_step
    <2> HIDE DEF s
    <2>2. QED BY <1>2, <1>4, <1>5, <1>6, <2>1, UpdatePreserves
<1>10. CASE fail_mission_step(p)
    <2>1. Return(p, Execution(log, s) \in {"running", "ready", "proposed"},
              <<Appending(StepUpdated("mission.step_failed", s, Approval(s), "failed"))>>
              \o Outcome(s, TRUE))
        BY <1>10 DEF fail_mission_step
    <2> HIDE DEF s
    <2>2. QED BY <1>2, <1>4, <1>5, <1>6, <2>1, UpdatePreserves
<1>11. CASE block_mission_step(p)
    <2>1. Return(p, TRUE,
              <<Appending(StepUpdated("mission.step_blocked", s, Approval(s), "blocked"))>>
              \o Outcome(s, TRUE))
        BY <1>11 DEF block_mission_step
    <2> HIDE DEF s
    <2>2. QED BY <1>2, <1>4, <1>5, <1>6, <2>1, UpdatePreserves
<1>12. QED BY <1>7, <1>8, <1>9, <1>10, <1>11

(* A call that returns, with sound calls to make next or an error.         *)
LEMMA ReturnPreserves ==
    ASSUME Inv, NEW p \in Procs, todo[p] # Idle, NEW next, NEW allowed,
           allowed => next \in Seq(SoundCall(log)), Return(p, allowed, next)
    PROVE  Inv'
<1>1. CASE allowed
    <2>1. /\ todo' = [todo EXCEPT ![p] = next \o Tail(@)]
          /\ UNCHANGED <<log, ran, started, overlap, killed>>
        BY <1>1 DEF Return
    <2>2. QED BY <1>1, <2>1, Returned
<1>2. CASE ~allowed
    <2>1. /\ todo' = [todo EXCEPT ![p] = Idle]
          /\ UNCHANGED <<log, ran, started, overlap, killed>>
        BY <1>2 DEF Return
    <2>2. Idle \in Seq(SoundCall(log))
        BY HeadCall
    <2>3. QED BY <2>1, <2>2, Returned
<1>3. QED BY <1>1, <1>2

LEMMA TaskPreserves ==
    ASSUME Inv, NEW p \in Procs, open_tasks_from_reflection(p) \/ update_reflection_task(p)
    PROVE  Inv'
<1>1. Call(p) \in CallOf(log) /\ todo[p] # Idle
    BY HeadCall DEF open_tasks_from_reflection, update_reflection_task, Called, SoundCall
<1>2. DOMAIN StepFunction = {"approve", "start", "complete", "fail", "block", "run_tool"}
    BY DEF StepFunction
<1>3. CASE open_tasks_from_reflection(p)
    <2> DEFINE m == Call(p).mission
               kind == Call(p).kind
               existing == {t \in OpenMissionTasks(log, m) : log[t].kind = kind}
               next == IF existing = {} THEN <<Appending(TaskOpened(m, kind))>> ELSE <<>>
    <2>1. m \in Nat /\ kind \in MissionItemKind
        BY <1>1, <1>2, <1>3 DEF open_tasks_from_reflection, Called, Call, CallOf
    <2>2. MissionStatus # {}
        BY DEF MissionStatus
    <2> HIDE DEF m, kind
    <2>3. Appending(TaskOpened(m, kind)) \in SoundCall(log)
        BY <2>1, <2>2, MissionEvents
    <2>4. next \in Seq(SoundCall(log))
        BY <2>3
    <2>5. Return(p, TRUE, next)
        BY <1>3 DEF open_tasks_from_reflection, m, kind
    <2> HIDE DEF next
    <2>6. QED BY <1>1, <2>4, <2>5, ReturnPreserves
<1>4. CASE update_reflection_task(p)
    <2> DEFINE t == Call(p).task
               how == Call(p).how
    <2>1. t \in Nat /\ how \in {"reflection.task_resolved", "reflection.task_dismissed"}
        BY <1>1, <1>2, <1>4 DEF update_reflection_task, Called, Call, CallOf
    <2>2. Return(p, t \in OpenTasks(log), <<Appending(TaskClosed(how, t))>>)
        BY <1>4 DEF update_reflection_task
    <2> HIDE DEF t, how
    <2>3. Appending(TaskClosed(how, t)) \in SoundCall(log)
        BY <2>1, TaskEvents
    <2>4. <<Appending(TaskClosed(how, t))>> \in Seq(SoundCall(log))
        BY <2>3
    <2>5. QED BY <1>1, <2>2, <2>4, ReturnPreserves
<1>5. QED BY <1>3, <1>4

LEMMA RecommendPreserves ==
    ASSUME Inv, NEW p \in Procs, recommend_next_mission_step(p)
    PROVE  Inv'
<1> DEFINE m == Call(p).mission
           apply == Call(p).apply
           proposal(risk, tool) == IF apply THEN <<Appending(StepProposed(m, risk, tool))>> ELSE <<>>
           yes == Appending(Recommended(m, TRUE))
           no == Appending(Recommended(m, FALSE))
           step(risk, tool) == <<yes>> \o proposal(risk, tool)
           none == <<no>>
<1>1. Call(p) \in CallOf(log) /\ Call(p).do = "recommend" /\ todo[p] # Idle
    BY HeadCall DEF recommend_next_mission_step, Called, Call, SoundCall
<1>2. DOMAIN StepFunction = {"approve", "start", "complete", "fail", "block", "run_tool"}
    BY DEF StepFunction
<1>3. m \in Nat /\ apply \in BOOLEAN
    BY <1>1, <1>2 DEF CallOf
<1>4. \/ Return(p, TRUE, none)
      \/ \E risk \in MissionStepRisk, tool \in TOOL_REGISTRY : Return(p, TRUE, step(risk, tool))
    <2>1. \A phase : PhaseTool(phase) \subseteq TOOL_REGISTRY
        BY DEF PhaseTool, TOOL_REGISTRY
    <2>2. "low" \in MissionStepRisk
        BY DEF MissionStepRisk
    <2>3. \/ Return(p, TRUE, none)
          \/ \E risk \in MissionStepRisk, tool \in Tools \cap TOOL_REGISTRY :
                Return(p, TRUE, step(risk, tool))
          \/ \E tool \in PhaseTool(mission_flow(log, m).phase) :
                Return(p, TRUE, step("low", tool))
        BY Zenon DEF recommend_next_mission_step
    <2> HIDE DEF none, step
    <2>4. QED BY <2>1, <2>2, <2>3
<1> HIDE DEF m, apply
<1>5. /\ MissionItemKind # {} /\ MissionStatus # {}
    BY DEF MissionItemKind, MissionStatus
<1>6. yes \in SoundCall(log) /\ no \in SoundCall(log)
    BY <1>3, <1>5, MissionEvents
<1> HIDE DEF yes, no
<1>7. none \in Seq(SoundCall(log))
    BY <1>6
<1>8. ASSUME NEW risk \in MissionStepRisk, NEW tool \in TOOL_REGISTRY
      PROVE  step(risk, tool) \in Seq(SoundCall(log))
    <2>1. Appending(StepProposed(m, risk, tool)) \in SoundCall(log)
        BY <1>3, ProposalSound
    <2>2. proposal(risk, tool) \in Seq(SoundCall(log))
        BY <2>1
    <2> HIDE DEF proposal
    <2>3. <<yes>> \in Seq(SoundCall(log))
        BY <1>6
    <2>4. QED BY <2>2, <2>3
<1> HIDE DEF none, step
<1>9. QED BY <1>1, <1>4, <1>7, <1>8, ReturnPreserves

LEMMA ToolPreserves ==
    ASSUME Inv, NEW p \in Procs, run_tool_for_step(p) \/ check_tool_permission(p)
    PROVE  Inv'
<1> DEFINE s == Call(p).step
           then == Call(p).then
           allowed == ~ToolDenied(log, s)
           known == log[s].tool \in TOOL_REGISTRY
<1>1. CASE run_tool_for_step(p)
    <2>1. Return(p, known, <<Permission(s, Execution(log, s))>>)
        BY <1>1 DEF run_tool_for_step
    <2>2. "run_tool" \in DOMAIN StepFunction
        BY DEF StepFunction
    <2>3. s \in Steps(log) /\ Execution(log, s) \in MissionStepExecutionStatus /\ todo[p] # Idle
        BY <1>1, <2>2, CalledStep DEF run_tool_for_step, Called
    <2> HIDE DEF s, known
    <2>4. Permission(s, Execution(log, s)) \in SoundCall(log)
        BY <2>3, StepCalls
    <2>5. <<Permission(s, Execution(log, s))>> \in Seq(SoundCall(log))
        BY <2>4
    <2>6. QED BY <2>1, <2>3, <2>5, ReturnPreserves
<1>2. CASE check_tool_permission(p)
    <2> DEFINE start == IF then \in {"proposed", "ready"} THEN <<Do("start", s)>> ELSE <<>>
               next ==
                   CASE then = "nothing" -> <<>>
                     [] then = "preview" -> <<Appending(PreviewRecorded(s, allowed))>>
                     [] OTHER -> IF ~allowed THEN <<Appending(ExecutionRecorded(s, "denied"))>>
                                 ELSE start \o <<Do("execute", s)>>
               checked == <<Appending(PermissionChecked(s, allowed))>>
    <2>1. Return(p, known, checked \o next)
        BY <1>2 DEF check_tool_permission
    <2>2. s \in Steps(log) /\ s \in Nat /\ todo[p] # Idle
        BY <1>2, CalledStep DEF check_tool_permission, Called
    <2>3. allowed => (Guarded(log[s]) => Approves(log, s, Len(log)))
        <3>1. allowed => (Guarded(log[s]) => Approved(log, s))
            BY DEF ToolDenied, NeedsApproval, Guarded, AtRisk
        <3> HIDE DEF allowed, s
        <3>2. QED BY <2>2, <3>1, ApprovedIsApproved DEF Inv
    <2>4. allowed \in BOOLEAN
        BY Zenon DEF ToolDenied
    <2>5. "start" \in DOMAIN StepFunction /\ "denied" \in ToolExecutionStatus
        BY DEF StepFunction, ToolExecutionStatus
    <2> HIDE DEF s, then, allowed, known
    <2>6. /\ Appending(PermissionChecked(s, allowed)) \in SoundCall(log)
          /\ Appending(PreviewRecorded(s, allowed)) \in SoundCall(log)
          /\ Appending(ExecutionRecorded(s, "denied")) \in SoundCall(log)
        BY <2>2, <2>4, <2>5, ToolEvents
    <2>7. Do("start", s) \in SoundCall(log) /\ (allowed => Do("execute", s) \in SoundCall(log))
        BY <2>2, <2>3, <2>5, StepCalls
    <2>8. checked \in Seq(SoundCall(log)) /\ start \in Seq(SoundCall(log))
        BY <2>6, <2>7
    <2> HIDE DEF checked, start
    <2>9. next \in Seq(SoundCall(log))
        <3>1. allowed => start \o <<Do("execute", s)>> \in Seq(SoundCall(log))
            BY <2>7, <2>8
        <3>2. /\ <<>> \in Seq(SoundCall(log))
              /\ <<Appending(PreviewRecorded(s, allowed))>> \in Seq(SoundCall(log))
              /\ <<Appending(ExecutionRecorded(s, "denied"))>> \in Seq(SoundCall(log))
            BY <2>6
        <3>3. QED BY <3>1, <3>2
    <2> HIDE DEF next
    <2>10. checked \o next \in Seq(SoundCall(log))
        BY <2>8, <2>9
    <2>11. QED BY <2>1, <2>2, <2>10, ReturnPreserves
<1>3. QED BY <1>1, <1>2

LEMMA ExecutePreserves ==
    ASSUME Inv, NEW p \in Procs, execute_tool(p)
    PROVE  Inv'
<1> DEFINE s == Call(p).step
           result(status, f) ==
               <<Appending(EvidenceAdded), Appending(EvidenceLinked(log[s].mission)),
                 Appending(ExecutionRecorded(s, status)), Do(f, s)>>
           run == [step |-> s, at |-> Len(log)]
<1>1. Called(p, "execute") /\ todo[p] # Idle
    BY DEF execute_tool, Called
<1>2. s \in Steps(log) /\ s \in Nat /\ log[s].mission \in Nat
    BY <1>1, CalledStep
<1>3. /\ ran' = Append(ran, run)
      /\ \/ todo' = [todo EXCEPT ![p] = result("completed", "complete") \o Tail(@)]
         \/ todo' = [todo EXCEPT ![p] = result("failed", "fail") \o Tail(@)]
         \/ todo' = [todo EXCEPT ![p] = Idle]
      /\ UNCHANGED <<log, started, overlap, killed>>
    BY DEF execute_tool
<1>4. run \in SoundRun(log)
    <2>1. Guarded(log[s]) => Approves(log, s, Len(log))
        BY <1>1, HeadCall DEF Called, Call, SoundCall, CallSound
    <2>2. log \in Seq(Event)
        BY DEF Inv
    <2>3. run \in RunOf(log) /\ run.step = s /\ run.at = Len(log)
        BY <1>2, <2>2 DEF RunOf
    <2> HIDE DEF run, s
    <2>4. QED BY <2>1, <2>3 DEF SoundRun
<1> HIDE DEF s, run
<1>5. ASSUME NEW status \in {"completed", "failed"}, NEW f \in {"complete", "fail"}
      PROVE  result(status, f) \in Seq(SoundCall(log))
    <2>1. status \in ToolExecutionStatus /\ f \in DOMAIN StepFunction
        BY DEF ToolExecutionStatus, StepFunction
    <2>2. /\ Appending(EvidenceAdded) \in SoundCall(log)
          /\ Appending(EvidenceLinked(log[s].mission)) \in SoundCall(log)
          /\ Appending(ExecutionRecorded(s, status)) \in SoundCall(log)
        BY <1>2, <2>1, ToolEvents
    <2>3. Do(f, s) \in SoundCall(log)
        BY <1>2, <2>1, StepCalls
    <2>4. QED BY <2>2, <2>3
<1> HIDE DEF result
<1>6. PICK calls \in Seq(SoundCall(log)) : todo' = [todo EXCEPT ![p] = calls]
    <2>1. Tail(todo[p]) \in Seq(SoundCall(log)) /\ Idle \in Seq(SoundCall(log))
        BY <1>1, HeadCall
    <2>2. /\ result("completed", "complete") \in Seq(SoundCall(log))
          /\ result("failed", "fail") \in Seq(SoundCall(log))
        BY <1>5
    <2>3. /\ result("completed", "complete") \o Tail(todo[p]) \in Seq(SoundCall(log))
          /\ result("failed", "fail") \o Tail(todo[p]) \in Seq(SoundCall(log))
        BY <2>1, <2>2
    <2>4. QED BY <1>3, <2>1, <2>3
<1>7. todo' \in [Procs -> Seq(SoundCall(log))]
    BY <1>6 DEF Inv
<1>8. ran' \in Seq(SoundRun(log))
    BY <1>3, <1>4 DEF Inv
<1>9. log' = log /\ started' = started /\ overlap' = overlap /\ killed' = killed
    BY <1>3
<1>10. Inv
    OBVIOUS
<1>11. QED BY ONLY <1>7, <1>8, <1>9, <1>10 DEF Inv

LEMMA CrashPreserves ==
    ASSUME Inv, NEW p \in Procs, Crash(p)
    PROVE  Inv'
<1>1. /\ todo[p] # Idle /\ todo' = [todo EXCEPT ![p] = Idle] /\ killed' = TRUE
      /\ UNCHANGED <<log, ran, started, overlap>>
    BY DEF Crash
<1>2. Idle \in Seq(SoundCall(log))
    BY <1>1, HeadCall
<1>3. started' \in Nat /\ overlap' \in BOOLEAN /\ killed' \in BOOLEAN
    BY <1>1 DEF Inv
<1>4. QED BY <1>1, <1>2, <1>3, CallsReplaced

-----------------------------------------------------------------------------
(* The invariant.                                                          *)

(* Every command and every call leaves the ledger and what handlers are    *)
(* about to do to it sound.                                                *)
LEMMA InvHolds == Spec => []Inv
<1>1. Init => Inv
    <2> SUFFICES ASSUME Init PROVE Inv
        OBVIOUS
    <2>1. log \in Seq({log[i] : i \in DOMAIN log}) /\ Opening(log)
        BY MissionsAssumption DEF Init
    <2>2. ASSUME NEW i \in DOMAIN log PROVE log[i] \in Event /\ Supported(log, log[i], i)
        <3>1. CASE log[i] = MissionOpened
            <4>1. MissionOpened \in Event /\ MissionOpened.type = "mission.opened"
                BY DEF Event, MissionOpened
            <4>2. QED BY <3>1, <4>1 DEF Supported, StepUpdate
        <3>2. CASE \E m \in 1..(i - 1), risk \in MissionStepRisk, tool \in Tools :
                       log[m] = MissionOpened /\ log[i] = StepProposed(m, risk, tool)
            <4>1. PICK m \in 1..(i - 1), risk \in MissionStepRisk, tool \in Tools :
                      log[i] = StepProposed(m, risk, tool)
                BY <3>2
            <4>2. m \in Nat /\ i \in Int
                BY <2>1
            <4>3. log[i] \in Event /\ log[i].approval # "approved"
                BY <4>1, <4>2, ProposalSound
            <4>4. log[i].type = "mission.step_proposed"
                BY <4>1 DEF StepProposed
            <4>5. QED BY <4>3, <4>4 DEF Supported, StepUpdate
        <3>3. QED BY <2>1, <3>1, <3>2 DEF Opening
    <2>3. log \in Seq(Event) /\ LogSound(log)
        BY <2>1, <2>2 DEF LogSound
    <2>4. /\ todo = [p \in Procs |-> Idle] /\ ran = <<>> /\ started = 0
          /\ overlap = FALSE /\ killed = FALSE
        BY DEF Init
    <2>5. todo \in [Procs -> Seq(SoundCall(log))] /\ ran \in Seq(SoundRun(log))
        BY <2>4 DEF Idle
    <2>6. QED BY <2>3, <2>4, <2>5 DEF Inv
<1>2. Inv /\ [Next]_vars => Inv'
    <2> SUFFICES ASSUME Inv, [Next]_vars PROVE Inv'
        OBVIOUS
    <2>1. CASE UNCHANGED vars
        BY <2>1 DEF Inv, vars
    <2>2. ASSUME NEW p \in Procs, Command(p) PROVE Inv'
        BY <2>2, CommandPreserves
    <2>3. ASSUME NEW p \in Procs, Step(p) PROVE Inv'
        BY <2>3, AppendPreserves, TransitionPreserves, TaskPreserves, RecommendPreserves,
           ToolPreserves, ExecutePreserves DEF Step
    <2>4. ASSUME NEW p \in Procs, Crash(p) PROVE Inv'
        BY <2>4, CrashPreserves
    <2>5. QED BY <2>1, <2>2, <2>3, <2>4 DEF Next
<1>3. QED BY <1>1, <1>2, PTL DEF Spec

(* The ledger, the calls under way and the record of tool runs are well    *)
(* formed in every state: no handler ever acts on a step that is not on    *)
(* the ledger it acts on.                                                  *)
THEOREM TypeCorrect == Spec => []TypeOK
<1>1. Inv => TypeOK
    <2> SUFFICES ASSUME Inv PROVE TypeOK
        OBVIOUS
    <2>1. SoundCall(log) \subseteq CallOf(log) /\ SoundRun(log) \subseteq RunOf(log)
        BY DEF SoundCall, SoundRun
    <2>2. todo \in [Procs -> Seq(CallOf(log))]
        BY <2>1, SeqGrows DEF Inv
    <2>3. ran \in Seq([step : Steps(log), at : 0..Len(log)])
        BY <2>1, SeqGrows DEF Inv, RunOf
    <2>4. QED BY <2>2, <2>3 DEF Inv, TypeOK
<1>2. QED BY <1>1, InvHolds, PTL

(* No medium- or high-risk step starts, and neither it nor a tool that     *)
(* needs approval runs, before a steward's approval of it is on the        *)
(* ledger: for any number of processes, overlapping in any order, any of   *)
(* them killed between any two of its calls (mission_steps.py,             *)
(* tool_router.py).                                                        *)
THEOREM RiskyWorkIsApproved == Spec => []RunsApproved
<1>1. Inv => RunsApproved
    <2> SUFFICES ASSUME Inv PROVE RunsApproved
        OBVIOUS
    <2>1. ASSUME NEW k \in DOMAIN ran, Guarded(log[ran[k].step])
          PROVE  ApprovedWithin(ran[k].step, 1, ran[k].at)
        <3>1. ran[k] \in SoundRun(log)
            BY DEF Inv
        <3>2. Approves(log, ran[k].step, ran[k].at)
            BY <2>1, <3>1 DEF SoundRun
        <3>3. QED BY <3>2 DEF Approves, ApprovedWithin
    <2>2. ASSUME NEW i \in Positions(log, "mission.step_started"), AtRisk(log[log[i].step])
          PROVE  ApprovedWithin(log[i].step, 1, i)
        <3>1. i \in DOMAIN log /\ log[i].type = "mission.step_started" /\ LogSound(log)
            BY DEF Positions, Inv
        <3>2. Approves(log, log[i].step, i)
            BY <2>2, <3>1 DEF LogSound, Supported
        <3>3. QED BY <3>2 DEF Approves, ApprovedWithin
    <2>3. QED BY <2>1, <2>2 DEF RunsApproved, Guarded, AtRisk
<1>2. QED BY <1>1, InvHolds, PTL

-----------------------------------------------------------------------------
(* What a handler has yet to do.  Either it only writes and opens review   *)
(* tasks, and every pressure it writes is followed by the task it calls    *)
(* for; or its last call is yet to be decided, and nothing before that one *)
(* can put pressure on a mission or open a task.                           *)

Closing == {"reflection.task_resolved", "reflection.task_dismissed"}

ExecutionOf ==
    [type \in StepUpdate |->
        CASE type = "mission.step_approved" -> "ready"
          [] type = "mission.step_started" -> "running"
          [] type = "mission.step_completed" -> "completed"
          [] type = "mission.step_failed" -> "failed"
          [] type = "mission.step_blocked" -> "blocked"]

\* An event names what is on the ledger, and says what its type says.
Grounded(evs, e) ==
    /\ e.type \in StepUpdate => e.step \in Steps(evs) /\ e.execution = ExecutionOf[e.type]
    /\ e.type \in Closing => e.task \in Tasks(evs)

\* The reviews an event calls for: of which mission, of which kind.
PressureOf(evs, e) ==
    IF e.type = "mission.item_added"
    THEN {x \in {<<e.mission, e.kind>>} : Pressing(e.kind, e.weak)}
    ELSE {x \in {<<evs[e.step].mission, "outcome">>} :
             e.type \in {"mission.step_failed", "mission.step_blocked"}}

\* Events that are decided on and then appended at once.
FirstOnly == {"mission.step_started", "mission.autonomy_recommended"}

QuietType ==
    {"tool.permission_checked", "tool.execution_recorded", "mission.step_started",
     "evidence.added", "evidence.linked"}

Opens(c, x) == c.do = "open_task" /\ c.mission = x[1] /\ c.kind = x[2]

Writing(evs, calls) ==
    \A k \in DOMAIN calls :
       /\ calls[k].do \in {"append", "open_task"}
       /\ calls[k].do = "append" =>
             /\ Grounded(evs, calls[k].event)
             /\ k # 1 => calls[k].event.type \notin FirstOnly
             /\ \A x \in PressureOf(evs, calls[k].event) :
                   \E j \in DOMAIN calls : j > k /\ Opens(calls[j], x)

Quiet(evs, c) ==
    \/ c.do = "start"
    \/ c.do = "append" /\ c.event.type \in QuietType /\ Grounded(evs, c.event)

Decision(evs, c) ==
    /\ c.do \notin {"append", "open_task"}
    /\ c.do = "close_task" => c.task \in Tasks(evs)

Deciding(evs, calls) ==
    /\ Len(calls) > 0 /\ Decision(evs, calls[Len(calls)])
    /\ \A k \in 1..(Len(calls) - 1) :
          /\ Quiet(evs, calls[k])
          /\ k # 1 => ~(calls[k].do = "append" /\ calls[k].event.type \in FirstOnly)

Plan(evs, calls) == Writing(evs, calls) \/ Deciding(evs, calls)

\* A plan that decides nothing further and holds nothing decided.
Plain(evs, calls) ==
    /\ Writing(evs, calls)
    /\ \A k \in DOMAIN calls : calls[k].do = "append" => calls[k].event.type \notin FirstOnly

PlansInv ==
    /\ Inv
    /\ \A i \in DOMAIN log : Grounded(log, log[i])
    /\ \A p \in Procs : Plan(log, todo[p])

-----------------------------------------------------------------------------
(* The ledger grows.                                                       *)

LEMMA TasksGrow ==
    ASSUME NEW evs \in Seq(Event), NEW e \in Event
    PROVE  Tasks(evs) \subseteq Tasks(Append(evs, e))
<1>1. DOMAIN evs = 1..Len(evs) /\ DOMAIN Append(evs, e) = 1..(Len(evs) + 1)
    BY Growth
<1>2. QED BY <1>1, Growth DEF Tasks, Positions

LEMMA GroundedGrows ==
    ASSUME NEW evs \in Seq(Event), NEW e \in Event, NEW f, Grounded(evs, f)
    PROVE  /\ Grounded(Append(evs, e), f)
           /\ PressureOf(Append(evs, e), f) = PressureOf(evs, f)
<1>1. Steps(evs) \subseteq Steps(Append(evs, e)) /\ Tasks(evs) \subseteq Tasks(Append(evs, e))
    BY StepsGrow, TasksGrow
<1>2. Grounded(Append(evs, e), f)
    BY <1>1 DEF Grounded
<1>3. f.type \in {"mission.step_failed", "mission.step_blocked"} =>
          Append(evs, e)[f.step] = evs[f.step]
    BY StepsAreEvents, Growth DEF Grounded, StepUpdate
<1>4. QED BY <1>2, <1>3 DEF PressureOf

LEMMA PlanGrows ==
    ASSUME NEW evs \in Seq(Event), NEW e \in Event, NEW calls, Plan(evs, calls)
    PROVE  Plan(Append(evs, e), calls)
<1> DEFINE new == Append(evs, e)
<1>1. \A f : Grounded(evs, f) => Grounded(new, f) /\ PressureOf(new, f) = PressureOf(evs, f)
    BY GroundedGrows
<1>2. Tasks(evs) \subseteq Tasks(new)
    BY TasksGrow
<1> HIDE DEF new
<1>3. Writing(evs, calls) => Writing(new, calls)
    BY <1>1 DEF Writing
<1>4. Deciding(evs, calls) => Deciding(new, calls)
    BY <1>1, <1>2 DEF Deciding, Quiet, Decision
<1>5. QED BY <1>3, <1>4 DEF Plan, new

-----------------------------------------------------------------------------
(* Lists of calls.                                                         *)

LEMMA TailIs ==
    ASSUME NEW S, NEW calls \in Seq(S), calls # <<>>
    PROVE  /\ Tail(calls) \in Seq(S) /\ Len(Tail(calls)) = Len(calls) - 1 /\ Len(calls) \in Nat
           /\ Len(calls) > 0 /\ 1 \in DOMAIN calls /\ DOMAIN calls = 1..Len(calls)
           /\ \A k \in DOMAIN Tail(calls) : k + 1 \in DOMAIN calls /\ Tail(calls)[k] = calls[k + 1]
           /\ \A k \in DOMAIN calls : k # 1 => k - 1 \in DOMAIN Tail(calls) /\ Tail(calls)[k - 1] = calls[k]
OBVIOUS

LEMMA ConsIs ==
    ASSUME NEW S, NEW c \in S, NEW calls \in Seq(S)
    PROVE  LET all == <<c>> \o calls
           IN  /\ all \in Seq(S) /\ Len(all) = Len(calls) + 1 /\ Len(calls) \in Nat /\ all[1] = c
               /\ DOMAIN all = 1..(Len(calls) + 1)
               /\ \A k \in DOMAIN calls : k + 1 \in DOMAIN all /\ all[k + 1] = calls[k]
               /\ \A k \in DOMAIN all : k # 1 => k - 1 \in DOMAIN calls /\ all[k] = calls[k - 1]
OBVIOUS

LEMMA NothingPlanned == \A evs : Plain(evs, <<>>) /\ Plan(evs, <<>>)
BY DEF Plain, Plan, Writing

LEMMA WritingTail ==
    ASSUME NEW S, NEW calls \in Seq(S), calls # <<>>, NEW evs, Writing(evs, calls)
    PROVE  Plain(evs, Tail(calls))
<1> DEFINE rest == Tail(calls)
<1>1. /\ \A k \in DOMAIN rest : k \in Nat /\ k + 1 # 1 /\ k + 1 \in DOMAIN calls /\ rest[k] = calls[k + 1]
      /\ \A k \in DOMAIN calls : k # 1 => k - 1 \in DOMAIN rest /\ rest[k - 1] = calls[k]
      /\ \A k \in DOMAIN calls : k \in Nat
    <2>1. \A k \in DOMAIN rest : k \in 1..Len(rest)
        BY TailIs
    <2>2. QED BY <2>1, TailIs
<1> HIDE DEF rest
<1>2. ASSUME NEW k \in DOMAIN rest, rest[k].do = "append", NEW x \in PressureOf(evs, rest[k].event)
      PROVE  \E j \in DOMAIN rest : j > k /\ Opens(rest[j], x)
    <2>1. PICK j \in DOMAIN calls : j > k + 1 /\ Opens(calls[j], x)
        BY <1>1, <1>2 DEF Writing
    <2>2. j # 1 /\ j - 1 > k
        BY <1>1, <2>1
    <2>3. QED BY <1>1, <2>1, <2>2
<1>3. QED BY <1>1, <1>2 DEF Plain, Writing, rest

LEMMA DecidingTail ==
    ASSUME NEW S, NEW calls \in Seq(S), NEW evs, Deciding(evs, calls)
    PROVE  \/ Len(calls) = 1 /\ Tail(calls) = <<>> /\ Decision(evs, calls[1])
           \/ /\ Quiet(evs, calls[1]) /\ Deciding(evs, Tail(calls))
              /\ Tail(calls)[1].do = "append" => Tail(calls)[1].event.type \notin FirstOnly
<1>1. calls # <<>> /\ Len(calls) \in Nat /\ Len(calls) > 0
    BY DEF Deciding
<1>2. CASE Len(calls) = 1
    <2> DEFINE rest == Tail(calls)
    <2>1. rest \in Seq(S) /\ Len(rest) = 0
        BY <1>1, <1>2, TailIs
    <2> HIDE DEF rest
    <2>2. rest = <<>>
        BY <2>1
    <2>3. QED BY <1>2, <2>2 DEF Deciding, rest
<1>3. CASE Len(calls) > 1
    <2> DEFINE rest == Tail(calls)
    <2>1. /\ Len(rest) = Len(calls) - 1 /\ Len(rest) > 0
          /\ \A k \in 1..Len(rest) : rest[k] = calls[k + 1]
        BY <1>1, <1>3, TailIs
    <2>2. rest[Len(rest)] = calls[Len(calls)] /\ rest[1] = calls[2]
        BY <1>1, <1>3, <2>1
    <2> HIDE DEF rest
    <2>3. \A k \in 1..(Len(rest) - 1) : k + 1 # 1 /\ k + 1 \in 1..(Len(calls) - 1) /\ rest[k] = calls[k + 1]
        BY <1>1, <2>1
    <2>4. Deciding(evs, rest)
        BY <2>1, <2>2, <2>3 DEF Deciding
    <2>5. 1 \in 1..(Len(calls) - 1)
        BY <1>1, <1>3
    <2>6. rest[1].do = "append" => rest[1].event.type \notin FirstOnly
        <3>1. CASE Len(calls) = 2
            BY <2>2, <3>1 DEF Deciding, Decision
        <3>2. CASE Len(calls) # 2
            <4>1. 2 \in 1..(Len(calls) - 1)
                <5>1. \A n \in Nat : n > 1 /\ n # 2 => 2 \in 1..(n - 1)
                    OBVIOUS
                <5>2. QED BY <1>1, <1>3, <3>2, <5>1
            <4>2. QED BY <2>2, <4>1 DEF Deciding
        <3>3. QED BY <3>1, <3>2
    <2>7. QED BY <2>4, <2>5, <2>6 DEF Deciding, rest
<1>4. Len(calls) = 1 \/ Len(calls) > 1
    <2>1. \A n \in Nat : n > 0 => n = 1 \/ n > 1
        OBVIOUS
    <2>2. QED BY <1>1, <2>1
<1>5. QED BY <1>2, <1>3, <1>4

LEMMA OneDecision ==
    ASSUME NEW evs, NEW c, Decision(evs, c)
    PROVE  Deciding(evs, <<c>>)
BY DEF Deciding

(* Writing an event and then the rest of a plan.                           *)
LEMMA WriteFirst ==
    ASSUME NEW evs, NEW S, NEW e, Appending(e) \in S, NEW calls \in Seq(S), Plain(evs, calls),
           Grounded(evs, e),
           \A x \in PressureOf(evs, e) : \E j \in DOMAIN calls : Opens(calls[j], x)
    PROVE  /\ Writing(evs, <<Appending(e)>> \o calls)
           /\ e.type \notin FirstOnly => Plain(evs, <<Appending(e)>> \o calls)
<1> DEFINE c == Appending(e)
           all == <<c>> \o calls
<1>1. c.do = "append" /\ c.event = e
    BY DEF Appending
<1>2. /\ all[1] = c /\ Len(calls) \in Nat /\ DOMAIN all = 1..(Len(calls) + 1)
      /\ \A k \in DOMAIN calls : k + 1 \in DOMAIN all /\ all[k + 1] = calls[k] /\ k \in Nat /\ k > 0
      /\ \A k \in DOMAIN all : k \in Nat /\ (k # 1 => k - 1 \in DOMAIN calls /\ all[k] = calls[k - 1])
    <2> HIDE DEF c
    <2>1. c \in S
        BY DEF c
    <2>2. QED BY <2>1, ConsIs
<1> HIDE DEF c, all
<1>3. ASSUME NEW k \in DOMAIN all
      PROVE  /\ all[k].do \in {"append", "open_task"}
             /\ all[k].do = "append" =>
                   /\ Grounded(evs, all[k].event)
                   /\ k # 1 => all[k].event.type \notin FirstOnly
                   /\ \A x \in PressureOf(evs, all[k].event) :
                         \E j \in DOMAIN all : j > k /\ Opens(all[j], x)
    <2>1. CASE k = 1
        <3>1. \A j \in DOMAIN calls : j + 1 > 1
            BY <1>2
        <3>2. QED BY <1>1, <1>2, <2>1, <3>1
    <2>2. CASE k # 1
        <3>1. k - 1 \in DOMAIN calls /\ all[k] = calls[k - 1]
            BY <1>2, <2>2
        <3>2. \A j \in DOMAIN calls : j > k - 1 => j + 1 > k
            BY <1>2
        <3>3. QED BY <1>2, <3>1, <3>2 DEF Plain, Writing
    <2>3. QED BY <2>1, <2>2
<1>4. Writing(evs, all)
    BY <1>3 DEF Writing
<1>5. ASSUME e.type \notin FirstOnly, NEW k \in DOMAIN all, all[k].do = "append"
      PROVE  all[k].event.type \notin FirstOnly
    BY <1>1, <1>3, <1>5, <1>2
<1>6. QED BY <1>4, <1>5 DEF Plain, all, c

-----------------------------------------------------------------------------
(* The steps of one handler: me before, next after.                        *)

\* The step a list of calls will run, or record as started.
Runs(calls, s) ==
    \/ \E k \in DOMAIN calls : calls[k].do = "execute" /\ calls[k].step = s
    \/ /\ calls # <<>> /\ calls[1].do = "append"
       /\ calls[1].event.type = "mission.step_started" /\ calls[1].event.step = s

\* The review tasks a list of calls will open, or find open.
Pending(calls, x) ==
    \E k \in DOMAIN calls :
        Opens(calls[k], x) \/ (calls[k].do = "append" /\ calls[k].event = TaskOpened(x[1], x[2]))

OpenFor(evs, x) == \E t \in OpenTasks(evs) : evs[t] = TaskOpened(x[1], x[2])

\* The next step has been recommended for mission m.
Proposing(calls, m) ==
    calls # <<>> /\ calls[1].do = "append" /\ calls[1].event = Recommended(m, TRUE)

Released(evs, s) == Execution(evs, s) \in {"proposed", "ready", "running"}

Unblocked(evs, m) ==
    StatusOfMission(evs, m) = "completed" \/ ~Blocked(evs, m)

Starts(me, next) ==
    /\ me = Idle /\ UNCHANGED <<log, ran, killed>> /\ overlap' = (overlap \/ ~Quiescent)
    /\ Plan(log, next) /\ (\A s : ~Runs(next, s)) /\ (\A m : ~Proposing(next, m))

Writes(me, next) ==
    /\ me # Idle /\ me[1].do = "append" /\ next = Tail(me)
    /\ log' = Append(log, me[1].event) /\ UNCHANGED <<ran, overlap, killed>>

Runner(me, s) == me # Idle /\ me[1].do = "execute" /\ me[1].step = s

Moves(me, next) ==
    /\ me # Idle /\ UNCHANGED <<log, overlap, killed>>
    /\ Plan(log, next)
    /\ \A s \in Steps(log) : Runs(next, s) => Runs(me, s) \/ Released(log, s)
    /\ \A m : Proposing(next, m) => Unblocked(log, m) /\ \A x : ~Pending(me, x)
    /\ \A x : Pending(me, x) => Pending(next, x) \/ OpenFor(log, x)
    /\ \/ ran' = ran
       \/ \E s \in Steps(log) : Runner(me, s) /\ ran' = Append(ran, [step |-> s, at |-> Len(log)])

Dies(me, next) ==
    me # Idle /\ next = Idle /\ UNCHANGED <<log, ran, overlap>> /\ killed' = TRUE

Form(me, next) == Starts(me, next) \/ Writes(me, next) \/ Moves(me, next) \/ Dies(me, next)

LEMMA PlanTyped ==
    ASSUME PlansInv, NEW p \in Procs
    PROVE  /\ todo[p] \in Seq(CallOf(log)) /\ Plan(log, todo[p]) /\ log \in Seq(Event)
           /\ todo[p] # Idle => /\ 1 \in DOMAIN todo[p] /\ Call(p) = todo[p][1] /\ Call(p) \in CallOf(log)
<1>1. todo[p] \in Seq(SoundCall(log)) /\ SoundCall(log) \subseteq CallOf(log)
    BY DEF PlansInv, Inv, SoundCall
<1>2. todo[p] \in Seq(CallOf(log))
    BY <1>1, SeqGrows
<1>3. QED BY <1>2 DEF PlansInv, Inv, Idle, Call

LEMMA PlainHolds ==
    ASSUME NEW evs, NEW S, NEW calls \in Seq(S), Plain(evs, calls)
    PROVE  /\ Plan(evs, calls) /\ (\A s : ~Runs(calls, s)) /\ (\A m : ~Proposing(calls, m))
<1>1. calls # <<>> => 1 \in DOMAIN calls
    OBVIOUS
<1>2. \A m : Recommended(m, TRUE).type \in FirstOnly
    BY DEF Recommended, FirstOnly
<1>3. \A m : ~Proposing(calls, m)
    BY <1>1, <1>2 DEF Plain, Proposing
<1>4. \A s : ~Runs(calls, s)
    BY <1>1 DEF Plain, Writing, Runs, FirstOnly
<1>5. QED BY <1>3, <1>4 DEF Plain, Plan

LEMMA OneCallHolds ==
    ASSUME NEW evs, NEW c, Decision(evs, c), c.do # "execute"
    PROVE  /\ Plan(evs, <<c>>) /\ (\A s : ~Runs(<<c>>, s)) /\ (\A m : ~Proposing(<<c>>, m))
<1> DEFINE calls == <<c>>
<1>1. DOMAIN calls = {1} /\ calls[1] = c
    OBVIOUS
<1>2. Deciding(evs, calls)
    BY OneDecision
<1> HIDE DEF calls
<1>3. Plan(evs, calls) /\ (\A s : ~Runs(calls, s)) /\ (\A m : ~Proposing(calls, m))
    BY <1>1, <1>2 DEF Plan, Runs, Proposing, Decision
<1>4. QED BY <1>3 DEF calls

LEMMA DecidingPendsNothing ==
    ASSUME NEW evs, NEW S, NEW calls \in Seq(S), Deciding(evs, calls), NEW x
    PROVE  ~Pending(calls, x)
<1> SUFFICES ASSUME NEW k \in DOMAIN calls,
                    Opens(calls[k], x) \/ (calls[k].do = "append" /\ calls[k].event = TaskOpened(x[1], x[2]))
             PROVE  FALSE
    BY DEF Pending
<1>1. k \in 1..(Len(calls) - 1) \/ k = Len(calls)
    OBVIOUS
<1>2. TaskOpened(x[1], x[2]).type \notin QuietType
    BY DEF TaskOpened, QuietType
<1>3. QED BY <1>1, <1>2 DEF Deciding, Quiet, Decision, Opens

LEMMA QuietFirst ==
    ASSUME NEW evs, NEW S, NEW c \in S, NEW calls \in Seq(S), Quiet(evs, c), Deciding(evs, calls),
           calls[1].do = "append" => calls[1].event.type \notin FirstOnly
    PROVE  Deciding(evs, <<c>> \o calls)
<1> DEFINE all == <<c>> \o calls
<1>1. /\ Len(all) = Len(calls) + 1 /\ Len(calls) \in Nat /\ all[1] = c /\ DOMAIN calls = 1..Len(calls)
      /\ \A k \in 1..Len(calls) : all[k + 1] = calls[k]
    BY ConsIs
<1> HIDE DEF all
<1>2. Len(all) > 0 /\ all[Len(all)] = calls[Len(calls)]
    BY <1>1 DEF Deciding
<1>3. ASSUME NEW k \in 1..(Len(all) - 1)
      PROVE  /\ Quiet(evs, all[k])
             /\ k # 1 => ~(all[k].do = "append" /\ all[k].event.type \in FirstOnly)
    <2>1. CASE k = 1
        BY <1>1, <2>1
    <2>2. CASE k # 1
        <3>1. k - 1 \in 1..(Len(calls) - 1) /\ (k - 1) + 1 = k /\ k - 1 \in 1..Len(calls)
            BY <1>1, <2>2
        <3>2. all[k] = calls[k - 1]
            BY <1>1, <3>1
        <3>3. QED BY <3>1, <3>2 DEF Deciding
    <2>3. QED BY <2>1, <2>2
<1>4. QED BY <1>2, <1>3 DEF Deciding, all

-----------------------------------------------------------------------------
(* Events that name nothing and press nobody.                              *)

LEMMA HarmlessEvent ==
    ASSUME NEW evs, NEW e, e.type \notin StepUpdate \cup Closing \cup {"mission.item_added"}
    PROVE  Grounded(evs, e) /\ PressureOf(evs, e) = {}
BY DEF Grounded, PressureOf, StepUpdate

LEMMA WriteOne ==
    ASSUME NEW evs, NEW e, Grounded(evs, e), PressureOf(evs, e) = {}
    PROVE  /\ Writing(evs, <<Appending(e)>>)
           /\ e.type \notin FirstOnly => Plain(evs, <<Appending(e)>>)
<1> DEFINE c == Appending(e)
           none == <<>>
           S == {c}
<1>1. Appending(e) \in S /\ none \in Seq(S) /\ \A x \in PressureOf(evs, e) : FALSE
    OBVIOUS
<1>2. <<c>> \o none = <<c>>
    OBVIOUS
<1>3. Plain(evs, none)
    BY NothingPlanned
<1> HIDE DEF none, c, S
<1>4. /\ Writing(evs, <<Appending(e)>> \o none)
      /\ e.type \notin FirstOnly => Plain(evs, <<Appending(e)>> \o none)
    BY <1>1, <1>3, WriteFirst
<1>5. QED BY <1>2, <1>4 DEF c

LEMMA ShortLists ==
    ASSUME NEW S, NEW x \in S, NEW rest \in Seq(S)
    PROVE  LET all == <<x>> \o rest IN
              /\ Len(rest) = 1 => DOMAIN all = 1..2 /\ all[1] = x /\ all[2] = rest[1]
              /\ Len(rest) = 2 =>
                    DOMAIN all = 1..3 /\ all[1] = x /\ all[2] = rest[1] /\ all[3] = rest[2]
<1> DEFINE all == <<x>> \o rest
<1>1. /\ DOMAIN all = 1..(Len(rest) + 1) /\ all[1] = x
      /\ \A k \in DOMAIN rest : all[k + 1] = rest[k]
      /\ DOMAIN rest = 1..Len(rest)
    BY ConsIs
<1> HIDE DEF all
<1>2. CASE Len(rest) = 1
    <2>1. 1 \in DOMAIN rest /\ 1 + 1 = 2
        BY <1>1, <1>2
    <2>2. all[2] = rest[1]
        BY <1>1, <2>1
    <2>3. QED BY <1>1, <1>2, <2>2 DEF all
<1>3. CASE Len(rest) = 2
    <2>1. 1 \in DOMAIN rest /\ 1 + 1 = 2 /\ 2 \in DOMAIN rest /\ 2 + 1 = 3
        BY <1>1, <1>3
    <2>2. all[2] = rest[1] /\ all[3] = rest[2]
        BY <1>1, <2>1
    <2>3. QED BY <1>1, <1>3, <2>2 DEF all
<1>4. QED BY <1>2, <1>3

LEMMA ThreeCalls ==
    ASSUME NEW x, NEW y, NEW z
    PROVE  LET all == <<x>> \o <<y, z>> IN
              DOMAIN all = 1..3 /\ all[1] = x /\ all[2] = y /\ all[3] = z
<1> DEFINE S == {x, y, z}
           rest == <<y, z>>
<1>1. x \in S /\ rest \in Seq(S) /\ Len(rest) = 2 /\ rest[1] = y /\ rest[2] = z
    OBVIOUS
<1> HIDE DEF S, rest
<1>2. LET all == <<x>> \o rest IN
         DOMAIN all = 1..3 /\ all[1] = x /\ all[2] = rest[1] /\ all[3] = rest[2]
    BY <1>1, ShortLists
<1>3. QED BY <1>1, <1>2 DEF rest

LEMMA TwoCalls ==
    ASSUME NEW x, NEW y
    PROVE  LET all == <<x>> \o <<y>> IN DOMAIN all = 1..2 /\ all[1] = x /\ all[2] = y
<1> DEFINE S == {x, y}
           rest == <<y>>
<1>1. x \in S /\ rest \in Seq(S) /\ Len(rest) = 1 /\ rest[1] = y
    OBVIOUS
<1> HIDE DEF S, rest
<1>2. LET all == <<x>> \o rest IN DOMAIN all = 1..2 /\ all[1] = x /\ all[2] = rest[1]
    BY <1>1, ShortLists
<1>3. QED BY <1>1, <1>2 DEF rest

LEMMA NoMoreCalls == ASSUME NEW S, NEW calls \in Seq(S) PROVE calls \o <<>> = calls
OBVIOUS

LEMMA ItemPlan ==
    ASSUME NEW m \in Nat, NEW kind \in MissionItemKind, NEW weak \in BOOLEAN, NEW evs
    PROVE  /\ Plain(evs, add_mission_item(m, kind, weak))
           /\ Pressing(kind, weak) =>
                 \E j \in DOMAIN add_mission_item(m, kind, weak) :
                     Opens(add_mission_item(m, kind, weak)[j], <<m, kind>>)
<1> DEFINE a == Appending(MissionItemAdded(m, kind, weak))
           r == Appending(ReflectionRecorded(m, kind))
           o == OpenTask(m, kind)
           g == Appending(GrowthProposed(m))
           all == add_mission_item(m, kind, weak)
<1>1. /\ a.do = "append" /\ a.event.type = "mission.item_added" /\ r.do = "append" /\ g.do = "append"
      /\ a.event.mission = m /\ a.event.kind = kind /\ a.event.weak = weak
      /\ o.do = "open_task" /\ Opens(o, <<m, kind>>)
      /\ r.event.type = "lucien.reflection_recorded" /\ g.event.type = "lucien.growth_proposed"
    BY DEF Appending, MissionItemAdded, ReflectionRecorded, GrowthProposed, OpenTask, Opens
<1>2. /\ Grounded(evs, r.event) /\ PressureOf(evs, r.event) = {}
      /\ Grounded(evs, g.event) /\ PressureOf(evs, g.event) = {}
    BY <1>1, HarmlessEvent DEF StepUpdate, Closing
<1>3. /\ Grounded(evs, a.event)
      /\ PressureOf(evs, a.event) = {x \in {<<m, kind>>} : Pressing(kind, weak)}
    BY <1>1 DEF Grounded, PressureOf, StepUpdate, Closing
<1>4. /\ a.event.type \notin FirstOnly /\ r.event.type \notin FirstOnly /\ g.event.type \notin FirstOnly
    BY <1>1 DEF FirstOnly
<1> DEFINE review == IF Pressing(kind, weak) THEN <<r, o>> ELSE <<>>
           growth == IF kind = "lesson" THEN <<g>> ELSE <<>>
<1>9. all = <<a>> \o review \o growth
    BY DEF add_mission_item
<1> HIDE DEF a, r, o, g, all
<1>5. CASE Pressing(kind, weak)
    <2>1. kind # "lesson"
        BY <1>5 DEF Pressing
    <2>2. all = (<<a>> \o <<r, o>>) \o <<>>
        BY <1>5, <1>9, <2>1
    <2>3. <<a>> \o <<r, o>> \in Seq({a, r, o})
        <3>1. <<a>> \in Seq({a, r, o}) /\ <<r, o>> \in Seq({a, r, o})
            OBVIOUS
        <3>2. QED BY <3>1
    <2>4. all = <<a>> \o <<r, o>>
        BY <2>2, <2>3, NoMoreCalls
    <2>5. DOMAIN all = 1..3 /\ all[1] = a /\ all[2] = r /\ all[3] = o
        BY <2>4, ThreeCalls
    <2>6. QED BY <1>1, <1>2, <1>3, <1>4, <2>5 DEF Plain, Writing, all
<1>6. CASE ~Pressing(kind, weak) /\ kind = "lesson"
    <2>1. all = (<<a>> \o <<>>) \o <<g>>
        BY <1>6, <1>9
    <2>2. <<a>> \in Seq({a})
        OBVIOUS
    <2>3. all = <<a>> \o <<g>>
        BY <2>1, <2>2, NoMoreCalls
    <2>4. DOMAIN all = 1..2 /\ all[1] = a /\ all[2] = g
        BY <2>3, TwoCalls
    <2>5. QED BY <1>1, <1>2, <1>3, <1>4, <1>6, <2>4 DEF Plain, Writing, all
<1>7. CASE ~Pressing(kind, weak) /\ kind # "lesson"
    <2>1. all = <<a>>
        BY <1>7, <1>9
    <2>2. DOMAIN all = {1} /\ all[1] = a
        BY <2>1
    <2>3. QED BY <1>1, <1>2, <1>3, <1>4, <1>7, <2>2 DEF Plain, Writing, all
<1>8. QED BY <1>5, <1>6, <1>7

-----------------------------------------------------------------------------
(* Commands.                                                               *)

LEMMA BeginForm ==
    ASSUME PlansInv, NEW p \in Procs, NEW command, NEW calls, Begin(p, command, calls),
           Plan(log, calls), \A s : ~Runs(calls, s), \A m : ~Proposing(calls, m)
    PROVE  \E next : todo' = [todo EXCEPT ![p] = next] /\ Form(todo[p], next)
<1>1. /\ todo[p] = Idle /\ todo' = [todo EXCEPT ![p] = calls] /\ UNCHANGED <<log, ran, killed>>
      /\ overlap' = (overlap \/ ~Quiescent)
    BY DEF Begin
<1>2. QED BY <1>1 DEF Form, Starts

LEMMA CommandForm ==
    ASSUME PlansInv, NEW p \in Procs, Command(p)
    PROVE  \E next : todo' = [todo EXCEPT ![p] = next] /\ Form(todo[p], next)
<1>0. Inv /\ log \in Seq(Event)
    BY DEF PlansInv, Inv
<1>1. ASSUME NEW command, NEW e, Begin(p, command, <<Appending(e)>>),
             e.type \notin StepUpdate \cup Closing \cup {"mission.item_added"} \cup FirstOnly
      PROVE  \E next : todo' = [todo EXCEPT ![p] = next] /\ Form(todo[p], next)
    <2> DEFINE c == Appending(e)
               calls == <<c>>
    <2>1. calls \in Seq({c})
        OBVIOUS
    <2>2. Plain(log, calls)
        BY <1>1, HarmlessEvent, WriteOne
    <2>3. Begin(p, command, calls)
        BY <1>1
    <2> HIDE DEF calls
    <2>4. Plan(log, calls) /\ (\A s : ~Runs(calls, s)) /\ (\A m : ~Proposing(calls, m))
        BY <2>1, <2>2, PlainHolds
    <2>5. QED BY <2>3, <2>4, BeginForm
<1>2. ASSUME NEW command, NEW c, Begin(p, command, <<c>>), Decision(log, c), c.do # "execute"
      PROVE  \E next : todo' = [todo EXCEPT ![p] = next] /\ Form(todo[p], next)
    BY <1>2, OneCallHolds, BeginForm
<1>3. CASE OpenMission(p)
    <2>1. MissionOpened.type \notin StepUpdate \cup Closing \cup {"mission.item_added"} \cup FirstOnly
        BY DEF MissionOpened, StepUpdate, Closing, FirstOnly
    <2>2. QED BY <1>1, <1>3, <2>1 DEF OpenMission
<1>4. CASE UpdateMissionStatus(p)
    <2>1. PICK m, status : Begin(p, "mission-status", <<Appending(MissionStatusUpdated(m, status))>>)
        BY <1>4 DEF UpdateMissionStatus
    <2>2. MissionStatusUpdated(m, status).type
              \notin StepUpdate \cup Closing \cup {"mission.item_added"} \cup FirstOnly
        BY DEF MissionStatusUpdated, StepUpdate, Closing, FirstOnly
    <2>3. QED BY <1>1, <2>1, <2>2
<1>5. CASE AddMissionItem(p)
    <2>1. PICK m \in Missions(log), kind \in MissionItemKind, weak \in BOOLEAN :
              Begin(p, "mission-add", add_mission_item(m, kind, weak))
        BY <1>5 DEF AddMissionItem
    <2> DEFINE calls == add_mission_item(m, kind, weak)
    <2>2. m \in Nat
        BY <1>0, PositionsAreNumbers
    <2>3. Plain(log, calls) /\ calls \in Seq(SoundCall(log))
        BY <2>2, ItemPlan, ItemSound
    <2> HIDE DEF calls
    <2>4. Plan(log, calls) /\ (\A s : ~Runs(calls, s)) /\ (\A m2 : ~Proposing(calls, m2))
        BY <2>3, PlainHolds
    <2>5. QED BY <2>1, <2>4, BeginForm DEF calls
<1>6. CASE ProposeMissionStep(p)
    <2>1. PICK m, risk, tool : Begin(p, "mission-step-propose", <<Appending(StepProposed(m, risk, tool))>>)
        BY <1>6 DEF ProposeMissionStep
    <2>2. StepProposed(m, risk, tool).type
              \notin StepUpdate \cup Closing \cup {"mission.item_added"} \cup FirstOnly
        BY DEF StepProposed, StepUpdate, Closing, FirstOnly
    <2>3. QED BY <1>1, <2>1, <2>2
<1>7. CASE UseStep(p)
    <2>1. PICK s \in Steps(log), f \in DOMAIN StepFunction : Begin(p, StepFunction[f], <<Do(f, s)>>)
        BY <1>7 DEF UseStep
    <2>2. Decision(log, Do(f, s)) /\ Do(f, s).do # "execute"
        BY DEF Decision, Do, StepFunction
    <2>3. QED BY <1>2, <2>1, <2>2
<1>8. CASE CheckPermission(p) \/ DryRunTool(p)
    <2>1. PICK s, then, command : Begin(p, command, <<Permission(s, then)>>)
        BY <1>8 DEF CheckPermission, DryRunTool
    <2>2. Decision(log, Permission(s, then)) /\ Permission(s, then).do # "execute"
        BY DEF Decision, Permission
    <2>3. QED BY <1>2, <2>1, <2>2
<1>9. CASE UpdateReflectionTask(p)
    <2>1. PICK t \in Tasks(log), how \in {"reflection.task_resolved", "reflection.task_dismissed"} :
              Begin(p, "reflection-task", <<CloseTask(t, how)>>)
        BY <1>9 DEF UpdateReflectionTask
    <2>2. Decision(log, CloseTask(t, how)) /\ CloseTask(t, how).do # "execute"
        BY DEF Decision, CloseTask
    <2>3. QED BY <1>2, <2>1, <2>2
<1>10. CASE NextStep(p)
    <2>1. PICK m, apply : Begin(p, "mission-next-step", <<Recommend(m, apply)>>)
        BY <1>10 DEF NextStep
    <2>2. Decision(log, Recommend(m, apply)) /\ Recommend(m, apply).do # "execute"
        BY DEF Decision, Recommend
    <2>3. QED BY <1>2, <2>1, <2>2
<1>11. QED BY <1>3, <1>4, <1>5, <1>6, <1>7, <1>8, <1>9, <1>10 DEF Command

-----------------------------------------------------------------------------
(* Calls that decide what the handler does next.                           *)

(* A list with a call in front runs what the call runs or the list runs.   *)
LEMMA ConsRuns ==
    ASSUME NEW S, NEW c \in S, NEW calls \in Seq(S), NEW s, Runs(<<c>> \o calls, s)
    PROVE  \/ c.do = "execute" /\ c.step = s
           \/ c.do = "append" /\ c.event.type = "mission.step_started" /\ c.event.step = s
           \/ \E k \in DOMAIN calls : calls[k].do = "execute" /\ calls[k].step = s
<1> DEFINE all == <<c>> \o calls
<1>1. all[1] = c /\ \A k \in DOMAIN all : k # 1 => k - 1 \in DOMAIN calls /\ all[k] = calls[k - 1]
    BY ConsIs
<1>2. Runs(all, s)
    OBVIOUS
<1> HIDE DEF all
<1>3. QED BY <1>1, <1>2 DEF Runs

LEMMA ConsProposes ==
    ASSUME NEW S, NEW c \in S, NEW calls \in Seq(S), NEW m, Proposing(<<c>> \o calls, m)
    PROVE  c.do = "append" /\ c.event = Recommended(m, TRUE)
<1> DEFINE all == <<c>> \o calls
<1>1. all[1] = c
    BY ConsIs
<1>2. Proposing(all, m)
    OBVIOUS
<1> HIDE DEF all
<1>3. QED BY <1>1, <1>2 DEF Proposing

LEMMA NothingHolds ==
    /\ \A evs : Plan(evs, Idle)
    /\ \A s : ~Runs(Idle, s)
    /\ \A m : ~Proposing(Idle, m)
    /\ \A x : ~Pending(Idle, x)
<1>1. \A evs : Plan(evs, Idle)
    BY NothingPlanned DEF Idle
<1>2. QED BY <1>1 DEF Runs, Proposing, Pending, Idle

(* A call that decides is the last of its handler.                         *)
LEMMA Deciders ==
    ASSUME PlansInv, NEW p \in Procs, todo[p] # Idle,
           Call(p).do \notin {"append", "open_task", "start"}
    PROVE  /\ Deciding(log, todo[p]) /\ Tail(todo[p]) = <<>> /\ Decision(log, Call(p))
           /\ \A x : ~Pending(todo[p], x)
<1>1. /\ todo[p] \in Seq(CallOf(log)) /\ Plan(log, todo[p])
      /\ 1 \in DOMAIN todo[p] /\ Call(p) = todo[p][1]
    BY PlanTyped
<1> DEFINE me == todo[p]
<1> HIDE DEF me
<1>2. me \in Seq(CallOf(log)) /\ Plan(log, me) /\ 1 \in DOMAIN me /\ Call(p) = me[1]
    BY <1>1 DEF me
<1>3. Deciding(log, me)
    BY <1>2 DEF Plan, Writing
<1>4. ~Quiet(log, me[1])
    BY <1>2 DEF Quiet
<1>5. Tail(me) = <<>> /\ Decision(log, me[1])
    BY <1>2, <1>3, <1>4, DecidingTail
<1>6. \A x : ~Pending(me, x)
    BY <1>2, <1>3, DecidingPendsNothing
<1>7. QED BY <1>2, <1>3, <1>5, <1>6 DEF me

LEMMA Decided ==
    ASSUME PlansInv, NEW p \in Procs, todo[p] # Idle,
           Call(p).do \notin {"append", "open_task", "start"},
           NEW allowed, NEW S, NEW new \in Seq(S), Return(p, allowed, new),
           allowed => /\ Plan(log, new)
                      /\ \A s \in Steps(log) : Runs(new, s) => Released(log, s)
                      /\ \A m : Proposing(new, m) => Unblocked(log, m)
    PROVE  \E next : todo' = [todo EXCEPT ![p] = next] /\ Form(todo[p], next)
<1>1. Tail(todo[p]) = <<>> /\ \A x : ~Pending(todo[p], x)
    BY Deciders
<1>2. UNCHANGED <<log, ran, overlap, killed>>
    BY DEF Return
<1>3. CASE allowed
    <2>1. new \o <<>> = new
        BY NoMoreCalls
    <2>2. todo' = [todo EXCEPT ![p] = new]
        BY <1>1, <1>3, <2>1 DEF Return
    <2>3. Moves(todo[p], new)
        BY <1>1, <1>2, <1>3 DEF Moves
    <2>4. QED BY <2>2, <2>3 DEF Form
<1>4. CASE ~allowed
    <2>1. todo' = [todo EXCEPT ![p] = Idle]
        BY <1>4 DEF Return
    <2>2. Moves(todo[p], Idle)
        BY <1>1, <1>2, NothingHolds DEF Moves
    <2>3. QED BY <2>1, <2>2 DEF Form
<1>5. QED BY <1>3, <1>4

(* ... with a list that only writes, and neither runs nor proposes.        *)
LEMMA DecidedPlainly ==
    ASSUME PlansInv, NEW p \in Procs, todo[p] # Idle,
           Call(p).do \notin {"append", "open_task", "start"},
           NEW allowed, NEW S, NEW new \in Seq(S), Return(p, allowed, new),
           allowed => Plain(log, new)
    PROVE  \E next : todo' = [todo EXCEPT ![p] = next] /\ Form(todo[p], next)
BY PlainHolds, Decided

(* The update of a step and the item it leaves.                            *)
LEMMA UpdatePlain ==
    ASSUME NEW evs \in Seq(Event), NEW s \in Steps(evs), NEW type \in StepUpdate, NEW approval,
           type # "mission.step_started", NEW S, NEW rest \in Seq(S), Plain(evs, rest),
           Appending(StepUpdated(type, s, approval, ExecutionOf[type])) \in S,
           type \in {"mission.step_failed", "mission.step_blocked"} =>
               \E j \in DOMAIN rest : Opens(rest[j], <<evs[s].mission, "outcome">>)
    PROVE  Plain(evs, <<Appending(StepUpdated(type, s, approval, ExecutionOf[type]))>> \o rest)
<1> DEFINE e == StepUpdated(type, s, approval, ExecutionOf[type])
<1>1. e.type = type /\ e.step = s /\ e.execution = ExecutionOf[type]
    BY DEF StepUpdated
<1>2. type \notin Closing /\ type # "mission.item_added" /\ type \notin FirstOnly
    BY DEF StepUpdate, Closing, FirstOnly
<1> HIDE DEF e
<1>3. Grounded(evs, e)
    BY <1>1, <1>2 DEF Grounded
<1>4. \A x \in PressureOf(evs, e) :
          x = <<evs[s].mission, "outcome">> /\ type \in {"mission.step_failed", "mission.step_blocked"}
    BY <1>1, <1>2 DEF PressureOf
<1>5. \A x \in PressureOf(evs, e) : \E j \in DOMAIN rest : Opens(rest[j], x)
    BY <1>4
<1>6. Appending(e) \in S
    BY DEF e
<1>7. Plain(evs, <<Appending(e)>> \o rest)
    BY <1>1, <1>2, <1>3, <1>5, <1>6, WriteFirst
<1>8. QED BY <1>7 DEF e

LEMMA TransitionForm ==
    ASSUME PlansInv, NEW p \in Procs,
           \/ approve_mission_step(p) \/ complete_mission_step(p)
           \/ fail_mission_step(p) \/ block_mission_step(p)
    PROVE  \E next : todo' = [todo EXCEPT ![p] = next] /\ Form(todo[p], next)
<1> DEFINE s == Call(p).step
           m == log[s].mission
<1>0. PICK f \in {"approve", "complete", "fail", "block"} : Called(p, f)
    BY DEF approve_mission_step, complete_mission_step, fail_mission_step, block_mission_step
<1>1. /\ Inv /\ log \in Seq(Event) /\ todo[p] # Idle
      /\ Call(p).do \notin {"append", "open_task", "start"}
    BY <1>0 DEF PlansInv, Inv, Called, Call
<1>2. s \in Steps(log) /\ m \in Nat
    <2>1. f \in DOMAIN StepFunction
        BY <1>0 DEF StepFunction
    <2>2. QED BY <1>0, <1>1, <2>1, CalledStep
<1>3. ASSUME NEW weak \in BOOLEAN
      PROVE  /\ Outcome(s, weak) \in Seq(SoundCall(log)) /\ Plain(log, Outcome(s, weak))
             /\ weak => \E j \in DOMAIN Outcome(s, weak) : Opens(Outcome(s, weak)[j], <<m, "outcome">>)
    <2>1. "outcome" \in MissionItemKind /\ (weak => Pressing("outcome", weak))
        BY DEF MissionItemKind, Pressing
    <2>2. Outcome(s, weak) = add_mission_item(m, "outcome", weak)
        BY DEF Outcome
    <2> HIDE DEF m, s
    <2>3. QED BY <1>2, <2>1, <2>2, ItemSound, ItemPlan
<1>4. /\ ExecutionOf["mission.step_approved"] = "ready"
      /\ ExecutionOf["mission.step_completed"] = "completed"
      /\ ExecutionOf["mission.step_failed"] = "failed"
      /\ ExecutionOf["mission.step_blocked"] = "blocked"
      /\ {"mission.step_approved", "mission.step_completed", "mission.step_failed",
          "mission.step_blocked"} \subseteq StepUpdate
    BY DEF ExecutionOf, StepUpdate
<1>5. ASSUME NEW type \in StepUpdate, NEW approval, type # "mission.step_started",
             NEW rest \in Seq(SoundCall(log)), Plain(log, rest), NEW allowed,
             type \in {"mission.step_failed", "mission.step_blocked"} =>
                 \E j \in DOMAIN rest : Opens(rest[j], <<m, "outcome">>),
             Return(p, allowed, <<Appending(StepUpdated(type, s, approval, ExecutionOf[type]))>> \o rest)
      PROVE  \E next : todo' = [todo EXCEPT ![p] = next] /\ Form(todo[p], next)
    <2> DEFINE c == Appending(StepUpdated(type, s, approval, ExecutionOf[type]))
               S == SoundCall(log) \cup {c}
    <2>1. c \in S /\ SoundCall(log) \subseteq S
        OBVIOUS
    <2> HIDE DEF S
    <2>2. rest \in Seq(S)
        BY <2>1, SeqGrows
    <2>3. Plain(log, <<c>> \o rest)
        BY <1>1, <1>2, <1>5, <2>1, <2>2, UpdatePlain
    <2> HIDE DEF c
    <2>4. <<c>> \o rest \in Seq(S)
        BY <2>1, <2>2, ConsIs
    <2>5. Return(p, allowed, <<c>> \o rest)
        BY <1>5 DEF c
    <2>6. QED BY <1>1, <2>3, <2>4, <2>5, DecidedPlainly
<1> HIDE DEF s, m
<1>6. CASE approve_mission_step(p)
    <2> DEFINE c == Appending(StepUpdated("mission.step_approved", s, "approved", "ready"))
               none == <<>>
    <2>1. Return(p, Execution(log, s) \in {"proposed", "ready", "blocked"}, <<c>>)
        BY <1>6 DEF approve_mission_step, s
    <2>2. <<c>> = <<c>> \o none
        OBVIOUS
    <2>3. none \in Seq(SoundCall(log)) /\ Plain(log, none)
        BY NothingPlanned
    <2>4. c = Appending(StepUpdated("mission.step_approved", s, "approved", ExecutionOf["mission.step_approved"]))
        BY <1>4
    <2> HIDE DEF none, c
    <2>5. Return(p, Execution(log, s) \in {"proposed", "ready", "blocked"},
             <<Appending(StepUpdated("mission.step_approved", s, "approved", ExecutionOf["mission.step_approved"]))>> \o none)
        BY <2>1, <2>2, <2>4
    <2>6. QED BY <1>4, <1>5, <2>3, <2>5
<1>7. CASE complete_mission_step(p)
    <2>1. Return(p, Execution(log, s) = "running",
             <<Appending(StepUpdated("mission.step_completed", s, Approval(s), ExecutionOf["mission.step_completed"]))>>
             \o Outcome(s, FALSE))
        BY <1>4, <1>7 DEF complete_mission_step, s
    <2>2. QED BY <1>3, <1>4, <1>5, <2>1
<1>8. CASE fail_mission_step(p)
    <2>1. Return(p, Execution(log, s) \in {"running", "ready", "proposed"},
             <<Appending(StepUpdated("mission.step_failed", s, Approval(s), ExecutionOf["mission.step_failed"]))>>
             \o Outcome(s, TRUE))
        BY <1>4, <1>8 DEF fail_mission_step, s
    <2>2. QED BY <1>3, <1>4, <1>5, <2>1
<1>9. CASE block_mission_step(p)
    <2>1. Return(p, TRUE,
             <<Appending(StepUpdated("mission.step_blocked", s, Approval(s), ExecutionOf["mission.step_blocked"]))>>
             \o Outcome(s, TRUE))
        BY <1>4, <1>9 DEF block_mission_step, s
    <2>2. QED BY <1>3, <1>4, <1>5, <2>1
<1>10. QED BY <1>6, <1>7, <1>8, <1>9

LEMMA CloseForm ==
    ASSUME PlansInv, NEW p \in Procs, update_reflection_task(p)
    PROVE  \E next : todo' = [todo EXCEPT ![p] = next] /\ Form(todo[p], next)
<1>1. todo[p] # Idle /\ Call(p).do = "close_task"
    BY DEF update_reflection_task, Called, Call
<1>2. Call(p).how \in Closing
    <2>1. Call(p) \in CallOf(log)
        BY <1>1, PlanTyped
    <2>2. "close_task" \notin DOMAIN StepFunction
        BY DEF StepFunction
    <2>3. QED BY <1>1, <2>1, <2>2 DEF CallOf, Closing
<1> DEFINE e == TaskClosed(Call(p).how, Call(p).task)
<1>3. Return(p, Call(p).task \in OpenTasks(log), <<Appending(e)>>)
    BY DEF update_reflection_task
<1>4. e.type = Call(p).how /\ e.task = Call(p).task
    BY DEF TaskClosed
<1> HIDE DEF e
<1>5. e.type \in Closing /\ e.type \notin StepUpdate \cup FirstOnly \cup {"mission.item_added"}
    BY <1>2, <1>4 DEF Closing, StepUpdate, FirstOnly
<1>6. Call(p).task \in OpenTasks(log) => Grounded(log, e) /\ PressureOf(log, e) = {}
    BY <1>4, <1>5 DEF Grounded, OpenTasks, PressureOf, StepUpdate
<1>7. Call(p).task \in OpenTasks(log) => Plain(log, <<Appending(e)>>)
    BY <1>5, <1>6, WriteOne
<1>8. <<Appending(e)>> \in Seq({Appending(e)})
    OBVIOUS
<1>9. Call(p).do \notin {"append", "open_task", "start"}
    BY <1>1
<1>10. QED BY <1>1, <1>3, <1>7, <1>8, <1>9, DecidedPlainly

LEMMA RunToolForm ==
    ASSUME PlansInv, NEW p \in Procs, run_tool_for_step(p)
    PROVE  \E next : todo' = [todo EXCEPT ![p] = next] /\ Form(todo[p], next)
<1>1. todo[p] # Idle /\ Call(p).do \notin {"append", "open_task", "start"}
    BY DEF run_tool_for_step, Called, Call
<1> DEFINE c == Permission(Call(p).step, Execution(log, Call(p).step))
           new == <<c>>
<1>2. PICK allowed : Return(p, allowed, new)
    BY DEF run_tool_for_step
<1>3. Decision(log, c) /\ c.do # "execute" /\ new \in Seq({c})
    BY DEF Decision, Permission
<1> HIDE DEF c
<1>4. Plan(log, new) /\ (\A s : ~Runs(new, s)) /\ (\A m : ~Proposing(new, m))
    BY <1>3, OneCallHolds
<1> HIDE DEF new
<1>5. QED BY <1>1, <1>2, <1>3, <1>4, Decided

(* A step that starts goes on with the rest of its handler.                *)
LEMMA StartForm ==
    ASSUME PlansInv, NEW p \in Procs, start_mission_step(p)
    PROVE  \E next : todo' = [todo EXCEPT ![p] = next] /\ Form(todo[p], next)
<1> DEFINE s == Call(p).step
           me == todo[p]
           rest == Tail(me)
           e == StepUpdated("mission.step_started", s, Approval(s), "running")
           c == Appending(e)
           allowed == ~NeedsApproval(log, s) /\ Execution(log, s) \in {"proposed", "ready"}
           S == CallOf(log) \cup {c}
           new == <<c>> \o rest
<1>1. /\ todo[p] # Idle /\ Call(p).do = "start" /\ Return(p, allowed, <<c>>)
      /\ Called(p, "start")
    BY DEF start_mission_step, Called, Call
<1>2. /\ me \in Seq(CallOf(log)) /\ Plan(log, me) /\ log \in Seq(Event)
      /\ 1 \in DOMAIN me /\ Call(p) = me[1]
    BY <1>1, PlanTyped
<1>3. s \in Steps(log)
    <2>1. "start" \in DOMAIN StepFunction /\ Inv
        BY DEF StepFunction, PlansInv
    <2>2. QED BY <1>1, <2>1, CalledStep
<1>4. /\ c.do = "append" /\ c.event = e /\ e.type = "mission.step_started" /\ e.step = s
      /\ e.execution = "running" /\ ExecutionOf["mission.step_started"] = "running"
    BY DEF Appending, StepUpdated, ExecutionOf, StepUpdate
<1>5. Grounded(log, e) /\ PressureOf(log, e) = {} /\ Quiet(log, c)
    <2>1. e.type \notin Closing /\ e.type \in QuietType /\ e.type # "mission.item_added"
        BY <1>4 DEF Closing, QuietType
    <2> HIDE DEF e, c, s
    <2>2. Grounded(log, e)
        BY <1>3, <1>4, <2>1 DEF Grounded
    <2>3. QED BY <1>4, <2>1, <2>2 DEF PressureOf, Quiet
<1>6. /\ UNCHANGED <<log, ran, overlap, killed>>
      /\ todo' = [todo EXCEPT ![p] = IF allowed THEN new ELSE Idle]
    BY <1>1 DEF Return
<1>7. Deciding(log, me)
    BY <1>1, <1>2 DEF Plan, Writing
<1>8. rest \in Seq(S) /\ c \in S
    <2>1. rest \in Seq(CallOf(log))
        BY <1>2
    <2> HIDE DEF rest, c
    <2>2. CallOf(log) \subseteq S
        OBVIOUS
    <2> HIDE DEF S
    <2>3. rest \in Seq(S)
        BY <2>1, <2>2, SeqGrows
    <2>4. QED BY <2>3 DEF S
<1>9. \A k \in DOMAIN rest : k + 1 \in DOMAIN me /\ rest[k] = me[k + 1]
    BY <1>2, TailIs
<1>10. \A x : ~Pending(me, x)
    BY <1>2, <1>7, DecidingPendsNothing
<1> HIDE DEF rest, c, me, S
<1>11. Plan(log, new)
    <2>1. CASE rest = <<>>
        <3>1. Writing(log, <<c>>)
            BY <1>5, WriteOne DEF c
        <3>2. <<c>> \o <<>> = <<c>>
            <4>1. <<c>> \in Seq({c})
                OBVIOUS
            <4>2. QED BY <4>1, NoMoreCalls
        <3>3. QED BY <2>1, <3>1, <3>2 DEF Plan
    <2>2. CASE /\ Deciding(log, rest)
               /\ rest[1].do = "append" => rest[1].event.type \notin FirstOnly
        BY <1>5, <1>8, <2>2, QuietFirst DEF Plan
    <2>3. QED BY <1>2, <1>7, <2>1, <2>2, DecidingTail DEF rest
<1>12. ASSUME NEW s2 \in Steps(log), Runs(new, s2)
       PROVE  Runs(me, s2) \/ (allowed => Released(log, s2))
    <2>1. \/ c.do = "execute" /\ c.step = s2
          \/ c.do = "append" /\ c.event.type = "mission.step_started" /\ c.event.step = s2
          \/ \E k \in DOMAIN rest : rest[k].do = "execute" /\ rest[k].step = s2
        BY <1>8, <1>12, ConsRuns
    <2>2. CASE \E k \in DOMAIN rest : rest[k].do = "execute" /\ rest[k].step = s2
        BY <1>9, <2>2 DEF Runs
    <2>3. CASE c.event.step = s2
        BY <1>4, <2>3 DEF Released
    <2>4. QED BY <1>4, <2>1, <2>2, <2>3
<1>13. \A m : ~Proposing(new, m)
    <2>1. \A m : Recommended(m, TRUE).type # "mission.step_started"
        BY DEF Recommended
    <2> HIDE DEF e
    <2>2. QED BY <1>4, <1>8, <2>1, ConsProposes
<1> HIDE DEF new, allowed
<1>14. CASE allowed
    <2>1. Moves(me, new)
        BY <1>1, <1>6, <1>10, <1>11, <1>12, <1>13, <1>14 DEF Moves, me
    <2>2. QED BY <1>6, <1>14, <2>1 DEF Form, me
<1>15. CASE ~allowed
    <2>1. Moves(me, Idle)
        BY <1>1, <1>6, <1>10, NothingHolds DEF Moves, me
    <2>2. QED BY <1>6, <1>15, <2>1 DEF Form, me
<1>16. QED BY <1>14, <1>15

LEMMA TaskFields ==
    ASSUME NEW e \in Event, e.type = "reflection.task_opened"
    PROVE  e = TaskOpened(e.mission, e.kind) /\ e.mission \in Nat /\ e.kind \in MissionItemKind
BY DEF Event, StepUpdate, MissionOpened, EvidenceAdded, TaskOpened

(* The task a pressure calls for is written, or found open.                *)
LEMMA OpenForm ==
    ASSUME PlansInv, NEW p \in Procs, open_tasks_from_reflection(p)
    PROVE  \E next : todo' = [todo EXCEPT ![p] = next] /\ Form(todo[p], next)
<1> DEFINE me == todo[p]
           rest == Tail(me)
           m == Call(p).mission
           kind == Call(p).kind
           existing == {t \in OpenMissionTasks(log, m) : log[t].kind = kind}
           e == TaskOpened(m, kind)
           c == Appending(e)
           S == CallOf(log) \cup {c}
           open == IF existing = {} THEN <<c>> ELSE <<>>
           new == open \o rest
<1>1. /\ todo[p] # Idle /\ Call(p).do = "open_task" /\ Return(p, TRUE, open)
    BY DEF open_tasks_from_reflection, Called, Call
<1>2. /\ me \in Seq(CallOf(log)) /\ Plan(log, me) /\ log \in Seq(Event)
      /\ 1 \in DOMAIN me /\ Call(p) = me[1]
    BY <1>1, PlanTyped
<1>3. /\ UNCHANGED <<log, ran, overlap, killed>>
      /\ todo' = [todo EXCEPT ![p] = new]
    BY <1>1 DEF Return
<1>4. Writing(log, me)
    <2>1. me[1].do = "open_task"
        BY <1>1, <1>2
    <2>2. ~Quiet(log, me[1]) /\ ~Decision(log, me[1])
        BY <2>1 DEF Quiet, Decision
    <2>3. ~Deciding(log, me)
        <3> HIDE DEF me
        <3>1. QED BY <1>2, <2>2, DecidingTail
    <2>4. QED BY <1>2, <2>3 DEF Plan
<1>5. Plain(log, rest)
    <2>1. me # <<>>
        BY <1>1 DEF Idle
    <2> HIDE DEF me
    <2>2. QED BY <1>2, <1>4, <2>1, WritingTail
<1>6. rest \in Seq(S) /\ c \in S
    <2>1. rest \in Seq(CallOf(log))
        BY <1>2
    <2> HIDE DEF rest, c
    <2>2. CallOf(log) \subseteq S
        OBVIOUS
    <2> HIDE DEF S
    <2>3. rest \in Seq(S)
        BY <2>1, <2>2, SeqGrows
    <2>4. QED BY <2>3 DEF S
<1>7. /\ c.do = "append" /\ c.event = e /\ e.type = "reflection.task_opened"
    BY DEF Appending, TaskOpened
<1>8. /\ Grounded(log, e) /\ PressureOf(log, e) = {} /\ e.type \notin FirstOnly
    <2>1. e.type \notin StepUpdate \cup Closing \cup {"mission.item_added"}
        BY <1>7 DEF StepUpdate, Closing
    <2>2. e.type \notin FirstOnly
        BY <1>7 DEF FirstOnly
    <2> HIDE DEF e
    <2>3. QED BY <2>1, <2>2, HarmlessEvent
<1>9. \A k \in DOMAIN me : k # 1 => k - 1 \in DOMAIN rest /\ rest[k - 1] = me[k]
    <2>1. me # <<>>
        BY <1>1 DEF Idle
    <2> HIDE DEF me
    <2>2. QED BY <1>2, <2>1, TailIs
<1>10. \A x : Opens(Call(p), x) => x[1] = m /\ x[2] = kind
    BY DEF Opens
<1> HIDE DEF rest, c, me, S, m, kind
<1>11. ASSUME NEW next, Plain(log, next), next \in Seq(S), todo' = [todo EXCEPT ![p] = next],
              \A k \in DOMAIN rest : \E j \in DOMAIN next : next[j] = rest[k],
              \A x : x[1] = m /\ x[2] = kind => Pending(next, x) \/ OpenFor(log, x)
       PROVE  \E n : todo' = [todo EXCEPT ![p] = n] /\ Form(todo[p], n)
    <2>1. Plan(log, next) /\ (\A s : ~Runs(next, s)) /\ (\A m2 : ~Proposing(next, m2))
        BY <1>11, PlainHolds
    <2>2. ASSUME NEW x, Pending(me, x) PROVE Pending(next, x) \/ OpenFor(log, x)
        <3>1. PICK k \in DOMAIN me :
                  Opens(me[k], x) \/ (me[k].do = "append" /\ me[k].event = TaskOpened(x[1], x[2]))
            BY <2>2 DEF Pending
        <3>2. CASE k = 1
            BY <1>1, <1>2, <1>10, <1>11, <3>1, <3>2
        <3>3. CASE k # 1
            <4>1. PICK j \in DOMAIN next : next[j] = me[k]
                BY <1>9, <1>11, <3>3
            <4>2. QED BY <3>1, <4>1 DEF Pending
        <3>4. QED BY <3>2, <3>3
    <2>3. Moves(me, next)
        BY <1>1, <1>3, <2>1, <2>2 DEF Moves, me
    <2>4. QED BY <1>11, <2>3 DEF Form, me
<1>12. CASE existing = {}
    <2>1. new = <<c>> \o rest
        BY <1>12
    <2> DEFINE next == <<c>> \o rest
    <2>2. Plain(log, next)
        <3>1. Appending(e) \in S
            BY <1>6 DEF c
        <3> HIDE DEF e
        <3>2. Plain(log, <<Appending(e)>> \o rest)
            BY <1>5, <1>6, <1>8, <3>1, WriteFirst
        <3>3. QED BY <3>2 DEF c
    <2>3. /\ next \in Seq(S) /\ next[1] = c /\ 1 \in DOMAIN next
          /\ \A k \in DOMAIN rest : k + 1 \in DOMAIN next /\ next[k + 1] = rest[k]
        BY <1>6, ConsIs
    <2> HIDE DEF next
    <2>4. \A k \in DOMAIN rest : \E j \in DOMAIN next : next[j] = rest[k]
        BY <2>3
    <2>5. \A x : x[1] = m /\ x[2] = kind => Pending(next, x)
        BY <1>7, <2>3 DEF Pending
    <2>6. todo' = [todo EXCEPT ![p] = next]
        BY <1>3, <2>1 DEF next
    <2>7. QED BY <1>11, <2>2, <2>3, <2>4, <2>5, <2>6
<1>13. CASE existing # {}
    <2>1. new = <<>> \o rest
        BY <1>13
    <2>2. <<>> \o rest = rest
        BY <1>6
    <2>3. PICK t \in existing : TRUE
        BY <1>13
    <2>4. t \in OpenTasks(log) /\ log[t].mission = m /\ log[t].kind = kind
        BY DEF OpenMissionTasks
    <2>5. log[t] \in Event /\ log[t].type = "reflection.task_opened"
        BY <1>2, <2>4 DEF OpenTasks, Tasks, Positions
    <2>6. log[t] = TaskOpened(m, kind)
        BY <2>4, <2>5, TaskFields
    <2>7. \A x : x[1] = m /\ x[2] = kind => OpenFor(log, x)
        BY <2>4, <2>6 DEF OpenFor
    <2>8. todo' = [todo EXCEPT ![p] = rest]
        BY <1>3, <2>1, <2>2
    <2>9. QED BY <1>5, <1>6, <1>11, <2>7, <2>8
<1>14. QED BY <1>12, <1>13

-----------------------------------------------------------------------------
(* The flow of a mission.                                                  *)

(* Rule k of the flow is the one that applies.                             *)
LEMMA FlowRule ==
    ASSUME NEW evs, NEW m
    PROVE  \E k \in 1..18 :
              /\ mission_flow(evs, m) = FlowRules(evs, m)[k] /\ FlowRules(evs, m)[k].when
              /\ \A j \in 1..(k - 1) : ~FlowRules(evs, m)[j].when
<1> DEFINE rules == FlowRules(evs, m)
           S == {k \in DOMAIN rules : rules[k].when}
<1>1. DOMAIN rules = 1..18 /\ rules[18].when
    BY DEF FlowRules, Rule
<1> HIDE DEF rules
<1>2. S \in SUBSET (0..18) /\ S # {}
    BY <1>1
<1> HIDE DEF S
<1>3. Min(S) \in S /\ \A j \in S : Min(S) <= j
    BY <1>2, MinIsLeast
<1>4. mission_flow(evs, m) = rules[Min(S)]
    BY DEF mission_flow, rules, S
<1>5. Min(S) \in 1..18 /\ rules[Min(S)].when
    BY <1>1, <1>3 DEF S
<1>6. \A j \in 1..(Min(S) - 1) : ~rules[j].when
    <2> SUFFICES ASSUME NEW j \in 1..(Min(S) - 1), rules[j].when PROVE FALSE
        OBVIOUS
    <2>1. j \in DOMAIN rules /\ ~(Min(S) <= j)
        BY <1>1, <1>5
    <2>2. j \in S
        BY <2>1 DEF S
    <2>3. QED BY <1>3, <2>1, <2>2
<1>7. QED BY <1>4, <1>5, <1>6 DEF rules

LEMMA FlowFacts ==
    ASSUME NEW evs, NEW m
    PROVE  /\ mission_flow(evs, m).ready => ~Blocked(evs, m)
           /\ ~mission_flow(evs, m).blocked => Unblocked(evs, m)
<1> DEFINE rules == FlowRules(evs, m)
<1>1. PICK k \in 1..18 :
          /\ mission_flow(evs, m) = rules[k] /\ rules[k].when
          /\ \A j \in 1..(k - 1) : ~rules[j].when
    BY FlowRule
<1>2. /\ rules[1].when = (StatusOfMission(evs, m) = "completed") /\ ~rules[1].ready
      /\ rules[2].blocked /\ ~rules[2].ready
      /\ rules[3].when = Blocked(evs, m) /\ rules[3].blocked /\ ~rules[3].ready
    BY DEF FlowRules, Rule
<1> HIDE DEF rules
<1>3. CASE k = 1
    BY <1>1, <1>2, <1>3 DEF Unblocked
<1>4. CASE k = 2 \/ k = 3
    BY <1>1, <1>2, <1>4
<1>5. CASE k \notin {1, 2, 3}
    <2>1. 3 \in 1..(k - 1)
        BY <1>5
    <2>2. ~Blocked(evs, m)
        BY <1>1, <1>2, <2>1
    <2>3. QED BY <2>2 DEF Unblocked
<1>6. QED BY <1>3, <1>4, <1>5

LEMMA RecommendForm ==
    ASSUME PlansInv, NEW p \in Procs, recommend_next_mission_step(p)
    PROVE  \E next : todo' = [todo EXCEPT ![p] = next] /\ Form(todo[p], next)
<1> DEFINE m == Call(p).mission
           apply == Call(p).apply
           flow == mission_flow(log, m)
           proposal(risk, tool) == IF apply THEN <<Appending(StepProposed(m, risk, tool))>> ELSE <<>>
           yes == Appending(Recommended(m, TRUE))
           no == Appending(Recommended(m, FALSE))
<1>1. todo[p] # Idle /\ Call(p).do \notin {"append", "open_task", "start"}
    BY DEF recommend_next_mission_step, Called, Call
<1>2. \/ Return(p, TRUE, <<no>>)
      \/ /\ ~flow.blocked
         /\ \E risk, tool : Return(p, TRUE, <<yes>> \o proposal(risk, tool))
    BY Zenon DEF recommend_next_mission_step
<1>3. ~flow.blocked => Unblocked(log, m)
    BY FlowFacts
<1> HIDE DEF m, apply, flow
<1>4. /\ Recommended(m, TRUE).type = "mission.autonomy_recommended"
      /\ Recommended(m, FALSE).type = "mission.autonomy_recommended"
      /\ \A m2 : Recommended(m2, TRUE) # Recommended(m, FALSE)
      /\ \A m2 : Recommended(m2, TRUE) = Recommended(m, TRUE) => m2 = m
    <2>1. \A m2, propose : /\ Recommended(m2, propose).mission = m2
                           /\ Recommended(m2, propose).propose = propose
        BY DEF Recommended
    <2>2. QED BY <2>1 DEF Recommended
<1>5. /\ yes.do = "append" /\ yes.event = Recommended(m, TRUE)
      /\ no.do = "append" /\ no.event = Recommended(m, FALSE)
    BY DEF Appending
<1>6. "mission.autonomy_recommended" \notin StepUpdate \cup Closing \cup {"mission.item_added"}
    BY DEF StepUpdate, Closing
<1>7. CASE Return(p, TRUE, <<no>>)
    <2> DEFINE none == <<no>>
    <2>1. none \in Seq({no}) /\ none[1] = no /\ DOMAIN none = {1}
        OBVIOUS
    <2>2. Writing(log, none)
        BY <1>4, <1>6, HarmlessEvent, WriteOne
    <2>3. Return(p, TRUE, none)
        BY <1>7
    <2> HIDE DEF none, no
    <2>4. (\A s : ~Runs(none, s)) /\ (\A m2 : ~Proposing(none, m2))
        BY <1>4, <1>5, <2>1 DEF Runs, Proposing
    <2>5. Plan(log, none)
        BY <2>2 DEF Plan
    <2>6. QED BY <1>1, <2>1, <2>3, <2>4, <2>5, Decided
<1>8. ASSUME NEW risk, NEW tool, ~flow.blocked, Return(p, TRUE, <<yes>> \o proposal(risk, tool))
      PROVE  \E next : todo' = [todo EXCEPT ![p] = next] /\ Form(todo[p], next)
    <2> DEFINE c == Appending(StepProposed(m, risk, tool))
               S == {yes, c}
               rest == proposal(risk, tool)
    <2>1. Plain(log, rest)
        <3>1. StepProposed(m, risk, tool).type
                  \notin StepUpdate \cup Closing \cup {"mission.item_added"} \cup FirstOnly
            BY DEF StepProposed, StepUpdate, Closing, FirstOnly
        <3>2. Plain(log, <<c>>)
            BY <3>1, HarmlessEvent, WriteOne
        <3>3. QED BY <3>2, NothingPlanned
    <2>2. rest \in Seq(S) /\ yes \in S
        <3>1. yes \in S /\ c \in S
            OBVIOUS
        <3>2. rest = <<>> \/ rest = <<c>>
            OBVIOUS
        <3> HIDE DEF c, S, yes, rest
        <3>3. <<>> \in Seq(S) /\ <<c>> \in Seq(S)
            BY <3>1
        <3>4. QED BY <3>1, <3>2, <3>3
    <2>3. /\ c.do = "append" /\ c.event.type = "mission.step_proposed"
          /\ \A k \in DOMAIN rest : rest[k] = c
        BY DEF Appending, StepProposed
    <2> HIDE DEF rest, c, S
    <2>4. Writing(log, <<yes>> \o rest)
        <3>1. Grounded(log, Recommended(m, TRUE)) /\ PressureOf(log, Recommended(m, TRUE)) = {}
            BY <1>4, <1>6, HarmlessEvent
        <3>2. QED BY <2>1, <2>2, <3>1, WriteFirst
    <2>5. <<yes>> \o rest \in Seq(S)
        BY <2>2, ConsIs
    <2> DEFINE new == <<yes>> \o rest
    <2>6. ASSUME NEW s, Runs(new, s) PROVE FALSE
        <3> HIDE DEF yes
        <3>1. \/ yes.do = "execute" /\ yes.step = s
              \/ yes.do = "append" /\ yes.event.type = "mission.step_started" /\ yes.event.step = s
              \/ \E k \in DOMAIN rest : rest[k].do = "execute" /\ rest[k].step = s
            BY <2>2, <2>6, ConsRuns
        <3>2. QED BY <1>4, <1>5, <2>3, <3>1
    <2>7. \A m2 : Proposing(new, m2) => m2 = m
        BY <1>4, <1>5, <2>2, ConsProposes
    <2>8. Return(p, TRUE, new)
        BY <1>8 DEF rest
    <2>9. new \in Seq(S) /\ Plan(log, new)
        BY <2>4, <2>5 DEF Plan
    <2> HIDE DEF new
    <2>10. QED BY <1>1, <1>3, <1>8, <2>6, <2>7, <2>8, <2>9, Decided
<1>9. QED BY <1>2, <1>7, <1>8

LEMMA WriteTwo ==
    ASSUME NEW evs, NEW e, NEW f,
           e.type \notin StepUpdate \cup Closing \cup {"mission.item_added"} \cup FirstOnly,
           f.type \notin StepUpdate \cup Closing \cup {"mission.item_added"} \cup FirstOnly
    PROVE  Plain(evs, <<Appending(e)>> \o <<Appending(f)>>)
<1> DEFINE rest == <<Appending(f)>>
           S == {Appending(e), Appending(f)}
<1>1. rest \in Seq(S) /\ Appending(e) \in S
    OBVIOUS
<1>2. Plain(evs, rest)
    BY HarmlessEvent, WriteOne
<1>3. Grounded(evs, e) /\ PressureOf(evs, e) = {}
    BY HarmlessEvent
<1> HIDE DEF S, rest
<1>4. Plain(evs, <<Appending(e)>> \o rest)
    BY <1>1, <1>2, <1>3, WriteFirst
<1>5. QED BY <1>4 DEF rest

(* A run of the tool, started first or not, after its permission.          *)
LEMMA RunPlan ==
    ASSUME NEW evs, NEW s, NEW allowed, NEW starts
    PROVE  LET start == IF starts THEN <<Do("start", s)>> ELSE <<>>
               all == <<Appending(PermissionChecked(s, allowed))>> \o (start \o <<Do("execute", s)>>)
               S == {Appending(PermissionChecked(s, allowed)), Do("start", s), Do("execute", s)}
           IN  /\ Deciding(evs, all) /\ all \in Seq(S)
               /\ \A s2 : Runs(all, s2) => s2 = s
               /\ \A m : ~Proposing(all, m)
<1> DEFINE start == IF starts THEN <<Do("start", s)>> ELSE <<>>
           c == Appending(PermissionChecked(s, allowed))
           b == Do("start", s)
           x == Do("execute", s)
           S == {c, b, x}
           last == <<x>>
           rest == start \o last
           all == <<c>> \o rest
<1>1. /\ c \in S /\ b \in S /\ x \in S /\ last \in Seq(S) /\ last[1] = x /\ DOMAIN last = {1}
    OBVIOUS
<1>2. /\ c.do = "append" /\ c.event.type = "tool.permission_checked"
      /\ b.do = "start" /\ x.do = "execute" /\ x.step = s
    BY DEF Appending, PermissionChecked, Do
<1>3. "tool.permission_checked" \notin StepUpdate \cup Closing \cup {"mission.item_added"} \cup FirstOnly
    BY DEF StepUpdate, Closing, FirstOnly
<1>4. Quiet(evs, c) /\ Quiet(evs, b) /\ Decision(evs, x)
    BY <1>2, <1>3, HarmlessEvent DEF Quiet, QuietType, Decision
<1>5. start = <<b>> \/ start = <<>>
    OBVIOUS
<1> HIDE DEF start, c, b, x, S
<1>6. Deciding(evs, last)
    BY <1>4, OneDecision
<1> HIDE DEF last
<1>7. /\ Deciding(evs, rest) /\ rest \in Seq(S) /\ rest[1].do # "append"
      /\ \A k \in DOMAIN rest : rest[k].do = "execute" => rest[k].step = s
    <2>1. CASE start = <<b>>
        <3>1. rest = <<b>> \o last
            BY <2>1
        <3> DEFINE all2 == <<b>> \o last
        <3>2. Deciding(evs, all2)
            BY <1>1, <1>2, <1>4, <1>6, QuietFirst
        <3>3. /\ all2 \in Seq(S) /\ all2[1] = b
              /\ \A k \in DOMAIN all2 : k # 1 => k - 1 \in DOMAIN last /\ all2[k] = last[k - 1]
            BY <1>1, ConsIs
        <3> HIDE DEF all2
        <3>4. \A k \in DOMAIN all2 : all2[k].do = "execute" => all2[k].step = s
            BY <1>1, <1>2, <3>3
        <3>5. rest = all2
            BY <3>1 DEF all2
        <3>6. QED BY <1>2, <3>2, <3>3, <3>4, <3>5
    <2>2. CASE start = <<>>
        <3>1. rest = last
            <4>1. rest = <<>> \o last
                BY <2>2
            <4>2. QED BY <1>1, <4>1
        <3>2. QED BY <1>1, <1>2, <1>6, <3>1
    <2>3. QED BY <1>5, <2>1, <2>2
<1> HIDE DEF rest
<1>8. Deciding(evs, all)
    BY <1>1, <1>2, <1>4, <1>7, QuietFirst
<1>9. all \in Seq(S)
    BY <1>1, <1>7, ConsIs
<1>10. ASSUME NEW s2, Runs(all, s2) PROVE s2 = s
    <2>1. \/ c.do = "execute" /\ c.step = s2
          \/ c.do = "append" /\ c.event.type = "mission.step_started" /\ c.event.step = s2
          \/ \E k \in DOMAIN rest : rest[k].do = "execute" /\ rest[k].step = s2
        BY <1>1, <1>7, <1>10, ConsRuns
    <2>2. QED BY <1>2, <1>7, <2>1
<1>11. ASSUME NEW m, Proposing(all, m) PROVE FALSE
    <2>1. c.event = Recommended(m, TRUE)
        BY <1>1, <1>7, <1>11, ConsProposes
    <2>2. QED BY <1>2, <2>1 DEF Recommended
<1>12. /\ Deciding(evs, all) /\ all \in Seq(S)
       /\ \A s2 : Runs(all, s2) => s2 = s
       /\ \A m : ~Proposing(all, m)
    BY <1>8, <1>9, <1>10, <1>11
<1>13. QED BY <1>12 DEF all, rest, last, start, c, b, x, S

LEMMA PermissionForm ==
    ASSUME PlansInv, NEW p \in Procs, check_tool_permission(p)
    PROVE  \E next : todo' = [todo EXCEPT ![p] = next] /\ Form(todo[p], next)
<1> DEFINE s == Call(p).step
           then == Call(p).then
           allowed == ~ToolDenied(log, s)
           known == log[s].tool \in TOOL_REGISTRY
           c == Appending(PermissionChecked(s, allowed))
           v == Appending(PreviewRecorded(s, allowed))
           d == Appending(ExecutionRecorded(s, "denied"))
           start == IF then \in {"proposed", "ready"} THEN <<Do("start", s)>> ELSE <<>>
           next == CASE then = "nothing" -> <<>>
                     [] then = "preview" -> <<v>>
                     [] OTHER -> IF ~allowed THEN <<d>> ELSE start \o <<Do("execute", s)>>
<1>1. /\ todo[p] # Idle /\ Call(p).do \notin {"append", "open_task", "start"}
      /\ Called(p, "permission")
    BY DEF check_tool_permission, Called, Call
<1>2. Return(p, known, <<c>> \o next)
    BY <1>1 DEF check_tool_permission
<1>3. Inv /\ log \in Seq(Event)
    BY DEF PlansInv, Inv
<1>4. s \in Steps(log)
    BY <1>1, <1>3, CalledStep
<1>5. allowed => Released(log, s)
    <2>1. Execution(log, s) \in MissionStepExecutionStatus
        BY <1>3, <1>4, RecordTyped
    <2>2. QED BY <2>1 DEF ToolDenied, Released, MissionStepExecutionStatus
<1> HIDE DEF s, then, allowed, known
<1>6. /\ PermissionChecked(s, allowed).type = "tool.permission_checked"
      /\ PreviewRecorded(s, allowed).type = "tool.preview_recorded"
      /\ ExecutionRecorded(s, "denied").type = "tool.execution_recorded"
    BY DEF PermissionChecked, PreviewRecorded, ExecutionRecorded
<1>7. \A type \in {"tool.permission_checked", "tool.preview_recorded", "tool.execution_recorded"} :
          type \notin StepUpdate \cup Closing \cup {"mission.item_added"} \cup FirstOnly
    BY DEF StepUpdate, Closing, FirstOnly
<1>8. /\ Plain(log, <<c>>) /\ Plain(log, <<c>> \o <<v>>) /\ Plain(log, <<c>> \o <<d>>)
    <2>1. Plain(log, <<c>>)
        BY <1>6, <1>7, HarmlessEvent, WriteOne
    <2>2. Plain(log, <<c>> \o <<v>>) /\ Plain(log, <<c>> \o <<d>>)
        BY <1>6, <1>7, WriteTwo
    <2>3. QED BY <2>1, <2>2
<1> DEFINE S == {c, v, d, Do("start", s), Do("execute", s)}
<1>9. c \in S /\ v \in S /\ d \in S
    OBVIOUS
<1>10. next = <<>> \/ next = <<v>> \/ next = <<d>>
       \/ (allowed /\ next = start \o <<Do("execute", s)>>)
    BY Zenon
<1>11. CASE allowed /\ next = start \o <<Do("execute", s)>>
    <2> DEFINE all == <<c>> \o (start \o <<Do("execute", s)>>)
               T == {c, Do("start", s), Do("execute", s)}
    <2>1. /\ Deciding(log, all) /\ all \in Seq(T)
          /\ (\A s2 : Runs(all, s2) => s2 = s) /\ (\A m : ~Proposing(all, m))
        BY RunPlan
    <2>2. Return(p, known, all)
        BY <1>2, <1>11
    <2> HIDE DEF all, T
    <2>3. QED BY <1>1, <1>5, <1>11, <2>1, <2>2, Decided DEF Plan
<1> HIDE DEF c, v, d, S, next
<1>12. CASE next = <<>>
    <2>1. <<c>> \in Seq(S)
        BY <1>9
    <2>2. <<c>> \o <<>> = <<c>>
        BY <2>1, NoMoreCalls
    <2>3. Return(p, known, <<c>>)
        BY <1>2, <1>12, <2>2
    <2>4. QED BY <1>1, <1>8, <2>1, <2>3, DecidedPlainly
<1>13. ASSUME NEW x \in S, next = <<x>>, Plain(log, <<c>> \o <<x>>)
       PROVE  \E n : todo' = [todo EXCEPT ![p] = n] /\ Form(todo[p], n)
    <2>1. <<c>> \in Seq(S) /\ <<x>> \in Seq(S)
        BY <1>9
    <2>2. <<c>> \o <<x>> \in Seq(S)
        BY <2>1
    <2>3. Return(p, known, <<c>> \o <<x>>)
        BY <1>2, <1>13
    <2>4. QED BY <1>1, <1>13, <2>2, <2>3, DecidedPlainly
<1>14. QED BY <1>8, <1>9, <1>10, <1>11, <1>12, <1>13

LEMMA ResultPlan ==
    ASSUME NEW evs, NEW m, NEW s, NEW status, NEW f \in {"complete", "fail"}
    PROVE  LET all == <<Appending(EvidenceAdded), Appending(EvidenceLinked(m)),
                        Appending(ExecutionRecorded(s, status)), Do(f, s)>>
           IN  /\ Plan(evs, all) /\ (\A s2 : ~Runs(all, s2)) /\ (\A m2 : ~Proposing(all, m2))
<1> DEFINE a == Appending(EvidenceAdded)
           b == Appending(EvidenceLinked(m))
           c == Appending(ExecutionRecorded(s, status))
           d == Do(f, s)
           all == <<a, b, c, d>>
<1>1. /\ Len(all) = 4 /\ DOMAIN all = 1..4
      /\ all[1] = a /\ all[2] = b /\ all[3] = c /\ all[4] = d
    OBVIOUS
<1>2. /\ a.do = "append" /\ a.event.type = "evidence.added"
      /\ b.do = "append" /\ b.event.type = "evidence.linked"
      /\ c.do = "append" /\ c.event.type = "tool.execution_recorded"
      /\ d.do = f
    BY DEF Appending, EvidenceAdded, EvidenceLinked, ExecutionRecorded, Do
<1>3. \A type \in {"evidence.added", "evidence.linked", "tool.execution_recorded"} :
          /\ type \notin StepUpdate \cup Closing \cup {"mission.item_added"} \cup FirstOnly
          /\ type \in QuietType /\ type # "mission.autonomy_recommended"
          /\ type # "mission.step_started"
    BY DEF StepUpdate, Closing, FirstOnly, QuietType
<1>4. Quiet(evs, a) /\ Quiet(evs, b) /\ Quiet(evs, c) /\ Decision(evs, d)
    BY <1>2, <1>3, HarmlessEvent DEF Quiet, Decision
<1> HIDE DEF a, b, c, d, all
<1>5. \A k \in 1..3 : k = 1 \/ k = 2 \/ k = 3
    OBVIOUS
<1>6. \A k \in 1..4 : k = 1 \/ k = 2 \/ k = 3 \/ k = 4
    OBVIOUS
<1>7. \A k \in 1..3 : /\ Quiet(evs, all[k])
                      /\ ~(all[k].do = "append" /\ all[k].event.type \in FirstOnly)
    BY <1>1, <1>2, <1>3, <1>4, <1>5
<1>8. 4 - 1 = 3 /\ 4 > 0
    OBVIOUS
<1>9. Deciding(evs, all)
    BY <1>1, <1>4, <1>7, <1>8 DEF Deciding
<1>10. \A k \in 1..4 : all[k].do # "execute"
    BY <1>1, <1>2, <1>6
<1>11. \A s2 : ~Runs(all, s2)
    BY <1>1, <1>2, <1>10 DEF Runs
<1>12. \A m2 : ~Proposing(all, m2)
    BY <1>1, <1>2 DEF Proposing, Recommended
<1>13. QED BY <1>9, <1>11, <1>12 DEF Plan, all, a, b, c, d

LEMMA ExecuteForm ==
    ASSUME PlansInv, NEW p \in Procs, execute_tool(p)
    PROVE  \E next : todo' = [todo EXCEPT ![p] = next] /\ Form(todo[p], next)
<1> DEFINE s == Call(p).step
           me == todo[p]
           result(status, f) ==
               <<Appending(EvidenceAdded), Appending(EvidenceLinked(log[s].mission)),
                 Appending(ExecutionRecorded(s, status)), Do(f, s)>>
<1>1. /\ me # Idle /\ Call(p).do = "execute" /\ Called(p, "execute")
      /\ Call(p).do \notin {"append", "open_task", "start"}
    BY DEF execute_tool, Called, Call
<1>2. s \in Steps(log)
    BY <1>1, CalledStep DEF PlansInv
<1>3. Call(p) = me[1]
    BY <1>1, PlanTyped
<1>4. Tail(me) = <<>> /\ \A x : ~Pending(me, x)
    BY <1>1, Deciders
<1>5. /\ ran' = Append(ran, [step |-> s, at |-> Len(log)])
      /\ UNCHANGED <<log, overlap, killed>>
      /\ \/ todo' = [todo EXCEPT ![p] = result("completed", "complete") \o Tail(@)]
         \/ todo' = [todo EXCEPT ![p] = result("failed", "fail") \o Tail(@)]
         \/ todo' = [todo EXCEPT ![p] = Idle]
    BY DEF execute_tool
<1>6. ASSUME NEW status, NEW f \in {"complete", "fail"}
      PROVE  /\ Plan(log, result(status, f))
             /\ (\A s2 : ~Runs(result(status, f), s2)) /\ (\A m2 : ~Proposing(result(status, f), m2))
             /\ result(status, f) \o <<>> = result(status, f)
    <2> DEFINE all == result(status, f)
    <2>1. Plan(log, all) /\ (\A s2 : ~Runs(all, s2)) /\ (\A m2 : ~Proposing(all, m2))
        BY ResultPlan
    <2>2. all \in Seq({all[1], all[2], all[3], all[4]})
        OBVIOUS
    <2> HIDE DEF all
    <2>3. all \o <<>> = all
        BY <2>2, NoMoreCalls
    <2>4. QED BY <2>1, <2>3 DEF all
<1> HIDE DEF result, s
<1>7. Runner(me, s)
    BY <1>1, <1>3 DEF Runner, s
<1>8. ASSUME NEW next, Plan(log, next), \A s2 : ~Runs(next, s2), \A m2 : ~Proposing(next, m2)
      PROVE  Moves(me, next)
    BY <1>1, <1>2, <1>4, <1>5, <1>7, <1>8 DEF Moves
<1>9. PICK next : /\ Plan(log, next) /\ (\A s2 : ~Runs(next, s2)) /\ (\A m2 : ~Proposing(next, m2))
                  /\ todo' = [todo EXCEPT ![p] = next]
    BY <1>4, <1>5, <1>6, NothingHolds
<1>10. QED BY <1>8, <1>9 DEF Form

LEMMA StepForms ==
    ASSUME PlansInv, [Next]_vars
    PROVE  \/ UNCHANGED vars
           \/ \E p \in Procs : \E next : todo' = [todo EXCEPT ![p] = next] /\ Form(todo[p], next)
<1>1. ASSUME NEW p \in Procs, AppendEvent(p)
      PROVE  \E next : todo' = [todo EXCEPT ![p] = next] /\ Form(todo[p], next)
    <2>1. todo[p] # Idle /\ Call(p).do = "append"
        BY <1>1 DEF AppendEvent, Called, Call
    <2>2. Call(p) = todo[p][1]
        BY <2>1, PlanTyped
    <2>3. /\ log' = Append(log, Call(p).event) /\ todo' = [todo EXCEPT ![p] = Tail(@)]
          /\ UNCHANGED <<ran, overlap, killed>>
        BY <1>1 DEF AppendEvent
    <2>4. Writes(todo[p], Tail(todo[p]))
        BY <2>1, <2>2, <2>3 DEF Writes
    <2>5. QED BY <2>3, <2>4 DEF Form
<1>2. ASSUME NEW p \in Procs, Step(p)
      PROVE  \E next : todo' = [todo EXCEPT ![p] = next] /\ Form(todo[p], next)
    BY <1>1, <1>2, TransitionForm, StartForm, OpenForm, CloseForm, RecommendForm, RunToolForm,
       PermissionForm, ExecuteForm DEF Step
<1>3. ASSUME NEW p \in Procs, Crash(p)
      PROVE  \E next : todo' = [todo EXCEPT ![p] = next] /\ Form(todo[p], next)
    BY <1>3 DEF Crash, Form, Dies
<1>4. QED BY <1>2, <1>3, CommandForm DEF Next

-----------------------------------------------------------------------------
(* What a handler has yet to do is planned, in every state.                *)

(* The event written, and the calls left after it.                         *)
LEMMA Written ==
    ASSUME PlansInv, NEW p \in Procs, NEW next, Writes(todo[p], next)
    PROVE  /\ todo[p] \in Seq(CallOf(log)) /\ log \in Seq(Event) /\ todo[p] # <<>>
           /\ todo[p][1].do = "append" /\ todo[p][1].event \in Event
           /\ log' = Append(log, todo[p][1].event) /\ next = Tail(todo[p])
           /\ Grounded(log, todo[p][1].event)
           /\ \/ Writing(log, todo[p]) /\ Plain(log, next)
              \/ /\ Deciding(log, todo[p]) /\ Quiet(log, todo[p][1]) /\ Deciding(log, next)
                 /\ next[1].do = "append" => next[1].event.type \notin FirstOnly
<1> DEFINE me == todo[p]
<1>1. /\ me # Idle /\ me[1].do = "append" /\ next = Tail(me)
      /\ log' = Append(log, me[1].event)
    BY DEF Writes
<1>2. /\ me \in Seq(CallOf(log)) /\ Plan(log, me) /\ log \in Seq(Event)
      /\ 1 \in DOMAIN me /\ me[1] \in CallOf(log)
    BY <1>1, PlanTyped
<1>3. me[1].event \in Event
    <2>1. DOMAIN StepFunction = {"approve", "start", "complete", "fail", "block", "run_tool"}
        BY DEF StepFunction
    <2>2. QED BY <1>1, <1>2, <2>1 DEF CallOf
<1>4. me # <<>>
    BY <1>1 DEF Idle
<1> HIDE DEF me
<1>5. CASE Writing(log, me)
    <2>1. Grounded(log, me[1].event)
        BY <1>1, <1>2, <1>5 DEF Writing
    <2>2. Plain(log, next)
        BY <1>1, <1>2, <1>4, <1>5, WritingTail
    <2>3. QED BY <1>1, <1>2, <1>3, <1>4, <1>5, <2>1, <2>2 DEF me
<1>6. CASE Deciding(log, me)
    <2>1. ~Decision(log, me[1])
        BY <1>1 DEF Decision
    <2>2. /\ Quiet(log, me[1]) /\ Deciding(log, next)
          /\ next[1].do = "append" => next[1].event.type \notin FirstOnly
        BY <1>1, <1>2, <1>6, <2>1, DecidingTail
    <2>3. Grounded(log, me[1].event)
        BY <1>1, <2>2 DEF Quiet
    <2>4. QED BY <1>1, <1>2, <1>3, <1>4, <1>6, <2>2, <2>3 DEF me
<1>7. QED BY <1>2, <1>5, <1>6 DEF Plan

LEMMA PlansStep ==
    ASSUME PlansInv, Inv', [Next]_vars
    PROVE  PlansInv'
<1>1. CASE UNCHANGED vars
    BY <1>1 DEF vars, PlansInv
<1>2. ASSUME NEW p \in Procs, NEW next, todo' = [todo EXCEPT ![p] = next], Form(todo[p], next)
      PROVE  PlansInv'
    <2>0. /\ log \in Seq(Event) /\ todo \in [Procs -> Seq(SoundCall(log))]
          /\ \A q \in Procs : Plan(log, todo[q])
          /\ \A i \in DOMAIN log : Grounded(log, log[i])
        BY DEF PlansInv, Inv
    <2>1. \A q \in Procs : todo'[q] = IF q = p THEN next ELSE todo[q]
        BY <1>2, <2>0
    <2>2. CASE log' = log /\ Plan(log, next)
        BY <2>0, <2>1, <2>2 DEF PlansInv
    <2>3. CASE Writes(todo[p], next)
        <3> DEFINE e == todo[p][1].event
        <3>1. e \in Event /\ log' = Append(log, e) /\ Grounded(log, e) /\ Plan(log, next)
            BY <2>3, Written DEF Plan, Plain
        <3> HIDE DEF e
        <3>2. \A q \in Procs : Plan(log', todo'[q])
            BY <2>0, <2>1, <3>1, PlanGrows
        <3>3. \A i \in DOMAIN log' : Grounded(log', log'[i])
            <4>1. DOMAIN log' = 1..(Len(log) + 1) /\ DOMAIN log = 1..Len(log) /\ Len(log) \in Nat
                BY <2>0, <3>1, Growth
            <4>2. log'[Len(log) + 1] = e /\ \A i \in 1..Len(log) : log'[i] = log[i]
                BY <2>0, <3>1, Growth
            <4>3. ASSUME NEW f, Grounded(log, f) PROVE Grounded(log', f)
                BY <2>0, <3>1, <4>3, GroundedGrows
            <4>4. \A i \in 1..(Len(log) + 1) : i \in 1..Len(log) \/ i = Len(log) + 1
                BY <4>1
            <4>5. QED BY <2>0, <3>1, <4>1, <4>2, <4>3, <4>4
        <3>4. QED BY <3>2, <3>3 DEF PlansInv
    <2>4. CASE Starts(todo[p], next) \/ Moves(todo[p], next)
        BY <2>2, <2>4 DEF Starts, Moves
    <2>5. CASE Dies(todo[p], next)
        BY <2>2, <2>5, NothingHolds DEF Dies
    <2>6. QED BY <1>2, <2>3, <2>4, <2>5 DEF Form
<1>3. QED BY <1>1, <1>2, StepForms

LEMMA PlansHold == Spec => []PlansInv
<1>1. Init /\ Inv => PlansInv
    <2> SUFFICES ASSUME Init, Inv PROVE PlansInv
        OBVIOUS
    <2>1. Opening(log) /\ \A p \in Procs : todo[p] = Idle
        BY MissionsAssumption DEF Init
    <2>2. ASSUME NEW i \in DOMAIN log PROVE Grounded(log, log[i])
        <3>1. log[i].type \in {"mission.opened", "mission.step_proposed"}
            BY <2>1 DEF Opening, MissionOpened, StepProposed
        <3>2. log[i].type \notin StepUpdate \cup Closing \cup {"mission.item_added"}
            BY <3>1 DEF StepUpdate, Closing
        <3>3. QED BY <3>2, HarmlessEvent
    <2>3. QED BY <2>1, <2>2, NothingHolds DEF PlansInv
<1>2. PlansInv /\ Inv' /\ [Next]_vars => PlansInv'
    BY PlansStep
<1>3. QED BY <1>1, <1>2, InvHolds, PTL DEF Spec

-----------------------------------------------------------------------------
(* A step that ended runs again only after a later approval.               *)

EndOf(e, s) ==
    e.type \in StepUpdate /\ e.step = s /\ e.execution \in {"completed", "failed", "blocked"}

\* Each end of s among the first n events is followed by an approval.
EndsApproved(evs, s, n) ==
    \A e \in 1..n : EndOf(evs[e], s) =>
        \E i \in e..n : evs[i].type = "mission.step_approved" /\ evs[i].step = s

\* Updates come after what they update.
Ordered(evs) == \A i \in DOMAIN evs : evs[i].type \in StepUpdate => evs[i].step < i

StartsReleased(evs) ==
    \A i \in Positions(evs, "mission.step_started") : EndsApproved(evs, evs[i].step, i)

Sole == \A p, q \in Procs : todo[p] # Idle /\ todo[q] # Idle => p = q

ReleasedInv ==
    /\ Ordered(log)
    /\ ~overlap =>
         /\ Sole
         /\ \A p \in Procs, s \in Steps(log) : Runs(todo[p], s) => EndsApproved(log, s, Len(log))
         /\ \A k \in DOMAIN ran : EndsApproved(log, ran[k].step, ran[k].at)
         /\ StartsReleased(log)

LEMMA EndsGrow ==
    ASSUME NEW evs \in Seq(Event), NEW e \in Event, NEW s, NEW n \in 0..Len(evs),
           EndsApproved(evs, s, n)
    PROVE  EndsApproved(Append(evs, e), s, n)
<1>1. \A i \in 1..n : Append(evs, e)[i] = evs[i]
    BY Growth
<1>2. \A j \in 1..n : \A i \in j..n : i \in 1..n
    OBVIOUS
<1>3. QED BY <1>1, <1>2 DEF EndsApproved

LEMMA EndsExtend ==
    ASSUME NEW evs \in Seq(Event), NEW e \in Event, NEW s, ~EndOf(e, s),
           EndsApproved(evs, s, Len(evs))
    PROVE  EndsApproved(Append(evs, e), s, Len(evs) + 1)
<1> DEFINE new == Append(evs, e)
           n == Len(evs)
<1>1. n \in Nat /\ n \in 0..Len(evs) /\ new[n + 1] = e
    BY Growth
<1>2. EndsApproved(new, s, n)
    BY <1>1, EndsGrow
<1> HIDE DEF new, n
<1>3. ASSUME NEW j \in 1..(n + 1), EndOf(new[j], s)
      PROVE  \E i \in j..(n + 1) : new[i].type = "mission.step_approved" /\ new[i].step = s
    <2>1. j \in 1..n
        BY <1>1, <1>3
    <2>2. PICK i \in j..n : new[i].type = "mission.step_approved" /\ new[i].step = s
        BY <1>2, <1>3, <2>1 DEF EndsApproved
    <2>3. i \in j..(n + 1)
        BY <1>1, <2>1
    <2>4. QED BY <2>2, <2>3
<1>4. QED BY <1>3 DEF EndsApproved, new, n

(* A step whose record lets it run has been approved since it last ended.  *)
LEMMA ReleasedMeans ==
    ASSUME NEW evs \in Seq(Event), \A i \in DOMAIN evs : Grounded(evs, evs[i]), Ordered(evs),
           StartsReleased(evs), NEW s \in Steps(evs), Released(evs, s)
    PROVE  EndsApproved(evs, s, Len(evs))
<1> DEFINE S == {s} \cup UpdatesOf(evs, s)
           i == Max(S)
<1>1. S \in SUBSET (0..Len(evs)) /\ S # {} /\ Len(evs) \in Nat /\ DOMAIN evs = 1..Len(evs)
    BY StepsAreEvents DEF UpdatesOf
<1>2. i \in S /\ \A k \in S : k <= i
    <2> HIDE DEF S
    <2>1. QED BY <1>1, MaxIsGreatest
<1>3. StepRecord(evs, s) = evs[i]
    BY DEF StepRecord
<1>4. \A e \in 1..Len(evs) : EndOf(evs[e], s) => e \in UpdatesOf(evs, s) /\ e \in S /\ s < e
    BY <1>1 DEF EndOf, UpdatesOf, Ordered
<1> HIDE DEF S, i
<1>5. CASE i \notin UpdatesOf(evs, s)
    <2>1. i = s
        BY <1>2, <1>5 DEF S
    <2>2. ASSUME NEW e \in 1..Len(evs), EndOf(evs[e], s) PROVE FALSE
        <3>1. e <= s /\ s < e /\ s \in Nat
            BY <1>2, <1>4, <2>1, <2>2, StepsAreEvents
        <3>2. QED BY <3>1
    <2>3. QED BY <2>2 DEF EndsApproved
<1>6. CASE i \in UpdatesOf(evs, s)
    <2>1. i \in DOMAIN evs /\ evs[i].type \in StepUpdate /\ evs[i].step = s
        BY <1>6 DEF UpdatesOf
    <2>2. evs[i].execution = ExecutionOf[evs[i].type]
        BY <2>1 DEF Grounded
    <2>3. evs[i].execution \in {"proposed", "ready", "running"}
        BY <1>3 DEF Released, Execution
    <2>4. evs[i].type \in {"mission.step_approved", "mission.step_started"}
        BY <2>1, <2>2, <2>3 DEF ExecutionOf, StepUpdate
    <2>5. \A e \in 1..Len(evs) : EndOf(evs[e], s) => e <= i
        BY <1>2, <1>4
    <2>6. CASE evs[i].type = "mission.step_approved"
        <3>1. \A e \in 1..Len(evs) : EndOf(evs[e], s) => i \in e..Len(evs)
            BY <1>1, <2>1, <2>5
        <3>2. QED BY <2>1, <2>6, <3>1 DEF EndsApproved
    <2>7. CASE evs[i].type = "mission.step_started"
        <3>1. EndsApproved(evs, s, i)
            BY <2>1, <2>7 DEF StartsReleased, Positions
        <3>2. ASSUME NEW e \in 1..Len(evs), EndOf(evs[e], s)
              PROVE  \E k \in e..Len(evs) : evs[k].type = "mission.step_approved" /\ evs[k].step = s
            <4>1. e \in 1..i
                BY <1>1, <2>1, <2>5, <3>2
            <4>2. PICK k \in e..i : evs[k].type = "mission.step_approved" /\ evs[k].step = s
                BY <3>1, <3>2, <4>1 DEF EndsApproved
            <4>3. k \in e..Len(evs)
                BY <1>1, <2>1, <4>1
            <4>4. QED BY <4>2, <4>3
        <3>3. QED BY <3>2 DEF EndsApproved
    <2>8. QED BY <2>4, <2>6, <2>7
<1>7. QED BY <1>5, <1>6

(* What a handler runs after writing an event it was to run before, and    *)
(* that event ends no step.                                                *)
LEMMA WrittenRuns ==
    ASSUME PlansInv, NEW p \in Procs, NEW next, Writes(todo[p], next), NEW s, Runs(next, s)
    PROVE  Runs(todo[p], s) /\ ~EndOf(todo[p][1].event, s)
<1> DEFINE me == todo[p]
           e == me[1].event
<1>1. /\ me \in Seq(CallOf(log)) /\ me # <<>> /\ next = Tail(me) /\ Grounded(log, e)
      /\ \/ Writing(log, me) /\ Plain(log, next)
         \/ /\ Deciding(log, me) /\ Quiet(log, me[1]) /\ Deciding(log, next)
            /\ next[1].do = "append" => next[1].event.type \notin FirstOnly
      /\ me[1].do = "append"
    BY Written
<1> HIDE DEF me
<1>2. /\ \A k \in DOMAIN next : k + 1 \in DOMAIN me /\ next[k] = me[k + 1]
      /\ next \in Seq(CallOf(log))
    BY <1>1, TailIs
<1>3. ~Plain(log, next)
    BY <1>2, PlainHolds
<1>4. Quiet(log, me[1])
    BY <1>1, <1>3
<1>5. PICK k \in DOMAIN next : next[k].do = "execute" /\ next[k].step = s
    BY <1>1, <1>3 DEF Runs, FirstOnly
<1>6. Runs(me, s)
    BY <1>2, <1>5 DEF Runs
<1>7. ~EndOf(e, s)
    <2>1. e.type \in QuietType
        BY <1>1, <1>4 DEF Quiet
    <2>2. e.type \in StepUpdate => e.execution = "running"
        BY <1>1, <2>1 DEF Grounded, QuietType, ExecutionOf, StepUpdate
    <2>3. QED BY <2>2 DEF EndOf
<1>8. QED BY <1>6, <1>7 DEF me

LEMMA OrderedStep ==
    ASSUME PlansInv, ReleasedInv, NEW p \in Procs, NEW next, Writes(todo[p], next)
    PROVE  Ordered(log')
<1> DEFINE e == todo[p][1].event
           new == Append(log, e)
<1>1. e \in Event /\ log' = new /\ Grounded(log, e) /\ log \in Seq(Event)
    BY Written
<1> HIDE DEF e
<1>2. /\ DOMAIN new = 1..(Len(log) + 1) /\ DOMAIN log = 1..Len(log) /\ Len(log) \in Nat
      /\ new[Len(log) + 1] = e /\ \A i \in 1..Len(log) : new[i] = log[i]
    BY <1>1, Growth
<1>3. e.type \in StepUpdate => e.step < Len(log) + 1
    <2>1. e.type \in StepUpdate => e.step \in 1..Len(log)
        BY <1>1, StepsAreEvents DEF Grounded
    <2>2. QED BY <1>2, <2>1
<1> HIDE DEF new
<1>4. \A i \in 1..(Len(log) + 1) : i \in 1..Len(log) \/ i = Len(log) + 1
    BY <1>2
<1>5. QED BY <1>1, <1>2, <1>3, <1>4 DEF Ordered, ReleasedInv

(* One handler alone writes an event.                                      *)
LEMMA ReleasedWrites ==
    ASSUME PlansInv, PlansInv', ReleasedInv, NEW p \in Procs, NEW next,
           todo' = [todo EXCEPT ![p] = next], Writes(todo[p], next), ~overlap
    PROVE  /\ \A q \in Procs, s \in Steps(log') : Runs(todo'[q], s) => EndsApproved(log', s, Len(log'))
           /\ \A k \in DOMAIN ran' : EndsApproved(log', ran'[k].step, ran'[k].at)
           /\ StartsReleased(log')
<1> DEFINE e == todo[p][1].event
           new == Append(log, e)
           n == Len(log)
<1>1. e \in Event /\ log' = new /\ Grounded(log, e) /\ log \in Seq(Event)
      /\ todo[p][1].do = "append" /\ ran' = ran /\ todo[p] # Idle
    BY Written DEF Writes
<1>2. \A s : Runs(next, s) => Runs(todo[p], s) /\ ~EndOf(e, s)
    BY WrittenRuns
<1>3. \A s : e.type = "mission.step_started" /\ e.step = s => Runs(todo[p], s)
    BY <1>1 DEF Runs, Idle
<1> HIDE DEF e
<1>4. /\ DOMAIN new = 1..(n + 1) /\ DOMAIN log = 1..n /\ n \in Nat /\ Len(new) = n + 1
      /\ new[n + 1] = e /\ \A i \in 1..n : new[i] = log[i]
    BY <1>1, Growth
<1>5. \A q \in Procs : todo'[q] = IF q = p THEN next ELSE todo[q]
    BY DEF PlansInv, Inv
<1>6. \A q \in Procs : q # p => todo[q] = Idle
    BY <1>1 DEF ReleasedInv, Sole
<1>7. ASSUME NEW s, Runs(todo[p], s), s \in Steps(log), ~EndOf(e, s)
      PROVE  EndsApproved(new, s, n + 1)
    BY <1>1, <1>7, EndsExtend DEF ReleasedInv
<1>8. ASSUME NEW s, NEW m \in 0..n, EndsApproved(log, s, m) PROVE EndsApproved(new, s, m)
    BY <1>1, <1>8, EndsGrow
<1>9. \A s : Runs(todo[p], s) => s \in Steps(log)
    <2>1. /\ todo[p] \in Seq(CallOf(log)) /\ \A i \in DOMAIN todo[p] : todo[p][i] \in CallOf(log)
          /\ Plan(log, todo[p]) /\ 1 \in DOMAIN todo[p]
        <3>1. todo[p] \in Seq(CallOf(log)) /\ Plan(log, todo[p]) /\ 1 \in DOMAIN todo[p]
            BY <1>1, PlanTyped
        <3> DEFINE me == todo[p]
        <3> HIDE DEF me
        <3>2. me \in Seq(CallOf(log)) => \A i \in DOMAIN me : me[i] \in CallOf(log)
            OBVIOUS
        <3>3. QED BY <3>1, <3>2 DEF me
    <2>2. DOMAIN StepFunction = {"approve", "start", "complete", "fail", "block", "run_tool"}
        BY DEF StepFunction
    <2>3. \A i \in DOMAIN todo[p] : todo[p][i].do = "execute" => todo[p][i].step \in Steps(log)
        BY <2>1, <2>2 DEF CallOf
    <2>4. e.type = "mission.step_started" => e.step \in Steps(log)
        BY <1>1 DEF Grounded, StepUpdate
    <2>5. QED BY <2>3, <2>4 DEF Runs, e
<1> HIDE DEF new, n
<1>10. ASSUME NEW q \in Procs, NEW s \in Steps(log'), Runs(todo'[q], s)
       PROVE  EndsApproved(new, s, n + 1)
    <2>1. q = p
        BY <1>5, <1>6, <1>10, NothingHolds
    <2>2. Runs(next, s)
        BY <1>5, <1>10, <2>1
    <2>3. QED BY <1>2, <1>7, <1>9, <2>2
<1>11. ASSUME NEW k \in DOMAIN ran PROVE EndsApproved(new, ran[k].step, ran[k].at)
    <2>1. ran[k] \in RunOf(log)
        BY DEF PlansInv, Inv, SoundRun
    <2>2. ran[k].at \in 0..n
        BY <2>1 DEF RunOf, n
    <2>3. QED BY <1>8, <2>2 DEF ReleasedInv
<1>12. ASSUME NEW i \in Positions(new, "mission.step_started")
       PROVE  EndsApproved(new, new[i].step, i)
    <2>1. i \in 1..(n + 1) /\ new[i].type = "mission.step_started"
        BY <1>4 DEF Positions
    <2>2. CASE i = n + 1
        <3>1. e.type = "mission.step_started" /\ new[i].step = e.step
            BY <1>4, <2>1, <2>2
        <3>2. Runs(todo[p], e.step) /\ ~EndOf(e, e.step)
            BY <1>1, <1>3, <3>1 DEF EndOf, Grounded, ExecutionOf, StepUpdate
        <3>3. QED BY <1>7, <1>9, <2>2, <3>1, <3>2
    <2>3. CASE i # n + 1
        <3>1. i \in 1..n /\ i \in 0..n
            BY <1>4, <2>1, <2>3
        <3>2. new[i] = log[i] /\ i \in Positions(log, "mission.step_started")
            BY <1>4, <2>1, <3>1 DEF Positions
        <3>3. EndsApproved(log, log[i].step, i)
            BY <3>2 DEF ReleasedInv, StartsReleased
        <3>4. QED BY <1>8, <3>1, <3>2, <3>3
    <2>4. QED BY <2>2, <2>3
<1>13. QED BY <1>1, <1>4, <1>10, <1>11, <1>12 DEF StartsReleased

LEMMA ReleasedStep ==
    ASSUME PlansInv, PlansInv', ReleasedInv, [Next]_vars
    PROVE  ReleasedInv'
<1>1. CASE UNCHANGED vars
    BY <1>1 DEF vars, ReleasedInv, Sole
<1>2. ASSUME NEW p \in Procs, NEW next, todo' = [todo EXCEPT ![p] = next], Form(todo[p], next)
      PROVE  ReleasedInv'
    <2>1. \A q \in Procs : todo'[q] = IF q = p THEN next ELSE todo[q]
        BY <1>2 DEF PlansInv, Inv
    <2>2. CASE Starts(todo[p], next)
        <3>1. /\ log' = log /\ ran' = ran /\ overlap' = (overlap \/ ~Quiescent)
              /\ \A s : ~Runs(next, s)
            BY <2>2 DEF Starts
        <3>2. ~overlap' => ~overlap /\ \A q \in Procs : todo[q] = Idle
            BY <3>1, Zenon DEF Quiescent
        <3>3. ~overlap' => Sole'
            BY <2>1, <3>2 DEF Sole
        <3>4. ASSUME ~overlap', NEW q \in Procs, NEW s PROVE ~Runs(todo'[q], s)
            BY <2>1, <3>1, <3>2, <3>4, NothingHolds
        <3>5. QED BY <3>1, <3>2, <3>3, <3>4 DEF ReleasedInv
    <2>3. CASE Writes(todo[p], next)
        <3>1. overlap' = overlap /\ todo[p] # Idle
            BY <2>3 DEF Writes
        <3>2. Ordered(log')
            BY <2>3, OrderedStep
        <3>3. ~overlap => Sole'
            BY <2>1, <3>1 DEF Sole, ReleasedInv
        <3>4. ~overlap =>
                /\ \A q \in Procs, s \in Steps(log') :
                      Runs(todo'[q], s) => EndsApproved(log', s, Len(log'))
                /\ \A k \in DOMAIN ran' : EndsApproved(log', ran'[k].step, ran'[k].at)
                /\ StartsReleased(log')
            BY <1>2, <2>3, ReleasedWrites
        <3>5. QED BY <3>1, <3>2, <3>3, <3>4 DEF ReleasedInv
    <2>4. CASE Moves(todo[p], next)
        <3>1. log' = log /\ overlap' = overlap /\ todo[p] # Idle /\ log \in Seq(Event)
            BY <2>4 DEF Moves, PlansInv, Inv
        <3>2. ~overlap => Sole'
            BY <2>1, <3>1 DEF Sole, ReleasedInv
        <3>3. ASSUME ~overlap, NEW s \in Steps(log), Released(log, s)
              PROVE  EndsApproved(log, s, Len(log))
            BY <3>1, <3>3, ReleasedMeans DEF PlansInv, ReleasedInv
        <3>4. ASSUME ~overlap, NEW q \in Procs, NEW s \in Steps(log), Runs(todo'[q], s)
              PROVE  EndsApproved(log, s, Len(log))
            BY <2>1, <2>4, <3>3, <3>4 DEF Moves, ReleasedInv
        <3>5. ASSUME ~overlap, NEW k \in DOMAIN ran'
              PROVE  EndsApproved(log, ran'[k].step, ran'[k].at)
            <4>1. CASE ran' = ran
                BY <3>5, <4>1 DEF ReleasedInv
            <4>2. CASE \E s \in Steps(log) :
                           Runner(todo[p], s) /\ ran' = Append(ran, [step |-> s, at |-> Len(log)])
                <5>1. PICK s \in Steps(log) :
                           Runner(todo[p], s) /\ ran' = Append(ran, [step |-> s, at |-> Len(log)])
                    BY <4>2
                <5> DEFINE r == [step |-> s, at |-> Len(log)]
                <5>2. 1 \in DOMAIN todo[p]
                    BY <3>1, PlanTyped
                <5>3. Runs(todo[p], s)
                    BY <5>1, <5>2 DEF Runner, Runs
                <5>4. EndsApproved(log, r.step, r.at)
                    BY <3>5, <5>3 DEF ReleasedInv
                <5>5. ran \in Seq(SoundRun(log)) /\ ran' = Append(ran, r)
                    BY <5>1 DEF PlansInv, Inv
                <5> HIDE DEF r
                <5>6. ran'[k] = r \/ (k \in DOMAIN ran /\ ran'[k] = ran[k])
                    BY <3>5, <5>5
                <5>7. QED BY <3>5, <5>4, <5>6 DEF ReleasedInv
            <4>3. QED BY <2>4, <4>1, <4>2 DEF Moves
        <3>6. QED BY <3>1, <3>2, <3>4, <3>5 DEF ReleasedInv
    <2>5. CASE Dies(todo[p], next)
        <3>1. log' = log /\ ran' = ran /\ overlap' = overlap /\ todo[p] # Idle /\ next = Idle
            BY <2>5 DEF Dies
        <3>2. ~overlap => Sole'
            BY <2>1, <3>1 DEF Sole, ReleasedInv
        <3>3. ASSUME ~overlap, NEW q \in Procs, NEW s \in Steps(log), Runs(todo'[q], s)
              PROVE  EndsApproved(log, s, Len(log))
            BY <2>1, <3>1, <3>3, NothingHolds DEF ReleasedInv
        <3>4. QED BY <3>1, <3>2, <3>3 DEF ReleasedInv
    <2>6. QED BY <1>2, <2>2, <2>3, <2>4, <2>5 DEF Form
<1>3. QED BY <1>1, <1>2, StepForms

LEMMA ReleasedHolds == Spec => []ReleasedInv
<1>1. Init /\ PlansInv => ReleasedInv
    <2> SUFFICES ASSUME Init, PlansInv PROVE ReleasedInv
        OBVIOUS
    <2>1. Opening(log) /\ (\A p \in Procs : todo[p] = Idle) /\ ran = <<>>
        BY MissionsAssumption DEF Init
    <2>2. \A i \in DOMAIN log : log[i].type \in {"mission.opened", "mission.step_proposed"}
        BY <2>1 DEF Opening, MissionOpened, StepProposed
    <2>3. Ordered(log)
        BY <2>2 DEF Ordered, StepUpdate
    <2>4. StartsReleased(log)
        BY <2>2 DEF StartsReleased, Positions
    <2>5. Sole /\ \A p \in Procs, s \in Steps(log) : ~Runs(todo[p], s)
        BY <2>1, NothingHolds DEF Sole
    <2>6. DOMAIN ran = {}
        BY <2>1
    <2>7. QED BY <2>3, <2>4, <2>5, <2>6 DEF ReleasedInv
<1>2. PlansInv /\ PlansInv' /\ ReleasedInv /\ [Next]_vars => ReleasedInv'
    BY ReleasedStep
<1>3. QED BY <1>1, <1>2, PlansHold, PTL DEF Spec

(* While commands do not overlap, a step that was completed, failed or     *)
(* blocked is run or started again only after a later approval: for any    *)
(* number of processes, whichever of them die between two calls            *)
(* (mission_steps.py start_step, tool_router.py check_tool_permission).    *)
THEOREM EndedWorkWaitsForApproval == Spec => []RunsReleased
<1>1. PlansInv /\ ReleasedInv => RunsReleased
    <2> SUFFICES ASSUME PlansInv, ReleasedInv, ~overlap
                 PROVE  /\ \A k \in DOMAIN ran : \A e \in Ends(ran[k].step) :
                              e <= ran[k].at => ApprovedWithin(ran[k].step, e, ran[k].at)
                        /\ \A i \in Positions(log, "mission.step_started") : \A e \in Ends(log[i].step) :
                              e <= i => ApprovedWithin(log[i].step, e, i)
        BY DEF RunsReleased
    <2>1. log \in Seq(Event)
        BY DEF PlansInv, Inv
    <2>2. ASSUME NEW s, NEW n \in Nat, EndsApproved(log, s, n), NEW e \in Ends(s), e <= n
          PROVE  ApprovedWithin(s, e, n)
        <3>1. e \in 1..n /\ EndOf(log[e], s)
            BY <2>1, <2>2 DEF Ends, UpdatesOf, EndOf
        <3>2. QED BY <2>2, <3>1 DEF EndsApproved, ApprovedWithin
    <2>3. ASSUME NEW k \in DOMAIN ran PROVE ran[k].at \in Nat
        <3>1. ran[k] \in RunOf(log)
            BY DEF PlansInv, Inv, SoundRun
        <3>2. QED BY <2>1, <3>1 DEF RunOf
    <2>4. \A i \in Positions(log, "mission.step_started") : i \in Nat
        BY <2>1 DEF Positions
    <2>5. QED BY <2>2, <2>3, <2>4 DEF ReleasedInv, StartsReleased
<1>2. QED BY <1>1, PlansHold, ReleasedHolds, PTL

-----------------------------------------------------------------------------
(* Whatever calls for a review gets one.                                   *)

\* A review of x was closed after event i, before event n.
ReviewedBefore(evs, x, i, n) ==
    \E j \in i + 1..n - 1 :
        evs[j].type \in Closing /\ evs[evs[j].task] = TaskOpened(x[1], x[2])

PressureInv ==
    ~killed =>
        \A i \in DOMAIN log : \A x \in PressureOf(log, log[i]) :
            \/ ReviewedBefore(log, x, i, Len(log) + 1)
            \/ OpenFor(log, x)
            \/ \E p \in Procs : Pending(todo[p], x)

LEMMA ReviewGrows ==
    ASSUME NEW evs \in Seq(Event), \A i \in DOMAIN evs : Grounded(evs, evs[i]), NEW e \in Event,
           NEW x, NEW i \in Nat, NEW n \in 0..(Len(evs) + 1), NEW k \in Nat, n <= k,
           ReviewedBefore(evs, x, i, n)
    PROVE  ReviewedBefore(Append(evs, e), x, i, k)
<1> DEFINE new == Append(evs, e)
<1>1. PICK j \in i + 1..n - 1 :
          evs[j].type \in Closing /\ evs[evs[j].task] = TaskOpened(x[1], x[2])
    BY DEF ReviewedBefore
<1>2. j \in 1..Len(evs) /\ j \in i + 1..k - 1 /\ j \in DOMAIN evs
    OBVIOUS
<1>3. evs[j].task \in 1..Len(evs)
    BY <1>1, <1>2 DEF Grounded, Tasks, Positions
<1>4. new[j] = evs[j] /\ new[evs[j].task] = evs[evs[j].task]
    BY <1>2, <1>3, Growth
<1> HIDE DEF new
<1>5. QED BY <1>1, <1>2, <1>4 DEF ReviewedBefore, new

(* An open review stays open, or it is the one that was just closed.       *)
LEMMA OpenStays ==
    ASSUME NEW evs \in Seq(Event), NEW e \in Event, NEW x, OpenFor(evs, x),
           NEW i \in DOMAIN evs
    PROVE  \/ OpenFor(Append(evs, e), x)
           \/ ReviewedBefore(Append(evs, e), x, i, Len(evs) + 2)
<1> DEFINE new == Append(evs, e)
           n == Len(evs)
<1>1. /\ DOMAIN new = 1..(n + 1) /\ DOMAIN evs = 1..n /\ n \in Nat
      /\ new[n + 1] = e /\ \A k \in 1..n : new[k] = evs[k]
    BY Growth
<1>2. PICK t \in OpenTasks(evs) : evs[t] = TaskOpened(x[1], x[2])
    BY DEF OpenFor
<1>3. t \in Tasks(evs) /\ t \in 1..n /\ Closings(evs, t) = {}
    BY <1>1, <1>2 DEF OpenTasks, Tasks, Positions
<1>4. t \in Tasks(new) /\ new[t] = evs[t]
    BY <1>1, <1>3 DEF Tasks, Positions
<1> HIDE DEF new, n
<1>5. CASE e.type \in Closing /\ e.task = t
    <2>1. n + 1 \in i + 1..(n + 2) - 1
        BY <1>1
    <2>2. ReviewedBefore(new, x, i, n + 2)
        BY <1>1, <1>2, <1>4, <1>5, <2>1 DEF ReviewedBefore
    <2>3. QED BY <2>2 DEF new, n
<1>6. CASE ~(e.type \in Closing /\ e.task = t)
    <2>1. Closings(new, t) = {}
        <3>1. ASSUME NEW k \in Closings(new, t) PROVE FALSE
            <4>1. k \in 1..(n + 1) /\ new[k].type \in Closing /\ new[k].task = t
                BY <1>1, <3>1 DEF Closings, Positions, Closing
            <4>2. k \in 1..n
                BY <1>1, <1>6, <4>1
            <4>3. evs[k].type \in Closing /\ evs[k].task = t /\ k \in DOMAIN evs
                BY <1>1, <4>1, <4>2
            <4>4. k \in Closings(evs, t)
                BY <4>3 DEF Closings, Positions, Closing
            <4>5. QED BY <1>3, <4>4
        <3>2. QED BY <3>1
    <2>2. t \in OpenTasks(new)
        BY <1>4, <2>1 DEF OpenTasks
    <2>3. QED BY <1>2, <1>4, <2>2 DEF OpenFor, new
<1>7. QED BY <1>5, <1>6

(* A task is open when it has just been written.                           *)
LEMMA OpenAtFirst ==
    ASSUME NEW evs \in Seq(Event), \A i \in DOMAIN evs : Grounded(evs, evs[i]), NEW e \in Event,
           NEW x, e = TaskOpened(x[1], x[2])
    PROVE  OpenFor(Append(evs, e), x)
<1> DEFINE new == Append(evs, e)
           n == Len(evs)
<1>1. /\ DOMAIN new = 1..(n + 1) /\ DOMAIN evs = 1..n /\ n \in Nat
      /\ new[n + 1] = e /\ \A k \in 1..n : new[k] = evs[k]
    BY Growth
<1>2. e.type = "reflection.task_opened" /\ e.type \notin Closing
    BY DEF TaskOpened, Closing
<1> HIDE DEF new, n
<1>3. n + 1 \in Tasks(new)
    BY <1>1, <1>2 DEF Tasks, Positions
<1>4. ASSUME NEW k \in Closings(new, n + 1) PROVE FALSE
    <2>1. k \in 1..(n + 1) /\ new[k].type \in Closing /\ new[k].task = n + 1
        BY <1>1, <1>4 DEF Closings, Positions, Closing
    <2>2. k \in 1..n
        BY <1>1, <1>2, <2>1
    <2>3. evs[k].task \in 1..n
        BY <1>1, <2>1, <2>2 DEF Grounded, Tasks, Positions
    <2>4. QED BY <1>1, <2>1, <2>2, <2>3
<1>5. n + 1 \in OpenTasks(new)
    BY <1>3, <1>4 DEF OpenTasks
<1>6. QED BY <1>1, <1>5 DEF OpenFor, new

(* The reviews under way when an event is written are under way after it,  *)
(* and so are those the event calls for.                                   *)
LEMMA PressureWrites ==
    ASSUME PlansInv, PressureInv, ~killed, NEW p \in Procs, NEW next,
           todo' = [todo EXCEPT ![p] = next], Writes(todo[p], next),
           NEW i \in DOMAIN log', NEW x \in PressureOf(log', log'[i])
    PROVE  \/ ReviewedBefore(log', x, i, Len(log') + 1)
           \/ OpenFor(log', x)
           \/ \E q \in Procs : Pending(todo'[q], x)
<1> DEFINE e == todo[p][1].event
           me == todo[p]
           new == Append(log, e)
           n == Len(log)
<1>1. /\ e \in Event /\ log' = new /\ Grounded(log, e) /\ log \in Seq(Event)
      /\ me[1].do = "append" /\ me \in Seq(CallOf(log)) /\ me # <<>> /\ next = Tail(me)
      /\ \/ Writing(log, me)
         \/ Quiet(log, me[1])
    BY Written
<1>2. \A q \in Procs : todo'[q] = IF q = p THEN next ELSE todo[q]
    BY DEF PlansInv, Inv
<1>3. \A j \in DOMAIN log : Grounded(log, log[j])
    BY DEF PlansInv
<1> HIDE DEF me
<1>4. \A k \in DOMAIN me : k # 1 => k - 1 \in DOMAIN next /\ next[k - 1] = me[k]
    BY <1>1, TailIs
<1>5. me[1].event = e
    BY DEF me
<1> HIDE DEF e
<1>6. /\ DOMAIN new = 1..(n + 1) /\ DOMAIN log = 1..n /\ n \in Nat /\ Len(new) = n + 1
      /\ new[n + 1] = e /\ \A k \in 1..n : new[k] = log[k]
    BY <1>1, Growth
<1> HIDE DEF new, n
<1>7. CASE i = n + 1
    <2>1. x \in PressureOf(log, e)
        <3>1. PressureOf(new, e) = PressureOf(log, e)
            BY <1>1, GroundedGrows DEF new
        <3>2. QED BY <1>1, <1>6, <1>7, <3>1
    <2>2. ~Quiet(log, me[1])
        <3>1. ASSUME Quiet(log, me[1]) PROVE FALSE
            <4>1. e.type \in QuietType
                BY <1>1, <1>5, <3>1 DEF Quiet
            <4>2. e.type \notin {"mission.item_added", "mission.step_failed", "mission.step_blocked"}
                BY <4>1 DEF QuietType
            <4>3. QED BY <2>1, <4>2 DEF PressureOf
        <3>2. QED BY <3>1
    <2>3. 1 \in DOMAIN me
        BY <1>1, TailIs
    <2>4. PICK j \in DOMAIN me : j > 1 /\ Opens(me[j], x)
        BY <1>1, <1>5, <2>1, <2>2, <2>3 DEF Writing
    <2>5. j # 1
        BY <2>4
    <2>6. Pending(next, x)
        BY <1>4, <2>4, <2>5 DEF Pending
    <2>7. QED BY <1>2, <2>6
<1>8. CASE i # n + 1
    <2>1. i \in 1..n /\ i \in DOMAIN log /\ i \in Nat /\ new[i] = log[i]
        BY <1>1, <1>6, <1>8
    <2>2. x \in PressureOf(log, log[i])
        <3>1. PressureOf(new, log[i]) = PressureOf(log, log[i])
            BY <1>1, <1>3, <2>1, GroundedGrows DEF new
        <3>2. QED BY <1>1, <2>1, <3>1
    <2>3. \/ ReviewedBefore(log, x, i, Len(log) + 1)
          \/ OpenFor(log, x)
          \/ \E q \in Procs : Pending(todo[q], x)
        BY <2>1, <2>2 DEF PressureInv
    <2>4. CASE ReviewedBefore(log, x, i, Len(log) + 1)
        <3>1. n + 1 \in 0..(Len(log) + 1) /\ n + 1 <= n + 2 /\ n + 2 \in Nat /\ n = Len(log)
            BY <1>6 DEF n
        <3>2. ReviewedBefore(new, x, i, n + 2)
            BY <1>1, <1>3, <2>1, <2>4, <3>1, ReviewGrows DEF new
        <3>3. Len(new) + 1 = n + 2
            BY <1>6
        <3>4. QED BY <1>1, <3>2, <3>3
    <2>5. CASE OpenFor(log, x)
        <3>1. OpenFor(new, x) \/ ReviewedBefore(new, x, i, n + 2)
            BY <1>1, <2>1, <2>5, OpenStays DEF new, n
        <3>2. Len(new) + 1 = n + 2
            BY <1>6
        <3>3. QED BY <1>1, <3>1, <3>2
    <2>6. ASSUME NEW q \in Procs, Pending(todo[q], x)
          PROVE  OpenFor(new, x) \/ \E r \in Procs : Pending(todo'[r], x)
        <3>1. CASE q # p
            BY <1>2, <2>6, <3>1
        <3>2. CASE q = p
            <4>1. PICK k \in DOMAIN me :
                     \/ Opens(me[k], x)
                     \/ me[k].do = "append" /\ me[k].event = TaskOpened(x[1], x[2])
                BY <2>6, <3>2 DEF Pending, me
            <4>2. CASE k # 1
                <5>1. Pending(next, x)
                    BY <1>4, <4>1, <4>2 DEF Pending
                <5>2. QED BY <1>2, <5>1
            <4>3. CASE k = 1
                <5>1. e = TaskOpened(x[1], x[2])
                    BY <1>1, <1>5, <4>1, <4>3 DEF Opens
                <5>2. QED BY <1>1, <1>3, <5>1, OpenAtFirst DEF new
            <4>4. QED BY <4>2, <4>3
        <3>3. QED BY <3>1, <3>2
    <2>7. QED BY <1>1, <2>3, <2>4, <2>5, <2>6
<1>9. QED BY <1>7, <1>8

LEMMA PressureStep ==
    ASSUME PlansInv, PressureInv, [Next]_vars
    PROVE  PressureInv'
<1>1. CASE UNCHANGED vars
    BY <1>1 DEF vars, PressureInv
<1>2. ASSUME NEW p \in Procs, NEW next, todo' = [todo EXCEPT ![p] = next], Form(todo[p], next)
      PROVE  PressureInv'
    <2>1. \A q \in Procs : todo'[q] = IF q = p THEN next ELSE todo[q]
        BY <1>2 DEF PlansInv, Inv
    <2>2. ASSUME log' = log, killed' = killed,
                 \A x : Pending(todo[p], x) => Pending(next, x) \/ OpenFor(log, x)
          PROVE  PressureInv'
        <3>1. ASSUME NEW x, NEW q \in Procs, Pending(todo[q], x)
              PROVE  OpenFor(log, x) \/ \E r \in Procs : Pending(todo'[r], x)
            BY <2>1, <2>2, <3>1
        <3>2. QED BY <2>2, <3>1 DEF PressureInv
    <2>3. CASE Starts(todo[p], next)
        BY <2>2, <2>3, NothingHolds DEF Starts
    <2>4. CASE Writes(todo[p], next)
        <3>1. killed' = killed
            BY <2>4 DEF Writes
        <3>2. QED BY <1>2, <2>4, <3>1, PressureWrites DEF PressureInv
    <2>5. CASE Moves(todo[p], next)
        BY <2>2, <2>5 DEF Moves
    <2>6. CASE Dies(todo[p], next)
        BY <2>6 DEF Dies, PressureInv
    <2>7. QED BY <1>2, <2>3, <2>4, <2>5, <2>6 DEF Form
<1>3. QED BY <1>1, <1>2, StepForms

LEMMA OpeningPressesNothing ==
    ASSUME Init
    PROVE  \A i \in DOMAIN log : log[i].type \in {"mission.opened", "mission.step_proposed"}
                                 /\ PressureOf(log, log[i]) = {}
<1>1. Opening(log)
    BY MissionsAssumption DEF Init
<1>2. \A i \in DOMAIN log : log[i].type \in {"mission.opened", "mission.step_proposed"}
    BY <1>1 DEF Opening, MissionOpened, StepProposed
<1>3. \A type \in {"mission.opened", "mission.step_proposed"} :
          type \notin StepUpdate \cup Closing \cup {"mission.item_added"}
    BY DEF StepUpdate, Closing
<1>4. QED BY <1>2, <1>3, HarmlessEvent

LEMMA PressureHolds == Spec => []PressureInv
<1>1. Init => PressureInv
    BY OpeningPressesNothing DEF PressureInv
<1>2. PlansInv /\ PressureInv /\ [Next]_vars => PressureInv'
    BY PressureStep
<1>3. QED BY <1>1, <1>2, PlansHold, PTL DEF Spec

-----------------------------------------------------------------------------
(* What the reviews of a mission say.                                      *)

AllReviewedIn(evs, m, n) ==
    \A i \in DOMAIN evs : i < n =>
        \A x \in PressureOf(evs, evs[i]) : x[1] = m => ReviewedBefore(evs, x, i, n)

LEMMA ReviewsMean ==
    ASSUME PlansInv, NEW m, NEW n, AllReviewedIn(log, m, n)
    PROVE  AllReviewed(m, n)
<1>1. ASSUME NEW i \in Pressure(log), i < n, log[i].mission = m
      PROVE  ReviewedWithin(m, log[i].kind, i, n)
    <2> DEFINE x == <<m, log[i].kind>>
    <2>1. i \in DOMAIN log /\ log[i].type = "mission.item_added"
          /\ Pressing(log[i].kind, log[i].weak)
        BY DEF Pressure, Positions
    <2>2. x \in PressureOf(log, log[i]) /\ x[1] = m /\ x[2] = log[i].kind
        BY <1>1, <2>1 DEF PressureOf
    <2>3. ReviewedBefore(log, x, i, n)
        BY <1>1, <2>1, <2>2 DEF AllReviewedIn
    <2> HIDE DEF x
    <2>4. QED BY <2>2, <2>3 DEF ReviewedBefore, ReviewedWithin, Closing
<1>2. ASSUME NEW i \in Failures(log), i < n, log[log[i].step].mission = m
      PROVE  ReviewedWithin(m, "outcome", i, n)
    <2> DEFINE x == <<m, "outcome">>
    <2>1. i \in DOMAIN log /\ log[i].type \in {"mission.step_failed", "mission.step_blocked"}
        BY DEF Failures, Positions
    <2>2. x \in PressureOf(log, log[i]) /\ x[1] = m /\ x[2] = "outcome"
        BY <1>2, <2>1 DEF PressureOf
    <2>3. ReviewedBefore(log, x, i, n)
        BY <1>2, <2>1, <2>2 DEF AllReviewedIn
    <2> HIDE DEF x
    <2>4. QED BY <2>2, <2>3 DEF ReviewedBefore, ReviewedWithin, Closing
<1>3. QED BY <1>1, <1>2 DEF AllReviewed

(* With no review open and none to come, all are closed.                   *)
LEMMA NothingOpen ==
    ASSUME PlansInv, PressureInv, ~killed, NEW m, ~Blocked(log, m),
           \A p \in Procs : \A x : ~Pending(todo[p], x)
    PROVE  AllReviewedIn(log, m, Len(log) + 1)
<1>1. ASSUME NEW x, x[1] = m, OpenFor(log, x) PROVE FALSE
    <2>1. PICK t \in OpenTasks(log) : log[t] = TaskOpened(x[1], x[2])
        BY <1>1 DEF OpenFor
    <2>2. log[t].mission = m
        BY <1>1, <2>1 DEF TaskOpened
    <2>3. t \in OpenMissionTasks(log, m)
        BY <2>1, <2>2 DEF OpenMissionTasks
    <2>4. QED BY <2>3 DEF Blocked
<1>2. QED BY <1>1 DEF AllReviewedIn, PressureInv

(* Between commands a mission is ready to advance only when a review of    *)
(* every failed or blocked step, every risk and every weak item has been   *)
(* closed since it appeared: for any number of processes, however their    *)
(* commands overlap (mission_flow.py mission_flow_from_events,             *)
(* reflection_queue.py open_tasks_from_reflection).                        *)
THEOREM ReadyMissionsAreReviewed == Spec => []PressureIsReviewed
<1>1. PlansInv /\ PressureInv => PressureIsReviewed
    <2> SUFFICES ASSUME PlansInv, PressureInv, Quiescent, ~killed,
                        NEW m \in Missions(log), mission_flow(log, m).ready
                 PROVE  AllReviewed(m, Len(log) + 1)
        BY DEF PressureIsReviewed
    <2>1. ~Blocked(log, m)
        BY FlowFacts
    <2>2. \A p \in Procs : \A x : ~Pending(todo[p], x)
        BY NothingHolds DEF Quiescent
    <2>3. QED BY <2>1, <2>2, NothingOpen, ReviewsMean
<1>2. QED BY <1>1, PlansHold, PressureHolds, PTL

-----------------------------------------------------------------------------
(* The autonomous loop waits for reviews.                                  *)

Awaited(evs) ==
    \A i \in Positions(evs, "mission.autonomy_recommended") :
        evs[i].propose /\ StatusOfMission(SubSeq(evs, 1, i - 1), evs[i].mission) # "completed"
        => AllReviewedIn(evs, evs[i].mission, i)

AutonomyInv ==
    ~(overlap \/ killed) =>
        /\ Awaited(log)
        /\ \A p \in Procs : \A m :
              Proposing(todo[p], m) /\ StatusOfMission(log, m) # "completed"
              => AllReviewedIn(log, m, Len(log) + 1)

LEMMA AllReviewedGrows ==
    ASSUME NEW evs \in Seq(Event), \A i \in DOMAIN evs : Grounded(evs, evs[i]), NEW e \in Event,
           NEW m, NEW n \in 0..(Len(evs) + 1), AllReviewedIn(evs, m, n)
    PROVE  AllReviewedIn(Append(evs, e), m, n)
<1> DEFINE new == Append(evs, e)
<1>1. ASSUME NEW i \in DOMAIN new, i < n, NEW x \in PressureOf(new, new[i]), x[1] = m
      PROVE  ReviewedBefore(new, x, i, n)
    <2>1. i \in 1..Len(evs) /\ i \in DOMAIN evs /\ new[i] = evs[i] /\ i \in Nat
        BY <1>1, Growth
    <2>2. PressureOf(new, evs[i]) = PressureOf(evs, evs[i])
        BY <2>1, GroundedGrows
    <2>3. ReviewedBefore(evs, x, i, n)
        BY <1>1, <2>1, <2>2 DEF AllReviewedIn
    <2>4. n \in Nat /\ n <= n
        OBVIOUS
    <2>5. QED BY <2>1, <2>3, <2>4, ReviewGrows
<1> HIDE DEF new
<1>2. QED BY <1>1 DEF AllReviewedIn, new

LEMMA HistoryStays ==
    ASSUME NEW evs \in Seq(Event), NEW e \in Event, NEW i \in 1..(Len(evs) + 1)
    PROVE  /\ SubSeq(Append(evs, e), 1, i - 1) = SubSeq(evs, 1, i - 1)
           /\ i = Len(evs) + 1 => SubSeq(evs, 1, i - 1) = evs
OBVIOUS

LEMMA RecommendedFields ==
    ASSUME NEW e \in Event, e.type = "mission.autonomy_recommended"
    PROVE  e = Recommended(e.mission, e.propose) /\ e.propose \in BOOLEAN
BY DEF Event, StepUpdate, MissionOpened, EvidenceAdded, Recommended

(* What is left after writing an event holds no recommendation.            *)
LEMMA WrittenProposes ==
    ASSUME PlansInv, NEW p \in Procs, NEW next, Writes(todo[p], next), NEW m
    PROVE  ~Proposing(next, m)
<1> DEFINE me == todo[p]
<1>1. /\ me \in Seq(CallOf(log)) /\ me # <<>> /\ next = Tail(me)
      /\ \/ Plain(log, next)
         \/ next[1].do = "append" => next[1].event.type \notin FirstOnly
    BY Written
<1> HIDE DEF me
<1>2. next \in Seq(CallOf(log))
    BY <1>1
<1>3. Recommended(m, TRUE).type \in FirstOnly
    BY DEF Recommended, FirstOnly
<1>4. QED BY <1>1, <1>2, <1>3, PlainHolds DEF Proposing

LEMMA AwaitedWrites ==
    ASSUME PlansInv, AutonomyInv, ~(overlap \/ killed), NEW p \in Procs, NEW next,
           Writes(todo[p], next)
    PROVE  Awaited(log')
<1> DEFINE e == todo[p][1].event
           me == todo[p]
           new == Append(log, e)
           n == Len(log)
<1>1. /\ e \in Event /\ log' = new /\ log \in Seq(Event)
      /\ me[1].do = "append" /\ me # <<>>
    BY Written
<1>2. \A j \in DOMAIN log : Grounded(log, log[j])
    BY DEF PlansInv
<1>3. \A m : e = Recommended(m, TRUE) => Proposing(me, m)
    BY <1>1 DEF Proposing
<1> HIDE DEF e, me
<1>4. /\ DOMAIN new = 1..(n + 1) /\ DOMAIN log = 1..n /\ n \in Nat
      /\ new[n + 1] = e /\ \A k \in 1..n : new[k] = log[k]
    BY <1>1, Growth
<1>5. ASSUME NEW m, NEW k \in 0..(n + 1), AllReviewedIn(log, m, k)
      PROVE  AllReviewedIn(new, m, k)
    BY <1>1, <1>2, <1>5, AllReviewedGrows
<1>6. \A i \in 1..(n + 1) :
          /\ SubSeq(new, 1, i - 1) = SubSeq(log, 1, i - 1)
          /\ i = n + 1 => SubSeq(log, 1, i - 1) = log
    BY <1>1, HistoryStays
<1> HIDE DEF new, n
<1>7. ASSUME NEW i \in Positions(new, "mission.autonomy_recommended"), new[i].propose,
             StatusOfMission(SubSeq(new, 1, i - 1), new[i].mission) # "completed"
      PROVE  AllReviewedIn(new, new[i].mission, i)
    <2>1. i \in 1..(n + 1) /\ new[i].type = "mission.autonomy_recommended"
          /\ SubSeq(new, 1, i - 1) = SubSeq(log, 1, i - 1)
        BY <1>4, <1>6 DEF Positions
    <2>2. CASE i = n + 1
        <3>1. SubSeq(new, 1, i - 1) = log /\ new[i] = e
            BY <1>4, <1>6, <2>1, <2>2
        <3>2. e = Recommended(e.mission, e.propose) /\ e.propose \in BOOLEAN
            BY <1>1, <2>1, <3>1, RecommendedFields
        <3>3. e.propose = TRUE
            BY <1>7, <3>1, <3>2
        <3>4. Proposing(me, e.mission)
            BY <1>3, <3>2, <3>3
        <3>5. AllReviewedIn(log, e.mission, Len(log) + 1)
            BY <1>7, <3>1, <3>4 DEF AutonomyInv, me
        <3>6. n + 1 \in 0..(n + 1) /\ Len(log) = n
            BY <1>4 DEF n
        <3>7. QED BY <1>5, <2>2, <3>1, <3>5, <3>6
    <2>3. CASE i # n + 1
        <3>1. i \in 1..n /\ i \in 0..(n + 1)
            BY <1>4, <2>1, <2>3
        <3>2. new[i] = log[i] /\ i \in Positions(log, "mission.autonomy_recommended")
            BY <1>4, <2>1, <3>1 DEF Positions
        <3>3. AllReviewedIn(log, log[i].mission, i)
            BY <1>7, <2>1, <3>2 DEF AutonomyInv, Awaited
        <3>4. QED BY <1>5, <3>1, <3>2, <3>3
    <2>4. QED BY <2>2, <2>3
<1>8. QED BY <1>1, <1>7 DEF Awaited

LEMMA AutonomyStep ==
    ASSUME PlansInv, PlansInv', ReleasedInv, ReleasedInv', PressureInv, AutonomyInv, [Next]_vars
    PROVE  AutonomyInv'
<1>1. CASE UNCHANGED vars
    BY <1>1 DEF vars, AutonomyInv
<1>2. ASSUME NEW p \in Procs, NEW next, todo' = [todo EXCEPT ![p] = next], Form(todo[p], next),
             ~(overlap' \/ killed')
      PROVE  /\ Awaited(log')
             /\ \A q \in Procs : \A m :
                   Proposing(todo'[q], m) /\ StatusOfMission(log', m) # "completed"
                   => AllReviewedIn(log', m, Len(log') + 1)
    <2>1. \A q \in Procs : todo'[q] = IF q = p THEN next ELSE todo[q]
        BY <1>2 DEF PlansInv, Inv
    <2>2. ~(overlap \/ killed)
        BY <1>2 DEF Form, Starts, Writes, Moves, Dies
    <2>3. \A q, r \in Procs : todo[q] # Idle /\ todo[r] # Idle => q = r
        BY <2>2 DEF ReleasedInv, Sole
    <2>4. ASSUME log' = log, \A m : ~Proposing(next, m)
          PROVE  /\ Awaited(log')
                 /\ \A q \in Procs : \A m :
                       Proposing(todo'[q], m) /\ StatusOfMission(log', m) # "completed"
                       => AllReviewedIn(log', m, Len(log') + 1)
        BY <2>1, <2>2, <2>4 DEF AutonomyInv
    <2>5. CASE Starts(todo[p], next)
        BY <2>4, <2>5 DEF Starts
    <2>6. CASE Writes(todo[p], next)
        <3>1. Awaited(log')
            BY <2>2, <2>6, AwaitedWrites
        <3>2. todo[p] # Idle
            BY <2>6 DEF Writes
        <3>3. ASSUME NEW q \in Procs, NEW m, Proposing(todo'[q], m) PROVE FALSE
            <4>1. CASE q = p
                BY <2>1, <2>6, <3>3, <4>1, WrittenProposes
            <4>2. CASE q # p
                BY <2>1, <2>3, <3>2, <3>3, <4>2, NothingHolds
            <4>3. QED BY <4>1, <4>2
        <3>4. QED BY <3>1, <3>3
    <2>7. CASE Moves(todo[p], next)
        <3>1. log' = log /\ todo[p] # Idle
            BY <2>7 DEF Moves
        <3>2. ASSUME NEW q \in Procs, NEW m, Proposing(todo'[q], m),
                     StatusOfMission(log, m) # "completed"
              PROVE  AllReviewedIn(log, m, Len(log) + 1)
            <4>1. q = p
                BY <2>1, <2>3, <3>1, <3>2, NothingHolds
            <4>2. Unblocked(log, m) /\ \A x : ~Pending(todo[p], x)
                BY <2>1, <2>7, <3>2, <4>1 DEF Moves
            <4>3. ~Blocked(log, m)
                BY <3>2, <4>2 DEF Unblocked
            <4>4. \A r \in Procs : \A x : ~Pending(todo[r], x)
                BY <2>3, <3>1, <4>2, NothingHolds
            <4>5. QED BY <2>2, <4>3, <4>4, NothingOpen
        <3>3. QED BY <2>2, <3>1, <3>2 DEF AutonomyInv
    <2>8. CASE Dies(todo[p], next)
        BY <1>2, <2>8 DEF Dies
    <2>9. QED BY <1>2, <2>5, <2>6, <2>7, <2>8 DEF Form
<1>3. ASSUME NEW p \in Procs, NEW next, todo' = [todo EXCEPT ![p] = next], Form(todo[p], next)
      PROVE  AutonomyInv'
    BY <1>2, <1>3 DEF AutonomyInv
<1>4. QED BY <1>1, <1>3, StepForms

LEMMA AutonomyHolds == Spec => []AutonomyInv
<1>1. Init => AutonomyInv
    <2> SUFFICES ASSUME Init PROVE AutonomyInv
        OBVIOUS
    <2>1. Positions(log, "mission.autonomy_recommended") = {}
        BY OpeningPressesNothing DEF Positions
    <2>2. \A p \in Procs : todo[p] = Idle
        BY DEF Init
    <2>3. QED BY <2>1, <2>2, NothingHolds DEF AutonomyInv, Awaited
<1>2. PlansInv /\ PlansInv' /\ ReleasedInv /\ ReleasedInv' /\ PressureInv /\ AutonomyInv
      /\ [Next]_vars => AutonomyInv'
    BY AutonomyStep
<1>3. QED BY <1>1, <1>2, PlansHold, ReleasedHolds, PressureHolds, PTL DEF Spec

(* While commands do not overlap and none is killed, the autonomous loop   *)
(* proposes new work for a mission under way only when every failure,      *)
(* risk and weak item of it has been reviewed (mission_autonomy.py         *)
(* recommend_next_mission_step).                                           *)
THEOREM AutonomyWaitsForReviews == Spec => []AutonomyAwaitsReview
<1>1. PlansInv /\ AutonomyInv => AutonomyAwaitsReview
    <2> SUFFICES ASSUME PlansInv, AutonomyInv, ~(overlap \/ killed),
                        NEW i \in Positions(log, "mission.autonomy_recommended"),
                        StatusOfMission(SubSeq(log, 1, i - 1), log[i].mission) # "completed",
                        log[i].propose
                 PROVE  AllReviewed(log[i].mission, i)
        BY DEF AutonomyAwaitsReview
    <2>1. AllReviewedIn(log, log[i].mission, i)
        BY DEF AutonomyInv, Awaited
    <2>2. QED BY <2>1, ReviewsMean
<1>2. QED BY <1>1, PlansHold, AutonomyHolds, PTL
=============================================================================
