------------------------------ MODULE Handlers ------------------------------
(***************************************************************************)
(* Handlers over one ledger: command-line processes and the threads of the *)
(* live chat server.  A function of the code reads the ledger without a    *)
(* lock, checks, and appends later, so a handler is the list of calls it   *)
(* still has to make; a function that calls others puts their calls at the *)
(* front of the list.  A ValueError ends the handler.  The modules that    *)
(* extend this one say what the events, the calls and the commands are.    *)
(***************************************************************************)
EXTENDS Integers, Sequences, SequencesExt

CONSTANTS
    Procs,           \* the processes and threads
    StartLogs,       \* the ledgers the work starts from
    Faults,          \* of "crash"
    Limit,           \* bound: a command c is among the first Limit[c] started
    MaxOverlapping   \* bound: commands started before or while two overlap

ASSUME HandlersAssumption ==
    /\ \A c \in DOMAIN Limit : Limit[c] \in Nat
    /\ MaxOverlapping \in Nat
    /\ Faults \subseteq {"crash"}

VARIABLES
    log,       \* the events of the ledger
    todo,      \* per process, the calls its handler has yet to make
    started,   \* number of commands started
    overlap,   \* two handlers have been under way at the same time
    killed     \* a handler has been killed

handlers == <<log, todo, started, overlap, killed>>

Idle == <<>>
Quiescent == \A p \in Procs : todo[p] = Idle

\* Calls that every handler may make.  The record that a Creating call
\* appends is known to the next call: own becomes its position.
Appending(e)        == [do |-> "append", event |-> e]
Creating(e, then)   == [do |-> "create", event |-> e, then |-> then]

\* The members of a set by increasing key; and the calls for each of them.
\* (Written so that a proof sees how long they are.)
Ranked(S, key(_)) ==
    [k \in 1..Cardinality(S) |->
        CHOOSE x \in S : Cardinality({y \in S : key(y) < key(x)}) = k - 1]
InOrder(S) == Ranked(S, LAMBDA x : x)
CallEach(n, call(_)) == [k \in 1..n |-> call(k)]

Called(p, f) == todo[p] # Idle /\ Head(todo[p]).do = f
Call(p) == Head(todo[p])

MayBegin(p) ==
    /\ todo[p] = Idle
    /\ overlap \/ ~Quiescent => started < MaxOverlapping

BeginCalls(p, calls) ==
    /\ MayBegin(p)
    /\ started' = started + 1
    /\ todo' = [todo EXCEPT ![p] = calls]
    /\ overlap' = (overlap \/ ~Quiescent)
    /\ UNCHANGED <<log, killed>>

Begin(p, command, calls) ==
    /\ started < Limit[command]
    /\ BeginCalls(p, calls)

(* A call that has read the ledger makes the calls next; or it raises, and *)
(* the handler is over.                                                    *)
Return(p, allowed, next) ==
    /\ todo' = [todo EXCEPT ![p] = IF allowed THEN next \o Tail(@) ELSE Idle]
    /\ UNCHANGED <<log, started, overlap, killed>>

AppendEvent(p) ==
    /\ Called(p, "append")
    /\ log' = Append(log, Call(p).event)
    /\ todo' = [todo EXCEPT ![p] = Tail(@)]
    /\ UNCHANGED <<started, overlap, killed>>

CreateRecord(p) ==
    /\ Called(p, "create")
    /\ log' = Append(log, Call(p).event)
    /\ todo' = [todo EXCEPT ![p] = <<[Call(p).then EXCEPT !.own = Len(log) + 1]>> \o Tail(@)]
    /\ UNCHANGED <<started, overlap, killed>>

(* The process is killed between two calls.                                *)
Crash(p) ==
    /\ "crash" \in Faults
    /\ todo[p] # Idle
    /\ todo' = [todo EXCEPT ![p] = Idle]
    /\ killed' = TRUE
    /\ UNCHANGED <<log, started, overlap>>

HandlersInit ==
    /\ log \in StartLogs
    /\ todo = [p \in Procs |-> Idle]
    /\ started = 0
    /\ overlap = FALSE /\ killed = FALSE

HandlersTypeOK ==
    /\ started \in Nat
    /\ overlap \in BOOLEAN /\ killed \in BOOLEAN
    /\ DOMAIN todo = Procs

\* The events before position i.
Before(i) == SubSeq(log, 1, i - 1)
=============================================================================
