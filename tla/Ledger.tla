------------------------------- MODULE Ledger -------------------------------
(***************************************************************************)
(* pca/ledger.py: the JSONL continuity ledger on disk.                     *)
(*                                                                         *)
(* Writers (the CLI, the chat shell, the live chat server: one operating-  *)
(* system process each) append a batch of events under an exclusive flock: *)
(* append is a batch of one, append_many and record_runtime_signal are     *)
(* longer batches.  For every event of the batch the writer re-reads the   *)
(* file for the last hash, writes one line and fsyncs.  Readers take no    *)
(* lock.  Writers may be killed, a write may come back short (disk full),  *)
(* and the machine may lose power.                                         *)
(*                                                                         *)
(* A hash is the event's identity: SHA-256 is taken to be injective, so    *)
(* the hash of the n-th event ever created is the number n.  The one fact  *)
(* about a line's text that matters is whether json.loads accepts it.      *)
(***************************************************************************)
EXTENDS Integers, Sequences

CONSTANTS
    Writers,      \* processes that append
    Readers,      \* processes that call events() without the lock
    NoWriter,     \* the lock is free
    EventType,    \* the event types written
    Batches,      \* the batches a caller may append: sequences of event types
    Faults,       \* which of "crash", "short", "power" the environment inflicts
    MaxEvents     \* bound: no batch starts once this many events were created

ASSUME LedgerAssumption ==
    /\ NoWriter \notin Writers
    /\ Batches \subseteq Seq(EventType) \ {<<>>}
    /\ Faults \subseteq {"crash", "short", "power"}

VARIABLES
    file,     \* the newline-terminated lines
    tail,     \* bytes after the last newline: none, a cut-off line, or a line
              \* complete but for its newline ("bare")
    synced,   \* how many lines fsync has made durable
    holder,   \* who holds the flock
    at,       \* where each writer is in append / append_many
    todo,     \* the event types each writer has yet to append
    head,     \* the last_hash() each writer read
    got,      \* hashes of the events written so far in the batch
    acked,    \* hashes of the events whose append call has returned
    minted,   \* number of events created so far
    view      \* what each reader's last events() returned

vars == <<file, tail, synced, holder, at, todo, head, got, acked, minted, view>>

disk   == <<file, tail, synced>>
caller == <<todo, head, got>>

GENESIS_HASH == 0

(* A line is whole when json.loads accepts it.  Two events that share a    *)
(* line, because the first was left without its newline, are not.          *)
ContinuityEvent ==
    [hash : Nat \ {0}, prev : Nat, type : EventType, whole : BOOLEAN]

NoTail == [form |-> "none"]
TailForm == {NoTail} \cup [form : {"cut", "bare"}, line : ContinuityEvent]

Critical == {"head", "write", "writing", "sync", "unlock"}

-----------------------------------------------------------------------------
(* Reading the file.                                                       *)

(* events() parses every non-empty line and raises on the first bad one.   *)
Readable ==
    /\ tail.form # "cut"
    /\ \A i \in 1..Len(file) : file[i].whole

(* splitlines() also yields a last line that lacks its newline.            *)
Events == IF tail.form = "bare" THEN Append(file, tail.line) ELSE file

last_hash(evs) == IF evs = <<>> THEN GENESIS_HASH ELSE evs[Len(evs)].hash

(* The hash an event at position i has to name.                            *)
HashBefore(evs, i) == IF i = 1 THEN GENESIS_HASH ELSE evs[i - 1].hash

verify_chain(evs) ==
    \A i \in 1..Len(evs) : evs[i].prev = HashBefore(evs, i)

-----------------------------------------------------------------------------

Init ==
    /\ file = <<>> /\ tail = NoTail /\ synced = 0
    /\ holder = NoWriter
    /\ at = [w \in Writers |-> "idle"]
    /\ todo = [w \in Writers |-> <<>>]
    /\ head = [w \in Writers |-> GENESIS_HASH]
    /\ got = [w \in Writers |-> {}]
    /\ acked = {} /\ minted = 0
    /\ view = [r \in Readers |-> <<>>]

(* A caller enters append, append_many or record_runtime_signal.           *)
Call(w, batch) ==
    /\ at[w] = "idle"
    /\ minted < MaxEvents
    /\ at' = [at EXCEPT ![w] = "waiting"]
    /\ todo' = [todo EXCEPT ![w] = batch]
    /\ got' = [got EXCEPT ![w] = {}]
    /\ UNCHANGED <<disk, holder, head, acked, minted, view>>

(* flock(LOCK_EX) blocks until the lock is free.                           *)
Lock(w) ==
    /\ at[w] = "waiting"
    /\ holder = NoWriter
    /\ holder' = w
    /\ at' = [at EXCEPT ![w] = "head"]
    /\ UNCHANGED <<disk, caller, acked, minted, view>>

(* Mutant: last_hash skips the lines it cannot parse.                      *)
ReadHeadLenient(w) ==
    /\ at[w] = "head"
    /\ head' = [head EXCEPT ![w] = last_hash(SelectSeq(Events, LAMBDA e : e.whole))]
    /\ at' = [at EXCEPT ![w] = "write"]
    /\ UNCHANGED <<disk, holder, todo, got, acked, minted, view>>

(* last_hash() parses the whole file; if a line does not parse the append  *)
(* raises and the with-block gives the lock back.                          *)
ReadHead(w) ==
    /\ at[w] = "head"
    /\ Readable
    /\ head' = [head EXCEPT ![w] = last_hash(Events)]
    /\ at' = [at EXCEPT ![w] = "write"]
    /\ UNCHANGED <<disk, holder, todo, got, acked, minted, view>>

Raise(w) ==
    /\ holder' = NoWriter
    /\ at' = [at EXCEPT ![w] = "idle"]
    /\ todo' = [todo EXCEPT ![w] = <<>>]
    /\ got' = [got EXCEPT ![w] = {}]
    /\ UNCHANGED <<disk, head, acked, minted, view>>

ReadHeadRaises(w) == at[w] = "head" /\ ~Readable /\ Raise(w)

(* Mutant: create() returns the event without with_hash, its hash empty.   *)
WriteUnhashed(w) ==
    /\ at[w] = "write"
    /\ minted' = minted + 1
    /\ LET event == [hash |-> 0, prev |-> head[w],
                     type |-> Head(todo[w]), whole |-> tail.form = "none"]
       IN  \E form \in IF event.whole THEN {"cut", "bare"} ELSE {"cut"} :
               tail' = [form |-> form, line |-> event]
    /\ at' = [at EXCEPT ![w] = "writing"]
    /\ UNCHANGED <<file, synced, holder, caller, acked, view>>

(* handle.write: the bytes of the line reach the file, not necessarily at  *)
(* once.  Bytes written behind a bare tail make one line of two events.    *)
Write(w) ==
    /\ at[w] = "write"
    /\ minted' = minted + 1
    /\ LET event == [hash |-> minted + 1, prev |-> head[w],
                     type |-> Head(todo[w]), whole |-> tail.form = "none"]
       IN  \E form \in IF event.whole THEN {"cut", "bare"} ELSE {"cut"} :
               tail' = [form |-> form, line |-> event]
    /\ at' = [at EXCEPT ![w] = "writing"]
    /\ UNCHANGED <<file, synced, holder, caller, acked, view>>

(* Mutant: the file is opened for writing instead of appending.            *)
FlushTruncating(w) ==
    /\ at[w] = "writing"
    /\ file' = <<tail.line>>
    /\ tail' = NoTail
    /\ at' = [at EXCEPT ![w] = "sync"]
    /\ UNCHANGED <<synced, holder, caller, acked, minted, view>>

(* The rest of the line and its newline.                                   *)
Flush(w) ==
    /\ at[w] = "writing"
    /\ file' = Append(file, tail.line)
    /\ tail' = NoTail
    /\ at' = [at EXCEPT ![w] = "sync"]
    /\ UNCHANGED <<synced, holder, caller, acked, minted, view>>

(* The write comes back short: OSError leaves the partial line behind.     *)
WriteRaises(w) == at[w] = "writing" /\ "short" \in Faults /\ Raise(w)

(* Mutants: fsync is dropped; the head is read once per batch.             *)
FsyncDropped(w) ==
    /\ at[w] = "sync"
    /\ got' = [got EXCEPT ![w] = @ \cup {file[Len(file)].hash}]
    /\ todo' = [todo EXCEPT ![w] = Tail(@)]
    /\ at' = [at EXCEPT ![w] = IF Len(todo[w]) > 1 THEN "head" ELSE "unlock"]
    /\ UNCHANGED <<disk, holder, head, acked, minted, view>>

FsyncKeepingHead(w) ==
    /\ at[w] = "sync"
    /\ synced' = Len(file)
    /\ got' = [got EXCEPT ![w] = @ \cup {file[Len(file)].hash}]
    /\ todo' = [todo EXCEPT ![w] = Tail(@)]
    /\ at' = [at EXCEPT ![w] = IF Len(todo[w]) > 1 THEN "write" ELSE "unlock"]
    /\ UNCHANGED <<file, tail, holder, head, acked, minted, view>>

(* os.fsync, then the next event of the batch, under the same lock.        *)
Fsync(w) ==
    /\ at[w] = "sync"
    /\ synced' = Len(file)
    /\ got' = [got EXCEPT ![w] = @ \cup {file[Len(file)].hash}]
    /\ todo' = [todo EXCEPT ![w] = Tail(@)]
    /\ at' = [at EXCEPT ![w] = IF Len(todo[w]) > 1 THEN "head" ELSE "unlock"]
    /\ UNCHANGED <<file, tail, holder, head, acked, minted, view>>

(* Mutant: the lock is never given back.                                   *)
UnlockForgotten(w) ==
    /\ at[w] = "unlock"
    /\ acked' = acked \cup got[w]
    /\ at' = [at EXCEPT ![w] = "idle"]
    /\ UNCHANGED <<disk, holder, caller, minted, view>>

(* LOCK_UN, and the call returns its events.                               *)
Unlock(w) ==
    /\ at[w] = "unlock"
    /\ holder' = NoWriter
    /\ acked' = acked \cup got[w]
    /\ at' = [at EXCEPT ![w] = "idle"]
    /\ UNCHANGED <<disk, caller, minted, view>>

(* An unlocked events(); when the file does not parse it raises and the    *)
(* reader is left with nothing new.                                        *)
Read(r) ==
    /\ Readable
    /\ view' = [view EXCEPT ![r] = Events]
    /\ UNCHANGED <<disk, holder, at, caller, acked, minted>>

-----------------------------------------------------------------------------
(* The environment.                                                        *)

(* The process is killed; the kernel drops its flock, the file stays.      *)
Crash(w) ==
    /\ "crash" \in Faults
    /\ at[w] # "idle"
    /\ holder' = IF holder = w THEN NoWriter ELSE holder
    /\ at' = [at EXCEPT ![w] = "idle"]
    /\ todo' = [todo EXCEPT ![w] = <<>>]
    /\ got' = [got EXCEPT ![w] = {}]
    /\ UNCHANGED <<disk, head, acked, minted, view>>

(* Power loss: every process dies; lines that were not fsynced survive,    *)
(* vanish or are cut; what is found after the restart is on the disk.      *)
PowerLoss ==
    /\ "power" \in Faults
    /\ \/ UNCHANGED <<file, tail>>
       \/ tail' = NoTail /\ UNCHANGED file
       \/ /\ Len(file) > synced
          /\ file' = SubSeq(file, 1, synced)
          /\ tail' \in {NoTail, [form |-> "cut", line |-> file[synced + 1]]}
    /\ synced' = Len(file')
    /\ holder' = NoWriter
    /\ at' = [w \in Writers |-> "idle"]
    /\ todo' = [w \in Writers |-> <<>>]
    /\ got' = [w \in Writers |-> {}]
    /\ UNCHANGED <<head, acked, minted, view>>

WriterStep(w) ==
    \/ Lock(w) \/ ReadHead(w) \/ ReadHeadRaises(w) \/ Write(w) \/ Flush(w)
    \/ WriteRaises(w) \/ Fsync(w) \/ Unlock(w)

Next ==
    \/ \E w \in Writers : (\E b \in Batches : Call(w, b)) \/ WriterStep(w) \/ Crash(w)
    \/ \E r \in Readers : Read(r)
    \/ PowerLoss

Spec == Init /\ [][Next]_vars

(* A process that holds or waits for the lock keeps running; flock wakes   *)
(* its waiters each time it is released, so no waiter is passed over for   *)
(* ever.                                                                   *)
Fairness ==
    \A w \in Writers : SF_vars(Lock(w)) /\ WF_vars(WriterStep(w))

FairSpec == Spec /\ Fairness

-----------------------------------------------------------------------------
(* Properties.                                                             *)

TypeOK ==
    /\ file \in Seq(ContinuityEvent)
    /\ tail \in TailForm
    /\ synced \in 0..Len(file)
    /\ holder \in Writers \cup {NoWriter}
    /\ at \in [Writers -> {"idle", "waiting"} \cup Critical]
    /\ todo \in [Writers -> Seq(EventType)]
    /\ head \in [Writers -> Nat]
    /\ got \in [Writers -> SUBSET Nat]
    /\ acked \in SUBSET Nat
    /\ minted \in Nat
    /\ view \in [Readers -> Seq(ContinuityEvent)]

(* Chain integrity: whatever the interleaving of writers and wherever they *)
(* die, every readable line names the hash of the line before it, so       *)
(* verify_chain never fails on a ledger only this program has written      *)
(* (ledger.py:125-133).                                                    *)
ChainIntact ==
    \A i \in 1..Len(file) : file[i].whole => file[i].prev = HashBefore(file, i)

(* A reader that takes no lock, at any moment of any write, either gets an *)
(* exception or events that verify: it never sees a broken chain           *)
(* (ledger.py:110-117).                                                    *)
ViewVerifies == \A r \in Readers : verify_chain(view[r])

(* What a reader has seen of acknowledged events stays where it was for as *)
(* long as the ledger parses, whoever dies and whatever is lost: facts     *)
(* derived from one read are never retracted by a later one, nor moved     *)
(* (ledger.py:110-117; claims, follow-ups and recoveries are all folds     *)
(* over such reads).                                                       *)
ViewIsStable ==
    Readable => \A r \in Readers : \A i \in 1..Len(view[r]) :
        view[r][i].hash \in acked => i <= Len(Events) /\ Events[i] = view[r][i]

(* Loss is never silent: if the ledger parses at all, every event whose    *)
(* append returned is in it, power losses included (ledger.py:158-162).    *)
NoSilentLoss ==
    Readable => \A h \in acked : \E i \in 1..Len(Events) : Events[i].hash = h

(* A ledger damaged by a torn line is never extended behind the damage:    *)
(* append re-parses the file first and raises (ledger.py:151).             *)
Torn ==
    \/ \E i \in 1..Len(file) : ~file[i].whole
    \/ tail.form = "cut" /\ \A w \in Writers : at[w] # "writing"

TornNeverExtended == [][Torn => minted' = minted]_vars

(* Every append call that waits for the lock eventually returns or raises, *)
(* whoever dies holding it (ledger.py:135-143).                            *)
AppendReturns == \A w \in Writers : at[w] = "waiting" ~> at[w] = "idle"

(* The ledger implements the append-only log: the durable whole lines are  *)
(* the log.                                                                *)
Durable ==
    IF synced > 0 /\ ~file[synced].whole THEN SubSeq(file, 1, synced - 1)
                                         ELSE SubSeq(file, 1, synced)

Log == INSTANCE AppendOnlyLog WITH log <- Durable

ImplementsLog == Log!Spec
=============================================================================
