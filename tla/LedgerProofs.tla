---------------------------- MODULE LedgerProofs ----------------------------
(***************************************************************************)
(* Proofs about module Ledger, for any set of writers and readers, any     *)
(* batches and any subset of the faults.                                   *)
(***************************************************************************)
EXTENDS Ledger, SequenceTheorems, TLAPS

(* The strengthening of the safety invariants.  GarbageLast: a line that   *)
(* does not parse is the last one, because append parses the file first.   *)
GarbageLast == \A i \in 1..Len(file) : i < Len(file) => file[i].whole

(* Bytes behind the last newline follow lines that all parse, and if they  *)
(* are the start of a line of their own, that line is linked.              *)
TailLinked ==
    tail.form # "none" =>
        /\ \A i \in 1..Len(file) : file[i].whole
        /\ tail.line.whole => tail.line.prev = last_hash(file)
        /\ tail.form = "bare" => tail.line.whole

(* The flock: a writer is between LOCK_EX and LOCK_UN iff it is the holder. *)
LockHeld == \A w \in Writers : at[w] \in Critical <=> holder = w

(* What a writer read under the lock is still true when it writes.         *)
HeadFresh ==
    \A w \in Writers : at[w] = "write" => Readable /\ head[w] = last_hash(Events)

MidWrite ==
    \A w \in Writers :
        /\ at[w] = "writing" => tail.form # "none"
        /\ at[w] = "sync" => file # <<>> /\ tail = NoTail
        /\ at[w] \in {"waiting", "head", "write", "writing", "sync"} => todo[w] # <<>>

(* Every event whose append returned, or will return without another       *)
(* write, is on a line that fsync has covered.                             *)
OnDisk(h) == \E i \in 1..synced : file[i].hash = h
AckedSynced ==
    /\ \A h \in acked : OnDisk(h)
    /\ \A w \in Writers : \A h \in got[w] : OnDisk(h)

-----------------------------------------------------------------------------
(* Type correctness, together with the shape of the critical section,      *)
(* which it needs: Fsync reads the last line of the file.                  *)
TypeInv == TypeOK /\ LockHeld /\ MidWrite

LEMMA EventsTyped == TypeOK => Events \in Seq(ContinuityEvent)
BY DEF TypeOK, Events, TailForm, NoTail

LEMMA LastHashTyped ==
    ASSUME NEW evs \in Seq(ContinuityEvent) PROVE last_hash(evs) \in Nat
<1>1. CASE evs = <<>>
    BY <1>1 DEF last_hash, GENESIS_HASH
<1>2. CASE evs # <<>>
    <2>1. Len(evs) \in 1..Len(evs)
        BY <1>2
    <2>2. evs[Len(evs)] \in ContinuityEvent
        BY <2>1
    <2>3. QED BY <1>2, <2>2 DEF last_hash, ContinuityEvent
<1>3. QED BY <1>1, <1>2

LEMMA InitTypeInv == Init => TypeInv
BY LedgerAssumption DEF Init, TypeInv, TypeOK, LockHeld, MidWrite, TailForm,
   NoTail, Critical, GENESIS_HASH

LEMMA NextTypeInv == TypeInv /\ [Next]_vars => TypeInv'
<1> SUFFICES ASSUME TypeInv, [Next]_vars PROVE TypeInv'
    OBVIOUS
<1> USE LedgerAssumption DEF TypeInv, TypeOK, LockHeld, MidWrite, Critical, disk, caller
<1>1. ASSUME NEW w \in Writers, NEW b \in Batches, Call(w, b) PROVE TypeInv'
    BY <1>1 DEF Call
<1>2. ASSUME NEW w \in Writers, Lock(w) PROVE TypeInv'
    BY <1>2 DEF Lock
<1>3. ASSUME NEW w \in Writers, ReadHead(w) PROVE TypeInv'
    <2>1. last_hash(Events) \in Nat
        BY EventsTyped, LastHashTyped
    <2>2. QED BY <1>3, <2>1 DEF ReadHead
<1>4. ASSUME NEW w \in Writers, at[w] \in Critical, Raise(w) PROVE TypeInv'
    BY <1>4 DEF Raise
<1>5. ASSUME NEW w \in Writers, Write(w) PROVE TypeInv'
    <2> DEFINE event == [hash |-> minted + 1, prev |-> head[w],
                         type |-> Head(todo[w]), whole |-> tail.form = "none"]
    <2>1. event \in ContinuityEvent
        BY <1>5 DEF Write, ContinuityEvent
    <2>2. PICK form \in {"cut", "bare"} : tail' = [form |-> form, line |-> event]
        BY <1>5 DEF Write
    <2>3. tail' \in TailForm /\ tail'.form # "none"
        BY <2>1, <2>2 DEF TailForm
    <2> HIDE DEF event
    <2>4. QED BY <1>5, <2>3 DEF Write
<1>6. ASSUME NEW w \in Writers, Flush(w) PROVE TypeInv'
    <2>1. tail.line \in ContinuityEvent
        BY <1>6 DEF Flush, TailForm, NoTail
    <2>2. QED BY <1>6, <2>1 DEF Flush, TailForm
<1>7. ASSUME NEW w \in Writers, Fsync(w) PROVE TypeInv'
    <2>1. file[Len(file)] \in ContinuityEvent /\ Tail(todo[w]) \in Seq(EventType)
        BY <1>7 DEF Fsync
    <2>2. file[Len(file)].hash \in Nat
        BY <2>1 DEF ContinuityEvent
    <2>3. Len(todo[w]) > 1 => Tail(todo[w]) # <<>>
        <3>1. todo[w] \in Seq(EventType) /\ todo[w] # <<>>
            BY <1>7 DEF Fsync
        <3>2. Len(Tail(todo[w])) = Len(todo[w]) - 1 /\ Len(todo[w]) \in Nat
            BY <3>1
        <3>3. Len(<<>>) = 0
            OBVIOUS
        <3> DEFINE rest == Tail(todo[w])
        <3>4. Len(rest) = Len(todo[w]) - 1
            BY <3>2
        <3> HIDE DEF rest
        <3>5. Len(todo[w]) > 1 => rest # <<>>
            BY <3>2, <3>3, <3>4
        <3>6. QED BY <3>5 DEF rest
    <2>4. QED BY <1>7, <2>1, <2>2, <2>3 DEF Fsync
<1>8. ASSUME NEW w \in Writers, Unlock(w) PROVE TypeInv'
    BY <1>8 DEF Unlock
<1>9. ASSUME NEW w \in Writers, Crash(w) PROVE TypeInv'
    BY <1>9 DEF Crash
<1>10. ASSUME NEW r \in Readers, Read(r) PROVE TypeInv'
    <2>1. Events \in Seq(ContinuityEvent)
        BY EventsTyped
    <2>2. QED BY <1>10, <2>1 DEF Read
<1>11. ASSUME PowerLoss PROVE TypeInv'
    <2>1. file' \in Seq(ContinuityEvent) /\ tail' \in TailForm
        <3>1. CASE file' = file
            BY <1>11, <3>1 DEF PowerLoss, TailForm
        <3>2. CASE /\ Len(file) > synced
                   /\ file' = SubSeq(file, 1, synced)
                   /\ tail' \in {NoTail, [form |-> "cut", line |-> file[synced + 1]]}
            <4>1. file[synced + 1] \in ContinuityEvent
                BY <3>2
            <4>2. QED BY <3>2, <4>1 DEF TailForm
        <3>3. QED BY <1>11, <3>1, <3>2 DEF PowerLoss
    <2>2. QED BY <1>11, <2>1 DEF PowerLoss
<1>12. CASE UNCHANGED vars
    BY <1>12 DEF vars
<1>13. QED
    BY <1>1, <1>2, <1>3, <1>4, <1>5, <1>6, <1>7, <1>8, <1>9, <1>10, <1>11, <1>12
       DEF Next, WriterStep, ReadHeadRaises, WriteRaises

(* Every variable keeps its type, and the file is only written by the      *)
(* holder of the lock.                                                     *)
THEOREM TypeCorrect == Spec => []TypeOK
<1>1. TypeInv => TypeOK
    BY DEF TypeInv
<1>2. QED BY <1>1, InitTypeInv, NextTypeInv, PTL DEF Spec

-----------------------------------------------------------------------------
(* The hash chain.                                                         *)
ChainInv == GarbageLast /\ ChainIntact /\ TailLinked /\ HeadFresh

LEMMA InitChainInv == Init => ChainInv
BY DEF Init, ChainInv, GarbageLast, ChainIntact, TailLinked, HeadFresh, NoTail

(* Steps that write no byte and bring nobody to the write.                 *)
LEMMA QuietStep ==
    ASSUME ChainInv, file' = file, tail' = tail, head' = head,
           \A w \in Writers : at'[w] = "write" => at[w] = "write"
    PROVE  ChainInv'
<1>1. Readable' = Readable /\ Events' = Events
    BY DEF Readable, Events
<1>2. HeadFresh'
    BY <1>1 DEF ChainInv, HeadFresh, last_hash
<1>3. GarbageLast' /\ ChainIntact' /\ TailLinked'
    BY DEF ChainInv, GarbageLast, ChainIntact, TailLinked, HashBefore, last_hash
<1>4. QED BY <1>2, <1>3 DEF ChainInv

(* Only the holder of the lock can be about to write.                      *)
LEMMA SoleWriter ==
    ASSUME TypeInv, NEW w \in Writers, at[w] \in Critical
    PROVE  \A v \in Writers : v # w => at[v] \notin Critical
BY DEF TypeInv, LockHeld

LEMMA ReadHeadStep ==
    ASSUME TypeInv, ChainInv, NEW w \in Writers, ReadHead(w) PROVE ChainInv'
<1> USE DEF ReadHead, disk
<1>1. Readable' = Readable /\ Events' = Events
    BY DEF Readable, Events
<1>2. GarbageLast' /\ ChainIntact' /\ TailLinked'
    BY DEF ChainInv, GarbageLast, ChainIntact, TailLinked, HashBefore, last_hash
<1>3. ASSUME NEW v \in Writers, at'[v] = "write"
      PROVE  Readable' /\ head'[v] = last_hash(Events)'
    <2>1. CASE v = w
        BY <1>1, <2>1 DEF TypeInv, TypeOK, last_hash
    <2>2. CASE v # w
        BY <1>1, <1>3, <2>2 DEF ChainInv, HeadFresh, TypeInv, TypeOK, last_hash
    <2>3. QED BY <2>1, <2>2
<1>4. QED BY <1>2, <1>3 DEF ChainInv, HeadFresh

LEMMA WriteStep ==
    ASSUME TypeInv, ChainInv, NEW w \in Writers, Write(w) PROVE ChainInv'
<1> DEFINE event == [hash |-> minted + 1, prev |-> head[w],
                     type |-> Head(todo[w]), whole |-> tail.form = "none"]
<1>1. /\ at[w] = "write" /\ file' = file
      /\ \E form \in IF event.whole THEN {"cut", "bare"} ELSE {"cut"} :
             tail' = [form |-> form, line |-> event]
    BY DEF Write
<1>2. PICK form \in {"cut", "bare"} :
          /\ tail' = [form |-> form, line |-> event]
          /\ form = "bare" => tail.form = "none"
    BY <1>1
<1>3. Readable /\ head[w] = last_hash(Events)
    BY <1>1 DEF ChainInv, HeadFresh
<1>4. event.whole = (tail.form = "none") /\ event.prev = head[w]
    OBVIOUS
<1>5. tail.form = "none" => event.prev = last_hash(file)
    BY <1>3, <1>4 DEF Events
<1> HIDE DEF event
<1>6. TailLinked'
    BY <1>1, <1>2, <1>3, <1>4, <1>5 DEF TailLinked, Readable, last_hash
<1>7. HeadFresh'
    <2>1. \A v \in Writers : at'[v] # "write"
        BY <1>1, SoleWriter DEF Write, TypeInv, TypeOK, Critical
    <2>2. QED BY <2>1 DEF HeadFresh
<1>8. GarbageLast' /\ ChainIntact'
    BY <1>1 DEF ChainInv, GarbageLast, ChainIntact, HashBefore
<1>9. QED BY <1>6, <1>7, <1>8 DEF ChainInv

LEMMA FlushStep ==
    ASSUME TypeInv, ChainInv, NEW w \in Writers, Flush(w) PROVE ChainInv'
<1>1. /\ at[w] = "writing" /\ tail.form # "none"
      /\ file' = Append(file, tail.line) /\ tail' = NoTail
    BY DEF Flush, TypeInv, MidWrite
<1>2. /\ \A i \in 1..Len(file) : file[i].whole
      /\ tail.line.whole => tail.line.prev = last_hash(file)
    BY <1>1 DEF ChainInv, TailLinked
<1>3. file \in Seq(ContinuityEvent)
    BY DEF TypeInv, TypeOK
<1>4. /\ Len(file') = Len(file) + 1
      /\ \A i \in 1..Len(file) : file'[i] = file[i]
      /\ file'[Len(file) + 1] = tail.line
    BY <1>1, <1>3
<1>5. GarbageLast'
    BY <1>2, <1>3, <1>4 DEF GarbageLast
<1>6. ASSUME NEW i \in 1..Len(file'), file'[i].whole
      PROVE  file'[i].prev = HashBefore(file', i)
    <2>1. CASE i \in 1..Len(file)
        <3>1. HashBefore(file', i) = HashBefore(file, i)
            BY <1>3, <1>4, <2>1 DEF HashBefore
        <3>2. QED BY <1>4, <1>6, <2>1, <3>1 DEF ChainInv, ChainIntact
    <2>2. CASE i = Len(file) + 1
        <3>1. CASE file = <<>>
            BY <1>2, <1>4, <1>6, <2>2, <3>1 DEF HashBefore, last_hash
        <3>2. CASE file # <<>>
            <4>1. Len(file) \in 1..Len(file)
                BY <1>3, <3>2
            <4>2. HashBefore(file', i) = file[Len(file)].hash
                BY <1>3, <1>4, <2>2, <4>1 DEF HashBefore
            <4>3. QED BY <1>2, <1>4, <1>6, <2>2, <3>2, <4>2 DEF last_hash
        <3>3. QED BY <3>1, <3>2
    <2>3. QED BY <1>3, <1>4, <2>1, <2>2
<1>7. TailLinked'
    BY <1>1 DEF TailLinked, NoTail
<1>8. HeadFresh'
    <2>1. \A v \in Writers : at'[v] # "write"
        BY <1>1, SoleWriter DEF Flush, TypeInv, TypeOK, Critical
    <2>2. QED BY <2>1 DEF HeadFresh
<1>9. QED BY <1>5, <1>6, <1>7, <1>8 DEF ChainInv, ChainIntact

LEMMA PowerLossStep == ASSUME TypeInv, ChainInv, PowerLoss PROVE ChainInv'
<1>1. HeadFresh'
    BY DEF PowerLoss, HeadFresh
<1>2. CASE file' = file /\ tail' \in {tail, NoTail}
    <2>1. GarbageLast' /\ ChainIntact'
        BY <1>2 DEF ChainInv, GarbageLast, ChainIntact, HashBefore
    <2>2. TailLinked'
        BY <1>2 DEF ChainInv, TailLinked, last_hash, NoTail
    <2>3. QED BY <1>1, <2>1, <2>2 DEF ChainInv
<1>3. CASE /\ Len(file) > synced
           /\ file' = SubSeq(file, 1, synced)
           /\ tail' \in {NoTail, [form |-> "cut", line |-> file[synced + 1]]}
    <2>1. file \in Seq(ContinuityEvent) /\ synced \in 0..Len(file)
        BY DEF TypeInv, TypeOK
    <2>2. /\ Len(file') = synced
          /\ \A i \in 1..synced : file'[i] = file[i]
        BY <1>3, <2>1
    <2>3. \A i \in 1..synced : file'[i].whole
        BY <1>3, <2>1, <2>2 DEF ChainInv, GarbageLast
    <2>4. GarbageLast'
        BY <2>1, <2>2, <2>3 DEF GarbageLast
    <2>5. ChainIntact'
        <3>1. ASSUME NEW i \in 1..synced
              PROVE  HashBefore(file', i) = HashBefore(file, i)
            BY <2>1, <2>2 DEF HashBefore
        <3>2. QED BY <1>3, <2>1, <2>2, <3>1 DEF ChainInv, ChainIntact
    <2>6. TailLinked'
        <3>1. last_hash(file') = HashBefore(file, synced + 1)
            <4>1. CASE synced = 0
                BY <2>1, <2>2, <4>1 DEF last_hash, HashBefore
            <4>2. CASE synced # 0
                <5>1. file' # <<>> /\ synced \in 1..synced
                    BY <2>1, <2>2, <4>2
                <5>2. QED BY <2>1, <2>2, <5>1 DEF last_hash, HashBefore
            <4>3. QED BY <4>1, <4>2
        <3>2. file[synced + 1].whole => file[synced + 1].prev = last_hash(file')
            BY <1>3, <2>1, <3>1 DEF ChainInv, ChainIntact
        <3>3. CASE tail' = NoTail
            BY <3>3 DEF TailLinked, NoTail
        <3>4. CASE tail' = [form |-> "cut", line |-> file[synced + 1]]
            <4>1. tail'.form = "cut" /\ tail'.line = file[synced + 1]
                BY <3>4
            <4>2. \A i \in 1..Len(file') : file'[i].whole
                BY <2>2, <2>3
            <4>3. QED BY <3>2, <4>1, <4>2 DEF TailLinked
        <3>5. QED BY <1>3, <3>3, <3>4
    <2>7. QED BY <1>1, <2>4, <2>5, <2>6 DEF ChainInv
<1>4. QED BY <1>2, <1>3 DEF PowerLoss

LEMMA NextChainInv == TypeInv /\ ChainInv /\ [Next]_vars => ChainInv'
<1> SUFFICES ASSUME TypeInv, ChainInv, [Next]_vars PROVE ChainInv'
    OBVIOUS
<1> USE DEF TypeInv, TypeOK, disk, caller
<1>1. ASSUME NEW w \in Writers, NEW b \in Batches, Call(w, b) PROVE ChainInv'
    BY <1>1, QuietStep DEF Call
<1>2. ASSUME NEW w \in Writers, Lock(w) PROVE ChainInv'
    BY <1>2, QuietStep DEF Lock
<1>3. ASSUME NEW w \in Writers, Raise(w) PROVE ChainInv'
    BY <1>3, QuietStep DEF Raise
<1>4. ASSUME NEW w \in Writers, Fsync(w) PROVE ChainInv'
    BY <1>4, QuietStep DEF Fsync
<1>5. ASSUME NEW w \in Writers, Unlock(w) PROVE ChainInv'
    BY <1>5, QuietStep DEF Unlock
<1>6. ASSUME NEW w \in Writers, Crash(w) PROVE ChainInv'
    BY <1>6, QuietStep DEF Crash
<1>7. ASSUME NEW r \in Readers, Read(r) PROVE ChainInv'
    BY <1>7, QuietStep DEF Read
<1>8. CASE UNCHANGED vars
    BY <1>8, QuietStep DEF vars
<1>9. QED
    BY <1>1, <1>2, <1>3, <1>4, <1>5, <1>6, <1>7, <1>8,
       ReadHeadStep, WriteStep, FlushStep, PowerLossStep
       DEF Next, WriterStep, ReadHeadRaises, WriteRaises

LEMMA SpecChainInv == Spec => [](TypeInv /\ ChainInv)
BY InitTypeInv, NextTypeInv, InitChainInv, NextChainInv, PTL DEF Spec

(* Any number of writers, killed or cut short anywhere: every line that    *)
(* parses names the hash of the line before it.                            *)
THEOREM ChainIntegrity == Spec => []ChainIntact
<1>1. ChainInv => ChainIntact
    BY DEF ChainInv
<1>2. QED BY <1>1, SpecChainInv, PTL

-----------------------------------------------------------------------------
(* What follows from the chain invariant.                                  *)

(* No event is ever written on a damaged ledger: whoever is about to write *)
(* has parsed the file under the lock it still holds.                      *)
THEOREM DamageIsNeverBuried == Spec => TornNeverExtended
<1>1. TypeInv /\ ChainInv /\ [Next]_vars => [Torn => minted' = minted]_vars
    <2> SUFFICES ASSUME TypeInv, ChainInv, Next, Torn PROVE minted' = minted
        BY DEF vars
    <2>1. ASSUME NEW w \in Writers, Write(w) PROVE FALSE
        <3>1. Readable
            BY <2>1 DEF Write, ChainInv, HeadFresh
        <3>2. tail.form # "cut" /\ \A i \in 1..Len(file) : file[i].whole
            BY <3>1 DEF Readable
        <3>3. QED BY <3>2 DEF Torn
    <2>2. QED
        BY <2>1 DEF Next, WriterStep, Call, Lock, ReadHead, ReadHeadRaises, Raise,
           Flush, WriteRaises, Fsync, Unlock, Read, Crash, PowerLoss
<1>2. QED BY <1>1, SpecChainInv, PTL DEF TornNeverExtended, Spec

LEMMA ReadableVerifies ==
    ASSUME TypeInv, ChainInv, Readable PROVE verify_chain(Events)
<1>1. file \in Seq(ContinuityEvent) /\ \A i \in 1..Len(file) : file[i].whole
    BY DEF TypeInv, TypeOK, Readable
<1>2. \A i \in 1..Len(file) : file[i].prev = HashBefore(file, i)
    BY <1>1 DEF ChainInv, ChainIntact
<1>3. CASE tail.form # "bare"
    BY <1>2, <1>3 DEF Events, verify_chain
<1>4. CASE tail.form = "bare"
    <2>1. tail.line.prev = last_hash(file)
        BY <1>4 DEF ChainInv, TailLinked
    <2> DEFINE evs == Append(file, tail.line)
    <2>2. /\ Len(evs) = Len(file) + 1
          /\ \A i \in 1..Len(file) : evs[i] = file[i]
          /\ evs[Len(file) + 1] = tail.line
        BY <1>1
    <2>3. Events = evs
        BY <1>4 DEF Events
    <2> HIDE DEF evs
    <2>4. ASSUME NEW i \in 1..Len(evs) PROVE evs[i].prev = HashBefore(evs, i)
        <3>1. CASE i \in 1..Len(file)
            <4>1. HashBefore(evs, i) = HashBefore(file, i)
                BY <1>1, <2>2, <3>1 DEF HashBefore
            <4>2. QED BY <1>2, <2>2, <3>1, <4>1
        <3>2. CASE i = Len(file) + 1
            <4>1. CASE file = <<>>
                BY <2>1, <2>2, <3>2, <4>1 DEF HashBefore, last_hash
            <4>2. CASE file # <<>>
                <5>1. Len(file) \in 1..Len(file)
                    BY <1>1, <4>2
                <5>2. HashBefore(evs, i) = file[Len(file)].hash
                    BY <1>1, <2>2, <3>2, <5>1 DEF HashBefore
                <5>3. QED BY <2>1, <2>2, <3>2, <4>2, <5>2 DEF last_hash
            <4>3. QED BY <4>1, <4>2
        <3>3. QED BY <1>1, <2>2, <3>1, <3>2
    <2>5. QED BY <2>3, <2>4 DEF verify_chain
<1>5. QED BY <1>3, <1>4

(* Whatever an unlocked reader gets to see verifies.                       *)
THEOREM ReadersSeeChains == Spec => []ViewVerifies
<1>1. Init => ViewVerifies
    BY DEF Init, ViewVerifies, verify_chain
<1>2. TypeInv /\ ChainInv /\ ViewVerifies /\ [Next]_vars => ViewVerifies'
    <2> SUFFICES ASSUME TypeInv, ChainInv, ViewVerifies, [Next]_vars PROVE ViewVerifies'
        OBVIOUS
    <2>1. ASSUME NEW r \in Readers, Read(r) PROVE ViewVerifies'
        <3>1. verify_chain(Events) /\ view' = [view EXCEPT ![r] = Events]
            BY <2>1, ReadableVerifies DEF Read
        <3>2. view \in [Readers -> Seq(ContinuityEvent)]
            BY DEF TypeInv, TypeOK
        <3>3. ASSUME NEW q \in Readers PROVE verify_chain(view'[q])
            <4>1. CASE q = r
                BY <3>1, <3>2, <4>1
            <4>2. CASE q # r
                BY <3>1, <3>2, <4>2 DEF ViewVerifies
            <4>3. QED BY <4>1, <4>2
        <3>4. QED BY <3>3 DEF ViewVerifies
    <2>2. ASSUME view' = view PROVE ViewVerifies'
        BY <2>2 DEF ViewVerifies
    <2>3. QED
        BY <2>1, <2>2 DEF Next, WriterStep, Call, Lock, ReadHead, ReadHeadRaises, Raise,
           Write, Flush, WriteRaises, Fsync, Unlock, Crash, PowerLoss, vars
<1>3. QED BY <1>1, <1>2, SpecChainInv, PTL DEF Spec

-----------------------------------------------------------------------------
(* Durability.                                                             *)

LEMMA NextAckedSynced == TypeInv /\ AckedSynced /\ [Next]_vars => AckedSynced'
<1> SUFFICES ASSUME TypeInv, AckedSynced, [Next]_vars PROVE AckedSynced'
    OBVIOUS
<1> USE DEF disk, caller
<1>0. /\ file \in Seq(ContinuityEvent) /\ synced \in 0..Len(file)
      /\ got \in [Writers -> SUBSET Nat] /\ acked \in SUBSET Nat
    BY DEF TypeInv, TypeOK
<1>1. ASSUME UNCHANGED <<file, synced>>, acked' = acked,
             \A w \in Writers : got'[w] \subseteq got[w]
      PROVE  AckedSynced'
    BY <1>1 DEF AckedSynced, OnDisk
<1>2. ASSUME NEW w \in Writers, Flush(w) PROVE AckedSynced'
    <2>1. /\ \A i \in 1..synced : file'[i] = file[i]
          /\ UNCHANGED <<synced, acked, got>>
        BY <1>0, <1>2 DEF Flush
    <2>2. QED BY <1>0, <2>1 DEF AckedSynced, OnDisk
<1>3. ASSUME NEW w \in Writers, Fsync(w) PROVE AckedSynced'
    <2>1. file # <<>> /\ file' = file /\ synced' = Len(file) /\ acked' = acked
        BY <1>3 DEF Fsync, TypeInv, MidWrite
    <2>2. got' = [got EXCEPT ![w] = @ \cup {file[Len(file)].hash}]
        BY <1>3 DEF Fsync
    <2>3. Len(file) \in 1..Len(file)
        BY <1>0, <2>1
    <2>4. \A h : OnDisk(h) => OnDisk(h)'
        BY <1>0, <2>1 DEF OnDisk
    <2>5. ASSUME NEW v \in Writers, NEW h \in got'[v] PROVE OnDisk(h)'
        <3>1. CASE v = w
            <4>1. h \in got[w] \cup {file[Len(file)].hash}
                BY <1>0, <2>2, <2>5, <3>1
            <4>2. h \in got[w] => OnDisk(h)
                BY DEF AckedSynced
            <4>3. CASE h = file[Len(file)].hash
                BY <2>1, <2>3, <4>3 DEF OnDisk
            <4>4. CASE h \in got[w]
                BY <2>4, <4>2, <4>4 DEF OnDisk
            <4>5. QED BY <4>1, <4>3, <4>4
        <3>2. CASE v # w
            <4>1. h \in got[v]
                BY <1>0, <2>2, <2>5, <3>2
            <4>2. OnDisk(h)
                BY <4>1 DEF AckedSynced
            <4>3. QED BY <2>4, <4>2
        <3>3. QED BY <3>1, <3>2
    <2>6. ASSUME NEW h \in acked' PROVE OnDisk(h)'
        <3>1. OnDisk(h)
            BY <2>1, <2>6 DEF AckedSynced
        <3>2. QED BY <2>4, <3>1 DEF OnDisk
    <2>7. QED BY <2>5, <2>6 DEF AckedSynced
<1>4. ASSUME NEW w \in Writers, Unlock(w) PROVE AckedSynced'
    <2>1. UNCHANGED <<file, synced, got>> /\ acked' = acked \cup got[w]
        BY <1>4 DEF Unlock
    <2>2. \A h : OnDisk(h) => OnDisk(h)'
        BY <2>1 DEF OnDisk
    <2>3. \A h \in acked' : OnDisk(h)
        BY <2>1 DEF AckedSynced
    <2>4. \A v \in Writers : \A h \in got'[v] : OnDisk(h)
        BY <2>1 DEF AckedSynced
    <2>5. QED BY <2>2, <2>3, <2>4 DEF AckedSynced
<1>5. ASSUME PowerLoss PROVE AckedSynced'
    <2>1. /\ synced' = Len(file') /\ acked' = acked
          /\ got' = [v \in Writers |-> {}]
          /\ \/ file' = file
             \/ Len(file) > synced /\ file' = SubSeq(file, 1, synced)
        <3>1. \/ file' = file
              \/ Len(file) > synced /\ file' = SubSeq(file, 1, synced)
            BY <1>5 DEF PowerLoss
        <3>2. QED BY <1>5, <3>1 DEF PowerLoss
    <2>2. /\ synced <= synced' /\ synced' \in Nat
          /\ \A i \in 1..synced : file'[i] = file[i]
        BY <1>0, <2>1
    <2>3. \A h : OnDisk(h) => OnDisk(h)'
        BY <1>0, <2>2 DEF OnDisk
    <2>4. \A h \in acked' : OnDisk(h)
        BY <2>1 DEF AckedSynced
    <2>5. \A v \in Writers : got'[v] = {}
        BY <2>1
    <2>6. QED BY <2>3, <2>4, <2>5 DEF AckedSynced
<1>6. ASSUME NEW w \in Writers, NEW b \in Batches, Call(w, b) PROVE AckedSynced'
    BY <1>0, <1>1, <1>6 DEF Call
<1>7. ASSUME NEW w \in Writers, Raise(w) PROVE AckedSynced'
    BY <1>0, <1>1, <1>7 DEF Raise
<1>8. ASSUME NEW w \in Writers, Crash(w) PROVE AckedSynced'
    BY <1>0, <1>1, <1>8 DEF Crash
<1>9. ASSUME UNCHANGED <<file, synced, acked, got>> PROVE AckedSynced'
    BY <1>1, <1>9
<1>10. QED
    BY <1>2, <1>3, <1>4, <1>5, <1>6, <1>7, <1>8, <1>9
       DEF Next, WriterStep, Lock, ReadHead, ReadHeadRaises, Write, WriteRaises, Read, vars

(* Every event whose append returned is in every ledger that parses, power *)
(* losses included.                                                        *)
THEOREM LossIsNeverSilent == Spec => []NoSilentLoss
<1>1. Init => AckedSynced
    BY DEF Init, AckedSynced
<1>2. TypeInv /\ AckedSynced => NoSilentLoss
    <2> SUFFICES ASSUME TypeInv, AckedSynced, NEW h \in acked
                 PROVE  \E i \in 1..Len(Events) : Events[i].hash = h
        BY DEF NoSilentLoss
    <2>1. PICK i \in 1..synced : file[i].hash = h
        BY DEF AckedSynced, OnDisk
    <2>2. file \in Seq(ContinuityEvent) /\ i \in 1..Len(file)
        BY DEF TypeInv, TypeOK
    <2>3. i \in 1..Len(Events) /\ Events[i] = file[i]
        BY <2>2 DEF Events
    <2>4. QED BY <2>1, <2>3
<1>3. QED BY <1>1, <1>2, NextAckedSynced, SpecChainInv, PTL DEF Spec
-----------------------------------------------------------------------------
(* Refinement.  Only the last synced line can be garbage, and once another *)
(* line is synced behind it, it was not.                                   *)
DurableLen == IF synced > 0 /\ ~file[synced].whole THEN synced - 1 ELSE synced

DurableLog ==
    /\ DurableLen \in 0..synced
    /\ Durable \in Seq(Log!LogEvent)
    /\ Len(Durable) = DurableLen
    /\ \A i \in 1..DurableLen : Durable[i] = file[i]
    /\ Log!Linked(Durable)

LEMMA DurableIsLog == TypeInv /\ ChainInv => DurableLog
<1> SUFFICES ASSUME TypeInv, ChainInv PROVE DurableLog
    OBVIOUS
<1>1. file \in Seq(ContinuityEvent) /\ synced \in 0..Len(file)
    BY DEF TypeInv, TypeOK
<1>2. DurableLen \in 0..synced
    BY <1>1 DEF DurableLen
<1>3. Durable = SubSeq(file, 1, DurableLen)
    BY DEF Durable, DurableLen
<1>4. /\ Durable \in Seq(ContinuityEvent)
      /\ Len(Durable) = DurableLen
      /\ \A i \in 1..DurableLen : Durable[i] = file[i]
    BY <1>1, <1>2, <1>3
<1>5. \A i \in 1..DurableLen : file[i].whole
    BY <1>1 DEF ChainInv, GarbageLast, DurableLen
<1>6. ASSUME NEW i \in 1..Len(Durable) PROVE Durable[i] \in Log!LogEvent
    <2>1. Durable[i] \in ContinuityEvent /\ Durable[i].whole
        BY <1>4, <1>5
    <2>2. QED BY <2>1 DEF ContinuityEvent, Log!LogEvent
<1>7. Durable \in Seq(Log!LogEvent)
    BY <1>4, <1>6
<1>8. ASSUME NEW i \in 1..Len(Durable)
      PROVE  Durable[i].prev = IF i = 1 THEN 0 ELSE Durable[i - 1].hash
    <2>1. file[i].prev = HashBefore(file, i)
        BY <1>1, <1>2, <1>4, <1>5 DEF ChainInv, ChainIntact
    <2>2. i # 1 => i - 1 \in 1..DurableLen
        BY <1>1, <1>2, <1>4
    <2>3. QED BY <1>4, <2>1, <2>2 DEF HashBefore, GENESIS_HASH
<1>9. QED BY <1>2, <1>4, <1>7, <1>8 DEF Log!Linked, DurableLog

(* A step that keeps the synced lines and syncs no fewer extends the log,  *)
(* or leaves it alone.                                                     *)
LEMMA KeepingStep ==
    ASSUME TypeInv, DurableLog, TypeInv', DurableLog',
           synced <= synced', \A i \in 1..synced : file'[i] = file[i]
    PROVE  Log!Extend \/ Durable' = Durable
<1>1. /\ DurableLen \in 0..synced
      /\ Durable \in Seq(Log!LogEvent) /\ Len(Durable) = DurableLen
      /\ \A i \in 1..DurableLen : Durable[i] = file[i]
    BY DEF DurableLog
<1>2. /\ DurableLen' \in 0..synced'
      /\ Durable' \in Seq(Log!LogEvent) /\ Len(Durable') = DurableLen'
      /\ \A i \in 1..DurableLen' : Durable'[i] = file'[i]
      /\ Log!Linked(Durable')
    BY DEF DurableLog, Log!Linked, Log!LogEvent
<1>3. /\ file \in Seq(ContinuityEvent) /\ synced \in 0..Len(file)
      /\ file' \in Seq(ContinuityEvent) /\ synced' \in 0..Len(file')
    BY DEF TypeInv, TypeOK
<1>4. DurableLen <= DurableLen'
    <2>1. CASE synced' = synced
        BY <1>3, <2>1 DEF DurableLen
    <2>2. CASE synced < synced'
        <3>1. DurableLen' = synced' - 1 \/ DurableLen' = synced'
            BY DEF DurableLen
        <3>2. synced \in Int /\ synced' \in Int /\ DurableLen \in Int
            BY <1>1, <1>3
        <3>3. DurableLen <= synced
            BY <1>1, <1>3
        <3>4. QED BY <2>2, <3>1, <3>2, <3>3
    <2>3. QED BY <1>3, <2>1, <2>2
<1>5. \A i \in 1..Len(Durable) : Durable'[i] = Durable[i]
    BY <1>1, <1>2, <1>3, <1>4
<1>6. CASE DurableLen' = DurableLen
    <2>1. Durable' = Durable
        BY <1>1, <1>2, <1>5, <1>6, SeqEqual
    <2>2. QED BY <2>1
<1>7. CASE DurableLen < DurableLen'
    <2>1. Len(Durable') > Len(Durable)
        BY <1>1, <1>2, <1>3, <1>7
    <2>2. SubSeq(Durable', 1, Len(Durable)) = Durable
        <3> DEFINE front == SubSeq(Durable', 1, Len(Durable))
        <3>1. front \in Seq(Log!LogEvent) /\ Len(front) = Len(Durable)
            BY <1>1, <1>2, <1>3, <2>1
        <3>2. \A i \in 1..Len(front) : front[i] = Durable[i]
            BY <1>1, <1>2, <1>3, <1>5, <2>1
        <3>3. QED BY <1>1, <3>1, <3>2, SeqEqual
    <2>3. QED BY <1>2, <2>1, <2>2 DEF Log!Extend
<1>8. QED BY <1>1, <1>2, <1>3, <1>4, <1>6, <1>7

LEMMA NextKeeps ==
    ASSUME TypeInv, [Next]_vars
    PROVE  synced <= synced' /\ \A i \in 1..synced : file'[i] = file[i]
<1> USE DEF disk
<1>1. file \in Seq(ContinuityEvent) /\ synced \in 0..Len(file)
    BY DEF TypeInv, TypeOK
<1>2. ASSUME NEW w \in Writers, Flush(w)
      PROVE  synced <= synced' /\ \A i \in 1..synced : file'[i] = file[i]
    BY <1>1, <1>2 DEF Flush
<1>3. ASSUME NEW w \in Writers, Fsync(w)
      PROVE  synced <= synced' /\ \A i \in 1..synced : file'[i] = file[i]
    BY <1>1, <1>3 DEF Fsync
<1>4. ASSUME PowerLoss
      PROVE  synced <= synced' /\ \A i \in 1..synced : file'[i] = file[i]
    <2>1. CASE file' = file
        BY <1>1, <1>4, <2>1 DEF PowerLoss
    <2>2. CASE Len(file) > synced /\ file' = SubSeq(file, 1, synced)
        BY <1>1, <1>4, <2>2 DEF PowerLoss
    <2>3. QED BY <1>4, <2>1, <2>2 DEF PowerLoss
<1>5. ASSUME UNCHANGED <<file, synced>>
      PROVE  synced <= synced' /\ \A i \in 1..synced : file'[i] = file[i]
    BY <1>1, <1>5
<1>6. QED
    BY <1>2, <1>3, <1>4, <1>5 DEF Next, WriterStep, Call, Lock, ReadHead, ReadHeadRaises,
       Raise, Write, WriteRaises, Unlock, Read, Crash, vars

(* The file, its lock, its torn lines and its fsyncs implement an          *)
(* append-only log: durable events are never changed, dropped or reordered.*)
THEOREM Refinement == Spec => ImplementsLog
<1>1. Init => Log!Init
    BY DEF Init, Log!Init, Durable
<1>2. TypeInv /\ DurableLog /\ TypeInv' /\ DurableLog' /\ [Next]_vars
      => [Log!Extend]_Durable
    BY NextKeeps, KeepingStep
<1>3. QED
    BY <1>1, <1>2, SpecChainInv, DurableIsLog, PTL DEF Spec, ImplementsLog, Log!Spec

-----------------------------------------------------------------------------
(* What readers have seen.  Every line, the unfinished one included, holds *)
(* an event of its own, never created twice; and an event that somebody    *)
(* has seen is, if it is still there, where it was seen.                   *)

LinesOf(whole, rest) == IF rest.form = "none" THEN whole ELSE Append(whole, rest.line)

Lines == LinesOf(file, tail)

LinesDistinct ==
    \A j, k \in 1..Len(Lines) : Lines[j].hash = Lines[k].hash => j = k

HashesMinted ==
    /\ \A k \in 1..Len(Lines) : Lines[k].hash <= minted
    /\ \A r \in Readers : \A i \in 1..Len(view[r]) : view[r][i].hash <= minted

SeenInPlace ==
    \A r \in Readers : \A i \in 1..Len(view[r]) : \A k \in 1..Len(Lines) :
        Lines[k].hash = view[r][i].hash => k = i /\ Lines[k] = view[r][i]

SeenInv == LinesDistinct /\ HashesMinted /\ SeenInPlace

LEMMA LinesAre ==
    ASSUME NEW whole \in Seq(ContinuityEvent), NEW rest \in TailForm
    PROVE  LET lines == LinesOf(whole, rest)
           IN  /\ lines \in Seq(ContinuityEvent) /\ Len(lines) \in Nat /\ Len(whole) \in Nat
               /\ Len(lines) = IF rest.form = "none" THEN Len(whole) ELSE Len(whole) + 1
               /\ \A k \in 1..Len(whole) : k \in 1..Len(lines) /\ lines[k] = whole[k]
               /\ rest.form # "none" => lines[Len(whole) + 1] = rest.line
<1>1. rest.form # "none" => rest.line \in ContinuityEvent
    BY DEF TailForm, NoTail
<1>2. QED BY <1>1 DEF LinesOf

LEMMA ReadableLines == ASSUME TypeOK, Readable PROVE Events = Lines
BY DEF TypeOK, TailForm, NoTail, Readable, Events, Lines, LinesOf

(* A step keeps what it knows of the lines if each of them was there, at   *)
(* the same place, or is the last one and new.                             *)
LEMMA LinesStep ==
    ASSUME TypeOK, TypeOK', SeenInv, view' = view, minted <= minted',
           \A k \in 1..Len(Lines') :
               \/ k \in 1..Len(Lines) /\ Lines'[k] = Lines[k]
               \/ k = Len(Lines') /\ Lines'[k].hash > minted /\ Lines'[k].hash <= minted'
    PROVE  SeenInv'
<1>1. /\ minted \in Nat /\ minted' \in Nat
      /\ \A k \in 1..Len(Lines) : Lines[k].hash \in Nat
      /\ \A k \in 1..Len(Lines') : Lines'[k].hash \in Nat
      /\ \A r \in Readers : \A i \in 1..Len(view[r]) : view[r][i].hash \in Nat
    <2>1. Lines \in Seq(ContinuityEvent) /\ Lines' \in Seq(ContinuityEvent)
        BY LinesAre DEF Lines, TypeOK
    <2>2. ASSUME NEW evs \in Seq(ContinuityEvent), NEW k \in 1..Len(evs) PROVE evs[k].hash \in Nat
        <3>1. evs[k] \in ContinuityEvent
            OBVIOUS
        <3>2. QED BY <3>1 DEF ContinuityEvent
    <2>3. minted \in Nat /\ minted' \in Nat /\ \A r \in Readers : view[r] \in Seq(ContinuityEvent)
        BY DEF TypeOK
    <2>4. QED BY <2>1, <2>2, <2>3
<1>2. /\ \A k \in 1..Len(Lines) : Lines[k].hash <= minted
      /\ \A r \in Readers : \A i \in 1..Len(view[r]) : view[r][i].hash <= minted
    BY DEF SeenInv, HashesMinted
<1>3. \A a, b, c \in Nat : (a <= b /\ b <= c => a <= c) /\ (a <= b /\ c > b => a # c)
    OBVIOUS
<1>4. HashesMinted'
    BY <1>1, <1>2, <1>3 DEF HashesMinted
<1>5. LinesDistinct'
    BY <1>1, <1>2, <1>3 DEF SeenInv, LinesDistinct
<1>6. SeenInPlace'
    <2> SUFFICES ASSUME NEW r \in Readers, NEW i \in 1..Len(view[r]), NEW k \in 1..Len(Lines'),
                        Lines'[k].hash = view[r][i].hash
                 PROVE  k = i /\ Lines'[k] = view[r][i]
        BY DEF SeenInPlace
    <2>1. k \in 1..Len(Lines) /\ Lines'[k] = Lines[k]
        BY <1>1, <1>2, <1>3
    <2>2. QED BY <2>1 DEF SeenInv, SeenInPlace
<1>7. QED BY <1>4, <1>5, <1>6 DEF SeenInv

LEMMA NextSeenInv ==
    ASSUME TypeInv, TypeInv', ChainInv, SeenInv, [Next]_vars PROVE SeenInv'
<1>1. TypeOK /\ TypeOK' /\ minted \in Nat
    BY DEF TypeInv, TypeOK
<1>2. /\ Len(Lines) = IF tail.form = "none" THEN Len(file) ELSE Len(file) + 1
      /\ \A k \in 1..Len(file) : k \in 1..Len(Lines) /\ Lines[k] = file[k]
      /\ tail.form # "none" => Lines[Len(file) + 1] = tail.line
      /\ Len(file) \in Nat /\ Len(Lines) \in Nat /\ file \in Seq(ContinuityEvent)
    BY <1>1, LinesAre DEF TypeOK, Lines
<1>3. /\ Len(Lines') = IF tail'.form = "none" THEN Len(file') ELSE Len(file') + 1
      /\ \A k \in 1..Len(file') : k \in 1..Len(Lines') /\ Lines'[k] = file'[k]
      /\ tail'.form # "none" => Lines'[Len(file') + 1] = tail'.line
      /\ Len(file') \in Nat /\ Len(Lines') \in Nat
    BY <1>1, LinesAre DEF TypeOK, Lines
<1>4. ASSUME view' = view, minted' = minted, Len(Lines') <= Len(Lines),
             \A k \in 1..Len(Lines') : Lines'[k] = Lines[k]
      PROVE  SeenInv'
    <2>1. \A k \in 1..Len(Lines') : k \in 1..Len(Lines) /\ Lines'[k] = Lines[k]
        BY <1>2, <1>3, <1>4
    <2>2. minted <= minted'
        BY <1>1, <1>4
    <2>3. QED BY <1>1, <1>4, <2>1, <2>2, LinesStep
<1>5. ASSUME NEW w \in Writers, Write(w) PROVE SeenInv'
    <2>1. /\ file' = file /\ minted' = minted + 1 /\ view' = view
          /\ tail'.form # "none" /\ tail'.line.hash = minted + 1
        BY <1>5 DEF Write
    <2>2. Len(Lines') = Len(file) + 1
        BY <1>3, <2>1
    <2>3. ASSUME NEW k \in 1..Len(Lines')
          PROVE  \/ k \in 1..Len(Lines) /\ Lines'[k] = Lines[k]
                 \/ k = Len(Lines') /\ Lines'[k].hash > minted /\ Lines'[k].hash <= minted'
        <3>1. CASE k \in 1..Len(file)
            BY <1>2, <1>3, <2>1, <3>1
        <3>2. CASE k = Len(file) + 1
            <4>1. Lines'[k].hash = minted + 1
                BY <1>3, <2>1, <3>2
            <4>2. QED BY <1>1, <2>1, <2>2, <3>2, <4>1
        <3>3. QED BY <1>2, <2>2, <3>1, <3>2
    <2>4. minted <= minted'
        BY <1>1, <2>1
    <2>5. QED BY <1>1, <2>1, <2>3, <2>4, LinesStep
<1>6. ASSUME NEW w \in Writers, Flush(w) PROVE SeenInv'
    <2>1. /\ file' = Append(file, tail.line) /\ tail' = NoTail /\ tail.form # "none"
          /\ view' = view /\ minted' = minted
        BY <1>6 DEF Flush, TypeInv, MidWrite
    <2>2. Lines' = Lines
        BY <2>1 DEF Lines, LinesOf, NoTail
    <2>3. QED BY <1>2, <1>4, <2>1, <2>2
<1>7. ASSUME PowerLoss PROVE SeenInv'
    <2>1. view' = view /\ minted' = minted
        BY <1>7 DEF PowerLoss
    <2>2. CASE UNCHANGED <<file, tail>>
        BY <1>2, <1>4, <2>1, <2>2 DEF Lines
    <2>3. CASE tail' = NoTail /\ UNCHANGED file
        BY <1>2, <1>3, <1>4, <2>1, <2>3 DEF NoTail
    <2>4. CASE /\ Len(file) > synced
               /\ file' = SubSeq(file, 1, synced)
               /\ tail' \in {NoTail, [form |-> "cut", line |-> file[synced + 1]]}
        <3>1. synced \in Nat /\ Len(file') = synced /\ \A k \in 1..synced : file'[k] = file[k]
            BY <1>2, <2>4 DEF TypeInv, TypeOK
        <3>2. tail'.form = "none" \/ (tail'.form # "none" /\ tail'.line = file[synced + 1])
            BY <2>4 DEF NoTail
        <3>3. Len(Lines') <= Len(Lines) /\ Len(Lines') <= synced + 1
            BY <1>2, <1>3, <2>4, <3>1
        <3>4. ASSUME NEW k \in 1..Len(Lines') PROVE Lines'[k] = Lines[k]
            <4>1. CASE k \in 1..synced
                BY <1>2, <1>3, <2>4, <3>1, <4>1
            <4>2. CASE k = synced + 1
                <5>1. tail'.form # "none"
                    BY <1>3, <3>1, <4>2
                <5>2. synced + 1 \in 1..Len(file)
                    BY <1>2, <2>4, <3>1
                <5>3. QED BY <1>2, <1>3, <3>1, <3>2, <4>2, <5>1, <5>2
            <4>3. QED BY <1>3, <3>1, <3>3, <4>1, <4>2
        <3>5. QED BY <1>4, <2>1, <3>3, <3>4
    <2>5. QED BY <1>7, <2>2, <2>3, <2>4 DEF PowerLoss
<1>8. ASSUME NEW q \in Readers, Read(q) PROVE SeenInv'
    <2>1. /\ UNCHANGED <<file, tail, minted>> /\ view' = [view EXCEPT ![q] = Lines]
        BY <1>1, <1>8, ReadableLines DEF Read, disk
    <2>2. Lines' = Lines /\ \A r \in Readers : view'[r] = IF r = q THEN Lines ELSE view[r]
        BY <1>1, <2>1 DEF Lines, TypeOK
    <2> HIDE DEF Lines
    <2>3. QED BY <2>1, <2>2 DEF SeenInv, LinesDistinct, HashesMinted, SeenInPlace
<1>9. ASSUME UNCHANGED <<file, tail, minted, view>> PROVE SeenInv'
    BY <1>2, <1>4, <1>9 DEF Lines
<1>10. QED
    BY <1>5, <1>6, <1>7, <1>8, <1>9 DEF Next, WriterStep, Call, Lock, ReadHead, ReadHeadRaises,
       Raise, WriteRaises, Fsync, Unlock, Crash, vars, disk

(* What a reader has seen of acknowledged events stays where it was for as *)
(* long as the ledger parses: for any number of writers and readers, who-  *)
(* ever is killed, whatever is cut short and whatever the disk loses with  *)
(* the power (ledger.py:110-117).                                          *)
THEOREM WhatWasReadStays == Spec => []ViewIsStable
<1>1. Init => AckedSynced /\ SeenInv
    BY DEF Init, AckedSynced, SeenInv, LinesDistinct, HashesMinted, SeenInPlace, Lines, LinesOf, NoTail
<1>2. TypeInv /\ AckedSynced /\ SeenInv => ViewIsStable
    <2> SUFFICES ASSUME TypeInv, AckedSynced, SeenInv, Readable, NEW r \in Readers,
                        NEW i \in 1..Len(view[r]), view[r][i].hash \in acked
                 PROVE  i <= Len(Events) /\ Events[i] = view[r][i]
        BY DEF ViewIsStable
    <2>1. TypeOK /\ file \in Seq(ContinuityEvent) /\ synced \in 0..Len(file) /\ Events = Lines
        BY ReadableLines DEF TypeInv, TypeOK
    <2>2. PICK k \in 1..synced : file[k].hash = view[r][i].hash
        BY DEF AckedSynced, OnDisk
    <2>3. k \in 1..Len(file)
        BY <2>1
    <2>4. k \in 1..Len(Lines) /\ Lines[k] = file[k] /\ Len(Lines) \in Nat
        BY <2>1, <2>3, LinesAre DEF Lines, TypeOK
    <2>5. k = i /\ Lines[k] = view[r][i]
        BY <2>2, <2>4 DEF SeenInv, SeenInPlace
    <2>6. QED BY <2>1, <2>4, <2>5
<1>3. QED BY <1>1, <1>2, NextAckedSynced, NextSeenInv, SpecChainInv, PTL DEF Spec
=============================================================================
