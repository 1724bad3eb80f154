---------------------------- MODULE AnchorsProofs ----------------------------
(***************************************************************************)
(* Theorems about Anchors, for any processes, bodies and ledger to start   *)
(* from: a valid verification saw the ledger that was anchored, and a      *)
(* ledger that is as it was anchored verifies.                             *)
(*                                                                         *)
(* The last hash of a valid chain covers all its lines: in a chain with a  *)
(* line whose hash does not cover those up to it, there is a first such    *)
(* line, and the hash before it, which it covers, is right.  A             *)
(* verification reads the last hash before it checks the chain, while      *)
(* others append: the lines it read are among those it checks, because     *)
(* nobody edits the file while a command is under way.                     *)
(***************************************************************************)
EXTENDS Anchors, FoldLemmas, TLAPS

LEMMA HashesCover ==
    ASSUME NEW lines, IsSequence(lines), verify_chain(lines), NEW i \in 1..Len(lines)
    PROVE  lines[i].hash = BodiesOf(SubSeq(lines, 1, i))
<1> DEFINE wrong == {k \in 1..Len(lines) : lines[k].hash # BodiesOf(SubSeq(lines, 1, k))}
<1>1. PICK S : lines \in Seq(S)
    BY DEF IsSequence
<1>2. DOMAIN lines = 1..Len(lines) /\ Len(lines) \in Nat
    BY <1>1
<1>3. ASSUME wrong # {} PROVE FALSE
    <2>1. wrong \in SUBSET Nat
        BY <1>2
    <2>2. PICK k \in wrong : \A l \in wrong : k <= l
        <3> HIDE DEF wrong
        <3>1. QED BY <1>3, <2>1, MinIsLeast
    <2> DEFINE before == SubSeq(lines, 1, k - 1)
    <2>3. /\ k \in 1..Len(lines) /\ k - 1 \in 0..Len(lines)
          /\ lines[k].hash # BodiesOf(SubSeq(lines, 1, k))
        BY <1>2
    <2>4. before \in Seq(S) /\ Len(before) = k - 1 /\ \A j \in 1..k - 1 : before[j] = lines[j]
        BY <1>1, <2>3
    <2>5. lines[k].hash = Append(last_hash(before), lines[k].body)
        BY <1>2, <2>3 DEF verify_chain, Line
    <2>6. last_hash(before) = BodiesOf(before)
        <3>1. CASE k = 1
            <4>1. before = <<>>
                BY <2>4, <3>1
            <4>2. QED BY <4>1 DEF last_hash, BodiesOf
        <3>2. CASE k # 1
            <4>1. k - 1 \in 1..Len(lines) /\ before # <<>> /\ before[Len(before)] = lines[k - 1]
                BY <2>3, <2>4, <3>2
            <4>2. k - 1 \notin wrong
                BY <2>2, <2>3
            <4>3. lines[k - 1].hash = BodiesOf(before)
                BY <4>1, <4>2
            <4>4. QED BY <4>1, <4>3 DEF last_hash
        <3>3. QED BY <3>1, <3>2
    <2>7. Append(BodiesOf(before), lines[k].body) = BodiesOf(SubSeq(lines, 1, k))
        BY <1>1, <2>3, <2>4 DEF BodiesOf
    <2>8. QED BY <2>3, <2>5, <2>6, <2>7
<1>4. QED BY <1>3

(* The last hash of a valid chain covers all its lines.                    *)
LEMMA LastHashCovers ==
    ASSUME NEW lines, IsSequence(lines), verify_chain(lines)
    PROVE  last_hash(lines) = BodiesOf(lines)
<1>1. PICK S : lines \in Seq(S)
    BY DEF IsSequence
<1>2. CASE lines = <<>>
    BY <1>2 DEF last_hash, BodiesOf
<1>3. CASE lines # <<>>
    <2>1. Len(lines) \in 1..Len(lines) /\ SubSeq(lines, 1, Len(lines)) = lines
        BY <1>1, <1>3
    <2>2. lines[Len(lines)].hash = BodiesOf(lines)
        BY <2>1, HashesCover
    <2>3. QED BY <1>3, <2>2 DEF last_hash
<1>4. QED BY <1>2, <1>3

(* What comes before the last line of a valid chain is a valid chain.      *)
LEMMA ChainBefore ==
    ASSUME NEW lines, IsSequence(lines), NEW line, verify_chain(Append(lines, line))
    PROVE  verify_chain(lines)
<1> DEFINE more == Append(lines, line)
<1>1. PICK S : lines \in Seq(S)
    BY DEF IsSequence
<1>2. ASSUME NEW i \in DOMAIN lines PROVE lines[i] = Line(SubSeq(lines, 1, i - 1), lines[i].body)
    <2>1. lines \in Seq(S \cup {line}) /\ more \in Seq(S \cup {line})
        BY <1>1
    <2>2. /\ i \in 1..Len(lines) /\ i \in DOMAIN more /\ more[i] = lines[i]
          /\ SubSeq(more, 1, i - 1) = SubSeq(lines, 1, i - 1)
        BY <2>1
    <2>3. QED BY <2>2 DEF verify_chain
<1>3. QED BY <1>2 DEF verify_chain
-----------------------------------------------------------------------------
(* What every handler knows, whoever overlaps with it.                     *)

\* A valid verification, if the chain it has yet to check turns out valid.
CallRight(evs, c) ==
    /\ c.do = "see_chain" => (c.match /\ verify_chain(evs) => c.read = c.head)
    /\ c.do = "export" => (c.valid => c.read = c.head)

Inv ==
    /\ IsSequence(log) /\ todo = [p \in Procs |-> todo[p]]
    /\ \A p \in Procs : todo[p] = <<>> \/ \E c : todo[p] = <<c>> /\ CallRight(log, c)
    /\ exported.valid => exported.read = exported.head

LEMMA CallStaysRight ==
    ASSUME NEW evs, IsSequence(evs), NEW line, NEW c, CallRight(evs, c)
    PROVE  CallRight(Append(evs, line), c)
<1>1. verify_chain(Append(evs, line)) => verify_chain(evs)
    BY ChainBefore
<1>2. QED BY <1>1 DEF CallRight

\* The only call of p, and what replaces it.
LEMMA OnlyCall ==
    ASSUME Inv, NEW p \in Procs, todo[p] # Idle
    PROVE  todo[p] = <<Call(p)>> /\ CallRight(log, Call(p)) /\ Tail(todo[p]) = <<>>
<1>1. PICK c : todo[p] = <<c>> /\ CallRight(log, c)
    BY DEF Inv, Idle
<1>2. Head(<<c>>) = c /\ Tail(<<c>>) = <<>>
    OBVIOUS
<1>3. QED BY <1>1, <1>2 DEF Call

LEMMA Began ==
    ASSUME Inv, NEW p \in Procs, NEW command, NEW c, Begin(p, command, <<c>>),
           UNCHANGED <<anchors, exported, fresh, edits>>, CallRight(log, c)
    PROVE  Inv'
<1>1. log' = log /\ todo' = [todo EXCEPT ![p] = <<c>>] /\ exported' = exported
    BY DEF Begin, BeginCalls
<1>2. QED BY <1>1 DEF Inv

LEMMA Returned ==
    ASSUME Inv, NEW p \in Procs, todo[p] # Idle, NEW c, Return(p, TRUE, <<c>>),
           UNCHANGED <<anchors, exported, fresh, edits>>, CallRight(log, c)
    PROVE  Inv'
<1>1. Tail(todo[p]) = <<>> /\ <<c>> \o <<>> = <<c>>
    BY OnlyCall
<1>2. log' = log /\ todo' = [todo EXCEPT ![p] = <<c>>] /\ exported' = exported
    BY <1>1 DEF Return
<1>3. QED BY <1>2 DEF Inv

(* The read a call makes, and the call that follows it.                    *)
ReadThen(d, c) ==
    \/ /\ d.do = "load_anchors" /\ c.do = "count_events"
       /\ c.previous = IF anchors = <<>> THEN GENESIS_HASH ELSE Last(anchors).hash
    \/ /\ d.do = "count_events" /\ c.do = "read_head"
       /\ c.previous = d.previous /\ c.count = Len(log)
    \/ /\ d.do = "read_head" /\ c.do = "check_chain"
       /\ c.previous = d.previous /\ c.count = d.count /\ c.head = last_hash(log)
    \/ /\ d.do = "check_chain" /\ c.do = "write_anchor"
       /\ c.previous = d.previous /\ c.count = d.count /\ c.head = d.head
       /\ c.chain <=> verify_chain(log)
    \/ /\ d.do = "verify_anchors" /\ verify_anchor_chain
       /\ c.do = "see_count" /\ c.anchor = Last(anchors)
    \/ d.do = "verify_anchors" /\ ~verify_anchor_chain /\ c.do = "export" /\ ~c.valid
    \/ /\ d.do = "see_count" /\ c.do = "see_head"
       /\ c.anchor = d.anchor /\ (c.match <=> d.anchor.count = Len(log))
    \/ /\ d.do = "see_head" /\ c.do = "see_chain"
       /\ c.head = d.anchor.head /\ c.read = BodiesOf(log)
       /\ c.match <=> d.match /\ d.anchor.head = last_hash(log)
    \/ /\ d.do = "see_chain" /\ c.do = "export"
       /\ c.head = d.head /\ c.read = d.read
       /\ c.valid <=> d.match /\ verify_chain(log)

LEMMA ReadsReturn ==
    ASSUME NEW p \in Procs, Reads(p)
    PROVE  todo[p] # Idle /\ \E c : Return(p, TRUE, <<c>>) /\ ReadThen(Call(p), c)
<1> DEFINE d == Call(p)
<1>1. CASE load_anchor_records(p)
    <2> DEFINE c == [do |-> "count_events",
                     previous |-> IF anchors = <<>> THEN GENESIS_HASH ELSE Last(anchors).hash]
    <2>1. Return(p, TRUE, <<c>>) /\ todo[p] # Idle /\ d.do = "load_anchors"
        BY <1>1 DEF load_anchor_records, Called, Call
    <2>2. ReadThen(d, c)
        BY <2>1 DEF ReadThen
    <2> HIDE DEF c
    <2>3. QED BY <2>1, <2>2
<1>2. CASE count_events(p)
    <2> DEFINE c == [do |-> "read_head", previous |-> d.previous, count |-> Len(log)]
    <2>1. Return(p, TRUE, <<c>>) /\ todo[p] # Idle /\ d.do = "count_events"
        BY <1>2 DEF count_events, Called, Call
    <2>2. ReadThen(d, c)
        BY <2>1 DEF ReadThen
    <2> HIDE DEF c
    <2>3. QED BY <2>1, <2>2
<1>3. CASE read_head(p)
    <2> DEFINE c == [do |-> "check_chain", previous |-> d.previous, count |-> d.count,
                     head |-> last_hash(log)]
    <2>1. Return(p, TRUE, <<c>>) /\ todo[p] # Idle /\ d.do = "read_head"
        BY <1>3 DEF read_head, Called, Call
    <2>2. ReadThen(d, c)
        BY <2>1 DEF ReadThen
    <2> HIDE DEF c
    <2>3. QED BY <2>1, <2>2
<1>4. CASE check_chain(p)
    <2> DEFINE c == [do |-> "write_anchor", previous |-> d.previous, count |-> d.count,
                     head |-> d.head, chain |-> verify_chain(log)]
    <2>1. Return(p, TRUE, <<c>>) /\ todo[p] # Idle /\ d.do = "check_chain"
        BY <1>4 DEF check_chain, Called, Call
    <2>2. ReadThen(d, c)
        BY <2>1 DEF ReadThen
    <2> HIDE DEF c
    <2>3. QED BY <2>1, <2>2
<1>5. CASE verify_anchors(p)
    <2> DEFINE c == IF verify_anchor_chain
                    THEN [do |-> "see_count", anchor |-> Last(anchors)]
                    ELSE [do |-> "export", valid |-> FALSE, head |-> <<>>, read |-> <<>>]
    <2>1. Return(p, TRUE, <<c>>) /\ todo[p] # Idle /\ d.do = "verify_anchors"
        BY <1>5 DEF verify_anchors, Called, Call
    <2>2. ReadThen(d, c)
        BY <2>1 DEF ReadThen
    <2> HIDE DEF c
    <2>3. QED BY <2>1, <2>2
<1>6. CASE see_count(p)
    <2> DEFINE c == [do |-> "see_head", anchor |-> d.anchor, match |-> d.anchor.count = Len(log)]
    <2>1. Return(p, TRUE, <<c>>) /\ todo[p] # Idle /\ d.do = "see_count"
        BY <1>6 DEF see_count, Called, Call
    <2>2. ReadThen(d, c)
        BY <2>1 DEF ReadThen
    <2> HIDE DEF c
    <2>3. QED BY <2>1, <2>2
<1>7. CASE see_head(p)
    <2> DEFINE c == [do |-> "see_chain", head |-> d.anchor.head, read |-> BodiesOf(log),
                     match |-> d.match /\ d.anchor.head = last_hash(log)]
    <2>1. Return(p, TRUE, <<c>>) /\ todo[p] # Idle /\ d.do = "see_head"
        BY <1>7 DEF see_head, Called, Call
    <2>2. ReadThen(d, c)
        BY <2>1 DEF ReadThen
    <2> HIDE DEF c
    <2>3. QED BY <2>1, <2>2
<1>8. CASE see_chain(p)
    <2> DEFINE c == [do |-> "export", valid |-> d.match /\ verify_chain(log),
                     head |-> d.head, read |-> d.read]
    <2>1. Return(p, TRUE, <<c>>) /\ todo[p] # Idle /\ d.do = "see_chain"
        BY <1>8 DEF see_chain, Called, Call
    <2>2. ReadThen(d, c)
        BY <2>1 DEF ReadThen
    <2> HIDE DEF c
    <2>3. QED BY <2>1, <2>2
<1>9. QED BY <1>1, <1>2, <1>3, <1>4, <1>5, <1>6, <1>7, <1>8 DEF Reads

LEMMA ReadsPreserve ==
    ASSUME Inv, NEW p \in Procs, Reads(p), UNCHANGED <<anchors, exported, fresh, edits>>
    PROVE  Inv'
<1>1. PICK c : Return(p, TRUE, <<c>>) /\ ReadThen(Call(p), c)
    BY ReadsReturn
<1>2. todo[p] # Idle /\ CallRight(log, Call(p))
    BY ReadsReturn, OnlyCall
<1>3. verify_chain(log) => last_hash(log) = BodiesOf(log)
    BY LastHashCovers DEF Inv
<1>4. CallRight(log, c)
    BY <1>1, <1>2, <1>3 DEF ReadThen, CallRight
<1>5. QED BY <1>1, <1>2, <1>4, Returned

LEMMA InvStep == ASSUME AnchorsAssumption, Inv, [Next]_vars PROVE Inv'
<1>1. ASSUME NEW p \in Procs, UNCHANGED <<anchors, exported, fresh, edits>>,
             AppendLine(p) \/ AnchorHead(p) \/ ExportAnchor(p)
      PROVE  Inv'
    <2>1. CASE AppendLine(p)
        <3>1. PICK body \in Bodies : Begin(p, "append", <<[do |-> "append_line", body |-> body]>>)
            BY <2>1 DEF AppendLine
        <3>2. CallRight(log, [do |-> "append_line", body |-> body])
            BY DEF CallRight
        <3>3. QED BY <1>1, <3>1, <3>2, Began
    <2>2. CASE AnchorHead(p)
        <3>1. CallRight(log, [do |-> "load_anchors"])
            BY DEF CallRight
        <3>2. QED BY <1>1, <2>2, <3>1, Began DEF AnchorHead
    <2>3. CASE ExportAnchor(p)
        <3>1. CallRight(log, [do |-> "verify_anchors"])
            BY DEF CallRight
        <3>2. QED BY <1>1, <2>3, <3>1, Began DEF ExportAnchor
    <2>4. QED BY <1>1, <2>1, <2>2, <2>3
<1>2. ASSUME NEW p \in Procs, UNCHANGED <<anchors, exported, fresh, edits>>, Crash(p) PROVE Inv'
    BY <1>2 DEF Crash, Inv, Idle
<1>3. ASSUME NEW p \in Procs, append_line(p) PROVE Inv'
    <2> DEFINE line == Line(log, Call(p).body)
    <2>1. log' = Append(log, line) /\ todo' = [todo EXCEPT ![p] = <<>>] /\ exported' = exported
        BY <1>3 DEF append_line, Idle
    <2>2. IsSequence(log') /\ \A c : CallRight(log, c) => CallRight(log', c)
        BY <2>1, Appended, CallStaysRight DEF Inv
    <2> HIDE DEF line
    <2>3. QED BY <2>1, <2>2 DEF Inv
<1>4. ASSUME NEW p \in Procs, write_anchor(p) PROVE Inv'
    BY <1>4 DEF write_anchor, Inv, Idle
<1>5. ASSUME NEW p \in Procs, export_latest_anchor(p) PROVE Inv'
    <2>1. /\ log' = log /\ todo' = [todo EXCEPT ![p] = <<>>]
          /\ exported' = Exported(Call(p).valid, Call(p).head, Call(p).read)
          /\ todo[p] # Idle /\ Call(p).do = "export"
        BY <1>5 DEF export_latest_anchor, Idle, Called, Call
    <2>2. CallRight(log, Call(p))
        BY <2>1, OnlyCall
    <2>3. exported'.valid => exported'.read = exported'.head
        BY <2>1, <2>2 DEF CallRight, Exported
    <2>4. QED BY <2>1, <2>3 DEF Inv
<1>6. CASE Edit
    <2>1. (\A p \in Procs : todo[p] = <<>>) /\ todo' = todo /\ exported' = exported
        BY <1>6 DEF Edit, Quiescent, Idle
    <2>2. PICK S : log \in Seq(S)
        BY DEF Inv, IsSequence
    <2>3. ASSUME NEW i \in DOMAIN log, NEW body, log' = [log EXCEPT ![i].body = body]
          PROVE  IsSequence(log')
        <3>1. /\ [log EXCEPT ![i].body = body]
                 = [k \in 1..Len(log) |-> [log EXCEPT ![i].body = body][k]]
              /\ Len(log) \in Nat
            BY <2>2
        <3>2. QED BY <2>3, <3>1, BuiltCalls
    <2>4. ASSUME NEW n \in 0..(Len(log) - 1), log' = SubSeq(log, 1, n) PROVE IsSequence(log')
        <3>1. SubSeq(log, 1, n) \in Seq(S)
            BY <2>2
        <3>2. QED BY <2>4, <3>1, Zenon DEF IsSequence
    <2>5. ASSUME NEW i \in DOMAIN log, NEW body, log' = Rewritten([BodiesOf(log) EXCEPT ![i] = body])
          PROVE  IsSequence(log')
        <3>1. log' = [k \in 1..Len(log) |-> log'[k]] /\ Len(log) \in Nat
            BY <2>2, <2>5 DEF Rewritten, BodiesOf
        <3>2. QED BY <3>1, BuiltCalls
    <2>6. IsSequence(log')
        BY <1>6, <2>3, <2>4, <2>5 DEF Edit
    <2>7. QED BY <2>1, <2>6 DEF Inv
<1>7. CASE UNCHANGED vars
    <2>1. log' = log /\ todo' = todo /\ exported' = exported
        BY <1>7 DEF vars, handlers
    <2>2. QED BY <2>1 DEF Inv
<1>8. QED BY <1>1, <1>2, <1>3, <1>4, <1>5, <1>6, <1>7, ReadsPreserve DEF Next

LEMMA InvInit == ASSUME AnchorsAssumption, Init PROVE Inv
<1>1. IsSequence(log) /\ todo = [p \in Procs |-> <<>>] /\ ~exported.valid
    BY DEF Init, HandlersInit, AnchorsAssumption, IsSequence, NoExport, Idle
<1>2. QED BY <1>1 DEF Inv

(* A valid verification is never a mistake.                                *)
THEOREM ValidVerificationsAreRight == Spec => []ValidMeansUntouched
<1>1. Init => Inv
    BY InvInit, AnchorsAssumption
<1>2. Inv /\ [Next]_vars => Inv'
    BY InvStep, AnchorsAssumption
<1>3. Inv => ValidMeansUntouched
    BY DEF Inv, ValidMeansUntouched
<1>4. QED BY <1>1, <1>2, <1>3, PTL DEF Spec
-----------------------------------------------------------------------------
(* What a handler knows while handlers do not overlap.                     *)

LastAnchorHash == IF anchors = <<>> THEN GENESIS_HASH ELSE Last(anchors).hash

\* What a call holds of the anchors and of the ledger is still so.
Timely(c) ==
    /\ c.do \in {"count_events", "read_head", "check_chain", "write_anchor"} =>
           c.previous = LastAnchorHash
    /\ c.do \in {"read_head", "check_chain", "write_anchor"} => c.count = Len(log)
    /\ c.do \in {"check_chain", "write_anchor"} => c.head = last_hash(log)
    /\ c.do = "write_anchor" => (c.chain <=> verify_chain(log))
    /\ fresh =>
           /\ c.do \in {"see_count", "see_head"} => c.anchor = Last(anchors)
           /\ c.do \in {"see_head", "see_chain"} => c.match
           /\ c.do = "export" => c.valid

\* The last anchor is of the ledger as it is.
Anchored ==
    /\ anchors # <<>> /\ verify_chain(log)
    /\ Last(anchors).count = Len(log) /\ Last(anchors).head = last_hash(log)

FreshInv ==
    /\ IsSequence(anchors)
    /\ ~overlap =>
           /\ \A p, q \in Procs : todo[p] # Idle /\ todo[q] # Idle => p = q
           /\ \A p \in Procs : todo[p] # Idle => Timely(Call(p))
           /\ anchors # <<>> => verify_anchor_chain
           /\ fresh => Anchored
           /\ exported.fresh => exported.valid

LEMMA FreshBegan ==
    ASSUME Inv, FreshInv, NEW p \in Procs, NEW command, NEW c, Begin(p, command, <<c>>),
           UNCHANGED <<anchors, exported, fresh, edits>>, Timely(c)
    PROVE  FreshInv'
<1>1. /\ log' = log /\ todo' = [todo EXCEPT ![p] = <<c>>] /\ exported' = exported
      /\ anchors' = anchors /\ fresh' = fresh
      /\ ~overlap' => ~overlap /\ \A q \in Procs : todo[q] = Idle
    BY DEF Begin, BeginCalls, Quiescent
<1>2. todo'[p] = <<c>> /\ \A q \in Procs : q # p => todo'[q] = todo[q]
    BY <1>1 DEF Inv
<1>3. Head(<<c>>) = c
    OBVIOUS
<1>4. ASSUME ~overlap', NEW q \in Procs, todo'[q] # Idle PROVE q = p /\ Timely(Call(q))'
    <2>1. q = p
        BY <1>1, <1>2, <1>4
    <2>2. Call(q)' = c
        BY <2>1, <1>2, <1>3 DEF Call
    <2>3. QED BY <1>1, <2>1, <2>2 DEF Timely, LastAnchorHash
<1>5. QED BY <1>1, <1>4 DEF FreshInv, Anchored, verify_anchor_chain, Idle

LEMMA FreshReads ==
    ASSUME Inv, FreshInv, NEW p \in Procs, Reads(p),
           UNCHANGED <<anchors, exported, fresh, edits>>
    PROVE  FreshInv'
<1>1. PICK c : Return(p, TRUE, <<c>>) /\ ReadThen(Call(p), c)
    BY ReadsReturn
<1>2. todo[p] # Idle /\ Tail(todo[p]) = <<>>
    BY ReadsReturn, OnlyCall
<1>3. <<c>> \o <<>> = <<c>> /\ Head(<<c>>) = c
    OBVIOUS
<1>4. /\ log' = log /\ todo' = [todo EXCEPT ![p] = <<c>>] /\ exported' = exported
      /\ anchors' = anchors /\ fresh' = fresh /\ overlap' = overlap
    BY <1>1, <1>2, <1>3 DEF Return
<1>5. todo'[p] = <<c>> /\ \A q \in Procs : q # p => todo'[q] = todo[q]
    BY <1>4 DEF Inv
<1>6. ASSUME ~overlap PROVE Timely(c)
    <2>1. Timely(Call(p)) /\ (fresh => Anchored) /\ (anchors # <<>> => verify_anchor_chain)
        BY <1>2, <1>6 DEF FreshInv
    <2>2. QED BY <1>1, <2>1 DEF Timely, ReadThen, Anchored, LastAnchorHash
<1>7. ASSUME ~overlap', NEW q \in Procs, todo'[q] # Idle PROVE q = p /\ Timely(Call(q))'
    <2>1. q = p
        BY <1>2, <1>4, <1>5, <1>7 DEF FreshInv
    <2>2. Call(q)' = c
        BY <2>1, <1>5, <1>3 DEF Call
    <2>3. QED BY <1>4, <1>6, <1>7, <2>1, <2>2 DEF Timely, LastAnchorHash
<1>8. QED BY <1>4, <1>7 DEF FreshInv, Anchored, verify_anchor_chain

LEMMA FreshAppend ==
    ASSUME Inv, FreshInv, NEW p \in Procs, append_line(p)
    PROVE  FreshInv'
<1>1. /\ todo' = [todo EXCEPT ![p] = Idle] /\ exported' = exported /\ todo[p] # Idle
      /\ anchors' = anchors /\ ~fresh' /\ overlap' = overlap
    BY DEF append_line, Called
<1>2. todo'[p] = Idle /\ \A q \in Procs : q # p => todo'[q] = todo[q]
    BY <1>1 DEF Inv
<1>3. ASSUME ~overlap', NEW q \in Procs PROVE todo'[q] = Idle
    BY <1>1, <1>2, <1>3 DEF FreshInv
<1>4. QED BY <1>1, <1>3 DEF FreshInv, verify_anchor_chain

LEMMA FreshAnchor ==
    ASSUME Inv, FreshInv, NEW p \in Procs, write_anchor(p)
    PROVE  FreshInv'
<1> DEFINE call == Call(p)
           anchor == [hash |-> Len(anchors) + 1, previous |-> call.previous,
                      count |-> call.count, head |-> call.head]
<1>1. /\ todo' = [todo EXCEPT ![p] = Idle] /\ exported' = exported /\ todo[p] # Idle
      /\ call.do = "write_anchor" /\ log' = log /\ overlap' = overlap
      /\ fresh' <=> ~overlap /\ call.chain
    BY DEF write_anchor, Called, Call
<1>2. anchors' = Append(anchors, anchor)
    BY DEF write_anchor
<1>3. /\ anchor.previous = call.previous /\ anchor.count = call.count
      /\ anchor.head = call.head
    OBVIOUS
<1> HIDE DEF anchor
<1>4. /\ IsSequence(anchors') /\ Len(anchors) \in Nat /\ Len(anchors') = Len(anchors) + 1
      /\ \A k \in 1..Len(anchors) : anchors'[k] = anchors[k]
      /\ anchors'[Len(anchors) + 1] = anchor
    BY <1>2, Appended DEF FreshInv
<1>5. DOMAIN anchors = 1..Len(anchors) /\ DOMAIN anchors' = 1..Len(anchors')
      /\ (anchors = <<>> <=> Len(anchors) = 0) /\ anchors' # <<>>
    BY <1>4 DEF FreshInv, IsSequence
<1>6. todo'[p] = Idle /\ \A q \in Procs : q # p => todo'[q] = todo[q]
    BY <1>1 DEF Inv
<1>7. ASSUME ~overlap', NEW q \in Procs PROVE todo'[q] = Idle
    BY <1>1, <1>6, <1>7 DEF FreshInv
<1>8. ASSUME ~overlap PROVE verify_anchor_chain' /\ (fresh' => Anchored')
    <2>1. Timely(call) /\ (anchors # <<>> => verify_anchor_chain)
        BY <1>1, <1>8 DEF FreshInv
    <2>2. ASSUME NEW i \in 1..Len(anchors)
          PROVE  anchors'[i].previous = IF i = 1 THEN GENESIS_HASH ELSE anchors'[i - 1].hash
        <3>1. anchors'[i] = anchors[i] /\ i \in DOMAIN anchors /\ anchors # <<>>
            BY <1>4, <1>5
        <3>2. i # 1 => anchors'[i - 1] = anchors[i - 1]
            BY <1>4
        <3>3. anchors[i].previous = IF i = 1 THEN GENESIS_HASH ELSE anchors[i - 1].hash
            BY <2>1, <3>1 DEF verify_anchor_chain
        <3>4. QED BY <3>1, <3>2, <3>3
    <2>3. anchor.previous = IF anchors = <<>> THEN GENESIS_HASH ELSE anchors[Len(anchors)].hash
        BY <1>1, <1>3, <2>1 DEF Timely, LastAnchorHash, Last
    <2>4. Last(anchors') = anchor
        BY <1>4 DEF Last
    <2>5. verify_anchor_chain'
        <3>1. ASSUME NEW i \in DOMAIN anchors'
              PROVE  anchors'[i].previous = IF i = 1 THEN GENESIS_HASH ELSE anchors'[i - 1].hash
            <4>1. CASE i \in 1..Len(anchors)
                BY <2>2, <4>1
            <4>2. CASE i = Len(anchors) + 1
                <5>1. anchors'[i] = anchor
                    BY <1>4, <4>2
                <5>2. i # 1 => i - 1 = Len(anchors) /\ anchors'[i - 1] = anchors[i - 1]
                    BY <1>4, <4>2
                <5>3. QED BY <1>5, <2>3, <4>2, <5>1, <5>2
            <4>3. QED BY <1>4, <1>5, <4>1, <4>2
        <3>2. QED BY <1>5, <3>1 DEF verify_anchor_chain
    <2>6. fresh' => Anchored'
        <3>1. call.count = Len(log) /\ call.head = last_hash(log)
              /\ (call.chain <=> verify_chain(log))
            BY <1>1, <2>1 DEF Timely
        <3>2. QED BY <1>1, <1>3, <1>5, <2>4, <3>1 DEF Anchored
    <2>7. QED BY <2>5, <2>6
<1>9. ~overlap' => (exported'.fresh => exported'.valid)
    BY <1>1 DEF FreshInv
<1>10. QED BY <1>1, <1>4, <1>7, <1>8, <1>9 DEF FreshInv

LEMMA FreshStep == ASSUME AnchorsAssumption, Inv, FreshInv, [Next]_vars PROVE FreshInv'
<1>1. ASSUME NEW p \in Procs, UNCHANGED <<anchors, exported, fresh, edits>>,
             AppendLine(p) \/ AnchorHead(p) \/ ExportAnchor(p)
      PROVE  FreshInv'
    <2>1. CASE AppendLine(p)
        <3>1. PICK body \in Bodies : Begin(p, "append", <<[do |-> "append_line", body |-> body]>>)
            BY <2>1 DEF AppendLine
        <3>2. Timely([do |-> "append_line", body |-> body])
            BY DEF Timely
        <3>3. QED BY <1>1, <3>1, <3>2, FreshBegan
    <2>2. CASE AnchorHead(p)
        <3>1. Timely([do |-> "load_anchors"])
            BY DEF Timely
        <3>2. QED BY <1>1, <2>2, <3>1, FreshBegan DEF AnchorHead
    <2>3. CASE ExportAnchor(p)
        <3>1. Timely([do |-> "verify_anchors"])
            BY DEF Timely
        <3>2. QED BY <1>1, <2>3, <3>1, FreshBegan DEF ExportAnchor
    <2>4. QED BY <1>1, <2>1, <2>2, <2>3
<1>2. ASSUME NEW p \in Procs, UNCHANGED <<anchors, exported, fresh, edits>>, Crash(p)
      PROVE  FreshInv'
    <2>1. /\ log' = log /\ todo' = [todo EXCEPT ![p] = Idle] /\ exported' = exported
          /\ anchors' = anchors /\ fresh' = fresh /\ overlap' = overlap
        BY <1>2 DEF Crash
    <2>2. todo'[p] = Idle /\ \A q \in Procs : q # p => todo'[q] = todo[q]
        BY <2>1 DEF Inv
    <2>3. ASSUME NEW q \in Procs, todo'[q] # Idle
          PROVE  todo[q] = todo'[q] /\ (Timely(Call(q)) => Timely(Call(q))')
        <3>1. todo[q] = todo'[q]
            BY <2>2, <2>3
        <3>2. QED BY <2>1, <3>1 DEF Timely, LastAnchorHash, Call
    <2>4. QED BY <2>1, <2>3 DEF FreshInv, Anchored, verify_anchor_chain
<1>3. ASSUME NEW p \in Procs, export_latest_anchor(p) PROVE FreshInv'
    <2>1. /\ log' = log /\ todo' = [todo EXCEPT ![p] = Idle]
          /\ exported' = Exported(Call(p).valid, Call(p).head, Call(p).read)
          /\ todo[p] # Idle /\ Call(p).do = "export"
          /\ anchors' = anchors /\ fresh' = fresh /\ overlap' = overlap
        BY <1>3 DEF export_latest_anchor, Called, Call
    <2>2. todo'[p] = Idle /\ \A q \in Procs : q # p => todo'[q] = todo[q]
        BY <2>1 DEF Inv
    <2>3. ASSUME ~overlap', NEW q \in Procs PROVE todo'[q] = Idle
        BY <2>1, <2>2, <2>3 DEF FreshInv
    <2>4. ~overlap' => (exported'.fresh => exported'.valid)
        BY <2>1 DEF FreshInv, Timely, Exported
    <2>5. QED BY <2>1, <2>3, <2>4 DEF FreshInv, Anchored, verify_anchor_chain
<1>4. CASE Edit
    <2>1. /\ \A p \in Procs : todo[p] = Idle
          /\ todo' = todo /\ exported' = exported
          /\ anchors' = anchors /\ ~fresh' /\ overlap' = overlap
        BY <1>4 DEF Edit, Quiescent
    <2>2. QED BY <2>1 DEF FreshInv, verify_anchor_chain
<1>5. CASE UNCHANGED vars
    <2>1. /\ log' = log /\ todo' = todo /\ exported' = exported
          /\ anchors' = anchors /\ fresh' = fresh /\ overlap' = overlap
        BY <1>5 DEF vars, handlers
    <2>2. QED BY <2>1 DEF FreshInv, Anchored, verify_anchor_chain, Timely, LastAnchorHash, Call
<1>6. QED BY <1>1, <1>2, <1>3, <1>4, <1>5, FreshReads, FreshAppend, FreshAnchor DEF Next

LEMMA FreshInit == ASSUME Init PROVE FreshInv
<1>1. anchors = <<>> /\ ~fresh /\ todo = [p \in Procs |-> Idle] /\ ~exported.fresh
    BY DEF Init, HandlersInit, NoExport
<1>2. QED BY <1>1, NoElement DEF FreshInv

(* While commands do not overlap, a ledger that nothing happened to since  *)
(* a valid one was anchored verifies, and the anchors form one chain.      *)
THEOREM FreshAnchorsVerify == Spec => []FreshAnchorVerifies
<1>1. Init => Inv /\ FreshInv
    BY InvInit, FreshInit, AnchorsAssumption
<1>2. Inv /\ FreshInv /\ [Next]_vars => Inv' /\ FreshInv'
    BY InvStep, FreshStep, AnchorsAssumption
<1>3. FreshInv => FreshAnchorVerifies
    BY DEF FreshInv, FreshAnchorVerifies
<1>4. QED BY <1>1, <1>2, <1>3, PTL DEF Spec
=============================================================================
