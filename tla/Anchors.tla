------------------------------- MODULE Anchors -------------------------------
(***************************************************************************)
(* Ledger anchors (pca/anchors.py): records, in a file of their own, of    *)
(* how long the ledger was and what its last hash was, each with the hash  *)
(* of the anchor before it.  An anchor is made and verified in several     *)
(* reads without a lock, while other commands append to the ledger.        *)
(*                                                                         *)
(* A line of the ledger is a body and a hash.  Hashes do not collide, so   *)
(* the hash of a line is written as the bodies it covers; the hash of an   *)
(* anchor, which covers a fresh uuid, as a number nobody used before.      *)
(***************************************************************************)
EXTENDS Handlers

CONSTANTS
    Bodies,    \* what a line of the ledger says
    MaxEdits   \* bound: changes made to the file by hand

ASSUME AnchorsAssumption ==
    /\ StartLogs \subseteq Seq([body : Bodies, hash : Seq(Bodies)])
    /\ Limit \in [{"append", "anchor-head", "export-anchor"} -> Nat]
    /\ MaxEdits \in Nat

VARIABLES
    anchors,    \* the anchor file
    exported,   \* the exported verification, NoExport if there is none
    fresh,      \* nothing happened to the ledger since the last anchor, made of a valid chain
    edits       \* changes made by hand so far

vars == <<handlers, anchors, exported, fresh, edits>>

GENESIS_HASH == 0
NoExport == [valid |-> FALSE, head |-> <<>>, read |-> <<>>, fresh |-> FALSE]

-----------------------------------------------------------------------------
(* The ledger file: what ContinuityLedger appends and reads.               *)

BodiesOf(lines) == [i \in DOMAIN lines |-> lines[i].body]
last_hash(lines) == IF lines = <<>> THEN <<>> ELSE lines[Len(lines)].hash
Line(lines, body) == [body |-> body, hash |-> Append(last_hash(lines), body)]
verify_chain(lines) ==
    \A i \in DOMAIN lines : lines[i] = Line(SubSeq(lines, 1, i - 1), lines[i].body)

(* The lines a wholesale rewrite leaves: other bodies, the right hashes.   *)
Rewritten(bodies) ==
    [i \in DOMAIN bodies |-> [body |-> bodies[i], hash |-> SubSeq(bodies, 1, i)]]

(* By hand, between commands: a body is changed, the last lines are cut    *)
(* off, or the file is rewritten.                                          *)
Edit ==
    /\ Quiescent
    /\ edits < MaxEdits
    /\ edits' = edits + 1
    /\ \/ \E i \in DOMAIN log, body \in Bodies : log' = [log EXCEPT ![i].body = body]
       \/ \E n \in 0..(Len(log) - 1) : log' = SubSeq(log, 1, n)
       \/ \E i \in DOMAIN log, body \in Bodies :
            log' = Rewritten([BodiesOf(log) EXCEPT ![i] = body])
    /\ log' # log
    /\ fresh' = FALSE
    /\ UNCHANGED <<todo, started, overlap, killed, anchors, exported>>

-----------------------------------------------------------------------------
(* The commands, and their calls in order.                                 *)

AppendLine(p) ==
    \E body \in Bodies : Begin(p, "append", <<[do |-> "append_line", body |-> body]>>)
AnchorHead(p) == Begin(p, "anchor-head", <<[do |-> "load_anchors"]>>)
ExportAnchor(p) == Begin(p, "export-anchor", <<[do |-> "verify_anchors"]>>)

append_line(p) ==
    /\ Called(p, "append_line")
    /\ log' = Append(log, Line(log, Call(p).body))
    /\ todo' = [todo EXCEPT ![p] = Idle]
    /\ fresh' = FALSE
    /\ UNCHANGED <<started, overlap, killed, anchors, exported, edits>>

\* append_ledger_anchor: the last anchor's hash; how many events there are;
\* the last hash; whether the chain is valid.
load_anchor_records(p) ==
    /\ Called(p, "load_anchors")
    /\ Return(p, TRUE,
           <<[do |-> "count_events",
              previous |-> IF anchors = <<>> THEN GENESIS_HASH ELSE Last(anchors).hash]>>)

count_events(p) ==
    /\ Called(p, "count_events")
    /\ Return(p, TRUE, <<[do |-> "read_head", previous |-> Call(p).previous, count |-> Len(log)]>>)

read_head(p) ==
    /\ Called(p, "read_head")
    /\ Return(p, TRUE,
           <<[do |-> "check_chain", previous |-> Call(p).previous, count |-> Call(p).count,
              head |-> last_hash(log)]>>)

check_chain(p) ==
    /\ Called(p, "check_chain")
    /\ Return(p, TRUE,
           <<[do |-> "write_anchor", previous |-> Call(p).previous, count |-> Call(p).count,
              head |-> Call(p).head, chain |-> verify_chain(log)]>>)

(* Mutant: every anchor starts a chain of its own.                         *)
write_first_anchor(p) ==
    /\ Called(p, "write_anchor")
    /\ LET call == Call(p) IN
         /\ anchors' = Append(anchors, [hash |-> Len(anchors) + 1, previous |-> GENESIS_HASH,
                                        count |-> call.count, head |-> call.head])
         /\ fresh' = (~overlap /\ call.chain)
    /\ todo' = [todo EXCEPT ![p] = Idle]
    /\ UNCHANGED <<log, started, overlap, killed, exported, edits>>

write_anchor(p) ==
    /\ Called(p, "write_anchor")
    /\ LET call == Call(p) IN
         /\ anchors' = Append(anchors, [hash |-> Len(anchors) + 1, previous |-> call.previous,
                                        count |-> call.count, head |-> call.head])
         /\ fresh' = (~overlap /\ call.chain)
    /\ todo' = [todo EXCEPT ![p] = Idle]
    /\ UNCHANGED <<log, started, overlap, killed, exported, edits>>

verify_anchor_chain ==
    /\ anchors # <<>>
    /\ \A i \in DOMAIN anchors :
          anchors[i].previous = IF i = 1 THEN GENESIS_HASH ELSE anchors[i - 1].hash

Exported(valid, head, read) == [valid |-> valid, head |-> head, read |-> read, fresh |-> fresh]

\* verify_latest_anchor: the anchor file; then the events; then the last
\* hash; then the chain.  An invalid anchor chain is exported as it is.
verify_anchors(p) ==
    /\ Called(p, "verify_anchors")
    /\ Return(p, TRUE,
           IF verify_anchor_chain
           THEN <<[do |-> "see_count", anchor |-> Last(anchors)]>>
           ELSE <<[do |-> "export", valid |-> FALSE, head |-> <<>>, read |-> <<>>]>>)

see_count(p) ==
    /\ Called(p, "see_count")
    /\ Return(p, TRUE,
           <<[do |-> "see_head", anchor |-> Call(p).anchor,
              match |-> Call(p).anchor.count = Len(log)]>>)

see_head(p) ==
    /\ Called(p, "see_head")
    /\ LET anchor == Call(p).anchor IN
         Return(p, TRUE,
            <<[do |-> "see_chain", head |-> anchor.head, read |-> BodiesOf(log),
               match |-> Call(p).match /\ anchor.head = last_hash(log)]>>)

(* Mutant: the chain of the ledger is not checked.                         *)
see_no_chain(p) ==
    /\ Called(p, "see_chain")
    /\ Return(p, TRUE,
           <<[do |-> "export", valid |-> Call(p).match, head |-> Call(p).head,
              read |-> Call(p).read]>>)

see_chain(p) ==
    /\ Called(p, "see_chain")
    /\ Return(p, TRUE,
           <<[do |-> "export", valid |-> Call(p).match /\ verify_chain(log),
              head |-> Call(p).head, read |-> Call(p).read]>>)

export_latest_anchor(p) ==
    /\ Called(p, "export")
    /\ exported' = Exported(Call(p).valid, Call(p).head, Call(p).read)
    /\ todo' = [todo EXCEPT ![p] = Idle]
    /\ UNCHANGED <<log, started, overlap, killed, anchors, fresh, edits>>

-----------------------------------------------------------------------------

Init ==
    /\ HandlersInit
    /\ anchors = <<>> /\ exported = NoExport
    /\ fresh = FALSE /\ edits = 0

Reads(p) ==
    \/ load_anchor_records(p) \/ count_events(p) \/ read_head(p) \/ check_chain(p)
    \/ verify_anchors(p) \/ see_count(p) \/ see_head(p) \/ see_chain(p)

Next ==
    \/ \E p \in Procs :
         /\ AppendLine(p) \/ AnchorHead(p) \/ ExportAnchor(p) \/ Reads(p) \/ Crash(p)
         /\ UNCHANGED <<anchors, exported, fresh, edits>>
    \/ \E p \in Procs : append_line(p) \/ write_anchor(p) \/ export_latest_anchor(p)
    \/ Edit

Spec == Init /\ [][Next]_vars
-----------------------------------------------------------------------------
(* Properties.                                                             *)

(* A valid verification is never a mistake: whichever commands overlap and *)
(* whoever dies, the ledger it looked at says, line by line, what the      *)
(* anchored ledger said, in spite of changed, cut off and rewritten lines  *)
(* (anchors.py:222-245).                                                   *)
ValidMeansUntouched == exported.valid => exported.read = exported.head

(* No false alarm either, while commands do not overlap: if nothing        *)
(* happened to the ledger since a valid one was anchored, it verifies, and *)
(* the anchors form one chain (anchors.py:180-219).                        *)
FreshAnchorVerifies ==
    ~overlap =>
        /\ exported.fresh => exported.valid
        /\ anchors # <<>> => verify_anchor_chain
=============================================================================
