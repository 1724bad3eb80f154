---------------------------- MODULE AppendOnlyLog ----------------------------
(***************************************************************************)
(* What the continuity ledger promises its callers, with the file, the     *)
(* lock, partial writes, crashes and power losses taken away: a sequence   *)
(* of durable events, each naming the hash of the event before it, that    *)
(* only ever grows at its end.  Module Ledger implements it.               *)
(***************************************************************************)
EXTENDS Integers, Sequences

CONSTANT EventType

VARIABLE log

LogEvent == [hash : Nat \ {0}, prev : Nat, type : EventType, whole : {TRUE}]

\* 0 stands for "GENESIS".
Linked(evs) ==
    \A i \in 1..Len(evs) : evs[i].prev = IF i = 1 THEN 0 ELSE evs[i - 1].hash

Init == log = <<>>

(* One event becomes durable, or several at once when an fsync also covers *)
(* what a crashed writer had written before it.                            *)
Extend ==
    /\ Len(log') > Len(log)
    /\ SubSeq(log', 1, Len(log)) = log
    /\ log' \in Seq(LogEvent)
    /\ Linked(log')

Spec == Init /\ [][Extend]_log
=============================================================================
