------------------------------ MODULE MCTrials ------------------------------
(* Instances of Trials for TLC, with the constraints of the manifest.      *)
EXTENDS Trials

MCRequired == <<"ledger_integrity", "origin_traceability">>
MCPerishable == {"ledger_integrity", "origin_traceability"}
MCStartLogs == {<<>>}
MCSamples == {"control", "ledger_tampering"}

\* Scenarios are verified, one or all of them, after runs that ended or were
\* killed and reports; ratings follow presentations.
MCLimit ==
    ("run-all" :> 1) @@ ("verify-all" :> 2) @@
    [run |-> 1, report |-> 2, verify |-> 2, experiment |-> 1,
     samples |-> 2, submit |-> 4]
Symmetry == Permutations(Procs) \cup Permutations(Raters)
=============================================================================
