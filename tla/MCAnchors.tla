------------------------------ MODULE MCAnchors ------------------------------
(***************************************************************************)
(* Instances of Anchors for TLC: two commands over a ledger of one line.   *)
(***************************************************************************)
EXTENDS Anchors

MCStartLogs == {<<>>, <<Line(<<>>, "a")>>}

MCLimit == [append |-> 4] @@ ("anchor-head" :> 4) @@ ("export-anchor" :> 5)
=============================================================================
