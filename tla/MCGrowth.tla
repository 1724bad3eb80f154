------------------------------ MODULE MCGrowth ------------------------------
(***************************************************************************)
(* Instances of Growth for TLC: a command line and the live server, and an *)
(* identity with a memory and a standing commitment.                       *)
(***************************************************************************)
EXTENDS Growth

MCStartLogs ==
    {<<ContinuityMoved("certified_continuity"),
       GrowthProposed("memory", "low", FALSE, FALSE),
       GrowthUpdated(2, "accepted", "certified_continuity", FALSE),
       GrowthProposed("commitment", "high", TRUE, FALSE),
       GrowthUpdated(4, "accepted", "certified_continuity", FALSE)>>}

MCProposals ==
    {[kind |-> "policy", impact |-> "identity_defining", marked |-> FALSE, contrary |-> FALSE]}

MCMessages ==
    {[growth |-> [kind |-> "memory", impact |-> "low"], contrary |-> TRUE, signal |-> "none"],
     [growth |-> [kind |-> "commitment", impact |-> "high"], contrary |-> TRUE,
      signal |-> "contradicted"],
     [growth |-> NoGrowth, contrary |-> FALSE, signal |-> "stale"]}

\* Chat and resolutions come in any order; the rest comes early.
MCLimit ==
    [c \in CommandName |->
        CASE c \in {"chat", "resolve-conflict"} -> 3
          [] c \in {"clean-session", "accept-growth", "review-growth", "reflect", "reflection-task"} -> 2
          [] OTHER -> 1]
=============================================================================
