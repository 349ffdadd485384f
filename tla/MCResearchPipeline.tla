------------------------- MODULE MCResearchPipeline -------------------------
(* A small instance of ResearchPipeline for TLC. *)
EXTENDS ResearchPipeline
MCPage == [i \in Items |-> IF i = "i3" THEN "u2" ELSE "u1"]
MCDomain == [u \in Pages |-> "d1"]
MCTolerance == [num |-> 1, den |-> 2]
=============================================================================
