---------------------------- MODULE MCLifecycle ----------------------------
(* Small instances of ExperimentLifecycle for TLC. *)
EXTENDS ExperimentLifecycle, TLC

CONSTANTS r1, r2, r3, r4

(* Requests are interchangeable.                                           *)
RequestSymmetry == Permutations(Requests)

Nothing == [status |-> "SPARK", idea |-> FALSE, draft |-> FALSE, report |-> FALSE,
            page |-> FALSE, live |-> FALSE, insight |-> FALSE]

Refined == [Nothing EXCEPT !.status = "REFINED", !.idea = TRUE, !.draft = TRUE]

Ready == [Refined EXCEPT !.status = "RESEARCH_READY", !.report = TRUE]

Drafted == [Ready EXCEPT !.status = "LANDING_DRAFT", !.page = TRUE]

Live == [Drafted EXCEPT !.status = "LANDING_LIVE", !.live = TRUE]

FromRefined == {Refined}
FromReady == {Ready}
FromLive == {Live}
FromStages == {Refined, Ready, Live}
=============================================================================
