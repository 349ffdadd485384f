---------------------------- MODULE MCCallLedger ----------------------------
(* A small instance of CallLedger for TLC. *)
EXTENDS CallLedger, TLC
MCKind == [c \in Calls |-> IF c = "structured2" THEN "structured" ELSE c]
MCTasks == {{"structured", "structured2", "search"}, {"structured", "search", "lookup"},
            {"plain", "search", "lookup"}}
MCOwner == "e1" :> "u1" @@ "e2" :> "u1"
MCCategory == "reader" :> "validation" @@ "tavily" :> "validation"
                @@ "evidence" :> "refinement" @@ "ipwho" :> "landing"
MCAbout(c) ==
  CASE Kind[c] = "structured" ->
         [source |-> "llm", phase |-> "reader", provider |-> "kimi", experiment |-> "e1"]
    [] c = "search" ->
         [source |-> "external", phase |-> "tavily", provider |-> "tavily", experiment |-> "e1"]
    [] c = "plain" ->
         [source |-> "llm", phase |-> "evidence", provider |-> "kimi", experiment |-> NoExperiment]
    [] c = "lookup" ->
         [source |-> "external", phase |-> "ipwho", provider |-> "ipwho", experiment |-> "e2"]
MCAboutOf == [c \in Calls |-> MCAbout(c)]
=============================================================================
