--------------------------- MODULE MCFounderEdits ---------------------------
(* Small instances of FounderEdits for TLC. *)
EXTENDS FounderEdits
MCDocsOf == [r \in Requests |-> Docs]
MCKitOnly == [r \in Requests |-> {"kit"}]
=============================================================================
