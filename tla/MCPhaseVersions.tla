--------------------------- MODULE MCPhaseVersions --------------------------
(* Small instances of PhaseVersions for TLC. *)
EXTENDS PhaseVersions
MCRolesOf ==
  [a \in Actors |->
     CASE a = "a1" -> {"research"}
       [] a = "a2" -> {"finalize", "edit", "reset"}
       [] a = "a3" -> {"v2", "finalize", "research"}
       [] a = "a4" -> {"v2", "v1"}
       [] OTHER -> {"edit", "v1", "v2"}]
=============================================================================
