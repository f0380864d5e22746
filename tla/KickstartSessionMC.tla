--------------------------- MODULE KickstartSessionMC ---------------------------
(* Instances of KickstartSession for TLC. *)
EXTENDS KickstartSession

OneKind == {"new"}
Existing == {"existing"}
BothKinds == {"new", "existing"}
=============================================================================
