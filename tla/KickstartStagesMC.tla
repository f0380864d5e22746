--------------------------- MODULE KickstartStagesMC ---------------------------
(* One run that provisions a new cluster, for TLC.                          *)
EXTENDS KickstartStages

OneRun == {1}
OnlyNew == {"new"}
=============================================================================
