--------------------------- MODULE MCLiveSession ---------------------------
(***************************************************************************)
(* Instances of LiveSession for TLC.  One call has finitely many states;   *)
(* only the collaborators that may raise differ between the runs.          *)
(***************************************************************************)
EXTENDS LiveSession

AllFaults == FaultKinds
=============================================================================
