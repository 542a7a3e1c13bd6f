------------------------ MODULE MCRequestedRefresh ------------------------
(* Model-checking instance of RequestedRefresh, without symmetry: the run  *)
(* also checks liveness.                                                   *)
EXTENDS RequestedRefresh
=============================================================================
