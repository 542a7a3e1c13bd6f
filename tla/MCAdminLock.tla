---------------------------- MODULE MCAdminLock ----------------------------
(* Model-checking instance of AdminLock, without symmetry: the run also    *)
(* checks liveness.                                                        *)
EXTENDS AdminLock
=============================================================================
