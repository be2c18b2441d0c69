---------------------------- MODULE MCApiProcess ----------------------------
(* ApiProcess for TLC.                                                     *)
EXTENDS ApiProcess

=============================================================================
