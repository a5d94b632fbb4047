--------------------------- MODULE MCRunLifecycle ---------------------------
(* RunLifecycle for TLC: requests are interchangeable in safety runs. *)
EXTENDS RunLifecycle, TLC

Symmetry == Permutations(Calls)
=============================================================================
