---------------------------- MODULE MCSoukClient ----------------------------
(* Small instances of SoukClient for TLC. *)
EXTENDS SoukClient, TLC

\* No order of threads matters anywhere, and no liveness is checked.
Symmetry == Permutations(Threads)
=============================================================================
