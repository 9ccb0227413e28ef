----------------------------- MODULE MCPodProbe -----------------------------
(* Small instances of PodProbe for TLC. *)
EXTENDS PodProbe
=============================================================================
