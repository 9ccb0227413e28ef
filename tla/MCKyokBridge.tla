---------------------------- MODULE MCKyokBridge ----------------------------
(* Small instances of KyokBridge for TLC. *)
EXTENDS KyokBridge

CONSTANTS k1, m1

OneIdentity == [c \in Connections |-> k1]
=============================================================================
