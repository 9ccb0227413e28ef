-------------------------- MODULE MCProviderSocket --------------------------
(* Small instances of ProviderSocket for TLC. *)
EXTENDS ProviderSocket, TLC

CONSTANTS c1, c2, k1

\* Two sockets of one identity: the reconnect that overlaps what it replaces.
OneIdentity == [c \in Connections |-> k1]

Symmetry == Permutations(Connections)
=============================================================================
