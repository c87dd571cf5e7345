------------------------- MODULE MCRoutingSessions -------------------------
(* The symmetry of RoutingSessions: clients, remote URLs and domains are    *)
(* only compared for equality.                                              *)
EXTENDS RoutingSessions, TLC

Symmetry ==
    Permutations(Clients) \cup Permutations(Remotes) \cup Permutations(Domains)
=============================================================================
