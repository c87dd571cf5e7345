------------------------- MODULE MCRouteTransaction -------------------------
(* RouteTransaction for TLC.  Model values are interchangeable.             *)
EXTENDS RouteTransactionProps, TLC

Symmetry == Permutations(Workspaces) \cup Permutations(Keys)
                \cup Permutations(Clients)
=============================================================================
