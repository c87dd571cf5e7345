----------------------- MODULE MCApplicationCatalogue -----------------------
(* An instance of ApplicationCatalogue: callers register two applications, *)
(* a and b, with one of two repositories, with b as an alias of a, with    *)
(* another service than the default, and under another spelling.           *)
EXTENDS ApplicationCatalogue

CONSTANTS e1, e2, a, b, c, r1, r2, other

(* Environments and repositories are interchangeable. *)
Symmetry == Permutations({e1, e2}) \cup Permutations({r1, r2})

Plain(x) == [id |-> x, service |-> None, repository |-> None,
             aliases |-> {}, exact |-> TRUE]

MCInputs ==
    {Plain(a),
     [Plain(a) EXCEPT !.exact = FALSE],
     [Plain(a) EXCEPT !.aliases = {b}],
     [Plain(a) EXCEPT !.repository = r1],
     [Plain(a) EXCEPT !.repository = r2],
     [Plain(b) EXCEPT !.service = other],
     [Plain(b) EXCEPT !.aliases = {c}]}
=============================================================================
