-------------------------- MODULE MCRouteProjection --------------------------
(* Registrations and requests for TLC.                                      *)
EXTENDS RouteProjection

MCSegments == {"", "x", "y", "z", "c"}

X == <<"x">>
Y == <<"x", "y">>
C == <<"c">>
Z == <<"z">>

MCUris == {<<"">>, X, <<"x", "">>, Y, <<"x", "y", "z">>, C, <<"c", "z">>, Z}

App(id, path) ==
    [id |-> id, path |-> path, context |-> <<>>, legacy |-> FALSE,
     pattern |-> NoPattern, domain |-> NoHost, remote |-> 0,
     port |-> TRUE, active |-> FALSE, override |-> FALSE]

RemoteOnly(a) == [a EXCEPT !.port = FALSE]

\* A wildcard, an exact route where it begins, and two applications that are
\* merged with the exact route.
MCNeighbours ==
    {[App(1, X) EXCEPT !.pattern = Prefix(Y)],
     [App(3, X) EXCEPT !.pattern = Exact(Y)],
     RemoteOnly(App(2, C)), RemoteOnly(App(4, Z))}

Root(id) == App(id, <<>>)
Host(a) == [a EXCEPT !.domain = "d"]
Consenting(a) == [a EXCEPT !.override = TRUE]

MCRegistrations ==
    \* roots: plain, with a context, with a domain, with its own remote
    {Root(1), [Root(1) EXCEPT !.context = C, !.remote = 1], Host(Root(1)),
     [Host(App(1, Y)) EXCEPT !.remote = 1, !.context = C]}
    \cup MCNeighbours
    \* an application within another one, with and without its consent
    \cup {App(2, X), Consenting(App(2, X)), App(3, Y), Consenting(App(3, Y)),
          [App(3, X) EXCEPT !.legacy = TRUE, !.context = C]}
    \* a host whose application gives up its routes
    \cup {Consenting(Host(App(1, Y)))}

\* A plan or an update takes the pattern of a neighbour away, and it gets all
\* that is under its path.
MCPatterns == {NoPattern}
=============================================================================
