--------------------------- MODULE RouteLocations ---------------------------
(***************************************************************************)
(* What an nginx server answers, and compactLocations (nginx/compact.go),  *)
(* which merges locations with the same proxy into one regular expression. *)
(*                                                                         *)
(* A path is a sequence of segments.  A URI with a slash at its end has    *)
(* the segment End there, so "/" is <<End>>, "/a" is <<a>> and "/a/" is    *)
(* <<a, End>>.  The location "= /a" has the path <<a>> and is exact, the   *)
(* location "/a/" has the path <<a>> and is not.  Every generated prefix   *)
(* ends in a slash, so a prefix of the text is a prefix of the segments.   *)
(***************************************************************************)
EXTENDS Naturals, Sequences, FiniteSets

CONSTANTS
    Segments,       \* what is between two slashes
    End,            \* the empty segment after a slash at the end
    Plain,          \* how: only passed on, the proxy and the proof say it all
    Redirect        \* how: answered by a redirect to the same URI with a slash

ASSUME WaysAssumption == Redirect # Plain
ASSUME EndAssumption == End \in Segments

\* A location: its matcher, where it sends a request and in which way
\* (rewritten, redirected, ...), and the proof it puts on the response.
IsLocation(l) == l.exact \in BOOLEAN /\ l.path \in Seq(Segments)

\* "/p/" begins the text of u.
Under(p, u) == Len(p) < Len(u) /\ \A i \in 1 .. Len(p) : u[i] = p[i]

Hits(m, u) == IF m.exact THEN m.path = u ELSE Under(m.path, u)

\* Exact before prefix, a longer prefix before a shorter one.
Ahead(a, b) ==
    \/ a.exact /\ ~ b.exact
    \/ a.exact = b.exact /\ Len(a.path) > Len(b.path)

First(S) == {l \in S : \A m \in S : ~ Ahead(m, l)}

----------------------------------------------------------------------------
(* compactLocations.                                                        *)

IsRoot(l) == l.path \in {<<>>, <<End>>}

IsDefault(l) == ~ l.exact /\ l.path = <<>>

Overlap(a, b) ==
    \/ a.exact /\ Hits(b, a.path)
    \/ b.exact /\ Hits(a, b.path)
    \/ /\ ~ a.exact /\ ~ b.exact
       /\ a.path = b.path \/ Under(a.path, b.path) \/ Under(b.path, a.path)

Group(L, proxy) ==
    {l \in L : ~ IsRoot(l) /\ l.how = Plain /\ l.proxy = proxy}

\* Mutant of Safe: overlaps with the rest of the server are not looked for.
SafeAlways(L, proxy) == Group(L, proxy)

\* What is outside the group and overlaps a member keeps it out of the regex.
Safe(L, proxy) ==
    {l \in Group(L, proxy) :
        \A m \in L \ Group(L, proxy) : IsDefault(m) \/ ~ Overlap(l, m)}

Regexes(L) ==
    {g \in {Safe(L, p) : p \in {l.proxy : l \in L}} : Cardinality(g) >= 4}

Compact(L) ==
    LET regexes == Regexes(L)
    IN  [locations |-> L \ UNION regexes, regexes |-> regexes]

Uncompacted(L) == [locations |-> L, regexes |-> {}]

----------------------------------------------------------------------------
(* nginx.  The order of the regexes and of equal locations is left open: an *)
(* answer is in the set when some order gives it.                           *)

Answer(l) == [how |-> l.how, proxy |-> l.proxy, proof |-> l.proof]

Exacts(server, u) == {l \in server.locations : l.exact /\ l.path = u}

\* nginx answers "/a" with a redirect to "/a/" when only "/a/" is a location
\* that passes on; regexes are not tried.  The answer to the redirected request
\* is l's, so l's proxy and proof stand for it.
Slashed(server, u) == {l \in server.locations : ~ l.exact /\ l.path = u}

Matched(server, u) == {g \in server.regexes : \E l \in g : Hits(l, u)}

Redirected(server, u) == Exacts(server, u) = {} /\ Slashed(server, u) # {}

\* The members of a regex differ in their proofs: the map on $uri has them in
\* the order of Ahead and gives the first that matches.
Answers(server, u) ==
    IF Exacts(server, u) # {} THEN {Answer(l) : l \in Exacts(server, u)}
    ELSE IF Redirected(server, u)
    THEN {[Answer(l) EXCEPT !.how = Redirect] : l \in Slashed(server, u)}
    ELSE IF Matched(server, u) # {}
    THEN UNION {{Answer(l) : l \in First({m \in g : Hits(m, u)})} :
                g \in Matched(server, u)}
    ELSE {Answer(l) : l \in First({m \in server.locations : Hits(m, u)})}

=============================================================================
