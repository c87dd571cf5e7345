-------------------------- MODULE RouteProjection --------------------------
(***************************************************************************)
(* A routing workspace seen twice: as the routes that services/routes.go   *)
(* lists, resolves and checks for conflicts, and as the nginx servers that *)
(* nginx/config.go renders.  Both are computed from the registered         *)
(* applications by code of their own.                                      *)
(*                                                                         *)
(* The workspace has a default remote URL.  A target is a port of this     *)
(* machine or a remote URL; both are numbers, the default remote URL is 0. *)
(***************************************************************************)
EXTENDS RouteLocations, FiniteSetsExt, SequencesExt

CONSTANTS
    Registrations,  \* what clients register; see Applications
    Domains,        \* of applications, NoHost among them
    LocalHost,      \* the workspace's local domain
    Uris,           \* requests
    NewPatterns,    \* route patterns that clients put in a plan or an update
    NoPattern,      \* no route pattern registered
    NoHost,         \* no domain of its own
    Rewrite,        \* how: the path is rewritten on the way
    MaxApps         \* bound on the applications of the workspace

VARIABLES
    apps,           \* Workspace.Applications, in registration order
    routes,         \* what NormalizedRoutes lists for them
    nginx           \* the server that the loaded configuration has per host

vars == <<apps, routes, nginx>>

\* What normalizeRequestPath leaves: no slash at the end, none in succession.
Names == Seq(Segments \ {End})

\* The pattern "/" is the prefix.
RoutePatterns ==
    {NoPattern} \cup {m \in [exact : BOOLEAN, path : Names] :
                        m.exact => m.path # <<>>}

\* Identifiers are numbers, because ties are broken by their order.  A context
\* or a remote URL of its own that is not given is <<>> and 0.
Applications ==
    [id : Nat \ {0}, port : BOOLEAN, active : BOOLEAN, remote : Nat,
     path : Names, context : Names, legacy : BOOLEAN,
     pattern : RoutePatterns, domain : Domains, override : BOOLEAN]

ASSUME RegistrationsAssumption == Registrations \subseteq Applications
ASSUME NewPatternsAssumption == NewPatterns \subseteq RoutePatterns
ASSUME MaxAppsAssumption == MaxApps \in Nat
ASSUME UrisAssumption == Uris \subseteq Seq(Segments)

Apps == ToSet(apps)

Hosts == {LocalHost} \cup ({a.domain : a \in Apps} \ {NoHost})

----------------------------------------------------------------------------
(* Applications.                                                            *)

Exact(p) == [exact |-> TRUE, path |-> p]
Prefix(p) == [exact |-> FALSE, path |-> p]

IngressPath(a) ==
    IF a.legacy /\ a.context # <<>> THEN a.context ELSE a.path

\* A root application with a context has three routes of a special kind.
Special(a) == a.path = <<>> /\ a.context # <<>>

\* A pattern is what is registered for it: Exact(p), or Prefix(p) for "/p/*".
PatternEntries(a) ==
    IF Special(a)
    THEN {Exact(<<End>>), Exact(a.context), Prefix(a.context)}
    ELSE IF a.pattern # NoPattern THEN {a.pattern}
    ELSE IF a.path = <<>> THEN {Prefix(<<>>)}
    ELSE {Exact(IngressPath(a)), Prefix(IngressPath(a))}

IsLocal(a) == a.active /\ a.port

Local(a) == [local |-> TRUE, at |-> a.id]
Remote(a) == [local |-> FALSE, at |-> a.remote]

Target(a) == IF IsLocal(a) THEN Local(a) ELSE Remote(a)

----------------------------------------------------------------------------
(* services/routes.go: the routes, their conflicts, resolution.             *)

\* Local is the mode that is asked for, whatever the target.
Route(host, m, app, local, target, override) ==
    [host |-> host, exact |-> m.exact, path |-> m.path,
     app |-> app, local |-> local, target |-> target, override |-> override]

AppRoutes(a, host) ==
    {Route(host, m, a.id, a.active, Target(a), a.override) :
     m \in PatternEntries(a)}

\* The root application of the default server, whatever the order.
DefaultRoots ==
    LET roots == {a \in Apps : a.domain = NoHost /\ a.path = <<>>}
    IN  {a \in roots : \A b \in roots : a.id <= b.id}

\* The catch-all of a server, owned by its root application if it has one.
FallbackRoute(roots, host) ==
    IF roots = {}
    THEN {Route(host, Prefix(<<>>), 0, FALSE, [local |-> FALSE, at |-> 0], TRUE)}
    ELSE {Route(host, Prefix(<<>>), a.id, a.active, Target(a), TRUE) : a \in roots}

Shared == {a \in Apps : a.domain = NoHost}

HostRoutes(host, domainApps) ==
    [own |-> UNION {AppRoutes(a, host) :
                 a \in Shared \cup {d \in domainApps : IsLocal(d) \/ d.remote # 0}},
     fallback |-> FallbackRoute(IF domainApps = {} THEN DefaultRoots
                                ELSE domainApps, host)]

\* A fallback that an application's own route repeats is dropped and passes
\* its permission to overlap on.
Deduped(r) ==
    LET same(x, y) == /\ x.exact = y.exact /\ x.path = y.path
                      /\ x.app = y.app
    IN  {[x EXCEPT !.override = @ \/ \E f \in r.fallback : same(x, f)] :
         x \in r.own}
        \cup {f \in r.fallback : ~ \E x \in r.own : same(x, f)}

NormalizedRoutes ==
    Deduped(HostRoutes(LocalHost, {}))
    \cup (UNION {Deduped(HostRoutes(d.domain, {d})) : d \in Apps \ Shared})

SamePattern(r, q) == r.exact = q.exact /\ r.path = q.path

\* Mutant of RoutesOverlap: a wildcard inside another one is not an overlap.
RoutesOverlapSame(left, right) ==
    IF left.exact THEN Hits(right, left.path)
    ELSE IF right.exact THEN Hits(left, right.path)
    ELSE left.path = right.path

\* routeMatchersOverlap: two routes can receive the same request.
RoutesOverlap(left, right) ==
    IF left.exact THEN Hits(right, left.path)
    ELSE IF right.exact THEN Hits(left, right.path)
    ELSE \/ left.path = right.path
         \/ Under(left.path, right.path) \/ Under(right.path, left.path)

\* Pairs of routes of different owners that compete for a request.
Conflicts ==
    {c \in routes \X routes :
        /\ c[1].host = c[2].host
        /\ c[1].app # 0 /\ c[2].app # 0 /\ c[1].app # c[2].app
        /\ RoutesOverlap(c[1], c[2])}

\* routeConflictWinner: the first of the pair is reported to win.
Wins(left, right) ==
    IF SamePattern(left, right) THEN left.app < right.app ELSE Ahead(left, right)

Intentional(c) ==
    IF SamePattern(c[1], c[2])
    THEN c[1].override /\ c[2].override
    ELSE c[1].override \/ c[2].override

\* The slash at the end of a path means nothing to normalizeRequestPath.
Normal(u) ==
    IF Len(u) > 1 /\ Last(u) = End THEN Front(u) ELSE u

RouteMatches(r, u) == Hits(r, Normal(u))

Candidates(host, u) ==
    First({r \in routes : r.host = host /\ RouteMatches(r, u)})

\* resolveRoutes: ties go to the first identifier; no owner comes before any.
Resolved(host, u) ==
    {r \in Candidates(host, u) : \A q \in Candidates(host, u) : r.app <= q.app}

\* browserPublicHost and browserPublicPath.
BrowserHost(a) == IF a.domain = NoHost THEN LocalHost ELSE a.domain

BrowserUri(a) ==
    LET path == IF Special(a) THEN <<>>
                ELSE IF a.pattern # NoPattern THEN a.pattern.path
                ELSE IngressPath(a)
    IN  IF path = <<>> THEN <<End>> ELSE path

\* ResolveBrowserURL of a registered application: its public entry point, and
\* the target of the first of its own routes that match there.
ResolveBrowserURL(a) ==
    LET matching == {r \in routes : /\ r.app = a.id
                                    /\ r.host = BrowserHost(a)
                                    /\ RouteMatches(r, BrowserUri(a))}
    IN  [host |-> BrowserHost(a), uri |-> BrowserUri(a),
         target |-> IF matching = {} THEN Target(a)
                    ELSE (CHOOSE r \in First(matching) : TRUE).target]

ChangeKey(r) == [host |-> r.host, exact |-> r.exact, path |-> r.path, app |-> r.app]

\* Mutant of DiffRoutes: only what comes and goes is a change.
DiffRoutesKeys(before, after) ==
    LET keys(list) == {ChangeKey(r) : r \in list}
    IN  (keys(before) \ keys(after)) \cup (keys(after) \ keys(before))

\* The changes that a plan shows: what comes, what goes and what differs.
DiffRoutes(before, after) ==
    {ChangeKey(r) : r \in (before \ after) \cup (after \ before)}

----------------------------------------------------------------------------
(* nginx/config.go: the locations of each server.                           *)

Location(m, how, target, app) ==
    [exact |-> m.exact, path |-> m.path, how |-> how,
     proxy |-> target, proof |-> app]

SpecialLocations(a) ==
    {Location(Exact(<<End>>), IF IsLocal(a) THEN Plain ELSE Rewrite, Target(a), a.id),
     Location(Exact(a.context), IF IsLocal(a) THEN Redirect ELSE Plain, Target(a), a.id),
     Location(Prefix(a.context), IF IsLocal(a) THEN Rewrite ELSE Plain, Target(a), a.id)}

\* The renderer collects an application's patterns from the routes of all
\* hosts, the fallback's among them.
Patterns(a) ==
    {[exact |-> r.exact, path |-> r.path] :
     r \in {q \in routes : q.app = a.id}}

Way(a, m) ==
    IF /\ ~ a.legacy /\ m.path # <<>>
       /\ a.context \notin {<<>>, a.path}
    THEN Rewrite ELSE Plain

AppLocations(a) ==
    IF Special(a) THEN SpecialLocations(a)
    ELSE {Location(m, Way(a, m), Target(a), a.id) : m \in Patterns(a)}

\* The first root application that has a remote URL of its own.
RenderedRoots ==
    LET roots == {i \in DOMAIN apps : /\ apps[i].domain = NoHost
                                      /\ apps[i].path = <<>>
                                      /\ apps[i].remote # 0}
    IN  {apps[i] : i \in {j \in roots : \A k \in roots : j <= k}}

\* Mutant of FallbackLocation: the root's own remote URL is forgotten.
FallbackLocationDefault(roots) ==
    IF roots = {}
    THEN {Location(Prefix(<<>>), Plain, [local |-> FALSE, at |-> 0], 0)}
    ELSE {Location(Prefix(<<>>), Plain,
                   IF IsLocal(a) THEN Local(a) ELSE [local |-> FALSE, at |-> 0],
                   a.id) : a \in roots}

FallbackLocation(roots) ==
    IF roots = {}
    THEN {Location(Prefix(<<>>), Plain, [local |-> FALSE, at |-> 0], 0)}
    ELSE {Location(Prefix(<<>>),
                   IF ~ IsLocal(a) /\ a.remote # 0 /\ a.context # <<>>
                   THEN Rewrite ELSE Plain,
                   Target(a), a.id) : a \in roots}

\* dedupeLocations: of the locations of one matcher the first one counts.
\* An emission is a location with its turn.
FirstOfEach(emitted) ==
    {e.loc : e \in {x \in emitted :
        \A y \in emitted :
            y.loc.exact = x.loc.exact /\ y.loc.path = x.loc.path
                => x.turn <= y.turn}}

Emit(i, round) ==
    {[turn |-> round * (Len(apps) + 1) + i, loc |-> l] : l \in AppLocations(apps[i])}

\* Mutant of EmitFallback: it comes before the applications.
EmitFallbackFirst(roots) ==
    {[turn |-> 0, loc |-> l] : l \in FallbackLocation(roots)}

EmitFallback(roots) ==
    {[turn |-> 3 * (Len(apps) + 1), loc |-> l] : l \in FallbackLocation(roots)}

\* Local applications first, then remote ones, then the fallback.
DefaultServer ==
    LET shared == {i \in DOMAIN apps : apps[i].domain = NoHost}
    IN  FirstOfEach(
            (UNION {Emit(i, IF IsLocal(apps[i]) THEN 1 ELSE 2) : i \in shared})
            \cup EmitFallback(RenderedRoots))

\* Mutant of DomainServer: the application has no locations of its own unless
\* it runs locally.
DomainServerLocalOnly(d) ==
    LET shared == {i \in DOMAIN apps : apps[i].domain = NoHost}
    IN  FirstOfEach(
            (UNION {Emit(i, 1) : i \in shared})
            \cup (IF IsLocal(apps[d]) THEN Emit(d, 2) ELSE {})
            \cup EmitFallback({apps[d]}))

\* The shared applications, then the one that has the domain.
DomainServer(d) ==
    LET shared == {i \in DOMAIN apps : apps[i].domain = NoHost}
        own == IF IsLocal(apps[d]) \/ apps[d].remote # 0 THEN {d} ELSE {}
    IN  FirstOfEach(
            (UNION {Emit(i, 1) : i \in shared}) \cup (UNION {Emit(i, 2) : i \in own})
            \cup EmitFallback({apps[d]}))

\* nginx takes the first server of a name.
FirstServer(host) ==
    LET named == {i \in DOMAIN apps : apps[i].domain = host}
    IN  {i \in named : \A j \in named : i <= j}

Server(host) ==
    IF host = LocalHost THEN DefaultServer
    ELSE UNION {DomainServer(d) : d \in FirstServer(host)}

Rendered == [host \in Hosts |-> Compact(Server(host))]

Answered(host, u) == Answers(nginx[host], u)

----------------------------------------------------------------------------
(* Changes.  What the renderer refuses never becomes the state.             *)

Accepted == \A c \in Conflicts : Intentional(c)

Render ==
    /\ routes' = NormalizedRoutes'
    /\ Accepted'
    /\ nginx' = Rendered'

Register(a) ==
    /\ Len(apps) < MaxApps
    /\ a.id \notin {b.id : b \in Apps}
    /\ apps' = Append(apps, a)
    /\ Render

Unregister(i) ==
    /\ apps' = RemoveAt(apps, i)
    /\ Render

ToggleApp(i) ==
    /\ apps' = [apps EXCEPT ![i].active = ~ @]
    /\ Render

\* No pattern takes the present one away.
UpdateRoutePattern(i, pattern) ==
    /\ apps' = [apps EXCEPT ![i].pattern = pattern]
    /\ Render

\* What planForWorkspace makes of an application; a plan without a pattern is
\* one with the present pattern.
Planned(a, local, pattern) == [a EXCEPT !.active = local, !.pattern = pattern]

\* A plan that shows no changes is answered without applying it.
ApplyPlan(i, local, pattern) ==
    /\ apps' = [apps EXCEPT ![i] = Planned(@, local, pattern)]
    /\ DiffRoutes(routes, NormalizedRoutes') # {}
    /\ Render

Init ==
    /\ apps = <<>>
    /\ routes = NormalizedRoutes
    /\ nginx = Rendered

Next ==
    \/ \E a \in Registrations : Register(a)
    \/ \E i \in DOMAIN apps : Unregister(i)
    \/ \E i \in DOMAIN apps : ToggleApp(i)
    \/ \E i \in DOMAIN apps, pattern \in NewPatterns : UpdateRoutePattern(i, pattern)
    \/ \E i \in DOMAIN apps, local \in BOOLEAN :
           \E pattern \in {apps[i].pattern} \cup NewPatterns :
               ApplyPlan(i, local, pattern)

Spec == Init /\ [][Next]_vars

----------------------------------------------------------------------------
(* Properties.                                                              *)

(* Types: applications with identifiers of their own, routes that nginx has *)
(* a location for, and a server for each host that is in use.               *)
TypeOK ==
    /\ apps \in Seq(Applications)
    /\ \A i, j \in DOMAIN apps : apps[i].id = apps[j].id => i = j
    /\ \A r \in routes : IsLocation(r)
    /\ DOMAIN nginx = Hosts

Owners(host, u) == {x.proof : x \in Answered(host, u)}

\* One root application, whose routes are those the renderer gives it.
PlainRoots ==
    \A a \in Shared :
        a.path = <<>> =>
            /\ a \in DefaultRoots
            /\ IF Special(a) THEN a.remote # 0 ELSE a.pattern = NoPattern

OneServerPerHost ==
    \A d \in Apps \ Shared :
        /\ d.domain # LocalHost
        /\ \A e \in Apps \ Shared : d.domain = e.domain => d = e

\* Routes of several applications come first for the request.
Tied(host, u) ==
    \E r, q \in First({x \in routes : x.host = host /\ Hits(x, u)}) : r.app # q.app

\* Requests that the resolver and nginx are expected to read alike: no tie,
\* no slash at the end, no redirect to the slash.
Regular(host, u) ==
    /\ PlainRoots /\ OneServerPerHost
    /\ ~ Tied(host, u)
    /\ Normal(u) = u
    /\ ~ Redirected(nginx[host], u)

\* On the host the first application is reported to win against the second.
Reported ==
    {<<c[1].host, c[1].app, c[2].app>> : c \in {x \in Conflicts : Wins(x[1], x[2])}}

Served(host, u) == {[app |-> x.proof, target |-> x.proxy] : x \in Answered(host, u)}

Agree(host, u) ==
    {[app |-> r.app, target |-> r.target] : r \in Resolved(host, u)}
    = Served(host, u)

(* The route that ResolveRoute reports for a request is the one that nginx  *)
(* serves: the same application at the same target.                         *)
ResolverAgrees ==
    \A host \in Hosts, u \in Uris : Regular(host, u) => Agree(host, u)

(* compactLocations changes no answer of a rendered server, a redirect to   *)
(* the slash aside.                                                         *)
CompactionIsInvisible ==
    \A host \in Hosts :
        LET plain == Uncompacted(Server(host))
        IN  \A u \in Uris :
                ~ Redirected(plain, u) /\ ~ Redirected(nginx[host], u) =>
                    Answered(host, u) = Answers(plain, u)

(* The same for every request that was not redirected before: "routes that  *)
(* overlap a different behavior stay as explicit nginx locations".          *)
CompactionRedirectsNothing ==
    \A host \in Hosts :
        LET plain == Uncompacted(Server(host))
        IN  \A u \in Uris :
                ~ Redirected(plain, u) => Answered(host, u) = Answers(plain, u)

(* An application loses a request that one of its routes hits to another    *)
(* application only if the pair is among the reported conflicts, and with   *)
(* the other one as the winner unless two applications tie for the request. *)
NothingIsShadowedSilently ==
    PlainRoots /\ OneServerPerHost =>
        LET reported == Reported
        IN  \A host \in Hosts, u \in Uris :
                ~ Redirected(nginx[host], u) =>
                    \A winner \in Owners(host, u) \ {0} :
                        \A r \in {q \in routes : q.host = host /\ Hits(q, u)} :
                            r.app \notin {0, winner} =>
                                \/ <<host, winner, r.app>> \in reported
                                \/ /\ Tied(host, u)
                                   /\ <<host, r.app, winner>> \in reported

(* The same for ties: "insertion order must never decide ownership", so the *)
(* winner that is reported for one pattern of two applications is the one   *)
(* that nginx serves.  False: of equal patterns it serves the first.        *)
ReportedWinnerServes ==
    PlainRoots /\ OneServerPerHost =>
        \A host \in Hosts, u \in Uris :
            ~ Redirected(nginx[host], u) =>
                \A winner \in Owners(host, u) \ {0} :
                    \A r \in {q \in routes : q.host = host /\ Hits(q, u)} :
                        r.app \notin {0, winner} => <<host, winner, r.app>> \in Reported

\* Applications with a route at their browser URL that is not the catch-all of
\* a server: a pattern may be a wildcard that the URL is not under, and an
\* application with a host but no target of its own has the catch-all alone.
HasEntry(a) ==
    \/ a.path = <<>> /\ a.domain = NoHost
    \/ \E r \in routes : /\ r.app = a.id /\ r.host = BrowserHost(a)
                         /\ r.path # <<>> /\ Hits(r, BrowserUri(a))

(* Without overrides the browser URL of an application is answered by it,   *)
(* from the target that is reported with the URL, unless only a catch-all   *)
(* is at the URL or compaction has it redirected.                           *)
BrowserUrlIsServed ==
    PlainRoots /\ OneServerPerHost /\ (\A b \in Apps : ~ b.override) =>
        \A a \in Apps :
            LET url == ResolveBrowserURL(a)
            IN  HasEntry(a) /\ ~ Redirected(nginx[url.host], url.uri) =>
                    Served(url.host, url.uri) = {[app |-> a.id, target |-> url.target]}

(* The same for every application that has a route at its browser URL: the  *)
(* URL is resolved by "the exact normalized route emitted for this app".    *)
(* False: with only a catch-all there, another application can come first.  *)
BrowserUrlReachesApp ==
    PlainRoots /\ OneServerPerHost /\ (\A b \in Apps : ~ b.override) =>
        \A a \in Apps :
            LET url == ResolveBrowserURL(a)
            IN  /\ \E r \in routes : /\ r.app = a.id /\ r.host = url.host
                                     /\ Hits(r, url.uri)
                /\ ~ Redirected(nginx[url.host], url.uri)
                => Served(url.host, url.uri) = {[app |-> a.id, target |-> url.target]}

\* An application with a host of its own and no remote URL of its own gives up
\* its routes, the catch-all aside, when it is not local.
KeepsRoutes(a) == a.domain = NoHost \/ a.remote # 0

(* Toggling an application between its local process and its remote         *)
(* environment changes the target of requests, never their owner.           *)
ToggleKeepsOwners ==
    [][\A i \in DOMAIN apps :
        apps' = [apps EXCEPT ![i].active = ~ @] /\ KeepsRoutes(apps[i]) =>
            \A host \in Hosts, u \in Uris :
                Regular(host, u) /\ Regular(host, u)' =>
                    Owners(host, u)' = Owners(host, u)]_vars

(* A plan shows every change that a client will notice: a request goes to   *)
(* another application or target only where a route that hits it changes.   *)
PlanShowsWhatChanges ==
    [][Len(apps') = Len(apps) =>
        \A host \in Hosts, u \in Uris :
            /\ Regular(host, u) /\ Regular(host, u)'
            /\ Served(host, u)' # Served(host, u)
            => \E c \in DiffRoutes(routes, routes') :
                   c.host = host /\ Hits(c, u)]_vars
=============================================================================
