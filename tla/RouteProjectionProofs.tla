----------------------- MODULE RouteProjectionProofs -----------------------
(***************************************************************************)
(* What is always true of a workspace: that compaction is invisible, that  *)
(* the list of routes and the servers of nginx agree, and what follows for *)
(* conflicts, browser URLs, plans and toggles.                             *)
(*                                                                         *)
(* The list and the servers are computed apart.  The proof compares both   *)
(* with the entries of each application on a host (EntriesAt): the list    *)
(* has a route for each of them and no other (HostListing), and so has the *)
(* server a location (EntriesAreServed, ServedAreListed), with the same    *)
(* owner and the same target.  What nginx answers after compaction is what *)
(* comes first among the locations (CompactAnswersFirst), hence what comes *)
(* first in the list (ServedAreFirst, ServedIsListed).  The rest is about  *)
(* the list alone.                                                         *)
(***************************************************************************)
EXTENDS RouteProjection, RouteLocationsProofs

----------------------------------------------------------------------------
(* What is listed and rendered consists of locations.                       *)

AppsTyped == apps \in Seq(Applications)

LEMMA AppsAreApplications ==
    ASSUME AppsTyped
    PROVE  /\ \A i \in DOMAIN apps : apps[i] \in Applications
           /\ Apps \subseteq Applications
BY DEF AppsTyped, Apps, ToSet

LEMMA NamesArePaths ==
    /\ \A p \in Names : p \in Seq(Segments)
    /\ <<End>> \in Seq(Segments) /\ <<>> \in Seq(Segments) /\ <<>> \in Names
BY EndAssumption DEF Names

LEMMA PatternsAreLocations ==
    ASSUME NEW a \in Applications, NEW m \in PatternEntries(a)
    PROVE  IsLocation(m)
<1>1. a.path \in Seq(Segments) /\ a.context \in Seq(Segments)
  BY NamesArePaths DEF Applications
<1>2. <<End>> \in Seq(Segments) /\ <<>> \in Seq(Segments)
  BY NamesArePaths
<1>3. a.pattern # NoPattern => IsLocation(a.pattern)
  BY NamesArePaths DEF Applications, RoutePatterns, IsLocation
<1>4. IngressPath(a) \in Seq(Segments)
  BY <1>1 DEF IngressPath
<1>5. \A p \in Seq(Segments) : IsLocation(Exact(p)) /\ IsLocation(Prefix(p))
  BY DEF IsLocation, Exact, Prefix
<1> QED BY <1>1, <1>2, <1>3, <1>4, <1>5 DEF PatternEntries

LEMMA AppRoutesAreLocations ==
    ASSUME NEW a \in Applications, NEW host, NEW r \in AppRoutes(a, host)
    PROVE  \E m, app, local, target, override :
              IsLocation(m) /\ r = Route(host, m, app, local, target, override)
BY PatternsAreLocations DEF AppRoutes

LEMMA RoutesHaveMatchers ==
    ASSUME NEW host, NEW m, NEW app, NEW local, NEW target, NEW override, NEW o
    PROVE  LET r == Route(host, m, app, local, target, override)
           IN  /\ r.exact = m.exact /\ r.path = m.path
               /\ [r EXCEPT !.override = o].exact = m.exact
               /\ [r EXCEPT !.override = o].path = m.path
BY DEF Route

\* Routes of a list are Route(...) with the matcher of a location.
IsListed(r) ==
    \E host, m, app, local, target, override :
        IsLocation(m) /\ r = Route(host, m, app, local, target, override)

LEMMA ListedAreLocations ==
    ASSUME NEW r, IsListed(r), NEW o
    PROVE  IsLocation(r) /\ IsLocation([r EXCEPT !.override = o])
<1>1. PICK host, m, app, local, target, override :
            IsLocation(m) /\ r = Route(host, m, app, local, target, override)
  BY DEF IsListed
<1> QED BY <1>1, RoutesHaveMatchers DEF IsLocation

LEMMA HostRoutesAreListed ==
    ASSUME AppsTyped, NEW host, NEW domainApps, domainApps \subseteq Apps
    PROVE  /\ \A r \in HostRoutes(host, domainApps).own : IsListed(r)
           /\ \A r \in HostRoutes(host, domainApps).fallback : IsListed(r)
<1>1. \A a \in Shared \cup domainApps : a \in Applications
  BY AppsAreApplications DEF Shared
<1>2. \A a \in Shared \cup domainApps : \A r \in AppRoutes(a, host) : IsListed(r)
  BY <1>1, AppRoutesAreLocations DEF IsListed
<1>3. ASSUME NEW r \in HostRoutes(host, domainApps).own
      PROVE  IsListed(r)
  <2>1. PICK a \in Shared \cup domainApps : r \in AppRoutes(a, host)
    BY <1>3 DEF HostRoutes
  <2> QED BY <1>2, <2>1
<1>4. IsLocation(Prefix(<<>>))
  BY DEF IsLocation, Prefix
<1>5. ASSUME NEW roots, NEW r \in FallbackRoute(roots, host)
      PROVE  IsListed(r)
  BY <1>4 DEF FallbackRoute, IsListed
<1>6. \A r \in HostRoutes(host, domainApps).fallback : IsListed(r)
  BY <1>5 DEF HostRoutes
<1> QED BY <1>3, <1>6

LEMMA NormalizedRoutesAreLocations ==
    ASSUME AppsTyped
    PROVE  \A r \in NormalizedRoutes : IsLocation(r)
<1>1. ASSUME NEW host, NEW domainApps, domainApps \subseteq Apps,
             NEW r \in Deduped(HostRoutes(host, domainApps))
      PROVE  IsLocation(r)
  <2> DEFINE list == HostRoutes(host, domainApps)
  <2>1. CASE r \in list.fallback
    BY <1>1, <2>1, HostRoutesAreListed, ListedAreLocations
  <2>2. CASE \E x \in list.own : \E o : r = [x EXCEPT !.override = o]
    BY <1>1, <2>2, HostRoutesAreListed, ListedAreLocations
  <2>3. r \in list.fallback \/ \E x \in list.own : \E o : r = [x EXCEPT !.override = o]
    BY <1>1 DEF Deduped
  <2> QED BY <2>1, <2>2, <2>3
<1>2. {} \subseteq Apps /\ \A d \in Apps : {d} \subseteq Apps
  OBVIOUS
<1> QED BY <1>1, <1>2 DEF NormalizedRoutes

LEMMA RenderedAreLocations ==
    ASSUME AppsTyped, \A r \in routes : IsLocation(r)
    PROVE  /\ \A i \in DOMAIN apps : AreLocations(AppLocations(apps[i]))
           /\ \A roots : AreLocations(FallbackLocation(roots))
<1>1. \A m, how, target, app :
         IsLocation(m) => IsLocation(Location(m, how, target, app))
  BY DEF IsLocation, Location
<1>2. \A p \in Seq(Segments) : IsLocation(Exact(p)) /\ IsLocation(Prefix(p))
  BY DEF IsLocation, Exact, Prefix
<1>3. <<End>> \in Seq(Segments) /\ <<>> \in Seq(Segments)
  BY EndAssumption
<1>4. ASSUME NEW i \in DOMAIN apps
      PROVE  AreLocations(AppLocations(apps[i]))
  <2>1. apps[i].context \in Seq(Segments)
    BY AppsAreApplications, NamesArePaths DEF Applications
  <2>2. AreLocations(SpecialLocations(apps[i]))
    BY <1>1, <1>2, <1>3, <2>1 DEF SpecialLocations, AreLocations
  <2>3. \A m \in Patterns(apps[i]) : IsLocation(m)
    BY DEF Patterns, IsLocation
  <2> QED BY <1>1, <2>2, <2>3 DEF AppLocations, AreLocations
<1>5. ASSUME NEW roots
      PROVE  AreLocations(FallbackLocation(roots))
  BY <1>1, <1>2, <1>3 DEF FallbackLocation, AreLocations
<1> QED BY <1>4, <1>5

AreEmissions(E) == \A e \in E : IsLocation(e.loc)

LEMMA ServersHaveLocations ==
    ASSUME AppsTyped, \A r \in routes : IsLocation(r), NEW host
    PROVE  AreLocations(Server(host))
<1>1. ASSUME NEW i \in DOMAIN apps, NEW round
      PROVE  AreEmissions(Emit(i, round))
  BY RenderedAreLocations DEF Emit, AreEmissions, AreLocations
<1>2. ASSUME NEW roots
      PROVE  AreEmissions(EmitFallback(roots))
  BY RenderedAreLocations DEF EmitFallback, AreEmissions, AreLocations
<1>3. ASSUME NEW E, AreEmissions(E)
      PROVE  AreLocations(FirstOfEach(E))
  BY <1>3 DEF FirstOfEach, AreEmissions, AreLocations
<1>4. AreLocations(DefaultServer)
  <2> DEFINE shared == {i \in DOMAIN apps : apps[i].domain = NoHost}
             E == (UNION {Emit(i, IF IsLocal(apps[i]) THEN 1 ELSE 2) : i \in shared})
                  \cup EmitFallback(RenderedRoots)
  <2>1. ASSUME NEW e \in E
        PROVE  IsLocation(e.loc)
    <3>1. CASE \E i \in DOMAIN apps : \E round : e \in Emit(i, round)
      BY <1>1, <3>1 DEF AreEmissions
    <3>2. CASE e \in EmitFallback(RenderedRoots)
      BY <1>2, <3>2 DEF AreEmissions
    <3> QED BY <2>1, <3>1, <3>2
  <2>2. AreEmissions(E)
    BY <2>1 DEF AreEmissions
  <2> QED BY <1>3, <2>2 DEF DefaultServer
<1>5. ASSUME NEW d \in DOMAIN apps
      PROVE  AreLocations(DomainServer(d))
  <2> DEFINE shared == {i \in DOMAIN apps : apps[i].domain = NoHost}
             own == IF IsLocal(apps[d]) \/ apps[d].remote # 0 THEN {d} ELSE {}
             E == (UNION {Emit(i, 1) : i \in shared}) \cup (UNION {Emit(i, 2) : i \in own})
                  \cup EmitFallback({apps[d]})
  <2>1. ASSUME NEW e \in E
        PROVE  IsLocation(e.loc)
    <3>1. CASE \E i \in DOMAIN apps : \E round : e \in Emit(i, round)
      BY <1>1, <3>1 DEF AreEmissions
    <3>2. CASE e \in EmitFallback({apps[d]})
      BY <1>2, <3>2 DEF AreEmissions
    <3>3. own \subseteq DOMAIN apps
      OBVIOUS
    <3> QED BY <2>1, <3>1, <3>2, <3>3
  <2>2. AreEmissions(E)
    BY <2>1 DEF AreEmissions
  <2> QED BY <1>3, <2>2 DEF DomainServer
<1>6. FirstServer(host) \subseteq DOMAIN apps
  BY DEF FirstServer
<1> QED BY <1>4, <1>5, <1>6 DEF Server, AreLocations

----------------------------------------------------------------------------
(* The inductive invariant.                                                 *)

DistinctIds == \A i, j \in DOMAIN apps : apps[i].id = apps[j].id => i = j

IInv ==
    /\ AppsTyped
    /\ DistinctIds
    /\ routes = NormalizedRoutes
    /\ nginx = Rendered
    /\ Accepted

LEMMA Renders ==
    ASSUME Render
    PROVE  routes' = NormalizedRoutes' /\ nginx' = Rendered' /\ Accepted'
BY DEF Render

LEMMA StutterKeepsRoutes ==
    ASSUME UNCHANGED vars
    PROVE  NormalizedRoutes' = NormalizedRoutes
BY DEF vars, NormalizedRoutes, Deduped, HostRoutes, FallbackRoute,
       DefaultRoots, AppRoutes, Shared, Apps, Target, IsLocal, Local, Remote,
       Route, PatternEntries, Special, IngressPath, Exact, Prefix

LEMMA StutterKeepsServers ==
    ASSUME UNCHANGED vars
    PROVE  Rendered' = Rendered
BY DEF vars, Rendered, Hosts, Apps, Server, FirstServer, DefaultServer,
       DomainServer, FirstOfEach, Emit, EmitFallback, RenderedRoots,
       FallbackLocation, AppLocations, Patterns, SpecialLocations

LEMMA RegisterKeeps ==
    ASSUME IInv, NEW a \in Registrations, Register(a)
    PROVE  IInv'
<1>1. a \in Applications /\ a.id \notin {b.id : b \in Apps}
  BY RegistrationsAssumption DEF Register
<1>2. apps \in Seq(Applications) /\ apps' = Append(apps, a)
  BY DEF IInv, AppsTyped, Register
<1>3. AppsTyped'
  BY <1>1, <1>2 DEF AppsTyped
<1>4. \A i \in DOMAIN apps : apps[i].id # a.id
  BY <1>1 DEF Apps, ToSet
<1>5. DistinctIds'
  <2>1. DOMAIN apps = 1 .. Len(apps) /\ DOMAIN apps' = 1 .. (Len(apps) + 1)
    BY <1>2
  <2>2. \A i \in DOMAIN apps : apps'[i] = apps[i]
    BY <1>2
  <2>3. apps'[Len(apps) + 1] = a
    BY <1>2
  <2>4. \A i \in DOMAIN apps' : i \in DOMAIN apps \/ i = Len(apps) + 1
    BY <1>2, <2>1
  <2> QED BY <1>4, <2>1, <2>2, <2>3, <2>4 DEF DistinctIds, IInv
<1>6. Render
  BY DEF Register
<1> QED BY <1>3, <1>5, <1>6, Renders DEF IInv

LEMMA UnregisterKeeps ==
    ASSUME IInv, NEW i \in DOMAIN apps, Unregister(i)
    PROVE  IInv'
<1>1. apps \in Seq(Applications) /\ i \in 1 .. Len(apps)
  BY DEF IInv, AppsTyped
<1>2. apps' = SubSeq(apps, 1, i - 1) \o SubSeq(apps, i + 1, Len(apps))
  BY DEF Unregister, RemoveAt
<1>3. /\ SubSeq(apps, 1, i - 1) \in Seq(Applications)
      /\ SubSeq(apps, i + 1, Len(apps)) \in Seq(Applications)
  BY <1>1
<1>4. AppsTyped'
  BY <1>2, <1>3 DEF AppsTyped
<1>5. /\ DOMAIN apps' = 1 .. (Len(apps) - 1)
      /\ \A j \in DOMAIN apps' : apps'[j] = IF j < i THEN apps[j] ELSE apps[j + 1]
  BY <1>1, <1>2, <1>3
<1>6. DistinctIds'
  BY <1>1, <1>5 DEF DistinctIds, IInv
<1>7. Render
  BY DEF Unregister
<1> QED BY <1>4, <1>6, <1>7, Renders DEF IInv

\* Toggling, a new pattern and a plan replace one application by another one
\* with the same identifier.
LEMMA ChangeKeeps ==
    ASSUME IInv, NEW i \in DOMAIN apps, NEW a \in Applications,
           a.id = apps[i].id, apps' = [apps EXCEPT ![i] = a], Render
    PROVE  IInv'
<1>1. apps \in Seq(Applications)
  BY DEF IInv, AppsTyped
<1>2. AppsTyped'
  BY <1>1 DEF AppsTyped
<1>3. DOMAIN apps' = DOMAIN apps /\ \A j \in DOMAIN apps : apps'[j].id = apps[j].id
  BY <1>1
<1>4. DistinctIds'
  BY <1>3 DEF DistinctIds, IInv
<1> QED BY <1>2, <1>4, Renders DEF IInv

LEMMA ToggleKeeps ==
    ASSUME IInv, NEW i \in DOMAIN apps, ToggleApp(i)
    PROVE  IInv'
<1> DEFINE a == [apps[i] EXCEPT !.active = ~ apps[i].active]
<1>1. apps[i] \in Applications
  BY AppsAreApplications DEF IInv
<1>2. a \in Applications /\ a.id = apps[i].id
  BY <1>1 DEF Applications
<1>3. apps' = [apps EXCEPT ![i] = a] /\ Render
  BY DEF ToggleApp
<1> HIDE DEF a
<1> QED BY <1>2, <1>3, ChangeKeeps

LEMMA UpdateKeeps ==
    ASSUME IInv, NEW i \in DOMAIN apps, NEW pattern \in NewPatterns,
           UpdateRoutePattern(i, pattern)
    PROVE  IInv'
<1> DEFINE a == [apps[i] EXCEPT !.pattern = pattern]
<1>1. apps[i] \in Applications
  BY AppsAreApplications DEF IInv
<1>2. a \in Applications /\ a.id = apps[i].id
  BY <1>1, NewPatternsAssumption DEF Applications
<1>3. apps' = [apps EXCEPT ![i] = a] /\ Render
  BY DEF UpdateRoutePattern
<1> HIDE DEF a
<1> QED BY <1>2, <1>3, ChangeKeeps

LEMMA PlanKeeps ==
    ASSUME IInv, NEW i \in DOMAIN apps, NEW local \in BOOLEAN,
           NEW pattern \in {apps[i].pattern} \cup NewPatterns,
           ApplyPlan(i, local, pattern)
    PROVE  IInv'
<1> DEFINE a == Planned(apps[i], local, pattern)
<1>1. apps[i] \in Applications
  BY AppsAreApplications DEF IInv
<1>2. pattern \in RoutePatterns
  BY <1>1, NewPatternsAssumption DEF Applications
<1>3. a \in Applications /\ a.id = apps[i].id
  BY <1>1, <1>2 DEF Applications, Planned
<1>4. apps' = [apps EXCEPT ![i] = a] /\ Render
  BY DEF ApplyPlan
<1> HIDE DEF a
<1> QED BY <1>3, <1>4, ChangeKeeps

\* Without applications there is one route, and it has no owner.
LEMMA NothingCompetes ==
    ASSUME Init
    PROVE  Accepted
<1>1. Apps = {} /\ Shared = {} /\ DefaultRoots = {}
  BY DEF Init, Apps, ToSet, Shared, DefaultRoots
<1>2. HostRoutes(LocalHost, {}).own = {}
  BY <1>1 DEF HostRoutes
<1>3. \A r \in HostRoutes(LocalHost, {}).fallback : r.app = 0
  BY <1>1 DEF HostRoutes, FallbackRoute, Route
<1>4. \A r \in routes : r.app = 0
  BY <1>1, <1>2, <1>3 DEF Init, NormalizedRoutes, Deduped
<1> QED BY <1>4 DEF Accepted, Conflicts

(* The list and the servers are always those of the applications.           *)
THEOREM Invariant == Spec => []IInv
<1>1. Init => IInv
  BY NothingCompetes DEF Init, IInv, AppsTyped, DistinctIds
<1>2. IInv /\ [Next]_vars => IInv'
  <2> SUFFICES ASSUME IInv, [Next]_vars
               PROVE  IInv'
    OBVIOUS
  <2>1. CASE UNCHANGED vars
    <3>1. AppsTyped' /\ DistinctIds' /\ routes' = routes /\ nginx' = nginx
      BY <2>1 DEF vars, IInv, AppsTyped, DistinctIds
    <3>2. Accepted'
      BY <3>1 DEF IInv, Accepted, Conflicts
    <3> QED BY <2>1, <3>1, <3>2, StutterKeepsRoutes, StutterKeepsServers DEF IInv
  <2>2. CASE Next
    BY <2>2, RegisterKeeps, UnregisterKeeps, ToggleKeeps, UpdateKeeps, PlanKeeps DEF Next
  <2> QED BY <2>1, <2>2
<1> QED BY <1>1, <1>2, PTL DEF Spec

(* Type correctness, whatever is registered.                                *)
THEOREM TypeCorrect == Spec => []TypeOK
<1>1. IInv => TypeOK
  <2> SUFFICES ASSUME IInv PROVE TypeOK
    OBVIOUS
  <2>1. \A r \in routes : IsLocation(r)
    BY NormalizedRoutesAreLocations DEF IInv
  <2>2. DOMAIN nginx = Hosts
    BY DEF IInv, Rendered
  <2> QED BY <2>1, <2>2 DEF IInv, AppsTyped, DistinctIds, TypeOK
<1> QED BY <1>1, Invariant, PTL

(* In every workspace, whatever its applications and however they are       *)
(* registered, removed and changed, compactLocations changes no answer of   *)
(* nginx that is not a redirect to the slash.                               *)
THEOREM CompactionNeverShows == Spec => []CompactionIsInvisible
<1>1. IInv => CompactionIsInvisible
  <2> SUFFICES ASSUME IInv, NEW host \in Hosts, NEW u \in Uris,
                      ~ Redirected(Uncompacted(Server(host)), u),
                      ~ Redirected(nginx[host], u)
               PROVE  Answered(host, u) = Answers(Uncompacted(Server(host)), u)
    BY DEF CompactionIsInvisible
  <2>1. \A r \in routes : IsLocation(r)
    BY NormalizedRoutesAreLocations DEF IInv
  <2>2. AreLocations(Server(host))
    BY <2>1, ServersHaveLocations DEF IInv
  <2>3. nginx[host] = Compact(Server(host))
    BY DEF IInv, Rendered
  <2>4. u \in Paths
    BY UrisAssumption DEF Paths
  <2> QED BY <2>2, <2>3, <2>4, CompactionKeepsAnswers DEF Answered
<1> QED BY <1>1, Invariant, PTL

----------------------------------------------------------------------------
(* What comes first in two lists of the same patterns.                      *)

\* Of two lists with the same matchers the same ones come first.
LEMMA SameMatchersSameFirst ==
    ASSUME NEW S, NEW T, NEW u, NEW s \in S, NEW t \in T, SamePattern(s, t),
           \A x \in T : \E y \in S : SamePattern(y, x),
           Hits(s, u), \A y \in S : Hits(y, u) => ~ Ahead(y, s)
    PROVE  Hits(t, u) /\ \A x \in T : Hits(x, u) => ~ Ahead(x, t)
<1>1. \A x, y : SamePattern(x, y) => Hits(x, u) = Hits(y, u)
  BY DEF SamePattern, Hits
<1>2. \A x, y, z : SamePattern(x, y) => Ahead(x, z) = Ahead(y, z) /\ Ahead(z, x) = Ahead(z, y)
  BY DEF SamePattern, Ahead
<1>3. Hits(t, u)
  BY <1>1
<1>4. ASSUME NEW x \in T, Hits(x, u), Ahead(x, t)
      PROVE  FALSE
  <2>1. PICK y \in S : SamePattern(y, x)
    OBVIOUS
  <2>2. Hits(y, u) /\ Ahead(y, t)
    BY <1>1, <1>2, <1>4, <2>1
  <2>3. Ahead(y, s)
    BY <1>2, <2>2
  <2> QED BY <2>2, <2>3
<1> QED BY <1>3, <1>4

----------------------------------------------------------------------------
(* What is listed for a host, application by application.                   *)

\* The application that owns the catch-all of the host.
RootAt(a, host) ==
    IF host = LocalHost THEN a \in DefaultRoots ELSE a.domain = host

\* Applications with routes of their own on the host.
GivesAt(a, host) ==
    a.domain = NoHost \/ (a.domain = host /\ (IsLocal(a) \/ a.remote # 0))

\* The matchers of an application on the host.
EntriesAt(a, host) ==
    (IF GivesAt(a, host) THEN PatternEntries(a) ELSE {})
    \cup (IF RootAt(a, host) THEN {Prefix(<<>>)} ELSE {})

\* What a route says, its permission to overlap aside.
Says(r, host, exact, path, app, local, target) ==
    /\ r.host = host /\ r.exact = exact /\ r.path = path
    /\ r.app = app /\ r.local = local /\ r.target = target

Lists(r, host, m, a) == Says(r, host, m.exact, m.path, a.id, a.active, Target(a))

\* The route without an owner.
NoOwner(r, host) == Says(r, host, FALSE, <<>>, 0, FALSE, [local |-> FALSE, at |-> 0])

\* What Deduped calls the same, and makes of a route of its own.
SameEntry(x, y) == x.exact = y.exact /\ x.path = y.path /\ x.app = y.app

Merged(x, fallback) == [x EXCEPT !.override = @ \/ \E f \in fallback : SameEntry(x, f)]

LEMMA RouteSays ==
    ASSUME NEW host, NEW m, NEW app, NEW local, NEW target, NEW o
    PROVE  /\ Says(Route(host, m, app, local, target, o),
                   host, m.exact, m.path, app, local, target)
           /\ Route(host, m, app, local, target, o).override = o
BY DEF Route, Says

LEMMA MergedSays ==
    ASSUME NEW host, NEW m, NEW app, NEW local, NEW target, NEW o, NEW fallback,
           NEW x, x = Route(host, m, app, local, target, o)
    PROVE  /\ Says(Merged(x, fallback), host, m.exact, m.path, app, local, target)
           /\ Merged(x, fallback).override = (o \/ \E f \in fallback : SameEntry(x, f))
BY DEF Route, Says, Merged

LEMMA DedupedAre ==
    ASSUME NEW own, NEW fallback
    PROVE  Deduped([own |-> own, fallback |-> fallback])
           = {Merged(x, fallback) : x \in own}
             \cup {f \in fallback : ~ \E x \in own : SameEntry(x, f)}
BY DEF Deduped, Merged, SameEntry

\* Fallbacks have no application, or are catch-alls of root applications.
FallbackOf(f, host, roots) ==
    \/ roots = {} /\ NoOwner(f, host)
    \/ \E a \in roots : Lists(f, host, Prefix(<<>>), a)

LEMMA FallbackListed ==
    ASSUME NEW roots, NEW host
    PROVE  LET fallback == FallbackRoute(roots, host)
           IN  /\ \A f \in fallback : FallbackOf(f, host, roots)
               /\ roots = {} => \E f \in fallback : NoOwner(f, host)
               /\ \A a \in roots : \E f \in fallback : Lists(f, host, Prefix(<<>>), a)
<1>1. \A a : Lists(Route(host, Prefix(<<>>), a.id, a.active, Target(a), TRUE),
                   host, Prefix(<<>>), a)
  BY RouteSays DEF Lists
<1>2. NoOwner(Route(host, Prefix(<<>>), 0, FALSE, [local |-> FALSE, at |-> 0], TRUE), host)
  <2>1. Prefix(<<>>).exact = FALSE /\ Prefix(<<>>).path = <<>>
    BY DEF Prefix
  <2>2. Says(Route(host, Prefix(<<>>), 0, FALSE, [local |-> FALSE, at |-> 0], TRUE),
             host, Prefix(<<>>).exact, Prefix(<<>>).path, 0, FALSE,
             [local |-> FALSE, at |-> 0])
    BY RouteSays
  <2> QED BY <2>1, <2>2 DEF NoOwner
<1>3. CASE roots = {}
  BY <1>2, <1>3 DEF FallbackRoute, FallbackOf
<1>4. CASE roots # {}
  BY <1>1, <1>4 DEF FallbackRoute, FallbackOf
<1> QED BY <1>3, <1>4

LEMMA AppsById ==
    ASSUME DistinctIds, NEW a \in Apps, NEW b \in Apps, a.id = b.id
    PROVE  a = b
BY DEF DistinctIds, Apps, ToSet

\* A list has a route for each pattern of the givers, for each root and, if
\* there is no root, one without an owner; and it has no others.
ListsOf(list, host, givers, roots) ==
    /\ \A a \in givers : \A m \in PatternEntries(a) :
          \E r \in list : Lists(r, host, m, a)
    /\ \A a \in roots : \E r \in list : Lists(r, host, Prefix(<<>>), a)
    /\ roots = {} => \E r \in list : NoOwner(r, host)
    /\ \A r \in list :
          \/ \E a \in givers : \E m \in PatternEntries(a) :
                /\ Lists(r, host, m, a)
                /\ \/ r.override = a.override
                   \/ a \in roots /\ r.exact = FALSE /\ r.path = <<>>
          \/ FallbackOf(r, host, roots)

\* Dropping a fallback that is repeated loses nothing but its override.
LEMMA DedupedLists ==
    ASSUME AppsTyped, DistinctIds, NEW host,
           NEW givers, givers \subseteq Apps, NEW roots, roots \subseteq Apps,
           NEW own, own = UNION {AppRoutes(a, host) : a \in givers},
           NEW fallback, fallback = FallbackRoute(roots, host),
           NEW list, list = Deduped([own |-> own, fallback |-> fallback])
    PROVE  ListsOf(list, host, givers, roots)
<1>1. list = {Merged(x, fallback) : x \in own}
             \cup {f \in fallback : ~ \E x \in own : SameEntry(x, f)}
  BY DedupedAre
<1> DEFINE of(a, m) == Route(host, m, a.id, a.active, Target(a), a.override)
           ListsMerged(x, a, m) ==
               /\ Lists(x, host, m, a) /\ x.override = a.override
               /\ Lists(Merged(x, fallback), host, m, a)
               /\ Merged(x, fallback).override
                     = (a.override \/ \E f \in fallback : SameEntry(x, f))
<1>0. ASSUME NEW a, NEW m, NEW x, x = of(a, m)
      PROVE  ListsMerged(x, a, m)
  <2>1. x = Route(host, m, a.id, a.active, Target(a), a.override)
    BY <1>0
  <2>2. Lists(x, host, m, a) /\ x.override = a.override
    BY <2>1, RouteSays DEF Lists
  <2>3. /\ Lists(Merged(x, fallback), host, m, a)
        /\ Merged(x, fallback).override
              = (a.override \/ \E f \in fallback : SameEntry(x, f))
    BY <2>1, MergedSays DEF Lists
  <2> QED BY <2>2, <2>3
<1>16. \A x \in own : \E a \in givers : \E m \in PatternEntries(a) : x = of(a, m)
  BY DEF AppRoutes
<1>17. \A a \in givers : \A m \in PatternEntries(a) : of(a, m) \in own
  BY DEF AppRoutes
<1> HIDE DEF ListsMerged, of
<1>2. \A x \in own : \E a \in givers : \E m \in PatternEntries(a) : ListsMerged(x, a, m)
  BY <1>0, <1>16
<1>3. \A a \in givers : \A m \in PatternEntries(a) : \E x \in own : ListsMerged(x, a, m)
  BY <1>0, <1>17
<1>4. /\ \A f \in fallback : FallbackOf(f, host, roots)
      /\ roots = {} => \E f \in fallback : NoOwner(f, host)
      /\ \A a \in roots : \E f \in fallback : Lists(f, host, Prefix(<<>>), a)
  BY FallbackListed
<1>5. \A a \in Apps : a.id \in Nat \ {0}
  BY AppsAreApplications DEF Applications
<1>6. Prefix(<<>>).exact = FALSE /\ Prefix(<<>>).path = <<>>
  BY DEF Prefix
<1>7. \A x \in own : Merged(x, fallback) \in list
  BY <1>1
<1>8. \A f \in fallback : f \in list \/ \E x \in own : SameEntry(x, f)
  BY <1>1
<1>9. \A r \in list : r \in fallback \/ \E x \in own : r = Merged(x, fallback)
  BY <1>1
<1>10. \A a \in givers : \A m \in PatternEntries(a) : \E r \in list : Lists(r, host, m, a)
  BY <1>3, <1>7 DEF ListsMerged
<1>11. ASSUME NEW a \in roots, NEW x \in own, NEW f \in fallback,
              SameEntry(x, f), Lists(f, host, Prefix(<<>>), a)
       PROVE  Lists(Merged(x, fallback), host, Prefix(<<>>), a)
  <2>1. PICK b \in givers : \E m \in PatternEntries(b) :
            ListsMerged(x, b, m)
    BY <1>2
  <2>2. PICK m \in PatternEntries(b) :
            Lists(x, host, m, b) /\ Lists(Merged(x, fallback), host, m, b)
    BY <2>1 DEF ListsMerged
  <2>3. b.id = a.id /\ m.exact = FALSE /\ m.path = <<>>
    BY <1>6, <1>11, <2>2 DEF SameEntry, Lists, Says
  <2>4. b = a
    BY <2>3, AppsById
  <2> QED BY <1>6, <2>2, <2>3, <2>4 DEF Lists
<1>12. \A a \in roots : \E r \in list : Lists(r, host, Prefix(<<>>), a)
  BY <1>4, <1>7, <1>8, <1>11
<1>13. ASSUME roots = {}
       PROVE  \E r \in list : NoOwner(r, host)
  <2>1. PICK f \in fallback : NoOwner(f, host)
    BY <1>4, <1>13
  <2>2. \A x \in own : x.app # 0
    BY <1>2, <1>5 DEF ListsMerged, Lists, Says
  <2>3. f.app = 0
    BY <2>1 DEF NoOwner, Says
  <2>4. f \in list
    BY <1>8, <2>2, <2>3 DEF SameEntry
  <2> QED BY <2>1, <2>4
<1>14. ASSUME NEW x \in own
       PROVE  \E a \in givers : \E m \in PatternEntries(a) :
                 /\ Lists(Merged(x, fallback), host, m, a)
                 /\ \/ Merged(x, fallback).override = a.override
                    \/ a \in roots /\ Merged(x, fallback).exact = FALSE
                                   /\ Merged(x, fallback).path = <<>>
  <2>1. PICK a \in givers : \E m \in PatternEntries(a) :
          ListsMerged(x, a, m)
    BY <1>2
  <2>2. PICK m \in PatternEntries(a) :
          /\ Lists(x, host, m, a) /\ x.override = a.override
          /\ Lists(Merged(x, fallback), host, m, a)
          /\ Merged(x, fallback).override
                = (a.override \/ \E f \in fallback : SameEntry(x, f))
    BY <2>1 DEF ListsMerged
  <2>3. ASSUME NEW f \in fallback, SameEntry(x, f)
        PROVE  a \in roots /\ m.exact = FALSE /\ m.path = <<>>
    <3>1. f.app = a.id /\ f.exact = m.exact /\ f.path = m.path
      BY <2>2, <2>3 DEF SameEntry, Lists, Says
    <3>2. ~ NoOwner(f, host)
      BY <1>5, <3>1 DEF NoOwner, Says
    <3>3. PICK b \in roots : Lists(f, host, Prefix(<<>>), b)
      BY <1>4, <3>2 DEF FallbackOf
    <3>4. b.id = a.id
      BY <3>1, <3>3 DEF Lists, Says
    <3>5. b = a
      BY <3>4, AppsById
    <3> QED BY <1>6, <3>1, <3>3, <3>5 DEF Lists, Says
  <2>4. (\E f \in fallback : SameEntry(x, f)) => a \in roots /\ m.exact = FALSE /\ m.path = <<>>
    BY <2>3
  <2>5. Merged(x, fallback).exact = m.exact /\ Merged(x, fallback).path = m.path
    BY <2>2 DEF Lists, Says
  <2>6. a.override \in BOOLEAN
    BY AppsAreApplications DEF Applications
  <2> QED BY <2>2, <2>4, <2>5, <2>6
<1>15. ASSUME NEW r \in list
       PROVE  \/ \E a \in givers : \E m \in PatternEntries(a) :
                    /\ Lists(r, host, m, a)
                    /\ \/ r.override = a.override
                       \/ a \in roots /\ r.exact = FALSE /\ r.path = <<>>
              \/ FallbackOf(r, host, roots)
  <2>1. CASE r \in fallback
    BY <1>4, <2>1
  <2>2. CASE \E x \in own : r = Merged(x, fallback)
    <3>1. PICK x \in own : r = Merged(x, fallback)
      BY <2>2
    <3> QED BY <1>14, <3>1
  <2> QED BY <1>9, <2>1, <2>2
<1> QED BY <1>10, <1>12, <1>13, <1>15 DEF ListsOf

\* No matcher is lost when the first location of each is taken.
LEMMA FirstOfEachCovers ==
    ASSUME NEW E, \A e \in E : e.turn \in Nat, NEW e \in E
    PROVE  \E l \in FirstOfEach(E) : SamePattern(e.loc, l)
<1> DEFINE same == {y \in E : y.loc.exact = e.loc.exact /\ y.loc.path = e.loc.path}
           turns == {y.turn : y \in same}
<1>1. turns \subseteq Nat /\ turns # {}
  OBVIOUS
<1>2. PICK t \in turns : \A s \in turns : t <= s
  <2> HIDE DEF turns
  <2> QED BY <1>1, LeastNatural
<1>3. PICK x \in same : t = x.turn
  OBVIOUS
<1>4. \A y \in E : y.loc.exact = x.loc.exact /\ y.loc.path = x.loc.path => x.turn <= y.turn
  BY <1>2, <1>3
<1>5. x.loc \in FirstOfEach(E)
  BY <1>4 DEF FirstOfEach
<1> QED BY <1>5 DEF SamePattern

----------------------------------------------------------------------------
(* The routes of a host.                                                    *)

\* HostRoutes' roots, by host.
RootsAt(host) == {a \in Apps : RootAt(a, host)}

\* r is what is listed for an entry of an application.
ListedFor(r, host, a, m) ==
    /\ Lists(r, host, m, a)
    /\ r.override = a.override \/ (RootAt(a, host) /\ r.exact = FALSE /\ r.path = <<>>)

HostLists(list, host) ==
    /\ \A a \in Apps : \A m \in EntriesAt(a, host) : \E r \in list : Lists(r, host, m, a)
    /\ RootsAt(host) = {} => \E r \in list : NoOwner(r, host)
    /\ \A r \in list :
          \/ \E a \in Apps : \E m \in EntriesAt(a, host) : ListedFor(r, host, a, m)
          \/ RootsAt(host) = {} /\ NoOwner(r, host)

LEMMA ListOfHost ==
    ASSUME AppsTyped, DistinctIds, NEW host, NEW domainApps,
           {a \in Apps : GivesAt(a, host)}
              = Shared \cup {d \in domainApps : IsLocal(d) \/ d.remote # 0},
           RootsAt(host) = IF domainApps = {} THEN DefaultRoots ELSE domainApps
    PROVE  HostLists(Deduped(HostRoutes(host, domainApps)), host)
<1> DEFINE givers == {a \in Apps : GivesAt(a, host)}
           own == UNION {AppRoutes(a, host) : a \in givers}
           fallback == FallbackRoute(RootsAt(host), host)
           list == Deduped(HostRoutes(host, domainApps))
<1>1. HostRoutes(host, domainApps) = [own |-> own, fallback |-> fallback]
  BY DEF HostRoutes
<1>2. givers \subseteq Apps /\ RootsAt(host) \subseteq Apps
  BY DEF RootsAt
<1>3. own = UNION {AppRoutes(a, host) : a \in givers}
  OBVIOUS
<1>4. list = Deduped([own |-> own, fallback |-> fallback])
  BY <1>1
<1>5. \A a \in Apps : a \in givers <=> GivesAt(a, host)
  OBVIOUS
<1>9. fallback = FallbackRoute(RootsAt(host), host)
  OBVIOUS
<1> HIDE DEF givers, own, list, fallback
<1>10. ListsOf(list, host, givers, RootsAt(host))
  BY <1>2, <1>3, <1>4, <1>9, DedupedLists
<1>6. /\ \A a \in givers : \A m \in PatternEntries(a) :
            \E r \in list : Lists(r, host, m, a)
      /\ \A a \in RootsAt(host) : \E r \in list : Lists(r, host, Prefix(<<>>), a)
      /\ RootsAt(host) = {} => \E r \in list : NoOwner(r, host)
      /\ \A r \in list :
            \/ \E a \in givers : \E m \in PatternEntries(a) :
                  /\ Lists(r, host, m, a)
                  /\ \/ r.override = a.override
                     \/ a \in RootsAt(host) /\ r.exact = FALSE /\ r.path = <<>>
            \/ FallbackOf(r, host, RootsAt(host))
  BY <1>10 DEF ListsOf
<1>7. ASSUME NEW a \in Apps, NEW m \in EntriesAt(a, host)
      PROVE  \E r \in list : Lists(r, host, m, a)
  <2>1. CASE a \in givers /\ m \in PatternEntries(a)
    BY <1>6, <2>1
  <2>2. CASE a \in RootsAt(host) /\ m = Prefix(<<>>)
    BY <1>6, <2>2
  <2> QED BY <1>5, <1>7, <2>1, <2>2 DEF EntriesAt, RootsAt
<1>8. ASSUME NEW r \in list
      PROVE  \/ \E a \in Apps : \E m \in EntriesAt(a, host) : ListedFor(r, host, a, m)
             \/ RootsAt(host) = {} /\ NoOwner(r, host)
  <2>1. ASSUME NEW a \in givers, NEW m \in PatternEntries(a),
               Lists(r, host, m, a),
               \/ r.override = a.override
               \/ a \in RootsAt(host) /\ r.exact = FALSE /\ r.path = <<>>
        PROVE  a \in Apps /\ m \in EntriesAt(a, host) /\ ListedFor(r, host, a, m)
    BY <1>2, <1>5, <2>1 DEF EntriesAt, ListedFor, RootsAt
  <2>2. ASSUME NEW a \in RootsAt(host), Lists(r, host, Prefix(<<>>), a)
        PROVE  /\ a \in Apps /\ Prefix(<<>>) \in EntriesAt(a, host)
               /\ ListedFor(r, host, a, Prefix(<<>>))
    BY <2>2 DEF EntriesAt, ListedFor, RootsAt, Lists, Says, Prefix
  <2> QED BY <1>6, <2>1, <2>2 DEF FallbackOf
<1> QED BY <1>6, <1>7, <1>8 DEF HostLists, list

HasHost(list, host) == \A r \in list : r.host = host

LEMMA ListHasHost ==
    ASSUME NEW list, NEW host, HostLists(list, host)
    PROVE  HasHost(list, host)
BY DEF HostLists, HasHost, ListedFor, Lists, NoOwner, Says

\* The list of one host.
RoutesAt(host) == {r \in routes : r.host = host}

LEMMA HostListing ==
    ASSUME AppsTyped, DistinctIds, OneServerPerHost, routes = NormalizedRoutes
    PROVE  /\ \A host \in Hosts : HostLists(RoutesAt(host), host)
           /\ \A r \in routes : r.host \in Hosts
<1> DEFINE local == Deduped(HostRoutes(LocalHost, {}))
           own(d) == Deduped(HostRoutes(d.domain, {d}))
<1>1. HostLists(local, LocalHost)
  <2>1. {a \in Apps : GivesAt(a, LocalHost)}
           = Shared \cup {d \in {} : IsLocal(d) \/ d.remote # 0}
    BY DEF GivesAt, Shared, OneServerPerHost
  <2>2. RootsAt(LocalHost) = IF {} = {} THEN DefaultRoots ELSE {}
    BY DEF RootsAt, RootAt, DefaultRoots
  <2> QED BY <2>1, <2>2, ListOfHost
<1>2. ASSUME NEW d \in Apps \ Shared
      PROVE  d.domain # LocalHost /\ HostLists(own(d), d.domain)
  <2>1. d.domain # LocalHost /\ d.domain # NoHost
    BY DEF OneServerPerHost, Shared
  <2>2. \A a \in Apps : a.domain = d.domain => a = d
    BY <2>1 DEF OneServerPerHost, Shared
  <2>3. {a \in Apps : GivesAt(a, d.domain)}
           = Shared \cup {x \in {d} : IsLocal(x) \/ x.remote # 0}
    BY <2>1, <2>2 DEF GivesAt, Shared
  <2>4. RootsAt(d.domain) = IF {d} = {} THEN DefaultRoots ELSE {d}
    BY <2>1, <2>2 DEF RootsAt, RootAt
  <2>5. HostLists(own(d), d.domain)
    BY <2>3, <2>4, ListOfHost
  <2> QED BY <2>1, <2>5
<1>3. routes = local \cup (UNION {own(d) : d \in Apps \ Shared})
  BY DEF NormalizedRoutes
<1> HIDE DEF local, own
<1>4. HasHost(local, LocalHost) /\ \A d \in Apps \ Shared : HasHost(own(d), d.domain)
  BY <1>1, <1>2, ListHasHost
<1>5. RoutesAt(LocalHost) = local
  BY <1>2, <1>3, <1>4 DEF RoutesAt, HasHost
<1>6. ASSUME NEW d \in Apps \ Shared
      PROVE  RoutesAt(d.domain) = own(d)
  <2>1. \A e \in Apps \ Shared : e.domain = d.domain => e = d
    BY DEF OneServerPerHost
  <2>2. d.domain # LocalHost
    BY <1>2
  <2>3. \A r \in local : r.host # d.domain
    BY <2>2, <1>4 DEF HasHost
  <2>4. \A e \in Apps \ Shared : \A r \in own(e) : r.host = d.domain => e = d
    BY <2>1, <1>4 DEF HasHost
  <2>5. \A r \in own(d) : r.host = d.domain
    BY <1>4 DEF HasHost
  <2> QED BY <1>3, <2>3, <2>4, <2>5 DEF RoutesAt
<1>7. ASSUME NEW host \in Hosts
      PROVE  host = LocalHost \/ \E d \in Apps \ Shared : host = d.domain
  BY DEF Hosts, Shared
<1>8. \A host \in Hosts : HostLists(RoutesAt(host), host)
  BY <1>1, <1>2, <1>5, <1>6, <1>7
<1>9. \A r \in routes : r.host \in Hosts
  BY <1>3, <1>4 DEF HasHost, Hosts, Shared
<1> QED BY <1>8, <1>9

----------------------------------------------------------------------------
(* The locations of a server.                                               *)

FallbackRoots(host) == IF host = LocalHost THEN RenderedRoots ELSE RootsAt(host)

\* What is emitted for the server of a host, up to the order.
EmittedAt(E, host) ==
    /\ Server(host) = FirstOfEach(E)
    /\ \A i \in DOMAIN apps :
          GivesAt(apps[i], host) => \E round \in {1, 2} : Emit(i, round) \subseteq E
    /\ EmitFallback(FallbackRoots(host)) \subseteq E
    /\ \A e \in E :
          \/ \E i \in DOMAIN apps : \E round \in {1, 2} :
                GivesAt(apps[i], host) /\ e \in Emit(i, round)
          \/ e \in EmitFallback(FallbackRoots(host))

LEMMA DefaultServerEmits ==
    ASSUME OneServerPerHost
    PROVE  \E E : EmittedAt(E, LocalHost)
<1> DEFINE shared == {i \in DOMAIN apps : apps[i].domain = NoHost}
           round(i) == IF IsLocal(apps[i]) THEN 1 ELSE 2
           E == (UNION {Emit(i, round(i)) : i \in shared}) \cup EmitFallback(RenderedRoots)
<1>1. \A i \in DOMAIN apps : apps[i] \in Apps
  BY DEF Apps, ToSet
<1>2. \A i \in DOMAIN apps : GivesAt(apps[i], LocalHost) <=> i \in shared
  BY <1>1 DEF GivesAt, OneServerPerHost, Shared
<1>3. Server(LocalHost) = FirstOfEach(E)
  BY DEF Server, DefaultServer
<1>4. FallbackRoots(LocalHost) = RenderedRoots
  BY DEF FallbackRoots
<1>5. \A i \in DOMAIN apps : GivesAt(apps[i], LocalHost) =>
          round(i) \in {1, 2} /\ Emit(i, round(i)) \subseteq E
  BY <1>2
<1>6. \A i \in shared : i \in DOMAIN apps /\ round(i) \in {1, 2}
  OBVIOUS
<1>7. EmitFallback(RenderedRoots) \subseteq E
  OBVIOUS
<1>8. \A e \in E : (\E i \in shared : e \in Emit(i, round(i))) \/ e \in EmitFallback(RenderedRoots)
  OBVIOUS
<1> HIDE DEF E, round, shared
<1> QED BY <1>2, <1>3, <1>4, <1>5, <1>6, <1>7, <1>8 DEF EmittedAt

LEMMA DomainServerEmits ==
    ASSUME AppsTyped, DistinctIds, OneServerPerHost,
           NEW host \in Hosts, host # LocalHost
    PROVE  \E E : EmittedAt(E, host)
<1>0. \A i \in DOMAIN apps : apps[i] \in Apps
  BY DEF Apps, ToSet
<1>1. PICK d \in DOMAIN apps : apps[d].domain = host /\ host # NoHost
  BY DEF Hosts, Apps, ToSet
<1>2. \A i \in DOMAIN apps : apps[i].domain = host => i = d
  <2>1. \A i \in DOMAIN apps : apps[i].domain = host => apps[i] = apps[d]
    BY <1>0, <1>1 DEF OneServerPerHost, Shared
  <2> QED BY <2>1 DEF DistinctIds
<1>3. FirstServer(host) = {d}
  <2>1. DOMAIN apps \subseteq Nat
    BY DEF AppsTyped
  <2> QED BY <1>1, <1>2, <2>1 DEF FirstServer
<1>4. RootsAt(host) = {apps[d]}
  BY <1>0, <1>1, <1>2 DEF RootsAt, RootAt, Apps, ToSet
<1> DEFINE shared == {i \in DOMAIN apps : apps[i].domain = NoHost}
           own == IF IsLocal(apps[d]) \/ apps[d].remote # 0 THEN {d} ELSE {}
           E == (UNION {Emit(i, 1) : i \in shared}) \cup (UNION {Emit(i, 2) : i \in own})
                \cup EmitFallback({apps[d]})
<1>5. Server(host) = FirstOfEach(E)
  BY <1>3 DEF Server, DomainServer
<1>6. FallbackRoots(host) = {apps[d]}
  BY <1>4 DEF FallbackRoots
<1>7. \A i \in DOMAIN apps : GivesAt(apps[i], host) <=> i \in shared \/ i \in own
  BY <1>1, <1>2 DEF GivesAt
<1>8. /\ \A i \in shared : i \in DOMAIN apps /\ Emit(i, 1) \subseteq E
      /\ \A i \in own : i \in DOMAIN apps /\ Emit(i, 2) \subseteq E
  OBVIOUS
<1>9. EmitFallback({apps[d]}) \subseteq E
  OBVIOUS
<1>10. \A e \in E : \/ \E i \in shared : e \in Emit(i, 1)
                    \/ \E i \in own : e \in Emit(i, 2)
                    \/ e \in EmitFallback({apps[d]})
  OBVIOUS
<1> HIDE DEF E, own, shared
<1>11. \A i \in DOMAIN apps :
          GivesAt(apps[i], host) => \E round \in {1, 2} : Emit(i, round) \subseteq E
  BY <1>7, <1>8
<1>12. \A e \in E :
          \/ \E i \in DOMAIN apps : \E round \in {1, 2} :
                GivesAt(apps[i], host) /\ e \in Emit(i, round)
          \/ e \in EmitFallback(FallbackRoots(host))
  BY <1>6, <1>7, <1>8, <1>10
<1> QED BY <1>5, <1>6, <1>9, <1>11, <1>12 DEF EmittedAt

LEMMA EmitTurns ==
    ASSUME AppsTyped
    PROVE  /\ \A i \in DOMAIN apps : \A round \in {1, 2} : \A e \in Emit(i, round) :
                  e.turn \in Nat /\ e.turn < 3 * (Len(apps) + 1)
           /\ \A roots : \A e \in EmitFallback(roots) : e.turn = 3 * (Len(apps) + 1)
           /\ 3 * (Len(apps) + 1) \in Nat
<1>1. Len(apps) \in Nat /\ DOMAIN apps = 1 .. Len(apps)
  BY DEF AppsTyped
<1>2. ASSUME NEW i \in DOMAIN apps
      PROVE  /\ \A e \in Emit(i, 1) : e.turn = Len(apps) + 1 + i
             /\ \A e \in Emit(i, 2) : e.turn = 2 * (Len(apps) + 1) + i
  BY <1>1 DEF Emit
<1>3. \A roots : \A e \in EmitFallback(roots) : e.turn = 3 * (Len(apps) + 1)
  BY DEF EmitFallback
<1>4. ASSUME NEW i \in DOMAIN apps
      PROVE  /\ Len(apps) + 1 + i \in Nat /\ Len(apps) + 1 + i < 3 * (Len(apps) + 1)
             /\ 2 * (Len(apps) + 1) + i \in Nat /\ 2 * (Len(apps) + 1) + i < 3 * (Len(apps) + 1)
  BY <1>1
<1> QED BY <1>1, <1>2, <1>3, <1>4

----------------------------------------------------------------------------
(* The list and the servers compared.                                       *)

\* The state that the list and the servers are compared in.
Regularly ==
    /\ AppsTyped /\ DistinctIds /\ routes = NormalizedRoutes
    /\ PlainRoots /\ OneServerPerHost

\* A route with an owner is listed for one of the owner's entries.
LEMMA RoutesOfApp ==
    ASSUME AppsTyped, DistinctIds, OneServerPerHost, routes = NormalizedRoutes,
           NEW a \in Apps, NEW r \in routes, r.app = a.id
    PROVE  /\ r.host \in Hosts
           /\ \E m \in EntriesAt(a, r.host) : ListedFor(r, r.host, a, m)
<1>1. r.host \in Hosts /\ HostLists(RoutesAt(r.host), r.host) /\ r \in RoutesAt(r.host)
  BY HostListing DEF RoutesAt
<1>2. r.app # 0
  BY AppsAreApplications DEF Applications
<1>3. \E b \in Apps : \E m \in EntriesAt(b, r.host) : ListedFor(r, r.host, b, m)
  BY <1>1, <1>2 DEF HostLists, NoOwner, Says
<1>4. PICK b \in Apps : \E m \in EntriesAt(b, r.host) : ListedFor(r, r.host, b, m)
  BY <1>3
<1>5. b.id = a.id
  BY <1>4 DEF ListedFor, Lists, Says
<1>6. b = a
  BY <1>5, AppsById
<1> QED BY <1>1, <1>4, <1>6

\* The renderer collects patterns from all hosts; on those where the
\* application has routes they are its entries.
LEMMA OwnPatterns ==
    ASSUME Regularly, NEW a \in Apps, NEW host \in Hosts, GivesAt(a, host),
           ~ Special(a), NEW other \in Hosts, NEW m \in EntriesAt(a, other)
    PROVE  m \in EntriesAt(a, host)
<1>1. CASE m \in PatternEntries(a)
  BY <1>1 DEF EntriesAt
<1>2. CASE m \notin PatternEntries(a)
  <2>1. RootAt(a, other) /\ m = Prefix(<<>>)
    BY <1>2 DEF EntriesAt
  <2>2. CASE a \in Shared
    <3>1. a.domain = NoHost
      BY <2>2 DEF Shared
    <3>2. a \in DefaultRoots
      BY <2>1, <3>1 DEF RootAt, Hosts
    <3>3. a.path = <<>>
      BY <3>2 DEF DefaultRoots
    <3>4. a.pattern = NoPattern
      BY <2>2, <3>3 DEF Regularly, PlainRoots
    <3>5. Prefix(<<>>) \in PatternEntries(a)
      BY <3>3, <3>4 DEF PatternEntries
    <3> QED BY <1>2, <2>1, <3>5
  <2>3. CASE a \notin Shared
    <3>1. a.domain # NoHost /\ a.domain # LocalHost
      BY <2>3 DEF Shared, Regularly, OneServerPerHost
    <3>2. a.domain = host /\ a \notin DefaultRoots
      BY <3>1 DEF GivesAt, DefaultRoots
    <3>3. host # LocalHost /\ RootAt(a, host)
      BY <3>1, <3>2 DEF RootAt
    <3> QED BY <2>1, <3>3 DEF EntriesAt
  <2> QED BY <2>2, <2>3
<1> QED BY <1>1, <1>2

\* The locations of an application are those of its entries.
LEMMA LocationsOfApp ==
    ASSUME Regularly, NEW a \in Apps, NEW host \in Hosts, GivesAt(a, host)
    PROVE  /\ \A l \in AppLocations(a) :
                 /\ l.proof = a.id /\ l.proxy = Target(a)
                 /\ \E m \in EntriesAt(a, host) : SamePattern(l, m)
           /\ \A m \in PatternEntries(a) : \E l \in AppLocations(a) : SamePattern(m, l)
<1>1. \A m, how : LET l == Location(m, how, Target(a), a.id)
                  IN  l.proof = a.id /\ l.proxy = Target(a) /\ SamePattern(l, m) /\ SamePattern(m, l)
  BY DEF Location, SamePattern
<1>2. CASE Special(a)
  <2>1. AppLocations(a) = SpecialLocations(a)
    BY <1>2 DEF AppLocations
  <2>2. PatternEntries(a) = {Exact(<<End>>), Exact(a.context), Prefix(a.context)}
    BY <1>2 DEF PatternEntries
  <2>3. PatternEntries(a) \subseteq EntriesAt(a, host)
    BY DEF EntriesAt
  <2>4. \A l \in AppLocations(a) : \E m \in PatternEntries(a) : \E how :
            l = Location(m, how, Target(a), a.id)
    BY <2>1, <2>2 DEF SpecialLocations
  <2>5. \A m \in PatternEntries(a) : \E how : Location(m, how, Target(a), a.id) \in AppLocations(a)
    BY <2>1, <2>2 DEF SpecialLocations
  <2> QED BY <1>1, <2>3, <2>4, <2>5
<1>3. CASE ~ Special(a)
  <2>1. AppLocations(a) = {Location(m, Way(a, m), Target(a), a.id) : m \in Patterns(a)}
    BY <1>3 DEF AppLocations
  <2>2. ASSUME NEW p \in Patterns(a)
        PROVE  \E m \in EntriesAt(a, host) : SamePattern(p, m)
    <3>1. PICK r \in routes : r.app = a.id /\ p = [exact |-> r.exact, path |-> r.path]
      BY DEF Patterns
    <3>2. r.host \in Hosts /\ \E m \in EntriesAt(a, r.host) : ListedFor(r, r.host, a, m)
      BY <3>1, RoutesOfApp DEF Regularly
    <3>3. PICK m \in EntriesAt(a, r.host) : ListedFor(r, r.host, a, m)
      BY <3>2
    <3>4. m \in EntriesAt(a, host)
      BY <1>3, <3>2, OwnPatterns
    <3>5. SamePattern(p, m)
      BY <3>1, <3>3 DEF SamePattern, ListedFor, Lists, Says
    <3> QED BY <3>4, <3>5
  <2>3. ASSUME NEW m \in PatternEntries(a)
        PROVE  \E p \in Patterns(a) : SamePattern(m, p)
    <3>1. m \in EntriesAt(a, host)
      BY DEF EntriesAt
    <3>2. PICK r \in RoutesAt(host) : Lists(r, host, m, a)
      BY <3>1, HostListing DEF Regularly, HostLists
    <3>3. r \in routes /\ r.app = a.id /\ r.exact = m.exact /\ r.path = m.path
      BY <3>2 DEF RoutesAt, Lists, Says
    <3>4. [exact |-> r.exact, path |-> r.path] \in Patterns(a)
      BY <3>3 DEF Patterns
    <3> QED BY <3>3, <3>4 DEF SamePattern
  <2>4. \A x, y, z : SamePattern(x, y) /\ SamePattern(y, z) => SamePattern(x, z)
    BY DEF SamePattern
  <2>5. ASSUME NEW l \in AppLocations(a)
        PROVE  /\ l.proof = a.id /\ l.proxy = Target(a)
               /\ \E m \in EntriesAt(a, host) : SamePattern(l, m)
    <3>1. PICK p \in Patterns(a) : l = Location(p, Way(a, p), Target(a), a.id)
      BY <2>1
    <3>2. l.proof = a.id /\ l.proxy = Target(a) /\ SamePattern(l, p)
      BY <1>1, <3>1
    <3>3. PICK m \in EntriesAt(a, host) : SamePattern(p, m)
      BY <2>2
    <3> QED BY <2>4, <3>2, <3>3
  <2>6. ASSUME NEW m \in PatternEntries(a)
        PROVE  \E l \in AppLocations(a) : SamePattern(m, l)
    <3>1. PICK p \in Patterns(a) : SamePattern(m, p)
      BY <2>3
    <3>2. Location(p, Way(a, p), Target(a), a.id) \in AppLocations(a)
      BY <2>1
    <3>3. SamePattern(p, Location(p, Way(a, p), Target(a), a.id))
      BY <1>1
    <3> QED BY <2>4, <3>1, <3>2, <3>3
  <2> QED BY <2>5, <2>6
<1> QED BY <1>2, <1>3

DefaultTarget == [local |-> FALSE, at |-> 0]

LEMMA FallbackEmits ==
    ASSUME NEW roots
    PROVE  /\ \A e \in EmitFallback(roots) :
                 /\ e.loc.exact = FALSE /\ e.loc.path = <<>>
                 /\ \/ roots = {} /\ e.loc.proof = 0 /\ e.loc.proxy = DefaultTarget
                    \/ \E a \in roots : e.loc.proof = a.id /\ e.loc.proxy = Target(a)
           /\ EmitFallback(roots) # {}
<1>1. \A how, target, app :
         LET l == Location(Prefix(<<>>), how, target, app)
         IN  /\ l.exact = FALSE /\ l.path = <<>>
             /\ l.proof = app /\ l.proxy = target
  BY DEF Location, Prefix
<1>2. ASSUME NEW l \in FallbackLocation(roots)
      PROVE  /\ l.exact = FALSE /\ l.path = <<>>
             /\ \/ roots = {} /\ l.proof = 0 /\ l.proxy = DefaultTarget
                \/ \E a \in roots : l.proof = a.id /\ l.proxy = Target(a)
  <2>1. CASE roots = {}
    BY <1>1, <1>2, <2>1 DEF FallbackLocation, DefaultTarget
  <2>2. CASE roots # {}
    <3>1. PICK a \in roots : \E how : l = Location(Prefix(<<>>), how, Target(a), a.id)
      BY <1>2, <2>2 DEF FallbackLocation
    <3> QED BY <1>1, <3>1
  <2> QED BY <2>1, <2>2
<1>3. FallbackLocation(roots) # {}
  BY DEF FallbackLocation
<1>4. \A e \in EmitFallback(roots) : e.loc \in FallbackLocation(roots)
  BY DEF EmitFallback
<1>5. EmitFallback(roots) # {}
  BY <1>3 DEF EmitFallback
<1> QED BY <1>2, <1>4, <1>5

LEMMA EmitHas ==
    ASSUME NEW i \in DOMAIN apps, NEW round, NEW l \in AppLocations(apps[i])
    PROVE  \E e \in Emit(i, round) : e.loc = l
<1>1. [turn |-> round * (Len(apps) + 1) + i, loc |-> l] \in Emit(i, round)
  BY DEF Emit
<1> QED BY <1>1

LEMMA EmissionsExist ==
    ASSUME Regularly, NEW host \in Hosts
    PROVE  \E E : EmittedAt(E, host)
BY DefaultServerEmits, DomainServerEmits DEF Regularly

\* Each entry of a host has a location in its server.
LEMMA EntriesAreServed ==
    ASSUME Regularly, NEW host \in Hosts, NEW r \in RoutesAt(host)
    PROVE  \E l \in Server(host) : SamePattern(r, l)
<1>1. PICK E : EmittedAt(E, host)
  BY EmissionsExist
<1>2. \A e \in E : e.turn \in Nat
  BY <1>1, EmitTurns DEF EmittedAt, Regularly
<1>3. \A e \in E : \E l \in Server(host) : SamePattern(e.loc, l)
  BY <1>1, <1>2, FirstOfEachCovers DEF EmittedAt
<1>4. SUFFICES \E e \in E : SamePattern(r, e.loc)
  BY <1>3 DEF SamePattern
<1>5. CASE r.exact = FALSE /\ r.path = <<>>
  <2>0. EmitFallback(FallbackRoots(host)) # {}
    BY FallbackEmits
  <2>1. PICK e \in EmitFallback(FallbackRoots(host)) : TRUE
    BY <2>0
  <2>2. e.loc.exact = FALSE /\ e.loc.path = <<>>
    BY FallbackEmits
  <2> QED BY <1>1, <1>5, <2>1, <2>2 DEF EmittedAt, SamePattern
<1>6. CASE ~ (r.exact = FALSE /\ r.path = <<>>)
  <2>1. \E a \in Apps : \E m \in EntriesAt(a, host) : ListedFor(r, host, a, m)
    BY <1>6, HostListing DEF Regularly, HostLists, NoOwner, Says
  <2>2. PICK a \in Apps : \E m \in EntriesAt(a, host) : ListedFor(r, host, a, m)
    BY <2>1
  <2>3. PICK m \in EntriesAt(a, host) : ListedFor(r, host, a, m)
    BY <2>2
  <2>4. r.exact = m.exact /\ r.path = m.path
    BY <2>3 DEF ListedFor, Lists, Says
  <2>5. GivesAt(a, host) /\ m \in PatternEntries(a)
    BY <1>6, <2>4 DEF EntriesAt, Prefix
  <2>6. PICK l \in AppLocations(a) : SamePattern(m, l)
    BY <2>5, LocationsOfApp
  <2>7. PICK i \in DOMAIN apps : a = apps[i]
    BY DEF Apps, ToSet
  <2>8. PICK round \in {1, 2} : Emit(i, round) \subseteq E
    BY <1>1, <2>5, <2>7 DEF EmittedAt
  <2>9. \E e \in Emit(i, round) : e.loc = l
    BY <2>6, <2>7, EmitHas
  <2> QED BY <2>4, <2>6, <2>8, <2>9 DEF SamePattern
<1> QED BY <1>5, <1>6

\* A location says the same as the route of its matcher.
Agreeing(r, l) == SamePattern(r, l) /\ r.app = l.proof /\ r.target = l.proxy

\* The default location that the renderer emits for a root application without
\* a remote URL never counts: the application has emitted its own before.
LEMMA OwnedFallback ==
    ASSUME Regularly, NEW E, EmittedAt(E, LocalHost),
           NEW a \in DefaultRoots, NEW e \in EmitFallback(RenderedRoots),
           \A y \in E : y.loc.exact = e.loc.exact /\ y.loc.path = e.loc.path
                           => e.turn <= y.turn
    PROVE  RenderedRoots # {}
<1> SUFFICES ASSUME RenderedRoots = {}
             PROVE  FALSE
  OBVIOUS
<1>1. a \in Apps /\ a.domain = NoHost /\ a.path = <<>> /\ a \in Shared
  BY DEF DefaultRoots, Shared
<1>2. PICK i \in DOMAIN apps : a = apps[i]
  BY <1>1 DEF Apps, ToSet
<1>3. a.remote = 0
  <2> DEFINE roots == {k \in DOMAIN apps : /\ apps[k].domain = NoHost
                                           /\ apps[k].path = <<>>
                                           /\ apps[k].remote # 0}
  <2>1. SUFFICES ASSUME a.remote # 0 PROVE FALSE
    OBVIOUS
  <2>2. roots \subseteq Nat /\ roots # {}
    BY <1>1, <1>2, <2>1 DEF Regularly, AppsTyped
  <2>3. PICK j \in roots : \A k \in roots : j <= k
    <3> HIDE DEF roots
    <3> QED BY <2>2, LeastNatural
  <2>4. apps[j] \in RenderedRoots
    BY <2>3 DEF RenderedRoots
  <2> QED BY <2>4
<1>4. ~ Special(a) /\ a.pattern = NoPattern
  BY <1>1, <1>3 DEF Regularly, PlainRoots
<1>5. Prefix(<<>>) \in PatternEntries(a)
  BY <1>1, <1>4 DEF PatternEntries
<1>6. GivesAt(a, LocalHost) /\ LocalHost \in Hosts
  BY <1>1 DEF GivesAt, Hosts
<1>7. PICK l \in AppLocations(a) : SamePattern(Prefix(<<>>), l)
  BY <1>1, <1>5, <1>6, LocationsOfApp
<1>8. PICK round \in {1, 2} : Emit(i, round) \subseteq E
  BY <1>2, <1>6 DEF EmittedAt
<1>9. PICK y \in Emit(i, round) : y.loc = l
  BY <1>2, <1>7, EmitHas
<1>10. l.exact = e.loc.exact /\ l.path = e.loc.path
  BY <1>7, FallbackEmits DEF SamePattern, Prefix
<1>11. e.turn <= y.turn
  BY <1>8, <1>9, <1>10
<1> QED BY <1>11, EmitTurns DEF Regularly

LEMMA ServedAreListed ==
    ASSUME Regularly, NEW host \in Hosts, NEW l \in Server(host)
    PROVE  \E r \in RoutesAt(host) : Agreeing(r, l)
<1>1. PICK E : EmittedAt(E, host)
  BY EmissionsExist
<1>2. PICK e \in E : /\ l = e.loc
                     /\ \A y \in E : y.loc.exact = e.loc.exact /\ y.loc.path = e.loc.path
                                        => e.turn <= y.turn
  BY <1>1 DEF EmittedAt, FirstOfEach
<1>3. ASSUME NEW a \in Apps, NEW m \in EntriesAt(a, host), SamePattern(l, m),
             l.proof = a.id, l.proxy = Target(a)
      PROVE  \E r \in RoutesAt(host) : Agreeing(r, l)
  <2>1. PICK r \in RoutesAt(host) : Lists(r, host, m, a)
    BY HostListing DEF Regularly, HostLists
  <2> QED BY <1>3, <2>1 DEF Lists, Says, Agreeing, SamePattern
<1>4. CASE \E i \in DOMAIN apps : \E round \in {1, 2} :
              GivesAt(apps[i], host) /\ e \in Emit(i, round)
  <2>1. PICK i \in DOMAIN apps : \E round \in {1, 2} :
              GivesAt(apps[i], host) /\ e \in Emit(i, round)
    BY <1>4
  <2>2. l \in AppLocations(apps[i]) /\ GivesAt(apps[i], host)
    BY <1>2, <2>1 DEF Emit
  <2>3. apps[i] \in Apps
    BY DEF Apps, ToSet
  <2> QED BY <1>3, <2>2, <2>3, LocationsOfApp
<1>5. CASE e \in EmitFallback(FallbackRoots(host))
  <2>1. l.exact = FALSE /\ l.path = <<>>
    BY <1>2, <1>5, FallbackEmits
  <2>2. ASSUME NEW a \in FallbackRoots(host), l.proof = a.id, l.proxy = Target(a)
        PROVE  \E r \in RoutesAt(host) : Agreeing(r, l)
    <3>1. a \in Apps /\ RootAt(a, host)
      <4>1. CASE host = LocalHost
        <5>1. a \in RenderedRoots
          BY <4>1 DEF FallbackRoots
        <5>2. a \in Apps /\ a \in Shared /\ a.path = <<>>
          BY <5>1 DEF RenderedRoots, Apps, ToSet, Shared
        <5> QED BY <4>1, <5>2 DEF Regularly, PlainRoots, RootAt
      <4>2. CASE host # LocalHost
        BY <4>2 DEF FallbackRoots, RootsAt
      <4> QED BY <4>1, <4>2
    <3>2. Prefix(<<>>) \in EntriesAt(a, host) /\ SamePattern(l, Prefix(<<>>))
      BY <2>1, <3>1 DEF EntriesAt, SamePattern, Prefix
    <3> QED BY <1>3, <2>2, <3>1, <3>2
  <2>3. ASSUME FallbackRoots(host) = {}, l.proof = 0, l.proxy = DefaultTarget
        PROVE  \E r \in RoutesAt(host) : Agreeing(r, l)
    <3>1. RootsAt(host) = {}
      <4>1. CASE host # LocalHost
        BY <2>3, <4>1 DEF FallbackRoots
      <4>2. CASE host = LocalHost
        <5>1. RenderedRoots = {}
          BY <2>3, <4>2 DEF FallbackRoots
        <5>2. \A a \in DefaultRoots : RenderedRoots # {}
          BY <1>1, <1>2, <1>5, <2>3, <4>2, <5>1, OwnedFallback
        <5>3. DefaultRoots = {}
          BY <5>1, <5>2
        <5> QED BY <4>2, <5>3 DEF RootsAt, RootAt
      <4> QED BY <4>1, <4>2
    <3>2. PICK r \in RoutesAt(host) : NoOwner(r, host)
      BY <3>1, HostListing DEF Regularly, HostLists
    <3> QED BY <2>1, <2>3, <3>2 DEF NoOwner, Says, Agreeing, SamePattern, DefaultTarget
  <2> QED BY <1>2, <1>5, <2>2, <2>3, FallbackEmits
<1> QED BY <1>1, <1>4, <1>5 DEF EmittedAt

----------------------------------------------------------------------------
(* What is served is what the list says.                                    *)

\* The routes that compete for a request.
HitsAt(host, u) == {r \in RoutesAt(host) : Hits(r, u)}

LEMMA StateIsRegular ==
    ASSUME IInv, PlainRoots, OneServerPerHost
    PROVE  Regularly
BY DEF IInv, Regularly

LEMMA RoutesAreTyped ==
    ASSUME Regularly
    PROVE  \A r \in routes : IsLocation(r) /\ r.app \in Nat
<1>1. \A r \in routes : IsLocation(r)
  BY NormalizedRoutesAreLocations DEF Regularly
<1>2. ASSUME NEW r \in routes
      PROVE  r.app \in Nat
  <2>1. HostLists(RoutesAt(r.host), r.host) /\ r \in RoutesAt(r.host)
    BY HostListing DEF Regularly, RoutesAt
  <2>2. (\E a \in Apps : r.app = a.id) \/ r.app = 0
    BY <2>1 DEF HostLists, ListedFor, Lists, NoOwner, Says
  <2> QED BY <2>2, AppsAreApplications DEF Regularly, Applications
<1> QED BY <1>1, <1>2

\* The routes of one application on one host have one target.
LEMMA OneTarget ==
    ASSUME Regularly, NEW host \in Hosts,
           NEW r \in RoutesAt(host), NEW q \in RoutesAt(host), r.app = q.app
    PROVE  /\ r.target = q.target
           /\ \A a \in Apps : r.app = a.id => r.target = Target(a)
<1>1. HostLists(RoutesAt(host), host)
  BY HostListing DEF Regularly
<1>2. \A x \in RoutesAt(host) :
         \/ \E a \in Apps : x.app = a.id /\ x.target = Target(a)
         \/ x.app = 0 /\ x.target = DefaultTarget
  BY <1>1 DEF HostLists, ListedFor, Lists, NoOwner, Says, DefaultTarget
<1>3. \A a \in Apps : a.id # 0
  BY AppsAreApplications DEF Regularly, Applications
<1>4. \A a, b \in Apps : a.id = b.id => a = b
  BY AppsById DEF Regularly
<1> QED BY <1>2, <1>3, <1>4

\* What nginx serves is what comes first in the list.
LEMMA ServedAreFirst ==
    ASSUME IInv, PlainRoots, OneServerPerHost, NEW host \in Hosts, NEW u \in Paths,
           ~ Redirected(nginx[host], u)
    PROVE  /\ \A x \in Answered(host, u) : \E r \in First(HitsAt(host, u)) :
                 r.app = x.proof /\ r.target = x.proxy
           /\ HitsAt(host, u) # {} => Answered(host, u) # {}
<1> DEFINE L == Server(host)
           H == {m \in L : Hits(m, u)}
<1>1. Regularly
  BY StateIsRegular
<1>2. AreLocations(L)
  BY <1>1, NormalizedRoutesAreLocations, ServersHaveLocations DEF Regularly
<1>3. nginx[host] = Compact(L)
  BY DEF IInv, Rendered
<1>4. Answered(host, u) = {Answer(l) : l \in First(H)}
  BY <1>2, <1>3, CompactAnswersFirst DEF Answered
<1>5. ASSUME NEW l \in First(H)
      PROVE  \E r \in First(HitsAt(host, u)) : r.app = l.proof /\ r.target = l.proxy
  <2>1. l \in L
    BY DEF First
  <2>2. PICK r \in RoutesAt(host) : Agreeing(r, l)
    BY <1>1, <2>1, ServedAreListed
  <2>3. SamePattern(l, r)
    BY <2>2 DEF Agreeing, SamePattern
  <2>4. \A x \in RoutesAt(host) : \E y \in L : SamePattern(y, x)
    BY <1>1, EntriesAreServed DEF SamePattern
  <2>5. Hits(l, u) /\ \A y \in L : Hits(y, u) => ~ Ahead(y, l)
    BY DEF First
  <2> HIDE DEF L, H
  <2>6. Hits(r, u) /\ \A x \in RoutesAt(host) : Hits(x, u) => ~ Ahead(x, r)
    BY <2>1, <2>3, <2>4, <2>5, SameMatchersSameFirst
  <2>7. r \in First(HitsAt(host, u))
    BY <2>6 DEF HitsAt, First
  <2> QED BY <2>2, <2>7 DEF Agreeing
<1>6. ASSUME NEW x \in Answered(host, u)
      PROVE  \E r \in First(HitsAt(host, u)) : r.app = x.proof /\ r.target = x.proxy
  <2>1. PICK l \in First(H) : x = Answer(l)
    BY <1>4
  <2>2. x.proof = l.proof /\ x.proxy = l.proxy
    BY <2>1 DEF Answer
  <2> QED BY <1>5, <2>2
<1>7. ASSUME HitsAt(host, u) # {}
      PROVE  Answered(host, u) # {}
  <2>1. PICK r \in RoutesAt(host) : Hits(r, u)
    BY <1>7 DEF HitsAt
  <2>2. PICK l \in L : SamePattern(r, l)
    BY <1>1, EntriesAreServed
  <2>3. l \in H
    BY <2>1, <2>2 DEF SamePattern, Hits
  <2>4. AreLocations(H) /\ \A m \in H : Hits(m, u)
    BY <1>2 DEF AreLocations
  <2>5. First(H) # {}
    <3> HIDE DEF H
    <3> QED BY <2>3, <2>4, FirstExists
  <2> QED BY <1>4, <2>5
<1> QED BY <1>6, <1>7

\* In short, where routes of one application come first.
ListSays(host, u) == {[app |-> r.app, target |-> r.target] : r \in First(HitsAt(host, u))}

LEMMA ServedIsListed ==
    ASSUME IInv, PlainRoots, OneServerPerHost, NEW host \in Hosts, NEW u \in Paths,
           ~ Redirected(nginx[host], u), ~ Tied(host, u)
    PROVE  Served(host, u) = ListSays(host, u)
<1>1. Regularly
  BY StateIsRegular
<1>2. HitsAt(host, u) = {x \in routes : x.host = host /\ Hits(x, u)}
  BY DEF HitsAt, RoutesAt
<1>3. First(HitsAt(host, u)) \subseteq HitsAt(host, u) /\ HitsAt(host, u) \subseteq RoutesAt(host)
  BY DEF First, HitsAt
<1>4. \A r, q \in First(HitsAt(host, u)) : r.app = q.app
  BY <1>2 DEF Tied
<1>5. \A r, q \in First(HitsAt(host, u)) : r.target = q.target
  BY <1>1, <1>3, <1>4, OneTarget
<1>6. \A x \in Answered(host, u) : \E r \in First(HitsAt(host, u)) :
          r.app = x.proof /\ r.target = x.proxy
  BY ServedAreFirst
<1>7. \A s \in Served(host, u) : s \in ListSays(host, u)
  <2>1. SUFFICES ASSUME NEW x \in Answered(host, u)
                 PROVE  [app |-> x.proof, target |-> x.proxy] \in ListSays(host, u)
    BY DEF Served
  <2>2. PICK r \in First(HitsAt(host, u)) : r.app = x.proof /\ r.target = x.proxy
    BY <1>6
  <2> QED BY <2>2 DEF ListSays
<1>8. ASSUME NEW r \in First(HitsAt(host, u))
      PROVE  [app |-> r.app, target |-> r.target] \in Served(host, u)
  <2>1. PICK x \in Answered(host, u) : TRUE
    <3>1. Answered(host, u) # {}
      BY <1>3, ServedAreFirst
    <3> QED BY <3>1
  <2>2. PICK q \in First(HitsAt(host, u)) : q.app = x.proof /\ q.target = x.proxy
    BY <1>6
  <2>3. r.app = x.proof /\ r.target = x.proxy
    BY <1>4, <1>5, <2>2
  <2> QED BY <2>3 DEF Served
<1> QED BY <1>7, <1>8 DEF ListSays

\* Candidates and Resolved are what comes first.
LEMMA NginxAgrees == IInv => ResolverAgrees
<1> SUFFICES ASSUME IInv, NEW host \in Hosts, NEW u \in Uris, Regular(host, u)
             PROVE  Agree(host, u)
  BY DEF ResolverAgrees
<1>1. u \in Paths
  BY UrisAssumption DEF Paths
<1>2. /\ PlainRoots /\ OneServerPerHost /\ ~ Tied(host, u)
      /\ Normal(u) = u /\ ~ Redirected(nginx[host], u)
  BY DEF Regular
<1>3. Candidates(host, u) = First(HitsAt(host, u))
  <2>1. {r \in routes : r.host = host /\ RouteMatches(r, u)} = HitsAt(host, u)
    BY <1>2 DEF RouteMatches, HitsAt, RoutesAt
  <2> QED BY <2>1 DEF Candidates
<1>4. Resolved(host, u) = First(HitsAt(host, u))
  <2>1. \A r \in First(HitsAt(host, u)) : r \in routes /\ r.app \in Nat
    BY <1>2, StateIsRegular, RoutesAreTyped DEF First, HitsAt, RoutesAt
  <2>2. HitsAt(host, u) = {x \in routes : x.host = host /\ Hits(x, u)}
    BY DEF HitsAt, RoutesAt
  <2>3. \A r, q \in First(HitsAt(host, u)) : r.app = q.app
    BY <1>2, <2>2 DEF Tied
  <2> QED BY <1>3, <2>1, <2>3 DEF Resolved
<1>5. Served(host, u) = ListSays(host, u)
  BY <1>1, <1>2, ServedIsListed
<1> QED BY <1>4, <1>5 DEF Agree, ListSays

----------------------------------------------------------------------------
(* Competition for a request.                                               *)

\* Routes that hit one URI overlap.
LEMMA CompetitorsOverlap ==
    ASSUME NEW r, NEW q, IsLocation(r), IsLocation(q), NEW u \in Paths,
           Hits(r, u), Hits(q, u)
    PROVE  RoutesOverlap(r, q)
<1>1. CASE r.exact
  BY <1>1 DEF RoutesOverlap, Hits
<1>2. CASE ~ r.exact /\ q.exact
  BY <1>2 DEF RoutesOverlap, Hits
<1>3. CASE ~ r.exact /\ ~ q.exact
  BY <1>3, HittingOverlaps DEF RoutesOverlap, Overlap
<1> QED BY <1>1, <1>2, <1>3

LEMMA CompetitorsConflict ==
    ASSUME Regularly, NEW host, NEW r \in RoutesAt(host), NEW q \in RoutesAt(host),
           NEW u \in Paths, Hits(r, u), Hits(q, u),
           r.app # 0, q.app # 0, r.app # q.app
    PROVE  <<r, q>> \in Conflicts
<1>1. r \in routes /\ q \in routes /\ r.host = host /\ q.host = host
  BY DEF RoutesAt
<1>2. IsLocation(r) /\ IsLocation(q)
  BY <1>1, RoutesAreTyped
<1>3. RoutesOverlap(r, q)
  BY <1>2, CompetitorsOverlap
<1> QED BY <1>1, <1>3 DEF Conflicts

\* Of two routes that hit a URI one comes first, or they have one pattern.
LEMMA HitsAreOrdered ==
    ASSUME NEW r, NEW q, IsLocation(r), IsLocation(q), NEW u \in Paths,
           Hits(r, u), Hits(q, u), ~ Ahead(r, q), ~ Ahead(q, r)
    PROVE  SamePattern(r, q)
<1>1. r.exact \in BOOLEAN /\ q.exact \in BOOLEAN
      /\ Len(r.path) \in Nat /\ Len(q.path) \in Nat
  BY DEF IsLocation
<1>2. CASE r.exact /\ q.exact
  BY <1>1, <1>2 DEF Hits, SamePattern
<1>3. CASE ~ r.exact /\ ~ q.exact
  <2>1. Len(r.path) = Len(q.path)
    BY <1>1, <1>3 DEF Ahead
  <2>2. Under(r.path, u) /\ Under(q.path, u)
    BY <1>3 DEF Hits
  <2>3. \A i \in 1 .. Len(r.path) : r.path[i] = q.path[i]
    BY <1>1, <2>1, <2>2 DEF Under
  <2>4. r.path = q.path
    BY <2>1, <2>3 DEF IsLocation
  <2> QED BY <1>1, <1>3, <2>4 DEF SamePattern
<1>4. CASE ~ (r.exact /\ q.exact) /\ ~ (~ r.exact /\ ~ q.exact)
  BY <1>1, <1>4 DEF Ahead
<1> QED BY <1>2, <1>3, <1>4

LEMMA ShadowsAreReported == IInv => NothingIsShadowedSilently
<1> SUFFICES ASSUME IInv, PlainRoots, OneServerPerHost,
                    NEW host \in Hosts, NEW u \in Uris, ~ Redirected(nginx[host], u),
                    NEW winner \in Owners(host, u) \ {0},
                    NEW r \in {q \in routes : q.host = host /\ Hits(q, u)},
                    r.app \notin {0, winner}
             PROVE  \/ <<host, winner, r.app>> \in Reported
                    \/ Tied(host, u) /\ <<host, r.app, winner>> \in Reported
  BY DEF NothingIsShadowedSilently
<1>1. u \in Paths
  BY UrisAssumption DEF Paths
<1>2. Regularly
  BY StateIsRegular
<1>3. PICK x \in Answered(host, u) : winner = x.proof
  BY DEF Owners
<1>4. PICK w \in First(HitsAt(host, u)) : w.app = winner
  BY <1>1, <1>3, ServedAreFirst
<1>5. /\ w \in RoutesAt(host) /\ Hits(w, u) /\ r \in RoutesAt(host) /\ Hits(r, u)
      /\ r \in HitsAt(host, u) /\ w \in HitsAt(host, u)
      /\ w.host = host /\ r.host = host /\ w \in routes /\ r \in routes
  BY DEF First, HitsAt, RoutesAt
<1>6. IsLocation(r) /\ IsLocation(w) /\ r.app \in Nat /\ w.app \in Nat
  BY <1>2, <1>5, RoutesAreTyped
<1>7. <<w, r>> \in Conflicts /\ <<r, w>> \in Conflicts
  BY <1>1, <1>2, <1>4, <1>5, CompetitorsConflict
<1>8. \A a, b : <<a, b>> \in Conflicts /\ Wins(a, b) => <<a.host, a.app, b.app>> \in Reported
  <2> SUFFICES ASSUME NEW a, NEW b, <<a, b>> \in Conflicts, Wins(a, b)
               PROVE  <<a.host, a.app, b.app>> \in Reported
    OBVIOUS
  <2> DEFINE c == <<a, b>>
  <2>1. c \in {y \in Conflicts : Wins(y[1], y[2])}
    OBVIOUS
  <2>2. <<c[1].host, c[1].app, c[2].app>> \in Reported
    <3> HIDE DEF c
    <3> QED BY <2>1 DEF Reported
  <2> QED BY <2>2
<1>9. CASE Ahead(w, r)
  <2>1. ~ SamePattern(w, r)
    BY <1>6, <1>9 DEF SamePattern, Ahead, IsLocation
  <2>2. Wins(w, r)
    BY <1>9, <2>1 DEF Wins
  <2> QED BY <1>4, <1>5, <1>7, <1>8, <2>2
<1>10. CASE ~ Ahead(w, r)
  <2>1. ~ Ahead(r, w)
    BY <1>4, <1>5 DEF First
  <2>2. SamePattern(w, r)
    BY <1>1, <1>5, <1>6, <1>10, <2>1, HitsAreOrdered
  <2>3. r \in First(HitsAt(host, u))
    <3>1. \A m \in HitsAt(host, u) : ~ Ahead(m, w)
      BY <1>4 DEF First
    <3>2. \A m : Ahead(m, r) => Ahead(m, w)
      BY <2>2 DEF SamePattern, Ahead
    <3> QED BY <1>5, <3>1, <3>2 DEF First
  <2>4. Tied(host, u)
    <3>1. HitsAt(host, u) = {y \in routes : y.host = host /\ Hits(y, u)}
      BY DEF HitsAt, RoutesAt
    <3> QED BY <1>4, <2>3, <3>1 DEF Tied
  <2>5. SamePattern(r, w)
    BY <2>2 DEF SamePattern
  <2>6. CASE w.app < r.app
    <3>1. Wins(w, r)
      BY <2>2, <2>6 DEF Wins
    <3> QED BY <1>4, <1>5, <1>7, <1>8, <3>1
  <2>7. CASE r.app < w.app
    <3>1. Wins(r, w)
      BY <2>5, <2>7 DEF Wins
    <3> QED BY <1>4, <1>5, <1>7, <1>8, <2>4, <3>1
  <2> QED BY <1>4, <1>6, <2>6, <2>7
<1> QED BY <1>9, <1>10

----------------------------------------------------------------------------
(* Browser URLs.                                                            *)

LEMMA BrowserUriIsNormal ==
    ASSUME NEW a \in Applications
    PROVE  /\ BrowserUri(a) \in Paths /\ Normal(BrowserUri(a)) = BrowserUri(a)
           /\ BrowserUri(a) # <<>>
<1>1. ASSUME NEW p \in Names
      PROVE  LET u == IF p = <<>> THEN <<End>> ELSE p
             IN  u \in Paths /\ Normal(u) = u /\ u # <<>>
  <2>1. CASE p = <<>>
    <3>1. <<End>> \in Paths /\ Len(<<End>>) = 1 /\ <<End>> # <<>>
      BY EndAssumption DEF Paths
    <3> QED BY <2>1, <3>1 DEF Normal
  <2>2. CASE p # <<>>
    <3>1. p \in Paths /\ Len(p) \in Nat /\ Len(p) > 0
      BY <2>2 DEF Names, Paths
    <3>2. p[Len(p)] # End
      BY <3>1 DEF Names
    <3> QED BY <2>2, <3>1, <3>2 DEF Normal, Last
  <2> QED BY <2>1, <2>2
<1>2. a.path \in Names /\ a.context \in Names /\ <<>> \in Names
  BY NamesArePaths DEF Applications
<1>3. a.pattern # NoPattern => a.pattern.path \in Names
  BY DEF Applications, RoutePatterns
<1>4. IngressPath(a) \in Names
  BY <1>2 DEF IngressPath
<1> QED BY <1>1, <1>2, <1>3, <1>4 DEF BrowserUri

LEMMA BrowserHostIsServed ==
    ASSUME NEW a \in Apps
    PROVE  BrowserHost(a) \in Hosts
BY DEF BrowserHost, Hosts

\* Only a catch-all owes its override to something else than a registration.
LEMMA OverridesAreCatchAlls ==
    ASSUME Regularly, \A b \in Apps : ~ b.override,
           NEW host \in Hosts, NEW r \in RoutesAt(host), r.override, r.app # 0
    PROVE  /\ r.exact = FALSE /\ r.path = <<>>
           /\ \E b \in Apps : r.app = b.id /\ RootAt(b, host)
<1>1. \E b \in Apps : \E m \in EntriesAt(b, host) : ListedFor(r, host, b, m)
  BY HostListing DEF Regularly, HostLists, NoOwner, Says
<1> QED BY <1>1 DEF ListedFor, Lists, Says

\* With an entry that is not a catch-all nobody else is first.
LEMMA EntryIsFirst ==
    ASSUME IInv, Regularly, \A b \in Apps : ~ b.override,
           NEW host \in Hosts, NEW u \in Paths,
           NEW r \in HitsAt(host, u), r.app # 0, r.path # <<>>,
           NEW q \in First(HitsAt(host, u))
    PROVE  q.app = r.app
<1> SUFFICES ASSUME q.app # r.app
             PROVE  FALSE
  OBVIOUS
<1>1. /\ q \in RoutesAt(host) /\ Hits(q, u) /\ r \in RoutesAt(host) /\ Hits(r, u)
      /\ q \in routes /\ r \in routes /\ ~ Ahead(r, q)
  BY DEF First, HitsAt, RoutesAt
<1>2. IsLocation(r) /\ IsLocation(q)
  BY <1>1, RoutesAreTyped
<1>3. ~ (q.exact = FALSE /\ q.path = <<>>)
  <2> SUFFICES ASSUME q.exact = FALSE, q.path = <<>>
               PROVE  FALSE
    OBVIOUS
  <2>1. Len(r.path) > 0 /\ Len(q.path) = 0
    BY <1>2 DEF IsLocation
  <2>2. CASE r.exact
    BY <1>1, <2>2 DEF Ahead
  <2>3. CASE ~ r.exact
    <3>1. r.exact = FALSE
      BY <1>2, <2>3 DEF IsLocation
    <3> QED BY <1>1, <2>1, <3>1 DEF Ahead
  <2> QED BY <2>2, <2>3
<1>4. q.app # 0
  <2>1. q.app = 0 => NoOwner(q, host)
    <3>1. \A a \in Apps : a.id # 0
      BY AppsAreApplications DEF Regularly, Applications
    <3>2. \/ \E a \in Apps : \E m \in EntriesAt(a, host) : ListedFor(q, host, a, m)
          \/ NoOwner(q, host)
      BY <1>1, HostListing DEF Regularly, HostLists
    <3> QED BY <3>1, <3>2 DEF ListedFor, Lists, Says
  <2> QED BY <1>3, <2>1 DEF NoOwner, Says
<1>5. <<q, r>> \in Conflicts
  BY <1>1, <1>4, CompetitorsConflict
<1>6. ~ q.override /\ ~ r.override
  BY <1>1, <1>3, <1>4, OverridesAreCatchAlls
<1>7. Intentional(<<q, r>>)
  BY <1>5 DEF IInv, Accepted
<1> QED BY <1>6, <1>7 DEF Intentional

\* The catch-all of a root application is alone at the root.
LEMMA RootIsFirst ==
    ASSUME IInv, Regularly, \A b \in Apps : ~ b.override,
           NEW a \in Shared, a.path = <<>>, ~ Special(a),
           NEW q \in First(HitsAt(LocalHost, <<End>>))
    PROVE  q.app = a.id
<1> SUFFICES ASSUME q.app # a.id
             PROVE  FALSE
  OBVIOUS
<1> DEFINE u == <<End>>
<1>0. u \in Paths /\ Len(u) = 1
  BY EndAssumption DEF Paths
<1>1. /\ q \in RoutesAt(LocalHost) /\ Hits(q, u) /\ q \in routes /\ LocalHost \in Hosts
  BY DEF First, HitsAt, RoutesAt, Hosts
<1>2. IsLocation(q)
  BY <1>1, RoutesAreTyped
<1>3. a \in Apps /\ a \in DefaultRoots /\ a.domain = NoHost
  BY DEF Shared, Regularly, PlainRoots
<1>4. RootAt(a, LocalHost) /\ RootsAt(LocalHost) # {}
  BY <1>3 DEF RootAt, RootsAt
<1>5. \A b \in DefaultRoots : b = a
  <2>1. \A b \in DefaultRoots : b \in Apps /\ b.id <= a.id /\ a.id <= b.id
    BY <1>3 DEF DefaultRoots
  <2>2. \A b \in DefaultRoots : b.id = a.id
    BY <1>3, <2>1, AppsAreApplications DEF Regularly, Applications
  <2> QED BY <1>3, <2>1, <2>2, AppsById DEF Regularly
<1>6. HostLists(RoutesAt(LocalHost), LocalHost)
  BY <1>1, HostListing DEF Regularly
<1>7. PICK b \in Apps : \E m \in EntriesAt(b, LocalHost) : ListedFor(q, LocalHost, b, m)
  BY <1>1, <1>4, <1>6 DEF HostLists
<1>8. PICK m \in EntriesAt(b, LocalHost) : ListedFor(q, LocalHost, b, m)
  BY <1>7
<1>9. q.app = b.id /\ q.exact = m.exact /\ q.path = m.path /\ b # a
  BY <1>8 DEF ListedFor, Lists, Says
<1>10. ~ RootAt(b, LocalHost) /\ m \in PatternEntries(b) /\ GivesAt(b, LocalHost)
  BY <1>5, <1>8, <1>9 DEF RootAt, EntriesAt
<1>11. b.path # <<>>
  <2>1. b \in Shared
    BY <1>10 DEF GivesAt, Regularly, OneServerPerHost, Shared
  <2> QED BY <1>5, <1>9, <2>1 DEF Regularly, PlainRoots
<1>12. ~ (m.exact /\ m.path = u)
  <2>1. b \in Applications
    BY AppsAreApplications DEF Regularly
  <2>2. u \notin Names
    <3>1. \A p \in Names : Len(p) = 1 => p[1] # End
      BY DEF Names
    <3> QED BY <1>0, <3>1
  <2>3. IngressPath(b) \in Names
    BY <2>1 DEF Applications, IngressPath
  <2>4. b.pattern # NoPattern => b.pattern.path \in Names
    BY <2>1 DEF Applications, RoutePatterns
  <2> HIDE DEF u
  <2> QED BY <1>10, <1>11, <2>2, <2>3, <2>4 DEF PatternEntries, Special, Exact, Prefix
<1>13. q.exact = FALSE /\ q.path = <<>>
  <2>1. ~ q.exact
    BY <1>1, <1>9, <1>12 DEF Hits
  <2>2. Len(q.path) < 1
    BY <1>0, <1>1, <2>1 DEF Hits, Under
  <2> QED BY <1>2, <2>1, <2>2 DEF IsLocation
<1>14. PICK r \in RoutesAt(LocalHost) : Lists(r, LocalHost, Prefix(<<>>), a)
  BY <1>3, <1>4, <1>6 DEF HostLists, EntriesAt
<1>15. r.exact = FALSE /\ r.path = <<>> /\ r.app = a.id
  BY <1>14 DEF Lists, Says, Prefix
<1>16. Hits(r, u)
  BY <1>0, <1>1, <1>13, <1>15 DEF Hits
<1>17. a.id # 0 /\ b.id # 0
  BY <1>3, AppsAreApplications DEF Regularly, Applications
<1>18. <<q, r>> \in Conflicts
  BY <1>0, <1>1, <1>9, <1>14, <1>15, <1>16, <1>17, CompetitorsConflict
<1>19. Intentional(<<q, r>>) /\ SamePattern(q, r)
  BY <1>13, <1>15, <1>18 DEF IInv, Accepted, SamePattern
<1>20. q.override
  BY <1>19 DEF Intentional
<1>21. PICK c \in Apps : q.app = c.id /\ RootAt(c, LocalHost)
  BY <1>1, <1>9, <1>17, <1>20, OverridesAreCatchAlls
<1>22. c = a
  BY <1>5, <1>21 DEF RootAt
<1> QED BY <1>21, <1>22

LEMMA BrowserUrlsAreServed == IInv => BrowserUrlIsServed
<1> SUFFICES ASSUME IInv, PlainRoots, OneServerPerHost, \A b \in Apps : ~ b.override,
                    NEW a \in Apps, HasEntry(a),
                    ~ Redirected(nginx[BrowserHost(a)], BrowserUri(a))
             PROVE  Served(BrowserHost(a), BrowserUri(a))
                    = {[app |-> a.id, target |-> ResolveBrowserURL(a).target]}
  BY DEF BrowserUrlIsServed, ResolveBrowserURL
<1> DEFINE host == BrowserHost(a)
           u == BrowserUri(a)
           F == First(HitsAt(host, u))
<1>0. Regularly
  BY StateIsRegular
<1>1. host \in Hosts /\ u \in Paths /\ Normal(u) = u /\ u # <<>> /\ a.id # 0
  BY <1>0, BrowserHostIsServed, BrowserUriIsNormal, AppsAreApplications
     DEF Regularly, Applications
<1>2. \A r \in HitsAt(host, u) : r \in RoutesAt(host) /\ r \in routes /\ Hits(r, u)
  BY DEF HitsAt, RoutesAt
<1>3. (\E r \in HitsAt(host, u) : r.app = a.id) /\ \A q \in F : q.app = a.id
  <2>1. CASE \E r \in routes : /\ r.app = a.id /\ r.host = host
                               /\ r.path # <<>> /\ Hits(r, u)
    <3>1. PICK r \in routes : /\ r.app = a.id /\ r.host = host
                              /\ r.path # <<>> /\ Hits(r, u)
      BY <2>1
    <3>2. r \in HitsAt(host, u)
      BY <3>1 DEF HitsAt, RoutesAt
    <3>3. \A q \in F : q.app = a.id
      BY <1>0, <1>1, <3>1, <3>2, EntryIsFirst
    <3> QED BY <3>1, <3>2, <3>3
  <2>2. CASE ~ \E r \in routes : /\ r.app = a.id /\ r.host = host
                                 /\ r.path # <<>> /\ Hits(r, u)
    <3>1. a.path = <<>> /\ a.domain = NoHost
      BY <2>2 DEF HasEntry
    <3>2. a \in Shared /\ a \in DefaultRoots /\ host = LocalHost /\ GivesAt(a, host)
      BY <3>1 DEF Shared, PlainRoots, BrowserHost, GivesAt
    <3>3. HostLists(RoutesAt(host), host)
      BY <1>0, <1>1, HostListing DEF Regularly
    <3>4. ~ Special(a)
      <4> SUFFICES ASSUME Special(a) PROVE FALSE
        OBVIOUS
      <4>1. Exact(<<End>>) \in EntriesAt(a, host)
        BY <3>2 DEF EntriesAt, PatternEntries
      <4>2. PICK r \in RoutesAt(host) : Lists(r, host, Exact(<<End>>), a)
        BY <3>3, <4>1 DEF HostLists
      <4>3. u = <<End>>
        BY DEF BrowserUri
      <4>4. r.exact /\ r.path = u /\ r.app = a.id /\ r.host = host /\ r \in routes
        BY <4>2, <4>3 DEF Lists, Says, Exact, RoutesAt
      <4> QED BY <1>1, <2>2, <4>4 DEF Hits
    <3>5. u = <<End>>
      <4>1. a.pattern = NoPattern /\ a.context = <<>>
        BY <3>1, <3>2, <3>4 DEF PlainRoots, Special
      <4> QED BY <3>1, <3>4, <4>1 DEF BrowserUri, IngressPath
    <3>6. \A q \in F : q.app = a.id
      BY <1>0, <3>1, <3>2, <3>4, <3>5, RootIsFirst
    <3>7. PICK r \in RoutesAt(host) : Lists(r, host, Prefix(<<>>), a)
      BY <3>2, <3>3 DEF HostLists, EntriesAt, RootAt
    <3>8. r.app = a.id /\ Hits(r, u)
      <4>1. Len(<<>>) = 0 /\ Len(<<End>>) = 1
        OBVIOUS
      <4> QED BY <3>5, <3>7, <4>1 DEF Lists, Says, Prefix, Hits, Under
    <3> QED BY <3>6, <3>7, <3>8 DEF HitsAt
  <2> QED BY <2>1, <2>2
<1>4. ~ Tied(host, u)
  <2>1. HitsAt(host, u) = {x \in routes : x.host = host /\ Hits(x, u)}
    BY DEF HitsAt, RoutesAt
  <2> QED BY <1>3, <2>1 DEF Tied
<1>5. Served(host, u) = ListSays(host, u)
  BY <1>1, <1>4, ServedIsListed
<1>6. F # {}
  <2>1. AreLocations(HitsAt(host, u))
    BY <1>0, <1>2, RoutesAreTyped DEF AreLocations
  <2> QED BY <1>1, <1>2, <1>3, <2>1, FirstExists
<1>7. \A r \in RoutesAt(host) : r.app = a.id => r.target = Target(a)
  BY <1>0, <1>1, OneTarget
<1>8. \A q \in F : q.app = a.id /\ q.target = Target(a)
  BY <1>2, <1>3, <1>7 DEF First
<1>9. Served(host, u) = {[app |-> a.id, target |-> Target(a)]}
  BY <1>5, <1>6, <1>8 DEF ListSays
<1>10. ResolveBrowserURL(a).target = Target(a)
  <2> DEFINE matching == {r \in routes : /\ r.app = a.id
                                         /\ r.host = BrowserHost(a)
                                         /\ RouteMatches(r, BrowserUri(a))}
  <2>1. \A r \in matching : r \in HitsAt(host, u) /\ r.app = a.id
    BY <1>1 DEF RouteMatches, HitsAt, RoutesAt
  <2>2. \A r \in matching : r.target = Target(a)
    BY <1>2, <1>7, <2>1
  <2>3. CASE matching = {}
    BY <2>3 DEF ResolveBrowserURL
  <2>4. CASE matching # {}
    <3>1. AreLocations(matching) /\ \A r \in matching : Hits(r, u)
      BY <1>0, <1>2, <2>1, RoutesAreTyped DEF AreLocations
    <3>2. First(matching) # {}
      <4> HIDE DEF matching
      <4> QED BY <1>1, <2>4, <3>1, FirstExists
    <3>3. (CHOOSE r \in First(matching) : TRUE) \in First(matching)
      BY <3>2
    <3>4. (CHOOSE r \in First(matching) : TRUE).target = Target(a)
      <4> HIDE DEF matching
      <4> QED BY <2>2, <3>3 DEF First
    <3> QED BY <2>4, <3>4 DEF ResolveBrowserURL
  <2> QED BY <2>3, <2>4
<1> QED BY <1>9, <1>10

----------------------------------------------------------------------------
(* What a step changes.                                                     *)

\* The list decides what is served.
ListDecides ==
    \A host \in Hosts, u \in Uris :
        Regular(host, u) => Served(host, u) = ListSays(host, u)

LEMMA ListAlwaysDecides == IInv => ListDecides
BY ServedIsListed, UrisAssumption DEF ListDecides, Regular, Paths

\* Changes in place keep the hosts.
InPlace(i, a) ==
    /\ i \in DOMAIN apps /\ apps' = [apps EXCEPT ![i] = a]
    /\ a.id = apps[i].id /\ a.domain = apps[i].domain

LEMMA InPlaceKeepsHosts ==
    ASSUME IInv, NEW i, NEW a, InPlace(i, a)
    PROVE  Hosts' = Hosts
<1>1. /\ DOMAIN apps' = DOMAIN apps
      /\ \A k \in DOMAIN apps : apps'[k].domain = apps[k].domain
  BY DEF InPlace, IInv, AppsTyped
<1>2. {b.domain : b \in Apps} = {apps[k].domain : k \in DOMAIN apps}
  BY DEF Apps, ToSet
<1>3. {b.domain : b \in Apps}' = {apps'[k].domain : k \in DOMAIN apps}
  BY <1>1 DEF Apps, ToSet
<1>4. {b.domain : b \in Apps}' = {b.domain : b \in Apps}
  BY <1>1, <1>2, <1>3
<1> QED BY <1>4 DEF Hosts

LEMMA StepsKeepHosts ==
    ASSUME IInv, Next, Len(apps') = Len(apps)
    PROVE  Hosts' = Hosts
<1>0. apps \in Seq(Applications) /\ Len(apps) \in Nat
  BY DEF IInv, AppsTyped
<1>1. ASSUME NEW a \in Registrations, Register(a)
      PROVE  FALSE
  <2>1. apps' = Append(apps, a) /\ a \in Applications
    BY <1>1, RegistrationsAssumption DEF Register
  <2>2. Len(apps') = Len(apps) + 1
    BY <1>0, <2>1
  <2> QED BY <1>0, <2>2
<1>2. ASSUME NEW i \in DOMAIN apps, Unregister(i)
      PROVE  FALSE
  <2>1. apps' = SubSeq(apps, 1, i - 1) \o SubSeq(apps, i + 1, Len(apps))
    BY <1>2 DEF Unregister, RemoveAt
  <2>2. i \in 1 .. Len(apps)
    BY <1>0
  <2>3. /\ Len(SubSeq(apps, 1, i - 1)) = i - 1
        /\ Len(SubSeq(apps, i + 1, Len(apps))) = Len(apps) - i
    BY <1>0, <2>2
  <2>4. Len(apps') = Len(apps) - 1
    BY <1>0, <2>1, <2>2, <2>3
  <2> QED BY <1>0, <2>4
<1>3. ASSUME NEW i \in DOMAIN apps, ToggleApp(i)
      PROVE  Hosts' = Hosts
  <2> DEFINE a == [apps[i] EXCEPT !.active = ~ apps[i].active]
  <2>1. apps[i] \in Applications
    BY <1>0
  <2>2. a.id = apps[i].id /\ a.domain = apps[i].domain
    BY <2>1 DEF Applications
  <2>3. apps' = [apps EXCEPT ![i] = a]
    BY <1>3 DEF ToggleApp
  <2> HIDE DEF a
  <2> QED BY <2>2, <2>3, InPlaceKeepsHosts DEF InPlace
<1>4. ASSUME NEW i \in DOMAIN apps, NEW pattern, UpdateRoutePattern(i, pattern)
      PROVE  Hosts' = Hosts
  <2> DEFINE a == [apps[i] EXCEPT !.pattern = pattern]
  <2>1. apps[i] \in Applications
    BY <1>0
  <2>2. a.id = apps[i].id /\ a.domain = apps[i].domain
    BY <2>1 DEF Applications
  <2>3. apps' = [apps EXCEPT ![i] = a]
    BY <1>4 DEF UpdateRoutePattern
  <2> HIDE DEF a
  <2> QED BY <2>2, <2>3, InPlaceKeepsHosts DEF InPlace
<1>5. ASSUME NEW i \in DOMAIN apps, NEW local, NEW pattern, ApplyPlan(i, local, pattern)
      PROVE  Hosts' = Hosts
  <2> DEFINE a == Planned(apps[i], local, pattern)
  <2>1. apps[i] \in Applications
    BY <1>0
  <2>2. a.id = apps[i].id /\ a.domain = apps[i].domain
    BY <2>1 DEF Applications, Planned
  <2>3. apps' = [apps EXCEPT ![i] = a]
    BY <1>5 DEF ApplyPlan
  <2> HIDE DEF a
  <2> QED BY <2>2, <2>3, InPlaceKeepsHosts DEF InPlace
<1> QED BY <1>1, <1>2, <1>3, <1>4, <1>5 DEF Next

\* What is served is what the list says, before and after; if it differs then
\* so do the routes that hit the request, and the plan shows their difference.
LEMMA PlansShow ==
    ASSUME IInv, ListDecides, ListDecides', Next, Len(apps') = Len(apps),
           NEW host \in Hosts, NEW u \in Uris, Regular(host, u), Regular(host, u)',
           Served(host, u)' # Served(host, u)
    PROVE  \E c \in DiffRoutes(routes, routes') : c.host = host /\ Hits(c, u)
<1>1. Served(host, u) = ListSays(host, u)
  BY DEF ListDecides
<1>2. host \in Hosts'
  BY StepsKeepHosts
<1>3. Served(host, u)' = ListSays(host, u)'
  BY <1>2 DEF ListDecides
<1>4. HitsAt(host, u)' # HitsAt(host, u)
  BY <1>1, <1>3 DEF ListSays
<1>5. PICK r \in (routes \ routes') \cup (routes' \ routes) : r.host = host /\ Hits(r, u)
  BY <1>4 DEF HitsAt, RoutesAt
<1>6. ChangeKey(r) \in DiffRoutes(routes, routes')
  BY <1>5 DEF DiffRoutes
<1>7. ChangeKey(r).host = host /\ Hits(ChangeKey(r), u)
  BY <1>5 DEF ChangeKey, Hits
<1> QED BY <1>6, <1>7

----------------------------------------------------------------------------
(* Toggles.                                                                 *)

\* A route without its target: who owns which matcher.
Claim(exact, path, app) == [exact |-> exact, path |-> path, app |-> app]

Claims(host) == {Claim(r.exact, r.path, r.app) : r \in RoutesAt(host)}

\* A claim is an entry of an application or that of the default route.
IsClaim(c, host) ==
    \/ \E i \in DOMAIN apps : \E m \in EntriesAt(apps[i], host) :
          c = Claim(m.exact, m.path, apps[i].id)
    \/ /\ \A i \in DOMAIN apps : ~ RootAt(apps[i], host)
       /\ c = Claim(FALSE, <<>>, 0)

ClaimsAreEntries ==
    OneServerPerHost => \A host \in Hosts : \A c : c \in Claims(host) <=> IsClaim(c, host)

LEMMA ClaimsAlwaysAreEntries == IInv => ClaimsAreEntries
<1> SUFFICES ASSUME IInv, OneServerPerHost, NEW host \in Hosts, NEW c
             PROVE  c \in Claims(host) <=> IsClaim(c, host)
  BY DEF ClaimsAreEntries
<1>1. HostLists(RoutesAt(host), host)
  BY HostListing DEF IInv
<1>2. /\ \A i \in DOMAIN apps : apps[i] \in Apps
      /\ \A a \in Apps : \E i \in DOMAIN apps : a = apps[i]
  BY DEF Apps, ToSet
<1>3. RootsAt(host) = {} <=> \A i \in DOMAIN apps : ~ RootAt(apps[i], host)
  BY <1>2 DEF RootsAt
<1>4. ASSUME NEW r \in RoutesAt(host), c = Claim(r.exact, r.path, r.app)
      PROVE  IsClaim(c, host)
  <2>1. CASE \E a \in Apps : \E m \in EntriesAt(a, host) : ListedFor(r, host, a, m)
    <3>1. PICK a \in Apps : \E m \in EntriesAt(a, host) : ListedFor(r, host, a, m)
      BY <2>1
    <3>2. PICK m \in EntriesAt(a, host) : ListedFor(r, host, a, m)
      BY <3>1
    <3>3. c = Claim(m.exact, m.path, a.id)
      BY <1>4, <3>2 DEF ListedFor, Lists, Says
    <3> QED BY <1>2, <3>3 DEF IsClaim
  <2>2. CASE RootsAt(host) = {} /\ NoOwner(r, host)
    BY <1>3, <1>4, <2>2 DEF NoOwner, Says, IsClaim
  <2> QED BY <1>1, <2>1, <2>2 DEF HostLists
<1>5. ASSUME IsClaim(c, host)
      PROVE  c \in Claims(host)
  <2>1. CASE \E i \in DOMAIN apps : \E m \in EntriesAt(apps[i], host) :
                c = Claim(m.exact, m.path, apps[i].id)
    <3>1. PICK i \in DOMAIN apps : \E m \in EntriesAt(apps[i], host) :
                c = Claim(m.exact, m.path, apps[i].id)
      BY <2>1
    <3>2. PICK m \in EntriesAt(apps[i], host) : c = Claim(m.exact, m.path, apps[i].id)
      BY <3>1
    <3>3. PICK r \in RoutesAt(host) : Lists(r, host, m, apps[i])
      BY <1>1, <1>2, <3>2 DEF HostLists
    <3> QED BY <3>2, <3>3 DEF Lists, Says, Claims
  <2>2. CASE RootsAt(host) = {} /\ c = Claim(FALSE, <<>>, 0)
    <3>1. PICK r \in RoutesAt(host) : NoOwner(r, host)
      BY <1>1, <2>2 DEF HostLists
    <3> QED BY <2>2, <3>1 DEF NoOwner, Says, Claims
  <2> QED BY <1>3, <1>5, <2>1, <2>2 DEF IsClaim
<1> QED BY <1>4, <1>5 DEF Claims

\* A claim depends on everything in an application but its mode.
LEMMA ToggleKeepsClaims ==
    ASSUME IInv, NEW i \in DOMAIN apps, KeepsRoutes(apps[i]),
           apps' = [apps EXCEPT ![i].active = ~ @], NEW host, NEW c
    PROVE  IsClaim(c, host)' <=> IsClaim(c, host)
<1> DEFINE Kept(k) ==
        /\ apps'[k].id = apps[k].id /\ apps'[k].domain = apps[k].domain
        /\ apps'[k].path = apps[k].path /\ apps'[k].context = apps[k].context
        /\ apps'[k].legacy = apps[k].legacy /\ apps'[k].pattern = apps[k].pattern
        /\ apps'[k].remote = apps[k].remote /\ apps'[k].port = apps[k].port
        /\ k # i => apps'[k].active = apps[k].active
<1>1. DOMAIN apps' = DOMAIN apps /\ \A k \in DOMAIN apps : apps[k] \in Applications
  BY AppsAreApplications DEF IInv, AppsTyped
<1>2. ASSUME NEW k \in DOMAIN apps
      PROVE  Kept(k)
  <2>1. CASE k = i
    <3>1. apps'[k] = [apps[k] EXCEPT !.active = ~ apps[k].active]
      BY <2>1
    <3> QED BY <1>1, <2>1, <3>1 DEF Applications
  <2>2. CASE k # i
    <3>1. apps'[k] = apps[k]
      BY <1>1, <2>2
    <3> QED BY <3>1
  <2> QED BY <2>1, <2>2
<1>3. \A k \in DOMAIN apps : PatternEntries(apps'[k]) = PatternEntries(apps[k])
  <2> SUFFICES ASSUME NEW k \in DOMAIN apps
               PROVE  PatternEntries(apps'[k]) = PatternEntries(apps[k])
    OBVIOUS
  <2>1. Kept(k)
    BY <1>2
  <2> QED BY <2>1 DEF PatternEntries, Special, IngressPath
<1>4. ASSUME NEW k \in DOMAIN apps
      PROVE  GivesAt(apps'[k], host) <=> GivesAt(apps[k], host)
  <2>1. Kept(k)
    BY <1>2
  <2>2. CASE k = i
    BY <2>1, <2>2 DEF GivesAt, KeepsRoutes
  <2>3. CASE k # i
    BY <2>1, <2>3 DEF GivesAt, IsLocal
  <2> QED BY <2>2, <2>3
<1>5. ASSUME NEW k \in DOMAIN apps
      PROVE  RootAt(apps[k], host)' <=> RootAt(apps[k], host)
  <2> DEFINE Root(x) == x.domain = NoHost /\ x.path = <<>>
  <2>1. apps[k] \in DefaultRoots
           <=> Root(apps[k]) /\ \A j \in DOMAIN apps : Root(apps[j]) => apps[k].id <= apps[j].id
    BY DEF DefaultRoots, Apps, ToSet
  <2>2. apps'[k] \in DefaultRoots'
           <=> Root(apps'[k]) /\ \A j \in DOMAIN apps : Root(apps'[j]) => apps'[k].id <= apps'[j].id
    BY <1>1 DEF DefaultRoots, Apps, ToSet
  <2>3. \A j \in DOMAIN apps : Root(apps'[j]) <=> Root(apps[j])
    BY <1>2
  <2>4. apps'[k] \in DefaultRoots' <=> apps[k] \in DefaultRoots
    <3> HIDE DEF Root
    <3>1. \A j \in DOMAIN apps : apps'[j].id = apps[j].id
      BY <1>2
    <3> QED BY <2>1, <2>2, <2>3, <3>1
  <2>5. apps'[k].domain = apps[k].domain
    BY <1>2
  <2> QED BY <2>4, <2>5 DEF RootAt
<1>6. ASSUME NEW k \in DOMAIN apps
      PROVE  EntriesAt(apps[k], host)' = EntriesAt(apps[k], host)
  BY <1>3, <1>4, <1>5 DEF EntriesAt
<1>7. \A k \in DOMAIN apps : apps'[k].id = apps[k].id
  BY <1>2
<1> HIDE DEF Kept
<1>8. IsClaim(c, host)' <=>
         \/ \E k \in DOMAIN apps' : \E m \in EntriesAt(apps[k], host)' :
               c = Claim(m.exact, m.path, apps'[k].id)
         \/ /\ \A k \in DOMAIN apps' : ~ RootAt(apps[k], host)'
            /\ c = Claim(FALSE, <<>>, 0)
  BY DEF IsClaim
<1>9. (\A k \in DOMAIN apps' : ~ RootAt(apps[k], host)')
         <=> \A k \in DOMAIN apps : ~ RootAt(apps[k], host)
  BY <1>1, <1>5
<1>10. (\E k \in DOMAIN apps' : \E m \in EntriesAt(apps[k], host)' :
               c = Claim(m.exact, m.path, apps'[k].id))
         <=> \E k \in DOMAIN apps : \E m \in EntriesAt(apps[k], host) :
               c = Claim(m.exact, m.path, apps[k].id)
  BY <1>1, <1>6, <1>7
<1> QED BY <1>8, <1>9, <1>10 DEF IsClaim

\* s is among the first of S that hit u.
IsFirst(s, S, u) == s \in S /\ Hits(s, u) /\ \A y \in S : Hits(y, u) => ~ Ahead(y, s)

\* Of two lists with the same claims the same owners come first.
LEMMA SameClaimsSameOwners ==
    ASSUME NEW S, NEW T, NEW u, NEW s, IsFirst(s, S, u),
           \A x \in S : \E y \in T : SamePattern(x, y) /\ x.app = y.app,
           \A y \in T : \E x \in S : SamePattern(x, y)
    PROVE  \E t : IsFirst(t, T, u) /\ t.app = s.app
<1>1. s \in S /\ Hits(s, u) /\ \A y \in S : Hits(y, u) => ~ Ahead(y, s)
  BY DEF IsFirst
<1>2. PICK t \in T : SamePattern(s, t) /\ s.app = t.app
  BY <1>1
<1>3. Hits(t, u) /\ \A x \in T : Hits(x, u) => ~ Ahead(x, t)
  BY <1>1, <1>2, SameMatchersSameFirst
<1> QED BY <1>2, <1>3 DEF IsFirst

LEMMA OwnersAreServed ==
    ASSUME NEW A, NEW o
    PROVE  o \in {x.proof : x \in A}
           <=> \E y \in {[app |-> x.proof, target |-> x.proxy] : x \in A} : o = y.app
<1>1. ASSUME NEW x \in A
      PROVE  \E y \in {[app |-> z.proof, target |-> z.proxy] : z \in A} : x.proof = y.app
  <2>1. [app |-> x.proof, target |-> x.proxy]
           \in {[app |-> z.proof, target |-> z.proxy] : z \in A}
    OBVIOUS
  <2>2. [app |-> x.proof, target |-> x.proxy].app = x.proof
    OBVIOUS
  <2> QED BY <2>1, <2>2
<1> QED BY <1>1

LEMMA OwnersAreListed ==
    ASSUME NEW F, NEW o
    PROVE  (\E y \in {[app |-> r.app, target |-> r.target] : r \in F} : o = y.app)
           <=> \E r \in F : o = r.app
<1> DEFINE Says1(r) == [app |-> r.app, target |-> r.target]
<1>1. \A r : Says1(r).app = r.app
  OBVIOUS
<1> HIDE DEF Says1
<1>2. (\E y \in {Says1(r) : r \in F} : o = y.app) <=> \E r \in F : o = r.app
  BY <1>1
<1> QED BY <1>2 DEF Says1

LEMMA TogglesKeepOwners ==
    ASSUME IInv, ListDecides, ListDecides', ClaimsAreEntries, ClaimsAreEntries',
           NEW i \in DOMAIN apps, KeepsRoutes(apps[i]),
           apps' = [apps EXCEPT ![i].active = ~ @],
           NEW host \in Hosts, NEW u \in Uris, Regular(host, u), Regular(host, u)'
    PROVE  Owners(host, u)' = Owners(host, u)
<1>1. host \in Hosts'
  <2> DEFINE a == [apps[i] EXCEPT !.active = ~ apps[i].active]
  <2>1. apps[i] \in Applications
    BY AppsAreApplications DEF IInv
  <2>2. a.id = apps[i].id /\ a.domain = apps[i].domain
    BY <2>1 DEF Applications
  <2>3. apps' = [apps EXCEPT ![i] = a]
    OBVIOUS
  <2> HIDE DEF a
  <2> QED BY <2>2, <2>3, InPlaceKeepsHosts DEF InPlace
<1>2. OneServerPerHost /\ OneServerPerHost'
  BY DEF Regular
<1>3. \A c : c \in Claims(host)' <=> c \in Claims(host)
  BY <1>1, <1>2, ToggleKeepsClaims DEF ClaimsAreEntries
<1> DEFINE S == RoutesAt(host)
           T == RoutesAt(host)'
<1>4. ASSUME NEW r \in S
      PROVE  \E q \in T : SamePattern(r, q) /\ r.app = q.app
  <2>1. Claim(r.exact, r.path, r.app) \in Claims(host)'
    BY <1>3 DEF Claims
  <2>2. PICK q \in T : Claim(r.exact, r.path, r.app) = Claim(q.exact, q.path, q.app)
    BY <2>1 DEF Claims
  <2> QED BY <2>2 DEF Claim, SamePattern
<1>5. ASSUME NEW q \in T
      PROVE  \E r \in S : SamePattern(q, r) /\ q.app = r.app
  <2>1. Claim(q.exact, q.path, q.app) \in Claims(host)
    <3>1. Claim(q.exact, q.path, q.app) \in Claims(host)'
      BY DEF Claims
    <3> QED BY <1>3, <3>1
  <2>2. PICK r \in S : Claim(q.exact, q.path, q.app) = Claim(r.exact, r.path, r.app)
    BY <2>1 DEF Claims
  <2> QED BY <2>2 DEF Claim, SamePattern
<1>6. \A x, y : SamePattern(x, y) => SamePattern(y, x)
  BY DEF SamePattern
<1>7. \A s : IsFirst(s, S, u) => \E t : IsFirst(t, T, u) /\ t.app = s.app
  <2> HIDE DEF S, T
  <2> QED BY <1>4, <1>5, <1>6, SameClaimsSameOwners
<1>8. \A t : IsFirst(t, T, u) => \E s : IsFirst(s, S, u) /\ s.app = t.app
  <2> HIDE DEF S, T
  <2> QED BY <1>4, <1>5, <1>6, SameClaimsSameOwners
<1>9. Served(host, u) = ListSays(host, u) /\ Served(host, u)' = ListSays(host, u)'
  BY <1>1 DEF ListDecides
<1>10. \A o : o \in Owners(host, u) <=> \E s : IsFirst(s, S, u) /\ o = s.app
  <2>1. \A o : o \in Owners(host, u) <=> \E x \in Served(host, u) : o = x.app
    BY OwnersAreServed DEF Owners, Served
  <2>2. \A o : (\E x \in ListSays(host, u) : o = x.app)
               <=> \E s \in First(HitsAt(host, u)) : o = s.app
    BY OwnersAreListed DEF ListSays
  <2>3. \A s : s \in First(HitsAt(host, u)) <=> IsFirst(s, S, u)
    BY DEF First, IsFirst, HitsAt
  <2> QED BY <1>9, <2>1, <2>2, <2>3
<1>11. \A o : o \in Owners(host, u)' <=> \E t : IsFirst(t, T, u) /\ o = t.app
  <2>1. \A o : o \in Owners(host, u)' <=> \E x \in Served(host, u)' : o = x.app
    BY OwnersAreServed DEF Owners, Served
  <2>2. \A o : (\E x \in ListSays(host, u)' : o = x.app)
               <=> \E t \in First(HitsAt(host, u)') : o = t.app
    BY OwnersAreListed DEF ListSays
  <2>3. \A t : t \in First(HitsAt(host, u)') <=> IsFirst(t, T, u)
    BY DEF First, IsFirst, HitsAt
  <2> QED BY <1>9, <2>1, <2>2, <2>3
<1>12. \A o : o \in Owners(host, u)' <=> o \in Owners(host, u)
  BY <1>7, <1>8, <1>10, <1>11
<1> QED BY <1>12 DEF Owners

----------------------------------------------------------------------------
(* The theorems.                                                            *)

(* Whatever the applications, ResolveRoute reports for a request the        *)
(* application and the target that nginx serves, unless applications tie    *)
(* for it, it ends in a slash or compaction redirects it.                   *)
THEOREM ResolverIsRight == Spec => []ResolverAgrees
BY Invariant, NginxAgrees, PTL

(* No application takes a request from another one unless the pair is a     *)
(* conflict that is reported, and with the taker as the winner where the    *)
(* request is not tied.                                                     *)
THEOREM ShadowsReported == Spec => []NothingIsShadowedSilently
BY Invariant, ShadowsAreReported, PTL

(* A workspace that the renderer accepts without overrides serves every     *)
(* browser URL from the application and the target that are reported with   *)
(* it; that the present workspace is an accepted one is part of the         *)
(* invariant.                                                               *)
THEOREM BrowserUrlsServed == Spec => []BrowserUrlIsServed
BY Invariant, BrowserUrlsAreServed, PTL

(* Every step that changes what is served for a request, and keeps the      *)
(* number of applications, changes a route that hits the request; so a plan *)
(* whose changes do not hit it leaves it alone.                             *)
THEOREM PlansShowChanges == Spec => PlanShowsWhatChanges
<1> DEFINE Shows ==
        Len(apps') = Len(apps) =>
            \A host \in Hosts, u \in Uris :
                /\ Regular(host, u) /\ Regular(host, u)'
                /\ Served(host, u)' # Served(host, u)
                => \E c \in DiffRoutes(routes, routes') :
                       c.host = host /\ Hits(c, u)
<1>1. IInv /\ ListDecides /\ ListDecides' /\ [Next]_vars => [Shows]_vars
  <2> SUFFICES ASSUME IInv, ListDecides, ListDecides', Next
               PROVE  Shows
    OBVIOUS
  <2> QED BY PlansShow
<1>2. Spec => [][Shows]_vars
  <2> HIDE DEF Shows
  <2> QED BY <1>1, Invariant, ListAlwaysDecides, PTL DEF Spec
<1> QED BY <1>2 DEF PlanShowsWhatChanges

(* Toggling an application that keeps its routes moves no request to        *)
(* another application.                                                     *)
THEOREM TogglesKeep == Spec => ToggleKeepsOwners
<1> DEFINE Keeps ==
        \A i \in DOMAIN apps :
            apps' = [apps EXCEPT ![i].active = ~ @] /\ KeepsRoutes(apps[i]) =>
                \A host \in Hosts, u \in Uris :
                    Regular(host, u) /\ Regular(host, u)' =>
                        Owners(host, u)' = Owners(host, u)
<1>1. IInv /\ ListDecides /\ ListDecides' /\ ClaimsAreEntries /\ ClaimsAreEntries'
      => [Keeps]_vars
  <2> SUFFICES ASSUME IInv, ListDecides, ListDecides', ClaimsAreEntries, ClaimsAreEntries'
               PROVE  Keeps
    OBVIOUS
  <2> QED BY TogglesKeepOwners
<1>2. Spec => [][Keeps]_vars
  <2> HIDE DEF Keeps
  <2> QED BY <1>1, Invariant, ListAlwaysDecides, ClaimsAlwaysAreEntries, PTL DEF Spec
<1> QED BY <1>2 DEF ToggleKeepsOwners
=============================================================================
