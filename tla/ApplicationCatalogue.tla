------------------------ MODULE ApplicationCatalogue ------------------------
(***************************************************************************)
(* Canonical application identities.  Every workspace of the registry      *)
(* binds applications; an application is referred to by its identifier or  *)
(* by an alias.  Identities and aliases are also global tables of the      *)
(* SQLite store, which only ever grow: removing an application, or a whole *)
(* workspace, leaves its identity and its aliases behind, and a restart    *)
(* gives every binding all the aliases the tables hold for it.             *)
(*                                                                         *)
(* A mutation rewrites the workspaces and grows the tables in one          *)
(* transaction, and is published after it; one that is refused changes     *)
(* nothing (RouteTransaction).  Toggles, routes and route patterns touch   *)
(* no identity and are left out, and so is all other metadata.             *)
(***************************************************************************)
EXTENDS Naturals, FiniteSets, Sequences, SequencesExt

CONSTANTS
    Environments,   \* identifiers of environments
    Sessions,       \* identifiers of routing sessions
    Names,          \* normalized tokens: canonical identifiers and aliases
    Services,       \* service identifiers; the default is the canonical one
    Repositories,   \* repositories
    Requests,       \* registrations in flight
    Inputs,         \* the application configurations callers send
    None,           \* an omitted field, nothing there
    MaxApps,        \* bound on the applications of a workspace
    MaxChanges      \* bound on the changes that are accepted

Workspaces == Environments \cup Sessions

Binding == [id : Names, service : Services, repository : Repositories \cup {None},
            aliases : SUBSET Names]

(* What callers send: fields may be omitted, and the identifier may be     *)
(* written another way than its normalized form (exact is FALSE).          *)
Config == [id : Names, service : Services \cup {None},
           repository : Repositories \cup {None},
           aliases : SUBSET Names, exact : BOOLEAN]

Branch == [environment : Environments, baseline : SUBSET Binding]

Request == [workspace : Workspaces, list : SUBSET Config]

ASSUME NamesAssumption ==
    /\ Names \subseteq Services
    /\ None \notin Services \cup Repositories
    /\ Inputs \subseteq Config
    /\ Environments \cap Sessions = {}
    /\ None \notin Branch \cup Request
    /\ MaxChanges \in Nat \ {0}

VARIABLES
    up,             \* the daemon runs
    order,          \* Registry.workspaces, in their order
    apps,           \*   their applications
    session,        \*   their RoutingSession
    rows,           \* tables workspaces and applications
    service,        \* table application_identities: service_id,
    repository,     \*   and repository
    owner,          \* table application_aliases: app_id of each alias
    held,           \* what registrations have read and not yet saved
    meant,          \* history: what each reference has been resolved to
    changes         \* how many changes were accepted

tables == <<rows, service, repository, owner>>
vars == <<up, order, apps, session, tables, held, meant, changes>>

Present(o) == {o[i] : i \in DOMAIN o}

NamesOf(b) == {b.id} \cup b.aliases

(* findAppInWorkspace: the applications a reference matches. *)
Matches(A, x) == {b \in A : x \in NamesOf(b)}

Resolved(o, A, x) == UNION {{b.id : b \in Matches(A[w], x)} : w \in Present(o)}

(* validateWorkspaces: no name is used twice in a workspace. *)
Valid(A) ==
    /\ \A b \in A : b.id \notin b.aliases
    /\ \A b, d \in A : b # d => NamesOf(b) \cap NamesOf(d) = {}

Distinct(list) == \A c, d \in list : c.id = d.id => c = d

Lists == {list \in SUBSET Inputs : Distinct(list)}

---------------------------------------------------------------------------
(* The tables. *)

Bound(o, A) == UNION {A[w] : w \in Present(o)}

(* Mutant: an alias may be an identity that nobody binds any more. *)
AcceptedGhost(B) ==
    /\ \A b \in B :
         /\ owner[b.id] = None
         /\ service[b.id] \in {None, b.service}
         /\ \A y \in b.aliases : owner[y] \in {None, b.id}
    /\ \A b, d \in B :
         IF b.id = d.id THEN b.service = d.service
                        ELSE NamesOf(b) \cap NamesOf(d) = {}

(* ensureApplicationIdentityTx, for all bindings of the transaction: an    *)
(* identifier that is an alias, an alias of somebody else or of an         *)
(* identifier, and another service are refused, whoever came first.        *)
Accepted(B) ==
    /\ \A b \in B :
         /\ owner[b.id] = None
         /\ service[b.id] \in {None, b.service}
         /\ \A y \in b.aliases : owner[y] \in {None, b.id} /\ service[y] = None
    /\ \A b, d \in B :
         IF b.id = d.id THEN b.service = d.service
                        ELSE NamesOf(b) \cap NamesOf(d) = {}

(* The tables after the transaction: an identity keeps its service, an     *)
(* alias its owner. *)
ServiceAfter(B, x) ==
    IF service[x] = None /\ \E b \in B : b.id = x
    THEN (CHOOSE b \in B : b.id = x).service
    ELSE service[x]

(* Mutant: the aliases are not stored. *)
OwnerAfterUnstored(B, y) == owner[y]

OwnerAfter(B, y) ==
    IF owner[y] = None /\ \E b \in B : y \in b.aliases
    THEN (CHOOSE b \in B : y \in b.aliases).id
    ELSE owner[y]

(* Mutant: a pinned copy counts as the session's own. *)
InheritsNothing(S, w, x) == FALSE

(* sessionInheritsApplication: a pinned copy writes no repository of an    *)
(* identity that exists already. *)
Inherits(S, w, x) == S[w] # None /\ \E b \in S[w].baseline : b.id = x

Writes(o, A, S, i, x) ==
    \E b \in A[o[i]] :
        /\ b.id = x /\ b.repository # None
        /\ Inherits(S, o[i], x) =>
             /\ service[x] = None
             /\ \A j \in 1 .. i - 1 : \A d \in A[o[j]] : d.id # x

(* The last workspace that writes a repository wins. *)
RepositoryAfter(o, A, S, x) ==
    LET writers == {i \in DOMAIN o : Writes(o, A, S, i, x)}
        last == {b \in Bound(o, A) : b.id = x /\ \E i \in writers :
                   b \in A[o[i]] /\ \A j \in writers : j <= i}
    IN  IF last = {} THEN repository[x] ELSE (CHOOSE b \in last : TRUE).repository

(* mutate with ReplaceWorkspaces, for a candidate that is accepted. *)
Commit(o, A, S) ==
    /\ changes < MaxChanges
    /\ \A w \in Workspaces : Cardinality(A[w]) <= MaxApps
    /\ \A w \in Present(o) : Valid(A[w])
    /\ Accepted(Bound(o, A))
    /\ order' = o /\ apps' = A /\ session' = S
    /\ changes' = changes + 1
    /\ rows' = [order |-> o, session |-> S,
                ids |-> [w \in Workspaces |-> {b.id : b \in A[w]}]]
    /\ service' = [x \in Names |-> ServiceAfter(Bound(o, A), x)]
    /\ repository' = [x \in Names |-> RepositoryAfter(o, A, S, x)]
    /\ owner' = [y \in Names |-> OwnerAfter(Bound(o, A), y)]
    /\ meant' = [x \in Names |-> meant[x] \cup Resolved(o, A, x)]

---------------------------------------------------------------------------
(* Changes of one workspace's applications. *)

Blank(x) == [id |-> x, service |-> x, repository |-> None, aliases |-> {}]

(* applicationsFromConfigs: what a configuration omits is kept from the    *)
(* application that had its identifier, if it is written the same way.     *)
Previous(A, c) ==
    IF c.exact /\ \E b \in A : b.id = c.id
    THEN CHOOSE b \in A : b.id = c.id
    ELSE Blank(c.id)

Overlay(b, c) ==
    [id         |-> b.id,
     service    |-> IF c.service = None THEN b.service ELSE c.service,
     repository |-> IF c.repository = None THEN b.repository ELSE c.repository,
     aliases    |-> IF c.aliases = {} THEN b.aliases ELSE c.aliases]

FromConfigs(A, list) == {Overlay(Previous(A, c), c) : c \in list}

(* applicationConfigs: an application as a configuration. *)
Full(b) == [id |-> b.id, service |-> b.service, repository |-> b.repository,
            aliases |-> b.aliases, exact |-> TRUE]

Configs(A) == {Full(b) : b \in A}

(* UpdateWorkspaceApplicationsAtVersion. *)
Replace(w, list) ==
    /\ w \in Present(order) /\ Distinct(list)
    /\ Commit(order, [apps EXCEPT ![w] = FromConfigs(apps[w], list)], session)

CreateWorkspace(w, list) ==
    /\ up /\ w \in Environments \ Present(order)
    /\ Commit(Append(order, w), [apps EXCEPT ![w] = FromConfigs({}, list)], session)
    /\ UNCHANGED <<up, held>>

UpdateWorkspace(w, list) ==
    /\ up /\ Replace(w, list)
    /\ UNCHANGED <<up, held>>

(* Environments with open sessions stay. *)
DeleteWorkspace(w) ==
    /\ up
    /\ \A s \in Present(order) : session[s] # None => session[s].environment # w
    /\ \E i \in DOMAIN order :
         /\ order[i] = w
         /\ Commit(RemoveAt(order, i), [apps EXCEPT ![w] = {}],
                   [session EXCEPT ![w] = None])
    /\ UNCHANGED <<up, held>>

(* UpsertApplication of an environment composes the complete list from the *)
(* workspace it has read, and saves it in a step of its own.  Without an   *)
(* appId the id is a reference: the application it resolves to lends its   *)
(* identity. *)
Named(A, c, byId) ==
    IF byId \/ Matches(A, c.id) = {} THEN c
    ELSE Full(CHOOSE b \in Matches(A, c.id) : TRUE)

BeginUpsert(q, w, c, byId) ==
    /\ up /\ held[q] = None
    /\ w \in Present(order) /\ session[w] = None
    /\ LET named == Named(apps[w], c, byId)
           others == {f \in Configs(apps[w]) : named.exact => f.id # named.id}
       IN  held' = [held EXCEPT ![q] = [workspace |-> w, list |-> others \cup {named}]]
    /\ UNCHANGED <<up, order, apps, session, tables, meant, changes>>

(* DeleteApplication of an environment, likewise. *)
BeginDelete(q, w, x) ==
    /\ up /\ held[q] = None
    /\ w \in Present(order) /\ session[w] = None
    /\ Matches(apps[w], x) # {}
    /\ held' = [held EXCEPT ![q] = [workspace |-> w,
                                    list |-> Configs(apps[w] \ Matches(apps[w], x))]]
    /\ UNCHANGED <<up, order, apps, session, tables, meant, changes>>

(* The save of either, which may be refused. *)
Finish(q) ==
    /\ up /\ held[q] # None
    /\ held' = [held EXCEPT ![q] = None]
    /\ \/ Replace(held[q].workspace, held[q].list)
       \/ UNCHANGED <<order, apps, session, tables, meant, changes>>
    /\ UNCHANGED up

(* RegisterApplicationAlias: every binding of the identity gets the alias. *)
RegisterAlias(w, x, y) ==
    /\ up /\ w \in Present(order)
    /\ \E b \in Matches(apps[w], x) :
         /\ Resolved(order, apps, y) \subseteq {b.id}
         /\ Commit(order,
                   [v \in Workspaces |->
                      {IF d.id = b.id THEN [d EXCEPT !.aliases = @ \cup {y}] ELSE d
                        : d \in apps[v]}],
                   session)
    /\ UNCHANGED <<up, held>>

---------------------------------------------------------------------------
(* Routing sessions. *)

CreateRoutingSession(s, e) ==
    /\ up /\ s \in Sessions \ Present(order)
    /\ e \in Present(order) /\ session[e] = None
    /\ Commit(Append(order, s), [apps EXCEPT ![s] = FromConfigs({}, Configs(apps[e]))],
              [session EXCEPT ![s] = [environment |-> e, baseline |-> apps[e]]])
    /\ UNCHANGED <<up, held>>

(* EditSessionApplication, a sparse edit of the application a reference    *)
(* resolves to, or a new one; composed and saved in one step. *)
EditSession(s, c) ==
    /\ up /\ s \in Present(order) /\ session[s] # None
    /\ LET known == Matches(apps[s], c.id)
           edited == IF known = {} THEN {Overlay(Blank(c.id), c)}
                     ELSE {Overlay(b, c) : b \in known}
       IN  Commit(order, [apps EXCEPT ![s] = (@ \ known) \cup edited], session)
    /\ UNCHANGED <<up, held>>

RemoveFromSession(s, x) ==
    /\ up /\ s \in Present(order) /\ session[s] # None
    /\ Matches(apps[s], x) # {}
    /\ Commit(order, [apps EXCEPT ![s] = @ \ Matches(@, x)], session)
    /\ UNCHANGED <<up, held>>

(* refreshSession, the three-way merge of one application: b in the        *)
(* session, old in the baseline, next in the environment.  Alias lists are *)
(* compared with their order and nil apart from empty, so equal ones may   *)
(* compare as different (pinned).  Whatever the merge leaves empty         *)
(* applicationsFromConfigs keeps. *)
Merged(b, old, next, pinned) ==
    LET merged ==
          [id         |-> b.id,
           service    |-> IF b.service = old.service THEN next.service ELSE b.service,
           repository |-> IF b.repository = old.repository THEN next.repository
                          ELSE b.repository,
           aliases    |-> IF b.aliases = old.aliases /\ ~pinned THEN next.aliases
                          ELSE b.aliases,
           exact      |-> TRUE]
    IN  Overlay(b, merged)

(* Applying a refresh that has no conflicts.  An application the           *)
(* environment has lost goes if it is as it was in the baseline; one the   *)
(* session has registered itself must not have come to the environment.    *)
RefreshSession(s, pinned) ==
    /\ up /\ s \in Present(order) /\ session[s] # None
    /\ session[s].environment \in Present(order)
    /\ LET fresh == apps[session[s].environment]
           old == session[s].baseline
           In(A, x) == \E b \in A : b.id = x
           The(A, x) == CHOOSE b \in A : b.id = x
       IN  /\ \A b \in apps[s] :
                /\ In(fresh, b.id) => In(old, b.id)
                /\ In(old, b.id) /\ ~In(fresh, b.id) => b = The(old, b.id)
           /\ Commit(order,
                [apps EXCEPT ![s] =
                   {b \in @ : ~In(old, b.id)}
                   \cup {Merged(b, The(old, b.id), The(fresh, b.id), b.id \in pinned)
                          : b \in {d \in @ : In(old, d.id) /\ In(fresh, d.id)}}
                   \cup {b \in fresh : ~In(@, b.id) /\ ~In(old, b.id)}],
                [session EXCEPT ![s].baseline = fresh])
    /\ UNCHANGED <<up, held>>

---------------------------------------------------------------------------
(* The daemon stops, at any moment, and starts again. *)

Stop ==
    /\ up /\ up' = FALSE
    /\ order' = <<>>
    /\ apps' = [w \in Workspaces |-> {}]
    /\ session' = [w \in Workspaces |-> None]
    /\ held' = [q \in Requests |-> None]
    /\ UNCHANGED <<tables, meant, changes>>

(* backfillApplicationIdentities: rows of older versions have none. *)
Backfilled(x) ==
    IF service[x] = None /\ \E w \in Present(rows.order) : x \in rows.ids[w]
    THEN x ELSE service[x]

(* loadApplicationConfigs: what the tables say of an application. *)
Loaded(x) == [id |-> x, service |-> Backfilled(x), repository |-> repository[x],
              aliases |-> {y \in Names : owner[y] = x}]

LoadedApps ==
    [w \in Workspaces |->
       IF w \in Present(rows.order) THEN {Loaded(x) : x \in rows.ids[w]} ELSE {}]

Start ==
    /\ ~up /\ up' = TRUE
    /\ service' = [x \in Names |-> Backfilled(x)]
    /\ order' = rows.order /\ apps' = LoadedApps /\ session' = rows.session
    /\ meant' = [x \in Names |-> meant[x] \cup Resolved(rows.order, LoadedApps, x)]
    /\ UNCHANGED <<rows, repository, owner, held, changes>>

(* A new store, or one of a version that knew no identities. *)
Init ==
    /\ up = FALSE /\ order = <<>>
    /\ apps = [w \in Workspaces |-> {}]
    /\ session = [w \in Workspaces |-> None]
    /\ \E o \in {<<>>} \cup {<<e>> : e \in Environments}, X \in SUBSET Names :
         /\ Cardinality(X) <= MaxApps
         /\ rows = [order |-> o, session |-> session,
                    ids |-> [w \in Workspaces |-> IF w \in Present(o) THEN X ELSE {}]]
    /\ service = [x \in Names |-> None]
    /\ repository = [x \in Names |-> None]
    /\ owner = [y \in Names |-> None]
    /\ held = [q \in Requests |-> None]
    /\ meant = [x \in Names |-> {}]
    /\ changes = Cardinality(Present(rows.order))   \* what the store holds counts

Change(w) ==
    \/ \E list \in Lists : CreateWorkspace(w, list) \/ UpdateWorkspace(w, list)
    \/ DeleteWorkspace(w)
    \/ \E x, y \in Names : RegisterAlias(w, x, y)

Register(q) ==
    \/ \E w \in Environments :
         \/ \E c \in Inputs, byId \in BOOLEAN : BeginUpsert(q, w, c, byId)
         \/ \E x \in Names : BeginDelete(q, w, x)
    \/ Finish(q)

SessionChange(s) ==
    \/ \E e \in Environments : CreateRoutingSession(s, e)
    \/ \E c \in Inputs : EditSession(s, c)
    \/ \E x \in Names : RemoveFromSession(s, x)
    \/ \E pinned \in SUBSET Names : RefreshSession(s, pinned)

Next ==
    \/ \E w \in Workspaces : Change(w)
    \/ \E q \in Requests : Register(q)
    \/ \E s \in Sessions : SessionChange(s)
    \/ Stop \/ Start

Spec == Init /\ [][Next]_vars

---------------------------------------------------------------------------
Rows == [order : Seq(Workspaces), ids : [Workspaces -> SUBSET Names],
         session : [Workspaces -> Branch \cup {None}]]

(* Every variable has its type (proved in ApplicationCatalogueProofs). *)
TypeOK ==
    /\ up \in BOOLEAN
    /\ order \in Seq(Workspaces)
    /\ apps \in [Workspaces -> SUBSET Binding]
    /\ session \in [Workspaces -> Branch \cup {None}]
    /\ rows \in Rows
    /\ service \in [Names -> Services \cup {None}]
    /\ repository \in [Names -> Repositories \cup {None}]
    /\ owner \in [Names -> Names \cup {None}]
    /\ held \in [Requests -> Request \cup {None}]
    /\ meant \in [Names -> SUBSET Names]
    /\ changes \in 0 .. MaxChanges

(* "Collisions are rejected instead of selecting an arbitrary application" *)
(* (README): a reference never means two applications, not in two          *)
(* workspaces, nor at two times, whatever was removed, deleted or          *)
(* restarted in between. *)
ReferencesKeepMeaning ==
    \A x \in Names : \A a, b \in meant[x] : a = b

(* Stopping the daemon at any moment is safe: what it would load is valid, *)
(* so that mutate goes on accepting changes, and every reference that      *)
(* resolves before it resolves to the same application after it.           *)
RestartKeepsReferences ==
    LET loaded == LoadedApps
    IN  /\ \A w \in Present(rows.order) : Valid(loaded[w])
        /\ up => \A w \in Present(order), x \in Names : \A b \in Matches(apps[w], x) :
                   {d.id : d \in Matches(loaded[w], x)} = {b.id}

(* "Pinned route snapshots must not write old repository metadata back to  *)
(* an existing global identity": when sessions have an application only as *)
(* they inherited it, and some environment gives it a repository, the      *)
(* repository of the identity is one an environment gives it now.          *)
RepositoryIsCurrent ==
    up => \A x \in Names :
      LET given == {b.repository : b \in {d \in
                      UNION {apps[w] : w \in Environments \cap Present(order)} : d.id = x}}
      IN  \/ given \subseteq {None}
          \/ repository[x] \in given \ {None}
          \/ \E s \in Sessions \cap Present(order) :
               \E b \in apps[s] : b.id = x /\ \A d \in session[s].baseline : d.id # x
=============================================================================
