--------------------------- MODULE RoutingSessions ---------------------------
(***************************************************************************)
(* Worktree routing sessions: several clients edit one environment and the *)
(* sessions that branch from it.  A session is a workspace of its own with *)
(* a copy of the environment's registrations, its baseline.  A refresh     *)
(* merges three versions of each registration (baseline, session,          *)
(* environment); it is previewed, and applied with the preview's token.    *)
(*                                                                         *)
(* mutate runs one change at a time, so a change is one step; that one     *)
(* which fails has no effect is the subject of RouteTransaction.  What a   *)
(* handler or a dialog reads before its change is a step of its own.       *)
(***************************************************************************)
EXTENDS Naturals, FiniteSets

CONSTANTS
    Environment,    \* the environment's workspace
    Sessions,       \* session identifiers; each has its own host prefix
    Clients,        \* handlers, dialogs and agents
    Apps,           \* canonical application identifiers
    Metas,          \* values of the ordinary metadata (the name, ...)
    NoName,         \* metadata that was not given
    Identifier,     \* the application's identifier, given as its name
    Aliases,        \* application aliases
    Ports,          \* local ports
    Remotes,        \* default remote URLs
    Domains,        \* local domains of the environment
    NoPort,         \* no local port
    None,           \* nothing there
    Closed,         \* a session that was; identifiers are not used again
    MaxVersion      \* bound on the changes

ASSUME BoundAssumption == MaxVersion \in Nat
ASSUME ScopeAssumption ==
    /\ Environment \notin Sessions
    /\ NoPort \notin Ports
    /\ {NoName, Identifier} \subseteq Metas

Scopes == Sessions \cup {Environment}

Config == [meta : Metas, aliases : SUBSET Aliases,
           port : Ports \cup {NoPort}, active : BOOLEAN]

ASSUME NoneAssumption ==
    /\ None \notin Config
    /\ Closed # None

Registrations == [Apps -> Config \cup {None}]

Workspace == [ver : 0 .. MaxVersion, apps : Registrations,
              remote : Remotes, domain : Domains]

Baseline == [apps : Registrations, remote : Remotes]

Token == [revision : 0 .. MaxVersion, base : Baseline, apps : Registrations,
          remote : Remotes, fresh : Registrations]

Snapshot == [what : {"snapshot"}, scope : Scopes, seen : Workspace]

PreviewOf == [what : {"preview"}, scope : Sessions, token : Token,
              shown : Workspace]

ASSUME HeldAssumption ==
    /\ None \notin Workspace /\ Closed \notin Workspace
    /\ None \notin Baseline
    /\ None \notin Snapshot \cup PreviewOf

Told == [port : Ports \cup {NoPort}, active : BOOLEAN,
         meta : BOOLEAN, removed : BOOLEAN]

VARIABLES
    workspaces,     \* Registry.workspaces
    baseline,       \* RoutingSession.Baseline and BaselineRemoteURL
    nextVersion,    \* Registry.nextRouteVersion
    held,           \* what each client has read and not yet used
    told            \* history: what clients told each scope about each
                    \*   application, as far as they were answered

vars == <<workspaces, baseline, nextVersion, held, told>>

Open(s) == workspaces[s] \notin {None, Closed}

Here == workspaces[Environment]

(* Nothing was said about an application.                                   *)
Untold == [port |-> NoPort, active |-> FALSE, meta |-> FALSE, removed |-> FALSE]

TypeOK ==
    /\ workspaces \in [Scopes -> Workspace \cup {None, Closed}]
    /\ Open(Environment)
    /\ baseline \in [Sessions -> Baseline \cup {None}]
    /\ \A s \in Sessions : Open(s) => baseline[s] # None
    /\ nextVersion \in 0 .. MaxVersion
    /\ \A s \in Scopes : Open(s) => workspaces[s].ver <= nextVersion
    /\ held \in [Clients -> Snapshot \cup PreviewOf \cup {None}]
    /\ told \in [Scopes -> [Apps -> Told]]

(* A registration as a new environment has it: remote, and without a port.  *)
Plain(m) == [meta |-> m, aliases |-> {}, port |-> NoPort, active |-> FALSE]

Init ==
    /\ \E regs \in [Apps -> {Plain(m) : m \in Metas} \cup {None}],
          r \in Remotes, d \in Domains :
        workspaces =
            [s \in Scopes |->
                IF s = Environment
                THEN [ver |-> 0, apps |-> regs, remote |-> r, domain |-> d]
                ELSE None]
    /\ baseline = [s \in Sessions |-> None]
    /\ nextVersion = 0
    /\ held = [c \in Clients |-> None]
    /\ told = [s \in Scopes |-> [a \in Apps |-> Untold]]

----------------------------------------------------------------------------
(* Saving registrations.                                                    *)

(* Mutant: the mode is the one that the caller sent.                        *)
StoredAsSent(new, old) ==
    [a \in Apps |->
        IF new[a] # None /\ old[a] # None
        THEN [new[a] EXCEPT !.aliases = IF @ = {} THEN old[a].aliases ELSE @]
        ELSE new[a]]

(* What applicationsFromConfigs keeps of the registration it replaces: its  *)
(* mode, and metadata that the new one leaves empty (the aliases stand for  *)
(* those fields).                                                           *)
Stored(new, old) ==
    [a \in Apps |->
        IF new[a] # None /\ old[a] # None
        THEN [new[a] EXCEPT
                !.aliases = IF @ = {} THEN old[a].aliases ELSE @,
                !.active = old[a].active]
        ELSE new[a]]

(* An alias names one application of a workspace.                           *)
Valid(apps) ==
    \A a, b \in Apps :
        a # b /\ apps[a] # None /\ apps[b] # None
            => apps[a].aliases \cap apps[b].aliases = {}

(* Mutant: the version is given out and not counted.                        *)
CommitUncounted(s, w) ==
    /\ nextVersion < MaxVersion
    /\ Valid(w.apps)
    /\ workspaces' = [workspaces EXCEPT ![s] = [w EXCEPT !.ver = nextVersion + 1]]
    /\ UNCHANGED nextVersion

(* One successful mutation of scope s: the candidate w, with a new version. *)
Commit(s, w) ==
    /\ nextVersion < MaxVersion
    /\ Valid(w.apps)
    /\ nextVersion' = nextVersion + 1
    /\ workspaces' = [workspaces EXCEPT ![s] = [w EXCEPT !.ver = nextVersion + 1]]

----------------------------------------------------------------------------
(* Refresh.                                                                 *)

(* A baseline has no local routing: the environment's ports and toggles     *)
(* stay its own.                                                            *)
Inherited(apps) ==
    [a \in Apps |->
        IF apps[a] = None THEN None
        ELSE [apps[a] EXCEPT !.port = NoPort, !.active = FALSE]]

Fresh == Inherited(Here.apps)

(* Metadata that the session has as the baseline had it follows the         *)
(* environment; port and mode are the session's.  DeepEqual never finds two *)
(* empty lists of aliases equal: the copied baseline's is nil, the          *)
(* session's is not.                                                        *)
MergedFields(cur, old, new) ==
    [cur EXCEPT
        !.meta = IF @ = old.meta THEN new.meta ELSE @,
        !.aliases = IF @ # {} /\ @ = old.aliases THEN new.aliases ELSE @]

(* Mutant: an application that the session removed is taken for a new one.  *)
MergedAppAgain(cur, old, new) ==
    CASE cur = None -> new
      [] cur # None /\ old = None -> cur
      [] cur # None /\ old # None /\ new = None ->
            IF cur = old THEN None ELSE cur
      [] OTHER -> MergedFields(cur, old, new)

(* The merge of one application.                                            *)
MergedApp(cur, old, new) ==
    CASE cur = None -> IF old = None THEN new ELSE None
      [] cur # None /\ old = None -> cur
      [] cur # None /\ old # None /\ new = None ->
            IF cur = old THEN None ELSE cur
      [] OTHER -> MergedFields(cur, old, new)

(* The session and the environment disagree about whether it is there.      *)
Conflict(cur, old, new) ==
    /\ cur # None
    /\ \/ old = None /\ new # None
       \/ old # None /\ new = None /\ cur # old

MergedApps(s) ==
    [a \in Apps |->
        MergedApp(workspaces[s].apps[a], baseline[s].apps[a], Fresh[a])]

(* The workspace that refreshing session s leads to.                        *)
Refreshed(s) ==
    [ver |-> workspaces[s].ver,
     apps |-> Stored(MergedApps(s), workspaces[s].apps),
     remote |-> IF workspaces[s].remote = baseline[s].remote
                THEN Here.remote ELSE workspaces[s].remote,
     domain |-> Here.domain]

NoConflicts(s) ==
    /\ \A a \in Apps :
        ~ Conflict(workspaces[s].apps[a], baseline[s].apps[a], Fresh[a])
    /\ Valid(Refreshed(s).apps)

(* Mutant: the digest covers the session's side only.                       *)
TokenOfSession(s) ==
    [revision |-> workspaces[s].ver, base |-> baseline[s],
     apps |-> workspaces[s].apps, remote |-> baseline[s].remote,
     fresh |-> baseline[s].apps]

(* The digest of what the merge reads.                                      *)
TokenOf(s) ==
    [revision |-> workspaces[s].ver, base |-> baseline[s],
     apps |-> workspaces[s].apps, remote |-> Here.remote, fresh |-> Fresh]

(* Mutant: a refresh leaves the old baseline.                               *)
NewBaselineOld(s) ==
    IF baseline[s] = None THEN [apps |-> Fresh, remote |-> Here.remote]
    ELSE baseline[s]

(* The baseline from the environment as it is.                              *)
NewBaseline(s) == [apps |-> Fresh, remote |-> Here.remote]

----------------------------------------------------------------------------
(* The life of a session.                                                   *)

CreateSession(s) ==
    /\ workspaces[s] = None
    /\ Commit(s, [ver |-> 0, apps |-> Fresh,
                  remote |-> Here.remote, domain |-> Here.domain])
    /\ baseline' = [baseline EXCEPT ![s] = NewBaseline(s)]
    /\ UNCHANGED <<held, told>>

CloseSession(s) ==
    /\ Open(s)
    /\ workspaces' = [workspaces EXCEPT ![s] = Closed]
    /\ baseline' = [baseline EXCEPT ![s] = None]
    /\ told' = [told EXCEPT ![s] = [a \in Apps |-> Untold]]
    /\ UNCHANGED <<nextVersion, held>>

(* What a preview shows is computed from one snapshot, without the lock.    *)
Preview(c, s) ==
    /\ Open(s)
    /\ held' = [held EXCEPT ![c] =
                    [what |-> "preview", scope |-> s, token |-> TokenOf(s),
                     shown |-> Refreshed(s)]]
    /\ UNCHANGED <<workspaces, baseline, nextVersion, told>>

(* A registration that goes, or a removal that the new baseline does not    *)
(* know, is forgotten.                                                      *)
ToldAfterRefresh(s) ==
    [a \in Apps |->
        [told[s][a] EXCEPT !.meta = @ /\ Refreshed(s).apps[a] # None,
                           !.removed = @ /\ Fresh[a] # None]]

ApplyRefresh(c) ==
    /\ held[c] # None
    /\ held[c].what = "preview"
    /\ LET s == held[c].scope
       IN  /\ Open(s)
           /\ held[c].token = TokenOf(s)
           /\ NoConflicts(s)
           /\ Commit(s, Refreshed(s))
           /\ baseline' = [baseline EXCEPT ![s] = NewBaseline(s)]
           /\ told' = [told EXCEPT ![s] = ToldAfterRefresh(s)]
    /\ held' = [held EXCEPT ![c] = None]

----------------------------------------------------------------------------
(* Registrations in a session: the edit is composed under the lock.  Only   *)
(* the fields that the caller gives change.                                 *)

Edited(old, meta, aliases, port) ==
    IF old = None
    THEN [meta |-> meta, aliases |-> aliases, port |-> port, active |-> FALSE]
    ELSE [meta |-> IF meta = NoName THEN old.meta ELSE meta,
          aliases |-> IF aliases = {} THEN old.aliases ELSE aliases,
          port |-> IF port = NoPort THEN old.port ELSE port,
          active |-> old.active]

EditSessionApplication(s, a, meta, aliases, port) ==
    LET w == workspaces[s]
        new == Edited(w.apps[a], meta, aliases, port)
    IN  /\ Open(s)
        /\ Commit(s, [w EXCEPT !.apps =
                        Stored([@ EXCEPT ![a] = new], @)])
        /\ told' = [told EXCEPT ![s][a] =
                        [port |-> IF port = NoPort THEN @.port ELSE port,
                         active |-> @.active,
                         meta |-> \/ @.meta
                                  \/ w.apps[a] = None
                                  \/ new.meta # w.apps[a].meta,
                         removed |-> FALSE]]
        /\ UNCHANGED <<baseline, held>>

RemoveSessionApplication(s, a) ==
    LET w == workspaces[s]
    IN  /\ Open(s)
        /\ w.apps[a] # None
        /\ Commit(s, [w EXCEPT !.apps[a] = None])
        /\ told' = [told EXCEPT ![s][a] =
                        [Untold EXCEPT !.removed = baseline[s].apps[a] # None]]
        /\ UNCHANGED <<baseline, held>>

----------------------------------------------------------------------------
(* Changes of any scope.                                                    *)

(* Mutant: a toggle keeps the version.                                      *)
ToggleUncounted(s, a) ==
    /\ Open(s)
    /\ workspaces[s].apps[a] # None
    /\ workspaces' = [workspaces EXCEPT ![s].apps[a].active = ~@]
    /\ told' = [told EXCEPT ![s][a].active = ~@]
    /\ UNCHANGED <<baseline, nextVersion, held>>

Toggle(s, a) ==
    /\ Open(s)
    /\ workspaces[s].apps[a] # None
    /\ Commit(s, [workspaces[s] EXCEPT !.apps[a].active = ~@])
    /\ told' = [told EXCEPT ![s][a].active = ~@]
    /\ UNCHANGED <<baseline, held>>

(* An alias goes to every binding of the application, in all scopes; the    *)
(* version of the requested scope alone is new.                             *)
WithAlias(w, a, alias) ==
    IF w.apps[a] = None THEN w
    ELSE [w EXCEPT !.apps[a].aliases = @ \cup {alias}]

RegisterAlias(s, a, alias) ==
    /\ Open(s)
    /\ workspaces[s].apps[a] # None
    /\ \A t \in Scopes, b \in Apps \ {a} :
        Open(t) /\ workspaces[t].apps[b] # None
            => alias \notin workspaces[t].apps[b].aliases
    /\ nextVersion < MaxVersion
    /\ nextVersion' = nextVersion + 1
    /\ workspaces' =
        [t \in Scopes |->
            IF ~ Open(t) THEN workspaces[t]
            ELSE IF t = s
            THEN [WithAlias(workspaces[t], a, alias) EXCEPT !.ver = nextVersion + 1]
            ELSE WithAlias(workspaces[t], a, alias)]
    /\ UNCHANGED <<baseline, held, told>>

(* A handler, or a settings dialog, reads a workspace.                      *)
Read(c, s) ==
    /\ Open(s)
    /\ held' = [held EXCEPT ![c] =
                    [what |-> "snapshot", scope |-> s, seen |-> workspaces[s]]]
    /\ UNCHANGED <<workspaces, baseline, nextVersion, told>>

HasRead(c, s) ==
    /\ held[c] # None
    /\ held[c].what = "snapshot"
    /\ held[c].scope = s

(* What clients are shown of metadata: the identifier for a missing name.   *)
ShownMeta(m) == IF m = NoName THEN Identifier ELSE m

(* What a client sends back of what it was shown: everything but the mode.  *)
SentBack(apps) ==
    [a \in Apps |->
        IF apps[a] = None THEN None
        ELSE [apps[a] EXCEPT !.meta = ShownMeta(@), !.active = FALSE]]

(* A session is told, meant or not, the name that it lacks; and no more.    *)
ToldAfterSave(s) ==
    [a \in Apps |->
        [told[s][a] EXCEPT
            !.meta = @ \/ /\ s \in Sessions
                          /\ workspaces[s].apps[a] # None
                          /\ workspaces[s].apps[a].meta = NoName]]

(* Mutant: the settings are saved over any version.                         *)
SaveSettingsUnchecked(c, s, remote, domain) ==
    /\ HasRead(c, s)
    /\ Open(s)
    /\ Commit(s, [workspaces[s] EXCEPT
                    !.apps = Stored(SentBack(held[c].seen.apps), @),
                    !.remote = remote, !.domain = domain])
    /\ told' = [told EXCEPT ![s] = ToldAfterSave(s)]
    /\ held' = [held EXCEPT ![c] = None]
    /\ UNCHANGED baseline

(* A client saves the settings of the workspace that it read: a remote URL  *)
(* and a domain, with the registrations as they were shown, unless the      *)
(* version has changed.  The console does so for environments; the RPC      *)
(* takes sessions too.                                                      *)
SaveSettings(c, s, remote, domain) ==
    /\ HasRead(c, s)
    /\ Open(s)
    /\ held[c].seen.ver = workspaces[s].ver
    /\ Commit(s, [workspaces[s] EXCEPT
                    !.apps = Stored(SentBack(held[c].seen.apps), @),
                    !.remote = remote, !.domain = domain])
    /\ told' = [told EXCEPT ![s] = ToldAfterSave(s)]
    /\ held' = [held EXCEPT ![c] = None]
    /\ UNCHANGED baseline

(* Registrations in the environment: the handler composes the new list from *)
(* what it read without the lock, and no version is compared.               *)
SaveRegistrations(c, apps) ==
    /\ HasRead(c, Environment)
    /\ Commit(Environment, [Here EXCEPT
                    !.apps = Stored(apps, @),
                    !.remote = held[c].seen.remote,
                    !.domain = held[c].seen.domain])
    /\ held' = [held EXCEPT ![c] = None]
    /\ UNCHANGED baseline

UpsertApplication(c, a, meta, aliases, port) ==
    /\ HasRead(c, Environment)
    /\ LET old == held[c].seen.apps[a]
           new == [meta |-> meta, aliases |-> aliases, port |-> port,
                   active |-> old # None /\ old.active]
       IN  SaveRegistrations(c, [held[c].seen.apps EXCEPT ![a] = new])
    /\ told' = [told EXCEPT ![Environment][a].port = port]

DeleteApplication(c, a) ==
    /\ HasRead(c, Environment)
    /\ held[c].seen.apps[a] # None
    /\ SaveRegistrations(c, [held[c].seen.apps EXCEPT ![a] = None])
    /\ told' = [told EXCEPT ![Environment][a] = Untold]

----------------------------------------------------------------------------
Refreshing(c) ==
    \/ ApplyRefresh(c)
    \/ \E s \in Sessions : Preview(c, s)

EditingSession(s) ==
    \/ CreateSession(s)
    \/ CloseSession(s)
    \/ \E a \in Apps, meta \in Metas, aliases \in SUBSET Aliases,
          port \in Ports \cup {NoPort} :
            EditSessionApplication(s, a, meta, aliases, port)
    \/ \E a \in Apps : RemoveSessionApplication(s, a)

EditingScope(s) ==
    \/ \E a \in Apps : Toggle(s, a)
    \/ \E a \in Apps, alias \in Aliases : RegisterAlias(s, a, alias)
    \/ \E c \in Clients : Read(c, s)
    \/ \E c \in Clients, remote \in Remotes, domain \in Domains :
            SaveSettings(c, s, remote, domain)

EditingEnvironment(c) ==
    \/ \E a \in Apps, meta \in Metas, aliases \in SUBSET Aliases,
          port \in Ports \cup {NoPort} :
            UpsertApplication(c, a, meta, aliases, port)
    \/ \E a \in Apps : DeleteApplication(c, a)

Next ==
    \/ \E c \in Clients : Refreshing(c) \/ EditingEnvironment(c)
    \/ \E s \in Sessions : EditingSession(s)
    \/ \E s \in Scopes : EditingScope(s)

Spec == Init /\ [][Next]_vars

----------------------------------------------------------------------------
(* Properties.                                                              *)

RoutingIsTold(s) ==
    Open(s) =>
        \A a \in Apps :
            LET cur == workspaces[s].apps[a]
            IN  IF cur = None
                THEN told[s][a].port = NoPort /\ ~ told[s][a].active
                ELSE cur.port = told[s][a].port /\ cur.active = told[s][a].active

(* A session routes locally what its clients registered and toggled there,  *)
(* no more and no less: neither the environment's ports and toggles nor a   *)
(* refresh nor a dialog that was opened earlier changes that or drops a     *)
(* registration (sessionBaseline, refreshSession, EditSessionApplication).  *)
LocalRoutingIsOwn == \A s \in Sessions : RoutingIsTold(s)

(* Metadata is the baseline's, after any sequence of edits, saves and       *)
(* refreshes, unless a client edited it in the session, or saved the        *)
(* session's settings while the name was missing; so the next refresh finds *)
(* it unchanged and updates it (the merge of refreshSession, the version    *)
(* check of UpdateWorkspaceApplicationsAtVersion).                          *)
UntouchedIsInherited ==
    \A s \in Sessions :
        Open(s) =>
            \A a \in Apps :
                LET cur == workspaces[s].apps[a]
                    old == baseline[s].apps[a]
                IN  cur # None /\ ~ told[s][a].meta
                        => old # None /\ cur.meta = old.meta

(* An application that a client removed from the session stays away while   *)
(* the environment has it ("preserve session deletions", refreshSession).   *)
RemovalsKept ==
    \A s \in Sessions, a \in Apps :
        Open(s) /\ told[s][a].removed => workspaces[s].apps[a] = None

(* A version stands for one state of a workspace, aliases apart, so that    *)
(* the check of a settings dialog notices every other change                *)
(* (UpdateWorkspaceApplicationsAtVersion).                                  *)
WithoutAliases(w) ==
    [w EXCEPT !.apps = [a \in Apps |->
        IF @[a] = None THEN None ELSE [@[a] EXCEPT !.aliases = {}]]]

VersionIdentifiesState ==
    \A c \in Clients :
        held[c] # None /\ held[c].what = "snapshot" =>
            LET w == workspaces[held[c].scope]
            IN  Open(held[c].scope) /\ held[c].seen.ver = w.ver
                    => WithoutAliases(held[c].seen) = WithoutAliases(w)

(* The registrations and the remote URL that are applied are those that     *)
(* the preview showed, whatever other clients did in between (the token of  *)
(* SessionRefresh).                                                         *)
ApplyIsPreviewed ==
    [][\A c \in Clients :
        ApplyRefresh(c) =>
            LET shown == held[c].shown
                now == workspaces'[held[c].scope]
            IN  now.apps = shown.apps /\ now.remote = shown.remote]_vars

(* A refresh is complete: until somebody edits, the next one has nothing to *)
(* change and no conflict (RefreshRoutingSession).                          *)
UpToDate(s) ==
    /\ Refreshed(s) = workspaces[s]
    /\ NoConflicts(s)

RefreshSettles ==
    [][\A c \in Clients, s \in Sessions :
        ApplyRefresh(c) /\ held[c].scope = s => UpToDate(s)']_vars

(* Four properties that the code does not have.                             *)

(* "SessionRefresh describes exactly what a preview will apply": the host   *)
(* too (refreshSession).  False: the token does not cover the local domain  *)
(* of the environment, from which the session's host is made.               *)
PreviewIsExact ==
    [][\A c \in Clients :
        ApplyRefresh(c) =>
            workspaces'[held[c].scope].domain = held[c].shown.domain]_vars

(* "An explicit refresh previews remote metadata changes and preserves      *)
(* session overrides": aliases that a session has as its baseline has them  *)
(* are the environment's after a refresh (refreshSession).  False for an    *)
(* application without aliases: the merge compares an empty list with nil.  *)
AliasesAreRefreshed ==
    [][\A c \in Clients, a \in Apps :
        ApplyRefresh(c) =>
            LET s == held[c].scope
                cur == workspaces[s].apps[a]
                old == baseline[s].apps[a]
            IN  /\ cur # None /\ old # None /\ Fresh[a] # None
                /\ cur.aliases = old.aliases
                => workspaces'[s].apps[a].aliases = Fresh[a].aliases]_vars

(* Who saves the settings of a session changes its remote URL and its       *)
(* domain, and no application's metadata (UpdateWorkspace).  False: a       *)
(* missing name is shown as the identifier, is sent back and stored as a    *)
(* name, and the next refresh takes it for an override.                     *)
SettingsLeaveMetadata ==
    [][\A c \in Clients, s \in Sessions, remote \in Remotes, domain \in Domains :
        SaveSettings(c, s, remote, domain) =>
            \A a \in Apps :
                workspaces[s].apps[a] # None =>
                    workspaces'[s].apps[a].meta = workspaces[s].apps[a].meta]_vars

(* A registration that the environment's clients were answered for is       *)
(* there, with the port they gave (UpsertApplication, DeleteApplication).   *)
(* False: two registrations can compose their lists from the same reading.  *)
RegistrationsAreKept == RoutingIsTold(Environment)
==============================================================================
