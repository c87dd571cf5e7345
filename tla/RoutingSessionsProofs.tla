------------------------ MODULE RoutingSessionsProofs ------------------------
(***************************************************************************)
(* Worktree sessions, proved for any number of sessions, clients,           *)
(* applications and changes: local routing, overrides and removals survive  *)
(* every interleaving of edits and refreshes.                               *)
(***************************************************************************)
EXTENDS RoutingSessions, TLAPS

----------------------------------------------------------------------------
(* The inductive invariant.                                                 *)

(* One application of an open session: its registration, its baseline and   *)
(* what clients told the session about it.                                  *)
AppInv(cur, old, t) ==
    /\ cur = None => t.port = NoPort /\ ~ t.active
    /\ cur # None => cur.port = t.port /\ cur.active = t.active
    /\ cur # None /\ ~ t.meta => old # None /\ cur.meta = old.meta
    /\ t.removed => cur = None /\ old # None
    /\ old # None => old.port = NoPort /\ ~ old.active

SessionInv(s) ==
    /\ ~ Open(s) => told[s] = [a \in Apps |-> Untold]
    /\ Open(s) =>
        \A a \in Apps :
            AppInv(workspaces[s].apps[a], baseline[s].apps[a], told[s][a])

(* What a client holds is not newer than the counter.                       *)
VersionsBelow ==
    \A c \in Clients :
        held[c] # None /\ held[c].what = "snapshot"
            => held[c].seen.ver <= nextVersion

(* The registrations of the merge that token t stands for.                  *)
MergedFrom(t) ==
    Stored([a \in Apps |-> MergedApp(t.apps[a], t.base.apps[a], t.fresh[a])],
           t.apps)

(* Its remote URL, for a session whose remote URL is remote: the token      *)
(* covers that one by the session's version alone.                          *)
RemoteFrom(t, remote) == IF remote = t.base.remote THEN t.remote ELSE remote

(* Preview p shows what its token stands for while the version is the same. *)
PreviewTells(p) ==
    /\ p.token.revision <= nextVersion
    /\ p.shown.apps = MergedFrom(p.token)
    /\ Open(p.scope) /\ workspaces[p.scope].ver = p.token.revision
        => p.shown.remote = RemoteFrom(p.token, workspaces[p.scope].remote)

PreviewsTell ==
    \A c \in Clients :
        held[c] # None /\ held[c].what = "preview" => PreviewTells(held[c])

IInv ==
    /\ TypeOK
    /\ \A s \in Sessions : SessionInv(s)
    /\ VersionIdentifiesState
    /\ VersionsBelow
    /\ PreviewsTell

----------------------------------------------------------------------------
(* The operators on registrations.                                          *)

LEMMA StoredFields ==
    ASSUME NEW new \in Registrations, NEW old \in Registrations
    PROVE  /\ Stored(new, old) \in Registrations
           /\ \A a \in Apps :
                /\ Stored(new, old)[a] = None <=> new[a] = None
                /\ new[a] # None =>
                    /\ Stored(new, old)[a] \in Config
                    /\ Stored(new, old)[a].meta = new[a].meta
                    /\ Stored(new, old)[a].port = new[a].port
                    /\ Stored(new, old)[a].active =
                        IF old[a] # None THEN old[a].active ELSE new[a].active
BY NoneAssumption DEF Stored, Registrations, Config

LEMMA InheritedFields ==
    ASSUME NEW apps \in Registrations
    PROVE  /\ Inherited(apps) \in Registrations
           /\ \A a \in Apps :
                Inherited(apps)[a] # None =>
                    Inherited(apps)[a].port = NoPort /\ ~ Inherited(apps)[a].active
BY NoneAssumption DEF Inherited, Registrations, Config

LEMMA MergedAppType ==
    ASSUME NEW cur \in Config \cup {None}, NEW old \in Config \cup {None},
           NEW new \in Config \cup {None}
    PROVE  MergedApp(cur, old, new) \in Config \cup {None}
BY DEF MergedApp, MergedFields, Config

(* The merge keeps what AppInv says, for the registration that is stored    *)
(* and the new baseline.                                                    *)
LEMMA MergeKeeps ==
    ASSUME NEW cur \in Config \cup {None}, NEW old \in Config \cup {None},
           NEW new \in Config \cup {None}, NEW t \in Told,
           NEW stored \in Config \cup {None},
           AppInv(cur, old, t),
           ~ Conflict(cur, old, new),
           new # None => new.port = NoPort /\ ~ new.active,
           stored = None <=> MergedApp(cur, old, new) = None,
           stored # None =>
                /\ stored.meta = MergedApp(cur, old, new).meta
                /\ stored.port = MergedApp(cur, old, new).port
                /\ stored.active = IF cur # None THEN cur.active
                                   ELSE MergedApp(cur, old, new).active
    PROVE  AppInv(stored, new, [t EXCEPT !.meta = @ /\ stored # None,
                                         !.removed = @ /\ new # None])
<1> DEFINE tt == [t EXCEPT !.meta = @ /\ stored # None,
                           !.removed = @ /\ new # None]
           m == MergedApp(cur, old, new)
<1>1. /\ tt.port = t.port /\ tt.active = t.active
      /\ tt.meta = (t.meta /\ stored # None)
      /\ tt.removed = (t.removed /\ new # None)
  BY DEF Told
<1>2. /\ t.active \in BOOLEAN /\ t.meta \in BOOLEAN /\ t.removed \in BOOLEAN
      /\ \A x \in {cur, old, new, stored} : x # None => x.active \in BOOLEAN
  BY DEF Told, Config
<1> SUFFICES AppInv(stored, new, tt) OBVIOUS
<1> HIDE DEF tt
<1>3. CASE cur = None
  BY <1>1, <1>2, <1>3, NoneAssumption DEF AppInv, MergedApp, Conflict
<1>4. CASE cur # None /\ old = None
  BY <1>1, <1>2, <1>4 DEF AppInv, MergedApp, Conflict
<1>5. CASE cur # None /\ old # None /\ new = None
  BY <1>1, <1>2, <1>5 DEF AppInv, MergedApp, Conflict
<1>6. CASE cur # None /\ old # None /\ new # None
  <2>1. m = MergedFields(cur, old, new)
    BY <1>6 DEF MergedApp
  <2>2. /\ MergedFields(cur, old, new) \in Config
        /\ MergedFields(cur, old, new).port = cur.port
        /\ MergedFields(cur, old, new).meta =
            IF cur.meta = old.meta THEN new.meta ELSE cur.meta
    BY <1>6 DEF MergedFields, Config
  <2> QED BY <1>1, <1>2, <1>6, <2>1, <2>2, NoneAssumption DEF AppInv
<1> QED BY <1>3, <1>4, <1>5, <1>6

----------------------------------------------------------------------------
(* What every successful mutation does.                                     *)

LEMMA CommitFacts ==
    ASSUME TypeOK, NEW s \in Scopes, NEW w \in Workspace, Commit(s, w)
    PROVE  /\ nextVersion' = nextVersion + 1
           /\ nextVersion' \in 0 .. MaxVersion
           /\ workspaces' \in [Scopes -> Workspace \cup {None, Closed}]
           /\ workspaces'[s] = [w EXCEPT !.ver = nextVersion + 1]
           /\ workspaces'[s].ver = nextVersion + 1
           /\ workspaces'[s].apps = w.apps
           /\ workspaces'[s] \notin {None, Closed}
           /\ \A t \in Scopes \ {s} : workspaces'[t] = workspaces[t]
<1> DEFINE new == [w EXCEPT !.ver = nextVersion + 1]
<1>1. nextVersion \in Nat /\ nextVersion + 1 \in 0 .. MaxVersion
  BY BoundAssumption DEF TypeOK, Commit
<1>2. new \in Workspace /\ new.ver = nextVersion + 1 /\ new.apps = w.apps
  BY <1>1 DEF Workspace
<1>3. new \notin {None, Closed} BY <1>2, HeldAssumption
<1> HIDE DEF new
<1>4. /\ nextVersion' = nextVersion + 1
      /\ workspaces' = [workspaces EXCEPT ![s] = new]
  BY DEF Commit, new
<1>5. workspaces \in [Scopes -> Workspace \cup {None, Closed}] BY DEF TypeOK
<1> QED BY <1>1, <1>2, <1>3, <1>4, <1>5 DEF new

(* The part of TypeOK that a commit preserves.                              *)
LEMMA CommitType ==
    ASSUME TypeOK, NEW s \in Scopes, NEW w \in Workspace, Commit(s, w),
           baseline' \in [Sessions -> Baseline \cup {None}],
           \A t \in Sessions : Open(t)' => baseline'[t] # None,
           held' \in [Clients -> Snapshot \cup PreviewOf \cup {None}],
           told' \in [Scopes -> [Apps -> Told]]
    PROVE  TypeOK'
<1>1. /\ nextVersion' = nextVersion + 1
      /\ workspaces'[s].ver = nextVersion + 1
      /\ workspaces'[s] \notin {None, Closed}
      /\ \A t \in Scopes \ {s} : workspaces'[t] = workspaces[t]
      /\ nextVersion' \in 0 .. MaxVersion
      /\ workspaces' \in [Scopes -> Workspace \cup {None, Closed}]
  BY CommitFacts
<1>2. Environment \in Scopes /\ Open(Environment) BY DEF TypeOK, Scopes
<1>3. Open(Environment)' BY <1>1, <1>2 DEF Open
<1>4. nextVersion \in Nat BY DEF TypeOK
<1>5. ASSUME NEW t \in Scopes, Open(t)'
      PROVE  workspaces'[t].ver <= nextVersion'
  <2>1. CASE t = s BY <1>1, <1>4, <2>1
  <2>2. CASE t # s
    <3>1. workspaces'[t] = workspaces[t] BY <1>1, <2>2
    <3>2. Open(t) BY <1>5, <3>1 DEF Open
    <3>3. workspaces[t] \in Workspace /\ workspaces[t].ver <= nextVersion
      BY <3>2 DEF TypeOK, Open
    <3>4. workspaces[t].ver \in Nat BY <3>3 DEF Workspace
    <3> QED BY <1>1, <1>4, <3>1, <3>3, <3>4
  <2> QED BY <2>1, <2>2
<1> QED BY <1>1, <1>3, <1>5 DEF TypeOK

(* A version that is new keeps versions telling: what clients hold is below *)
(* it, and what keeps its version keeps its state, aliases apart.           *)
LEMMA VersionsStep ==
    ASSUME TypeOK, TypeOK', VersionIdentifiesState, VersionsBelow, PreviewsTell,
           nextVersion' >= nextVersion,
           \A t \in Scopes :
                Open(t)' =>
                    \/ workspaces'[t].ver > nextVersion
                    \/ /\ Open(t)
                       /\ workspaces'[t].ver = workspaces[t].ver
                       /\ WithoutAliases(workspaces'[t]) =
                            WithoutAliases(workspaces[t]),
           \A c \in Clients :
                \/ held'[c] = held[c]
                \/ held'[c] = None
                \/ /\ UNCHANGED <<workspaces, nextVersion>>
                   /\ held'[c].what = "preview"
                   /\ PreviewTells(held'[c])
                \/ /\ UNCHANGED workspaces
                   /\ held'[c].what = "snapshot"
                   /\ Open(held'[c].scope)
                   /\ held'[c].seen = workspaces[held'[c].scope]
    PROVE  VersionIdentifiesState' /\ VersionsBelow' /\ PreviewsTell'
<1>1. nextVersion \in Nat /\ nextVersion' \in Nat BY DEF TypeOK
<1> DEFINE scope(c) == held'[c].scope
           seen(c) == held'[c].seen
           after(c) == workspaces'[scope(c)]
<1>2. ASSUME NEW c \in Clients, held'[c] # None, held'[c].what = "snapshot"
      PROVE  /\ seen(c).ver <= nextVersion'
             /\ after(c) \notin {None, Closed} /\ seen(c).ver = after(c).ver
                    => WithoutAliases(seen(c)) = WithoutAliases(after(c))
  <2>1. held'[c] \in Snapshot BY <1>2 DEF TypeOK, PreviewOf
  <2>2. scope(c) \in Scopes /\ seen(c) \in Workspace BY <2>1 DEF Snapshot
  <2>3. seen(c).ver \in Nat BY <2>2 DEF Workspace
  <2>4. CASE held'[c] = held[c]
    <3>1. seen(c).ver <= nextVersion BY <1>2, <2>4 DEF VersionsBelow
    <3>2. ASSUME after(c) \notin {None, Closed}, seen(c).ver = after(c).ver
          PROVE  WithoutAliases(seen(c)) = WithoutAliases(after(c))
      <4>1. ~ (after(c).ver > nextVersion) BY <1>1, <2>3, <3>1, <3>2
      <4>2. /\ Open(scope(c))
            /\ after(c).ver = workspaces[scope(c)].ver
            /\ WithoutAliases(after(c)) = WithoutAliases(workspaces[scope(c)])
        BY <2>2, <3>2, <4>1 DEF Open
      <4>3. WithoutAliases(seen(c)) = WithoutAliases(workspaces[scope(c)])
        BY <1>2, <2>4, <3>2, <4>2 DEF VersionIdentifiesState
      <4> QED BY <4>2, <4>3
    <3> QED BY <1>1, <2>3, <3>1, <3>2
  <2>5. CASE /\ UNCHANGED workspaces
             /\ Open(scope(c))
             /\ seen(c) = workspaces[scope(c)]
    <3>1. seen(c).ver <= nextVersion BY <2>2, <2>5 DEF TypeOK
    <3> QED BY <1>1, <2>3, <2>5, <3>1
  <2> QED BY <1>2, <2>4, <2>5
<1>3. VersionsBelow' BY <1>2 DEF VersionsBelow
<1>4. VersionIdentifiesState' BY <1>2 DEF VersionIdentifiesState, Open
<1>5. \A t \in Scopes :
        Open(t)' /\ ~ (workspaces'[t].ver > nextVersion) =>
            /\ Open(t)
            /\ workspaces'[t].ver = workspaces[t].ver
            /\ workspaces'[t].remote = workspaces[t].remote
  <2> SUFFICES ASSUME NEW t \in Scopes, Open(t)',
                      ~ (workspaces'[t].ver > nextVersion)
               PROVE  /\ Open(t)
                      /\ workspaces'[t].ver = workspaces[t].ver
                      /\ workspaces'[t].remote = workspaces[t].remote
    OBVIOUS
  <2>1. /\ Open(t)
        /\ workspaces'[t].ver = workspaces[t].ver
        /\ WithoutAliases(workspaces'[t]) = WithoutAliases(workspaces[t])
    OBVIOUS
  <2>2. workspaces[t] \in Workspace /\ workspaces'[t] \in Workspace
    BY <2>1 DEF TypeOK, Open
  <2>3. \A w \in Workspace : WithoutAliases(w).remote = w.remote
    BY DEF WithoutAliases, Workspace
  <2> QED BY <2>1, <2>2, <2>3
<1>6. ASSUME NEW c \in Clients, held'[c] # None, held'[c].what = "preview"
      PROVE  PreviewTells(held[c])'
  <2>1. held'[c] \in PreviewOf BY <1>6 DEF TypeOK, Snapshot
  <2>2. /\ held'[c].scope \in Scopes
        /\ held'[c].token.revision \in Nat
    BY <2>1 DEF PreviewOf, Token, Scopes
  <2>3. CASE held'[c] = held[c]
    <3>1. PreviewTells(held[c]) BY <1>6, <2>3 DEF PreviewsTell
    <3> QED BY <1>1, <1>5, <2>2, <2>3, <3>1 DEF PreviewTells, Open, MergedFrom
  <2>4. CASE UNCHANGED <<workspaces, nextVersion>> /\ PreviewTells(held'[c])
    BY <2>4 DEF PreviewTells, Open, MergedFrom
  <2> QED BY <1>6, <2>3, <2>4
<1>7. PreviewsTell' BY <1>6 DEF PreviewsTell
<1> QED BY <1>3, <1>4, <1>7

(* A mutation of one scope keeps the invariant when the candidate, the      *)
(* baseline and what was told fit together there.                           *)
LEMMA CommitStep ==
    ASSUME IInv, NEW s \in Scopes, NEW w \in Workspace, Commit(s, w),
           baseline' \in [Sessions -> Baseline \cup {None}],
           held' \in [Clients -> Snapshot \cup PreviewOf \cup {None}],
           told' \in [Scopes -> [Apps -> Told]],
           \A t \in Sessions \ {s} :
                baseline'[t] = baseline[t] /\ told'[t] = told[t],
           s \in Sessions =>
                /\ baseline'[s] # None
                /\ \A a \in Apps :
                    AppInv(w.apps[a], baseline'[s].apps[a], told'[s][a]),
           \A c \in Clients : held'[c] = held[c] \/ held'[c] = None
    PROVE  IInv'
<1>1. TypeOK BY DEF IInv
<1>2. /\ nextVersion' = nextVersion + 1
      /\ workspaces'[s].ver = nextVersion + 1
      /\ workspaces'[s].apps = w.apps
      /\ workspaces'[s] \notin {None, Closed}
      /\ \A t \in Scopes \ {s} : workspaces'[t] = workspaces[t]
  BY <1>1, CommitFacts
<1>3. TypeOK'
  <2>1. \A t \in Sessions : Open(t)' => baseline'[t] # None
    <3> SUFFICES ASSUME NEW t \in Sessions, Open(t)' PROVE baseline'[t] # None
      OBVIOUS
    <3>1. CASE t = s BY <3>1
    <3>2. CASE t # s
      <4>1. workspaces'[t] = workspaces[t] /\ baseline'[t] = baseline[t]
        BY <1>2, <3>2 DEF Scopes
      <4>2. Open(t) BY <4>1 DEF Open
      <4> QED BY <1>1, <4>1, <4>2 DEF TypeOK
    <3> QED BY <3>1, <3>2
  <2> QED BY <1>1, <2>1, CommitType
<1>4. \A t \in Sessions : SessionInv(t)'
  <2> SUFFICES ASSUME NEW t \in Sessions PROVE SessionInv(t)' OBVIOUS
  <2>1. CASE t = s BY <1>2, <2>1 DEF SessionInv, Open
  <2>2. CASE t # s
    <3>1. /\ workspaces'[t] = workspaces[t]
          /\ baseline'[t] = baseline[t]
          /\ told'[t] = told[t]
      BY <1>2, <2>2 DEF Scopes
    <3>2. SessionInv(t) BY DEF IInv
    <3> QED BY <3>1, <3>2 DEF SessionInv, Open
  <2> QED BY <2>1, <2>2
<1>5. VersionIdentifiesState' /\ VersionsBelow' /\ PreviewsTell'
  <2>1. nextVersion \in Nat BY <1>1 DEF TypeOK
  <2>2. nextVersion' >= nextVersion BY <1>2, <2>1
  <2>3. ASSUME NEW t \in Scopes, Open(t)'
        PROVE  \/ workspaces'[t].ver > nextVersion
               \/ /\ Open(t)
                  /\ workspaces'[t].ver = workspaces[t].ver
                  /\ WithoutAliases(workspaces'[t]) =
                        WithoutAliases(workspaces[t])
    <3>1. CASE t = s BY <1>2, <2>1, <3>1
    <3>2. CASE t # s BY <1>2, <2>3, <3>2 DEF Open
    <3> QED BY <3>1, <3>2
  <2> QED BY <1>1, <1>3, <2>2, <2>3, VersionsStep DEF IInv
<1> QED BY <1>3, <1>4, <1>5 DEF IInv

----------------------------------------------------------------------------
(* The changes of a session.                                                *)

LEMMA FreshFields ==
    ASSUME TypeOK
    PROVE  /\ Here \in Workspace
           /\ Fresh \in Registrations
           /\ Here.remote \in Remotes /\ Here.domain \in Domains
           /\ \A a \in Apps :
                Fresh[a] # None => Fresh[a].port = NoPort /\ ~ Fresh[a].active
           /\ \A s \in Sessions : NewBaseline(s) \in Baseline
<1>1. Here \in Workspace BY DEF TypeOK, Open, Here, Scopes
<1>2. /\ Here.apps \in Registrations
      /\ Here.remote \in Remotes /\ Here.domain \in Domains
  BY <1>1 DEF Workspace
<1>3. /\ Fresh \in Registrations
      /\ \A a \in Apps :
            Fresh[a] # None => Fresh[a].port = NoPort /\ ~ Fresh[a].active
  BY <1>2, InheritedFields DEF Fresh
<1> QED BY <1>1, <1>2, <1>3 DEF NewBaseline, Baseline

LEMMA CreateSessionInv ==
    ASSUME IInv, NEW s \in Sessions, CreateSession(s) PROVE IInv'
<1> DEFINE w == [ver |-> 0, apps |-> Fresh,
                 remote |-> Here.remote, domain |-> Here.domain]
<1>1. TypeOK /\ SessionInv(s) BY DEF IInv
<1>2. w \in Workspace /\ w.apps = Fresh BY <1>1, FreshFields, BoundAssumption DEF Workspace
<1>3. /\ Commit(s, w)
      /\ baseline' = [baseline EXCEPT ![s] = NewBaseline(s)]
      /\ UNCHANGED <<held, told>>
      /\ ~ Open(s)
  BY DEF CreateSession, Open
<1> HIDE DEF w
<1>4. NewBaseline(s) \in Baseline /\ NewBaseline(s) # None
      /\ NewBaseline(s).apps = Fresh
  BY <1>1, FreshFields, HeldAssumption DEF NewBaseline
<1>5. /\ baseline' \in [Sessions -> Baseline \cup {None}]
      /\ baseline'[s] = NewBaseline(s)
      /\ \A t \in Sessions \ {s} : baseline'[t] = baseline[t]
  BY <1>1, <1>3, <1>4 DEF TypeOK
<1>6. \A a \in Apps : AppInv(Fresh[a], Fresh[a], told[s][a])
  <2>1. told[s] = [a \in Apps |-> Untold] BY <1>1, <1>3 DEF SessionInv
  <2>2. \A a \in Apps :
            /\ told[s][a].port = NoPort
            /\ ~ told[s][a].active /\ ~ told[s][a].meta /\ ~ told[s][a].removed
    BY <2>1 DEF Untold
  <2>3. \A a \in Apps : Fresh[a] # None =>
            /\ Fresh[a].port = NoPort
            /\ ~ Fresh[a].active /\ Fresh[a].active \in BOOLEAN
    BY <1>1, FreshFields DEF Registrations, Config
  <2>4. \A a \in Apps : told[s][a].active \in BOOLEAN
    BY <1>1 DEF TypeOK, Told, Scopes
  <2> QED BY <2>2, <2>3, <2>4 DEF AppInv
<1>7. s \in Scopes BY DEF Scopes
<1>8. /\ held' \in [Clients -> Snapshot \cup PreviewOf \cup {None}]
      /\ told' \in [Scopes -> [Apps -> Told]]
  BY <1>1, <1>3 DEF TypeOK
<1> QED BY <1>2, <1>3, <1>4, <1>5, <1>6, <1>7, <1>8, CommitStep

LEMMA CloseSessionInv ==
    ASSUME IInv, NEW s \in Sessions, CloseSession(s) PROVE IInv'
<1>1. TypeOK BY DEF IInv
<1>2. /\ workspaces' = [workspaces EXCEPT ![s] = Closed]
      /\ baseline' = [baseline EXCEPT ![s] = None]
      /\ told' = [told EXCEPT ![s] = [a \in Apps |-> Untold]]
      /\ UNCHANGED <<nextVersion, held>>
  BY DEF CloseSession
<1>3. /\ s \in Scopes /\ s # Environment
      /\ workspaces'[s] = Closed
      /\ told'[s] = [a \in Apps |-> Untold]
      /\ \A t \in Scopes \ {s} : workspaces'[t] = workspaces[t] /\ told'[t] = told[t]
      /\ \A t \in Sessions \ {s} : baseline'[t] = baseline[t]
  BY <1>1, <1>2, ScopeAssumption DEF TypeOK, Scopes
<1>4. TypeOK'
  <2>1. Untold \in Told BY DEF Untold, Told
  <2>2. /\ workspaces' \in [Scopes -> Workspace \cup {None, Closed}]
        /\ baseline' \in [Sessions -> Baseline \cup {None}]
        /\ told' \in [Scopes -> [Apps -> Told]]
    BY <1>1, <1>2, <2>1 DEF TypeOK
  <2>3. Open(Environment)' BY <1>1, <1>3 DEF TypeOK, Open, Scopes
  <2>4. \A t \in Sessions : Open(t)' => baseline'[t] # None
    BY <1>1, <1>3 DEF TypeOK, Open, Scopes
  <2>5. \A t \in Scopes : Open(t)' => workspaces'[t].ver <= nextVersion'
    BY <1>1, <1>2, <1>3 DEF TypeOK, Open
  <2> QED BY <1>1, <1>2, <2>2, <2>3, <2>4, <2>5 DEF TypeOK
<1>5. \A t \in Sessions : SessionInv(t)'
  <2> SUFFICES ASSUME NEW t \in Sessions PROVE SessionInv(t)' OBVIOUS
  <2>1. CASE t = s BY <1>3, <2>1 DEF SessionInv, Open
  <2>2. CASE t # s
    <3>1. SessionInv(t) BY DEF IInv
    <3> QED BY <1>3, <2>2, <3>1 DEF SessionInv, Open, Scopes
  <2> QED BY <2>1, <2>2
<1>6. VersionIdentifiesState' /\ VersionsBelow' /\ PreviewsTell'
  <2>1. nextVersion' >= nextVersion BY <1>1, <1>2 DEF TypeOK
  <2>2. \A t \in Scopes : Open(t)' =>
            Open(t) /\ workspaces'[t] = workspaces[t]
    BY <1>3 DEF Open
  <2> QED BY <1>1, <1>2, <1>4, <2>1, <2>2, VersionsStep DEF IInv
<1> QED BY <1>4, <1>5, <1>6 DEF IInv

(* A step that only changes what clients hold.                              *)
LEMMA HeldStep ==
    ASSUME IInv, UNCHANGED <<workspaces, baseline, nextVersion, told>>,
           held' \in [Clients -> Snapshot \cup PreviewOf \cup {None}],
           \A c \in Clients :
                \/ held'[c] = held[c]
                \/ held'[c].what = "preview" /\ PreviewTells(held'[c])
                \/ /\ held'[c].what = "snapshot"
                   /\ Open(held'[c].scope)
                   /\ held'[c].seen = workspaces[held'[c].scope]
    PROVE  IInv'
<1>1. TypeOK BY DEF IInv
<1>2. TypeOK' BY <1>1 DEF TypeOK, Open
<1>3. \A t \in Sessions : SessionInv(t)' BY DEF IInv, SessionInv, Open
<1>4. nextVersion' >= nextVersion BY <1>1 DEF TypeOK
<1>5. \A t \in Scopes : Open(t)' => Open(t) /\ workspaces'[t] = workspaces[t]
  BY DEF Open
<1> QED BY <1>1, <1>2, <1>3, <1>4, <1>5, VersionsStep DEF IInv

LEMMA ReadInv ==
    ASSUME IInv, NEW c \in Clients, NEW s \in Scopes, Read(c, s) PROVE IInv'
<1> DEFINE h == [what |-> "snapshot", scope |-> s, seen |-> workspaces[s]]
<1>1. /\ TypeOK
      /\ Open(s)
      /\ held' = [held EXCEPT ![c] = h]
      /\ UNCHANGED <<workspaces, baseline, nextVersion, told>>
  BY DEF IInv, Read
<1>2. h \in Snapshot BY <1>1 DEF TypeOK, Open, Snapshot
<1>3. h.what = "snapshot" /\ h.scope = s /\ h.seen = workspaces[s] OBVIOUS
<1> HIDE DEF h
<1>4. /\ held' \in [Clients -> Snapshot \cup PreviewOf \cup {None}]
      /\ \A d \in Clients : held'[d] = IF d = c THEN h ELSE held[d]
  BY <1>1, <1>2 DEF TypeOK
<1> QED BY <1>1, <1>3, <1>4, HeldStep

LEMMA OpenFields ==
    ASSUME TypeOK, NEW s \in Scopes, Open(s)
    PROVE  /\ workspaces[s] \in Workspace
           /\ workspaces[s].ver \in 0 .. MaxVersion
           /\ workspaces[s].apps \in Registrations
           /\ workspaces[s].remote \in Remotes
           /\ workspaces[s].domain \in Domains
BY DEF TypeOK, Open, Workspace

LEMMA OpenSession ==
    ASSUME TypeOK, NEW s \in Sessions, Open(s)
    PROVE  /\ baseline[s] \in Baseline
           /\ baseline[s].apps \in Registrations
           /\ baseline[s].remote \in Remotes
           /\ MergedApps(s) \in Registrations
           /\ Refreshed(s) \in Workspace
           /\ Refreshed(s).apps = Stored(MergedApps(s), workspaces[s].apps)
<1>1. workspaces[s] \in Workspace /\ workspaces[s].apps \in Registrations
      /\ workspaces[s].ver \in 0 .. MaxVersion /\ workspaces[s].remote \in Remotes
  BY OpenFields DEF Scopes
<1>2. /\ baseline[s] \in Baseline
      /\ baseline[s].apps \in Registrations
      /\ baseline[s].remote \in Remotes
  BY DEF TypeOK, Baseline
<1>3. \A a \in Apps :
        MergedApp(workspaces[s].apps[a], baseline[s].apps[a], Fresh[a])
            \in Config \cup {None}
  BY <1>1, <1>2, FreshFields, MergedAppType DEF Registrations
<1>4. MergedApps(s) \in Registrations BY <1>3 DEF MergedApps, Registrations
<1>5. Stored(MergedApps(s), workspaces[s].apps) \in Registrations
  BY <1>1, <1>4, StoredFields
<1>6. Refreshed(s) \in Workspace
      /\ Refreshed(s).apps = Stored(MergedApps(s), workspaces[s].apps)
  BY <1>1, <1>5, FreshFields DEF Refreshed, Workspace
<1> QED BY <1>2, <1>4, <1>6

(* The refreshed session is what its token stands for.                      *)
LEMMA RefreshedFromToken ==
    ASSUME NEW s \in Sessions
    PROVE  /\ TokenOf(s).revision = workspaces[s].ver
           /\ Refreshed(s).apps = MergedFrom(TokenOf(s))
           /\ Refreshed(s).remote =
                RemoteFrom(TokenOf(s), workspaces[s].remote)
<1>1. /\ TokenOf(s).revision = workspaces[s].ver
      /\ TokenOf(s).base = baseline[s]
      /\ TokenOf(s).apps = workspaces[s].apps
      /\ TokenOf(s).remote = Here.remote
      /\ TokenOf(s).fresh = Fresh
  BY DEF TokenOf
<1>2. MergedFrom(TokenOf(s)) = Stored(MergedApps(s), workspaces[s].apps)
  BY <1>1 DEF MergedFrom, MergedApps
<1>3. /\ Refreshed(s).apps = Stored(MergedApps(s), workspaces[s].apps)
      /\ Refreshed(s).remote = IF workspaces[s].remote = baseline[s].remote
                               THEN Here.remote ELSE workspaces[s].remote
  BY DEF Refreshed
<1> QED BY <1>1, <1>2, <1>3 DEF RemoteFrom

LEMMA PreviewInv ==
    ASSUME IInv, NEW c \in Clients, NEW s \in Sessions, Preview(c, s)
    PROVE  IInv'
<1> DEFINE h == [what |-> "preview", scope |-> s, token |-> TokenOf(s),
                 shown |-> Refreshed(s)]
<1>1. /\ TypeOK
      /\ Open(s)
      /\ held' = [held EXCEPT ![c] = h]
      /\ UNCHANGED <<workspaces, baseline, nextVersion, told>>
  BY DEF IInv, Preview
<1>2. TokenOf(s) \in Token
  BY <1>1, OpenFields, OpenSession, FreshFields DEF TokenOf, Token, Scopes
<1>3. h \in PreviewOf /\ h.what = "preview"
  BY <1>1, <1>2, OpenSession DEF PreviewOf
<1>5. PreviewTells(h)
  <2>1. /\ h.scope = s /\ h.token = TokenOf(s) /\ h.shown = Refreshed(s)
    OBVIOUS
  <2> HIDE DEF h
  <2>2. workspaces[s].ver <= nextVersion BY <1>1 DEF TypeOK, Scopes
  <2> QED BY <2>1, <2>2, RefreshedFromToken DEF PreviewTells
<1> HIDE DEF h
<1>4. /\ held' \in [Clients -> Snapshot \cup PreviewOf \cup {None}]
      /\ \A d \in Clients : held'[d] = IF d = c THEN h ELSE held[d]
  BY <1>1, <1>3 DEF TypeOK
<1> QED BY <1>1, <1>3, <1>4, <1>5, HeldStep

(* A refresh merges each application as MergeKeeps has it.                  *)
LEMMA RefreshKeeps ==
    ASSUME IInv, NEW s \in Sessions, Open(s), NoConflicts(s), NEW a \in Apps
    PROVE  AppInv(Refreshed(s).apps[a], Fresh[a], ToldAfterRefresh(s)[a])
<1> DEFINE cur == workspaces[s].apps[a]
           old == baseline[s].apps[a]
           new == Fresh[a]
           stored == Refreshed(s).apps[a]
           t == told[s][a]
<1>1. TypeOK /\ SessionInv(s) BY DEF IInv
<1>2. s \in Scopes BY DEF Scopes
<1>3. /\ cur \in Config \cup {None}
      /\ old \in Config \cup {None}
      /\ new \in Config \cup {None}
      /\ t \in Told
  BY <1>1, <1>2, OpenFields, OpenSession, FreshFields DEF Registrations, TypeOK
<1>4. AppInv(cur, old, t) BY <1>1 DEF SessionInv
<1>5. ~ Conflict(cur, old, new) BY DEF NoConflicts
<1>6. new # None => new.port = NoPort /\ ~ new.active BY <1>1, FreshFields
<1>7. MergedApps(s)[a] = MergedApp(cur, old, new) BY DEF MergedApps
<1>8. /\ stored \in Config \cup {None}
      /\ stored = None <=> MergedApp(cur, old, new) = None
      /\ stored # None =>
            /\ stored.meta = MergedApp(cur, old, new).meta
            /\ stored.port = MergedApp(cur, old, new).port
            /\ stored.active = IF cur # None THEN cur.active
                               ELSE MergedApp(cur, old, new).active
  <2>1. /\ MergedApps(s) \in Registrations
        /\ workspaces[s].apps \in Registrations
        /\ Refreshed(s).apps = Stored(MergedApps(s), workspaces[s].apps)
    BY <1>1, <1>2, OpenFields, OpenSession
  <2> QED BY <1>7, <2>1, StoredFields DEF Registrations
<1>9. ToldAfterRefresh(s)[a] = [t EXCEPT !.meta = @ /\ stored # None,
                                         !.removed = @ /\ new # None]
  BY DEF ToldAfterRefresh
<1> HIDE DEF cur, old, new, stored, t
<1>10. AppInv(stored, new, [t EXCEPT !.meta = @ /\ stored # None,
                                     !.removed = @ /\ new # None])
  BY <1>3, <1>4, <1>5, <1>6, <1>8, MergeKeeps
<1> QED BY <1>9, <1>10 DEF stored, new

LEMMA ApplyRefreshInv ==
    ASSUME IInv, NEW c \in Clients, ApplyRefresh(c) PROVE IInv'
<1> DEFINE s == held[c].scope
<1>1. TypeOK BY DEF IInv
<1>2. s \in Sessions
  <2>1. held[c] \in PreviewOf BY <1>1 DEF ApplyRefresh, TypeOK, Snapshot
  <2> QED BY <2>1 DEF PreviewOf
<1>3. /\ Open(s)
      /\ NoConflicts(s)
      /\ Commit(s, Refreshed(s))
      /\ baseline' = [baseline EXCEPT ![s] = NewBaseline(s)]
      /\ told' = [told EXCEPT ![s] = ToldAfterRefresh(s)]
      /\ held' = [held EXCEPT ![c] = None]
  BY DEF ApplyRefresh
<1> HIDE DEF s
<1>4. s \in Scopes /\ Refreshed(s) \in Workspace
  BY <1>1, <1>2, <1>3, OpenSession DEF Scopes
<1>5. NewBaseline(s) \in Baseline /\ NewBaseline(s) # None
      /\ NewBaseline(s).apps = Fresh
  BY <1>1, <1>2, FreshFields, HeldAssumption DEF NewBaseline
<1>6. /\ baseline' \in [Sessions -> Baseline \cup {None}]
      /\ baseline'[s] = NewBaseline(s)
      /\ \A t \in Sessions \ {s} : baseline'[t] = baseline[t]
  BY <1>1, <1>2, <1>3, <1>5 DEF TypeOK
<1>7. ToldAfterRefresh(s) \in [Apps -> Told]
  <2>1. ASSUME NEW t \in Told, NEW m \in BOOLEAN, NEW r \in BOOLEAN
        PROVE  [t EXCEPT !.meta = m, !.removed = r] \in Told
    BY DEF Told
  <2>2. ASSUME NEW a \in Apps PROVE ToldAfterRefresh(s)[a] \in Told
    <3> DEFINE m == told[s][a].meta /\ Refreshed(s).apps[a] # None
               r == told[s][a].removed /\ Fresh[a] # None
    <3>1. told[s][a] \in Told BY <1>1, <1>4 DEF TypeOK
    <3>2. m \in BOOLEAN /\ r \in BOOLEAN OBVIOUS
    <3>3. ToldAfterRefresh(s)[a] = [told[s][a] EXCEPT !.meta = m, !.removed = r]
      BY DEF ToldAfterRefresh
    <3> HIDE DEF m, r
    <3> QED BY <2>1, <3>1, <3>2, <3>3
  <2>3. ToldAfterRefresh(s) = [a \in Apps |-> ToldAfterRefresh(s)[a]]
    BY DEF ToldAfterRefresh
  <2> QED BY <2>2, <2>3
<1>8. /\ told' \in [Scopes -> [Apps -> Told]]
      /\ told'[s] = ToldAfterRefresh(s)
      /\ \A t \in Sessions \ {s} : told'[t] = told[t]
  BY <1>1, <1>3, <1>4, <1>7 DEF TypeOK, Scopes
<1>9. /\ held' \in [Clients -> Snapshot \cup PreviewOf \cup {None}]
      /\ \A d \in Clients : held'[d] = held[d] \/ held'[d] = None
  BY <1>1, <1>3 DEF TypeOK
<1>10. \A a \in Apps :
         AppInv(Refreshed(s).apps[a], baseline'[s].apps[a], told'[s][a])
  BY <1>2, <1>3, <1>5, <1>6, <1>8, RefreshKeeps
<1> QED BY <1>3, <1>4, <1>5, <1>6, <1>8, <1>9, <1>10, CommitStep

(* A session's registrations change to apps and what was told of a to t.    *)
LEMMA SessionEdit ==
    ASSUME IInv, NEW s \in Sessions, Open(s), NEW a \in Apps, NEW t \in Told,
           NEW apps \in Registrations,
           Commit(s, [workspaces[s] EXCEPT !.apps = apps]),
           told' = [told EXCEPT ![s][a] = t],
           UNCHANGED <<baseline, held>>,
           AppInv(apps[a], baseline[s].apps[a], t),
           \A b \in Apps \ {a} :
                AppInv(apps[b], baseline[s].apps[b], told[s][b])
    PROVE  IInv'
<1> DEFINE w == [workspaces[s] EXCEPT !.apps = apps]
<1>1. TypeOK BY DEF IInv
<1>2. s \in Scopes BY DEF Scopes
<1>3. w \in Workspace /\ w.apps = apps
  BY <1>1, <1>2, OpenFields DEF Workspace
<1> HIDE DEF w
<1>4. /\ told' \in [Scopes -> [Apps -> Told]]
      /\ told'[s][a] = t
      /\ \A b \in Apps \ {a} : told'[s][b] = told[s][b]
      /\ \A u \in Sessions \ {s} : told'[u] = told[u]
  BY <1>1, <1>2 DEF TypeOK, Scopes
<1>5. baseline'[s] # None BY <1>1 DEF TypeOK
<1>6. \A b \in Apps : AppInv(w.apps[b], baseline'[s].apps[b], told'[s][b])
  BY <1>3, <1>4
<1>7. /\ baseline' \in [Sessions -> Baseline \cup {None}]
      /\ held' \in [Clients -> Snapshot \cup PreviewOf \cup {None}]
  BY <1>1 DEF TypeOK
<1>8. Commit(s, w) BY DEF w
<1> QED BY <1>2, <1>3, <1>4, <1>5, <1>6, <1>7, <1>8, CommitStep

LEMMA ToggleInv ==
    ASSUME IInv, NEW s \in Scopes, NEW a \in Apps, Toggle(s, a) PROVE IInv'
<1>1. TypeOK BY DEF IInv
<1> DEFINE w == workspaces[s]
           cur == w.apps[a]
           new == [cur EXCEPT !.active = ~@]
           t == [told[s][a] EXCEPT !.active = ~@]
           apps == [w.apps EXCEPT ![a] = new]
<1>2. /\ Open(s) /\ cur # None
      /\ Commit(s, [w EXCEPT !.apps = apps])
      /\ told' = [told EXCEPT ![s][a] = t]
      /\ UNCHANGED <<baseline, held>>
  BY DEF Toggle
<1>3. w \in Workspace /\ w.apps \in Registrations BY <1>1, <1>2, OpenFields
<1>4. cur \in Config BY <1>2, <1>3 DEF Registrations
<1>5. /\ new \in Config
      /\ new.port = cur.port /\ new.meta = cur.meta
      /\ new.active = (~ cur.active)
  BY <1>4 DEF Config
<1>6. told[s][a] \in Told BY <1>1 DEF TypeOK
<1>7. /\ t \in Told
      /\ t.port = told[s][a].port /\ t.meta = told[s][a].meta
      /\ t.removed = told[s][a].removed
      /\ t.active = (~ told[s][a].active)
  BY <1>6 DEF Told
<1>8. /\ apps \in Registrations
      /\ apps[a] = new
      /\ \A b \in Apps \ {a} : apps[b] = w.apps[b]
  BY <1>3, <1>5 DEF Registrations
<1>9. /\ cur.active \in BOOLEAN /\ told[s][a].active \in BOOLEAN
      /\ new # None
  BY <1>4, <1>5, <1>6, NoneAssumption DEF Config, Told
<1> HIDE DEF new, t, apps
<1>10. CASE s \in Sessions
  <2>1. \A b \in Apps : AppInv(w.apps[b], baseline[s].apps[b], told[s][b])
    BY <1>2, <1>10 DEF IInv, SessionInv
  <2>2. AppInv(apps[a], baseline[s].apps[a], t)
    BY <1>2, <1>5, <1>7, <1>8, <1>9, <2>1 DEF AppInv
  <2> QED BY <1>2, <1>7, <1>8, <1>10, <2>1, <2>2, SessionEdit
<1>11. CASE s \notin Sessions
  <2>1. [w EXCEPT !.apps = apps] \in Workspace BY <1>3, <1>8 DEF Workspace
  <2>2. /\ told' \in [Scopes -> [Apps -> Told]]
        /\ \A u \in Sessions : told'[u] = told[u]
    BY <1>1, <1>2, <1>7, <1>11 DEF TypeOK, Scopes
  <2>3. /\ baseline' \in [Sessions -> Baseline \cup {None}]
        /\ held' \in [Clients -> Snapshot \cup PreviewOf \cup {None}]
    BY <1>1, <1>2 DEF TypeOK
  <2> HIDE DEF w
  <2> QED BY <1>2, <1>11, <2>1, <2>2, <2>3, CommitStep
<1> QED BY <1>10, <1>11

LEMMA RemoveSessionApplicationInv ==
    ASSUME IInv, NEW s \in Sessions, NEW a \in Apps,
           RemoveSessionApplication(s, a)
    PROVE  IInv'
<1>1. TypeOK /\ s \in Scopes BY DEF IInv, Scopes
<1> DEFINE w == workspaces[s]
           t == [Untold EXCEPT !.removed = baseline[s].apps[a] # None]
           apps == [w.apps EXCEPT ![a] = None]
<1>2. /\ Open(s)
      /\ Commit(s, [w EXCEPT !.apps = apps])
      /\ told' = [told EXCEPT ![s][a] = t]
      /\ UNCHANGED <<baseline, held>>
  BY DEF RemoveSessionApplication
<1>3. w.apps \in Registrations BY <1>1, <1>2, OpenFields
<1>4. /\ apps \in Registrations
      /\ apps[a] = None
      /\ \A b \in Apps \ {a} : apps[b] = w.apps[b]
  BY <1>3 DEF Registrations
<1>5. /\ t \in Told
      /\ t.port = NoPort /\ ~ t.active
      /\ t.removed = (baseline[s].apps[a] # None)
  <2>1. Untold \in Told /\ Untold.port = NoPort /\ ~ Untold.active
    BY DEF Untold, Told
  <2>2. (baseline[s].apps[a] # None) \in BOOLEAN OBVIOUS
  <2> HIDE DEF Untold
  <2> QED BY <2>1, <2>2 DEF Told
<1>6. \A b \in Apps : AppInv(w.apps[b], baseline[s].apps[b], told[s][b])
  BY <1>2 DEF IInv, SessionInv
<1> HIDE DEF t, apps
<1>7. AppInv(apps[a], baseline[s].apps[a], t) BY <1>4, <1>5, <1>6 DEF AppInv
<1>8. \A b \in Apps \ {a} : AppInv(apps[b], baseline[s].apps[b], told[s][b])
  BY <1>4, <1>6
<1> HIDE DEF w
<1>9. Commit(s, [workspaces[s] EXCEPT !.apps = apps]) BY <1>2 DEF w
<1> QED BY <1>2, <1>4, <1>5, <1>7, <1>8, <1>9, SessionEdit

LEMMA EditSessionApplicationInv ==
    ASSUME IInv, NEW s \in Sessions, NEW a \in Apps,
           NEW meta \in Metas, NEW aliases \in SUBSET Aliases,
           NEW port \in Ports \cup {NoPort},
           EditSessionApplication(s, a, meta, aliases, port)
    PROVE  IInv'
<1>1. TypeOK /\ s \in Scopes BY DEF IInv, Scopes
<1> DEFINE w == workspaces[s]
           cur == w.apps[a]
           new == Edited(cur, meta, aliases, port)
           composed == [w.apps EXCEPT ![a] = new]
           apps == Stored(composed, w.apps)
           t == [port |-> IF port = NoPort THEN told[s][a].port ELSE port,
                 active |-> told[s][a].active,
                 meta |-> \/ told[s][a].meta
                          \/ cur = None
                          \/ new.meta # cur.meta,
                 removed |-> FALSE]
<1>2. /\ Open(s)
      /\ Commit(s, [w EXCEPT !.apps = apps])
      /\ told' = [told EXCEPT ![s][a] = t]
      /\ UNCHANGED <<baseline, held>>
  BY DEF EditSessionApplication
<1>3. w.apps \in Registrations BY <1>1, <1>2, OpenFields
<1>4. cur \in Config \cup {None} /\ told[s][a] \in Told
  BY <1>1, <1>3 DEF Registrations, TypeOK
<1>5. /\ new \in Config /\ new # None
      /\ cur = None => new.port = port /\ ~ new.active /\ new.active \in BOOLEAN
      /\ cur # None => /\ new.port = IF port = NoPort THEN cur.port ELSE port
                       /\ new.active = cur.active
  <2>1. CASE cur = None
    <3>1. new = [meta |-> meta, aliases |-> aliases, port |-> port,
                 active |-> FALSE]
      BY <2>1 DEF Edited
    <3>2. new \in Config BY <3>1 DEF Config
    <3>3. new.port = port /\ new.active = FALSE BY <3>1
    <3> QED BY <2>1, <3>2, <3>3, NoneAssumption
  <2>2. CASE cur # None
    <3>1. new = [meta |-> IF meta = NoName THEN cur.meta ELSE meta,
                 aliases |-> IF aliases = {} THEN cur.aliases ELSE aliases,
                 port |-> IF port = NoPort THEN cur.port ELSE port,
                 active |-> cur.active]
      BY <2>2 DEF Edited
    <3>2. cur \in Config BY <1>4, <2>2
    <3>3. new \in Config BY <3>1, <3>2 DEF Config
    <3>4. /\ new.port = IF port = NoPort THEN cur.port ELSE port
          /\ new.active = cur.active
      BY <3>1
    <3> QED BY <2>2, <3>3, <3>4, NoneAssumption
  <2> QED BY <2>1, <2>2
<1>6. /\ t \in Told
      /\ t.port = IF port = NoPort THEN told[s][a].port ELSE port
      /\ t.active = told[s][a].active /\ t.active \in BOOLEAN
      /\ ~ t.meta => ~ told[s][a].meta /\ cur # None /\ new.meta = cur.meta
      /\ ~ t.removed
  <2> DEFINE m == \/ told[s][a].meta
                  \/ cur = None
                  \/ new.meta # cur.meta
             p == IF port = NoPort THEN told[s][a].port ELSE port
  <2>1. m \in BOOLEAN OBVIOUS
  <2>2. /\ told[s][a].port \in Ports \cup {NoPort}
        /\ told[s][a].active \in BOOLEAN
    BY <1>4 DEF Told
  <2>3. ~ m => ~ told[s][a].meta /\ cur # None /\ new.meta = cur.meta
    OBVIOUS
  <2>4. p \in Ports \cup {NoPort} BY <2>2
  <2>5. t = [port |-> p, active |-> told[s][a].active, meta |-> m,
             removed |-> FALSE]
    OBVIOUS
  <2> HIDE DEF m, t
  <2>6. t \in Told BY <2>1, <2>2, <2>4, <2>5 DEF Told
  <2>7. t.port = p /\ t.active = told[s][a].active /\ t.meta = m /\ t.removed = FALSE
    BY <2>5
  <2> QED BY <2>1, <2>2, <2>3, <2>6, <2>7
<1>7. /\ composed \in Registrations
      /\ composed[a] = new
      /\ \A b \in Apps \ {a} : composed[b] = w.apps[b]
  BY <1>3, <1>5 DEF Registrations
<1> HIDE DEF new, composed, t
<1>8. /\ apps \in Registrations
      /\ apps[a] # None /\ apps[a] \in Config
      /\ apps[a].meta = new.meta /\ apps[a].port = new.port
      /\ apps[a].active = new.active
  BY <1>3, <1>5, <1>7, StoredFields
<1>9. \A b \in Apps \ {a} :
        /\ apps[b] = None <=> w.apps[b] = None
        /\ apps[b] # None =>
            /\ apps[b].meta = w.apps[b].meta
            /\ apps[b].port = w.apps[b].port
            /\ apps[b].active = w.apps[b].active
  BY <1>3, <1>7, StoredFields
<1>10. \A b \in Apps : AppInv(w.apps[b], baseline[s].apps[b], told[s][b])
  BY <1>2 DEF IInv, SessionInv
<1> HIDE DEF apps
<1>11. AppInv(apps[a], baseline[s].apps[a], t)
  <2>1. AppInv(cur, baseline[s].apps[a], told[s][a]) BY <1>10
  <2> HIDE DEF cur
  <2> QED BY <1>5, <1>6, <1>8, <2>1 DEF AppInv
<1>12. \A b \in Apps \ {a} : AppInv(apps[b], baseline[s].apps[b], told[s][b])
  BY <1>9, <1>10 DEF AppInv
<1>13. Commit(s, [workspaces[s] EXCEPT !.apps = apps]) BY <1>2
<1> HIDE DEF w, cur
<1> QED BY <1>2, <1>6, <1>8, <1>11, <1>12, <1>13, SessionEdit

----------------------------------------------------------------------------
(* The changes of any scope.                                                *)

(* A version that is still the workspace's means the registrations that     *)
(* were read, aliases apart.                                                *)
LEMMA SeenIsCurrent ==
    ASSUME IInv, NEW c \in Clients, NEW s \in Scopes, HasRead(c, s), Open(s),
           held[c].seen.ver = workspaces[s].ver, NEW a \in Apps
    PROVE  LET seen == held[c].seen.apps[a]
               cur == workspaces[s].apps[a]
           IN  /\ seen = None <=> cur = None
               /\ seen # None => seen.meta = cur.meta /\ seen.port = cur.port
<1>1. TypeOK BY DEF IInv
<1>2. /\ held[c].seen \in Workspace
      /\ workspaces[s] \in Workspace
  BY <1>1, OpenFields DEF TypeOK, HasRead, Snapshot, PreviewOf
<1>3. WithoutAliases(held[c].seen) = WithoutAliases(workspaces[s])
  BY DEF IInv, VersionIdentifiesState, HasRead
<1>4. ASSUME NEW w \in Workspace
      PROVE  /\ WithoutAliases(w).apps[a] =
                    IF w.apps[a] = None THEN None
                    ELSE [w.apps[a] EXCEPT !.aliases = {}]
             /\ w.apps[a] \in Config \cup {None}
  BY DEF WithoutAliases, Workspace, Registrations
<1>5. \A x \in Config : /\ [x EXCEPT !.aliases = {}] \in Config
                        /\ [x EXCEPT !.aliases = {}].meta = x.meta
                        /\ [x EXCEPT !.aliases = {}].port = x.port
  BY DEF Config
<1> DEFINE seen == held[c].seen.apps[a]
           cur == workspaces[s].apps[a]
           bare(x) == IF x = None THEN None ELSE [x EXCEPT !.aliases = {}]
<1>6. bare(seen) = bare(cur) /\ seen \in Config \cup {None}
      /\ cur \in Config \cup {None}
  BY <1>2, <1>3, <1>4
<1>7. seen = None <=> cur = None BY <1>5, <1>6, NoneAssumption
<1>8. seen # None => seen.meta = cur.meta /\ seen.port = cur.port
  BY <1>5, <1>6, <1>7
<1> QED BY <1>7, <1>8

LEMMA SentBackFields ==
    ASSUME NEW apps \in Registrations
    PROVE  /\ SentBack(apps) \in Registrations
           /\ \A a \in Apps :
                /\ SentBack(apps)[a] = None <=> apps[a] = None
                /\ apps[a] # None =>
                    /\ SentBack(apps)[a].meta = ShownMeta(apps[a].meta)
                    /\ SentBack(apps)[a].port = apps[a].port
BY NoneAssumption, ScopeAssumption
   DEF SentBack, ShownMeta, Registrations, Config

(* A save of settings tells a session nothing but a name that it lacked.    *)
LEMMA ToldAfterSaveFields ==
    ASSUME TypeOK, NEW s \in Scopes
    PROVE  /\ ToldAfterSave(s) \in [Apps -> Told]
           /\ \A a \in Apps :
                LET t == ToldAfterSave(s)[a]
                    cur == workspaces[s].apps[a]
                IN  /\ t.port = told[s][a].port
                    /\ t.active = told[s][a].active
                    /\ t.removed = told[s][a].removed
                    /\ ~ t.meta /\ s \in Sessions /\ cur # None
                        => ~ told[s][a].meta /\ cur.meta # NoName
<1>1. \A a \in Apps : told[s][a] \in Told BY DEF TypeOK
<1>2. ASSUME NEW a \in Apps
      PROVE  LET t == ToldAfterSave(s)[a]
                 cur == workspaces[s].apps[a]
             IN  /\ t \in Told
                 /\ t.port = told[s][a].port
                 /\ t.active = told[s][a].active
                 /\ t.removed = told[s][a].removed
                 /\ ~ t.meta /\ s \in Sessions /\ cur # None
                        => ~ told[s][a].meta /\ cur.meta # NoName
  <2> DEFINE m == told[s][a].meta \/ /\ s \in Sessions
                                     /\ workspaces[s].apps[a] # None
                                     /\ workspaces[s].apps[a].meta = NoName
  <2>1. ToldAfterSave(s)[a] = [told[s][a] EXCEPT !.meta = m]
    BY <1>1 DEF ToldAfterSave, Told
  <2>2. m \in BOOLEAN OBVIOUS
  <2>3. ~ m /\ s \in Sessions /\ workspaces[s].apps[a] # None
            => ~ told[s][a].meta /\ workspaces[s].apps[a].meta # NoName
    OBVIOUS
  <2> HIDE DEF m
  <2>4. /\ [told[s][a] EXCEPT !.meta = m] \in Told
        /\ [told[s][a] EXCEPT !.meta = m].meta = m
        /\ [told[s][a] EXCEPT !.meta = m].port = told[s][a].port
        /\ [told[s][a] EXCEPT !.meta = m].active = told[s][a].active
        /\ [told[s][a] EXCEPT !.meta = m].removed = told[s][a].removed
    BY <1>1, <2>2 DEF Told
  <2> QED BY <2>1, <2>3, <2>4
<1>3. ToldAfterSave(s) = [a \in Apps |-> ToldAfterSave(s)[a]]
  BY DEF ToldAfterSave
<1> QED BY <1>2, <1>3

LEMMA SaveSettingsInv ==
    ASSUME IInv, NEW c \in Clients, NEW s \in Scopes, NEW remote \in Remotes,
           NEW domain \in Domains, SaveSettings(c, s, remote, domain)
    PROVE  IInv'
<1>1. TypeOK BY DEF IInv
<1> DEFINE sent == SentBack(held[c].seen.apps)
           apps == Stored(sent, workspaces[s].apps)
           w == [workspaces[s] EXCEPT !.apps = apps, !.remote = remote,
                                      !.domain = domain]
<1>2. /\ HasRead(c, s)
      /\ Open(s)
      /\ held[c].seen.ver = workspaces[s].ver
      /\ Commit(s, w)
      /\ told' = [told EXCEPT ![s] = ToldAfterSave(s)]
      /\ held' = [held EXCEPT ![c] = None]
      /\ UNCHANGED baseline
  BY DEF SaveSettings
<1>3. /\ workspaces[s] \in Workspace
      /\ workspaces[s].apps \in Registrations
      /\ held[c].seen.apps \in Registrations
  BY <1>1, <1>2, OpenFields
     DEF TypeOK, HasRead, Snapshot, PreviewOf, Workspace
<1>4. sent \in Registrations BY <1>3, SentBackFields
<1> HIDE DEF sent
<1>5. apps \in Registrations BY <1>3, <1>4, StoredFields
<1>6. \A a \in Apps :
        /\ apps[a] = None <=> sent[a] = None
        /\ sent[a] # None =>
            /\ apps[a].meta = sent[a].meta
            /\ apps[a].port = sent[a].port
            /\ workspaces[s].apps[a] # None =>
                    apps[a].active = workspaces[s].apps[a].active
  BY <1>3, <1>4, StoredFields
<1>7. \A a \in Apps :
        /\ apps[a] = None <=> workspaces[s].apps[a] = None
        /\ apps[a] # None =>
            /\ apps[a].meta = ShownMeta(workspaces[s].apps[a].meta)
            /\ apps[a].port = workspaces[s].apps[a].port
            /\ apps[a].active = workspaces[s].apps[a].active
  <2> HIDE DEF apps
  <2> SUFFICES ASSUME NEW a \in Apps
               PROVE  /\ apps[a] = None <=> workspaces[s].apps[a] = None
                      /\ apps[a] # None =>
                        /\ apps[a].meta = ShownMeta(workspaces[s].apps[a].meta)
                        /\ apps[a].port = workspaces[s].apps[a].port
                        /\ apps[a].active = workspaces[s].apps[a].active
    OBVIOUS
  <2> DEFINE seen == held[c].seen.apps[a]
             cur == workspaces[s].apps[a]
  <2>1. /\ seen = None <=> cur = None
        /\ seen # None => seen.meta = cur.meta /\ seen.port = cur.port
    BY <1>2, SeenIsCurrent
  <2>2. /\ sent[a] = None <=> seen = None
        /\ seen # None => /\ sent[a].meta = ShownMeta(seen.meta)
                          /\ sent[a].port = seen.port
    BY <1>3, SentBackFields DEF sent
  <2> QED BY <1>6, <2>1, <2>2
<1> HIDE DEF apps
<1>8. w \in Workspace /\ w.apps = apps BY <1>3, <1>5 DEF Workspace
<1> HIDE DEF w
<1>9. /\ held' \in [Clients -> Snapshot \cup PreviewOf \cup {None}]
      /\ \A d \in Clients : held'[d] = held[d] \/ held'[d] = None
      /\ baseline' \in [Sessions -> Baseline \cup {None}]
      /\ told' \in [Scopes -> [Apps -> Told]]
      /\ told'[s] = ToldAfterSave(s)
      /\ \A t \in Sessions \ {s} : told'[t] = told[t]
  BY <1>1, <1>2, ToldAfterSaveFields DEF TypeOK, Scopes
<1>10. ASSUME s \in Sessions
       PROVE  /\ baseline'[s] # None
              /\ \A a \in Apps :
                    AppInv(w.apps[a], baseline'[s].apps[a], told'[s][a])
  <2>1. \A a \in Apps :
            AppInv(workspaces[s].apps[a], baseline[s].apps[a], told[s][a])
    BY <1>2, <1>10 DEF IInv, SessionInv
  <2>2. \A a \in Apps :
            LET t == ToldAfterSave(s)[a]
                cur == workspaces[s].apps[a]
            IN  /\ t.port = told[s][a].port
                /\ t.active = told[s][a].active
                /\ t.removed = told[s][a].removed
                /\ ~ t.meta /\ cur # None
                    => ~ told[s][a].meta /\ ShownMeta(cur.meta) = cur.meta
    BY <1>1, <1>10, ToldAfterSaveFields DEF ShownMeta
  <2>3. \A a \in Apps :
            AppInv(apps[a], baseline[s].apps[a], ToldAfterSave(s)[a])
    BY <1>7, <2>1, <2>2 DEF AppInv
  <2> QED BY <1>1, <1>2, <1>8, <1>9, <1>10, <2>3 DEF TypeOK
<1> QED BY <1>2, <1>8, <1>9, <1>10, CommitStep

LEMMA SaveRegistrationsInv ==
    ASSUME IInv, NEW c \in Clients, NEW apps \in Registrations,
           SaveRegistrations(c, apps),
           told' \in [Scopes -> [Apps -> Told]],
           \A s \in Sessions : told'[s] = told[s]
    PROVE  IInv'
<1>1. TypeOK /\ Environment \in Scopes /\ Environment \notin Sessions
  BY ScopeAssumption DEF IInv, Scopes
<1> DEFINE w == [Here EXCEPT !.apps = Stored(apps, @),
                             !.remote = held[c].seen.remote,
                             !.domain = held[c].seen.domain]
<1>2. /\ HasRead(c, Environment)
      /\ Commit(Environment, w)
      /\ held' = [held EXCEPT ![c] = None]
      /\ UNCHANGED baseline
  BY DEF SaveRegistrations
<1>3. held[c].seen \in Workspace
  BY <1>1, <1>2 DEF TypeOK, HasRead, Snapshot, PreviewOf
<1>4. Here \in Workspace /\ Here.apps \in Registrations
  BY <1>1, FreshFields DEF Workspace
<1>5. Stored(apps, Here.apps) \in Registrations BY <1>4, StoredFields
<1>6. w \in Workspace BY <1>3, <1>4, <1>5 DEF Workspace
<1> HIDE DEF w
<1>7. /\ held' \in [Clients -> Snapshot \cup PreviewOf \cup {None}]
      /\ \A d \in Clients : held'[d] = held[d] \/ held'[d] = None
      /\ baseline' \in [Sessions -> Baseline \cup {None}]
  BY <1>1, <1>2 DEF TypeOK
<1> QED BY <1>1, <1>2, <1>6, <1>7, CommitStep

LEMMA ReadRegistrations ==
    ASSUME TypeOK, NEW c \in Clients, HasRead(c, Environment)
    PROVE  held[c].seen.apps \in Registrations
BY DEF TypeOK, HasRead, Snapshot, PreviewOf, Workspace

LEMMA UpsertApplicationInv ==
    ASSUME IInv, NEW c \in Clients, NEW a \in Apps, NEW meta \in Metas,
           NEW aliases \in SUBSET Aliases, NEW port \in Ports \cup {NoPort},
           UpsertApplication(c, a, meta, aliases, port)
    PROVE  IInv'
<1> DEFINE seen == held[c].seen.apps
           new == [meta |-> meta, aliases |-> aliases, port |-> port,
                   active |-> seen[a] # None /\ seen[a].active]
<1>1. TypeOK /\ Environment \in Scopes /\ Environment \notin Sessions
  BY ScopeAssumption DEF IInv, Scopes
<1>2. /\ HasRead(c, Environment)
      /\ SaveRegistrations(c, [seen EXCEPT ![a] = new])
      /\ told' = [told EXCEPT ![Environment][a].port = port]
  BY DEF UpsertApplication
<1>3. seen \in Registrations BY <1>1, <1>2, ReadRegistrations
<1>4. new \in Config
  <2>1. (seen[a] # None /\ seen[a].active) \in BOOLEAN OBVIOUS
  <2> QED BY <2>1 DEF Config
<1> HIDE DEF seen, new
<1>5. [seen EXCEPT ![a] = new] \in Registrations
  BY <1>3, <1>4 DEF Registrations
<1>6. [told[Environment][a] EXCEPT !.port = port] \in Told
  BY <1>1 DEF TypeOK, Told
<1>7. /\ told' \in [Scopes -> [Apps -> Told]]
      /\ \A s \in Sessions : told'[s] = told[s]
  BY <1>1, <1>2, <1>6 DEF TypeOK, Scopes
<1> QED BY <1>2, <1>5, <1>7, SaveRegistrationsInv

LEMMA DeleteApplicationInv ==
    ASSUME IInv, NEW c \in Clients, NEW a \in Apps, DeleteApplication(c, a)
    PROVE  IInv'
<1> DEFINE seen == held[c].seen.apps
<1>1. TypeOK /\ Environment \in Scopes /\ Environment \notin Sessions
  BY ScopeAssumption DEF IInv, Scopes
<1>2. /\ HasRead(c, Environment)
      /\ SaveRegistrations(c, [seen EXCEPT ![a] = None])
      /\ told' = [told EXCEPT ![Environment][a] = Untold]
  BY DEF DeleteApplication
<1>3. seen \in Registrations BY <1>1, <1>2, ReadRegistrations
<1> HIDE DEF seen
<1>4. [seen EXCEPT ![a] = None] \in Registrations BY <1>3 DEF Registrations
<1>5. Untold \in Told BY DEF Untold, Told
<1>6. /\ told' \in [Scopes -> [Apps -> Told]]
      /\ \A s \in Sessions : told'[s] = told[s]
  BY <1>1, <1>2, <1>5 DEF TypeOK, Scopes
<1> QED BY <1>2, <1>4, <1>6, SaveRegistrationsInv

LEMMA WithAliasFields ==
    ASSUME NEW w \in Workspace, NEW a \in Apps, NEW alias \in Aliases
    PROVE  /\ WithAlias(w, a, alias) \in Workspace
           /\ WithAlias(w, a, alias).ver = w.ver
           /\ WithoutAliases(WithAlias(w, a, alias)) = WithoutAliases(w)
           /\ \A b \in Apps :
                LET new == WithAlias(w, a, alias).apps[b]
                    old == w.apps[b]
                IN  /\ new = None <=> old = None
                    /\ new # None => /\ new.meta = old.meta
                                     /\ new.port = old.port
                                     /\ new.active = old.active
<1> DEFINE new == WithAlias(w, a, alias)
           app == [w.apps[a] EXCEPT !.aliases = @ \cup {alias}]
<1>1. CASE w.apps[a] = None BY <1>1 DEF WithAlias
<1>2. CASE w.apps[a] # None
  <2>1. w.apps[a] \in Config /\ w.apps \in Registrations
    BY <1>2 DEF Workspace, Registrations
  <2>2. /\ app \in Config
        /\ app.meta = w.apps[a].meta
        /\ app.port = w.apps[a].port
        /\ app.active = w.apps[a].active
        /\ app # None
    BY <2>1, NoneAssumption DEF Config
  <2>0. [app EXCEPT !.aliases = {}] = [w.apps[a] EXCEPT !.aliases = {}]
    BY <2>1 DEF Config
  <2>3. new = [w EXCEPT !.apps = [w.apps EXCEPT ![a] = app]]
    BY <1>2 DEF WithAlias
  <2> HIDE DEF app
  <2>4. [w.apps EXCEPT ![a] = app] \in Registrations
    BY <2>1, <2>2 DEF Registrations
  <2>5. /\ new \in Workspace
        /\ new.ver = w.ver
        /\ new.apps = [w.apps EXCEPT ![a] = app]
    BY <2>3, <2>4 DEF Workspace
  <2>6. /\ new.apps[a] = app
        /\ \A b \in Apps \ {a} : new.apps[b] = w.apps[b]
    BY <2>1, <2>5 DEF Registrations
  <2>7. WithoutAliases(new) = WithoutAliases(w)
    <3> DEFINE bare(v) == [b \in Apps |->
                    IF v.apps[b] = None THEN None
                    ELSE [v.apps[b] EXCEPT !.aliases = {}]]
    <3>1. bare(new) = bare(w) BY <1>2, <2>0, <2>2, <2>6
    <3>2. /\ WithoutAliases(new) = [new EXCEPT !.apps = bare(new)]
          /\ WithoutAliases(w) = [w EXCEPT !.apps = bare(w)]
      BY DEF WithoutAliases
    <3> HIDE DEF bare
    <3>3. [new EXCEPT !.apps = bare(new)] = [w EXCEPT !.apps = bare(new)]
      BY <2>3, <2>5 DEF Workspace
    <3> QED BY <3>1, <3>2, <3>3
  <2> HIDE DEF new
  <2> QED BY <1>2, <2>2, <2>5, <2>6, <2>7 DEF new
<1> QED BY <1>1, <1>2

LEMMA RegisterAliasInv ==
    ASSUME IInv, NEW s \in Scopes, NEW a \in Apps, NEW alias \in Aliases,
           RegisterAlias(s, a, alias)
    PROVE  IInv'
<1> DEFINE new(t) == WithAlias(workspaces[t], a, alias)
<1>1. TypeOK /\ nextVersion \in Nat BY DEF IInv, TypeOK
<1>2. /\ nextVersion < MaxVersion
      /\ nextVersion' = nextVersion + 1
      /\ workspaces' = [t \in Scopes |->
            IF ~ Open(t) THEN workspaces[t]
            ELSE IF t = s THEN [new(t) EXCEPT !.ver = nextVersion + 1]
            ELSE new(t)]
      /\ UNCHANGED <<baseline, held, told>>
  BY DEF RegisterAlias
<1>3. nextVersion' \in 0 .. MaxVersion BY <1>1, <1>2, BoundAssumption
<1>4. ASSUME NEW t \in Scopes, Open(t)
      PROVE  /\ workspaces'[t] \in Workspace
             /\ workspaces'[t].apps = new(t).apps
             /\ workspaces'[t].ver =
                    IF t = s THEN nextVersion + 1 ELSE workspaces[t].ver
             /\ t # s => WithoutAliases(workspaces'[t]) =
                            WithoutAliases(workspaces[t])
  <2>1. workspaces[t] \in Workspace BY <1>1, <1>4, OpenFields
  <2>2. /\ new(t) \in Workspace
        /\ new(t).ver = workspaces[t].ver
        /\ WithoutAliases(new(t)) = WithoutAliases(workspaces[t])
    BY <2>1, WithAliasFields
  <2>3. workspaces'[t] = IF t = s THEN [new(t) EXCEPT !.ver = nextVersion + 1]
                         ELSE new(t)
    BY <1>2, <1>4
  <2> HIDE DEF new
  <2> QED BY <1>2, <1>3, <2>2, <2>3 DEF Workspace
<1>5. ASSUME NEW t \in Scopes, ~ Open(t) PROVE workspaces'[t] = workspaces[t]
  BY <1>2, <1>5
<1>6. \A t \in Scopes : Open(t)' <=> Open(t)
  BY <1>4, <1>5, HeldAssumption DEF Open
<1>7. TypeOK'
  <2>1. workspaces' \in [Scopes -> Workspace \cup {None, Closed}]
    <3>1. workspaces' = [t \in Scopes |-> workspaces'[t]] BY <1>2
    <3>2. \A t \in Scopes : workspaces'[t] \in Workspace \cup {None, Closed}
      BY <1>1, <1>4, <1>5 DEF TypeOK
    <3> QED BY <3>1, <3>2
  <2>2. \A t \in Scopes : Open(t)' => workspaces'[t].ver <= nextVersion'
    <3> SUFFICES ASSUME NEW t \in Scopes, Open(t)'
                 PROVE  workspaces'[t].ver <= nextVersion'
      OBVIOUS
    <3>1. Open(t) BY <1>6
    <3>2. workspaces[t].ver \in Nat /\ workspaces[t].ver <= nextVersion
      BY <1>1, <3>1, OpenFields DEF TypeOK
    <3>3. workspaces'[t].ver = IF t = s THEN nextVersion + 1
                               ELSE workspaces[t].ver
      BY <1>4, <3>1
    <3> HIDE DEF new
    <3> QED BY <1>1, <1>2, <3>2, <3>3
  <2>3. Open(Environment)' BY <1>1, <1>6 DEF TypeOK, Scopes
  <2>4. \A t \in Sessions : Open(t)' => baseline'[t] # None
    BY <1>1, <1>2, <1>6 DEF TypeOK, Scopes
  <2> QED BY <1>1, <1>2, <1>3, <2>1, <2>2, <2>3, <2>4 DEF TypeOK
<1>8. \A t \in Sessions : SessionInv(t)'
  <2> SUFFICES ASSUME NEW t \in Sessions PROVE SessionInv(t)' OBVIOUS
  <2>1. t \in Scopes /\ SessionInv(t) BY DEF IInv, Scopes
  <2>2. CASE ~ Open(t)
    <3>1. ~ Open(t)' BY <1>6, <2>1, <2>2
    <3> QED BY <1>2, <2>1, <2>2, <3>1 DEF SessionInv
  <2>3. CASE Open(t)
    <3>1. workspaces[t] \in Workspace BY <1>1, <2>1, <2>3, OpenFields
    <3>2. workspaces'[t].apps = new(t).apps BY <1>4, <2>1, <2>3
    <3>3. \A b \in Apps :
            LET n == workspaces'[t].apps[b]
                o == workspaces[t].apps[b]
            IN  /\ n = None <=> o = None
                /\ n # None => /\ n.meta = o.meta
                               /\ n.port = o.port
                               /\ n.active = o.active
      BY <3>1, <3>2, WithAliasFields
    <3>4. \A b \in Apps :
            AppInv(workspaces[t].apps[b], baseline[t].apps[b], told[t][b])
      BY <2>1, <2>3 DEF SessionInv
    <3>5. \A b \in Apps :
            AppInv(workspaces'[t].apps[b], baseline[t].apps[b], told[t][b])
      BY <3>3, <3>4 DEF AppInv
    <3>6. Open(t)' BY <1>6, <2>1, <2>3
    <3> QED BY <1>2, <3>5, <3>6 DEF SessionInv
  <2> QED BY <2>2, <2>3
<1>9. VersionIdentifiesState' /\ VersionsBelow' /\ PreviewsTell'
  <2>1. nextVersion' >= nextVersion BY <1>1, <1>2
  <2>2. ASSUME NEW t \in Scopes, Open(t)'
        PROVE  \/ workspaces'[t].ver > nextVersion
               \/ /\ Open(t)
                  /\ workspaces'[t].ver = workspaces[t].ver
                  /\ WithoutAliases(workspaces'[t]) =
                        WithoutAliases(workspaces[t])
    <3>1. Open(t) BY <1>6, <2>2
    <3> QED BY <1>1, <1>4, <3>1
  <2> QED BY <1>1, <1>2, <1>7, <2>1, <2>2, VersionsStep DEF IInv
<1> QED BY <1>7, <1>8, <1>9 DEF IInv

----------------------------------------------------------------------------
(* The theorems.                                                            *)

LEMMA InitInv == ASSUME Init PROVE IInv
<1>1. PICK regs \in [Apps -> {Plain(m) : m \in Metas} \cup {None}],
           r \in Remotes, d \in Domains :
        workspaces =
            [s \in Scopes |->
                IF s = Environment
                THEN [ver |-> 0, apps |-> regs, remote |-> r, domain |-> d]
                ELSE None]
  BY DEF Init
<1>2. regs \in Registrations
  <2>1. \A m \in Metas : Plain(m) \in Config BY DEF Plain, Config
  <2> QED BY <2>1 DEF Registrations
<1> DEFINE w == [ver |-> 0, apps |-> regs, remote |-> r, domain |-> d]
<1>3. w \in Workspace /\ w.ver = 0 BY <1>2, BoundAssumption DEF Workspace
<1> HIDE DEF w
<1>4. /\ workspaces[Environment] = w
      /\ \A s \in Sessions : workspaces[s] = None
      /\ \A s \in Scopes : workspaces[s] # w => workspaces[s] = None
      /\ workspaces \in [Scopes -> Workspace \cup {None, Closed}]
  BY <1>1, <1>3, ScopeAssumption DEF Scopes, w
<1>5. \A s \in Sessions : ~ Open(s) BY <1>4 DEF Open
<1>6. TypeOK
  <2>1. Untold \in Told BY DEF Untold, Told
  <2>2. \A s \in Scopes : Open(s) => workspaces[s].ver <= 0
    BY <1>3, <1>4 DEF Open
  <2>3. Open(Environment) BY <1>3, <1>4, HeldAssumption DEF Open
  <2> QED BY <1>4, <1>5, <2>1, <2>2, <2>3, BoundAssumption DEF Init, TypeOK
<1>7. \A s \in Sessions : SessionInv(s)
  BY <1>5 DEF Init, SessionInv, Scopes
<1>8. VersionIdentifiesState /\ VersionsBelow /\ PreviewsTell
  BY DEF Init, VersionIdentifiesState, VersionsBelow, PreviewsTell
<1> QED BY <1>6, <1>7, <1>8 DEF IInv

LEMMA NextInv == ASSUME IInv, [Next]_vars PROVE IInv'
<1>1. ASSUME NEW c \in Clients, Refreshing(c) PROVE IInv'
  BY <1>1, ApplyRefreshInv, PreviewInv DEF Refreshing
<1>2. ASSUME NEW c \in Clients, EditingEnvironment(c) PROVE IInv'
  BY <1>2, UpsertApplicationInv, DeleteApplicationInv DEF EditingEnvironment
<1>3. ASSUME NEW s \in Sessions, EditingSession(s) PROVE IInv'
  BY <1>3, CreateSessionInv, CloseSessionInv, EditSessionApplicationInv,
     RemoveSessionApplicationInv DEF EditingSession
<1>4. ASSUME NEW s \in Scopes, EditingScope(s) PROVE IInv'
  BY <1>4, ToggleInv, RegisterAliasInv, ReadInv, SaveSettingsInv
     DEF EditingScope
<1>5. CASE UNCHANGED vars
  BY <1>5 DEF vars, IInv, TypeOK, SessionInv, VersionIdentifiesState,
              VersionsBelow, PreviewsTell, PreviewTells, MergedFrom, Open
<1> QED BY <1>1, <1>2, <1>3, <1>4, <1>5 DEF Next

(* The inductive invariant of the sessions.                                 *)
THEOREM Invariant == Spec => []IInv
<1> QED BY InitInv, NextInv, PTL DEF Spec

(* Workspaces, baselines and what clients hold keep their types.            *)
THEOREM TypeCorrect == Spec => []TypeOK
<1>1. IInv => TypeOK BY DEF IInv
<1> QED BY <1>1, Invariant, PTL

(* A session routes locally what its clients registered and toggled there,  *)
(* whatever the environment, refreshes and dialogs do.                      *)
THEOREM RoutingIsOwn == Spec => []LocalRoutingIsOwn
<1>1. ASSUME IInv PROVE LocalRoutingIsOwn
  <2> SUFFICES ASSUME NEW s \in Sessions, Open(s), NEW a \in Apps
               PROVE  LET cur == workspaces[s].apps[a]
                      IN  IF cur = None
                          THEN told[s][a].port = NoPort /\ ~ told[s][a].active
                          ELSE /\ cur.port = told[s][a].port
                               /\ cur.active = told[s][a].active
    BY DEF LocalRoutingIsOwn, RoutingIsTold
  <2>1. AppInv(workspaces[s].apps[a], baseline[s].apps[a], told[s][a])
    BY <1>1 DEF IInv, SessionInv
  <2> QED BY <2>1 DEF AppInv
<1> QED BY <1>1, Invariant, PTL

(* Metadata is the baseline's that no client edited in the session and no   *)
(* save of its settings filled in.                                          *)
THEOREM UntouchedFollows == Spec => []UntouchedIsInherited
<1>1. ASSUME IInv PROVE UntouchedIsInherited
  BY <1>1 DEF IInv, SessionInv, AppInv, UntouchedIsInherited
<1> QED BY <1>1, Invariant, PTL

(* An application that was removed from a session stays away.               *)
THEOREM RemovedStaysAway == Spec => []RemovalsKept
<1>1. ASSUME IInv PROVE RemovalsKept
  BY <1>1 DEF IInv, SessionInv, AppInv, RemovalsKept
<1> QED BY <1>1, Invariant, PTL

(* Equal versions are equal states, aliases apart.                          *)
THEOREM VersionsTell == Spec => []VersionIdentifiesState
<1>1. IInv => VersionIdentifiesState BY DEF IInv
<1> QED BY <1>1, Invariant, PTL

----------------------------------------------------------------------------
(* What a refresh that is applied does.                                     *)

(* The workspace, the environment and the baseline after an apply.          *)
LEMMA AppliedFacts ==
    ASSUME IInv, NEW c \in Clients, NEW s \in Sessions,
           ApplyRefresh(c), held[c].scope = s
    PROVE  /\ TypeOK
           /\ Open(s)
           /\ held[c].token = TokenOf(s)
           /\ Refreshed(s) \in Workspace
           /\ Valid(Refreshed(s).apps)
           /\ workspaces'[s] = [Refreshed(s) EXCEPT !.ver = nextVersion + 1]
           /\ workspaces'[s] \in Workspace
           /\ workspaces'[s].apps = Refreshed(s).apps
           /\ workspaces'[s].remote = Refreshed(s).remote
           /\ workspaces'[s].domain = Refreshed(s).domain
           /\ workspaces'[Environment] = workspaces[Environment]
           /\ baseline'[s] = NewBaseline(s)
<1>1. TypeOK BY DEF IInv
<1>2. /\ Open(s)
      /\ held[c].token = TokenOf(s)
      /\ Commit(s, Refreshed(s))
      /\ baseline' = [baseline EXCEPT ![s] = NewBaseline(s)]
  BY DEF ApplyRefresh
<1>3. s \in Scopes /\ Environment \in Scopes /\ Environment # s
  BY ScopeAssumption DEF Scopes
<1>4. Refreshed(s) \in Workspace BY <1>1, <1>2, OpenSession
<1>5. /\ workspaces'[s] = [Refreshed(s) EXCEPT !.ver = nextVersion + 1]
      /\ workspaces'[s] \notin {None, Closed}
      /\ workspaces' \in [Scopes -> Workspace \cup {None, Closed}]
      /\ workspaces'[Environment] = workspaces[Environment]
  BY <1>1, <1>2, <1>3, <1>4, CommitFacts
<1>6. /\ workspaces'[s] \in Workspace
      /\ workspaces'[s].apps = Refreshed(s).apps
      /\ workspaces'[s].remote = Refreshed(s).remote
      /\ workspaces'[s].domain = Refreshed(s).domain
  BY <1>3, <1>4, <1>5 DEF Workspace
<1>7. baseline'[s] = NewBaseline(s) BY <1>1, <1>2 DEF TypeOK
<1>8. Valid(Refreshed(s).apps) BY <1>2 DEF Commit
<1> QED BY <1>1, <1>2, <1>4, <1>5, <1>6, <1>7, <1>8

(* Whoever holds a preview and applies it gets the registrations and the    *)
(* remote URL of the preview: the token covers all that the merge reads,    *)
(* the session's own remote URL through its version.                        *)
THEOREM AppliedIsPreviewed == Spec => ApplyIsPreviewed
<1>1. ASSUME IInv, NEW c \in Clients, ApplyRefresh(c)
      PROVE  LET shown == held[c].shown
                 now == workspaces'[held[c].scope]
             IN  now.apps = shown.apps /\ now.remote = shown.remote
  <2> DEFINE s == held[c].scope
  <2>1. s \in Sessions
    <3>1. held[c] \in PreviewOf BY <1>1 DEF IInv, ApplyRefresh, TypeOK, Snapshot
    <3> QED BY <3>1 DEF PreviewOf
  <2>2. PreviewTells(held[c])
    BY <1>1 DEF IInv, PreviewsTell, ApplyRefresh
  <2>3. s = held[c].scope OBVIOUS
  <2> HIDE DEF s
  <2>4. /\ Open(s)
        /\ held[c].token = TokenOf(s)
        /\ workspaces'[s].apps = Refreshed(s).apps
        /\ workspaces'[s].remote = Refreshed(s).remote
    BY <1>1, <2>1, <2>3, AppliedFacts
  <2>5. /\ TokenOf(s).revision = workspaces[s].ver
        /\ Refreshed(s).apps = MergedFrom(TokenOf(s))
        /\ Refreshed(s).remote = RemoteFrom(TokenOf(s), workspaces[s].remote)
    BY <2>1, RefreshedFromToken
  <2>6. /\ held[c].shown.apps = MergedFrom(TokenOf(s))
        /\ held[c].shown.remote = RemoteFrom(TokenOf(s), workspaces[s].remote)
    BY <2>2, <2>3, <2>4, <2>5 DEF PreviewTells
  <2> QED BY <2>3, <2>4, <2>5, <2>6
<1>2. IInv /\ [Next]_vars =>
        [\A c \in Clients :
            ApplyRefresh(c) =>
                LET shown == held[c].shown
                    now == workspaces'[held[c].scope]
                IN  now.apps = shown.apps /\ now.remote = shown.remote]_vars
  BY <1>1
<1> QED BY <1>2, Invariant, PTL DEF Spec, ApplyIsPreviewed

(* A merge with the baseline that it started from changes nothing.          *)
LEMMA MergeSettled ==
    ASSUME NEW cur \in Config \cup {None}, NEW old \in Config \cup {None}
    PROVE  MergedApp(cur, old, old) = cur /\ ~ Conflict(cur, old, old)
<1>1. ~ Conflict(cur, old, old) BY DEF Conflict
<1>2. CASE cur = None BY <1>1, <1>2 DEF MergedApp
<1>3. CASE cur # None /\ old = None BY <1>1, <1>3 DEF MergedApp
<1>4. CASE cur # None /\ old # None
  <2>1. MergedApp(cur, old, old) = MergedFields(cur, old, old)
    BY <1>4 DEF MergedApp
  <2>2. MergedFields(cur, old, old) = cur BY <1>4 DEF MergedFields, Config
  <2> QED BY <1>1, <2>1, <2>2
<1> QED BY <1>1, <1>2, <1>3, <1>4

(* Neither does storing registrations over themselves.                      *)
LEMMA StoredAgain ==
    ASSUME NEW apps \in Registrations
    PROVE  Stored(apps, apps) = apps
<1>1. ASSUME NEW a \in Apps PROVE Stored(apps, apps)[a] = apps[a]
  <2>1. CASE apps[a] = None BY <2>1 DEF Stored
  <2>2. CASE apps[a] # None
    <3>1. apps[a] \in Config BY <2>2 DEF Registrations
    <3>2. Stored(apps, apps)[a] =
            [apps[a] EXCEPT !.aliases = IF @ = {} THEN apps[a].aliases ELSE @,
                            !.active = apps[a].active]
      BY <2>2 DEF Stored
    <3> QED BY <3>1, <3>2 DEF Config
  <2> QED BY <2>1, <2>2
<1>2. Stored(apps, apps) = [a \in Apps |-> Stored(apps, apps)[a]]
  BY DEF Stored
<1>3. apps = [a \in Apps |-> apps[a]] BY DEF Registrations
<1> QED BY <1>1, <1>2, <1>3

(* After a refresh the session is what the next refresh would make of it,   *)
(* and nothing conflicts: baseline and environment are the same then.       *)
THEOREM RefreshesSettle == Spec => RefreshSettles
<1>1. ASSUME IInv, NEW c \in Clients, NEW s \in Sessions,
             ApplyRefresh(c), held[c].scope = s
      PROVE  UpToDate(s)'
  <2> DEFINE w == workspaces'[s]
  <2>1. /\ TypeOK
        /\ Valid(Refreshed(s).apps)
        /\ w \in Workspace
        /\ w.apps = Refreshed(s).apps
        /\ w.domain = Refreshed(s).domain
        /\ workspaces'[Environment] = workspaces[Environment]
        /\ baseline'[s] = NewBaseline(s)
    BY <1>1, AppliedFacts
  <2>2. Here' = Here /\ Fresh' = Fresh BY <2>1 DEF Here, Fresh
  <2>3. baseline'[s].apps = Fresh /\ baseline'[s].remote = Here.remote
    BY <2>1 DEF NewBaseline
  <2>4. w.domain = Here.domain BY <2>1 DEF Refreshed
  <2>5. w.apps \in Registrations /\ Fresh \in Registrations
    BY <2>1, FreshFields DEF Workspace
  <2>6. /\ \A a \in Apps : MergedApp(w.apps[a], Fresh[a], Fresh[a]) = w.apps[a]
        /\ \A a \in Apps : ~ Conflict(w.apps[a], Fresh[a], Fresh[a])
    BY <2>5, MergeSettled DEF Registrations
  <2>7. MergedApps(s)' = w.apps
    <3>1. MergedApps(s)' =
            [a \in Apps |-> MergedApp(w.apps[a], Fresh[a], Fresh[a])]
      BY <2>2, <2>3 DEF MergedApps
    <3>2. w.apps = [a \in Apps |-> w.apps[a]] BY <2>5 DEF Registrations
    <3> QED BY <2>6, <3>1, <3>2
  <2>8. Refreshed(s)' = w
    <3>1. Refreshed(s)' =
            [ver |-> w.ver, apps |-> Stored(w.apps, w.apps),
             remote |-> IF w.remote = Here.remote THEN Here.remote ELSE w.remote,
             domain |-> Here.domain]
      BY <2>2, <2>3, <2>7 DEF Refreshed
    <3>2. Stored(w.apps, w.apps) = w.apps BY <2>5, StoredAgain
    <3>3. w = [ver |-> w.ver, apps |-> w.apps,
               remote |-> w.remote, domain |-> w.domain]
      BY <2>1 DEF Workspace
    <3> HIDE DEF w
    <3> QED BY <2>4, <3>1, <3>2, <3>3
  <2>9. NoConflicts(s)'
    <3>1. \A a \in Apps : ~ Conflict(w.apps[a], baseline'[s].apps[a], Fresh'[a])
      BY <2>2, <2>3, <2>6
    <3>2. Valid(Refreshed(s)'.apps) BY <2>1, <2>8
    <3> QED BY <3>1, <3>2 DEF NoConflicts, Valid
  <2> QED BY <2>8, <2>9 DEF UpToDate
<1>2. IInv /\ [Next]_vars =>
        [\A c \in Clients, s \in Sessions :
            ApplyRefresh(c) /\ held[c].scope = s => UpToDate(s)']_vars
  BY <1>1
<1> QED BY <1>2, Invariant, PTL DEF Spec, RefreshSettles
=============================================================================
