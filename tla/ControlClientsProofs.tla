------------------------ MODULE ControlClientsProofs ------------------------
(***************************************************************************)
(* Proofs about the clients of the daemon.  What a call knows is a         *)
(* statement about its record and about what its scope has had since it    *)
(* began; the latter only grows, so other clients cannot take it away.     *)
(***************************************************************************)
EXTENDS ControlClients, TLAPS

Record == [at : Labels, req : Request \cup {None}, session : Sessions \cup {None},
           app : Apps \cup {None}, base : Nat, ok : BOOLEAN]

Registering == Announcements \cup {"register", "cli register"}
Activates(req) == req.tool \in Announcements /\ req.local

(* Which tools and commands make an RPC.                                    *)
Reaches(at, req, session) ==
    /\ at = "get" => req.tool = "get"
    /\ at \in {"compare", "confirm"} => req.tool \in {"register", "announce"}
    /\ at \in {"view", "upsert", "save"} => req.tool \in Registering
    /\ at \in {"ensure", "create", "creating", "again"} => req.tool \in Announcements
    /\ at \in {"route", "plan", "apply", "after"} => req.tool = "set_route" \/ Activates(req)
    /\ at = "before" => req.tool = "toggle"
    /\ at = "look" => Activates(req)
    /\ at = "flip" => req.tool \in {"toggle", "cli toggle"} \/ Activates(req)
    /\ at = "set all" => req.tool = "set_all"
    /\ at \in {"remove", "removing"} => req.tool = "unregister"
    /\ at = "open" => req.tool = "session_create"
    /\ at \in {"inspect", "drop"} => req.tool \in {"session_close", "workspace delete"}
    /\ at \notin {"idle", "done"} /\ req.tool \in Announcements
            => session = None /\ req.ws \in Environments

PortWas(req, S) == \E app \in S \ {None} : app.port = req.port
RouteWas(req, S) == \E app \in S \ {None} : app.active = req.local

(* What a call has established on its way to an RPC.                        *)
Progress(at, req, S) ==
    /\ at \in {"confirm", "view"} => PortWas(req, S)
    /\ at \in {"route", "look", "plan", "apply", "after", "flip"} /\ req.tool \in Announcements
            => PortWas(req, S)
    /\ at = "after" => RouteWas(req, S)

(* What a successful answer says.                                           *)
Truth(req, app, S) ==
    /\ req.tool \in Registering => PortWas(req, S)
    /\ req.tool = "set_route" \/ Activates(req) => RouteWas(req, S)
    /\ req.tool = "unregister" => None \in S
    /\ req.tool \notin SessionTools \cup {"workspace delete"} => app \in S

Sound(r, S) ==
    r.at # "idle" =>
        /\ Reaches(r.at, r.req, r.session)
        /\ Progress(r.at, r.req, S)
        /\ r.at = "done" /\ r.ok => Truth(r.req, r.app, S)

SelectorIsHome == selector = home

SessionIsSelected ==
    \A c \in Clients : ~ At(c, "idle") => call[c].session = Selection(home[c], Asks(c))

CallsAreSound == \A c \in Clients : Sound(call[c], seen[c])

SeenIsCurrent == \A c \in Clients : Running(c) /\ Goal(c) # None => App(c) \in seen[c]

IInv ==
    /\ TypeOK
    /\ SelectorIsHome
    /\ SessionIsSelected
    /\ CallsAreSound
    /\ SeenIsCurrent
    /\ CallsStayInScope
    /\ OneProtocol

-----------------------------------------------------------------------------
(* What the parts of a state are.                                           *)

LEMMA GoalType ==
    ASSUME TypeOK, NEW c \in Clients, Running(c)
    PROVE  /\ call[c] \in Record /\ Asks(c) \in Request
           /\ Goal(c) \in Scopes \cup {None}
           /\ Goal(c) # None => App(c) \in Apps \cup {None}
<1>1. call[c] \in Record
    BY DEF TypeOK, Record
<1>2. Asks(c) \in Request
    BY <1>1 DEF TypeOK, Record, Running, Asks
<1>3. Goal(c) \in Scopes \cup {None}
    BY <1>1, <1>2 DEF Goal, Resolved, Asks, Record, Request, Scopes
<1>4. Goal(c) # None => App(c) \in Apps \cup {None}
    BY <1>3, NamesAssumption DEF App, AppIn, TypeOK, Scope
<1> QED BY <1>1, <1>2, <1>3, <1>4

(* An RPC is served from the scope that the client means.                   *)
LEMMA GoalIsMeant ==
    ASSUME IInv, NEW c \in Clients, Running(c), Goal(c) # None
    PROVE  Goal(c) = Meant(c)
<1>1. call[c].session = Selection(home[c], Asks(c))
    BY DEF IInv, SessionIsSelected, Running, At
<1>2. Asks(c).tool \in Announcements => call[c].session = None
    BY DEF IInv, CallsAreSound, Sound, Reaches, Running, Asks
<1> QED BY <1>1, <1>2 DEF Goal, Meant, Resolved, Asks

(* What a call knows is not lost when its scope changes.                    *)
LEMMA SoundGrows ==
    ASSUME NEW r, NEW S, NEW T, S \subseteq T, Sound(r, S)
    PROVE  Sound(r, T)
<1>1. PortWas(r.req, S) => PortWas(r.req, T)
    BY DEF PortWas
<1>2. RouteWas(r.req, S) => RouteWas(r.req, T)
    BY DEF RouteWas
<1>3. Progress(r.at, r.req, S) => Progress(r.at, r.req, T)
    BY <1>1, <1>2 DEF Progress
<1>4. Truth(r.req, r.app, S) => Truth(r.req, r.app, T)
    BY <1>1, <1>2 DEF Truth
<1> QED BY <1>3, <1>4 DEF Sound

-----------------------------------------------------------------------------
(* Where a call goes from an RPC.                                           *)

Moved(c) ==
    \E r \in Record :
        /\ call' = [call EXCEPT ![c] = r]
        /\ r.req = call[c].req /\ r.session = call[c].session
        /\ r.at # "idle"
        /\ Sound(r, seen'[c])

LEMMA EndMoves ==
    ASSUME TypeOK, NEW c \in Clients, Running(c),
           NEW ok \in BOOLEAN, NEW app \in Apps \cup {None}, Ends(c, ok, app),
           ok => Truth(Asks(c), app, seen'[c])
    PROVE  Moved(c)
<1> DEFINE r == [call[c] EXCEPT !.at = "done", !.ok = ok, !.app = app, !.base = 0]
<1>1. call[c] \in Record
    BY DEF TypeOK, Record
<1>2. "done" \in Labels
    BY DEF Labels
<1>3. r \in Record
    BY <1>1, <1>2 DEF Record
<1>4. r.at = "done" /\ r.req = call[c].req /\ r.session = call[c].session /\ r.app = app
    BY <1>1 DEF Record
<1>5. r.ok = ok
    BY <1>1 DEF Record
<1>6. call' = [call EXCEPT ![c] = r]
    BY DEF Ends
<1>7. Sound(r, seen'[c])
    <2>1. Reaches("done", r.req, r.session) BY DEF Reaches
    <2>2. Progress("done", r.req, seen'[c]) BY DEF Progress
    <2>3. r.ok => Truth(r.req, r.app, seen'[c]) BY <1>4, <1>5 DEF Asks
    <2> QED BY <2>1, <2>2, <2>3, <1>4 DEF Sound
<1> HIDE DEF r
<1> QED BY <1>3, <1>4, <1>6, <1>7 DEF Moved

LEMMA FailMoves ==
    ASSUME TypeOK, NEW c \in Clients, Running(c), Fails(c)
    PROVE  Moved(c)
BY EndMoves DEF Fails

LEMMA GoMoves ==
    ASSUME TypeOK, NEW c \in Clients, Running(c),
           NEW label \in Labels \ {"idle", "done"}, Goes(c, label),
           Reaches(label, Asks(c), call[c].session), Progress(label, Asks(c), seen'[c])
    PROVE  Moved(c)
<1> DEFINE r == [at |-> label, req |-> call[c].req, session |-> call[c].session,
                 app |-> call[c].app, base |-> call[c].base, ok |-> call[c].ok]
<1>1. call[c] \in Record
    BY DEF TypeOK, Record
<1>2. r \in Record
    BY <1>1 DEF Record
<1>3. call' = [call EXCEPT ![c] = r]
    <2>1. [call[c] EXCEPT !.at = label] = r
        BY <1>1 DEF Record
    <2> QED BY <2>1 DEF Goes
<1>4. Sound(r, seen'[c])
    BY DEF Sound, Asks
<1> QED BY <1>2, <1>3, <1>4 DEF Moved
-----------------------------------------------------------------------------
(* What an RPC does beside that.                                            *)

Quiet == UNCHANGED <<serverVars, seen>>

Changes ==
    \E s \in Scopes, x \in Scope \cup {None} :
        /\ Commit(s, x)
        /\ x # None => x.version = clock + 1
        /\ opened \subseteq opened' /\ opened' \subseteq Sessions
        /\ s \in Sessions /\ x # None => s \in opened' /\ scopes[Parent[s]] # None
        /\ x = None => \A t \in Sessions : scopes[t] # None => Parent[t] # s

Served(c) ==
    /\ UNCHANGED clientVars
    /\ \/ UNCHANGED touched
       \/ Goal(c) # None /\ touched' = [touched EXCEPT ![c] = @ \cup {Goal(c)}]

Stepped(c) == Served(c) /\ (Quiet \/ Changes) /\ Moved(c)

LEMMA ServesGives ==
    ASSUME IInv, NEW c \in Clients, NEW label \in Labels \ {"idle", "done"}, Serves(c, label)
    PROVE  /\ Running(c) /\ Served(c)
           /\ Asks(c) \in Request
           /\ Goal(c) \in Scopes
           /\ App(c) \in Apps \cup {None}
           /\ App(c) \in seen[c]
           /\ Reaches(label, Asks(c), call[c].session)
           /\ Progress(label, Asks(c), seen[c])
<1>1. call[c].at = label /\ Running(c) /\ Goal(c) # None
    BY DEF Serves, At, Running
<1>2. Asks(c) \in Request /\ Goal(c) \in Scopes /\ App(c) \in Apps \cup {None}
    BY <1>1, GoalType DEF IInv
<1>3. App(c) \in seen[c]
    BY <1>1 DEF IInv, SeenIsCurrent
<1>4. Sound(call[c], seen[c])
    BY DEF IInv, CallsAreSound
<1>5. Reaches(label, Asks(c), call[c].session) /\ Progress(label, Asks(c), seen[c])
    BY <1>1, <1>4 DEF Sound, Asks
<1>6. Served(c)
    BY DEF Serves, Served
<1> QED BY <1>1, <1>2, <1>3, <1>5, <1>6

(* A call sees what is published in its scope.                              *)
LEMMA CommitSeen ==
    ASSUME IInv, NEW c \in Clients, Running(c), NEW s, NEW x, Commit(s, x)
    PROVE  /\ seen[c] \subseteq seen'[c]
           /\ s = Goal(c) /\ s # None => AppIn(x) \in seen'[c]
<1>1. Goal(c) # None => Goal(c) = Meant(c)
    BY GoalIsMeant
<1>2. seen'[c] = IF Running(c) /\ Meant(c) = s THEN seen[c] \cup {AppIn(x)} ELSE seen[c]
    BY DEF Commit
<1> QED BY <1>1, <1>2

(* An application is published in a scope that exists, or whose environment *)
(* has just been created.                                                   *)
LEMMA PublishChanges ==
    ASSUME IInv, NEW s \in Scopes, NEW app \in Apps \cup {None}, Publish(s, app),
           scopes[s] # None \/ s \in Environments
    PROVE  Changes
<1> DEFINE x == [app |-> app, version |-> clock + 1]
<1>1. x \in Scope /\ x # None /\ x.version = clock + 1
    BY NamesAssumption DEF IInv, TypeOK, Scope
<1>2. Commit(s, x) /\ opened' = opened
    BY DEF Publish
<1>3. opened \subseteq Sessions
    BY DEF IInv, TypeOK
<1>4. s \in Sessions => s \in opened /\ scopes[Parent[s]] # None
    BY NamesAssumption DEF IInv, TypeOK
<1> HIDE DEF x
<1> QED BY <1>1, <1>2, <1>3, <1>4 DEF Changes

LEMMA PublishSeen ==
    ASSUME IInv, NEW c \in Clients, Running(c), Goal(c) \in Scopes,
           NEW app \in Apps \cup {None}, Publish(Goal(c), app)
    PROVE  seen[c] \subseteq seen'[c] /\ app \in seen'[c]
<1> DEFINE x == [app |-> app, version |-> clock + 1]
<1>1. Commit(Goal(c), x)
    BY DEF Publish
<1>2. x \in Scope
    BY DEF IInv, TypeOK, Scope
<1>3. AppIn(x) = app
    BY <1>2, NamesAssumption DEF AppIn
<1> HIDE DEF x
<1>4. seen[c] \subseteq seen'[c] /\ AppIn(x) \in seen'[c]
    BY <1>1, CommitSeen, NamesAssumption
<1> QED BY <1>3, <1>4

(* The same knowledge, for more of what was seen.                           *)
LEMMA ProgressGrows ==
    ASSUME NEW at, NEW req, NEW S, NEW T, S \subseteq T, Progress(at, req, S)
    PROVE  Progress(at, req, T)
<1>1. PortWas(req, S) => PortWas(req, T)
    BY DEF PortWas
<1>2. RouteWas(req, S) => RouteWas(req, T)
    BY DEF RouteWas
<1> QED BY <1>1, <1>2 DEF Progress

-----------------------------------------------------------------------------
(* RPCs that read.                                                          *)

LEMMA FailSteps ==
    ASSUME IInv, NEW c \in Clients, Running(c), Served(c), Quiet, Fails(c)
    PROVE  Stepped(c)
BY FailMoves DEF Stepped, IInv

(* A read that lets the call go on to an RPC about which it knows enough.   *)
LEMMA GoSteps ==
    ASSUME IInv, NEW c \in Clients, Running(c), Served(c), Quiet,
           NEW label \in Labels \ {"idle", "done"}, Goes(c, label),
           Reaches(label, Asks(c), call[c].session), Progress(label, Asks(c), seen[c])
    PROVE  Stepped(c)
<1>1. seen'[c] = seen[c]
    BY DEF Quiet
<1> QED BY <1>1, GoMoves DEF Stepped, IInv

LEMMA AnswerSteps ==
    ASSUME IInv, NEW c \in Clients, Running(c), Served(c), Quiet,
           NEW app \in Apps \cup {None}, Answers(c, app), Truth(Asks(c), app, seen[c])
    PROVE  Stepped(c)
<1>1. seen'[c] = seen[c]
    BY DEF Quiet
<1>2. Moved(c)
    BY <1>1, EndMoves DEF Answers, IInv
<1> QED BY <1>2 DEF Stepped

(* What a read has established by itself.                                   *)
LEMMA ReadsGives ==
    ASSUME IInv, NEW c \in Clients, NEW label \in Labels \ {"idle", "done"}, Reads(c, label)
    PROVE  /\ Running(c) /\ Served(c) /\ Quiet
           /\ Asks(c) \in Request /\ Goal(c) \in Scopes
           /\ App(c) \in Apps \cup {None} /\ App(c) \in seen[c]
           /\ Reaches(label, Asks(c), call[c].session) /\ Progress(label, Asks(c), seen[c])
           /\ Missing(c) => App(c) = None
BY ServesGives DEF Reads, Quiet, Missing, App, AppIn

LEMMA GetApplicationSteps ==
    ASSUME IInv, NEW c \in Clients, GetApplication(c)
    PROVE  Stepped(c)
<1>1. PICK label \in {"get", "after"} :
        /\ Reads(c, label)
        /\ IF App(c) = None THEN Fails(c) ELSE Answers(c, App(c))
    BY DEF GetApplication
<1>2. label \in Labels \ {"idle", "done"}
    BY DEF Labels
<1>3. CASE App(c) = None
    BY <1>1, <1>2, <1>3, ReadsGives, FailSteps
<1>4. CASE App(c) # None
    <2>1. Truth(Asks(c), App(c), seen[c])
        BY <1>1, <1>2, ReadsGives
           DEF Truth, Reaches, Progress, Registering, Announcements, Activates
    <2> QED BY <1>1, <1>2, <1>4, <2>1, ReadsGives, AnswerSteps
<1> QED BY <1>3, <1>4

LEMMA RegisteredSteps ==
    ASSUME IInv, NEW c \in Clients, NEW label \in {"confirm", "view"}, Reads(c, label),
           App(c) # None, Registered(c, App(c))
    PROVE  Stepped(c)
<1>1. label \in Labels \ {"idle", "done"}
    BY DEF Labels
<1>2. /\ Reaches(label, Asks(c), call[c].session) /\ PortWas(Asks(c), seen[c])
      /\ Asks(c).tool \in Registering
    <2>1. Reaches(label, Asks(c), call[c].session) /\ Progress(label, Asks(c), seen[c])
        BY <1>1, ReadsGives
    <2> QED BY <2>1 DEF Reaches, Progress, Registering, Announcements
<1>3. CASE Asks(c).tool \in Announcements /\ Asks(c).local
    <2>1. PICK to \in {"route", "look"} : Goes(c, to)
        BY <1>3 DEF Registered
    <2>2. to \in Labels \ {"idle", "done"}
        BY DEF Labels
    <2>3. Reaches(to, Asks(c), call[c].session)
        BY <1>1, <1>2, <1>3 DEF Reaches, Activates
    <2>4. Progress(to, Asks(c), seen[c])
        BY <1>2 DEF Progress
    <2> QED BY <1>1, <2>1, <2>2, <2>3, <2>4, ReadsGives, GoSteps
<1>4. CASE ~ (Asks(c).tool \in Announcements /\ Asks(c).local)
    <2>1. Truth(Asks(c), App(c), seen[c])
        BY <1>1, <1>2, <1>4, ReadsGives DEF Truth, Activates, Registering, Announcements
    <2> QED BY <1>1, <1>4, <2>1, ReadsGives, AnswerSteps DEF Registered
<1> QED BY <1>3, <1>4

LEMMA ConfirmSteps ==
    ASSUME IInv, NEW c \in Clients, Confirm(c)
    PROVE  Stepped(c)
<1>1. PICK label \in {"confirm", "view"} :
        /\ Reads(c, label)
        /\ IF App(c) = None THEN Fails(c) ELSE Registered(c, App(c))
    BY DEF Confirm
<1>2. label \in Labels \ {"idle", "done"}
    BY DEF Labels
<1> QED BY <1>1, <1>2, ReadsGives, FailSteps, RegisteredSteps

LEMMA CompareSteps ==
    ASSUME IInv, NEW c \in Clients, Compare(c)
    PROVE  Stepped(c)
<1>1. Reads(c, "compare") /\ "compare" \in Labels \ {"idle", "done"}
    BY DEF Compare, Labels
<1>2. CASE Missing(c)
    BY <1>1, <1>2, ReadsGives, FailSteps DEF Compare
<1>3. CASE ~ Missing(c)
    <2>1. PICK to \in {"confirm", "upsert"} :
            Goes(c, to) /\ (to = "confirm" => Unchanged(App(c), Asks(c)))
        BY <1>3 DEF Compare
    <2>2. to \in Labels \ {"idle", "done"}
        BY DEF Labels
    <2>3. Reaches(to, Asks(c), call[c].session)
        <3>1. Reaches("compare", Asks(c), call[c].session)
            BY <1>1, ReadsGives
        <3> QED BY <3>1 DEF Reaches, Registering, Announcements
    <2>4. Progress(to, Asks(c), seen[c])
        BY <1>1, <2>1, ReadsGives DEF Progress, PortWas, Unchanged
    <2> QED BY <1>1, <2>1, <2>2, <2>3, <2>4, ReadsGives, GoSteps
<1> QED BY <1>2, <1>3
(* A read after which the call goes on to one of some RPCs that need        *)
(* nothing to be known, or fails.                                           *)
LEMMA LeadsOn ==
    ASSUME IInv, NEW c \in Clients, NEW label \in Labels \ {"idle", "done"}, Reads(c, label),
           NEW to \in Labels \ {"idle", "done"}, Goes(c, to) \/ Fails(c),
           Reaches(label, Asks(c), call[c].session) => Reaches(to, Asks(c), call[c].session),
           Progress(label, Asks(c), seen[c]) => Progress(to, Asks(c), seen[c])
    PROVE  Stepped(c)
BY ReadsGives, GoSteps, FailSteps

LEMMA EnsuredSteps ==
    ASSUME IInv, NEW c \in Clients, NEW label \in {"ensure", "again"}, Reads(c, label),
           Ensured(c)
    PROVE  Stepped(c)
<1>1. PICK to \in {"compare", "upsert"} :
        Goes(c, to) /\ (to = "compare" => Asks(c).tool = "announce")
    BY DEF Ensured
<1>2. label \in Labels \ {"idle", "done"} /\ to \in Labels \ {"idle", "done"}
    BY DEF Labels
<1>3. Reaches(label, Asks(c), call[c].session) => Reaches(to, Asks(c), call[c].session)
    BY <1>1 DEF Reaches, Registering, Announcements
<1>4. Progress(to, Asks(c), seen[c])
    BY DEF Progress
<1> QED BY <1>1, <1>2, <1>3, <1>4, LeadsOn

LEMMA EnsureSteps ==
    ASSUME IInv, NEW c \in Clients, Ensure(c)
    PROVE  Stepped(c)
<1>1. CASE Missing(c)
    <2>1. "ensure" \in Labels \ {"idle", "done"} /\ "create" \in Labels \ {"idle", "done"}
        BY DEF Labels
    <2>2. Reaches("ensure", Asks(c), call[c].session) => Reaches("create", Asks(c), call[c].session)
        BY DEF Reaches
    <2>3. Progress("create", Asks(c), seen[c])
        BY DEF Progress
    <2> QED BY <1>1, <2>1, <2>2, <2>3, LeadsOn DEF Ensure
<1> QED BY <1>1, EnsuredSteps DEF Ensure

LEMMA CheckNewSteps ==
    ASSUME IInv, NEW c \in Clients, CheckNew(c)
    PROVE  Stepped(c)
<1>1. PICK to \in {"creating", "again"} : Goes(c, to) \/ Fails(c)
    BY DEF CheckNew
<1>2. "create" \in Labels \ {"idle", "done"} /\ to \in Labels \ {"idle", "done"}
    BY DEF Labels
<1>3. Reaches("create", Asks(c), call[c].session) => Reaches(to, Asks(c), call[c].session)
    BY DEF Reaches
<1>4. Progress(to, Asks(c), seen[c])
    BY DEF Progress
<1> QED BY <1>1, <1>2, <1>3, <1>4, LeadsOn DEF CheckNew

LEMMA EnsureAgainSteps ==
    ASSUME IInv, NEW c \in Clients, EnsureAgain(c)
    PROVE  Stepped(c)
<1>1. CASE Missing(c)
    <2>1. "again" \in Labels \ {"idle", "done"}
        BY DEF Labels
    <2> QED BY <1>1, <2>1, LeadsOn DEF EnsureAgain
<1> QED BY <1>1, EnsuredSteps DEF EnsureAgain

LEMMA GetRouteSteps ==
    ASSUME IInv, NEW c \in Clients, GetRoute(c)
    PROVE  Stepped(c)
<1>1. Reads(c, "route") /\ "route" \in Labels \ {"idle", "done"} /\ "plan" \in Labels \ {"idle", "done"}
    BY DEF GetRoute, Labels
<1>2. CASE App(c) # None /\ App(c).active = Asks(c).local
    <2>1. App(c) \in seen[c] /\ App(c) \in Apps \cup {None}
        BY <1>1, ReadsGives
    <2>2. Reaches("route", Asks(c), call[c].session) /\ Progress("route", Asks(c), seen[c])
        BY <1>1, ReadsGives
    <2>3. RouteWas(Asks(c), seen[c])
        BY <1>2, <2>1 DEF RouteWas
    <2>4. Truth(Asks(c), App(c), seen[c])
        BY <2>1, <2>2, <2>3
           DEF Truth, Reaches, Progress, Registering, Announcements, Activates
    <2>5. Answers(c, App(c))
        BY <1>2 DEF GetRoute
    <2> QED BY <1>1, <2>1, <2>4, <2>5, ReadsGives, AnswerSteps
<1>3. CASE ~ (App(c) # None /\ App(c).active = Asks(c).local)
    <2>1. Goes(c, "plan") \/ Fails(c)
        BY <1>3 DEF GetRoute
    <2>2. Reaches("route", Asks(c), call[c].session) => Reaches("plan", Asks(c), call[c].session)
        BY DEF Reaches
    <2>3. Progress("route", Asks(c), seen[c]) => Progress("plan", Asks(c), seen[c])
        BY DEF Progress
    <2> QED BY <1>1, <2>1, <2>2, <2>3, LeadsOn
<1> QED BY <1>2, <1>3

LEMMA GetBeforeSteps ==
    ASSUME IInv, NEW c \in Clients, GetBefore(c)
    PROVE  Stepped(c)
<1>1. "before" \in Labels \ {"idle", "done"} /\ "flip" \in Labels \ {"idle", "done"}
    BY DEF Labels
<1>2. Reads(c, "before") /\ (Goes(c, "flip") \/ Fails(c))
    BY DEF GetBefore
<1>3. Reaches("before", Asks(c), call[c].session) => Reaches("flip", Asks(c), call[c].session)
    BY DEF Reaches
<1>4. Reaches("before", Asks(c), call[c].session)
    BY <1>1, <1>2, ReadsGives
<1>5. Progress("flip", Asks(c), seen[c])
    BY <1>4 DEF Reaches, Progress, Announcements
<1> QED BY <1>1, <1>2, <1>3, <1>5, LeadsOn

LEMMA LookSteps ==
    ASSUME IInv, NEW c \in Clients, Look(c)
    PROVE  Stepped(c)
<1>1. Reads(c, "look") /\ "look" \in Labels \ {"idle", "done"} /\ "flip" \in Labels \ {"idle", "done"}
    BY DEF Look, Labels
<1>2. Reaches("look", Asks(c), call[c].session) /\ Progress("look", Asks(c), seen[c])
    BY <1>1, ReadsGives
<1>3. CASE App(c) # None /\ App(c).active
    <2>1. App(c) \in seen[c] /\ App(c) \in Apps \cup {None} /\ Asks(c) \in Request
        BY <1>1, ReadsGives
    <2>2. App(c).active = TRUE /\ Asks(c).local = TRUE
        <3>1. App(c).active \in BOOLEAN /\ Asks(c).local \in BOOLEAN
            BY <1>3, <2>1 DEF Apps, Request
        <3> QED BY <1>2, <1>3, <3>1 DEF Reaches, Activates
    <2>3. RouteWas(Asks(c), seen[c])
        BY <1>3, <2>1, <2>2 DEF RouteWas
    <2>4. Truth(Asks(c), App(c), seen[c])
        BY <1>2, <2>1, <2>3
           DEF Truth, Reaches, Progress, Registering, Announcements, Activates
    <2>5. Answers(c, App(c))
        BY <1>3 DEF Look
    <2> QED BY <1>1, <2>1, <2>4, <2>5, ReadsGives, AnswerSteps
<1>4. CASE ~ (App(c) # None /\ App(c).active)
    <2>1. Goes(c, "flip") \/ Fails(c)
        BY <1>4 DEF Look
    <2>2. Reaches("look", Asks(c), call[c].session) => Reaches("flip", Asks(c), call[c].session)
        BY DEF Reaches
    <2>3. Progress("look", Asks(c), seen[c]) => Progress("flip", Asks(c), seen[c])
        BY DEF Progress
    <2> QED BY <1>1, <2>1, <2>2, <2>3, LeadsOn
<1> QED BY <1>3, <1>4

LEMMA PlanRouteSteps ==
    ASSUME IInv, NEW c \in Clients, PlanRoute(c)
    PROVE  Stepped(c)
<1>1. Reads(c, "plan") /\ "plan" \in Labels \ {"idle", "done"} /\ "apply" \in Labels
    BY DEF PlanRoute, Labels
<1>2. CASE App(c) = None
    BY <1>1, <1>2, ReadsGives, FailSteps DEF PlanRoute
<1>3. CASE App(c) # None
    <2>1. /\ Reaches("plan", Asks(c), call[c].session) /\ Progress("plan", Asks(c), seen[c])
          /\ Running(c) /\ Served(c) /\ Quiet /\ Goal(c) \in Scopes /\ ~ Missing(c)
        BY <1>1, <1>3, ReadsGives
    <2> DEFINE r == [call[c] EXCEPT !.at = "apply", !.base = scopes[Goal(c)].version]
    <2>2. call[c] \in Record /\ scopes[Goal(c)].version \in Nat
        BY <2>1 DEF IInv, TypeOK, Record, Missing, Scope
    <2>3. r \in Record
        BY <1>1, <2>2 DEF Record
    <2>4. r.at = "apply" /\ r.req = call[c].req /\ r.session = call[c].session
        BY <2>2 DEF Record
    <2>5. call' = [call EXCEPT ![c] = r]
        BY <1>3 DEF PlanRoute
    <2>6. Sound(r, seen'[c])
        <3>1. Reaches("apply", Asks(c), call[c].session) /\ Progress("apply", Asks(c), seen[c])
            BY <2>1 DEF Reaches, Progress
        <3> QED BY <2>1, <2>4, <3>1 DEF Sound, Asks, Quiet
    <2> HIDE DEF r
    <2>7. Moved(c)
        BY <2>3, <2>4, <2>5, <2>6 DEF Moved
    <2> QED BY <2>1, <2>7 DEF Stepped
<1> QED BY <1>2, <1>3

LEMMA UpsertReadSteps ==
    ASSUME IInv, NEW c \in Clients, UpsertRead(c)
    PROVE  Stepped(c)
<1>1. Reads(c, "upsert") /\ "upsert" \in Labels \ {"idle", "done"} /\ "save" \in Labels
    BY DEF UpsertRead, Labels
<1>2. CASE Missing(c)
    BY <1>1, <1>2, ReadsGives, FailSteps DEF UpsertRead
<1>3. CASE ~ Missing(c)
    <2>1. /\ Reaches("upsert", Asks(c), call[c].session)
          /\ Running(c) /\ Served(c) /\ Quiet /\ App(c) \in Apps \cup {None}
        BY <1>1, ReadsGives
    <2> DEFINE r == [call[c] EXCEPT !.at = "save", !.app = App(c)]
    <2>2. call[c] \in Record
        BY DEF IInv, TypeOK, Record
    <2>3. r \in Record
        BY <1>1, <2>1, <2>2 DEF Record
    <2>4. r.at = "save" /\ r.req = call[c].req /\ r.session = call[c].session
        BY <2>2 DEF Record
    <2>5. call' = [call EXCEPT ![c] = r]
        BY <1>3 DEF UpsertRead
    <2>6. Sound(r, seen'[c])
        <3>1. Reaches("save", Asks(c), call[c].session) /\ Progress("save", Asks(c), seen'[c])
            BY <2>1 DEF Reaches, Progress
        <3> QED BY <2>4, <3>1 DEF Sound, Asks
    <2> HIDE DEF r
    <2>7. Moved(c)
        BY <2>3, <2>4, <2>5, <2>6 DEF Moved
    <2> QED BY <2>1, <2>7 DEF Stepped
<1> QED BY <1>2, <1>3

LEMMA RemoveReadSteps ==
    ASSUME IInv, NEW c \in Clients, RemoveRead(c)
    PROVE  Stepped(c)
<1>1. "remove" \in Labels \ {"idle", "done"} /\ "removing" \in Labels \ {"idle", "done"}
    BY DEF Labels
<1>2. Reads(c, "remove") /\ (Goes(c, "removing") \/ Fails(c))
    BY DEF RemoveRead
<1>3. Reaches("remove", Asks(c), call[c].session) => Reaches("removing", Asks(c), call[c].session)
    BY DEF Reaches
<1>4. Progress("removing", Asks(c), seen[c])
    BY DEF Progress
<1> QED BY <1>1, <1>2, <1>3, <1>4, LeadsOn

LEMMA InspectSessionSteps ==
    ASSUME IInv, NEW c \in Clients, InspectSession(c)
    PROVE  Stepped(c)
<1>1. "inspect" \in Labels \ {"idle", "done"} /\ "drop" \in Labels \ {"idle", "done"}
    BY DEF Labels
<1>2. Reads(c, "inspect") /\ (Goes(c, "drop") \/ Fails(c))
    BY DEF InspectSession
<1>3. Reaches("inspect", Asks(c), call[c].session) => Reaches("drop", Asks(c), call[c].session)
    BY DEF Reaches
<1>4. Progress("drop", Asks(c), seen[c])
    BY DEF Progress
<1> QED BY <1>1, <1>2, <1>3, <1>4, LeadsOn
-----------------------------------------------------------------------------
(* RPCs that change something.                                              *)

(* One that changes nothing fails.                                          *)
LEMMA ServeFails ==
    ASSUME IInv, NEW c \in Clients, NEW label \in Labels \ {"idle", "done"}, Serves(c, label),
           Fails(c), UNCHANGED <<serverVars, seen>>
    PROVE  Stepped(c)
BY ServesGives, FailSteps DEF Quiet

(* After a change the call goes on, or its answer is lost.                  *)
LEMMA PublishGoes ==
    ASSUME IInv, NEW c \in Clients, NEW label \in Labels \ {"idle", "done"}, Serves(c, label),
           NEW app \in Apps \cup {None}, Publish(Goal(c), app),
           ~ Missing(c) \/ Goal(c) \in Environments,
           NEW to \in Labels \ {"idle", "done"}, Goes(c, to) \/ Fails(c),
           Reaches(to, Asks(c), call[c].session), Progress(to, Asks(c), seen'[c])
    PROVE  Stepped(c)
<1>1. Running(c) /\ Served(c) /\ Goal(c) \in Scopes
    BY ServesGives
<1>2. Changes
    BY <1>1, PublishChanges DEF Missing
<1>3. Moved(c)
    BY <1>1, GoMoves, FailMoves DEF IInv
<1> QED BY <1>1, <1>2, <1>3 DEF Stepped

LEMMA PublishAnswers ==
    ASSUME IInv, NEW c \in Clients, NEW label \in Labels \ {"idle", "done"}, Serves(c, label),
           NEW app \in Apps \cup {None}, Publish(Goal(c), app),
           ~ Missing(c) \/ Goal(c) \in Environments,
           Answers(c, app) \/ Fails(c), Truth(Asks(c), app, seen'[c])
    PROVE  Stepped(c)
<1>1. Running(c) /\ Served(c) /\ Goal(c) \in Scopes
    BY ServesGives
<1>2. Changes
    BY <1>1, PublishChanges DEF Missing
<1>3. Moved(c)
    BY <1>1, EndMoves, FailMoves DEF IInv, Answers
<1> QED BY <1>1, <1>2, <1>3 DEF Stepped

LEMMA CreateWorkspaceSteps ==
    ASSUME IInv, NEW c \in Clients, CreateWorkspace(c)
    PROVE  Stepped(c)
<1>1. Serves(c, "creating") /\ "creating" \in Labels \ {"idle", "done"}
    BY DEF CreateWorkspace, Labels
<1>2. CASE ~ Missing(c)
    BY <1>1, <1>2, ServeFails DEF CreateWorkspace
<1>3. CASE Missing(c)
    <2>1. Reaches("creating", Asks(c), call[c].session) /\ Goal(c) \in Scopes
          /\ Asks(c) \in Request /\ Running(c)
        BY <1>1, ServesGives
    <2>2. Goal(c) \in Environments
        BY <2>1 DEF Reaches, Goal, Resolved
    <2>3. PICK to \in {"compare", "upsert"} :
            (Goes(c, to) /\ (to = "compare" => Asks(c).tool = "announce")) \/ Fails(c)
        BY <1>3 DEF CreateWorkspace, Ensured
    <2>4. CASE Fails(c)
        BY <1>1, <1>3, <2>1, <2>2, <2>4, ServesGives, PublishChanges, FailMoves
           DEF CreateWorkspace, Stepped, IInv
    <2>5. CASE Goes(c, to) /\ (to = "compare" => Asks(c).tool = "announce")
        <3>1. to \in Labels \ {"idle", "done"}
            BY DEF Labels
        <3>2. Reaches(to, Asks(c), call[c].session)
            BY <2>1, <2>5 DEF Reaches, Registering, Announcements
        <3>3. Progress(to, Asks(c), seen'[c])
            BY DEF Progress
        <3>4. Publish(Goal(c), None)
            BY <1>3 DEF CreateWorkspace
        <3> QED BY <1>1, <2>2, <2>5, <3>1, <3>2, <3>3, <3>4, PublishGoes
    <2> QED BY <2>3, <2>4, <2>5
<1> QED BY <1>2, <1>3

(* An application is registered with its port.                              *)
LEMMA RegistrationSteps ==
    ASSUME IInv, NEW c \in Clients, NEW label \in {"upsert", "save"}, Serves(c, label),
           ~ Missing(c), NEW active \in BOOLEAN,
           Publish(Goal(c), [port |-> Asks(c).port, active |-> active]),
           Goes(c, "view") \/ Fails(c)
    PROVE  Stepped(c)
<1> DEFINE app == [port |-> Asks(c).port, active |-> active]
<1>1. label \in Labels \ {"idle", "done"} /\ "view" \in Labels \ {"idle", "done"}
    BY DEF Labels
<1>2. /\ Reaches(label, Asks(c), call[c].session) /\ Asks(c) \in Request
      /\ Running(c) /\ Goal(c) \in Scopes
    BY <1>1, ServesGives
<1>3. app \in Apps /\ app.port = Asks(c).port
    BY <1>2 DEF Apps, Request
<1> HIDE DEF app
<1>4. Publish(Goal(c), app)
    BY DEF app
<1>5. app \in seen'[c]
    BY <1>2, <1>3, <1>4, PublishSeen
<1>6. PortWas(Asks(c), seen'[c])
    BY <1>3, <1>5, NamesAssumption DEF PortWas
<1>7. Reaches("view", Asks(c), call[c].session) /\ Progress("view", Asks(c), seen'[c])
    BY <1>2, <1>6 DEF Reaches, Progress
<1> QED BY <1>1, <1>3, <1>4, <1>7, PublishGoes

LEMMA UpsertSessionSteps ==
    ASSUME IInv, NEW c \in Clients, UpsertSession(c)
    PROVE  Stepped(c)
<1>1. Serves(c, "upsert") /\ "upsert" \in Labels \ {"idle", "done"}
    BY DEF UpsertSession, Labels
<1>2. CASE Missing(c)
    BY <1>1, <1>2, ServeFails DEF UpsertSession
<1>3. CASE ~ Missing(c)
    <2>1. App(c) \in Apps \cup {None}
        BY <1>1, ServesGives
    <2>2. (App(c) # None /\ App(c).active) \in BOOLEAN
        OBVIOUS
    <2> QED BY <1>1, <1>3, <2>2, RegistrationSteps DEF UpsertSession
<1> QED BY <1>2, <1>3

LEMMA UpsertSaveSteps ==
    ASSUME IInv, NEW c \in Clients, UpsertSave(c)
    PROVE  Stepped(c)
<1>1. Serves(c, "save") /\ "save" \in Labels \ {"idle", "done"}
    BY DEF UpsertSave, Labels
<1>2. CASE Missing(c)
    BY <1>1, <1>2, ServeFails DEF UpsertSave
<1>3. CASE ~ Missing(c)
    <2> DEFINE old == IF App(c) # None THEN App(c) ELSE call[c].app
    <2>1. (old # None /\ old.active) \in BOOLEAN
        OBVIOUS
    <2>2. /\ Publish(Goal(c), [port |-> Asks(c).port, active |-> old # None /\ old.active])
          /\ Goes(c, "view") \/ Fails(c)
        BY <1>3 DEF UpsertSave
    <2> HIDE DEF old
    <2> QED BY <1>1, <1>3, <2>1, <2>2, RegistrationSteps
<1> QED BY <1>2, <1>3

LEMMA RemovalSteps ==
    ASSUME IInv, NEW c \in Clients, NEW label \in {"remove", "removing"}, Serves(c, label),
           ~ Missing(c), Publish(Goal(c), None), Answers(c, None) \/ Fails(c)
    PROVE  Stepped(c)
<1>1. label \in Labels \ {"idle", "done"}
    BY DEF Labels
<1>2. /\ Reaches(label, Asks(c), call[c].session)
      /\ Running(c) /\ Goal(c) \in Scopes
    BY <1>1, ServesGives
<1>3. None \in seen'[c]
    BY <1>2, PublishSeen
<1>4. Truth(Asks(c), None, seen'[c])
    BY <1>2, <1>3 DEF Reaches, Truth, Registering, Announcements, Activates
<1> QED BY <1>1, <1>4, PublishAnswers

LEMMA RemoveFromSessionSteps ==
    ASSUME IInv, NEW c \in Clients, RemoveFromSession(c)
    PROVE  Stepped(c)
<1>1. Serves(c, "remove") /\ "remove" \in Labels \ {"idle", "done"}
    BY DEF RemoveFromSession, Labels
<1>2. CASE App(c) = None
    BY <1>1, <1>2, ServeFails DEF RemoveFromSession
<1>3. CASE App(c) # None
    BY <1>1, <1>3, RemovalSteps DEF RemoveFromSession, Missing, App, AppIn
<1> QED BY <1>2, <1>3

LEMMA RemoveSaveSteps ==
    ASSUME IInv, NEW c \in Clients, RemoveSave(c)
    PROVE  Stepped(c)
<1>1. Serves(c, "removing") /\ "removing" \in Labels \ {"idle", "done"}
    BY DEF RemoveSave, Labels
<1>2. CASE Missing(c)
    BY <1>1, <1>2, ServeFails DEF RemoveSave
<1>3. CASE ~ Missing(c)
    BY <1>1, <1>3, RemovalSteps DEF RemoveSave
<1> QED BY <1>2, <1>3

LEMMA ApplyRouteSteps ==
    ASSUME IInv, NEW c \in Clients, ApplyRoute(c)
    PROVE  Stepped(c)
<1>1. /\ Serves(c, "apply") /\ "apply" \in Labels \ {"idle", "done"}
      /\ "after" \in Labels \ {"idle", "done"}
    BY DEF ApplyRoute, Labels
<1>2. /\ Reaches("apply", Asks(c), call[c].session) /\ Progress("apply", Asks(c), seen[c])
      /\ Asks(c) \in Request /\ App(c) \in Apps \cup {None} /\ App(c) \in seen[c]
      /\ Running(c) /\ Served(c) /\ Goal(c) \in Scopes
    BY <1>1, ServesGives
<1>3. Reaches("after", Asks(c), call[c].session)
    BY <1>2 DEF Reaches
<1>4. CASE App(c) = None \/ (~ Missing(c) /\ scopes[Goal(c)].version # call[c].base)
    BY <1>1, <1>4, ServeFails DEF ApplyRoute
<1>5. ASSUME ~ (App(c) = None \/ (~ Missing(c) /\ scopes[Goal(c)].version # call[c].base)),
             App(c).active = Asks(c).local
      PROVE  Stepped(c)
    <2>1. Goes(c, "after") /\ Quiet
        BY <1>5 DEF ApplyRoute, Quiet
    <2>2. RouteWas(Asks(c), seen[c])
        BY <1>2, <1>5 DEF RouteWas
    <2>3. Progress("after", Asks(c), seen[c])
        BY <1>2, <2>2 DEF Progress
    <2> QED BY <1>1, <1>2, <1>3, <2>1, <2>3, GoSteps
<1>6. ASSUME ~ (App(c) = None \/ (~ Missing(c) /\ scopes[Goal(c)].version # call[c].base)),
             App(c).active # Asks(c).local
      PROVE  Stepped(c)
    <2> DEFINE app == [App(c) EXCEPT !.active = Asks(c).local]
    <2>1. App(c) \in Apps /\ App(c) # None /\ ~ Missing(c)
        BY <1>2, <1>6 DEF Missing, App, AppIn
    <2>2. Asks(c).local \in BOOLEAN
        BY <1>2 DEF Request
    <2>3. app \in Apps
        BY <2>1, <2>2 DEF Apps
    <2>4. app.active = Asks(c).local
        BY <2>1 DEF Apps
    <2>5. Publish(Goal(c), app) /\ (Goes(c, "after") \/ Fails(c))
        BY <1>6 DEF ApplyRoute
    <2> HIDE DEF app
    <2>6. seen[c] \subseteq seen'[c] /\ app \in seen'[c]
        BY <1>2, <2>3, <2>5, PublishSeen
    <2>7. RouteWas(Asks(c), seen'[c])
        BY <2>3, <2>4, <2>6, NamesAssumption DEF RouteWas
    <2>8. Progress("after", Asks(c), seen'[c])
        <3>1. Progress("apply", Asks(c), seen'[c])
            BY <1>2, <2>6, ProgressGrows
        <3> QED BY <2>7, <3>1 DEF Progress
    <2> QED BY <1>1, <1>3, <2>1, <2>3, <2>5, <2>8, PublishGoes
<1> QED BY <1>4, <1>5, <1>6

LEMMA ToggleApplicationSteps ==
    ASSUME IInv, NEW c \in Clients, ToggleApplication(c)
    PROVE  Stepped(c)
<1>1. Serves(c, "flip") /\ "flip" \in Labels \ {"idle", "done"}
    BY DEF ToggleApplication, Labels
<1>2. /\ Reaches("flip", Asks(c), call[c].session) /\ Progress("flip", Asks(c), seen[c])
      /\ Asks(c) \in Request /\ App(c) \in Apps \cup {None} /\ App(c) \in seen[c]
      /\ Running(c) /\ Goal(c) \in Scopes
    BY <1>1, ServesGives
<1>3. CASE App(c) = None
    BY <1>1, <1>3, ServeFails DEF ToggleApplication
<1>4. CASE App(c) # None
    <2> DEFINE app == [App(c) EXCEPT !.active = ~ @]
    <2>1. App(c) \in Apps /\ ~ Missing(c)
        BY <1>2, <1>4 DEF Missing, App, AppIn
    <2>2. app \in Apps
        BY <2>1 DEF Apps
    <2>3. app.active = ~ App(c).active
        BY <2>1 DEF Apps
    <2>4. Publish(Goal(c), app) /\ (Answers(c, app) \/ Fails(c))
        BY <1>4 DEF ToggleApplication
    <2> HIDE DEF app
    <2>5. seen[c] \subseteq seen'[c] /\ app \in seen'[c]
        BY <1>2, <2>2, <2>4, PublishSeen
    <2>6. RouteWas(Asks(c), seen'[c])
        <3>1. /\ app.active \in BOOLEAN /\ App(c).active \in BOOLEAN
              /\ Asks(c).local \in BOOLEAN
            BY <1>2, <2>1, <2>2 DEF Apps, Request
        <3>2. app.active = Asks(c).local \/ App(c).active = Asks(c).local
            BY <2>3, <3>1
        <3>3. app # None /\ App(c) \in seen'[c]
            BY <1>2, <2>2, <2>5, NamesAssumption
        <3> QED BY <1>4, <2>5, <3>2, <3>3 DEF RouteWas
    <2>7. Asks(c).tool \in Announcements => PortWas(Asks(c), seen'[c])
        <3>1. Progress("flip", Asks(c), seen'[c])
            BY <1>2, <2>5, ProgressGrows
        <3> QED BY <3>1 DEF Progress
    <2>8. Truth(Asks(c), app, seen'[c])
        BY <1>2, <2>5, <2>6, <2>7
           DEF Reaches, Truth, Registering, Announcements, Activates
    <2> QED BY <1>1, <2>1, <2>2, <2>4, <2>8, PublishAnswers
<1> QED BY <1>3, <1>4

LEMMA SetAllSteps ==
    ASSUME IInv, NEW c \in Clients, SetAll(c)
    PROVE  Stepped(c)
<1>1. Serves(c, "set all") /\ "set all" \in Labels \ {"idle", "done"}
    BY DEF SetAll, Labels
<1>2. /\ Reaches("set all", Asks(c), call[c].session)
      /\ Asks(c) \in Request /\ App(c) \in Apps \cup {None}
      /\ Running(c) /\ Goal(c) \in Scopes
    BY <1>1, ServesGives
<1>3. CASE Missing(c)
    BY <1>1, <1>3, ServeFails DEF SetAll
<1>4. CASE ~ Missing(c)
    <2> DEFINE app == IF App(c) = None \/ App(c).port = None THEN App(c)
                      ELSE [App(c) EXCEPT !.active = Asks(c).local]
    <2>1. app \in Apps \cup {None}
        <3>1. Asks(c).local \in BOOLEAN
            BY <1>2 DEF Request
        <3> QED BY <1>2, <3>1 DEF Apps
    <2>2. Publish(Goal(c), app) /\ (Answers(c, app) \/ Fails(c))
        BY <1>4 DEF SetAll
    <2> HIDE DEF app
    <2>3. app \in seen'[c]
        BY <1>2, <2>1, <2>2, PublishSeen
    <2>4. Truth(Asks(c), app, seen'[c])
        BY <1>2, <2>3 DEF Reaches, Truth, Registering, Announcements, Activates
    <2> QED BY <1>1, <1>4, <2>1, <2>2, <2>4, PublishAnswers
<1> QED BY <1>3, <1>4

(* The session tools answer nothing that could be untrue.                   *)
LEMMA SessionToolsSay ==
    ASSUME NEW req, NEW S, req.tool \in SessionTools \cup {"workspace delete"}
    PROVE  Truth(req, None, S)
BY DEF Truth, Registering, Announcements, Activates, SessionTools

LEMMA OpenSessionSteps ==
    ASSUME IInv, NEW c \in Clients, OpenSession(c)
    PROVE  Stepped(c)
<1>1. Serves(c, "open") /\ "open" \in Labels \ {"idle", "done"}
    BY DEF OpenSession, Labels
<1>2. /\ Reaches("open", Asks(c), call[c].session)
      /\ Running(c) /\ Served(c) /\ Goal(c) \in Scopes
    BY <1>1, ServesGives
<1>3. CASE Missing(c)
    BY <1>1, <1>3, ServeFails DEF OpenSession
<1>4. CASE ~ Missing(c)
    <2> DEFINE x == [version |-> clock + 1,
                     app |-> IF App(c) = None THEN None
                             ELSE [port |-> None, active |-> FALSE]]
    <2>1. PICK s \in Sessions \ opened :
            /\ Parent[s] = Goal(c)
            /\ Commit(s, x)
            /\ opened' = opened \cup {s}
            /\ Answers(c, None) \/ Fails(c)
        BY <1>4 DEF OpenSession
    <2>2. x \in Scope /\ x # None /\ x.version = clock + 1
        <3> DEFINE app == [port |-> None, active |-> FALSE]
        <3>1. app \in Apps
            BY DEF Apps
        <3> HIDE DEF app
        <3>2. clock + 1 \in Nat
            BY DEF IInv, TypeOK
        <3>3. x = [version |-> clock + 1, app |-> IF App(c) = None THEN None ELSE app]
            BY DEF app
        <3>4. x \in Scope
            BY <3>1, <3>2, <3>3 DEF Scope
        <3> QED BY <3>3, <3>4, NamesAssumption
    <2> HIDE DEF x
    <2>3. opened' \subseteq Sessions /\ s \in Scopes /\ scopes[Parent[s]] # None
        BY <1>4, <2>1 DEF IInv, TypeOK, Scopes, Missing
    <2>4. Changes
        BY <2>1, <2>2, <2>3 DEF Changes
    <2>5. Truth(Asks(c), None, seen'[c])
        BY <1>2, SessionToolsSay DEF Reaches, SessionTools
    <2>6. Moved(c)
        BY <1>2, <2>1, <2>5, EndMoves, FailMoves DEF IInv, Answers
    <2> QED BY <1>2, <2>4, <2>6 DEF Stepped
<1> QED BY <1>3, <1>4

LEMMA DeleteWorkspaceSteps ==
    ASSUME IInv, NEW c \in Clients, DeleteWorkspace(c)
    PROVE  Stepped(c)
<1> DEFINE Keeps == Missing(c) \/ \E s \in Sessions : scopes[s] # None /\ Parent[s] = Goal(c)
<1>1. Serves(c, "drop") /\ "drop" \in Labels \ {"idle", "done"}
    BY DEF DeleteWorkspace, Labels
<1>2. /\ Reaches("drop", Asks(c), call[c].session)
      /\ Running(c) /\ Served(c) /\ Goal(c) \in Scopes
    BY <1>1, ServesGives
<1>3. CASE Keeps
    BY <1>1, <1>3, ServeFails DEF DeleteWorkspace
<1>4. CASE ~ Keeps
    <2>1. Commit(Goal(c), None) /\ UNCHANGED opened /\ (Answers(c, None) \/ Fails(c))
        BY <1>4 DEF DeleteWorkspace
    <2>2. Changes
        BY <1>2, <1>4, <2>1 DEF Changes, IInv, TypeOK
    <2>3. Truth(Asks(c), None, seen'[c])
        BY <1>2, SessionToolsSay DEF Reaches, SessionTools
    <2>4. Moved(c)
        BY <1>2, <2>1, <2>3, EndMoves, FailMoves DEF IInv, Answers
    <2> QED BY <1>2, <2>2, <2>4 DEF Stepped
<1> QED BY <1>3, <1>4

LEMMA RpcSteps ==
    ASSUME IInv, NEW c \in Clients, Rpc(c)
    PROVE  Running(c) /\ Stepped(c)
<1>1. Stepped(c)
    <2>1. CASE RpcFails(c)
        BY <2>1, FailSteps DEF RpcFails, Quiet, Served
    <2>2. CASE \/ GetApplication(c) \/ Compare(c) \/ Confirm(c) \/ Ensure(c) \/ CheckNew(c)
               \/ EnsureAgain(c) \/ GetRoute(c) \/ GetBefore(c) \/ Look(c) \/ PlanRoute(c)
               \/ UpsertRead(c) \/ RemoveRead(c) \/ InspectSession(c)
        BY <2>2, GetApplicationSteps, CompareSteps, ConfirmSteps, EnsureSteps, CheckNewSteps,
           EnsureAgainSteps, GetRouteSteps, GetBeforeSteps, LookSteps, PlanRouteSteps,
           UpsertReadSteps, RemoveReadSteps, InspectSessionSteps
    <2>3. CASE \/ CreateWorkspace(c) \/ UpsertSession(c) \/ UpsertSave(c)
               \/ RemoveFromSession(c) \/ RemoveSave(c) \/ ApplyRoute(c)
               \/ ToggleApplication(c) \/ SetAll(c) \/ OpenSession(c) \/ DeleteWorkspace(c)
        BY <2>3, CreateWorkspaceSteps, UpsertSessionSteps, UpsertSaveSteps,
           RemoveFromSessionSteps, RemoveSaveSteps, ApplyRouteSteps, ToggleApplicationSteps,
           SetAllSteps, OpenSessionSteps, DeleteWorkspaceSteps
    <2> QED BY <2>1, <2>2, <2>3 DEF Rpc
<1>2. Running(c)
    BY DEF Rpc, GetApplication, Compare, Confirm, Ensure, CheckNew, EnsureAgain, GetRoute,
           GetBefore, Look, PlanRoute, CreateWorkspace, UpsertSession, UpsertRead, UpsertSave,
           RemoveFromSession, RemoveRead, RemoveSave, ApplyRoute, ToggleApplication, SetAll,
           OpenSession, InspectSession, DeleteWorkspace, RpcFails, Reads, Serves, At, Running
<1> QED BY <1>1, <1>2

-----------------------------------------------------------------------------
(* An RPC keeps the invariant, of its own call and of the others.           *)

LEMMA ServerStaysTyped ==
    ASSUME IInv, Quiet \/ Changes
    PROVE  /\ scopes' \in [Scopes -> Scope \cup {None}]
           /\ clock' \in Nat
           /\ \A t \in Scopes : scopes'[t] # None => scopes'[t].version <= clock'
           /\ \A t \in Sessions : scopes'[t] # None => t \in opened' /\ scopes'[Parent[t]] # None
           /\ opened' \subseteq Sessions
           /\ seen' \in [Clients -> SUBSET (Apps \cup {None})]
<1>1. CASE Quiet
    BY <1>1 DEF Quiet, serverVars, IInv, TypeOK
<1>2. CASE Changes
    <2>1. PICK s \in Scopes, x \in Scope \cup {None} :
            /\ Commit(s, x)
            /\ x # None => x.version = clock + 1
            /\ opened \subseteq opened' /\ opened' \subseteq Sessions
            /\ s \in Sessions /\ x # None => s \in opened' /\ scopes[Parent[s]] # None
            /\ x = None => \A t \in Sessions : scopes[t] # None => Parent[t] # s
        BY <1>2 DEF Changes
    <2>2. clock' = clock + 1 /\ scopes' = [scopes EXCEPT ![s] = x]
        BY <2>1 DEF Commit
    <2>3. clock' \in Nat /\ scopes' \in [Scopes -> Scope \cup {None}]
        BY <2>2 DEF IInv, TypeOK
    <2>4. ASSUME NEW t \in Scopes, scopes'[t] # None
          PROVE  scopes'[t].version <= clock'
        <3>1. CASE t = s
            BY <2>1, <2>2, <2>4, <3>1 DEF IInv, TypeOK
        <3>2. CASE t # s
            <4>1. scopes[t] # None /\ scopes[t] \in Scope /\ scopes'[t] = scopes[t]
                BY <2>2, <2>4, <3>2 DEF IInv, TypeOK
            <4>2. scopes[t].version <= clock /\ scopes[t].version \in Nat
                BY <4>1 DEF IInv, TypeOK, Scope
            <4> QED BY <2>2, <4>1, <4>2 DEF IInv, TypeOK
        <3> QED BY <3>1, <3>2
    <2>5. ASSUME NEW t \in Sessions, scopes'[t] # None
          PROVE  t \in opened' /\ scopes'[Parent[t]] # None
        <3>1. Parent[t] \in Environments /\ Parent[t] \in Scopes /\ t \in Scopes
            BY ParentAssumption DEF Scopes
        <3>2. t \in opened' /\ scopes[Parent[t]] # None
            BY <2>1, <2>2, <2>5, <3>1 DEF IInv, TypeOK
        <3>3. Parent[t] = s => x # None
            <4>1. CASE t = s
                BY <3>1, <4>1, NamesAssumption
            <4>2. CASE t # s
                BY <2>1, <2>2, <2>5, <3>1, <4>2 DEF IInv, TypeOK
            <4> QED BY <4>1, <4>2
        <3> QED BY <2>2, <3>1, <3>2, <3>3 DEF IInv, TypeOK
    <2>6. AppIn(x) \in Apps \cup {None}
        BY DEF AppIn, Scope
    <2>7. seen' \in [Clients -> SUBSET (Apps \cup {None})]
        BY <2>1, <2>6 DEF Commit, IInv, TypeOK
    <2> QED BY <2>1, <2>3, <2>4, <2>5, <2>7
<1> QED BY <1>1, <1>2

LEMMA RpcKeepsTypes ==
    ASSUME IInv, NEW c \in Clients, Running(c), Stepped(c)
    PROVE  TypeOK' /\ SelectorIsHome' /\ OneProtocol'
<1>1. PICK r \in Record :
        /\ call' = [call EXCEPT ![c] = r]
        /\ r.req = call[c].req /\ r.session = call[c].session
        /\ r.at # "idle"
    BY DEF Stepped, Moved
<1>2. call' \in [Clients -> Record]
    BY <1>1 DEF IInv, TypeOK, Record
<1>3. \A d \in Clients : call'[d].at # "idle" => call'[d].req # None
    BY <1>1 DEF IInv, TypeOK, Running
<1>4. touched' \in [Clients -> SUBSET Scopes]
    BY GoalType DEF Stepped, Served, IInv, TypeOK
<1>5. UNCHANGED <<home, selector, mode, spoken, calls>>
    BY DEF Stepped, Served, clientVars, protocolVars
<1>6. TypeOK'
    BY <1>2, <1>3, <1>4, <1>5, ServerStaysTyped DEF Stepped, TypeOK, IInv, Record
<1> QED BY <1>5, <1>6 DEF IInv, SelectorIsHome, OneProtocol

(* What of a call an RPC leaves as it was.                                  *)
LEMMA RpcKeepsRequests ==
    ASSUME IInv, NEW c \in Clients, Running(c), Stepped(c), NEW d \in Clients
    PROVE  /\ call'[d].req = call[d].req /\ call'[d].session = call[d].session
           /\ d # c => call'[d] = call[d]
           /\ call'[d].at \notin {"idle", "done"} => Running(d)
           /\ call'[d].at = "idle" <=> call[d].at = "idle"
           /\ home' = home
           /\ seen[d] \subseteq seen'[d]
           /\ Meant(d)' = Meant(d)
<1>1. PICK r \in Record :
        /\ call' = [call EXCEPT ![c] = r]
        /\ r.req = call[c].req /\ r.session = call[c].session
        /\ r.at # "idle"
    BY DEF Stepped, Moved
<1>2. /\ call'[d].req = call[d].req /\ call'[d].session = call[d].session
      /\ d # c => call'[d] = call[d]
      /\ call'[d].at \notin {"idle", "done"} => Running(d)
      /\ call'[d].at = "idle" <=> call[d].at = "idle"
    BY <1>1 DEF IInv, TypeOK, Running
<1>3. home' = home
    BY DEF Stepped, Served, clientVars
<1>4. seen[d] \subseteq seen'[d]
    <2>1. CASE Quiet
        BY <2>1 DEF Quiet
    <2>2. CASE Changes
        BY <2>2 DEF Changes, Commit
    <2> QED BY <2>1, <2>2 DEF Stepped
<1>5. Meant(d)' = Meant(d)
    BY <1>2, <1>3 DEF Meant, Selection
<1> QED BY <1>2, <1>3, <1>4, <1>5

LEMMA RpcKeepsSelection ==
    ASSUME IInv, NEW c \in Clients, Running(c), Stepped(c)
    PROVE  SessionIsSelected' /\ CallsAreSound' /\ CallsStayInScope'
<1>1. SessionIsSelected'
    <2> SUFFICES ASSUME NEW d \in Clients, call'[d].at # "idle"
                 PROVE  call'[d].session = Selection(home'[d], call'[d].req)
        BY DEF SessionIsSelected, At, Asks, Selection
    <2>1. call[d].session = Selection(home[d], call[d].req)
        BY RpcKeepsRequests DEF IInv, SessionIsSelected, At, Asks
    <2> QED BY <2>1, RpcKeepsRequests
<1>2. CallsAreSound'
    <2> SUFFICES ASSUME NEW d \in Clients
                 PROVE  Sound(call'[d], seen'[d])
        BY DEF CallsAreSound, Sound, Reaches, Progress, Truth, PortWas, RouteWas
    <2>1. CASE d = c
        BY <2>1 DEF Stepped, Moved, IInv, TypeOK
    <2>2. CASE d # c
        BY <2>2, RpcKeepsRequests, SoundGrows DEF IInv, CallsAreSound
    <2> QED BY <2>1, <2>2
<1>3. CallsStayInScope'
    <2> SUFFICES ASSUME NEW d \in Clients, NEW t \in touched'[d]
                 PROVE  t = Meant(d)'
        BY DEF CallsStayInScope
    <2>1. t \in touched[d] \/ (d = c /\ Goal(c) # None /\ t = Goal(c))
        BY DEF Stepped, Served, IInv, TypeOK
    <2>2. t = Meant(d)
        BY <2>1, GoalIsMeant DEF IInv, CallsStayInScope
    <2> QED BY <2>2, RpcKeepsRequests
<1> QED BY <1>1, <1>2, <1>3

(* What the scope of a call has is among what the call could have seen.     *)
LEMMA RpcKeepsSeen ==
    ASSUME IInv, NEW c \in Clients, Running(c), Stepped(c)
    PROVE  SeenIsCurrent'
<1> SUFFICES ASSUME NEW d \in Clients, Running(d)', Goal(d)' # None
             PROVE  App(d)' \in seen'[d]
    BY DEF SeenIsCurrent
<1>1. /\ Running(d)
      /\ call'[d].req = call[d].req /\ call'[d].session = call[d].session
      /\ seen[d] \subseteq seen'[d]
    BY RpcKeepsRequests DEF Running
<1>2. Goal(d)' = LET session == call[d].session
                     ws == call[d].req.ws
                 IN  IF session = None THEN ws
                     ELSE IF scopes'[session] # None /\ ws \in {Parent[session], session}
                     THEN session ELSE None
    BY <1>1 DEF Goal, Resolved, Asks
<1>3. Goal(d)' = Meant(d)
    <2>1. call[d].session = Selection(home[d], Asks(d))
        BY <1>1 DEF IInv, SessionIsSelected, Running, At
    <2>2. Asks(d).tool \in Announcements => call[d].session = None
        BY <1>1 DEF IInv, CallsAreSound, Sound, Reaches, Running, Asks
    <2> QED BY <1>2, <2>1, <2>2 DEF Meant, Asks
<1>4. App(d)' = AppIn(scopes'[Goal(d)'])
    BY DEF App, AppIn
<1>5. CASE Quiet
    <2>1. Goal(d) = Goal(d)' /\ App(d) = App(d)'
        BY <1>2, <1>4, <1>5 DEF Quiet, serverVars, Goal, Resolved, Asks, App
    <2> QED BY <1>1, <2>1 DEF IInv, SeenIsCurrent
<1>6. CASE Changes
    <2>1. PICK s \in Scopes, x \in Scope \cup {None} : Commit(s, x)
        BY <1>6 DEF Changes
    <2>2. scopes' = [scopes EXCEPT ![s] = x] /\ s \in DOMAIN scopes
        BY <2>1 DEF Commit, IInv, TypeOK
    <2>3. CASE Goal(d)' = s
        <3>1. App(d)' = AppIn(x)
            BY <1>4, <2>2, <2>3
        <3>2. AppIn(x) \in seen'[d]
            BY <1>1, <1>3, <2>1, <2>3 DEF Commit
        <3> QED BY <3>1, <3>2
    <2>4. CASE Goal(d)' # s
        <3>1. scopes'[Goal(d)'] = scopes[Goal(d)']
            BY <2>2, <2>4
        <3>2. Goal(d) = Goal(d)'
            BY <1>2, <2>2, <2>4, <3>1 DEF Goal, Resolved, Asks
        <3>3. App(d) \in seen[d]
            BY <1>1, <3>2 DEF IInv, SeenIsCurrent
        <3>4. App(d)' = App(d)
            BY <1>4, <3>1, <3>2 DEF App
        <3> QED BY <1>1, <3>3, <3>4
    <2> QED BY <2>3, <2>4
<1> QED BY <1>5, <1>6 DEF Stepped

LEMMA RpcKeeps ==
    ASSUME IInv, NEW c \in Clients, Rpc(c)
    PROVE  IInv'
BY RpcSteps, RpcKeepsTypes, RpcKeepsSelection, RpcKeepsSeen DEF IInv

-----------------------------------------------------------------------------
(* Calls that begin, and the protocol of the servers.                       *)

(* The first RPC of a call, of an allowed request.                          *)
LEMMA FirstReaches ==
    ASSUME NEW c \in Clients, NEW req \in Calls \cup CommandLines, NEW session,
           NEW S, NEW r,
           c \in Agents => req \in Calls, c \notin Agents => req \in CommandLines,
           r.req = req, r.session = session, r.ok = FALSE,
           r.at = IF session # None /\ req.tool \in Announcements THEN "done"
                  ELSE IF c \in Agents THEN FirstOfTool(req.tool)
                  ELSE FirstOfCommand(req.tool)
    PROVE  r.at \in Labels \ {"idle"} /\ Sound(r, S)
<1>1. CASE session # None /\ req.tool \in Announcements
    BY <1>1 DEF Labels, Sound, Reaches, Progress
<1>2. CASE ~ (session # None /\ req.tool \in Announcements)
    <2>1. req.tool \in Announcements => req.ws \in Environments
        BY RequestsAssumption
    <2>2. CASE c \in Agents
        <3>1. req.tool \in McpTools
            BY <2>2, RequestsAssumption
        <3>2. r.at = FirstOfTool(req.tool)
            BY <1>2, <2>2
        <3>3. r.at \in Labels \ {"idle", "done"}
            BY <3>1, <3>2 DEF McpTools, FirstOfTool, Labels
        <3>4. Reaches(r.at, req, session)
            BY <1>2, <2>1, <3>1, <3>2
               DEF McpTools, FirstOfTool, Reaches, Registering, Announcements, Activates
        <3>5. Progress(r.at, req, S)
            BY <3>1, <3>2 DEF McpTools, FirstOfTool, Progress, Announcements
        <3> QED BY <3>3, <3>4, <3>5 DEF Sound
    <2>3. CASE c \notin Agents
        <3>1. req.tool \in CliTools
            BY <2>3, RequestsAssumption
        <3>2. r.at = FirstOfCommand(req.tool)
            BY <1>2, <2>3
        <3>3. r.at \in Labels \ {"idle", "done"}
            BY <3>1, <3>2 DEF CliTools, FirstOfCommand, Labels
        <3>4. Reaches(r.at, req, session)
            BY <1>2, <2>1, <3>1, <3>2
               DEF CliTools, FirstOfCommand, Reaches, Registering, Announcements, Activates
        <3>5. Progress(r.at, req, S)
            BY <3>1, <3>2 DEF CliTools, FirstOfCommand, Progress, Announcements
        <3> QED BY <3>3, <3>4, <3>5 DEF Sound
    <2> QED BY <2>2, <2>3
<1> QED BY <1>1, <1>2

LEMMA BeginsKeeps ==
    ASSUME IInv, NEW c \in Clients, NEW req \in Calls \cup CommandLines,
           c \in Agents => req \in Calls, c \notin Agents => req \in CommandLines,
           Begins(c, req, Selection(home[c], req)), UNCHANGED selector,
           mode' \in [Agents -> {"auto", "modern", "legacy"}],
           spoken' \in [Agents -> SUBSET {"modern", "legacy"}],
           OneProtocol'
    PROVE  IInv'
<1> DEFINE session == Selection(home[c], req)
           first == IF session # None /\ req.tool \in Announcements THEN "done"
                    ELSE IF c \in Agents THEN FirstOfTool(req.tool)
                    ELSE FirstOfCommand(req.tool)
           r == [NoCall EXCEPT !.req = req, !.session = session, !.at = first]
           scope == Resolved(req.ws, session)
           known == IF scope = None THEN {} ELSE {AppIn(scopes[scope])}
<1>1. /\ calls < MaxCalls /\ calls' = calls + 1
      /\ call' = [call EXCEPT ![c] = r]
      /\ touched' = [touched EXCEPT ![c] = {}]
      /\ seen' = [seen EXCEPT ![c] = known]
      /\ UNCHANGED <<scopes, clock, opened, home>>
    BY DEF Begins, serverVars
<1>2. req \in Request /\ session \in Sessions \cup {None}
    BY RequestsAssumption DEF Selection, IInv, TypeOK, Request
<1>3. /\ r.req = req /\ r.session = session /\ r.ok = FALSE /\ r.at = first
      /\ r.app = None /\ r.base = 0
    BY DEF NoCall
<1> HIDE DEF first, session
<1>4. r.at \in Labels \ {"idle"} /\ Sound(r, known)
    <2>1. r.at = IF session # None /\ req.tool \in Announcements THEN "done"
                 ELSE IF c \in Agents THEN FirstOfTool(req.tool)
                 ELSE FirstOfCommand(req.tool)
        BY <1>3 DEF first
    <2> HIDE DEF r
    <2> QED BY <1>3, <2>1, FirstReaches
<1>5. r \in Record
    BY <1>2, <1>3, <1>4 DEF Record, NoCall
<1> HIDE DEF r
<1>6. scope \in Scopes \cup {None} /\ known \subseteq Apps \cup {None}
    <2>1. scope \in Scopes \cup {None}
        BY <1>2 DEF Resolved, Request, Scopes
    <2>2. scope # None => AppIn(scopes[scope]) \in Apps \cup {None}
        BY <2>1 DEF AppIn, IInv, TypeOK, Scope
    <2> QED BY <2>1, <2>2
<1> HIDE DEF scope, known
<1>7. TypeOK'
    <2>1. call' \in [Clients -> Record]
        BY <1>1, <1>5 DEF IInv, TypeOK, Record
    <2>2. \A d \in Clients : call'[d].at # "idle" => call'[d].req # None
        BY <1>1, <1>2, <1>3, NamesAssumption DEF IInv, TypeOK
    <2>3. seen' \in [Clients -> SUBSET (Apps \cup {None})]
        BY <1>1, <1>6 DEF IInv, TypeOK
    <2>4. calls' \in 0 .. MaxCalls
        BY <1>1, BoundAssumption DEF IInv, TypeOK
    <2>5. touched' \in [Clients -> SUBSET Scopes]
        BY <1>1 DEF IInv, TypeOK
    <2>6. selector' = selector
        OBVIOUS
    <2> QED BY <1>1, <2>1, <2>2, <2>3, <2>4, <2>5, <2>6 DEF IInv, TypeOK, Record
<1>8. SessionIsSelected'
    <2> SUFFICES ASSUME NEW d \in Clients, call'[d].at # "idle"
                 PROVE  call'[d].session = Selection(home'[d], call'[d].req)
        BY DEF SessionIsSelected, At, Asks, Selection
    <2>1. CASE d = c
        BY <1>1, <1>3, <2>1 DEF session, IInv, TypeOK
    <2>2. CASE d # c
        BY <1>1, <2>2 DEF IInv, TypeOK, SessionIsSelected, At, Asks
    <2> QED BY <2>1, <2>2
<1>9. CallsAreSound'
    <2> SUFFICES ASSUME NEW d \in Clients
                 PROVE  Sound(call'[d], seen'[d])
        BY DEF CallsAreSound, Sound, Reaches, Progress, Truth, PortWas, RouteWas
    <2>1. CASE d = c
        BY <1>1, <1>4, <2>1 DEF IInv, TypeOK
    <2>2. CASE d # c
        BY <1>1, <2>2 DEF IInv, TypeOK, CallsAreSound
    <2> QED BY <2>1, <2>2
<1>10. SeenIsCurrent'
    <2> SUFFICES ASSUME NEW d \in Clients, Running(d)', Goal(d)' # None
                 PROVE  App(d)' \in seen'[d]
        BY DEF SeenIsCurrent
    <2>1. CASE d = c
        <3>1. Goal(d)' = scope
            BY <1>1, <1>3, <2>1 DEF scope, Goal, Resolved, Asks, IInv, TypeOK
        <3>2. App(d)' = AppIn(scopes[scope])
            BY <1>1, <3>1 DEF App, AppIn
        <3> QED BY <1>1, <2>1, <3>1, <3>2 DEF known, IInv, TypeOK
    <2>2. CASE d # c
        <3>1. call'[d] = call[d] /\ seen'[d] = seen[d]
            BY <1>1, <2>2 DEF IInv, TypeOK
        <3>2. Goal(d)' = Goal(d) /\ App(d)' = App(d) /\ Running(d)
            BY <1>1, <3>1 DEF Goal, Resolved, Asks, App, AppIn, Running
        <3> QED BY <3>1, <3>2 DEF IInv, SeenIsCurrent
    <2> QED BY <2>1, <2>2
<1>11. CallsStayInScope'
    <2> SUFFICES ASSUME NEW d \in Clients, NEW t \in touched'[d]
                 PROVE  t = Meant(d)'
        BY DEF CallsStayInScope
    <2>1. d # c /\ t \in touched[d]
        BY <1>1 DEF IInv, TypeOK
    <2>2. call'[d] = call[d]
        BY <1>1, <2>1 DEF IInv, TypeOK
    <2> QED BY <1>1, <2>1, <2>2 DEF Meant, Selection, IInv, CallsStayInScope
<1> QED BY <1>1, <1>7, <1>8, <1>9, <1>10, <1>11 DEF IInv, SelectorIsHome

(* A request leaves what is spoken to one protocol.                         *)
LEMMA SpeaksKeeps ==
    ASSUME IInv, NEW a \in Agents, NEW method \in Methods, NEW meta \in Metas,
           Speaks(a, method, meta)
    PROVE  /\ mode' \in [Agents -> {"auto", "modern", "legacy"}]
           /\ spoken' \in [Agents -> SUBSET {"modern", "legacy"}]
           /\ OneProtocol'
<1> DEFINE form == FormOf(a, method, meta)
           next == NextMode(a, method, meta)
<1>1. mode[a] \in {"auto", "modern", "legacy"} /\ spoken[a] \subseteq {"modern", "legacy"}
      /\ spoken[a] \subseteq {mode[a]}
    BY DEF IInv, TypeOK, OneProtocol
<1>2. form \in {"modern", "legacy"} /\ next \in {"auto", "modern", "legacy"}
    BY <1>1 DEF FormOf, NextMode
<1>3. Bearing(method, meta) => form = next
    BY DEF Bearing, FormOf, NextMode
<1>4. spoken[a] # {} => next = mode[a]
    BY <1>1 DEF NextMode
<1>5. /\ mode' = [mode EXCEPT ![a] = next]
      /\ spoken' = [spoken EXCEPT ![a] =
            IF Understood(form, method, meta) /\ Bearing(method, meta)
            THEN @ \cup {form} ELSE @]
    BY DEF Speaks
<1> HIDE DEF form, next
<1>6. spoken'[a] \subseteq {mode'[a]}
    <2>1. mode'[a] = next
        BY <1>5 DEF IInv, TypeOK
    <2>2. spoken'[a] \subseteq spoken[a] \cup (IF Bearing(method, meta) THEN {form} ELSE {})
        BY <1>5 DEF IInv, TypeOK
    <2>3. spoken[a] \subseteq {next}
        BY <1>1, <1>4
    <2> QED BY <1>3, <2>1, <2>2, <2>3
<1>7. OneProtocol'
    <2> SUFFICES ASSUME NEW b \in Agents PROVE spoken'[b] \subseteq {mode'[b]}
        BY DEF OneProtocol
    <2>1. CASE b = a
        BY <1>6, <2>1
    <2>2. CASE b # a
        BY <1>5, <2>2 DEF IInv, TypeOK, OneProtocol
    <2> QED BY <2>1, <2>2
<1>8. mode' \in [Agents -> {"auto", "modern", "legacy"}]
    BY <1>2, <1>5 DEF IInv, TypeOK
<1>9. spoken' \in [Agents -> SUBSET {"modern", "legacy"}]
    BY <1>2, <1>5 DEF IInv, TypeOK
<1> QED BY <1>7, <1>8, <1>9

(* Outside of the calls only the protocol of a server changes.              *)
LEMMA ProtocolKeeps ==
    ASSUME IInv, UNCHANGED <<serverVars, home, call, seen, touched, calls, selector>>,
           mode' \in [Agents -> {"auto", "modern", "legacy"}],
           spoken' \in [Agents -> SUBSET {"modern", "legacy"}],
           OneProtocol'
    PROVE  IInv'
<1>1. TypeOK'
    BY DEF IInv, TypeOK, serverVars
<1>2. SelectorIsHome' /\ SessionIsSelected'
    BY DEF IInv, SelectorIsHome, SessionIsSelected, At, Asks, Selection
<1>3. CallsAreSound'
    <2> SUFFICES ASSUME NEW d \in Clients
                 PROVE  Sound(call'[d], seen'[d])
        BY DEF CallsAreSound, Sound, Reaches, Progress, Truth, PortWas, RouteWas
    <2>1. Sound(call[d], seen[d])
        BY DEF IInv, CallsAreSound
    <2>2. call'[d] = call[d] /\ seen'[d] = seen[d]
        OBVIOUS
    <2> QED BY <2>1, <2>2
<1>4. SeenIsCurrent'
    BY DEF IInv, SeenIsCurrent, Running, Goal, Resolved, Asks, App, AppIn, serverVars
<1>5. CallsStayInScope'
    BY DEF IInv, CallsStayInScope, Meant, Selection
<1> QED BY <1>1, <1>2, <1>3, <1>4, <1>5 DEF IInv

LEMMA HandleKeeps ==
    ASSUME IInv, NEW a \in Agents, Handle(a)
    PROVE  IInv'
BY SpeaksKeeps, ProtocolKeeps DEF Handle

LEMMA CallToolKeeps ==
    ASSUME IInv, NEW a \in Agents, CallTool(a)
    PROVE  IInv'
<1>1. PICK req \in Calls, meta \in Metas :
        /\ Speaks(a, "tools/call", meta)
        /\ Begins(a, req, Selection(selector[a], req))
        /\ UNCHANGED selector
    BY DEF CallTool
<1>2. Begins(a, req, Selection(home[a], req))
    BY <1>1 DEF IInv, SelectorIsHome
<1>3. /\ mode' \in [Agents -> {"auto", "modern", "legacy"}]
      /\ spoken' \in [Agents -> SUBSET {"modern", "legacy"}]
      /\ OneProtocol'
    BY <1>1, SpeaksKeeps DEF Methods
<1> QED BY <1>1, <1>2, <1>3, BeginsKeeps DEF Clients

LEMMA StartServerKeeps ==
    ASSUME IInv, NEW a \in Agents, StartServer(a)
    PROVE  IInv'
<1>1. selector' = selector
    BY DEF StartServer, IInv, TypeOK, SelectorIsHome
<1>2. PICK protocol \in Protocols : mode' = [mode EXCEPT ![a] = protocol]
    BY DEF StartServer
<1>3. spoken' = [spoken EXCEPT ![a] = {}]
    BY DEF StartServer
<1>4. mode' \in [Agents -> {"auto", "modern", "legacy"}]
    BY <1>2, ProtocolsAssumption DEF IInv, TypeOK
<1>5. spoken' \in [Agents -> SUBSET {"modern", "legacy"}] /\ OneProtocol'
    BY <1>2, <1>3 DEF IInv, TypeOK, OneProtocol
<1> QED BY <1>1, <1>4, <1>5, ProtocolKeeps DEF StartServer

LEMMA RunCommandKeeps ==
    ASSUME IInv, NEW c \in Commands, RunCommand(c)
    PROVE  IInv'
<1>1. PICK req \in CommandLines :
        /\ Begins(c, req, Selection(home[c], req))
        /\ UNCHANGED <<selector, protocolVars>>
    BY DEF RunCommand
<1>2. c \notin Agents
    BY NamesAssumption
<1>3. OneProtocol'
    BY <1>1 DEF protocolVars, IInv, OneProtocol
<1> QED BY <1>1, <1>2, <1>3, BeginsKeeps DEF Clients, protocolVars, IInv, TypeOK

LEMMA Initially ==
    ASSUME Init
    PROVE  IInv
<1>1. TypeOK
    <2>1. \A s \in Sessions : scopes[s] # None => s \in opened /\ scopes[Parent[s]] # None
        BY StoredAssumption, ParentAssumption DEF Init, Scopes
    <2>2. scopes \in [Scopes -> Scope \cup {None}]
        BY StoredAssumption DEF Init
    <2>3. clock \in Nat /\ \A s \in Scopes : scopes[s] # None => scopes[s].version <= clock
        BY DEF Init
    <2>4. call \in [Clients -> Record]
        <3>1. NoCall \in Record
            BY DEF NoCall, Record, Labels
        <3> QED BY <3>1 DEF Init
    <2>5. \A c \in Clients : call[c].at = "idle"
        BY DEF Init, NoCall
    <2>6. calls \in 0 .. MaxCalls
        BY BoundAssumption DEF Init
    <2>7. home \in [Clients -> Sessions \cup {None}] /\ selector = home
        BY HomesAssumption DEF Init
    <2>8. /\ mode \in [Agents -> {"auto", "modern", "legacy"}]
          /\ spoken \in [Agents -> SUBSET {"modern", "legacy"}]
        BY ProtocolsAssumption DEF Init
    <2>9. /\ seen \in [Clients -> SUBSET (Apps \cup {None})]
          /\ touched \in [Clients -> SUBSET Scopes]
          /\ opened \subseteq Sessions
        BY DEF Init
    <2> QED BY <2>1, <2>2, <2>3, <2>4, <2>5, <2>6, <2>7, <2>8, <2>9 DEF TypeOK, Record
<1>2. \A c \in Clients : call[c].at = "idle"
    BY DEF Init, NoCall
<1>3. SelectorIsHome /\ SessionIsSelected /\ CallsAreSound /\ SeenIsCurrent
    BY <1>2 DEF Init, SelectorIsHome, SessionIsSelected, CallsAreSound, SeenIsCurrent, At,
                Sound, Running
<1>4. CallsStayInScope /\ OneProtocol
    BY DEF Init, CallsStayInScope, OneProtocol
<1> QED BY <1>1, <1>3, <1>4 DEF IInv

LEMMA StepKeeps ==
    ASSUME IInv, [Next]_vars
    PROVE  IInv'
<1>1. CASE UNCHANGED vars
    <2>1. UNCHANGED <<serverVars, home, call, seen, touched, calls, selector, mode, spoken>>
        BY <1>1 DEF vars, clientVars, protocolVars
    <2>2. OneProtocol'
        BY <2>1 DEF IInv, OneProtocol
    <2> QED BY <2>1, <2>2, ProtocolKeeps DEF IInv, TypeOK
<1>2. CASE Next
    BY <1>2, RpcKeeps, HandleKeeps, CallToolKeeps, StartServerKeeps, RunCommandKeeps
       DEF Next
<1> QED BY <1>1, <1>2

-----------------------------------------------------------------------------
(* The theorems.                                                            *)

(* What a call has established, and what its scope has had meanwhile, are   *)
(* as the code of its tool or command takes them to be at every RPC.        *)
THEOREM Invariant == Spec => []IInv
<1>1. Init => IInv
    BY Initially
<1>2. IInv /\ [Next]_vars => IInv'
    BY StepKeeps
<1> QED BY <1>1, <1>2, PTL DEF Spec

(* The state keeps its types: no version is above Registry.nextRouteVersion,*)
(* and DeleteWorkspace leaves no session without its environment.           *)
THEOREM TypeCorrect == Spec => []TypeOK
<1>1. IInv => TypeOK
    BY DEF IInv
<1> QED BY <1>1, Invariant, PTL

(* An RPC is served from the scope that its request means and from no other *)
(* (handleToolCall, selectSession, ResolveSession).                         *)
THEOREM ScopeIsolation == Spec => []CallsStayInScope
<1>1. IInv => CallsStayInScope
    BY DEF IInv
<1> QED BY <1>1, Invariant, PTL

(* A tool or command that succeeds tells what was so in its scope during    *)
(* the call, whatever the other clients do between its RPCs (registerApp,   *)
(* setRoute, AnnounceCmd and the other tools of mcp.go and app.go).         *)
THEOREM TrueAnswers == Spec => []AnswersAreTrue
<1>1. IInv => AnswersAreTrue
    <2> SUFFICES ASSUME IInv, NEW c \in Clients, At(c, "done"), call[c].ok
                 PROVE  LET req == Asks(c)
                        IN  /\ req.tool \in Announcements \cup {"register", "cli register"} =>
                                    \E app \in seen[c] \ {None} : app.port = req.port
                            /\ req.tool = "set_route" \/ (req.tool \in Announcements /\ req.local) =>
                                    \E app \in seen[c] \ {None} : app.active = req.local
                            /\ req.tool = "unregister" => None \in seen[c]
                            /\ req.tool \notin SessionTools \cup {"workspace delete"} =>
                                    call[c].app \in seen[c]
        BY DEF AnswersAreTrue
    <2>1. Truth(Asks(c), call[c].app, seen[c])
        BY DEF IInv, CallsAreSound, Sound, At, Asks
    <2> QED BY <2>1 DEF Truth, PortWas, RouteWas, Registering, Activates
<1> QED BY <1>1, Invariant, PTL

(* A server answers requests that bear a protocol in one form until it ends *)
(* (selectProtocolMode).                                                    *)
THEOREM OneProtocolKept == Spec => []OneProtocol
<1>1. IInv => OneProtocol
    BY DEF IInv
<1> QED BY <1>1, Invariant, PTL

=============================================================================
