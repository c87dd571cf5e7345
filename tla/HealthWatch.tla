----------------------------- MODULE HealthWatch -----------------------------
(***************************************************************************)
(* Health checks and the clients that watch them.  The registry probes the *)
(* applications of watched workspaces, writes the verdict into the         *)
(* application it started from, and tells the open streams what changed.   *)
(* Meanwhile mutations replace every application by a copy, clients come   *)
(* and go, and the console reads whole workspaces beside the stream.       *)
(*                                                                         *)
(* A workspace has one application.  The probes of its local and of its    *)
(* remote address are one verdict, since they are compared, written and    *)
(* sent as a pair.                                                         *)
(***************************************************************************)
EXTENDS Integers, Sequences, FiniteSets

CONSTANTS
    Workspaces,
    Viewers,        \* clients, each with at most one stream
    Consoles,       \* those that show a workspace as well
    All,            \* the selection of a stream without a workspace
    None,
    BufferSize,     \* capacity of a stream's channel
    MaxMutations,   \* bound on mutations
    MaxFlips,       \* bound on the changes of an application's real health
    MaxChecks       \* bound on the probes under way

ASSUME SelectionAssumption == All \notin Workspaces
ASSUME BoundAssumption ==
    BufferSize \in Nat \ {0} /\ MaxMutations \in Nat /\ MaxFlips \in Nat /\ MaxChecks \in Nat
ASSUME ViewersAssumption == IsFiniteSet(Viewers) /\ Consoles \subseteq Viewers

Status == {"absent", "unknown", "down", "up"}
Generations == 0 .. MaxMutations + 1
Passes == {"warm", "refresh"}
Check == [kind : Passes \cup {"toggle"}, gen : Generations, ws : Workspaces,
          at : {"begun", "probed", "published", "written"}, old : BOOLEAN, ok : BOOLEAN]

VARIABLES
    objects,    \* the applications of each generation of Registry.workspaces
    cur,        \* the published generation
    candidate,  \* the mutation that holds mutationMu
    dropping,   \* deletes that have yet to forget the subscribers
    up,         \* the truth
    flips,
    checks,     \* the probes under way
    todo,       \* applications that a pass has listed and not yet started
    warmed,     \* the pass of Load has been made
    subs,       \* Registry.subscribers
    dropped,    \* history: workspaces whose subscribers a delete has forgotten
    watch,      \* the WatchHealth handler of each viewer
    shown,      \* whether its console shows the application as up
    listed,     \* the same of a reading on its way to the console
    fresh       \* history: nothing came between that reading and the stream

healthVars == <<objects, checks, todo>>
mutationVars == <<cur, candidate, dropping>>
clockVars == <<up, flips, warmed>>
consoleVars == <<shown, listed>>
subsVars == <<subs, dropped>>
vars == <<healthVars, mutationVars, clockVars, subsVars, watch, consoleVars, fresh>>

Ok(status) == status = "up"
Verdict(ok) == IF ok THEN "up" ELSE "down"
Current(w) == objects[cur][w]
Exists(w) == Current(w) # "absent"
Checked(w) == \E c \in checks : c.ws = w

Selection == Workspaces \cup {All}
Update == [ws : Workspaces, ok : BOOLEAN]
Stream == [at : {"off", "subscribed", "open", "closing"}, ws : Selection, buffer : Seq(Update)]
Off == [at |-> "off", ws |-> All, buffer |-> <<>>]
Watches(v, w) == watch[v].ws \in {w, All}

(* History: what a viewer sees of workspace w need no longer be its status. *)
Disturbed(w, happened) ==
    [v \in Viewers |-> IF happened /\ Watches(v, w) THEN "no" ELSE fresh[v]]

Init ==
    /\ \E stored \in SUBSET Workspaces :
         objects = [g \in Generations |->
                      [w \in Workspaces |-> IF g = 0 /\ w \notin stored THEN "absent"
                                            ELSE "unknown"]]
    /\ cur = 0
    /\ candidate = None
    /\ dropping = {}
    /\ up \in [Workspaces -> BOOLEAN]
    /\ flips = 0
    /\ checks = {}
    /\ todo = [p \in Passes |-> {}]
    /\ warmed = FALSE
    /\ subs = [w \in Workspaces |-> 0]
    /\ dropped = {}
    /\ watch = [v \in Viewers |-> Off]
    /\ shown = [v \in Viewers |-> FALSE]
    /\ listed = [v \in Viewers |-> None]
    /\ fresh = [v \in Viewers |-> "no"]
-----------------------------------------------------------------------------
(* An application comes up or goes down.                                   *)
Flip(w) ==
    /\ flips < MaxFlips
    /\ flips' = flips + 1
    /\ up' = [up EXCEPT ![w] = ~ @]
    /\ UNCHANGED <<healthVars, mutationVars, warmed, subsVars, watch, consoleVars, fresh>>
-----------------------------------------------------------------------------
(* Which applications a pass looks at.                                     *)
ActiveWorkspaces == {w \in Workspaces : Exists(w) /\ subs[w] > 0}

Listing(ws) == {<<cur, w>> : w \in ws}

Warm ==
    /\ ~ warmed
    /\ warmed' = TRUE
    /\ todo' = [todo EXCEPT !["warm"] = Listing(ActiveWorkspaces)]
    /\ UNCHANGED <<objects, checks, mutationVars, up, flips, subsVars, watch, consoleVars, fresh>>

(* One tick: what is watched, or everything when nobody watches anything   *)
(* and five minutes have passed, which may be at any time.  The ticks wait *)
(* for the end of a pass.                                                  *)
ShouldRunFullCheck == \A w \in Workspaces : subs[w] = 0

RefreshActive ==
    /\ todo["refresh"] = {}
    /\ ActiveWorkspaces # {}
    /\ todo' = [todo EXCEPT !["refresh"] = Listing(ActiveWorkspaces)]
    /\ UNCHANGED <<objects, checks, mutationVars, clockVars, subsVars, watch, consoleVars, fresh>>

(* Mutant: the full check lists what is watched, which is nothing.         *)
RefreshAllActive ==
    /\ todo["refresh"] = {}
    /\ ShouldRunFullCheck
    /\ todo' = [todo EXCEPT !["refresh"] = Listing(ActiveWorkspaces)]
    /\ UNCHANGED <<objects, checks, mutationVars, clockVars, subsVars, watch, consoleVars, fresh>>

RefreshAll ==
    /\ todo["refresh"] = {}
    /\ ActiveWorkspaces = {}
    /\ ShouldRunFullCheck
    /\ todo' = [todo EXCEPT !["refresh"] = Listing({w \in Workspaces : Exists(w)})]
    /\ UNCHANGED <<objects, checks, mutationVars, clockVars, subsVars, watch, consoleVars, fresh>>

(* The pass starts a goroutine for its next application; the goroutine     *)
(* remembers the status it finds.                                          *)
Start(p) ==
    /\ Cardinality(checks) < MaxChecks
    /\ \E g \in Generations, w \in Workspaces :
         LET check == [kind |-> p, gen |-> g, ws |-> w, at |-> "begun",
                       old |-> Ok(objects[g][w]), ok |-> FALSE]
         IN  /\ <<g, w>> \in todo[p]
             /\ check \notin checks
             /\ checks' = checks \cup {check}
             /\ todo' = [todo EXCEPT ![p] = @ \ {<<g, w>>}]
             /\ fresh' = Disturbed(w, Checked(w))
    /\ UNCHANGED <<objects, mutationVars, clockVars, subsVars, watch, consoleVars>>

Moved(c, at) == (checks \ {c}) \cup {[c EXCEPT !.at = at]}

Probe(c) ==
    /\ c.at = "begun"
    /\ checks' = (checks \ {c}) \cup {[c EXCEPT !.at = "probed", !.ok = up[c.ws]]}
    /\ UNCHANGED <<objects, todo, mutationVars, clockVars, subsVars, watch, consoleVars, fresh>>

(* UpdateBothStatuses on the application the check was started with.       *)
WriteInto(c) == objects' = [objects EXCEPT ![c.gen][c.ws] = Verdict(c.ok)]

(* publishHealth: every stream of the workspace that has room gets it.     *)
Receives(v, w) == watch[v].at = "open" /\ Watches(v, w)
HasRoom(v) == Len(watch[v].buffer) < BufferSize

PublishHealth(c) ==
    /\ watch' = [v \in Viewers |->
                   IF Receives(v, c.ws) /\ HasRoom(v)
                   THEN [watch[v] EXCEPT !.buffer = Append(@, [ws |-> c.ws, ok |-> c.ok])]
                   ELSE watch[v]]
    /\ fresh' = [v \in Viewers |->
                   IF Receives(v, c.ws) /\ (~ HasRoom(v) \/ c.gen # cur)
                   THEN "no" ELSE fresh[v]]

(* Mutant: an application that went down is no news.                       *)
ChangedUp(c) == ~ c.old /\ c.ok

Changed(c) == c.old # c.ok

(* refreshAllHealth tells the streams first and writes afterwards.         *)
PublishRefresh(c) ==
    /\ c.kind = "refresh"
    /\ c.at = "probed"
    /\ Changed(c)
    /\ PublishHealth(c)
    /\ checks' = Moved(c, "published")
    /\ UNCHANGED <<objects, todo, mutationVars, clockVars, subsVars, consoleVars>>

(* Mutant: the status is written when it was published, and only then.     *)
WriteRefreshChanged(c) ==
    /\ c.kind = "refresh"
    /\ c.at = IF Changed(c) THEN "published" ELSE "probed"
    /\ objects' = IF Changed(c) THEN [objects EXCEPT ![c.gen][c.ws] = Verdict(c.ok)]
                  ELSE objects
    /\ checks' = checks \ {c}
    /\ UNCHANGED <<todo, mutationVars, clockVars, subsVars, watch, consoleVars, fresh>>

WriteRefresh(c) ==
    /\ c.kind = "refresh"
    /\ c.at = IF Changed(c) THEN "published" ELSE "probed"
    /\ WriteInto(c)
    /\ checks' = checks \ {c}
    /\ UNCHANGED <<todo, mutationVars, clockVars, subsVars, watch, consoleVars, fresh>>

(* warmHealth writes first.                                                *)
WriteWarm(c) ==
    /\ c.kind = "warm"
    /\ c.at = "probed"
    /\ WriteInto(c)
    /\ checks' = IF Changed(c) THEN Moved(c, "written") ELSE checks \ {c}
    /\ UNCHANGED <<todo, mutationVars, clockVars, subsVars, watch, consoleVars, fresh>>

PublishWarm(c) ==
    /\ c.kind = "warm"
    /\ c.at = "written"
    /\ PublishHealth(c)
    /\ checks' = checks \ {c}
    /\ UNCHANGED <<objects, todo, mutationVars, clockVars, subsVars, consoleVars>>

(* checkApplicationHealth, after a toggle, tells nobody.                   *)
WriteToggle(c) ==
    /\ c.kind = "toggle"
    /\ c.at = "probed"
    /\ WriteInto(c)
    /\ checks' = checks \ {c}
    /\ fresh' = Disturbed(c.ws, TRUE)
    /\ UNCHANGED <<todo, mutationVars, clockVars, subsVars, watch, consoleVars>>

CheckMove(c) ==
    \/ Probe(c) \/ PublishRefresh(c) \/ WriteRefresh(c)
    \/ WriteWarm(c) \/ PublishWarm(c) \/ WriteToggle(c)

CheckStep == \E c \in checks : CheckMove(c)
-----------------------------------------------------------------------------
(* Mutations.  mutate clones every workspace before it reconfigures the    *)
(* proxy and writes the database, and publishes the clone afterwards.      *)
Kinds == {"create", "delete", "toggle", "edit"}

Mutated(kind, w) ==
    [objects[cur] EXCEPT ![w] = CASE kind = "create" -> "unknown"
                                  [] kind = "delete" -> "absent"
                                  [] OTHER -> @]

BeginMutation(kind, w) ==
    /\ candidate = None
    /\ cur < MaxMutations
    /\ Exists(w) <=> kind # "create"
    /\ candidate' = [kind |-> kind, ws |-> w]
    /\ objects' = [objects EXCEPT ![cur + 1] = Mutated(kind, w)]
    /\ UNCHANGED <<checks, todo, cur, dropping, clockVars, subsVars, watch, consoleVars, fresh>>

(* The proxy or the database refuses: the clone is dropped.                *)
Abandon ==
    /\ candidate # None
    /\ candidate' = None
    /\ objects' = [objects EXCEPT ![cur + 1] = [w \in Workspaces |-> "unknown"]]
    /\ UNCHANGED <<checks, todo, cur, dropping, clockVars, subsVars, watch, consoleVars, fresh>>

(* A toggle goes on to check the application it published, a delete to     *)
(* forget the subscribers of its workspace.                                *)
PublishCandidate ==
    /\ candidate # None
    /\ cur' = cur + 1
    /\ candidate' = None
    /\ checks' = IF candidate.kind # "toggle" THEN checks
                 ELSE checks \cup {[kind |-> "toggle", gen |-> cur + 1, ws |-> candidate.ws,
                                    at |-> "begun", old |-> FALSE, ok |-> FALSE]}
    /\ dropping' = IF candidate.kind = "delete" THEN dropping \cup {candidate.ws} ELSE dropping
    /\ fresh' = [v \in Viewers |->
                   IF \E w \in Workspaces : /\ Watches(v, w)
                                            /\ \/ Checked(w)
                                               \/ objects[cur + 1][w] # Current(w)
                   THEN "no" ELSE fresh[v]]
    /\ UNCHANGED <<objects, todo, clockVars, subsVars, watch, consoleVars>>

DropSubscribers(w) ==
    /\ w \in dropping
    /\ dropping' = dropping \ {w}
    /\ subs' = [subs EXCEPT ![w] = 0]
    /\ dropped' = dropped \cup {w}
    /\ UNCHANGED <<healthVars, cur, candidate, clockVars, watch, consoleVars, fresh>>
-----------------------------------------------------------------------------
(* WatchHealth.  It counts itself as a subscriber before it opens its      *)
(* stream, closes the stream first, and never asks whether the workspace   *)
(* exists.                                                                 *)
Subscribe(v, w) ==
    /\ watch[v].at = "off"
    /\ v \in Consoles => w # All
    /\ watch' = [watch EXCEPT ![v] = [at |-> "subscribed", ws |-> w, buffer |-> <<>>]]
    /\ subs' = IF w = All THEN subs ELSE [subs EXCEPT ![w] = @ + 1]
    /\ UNCHANGED <<healthVars, mutationVars, clockVars, dropped, consoleVars, fresh>>

OpenStream(v) ==
    /\ watch[v].at = "subscribed"
    /\ watch' = [watch EXCEPT ![v].at = "open"]
    /\ UNCHANGED <<healthVars, mutationVars, clockVars, subsVars, consoleVars, fresh>>

(* The console of one workspace applies the update.                        *)
Deliver(v) ==
    /\ watch[v].at = "open"
    /\ watch[v].buffer # <<>>
    /\ watch' = [watch EXCEPT ![v].buffer = Tail(@)]
    /\ shown' = IF v \in Consoles
                THEN [shown EXCEPT ![v] = Head(watch[v].buffer).ok]
                ELSE shown
    /\ fresh' = [fresh EXCEPT ![v] = IF @ = "asked" THEN "no" ELSE @]
    /\ UNCHANGED <<healthVars, mutationVars, clockVars, subsVars, listed>>

(* Mutant: the handler returns and its count stays.                        *)
DisconnectLeaks(v) ==
    /\ watch[v].at = "open"
    /\ watch' = [watch EXCEPT ![v] = Off]
    /\ shown' = [shown EXCEPT ![v] = FALSE]
    /\ listed' = [listed EXCEPT ![v] = None]
    /\ fresh' = [fresh EXCEPT ![v] = "no"]
    /\ UNCHANGED <<healthVars, mutationVars, clockVars, subsVars>>

Disconnect(v) ==
    /\ watch[v].at = "open"
    /\ watch' = [watch EXCEPT ![v].at = "closing", ![v].buffer = <<>>]
    /\ shown' = [shown EXCEPT ![v] = FALSE]
    /\ listed' = [listed EXCEPT ![v] = None]
    /\ fresh' = [fresh EXCEPT ![v] = "no"]
    /\ UNCHANGED <<healthVars, mutationVars, clockVars, subsVars>>

(* Mutant: the count is given back whatever it is.                         *)
EndWatchBlind(v) ==
    /\ watch[v].at = "closing"
    /\ watch' = [watch EXCEPT ![v] = Off]
    /\ subs' = IF watch[v].ws = All THEN subs ELSE [subs EXCEPT ![watch[v].ws] = @ - 1]
    /\ UNCHANGED <<healthVars, mutationVars, clockVars, dropped, consoleVars, fresh>>

EndWatch(v) ==
    /\ watch[v].at = "closing"
    /\ watch' = [watch EXCEPT ![v] = Off]
    /\ subs' = IF watch[v].ws = All \/ subs[watch[v].ws] = 0 THEN subs
               ELSE [subs EXCEPT ![watch[v].ws] = @ - 1]
    /\ UNCHANGED <<healthVars, mutationVars, clockVars, dropped, consoleVars, fresh>>

(* The console reads the whole workspace beside the stream and, when the   *)
(* answer arrives, replaces what it shows.  Only a reading beside an open  *)
(* stream is followed: before that any update may be missed.               *)
List(v) ==
    /\ v \in Consoles
    /\ watch[v].at = "open"
    /\ listed[v] = None
    /\ listed' = [listed EXCEPT ![v] = Ok(Current(watch[v].ws))]
    /\ fresh' = [fresh EXCEPT ![v] = IF watch[v].buffer = <<>> /\ ~ Checked(watch[v].ws)
                                     THEN "asked" ELSE "no"]
    /\ UNCHANGED <<healthVars, mutationVars, clockVars, subsVars, watch, shown>>

Show(v) ==
    /\ listed[v] # None
    /\ shown' = [shown EXCEPT ![v] = listed[v]]
    /\ listed' = [listed EXCEPT ![v] = None]
    /\ fresh' = [fresh EXCEPT ![v] = IF @ = "asked" THEN "yes" ELSE @]
    /\ UNCHANGED <<healthVars, mutationVars, clockVars, subsVars, watch>>
-----------------------------------------------------------------------------
PassStep ==
    \/ Warm
    \/ RefreshActive
    \/ RefreshAll
    \/ \E p \in Passes : Start(p)
    \/ CheckStep

MutationStep ==
    \/ \E kind \in Kinds, w \in Workspaces : BeginMutation(kind, w)
    \/ Abandon
    \/ PublishCandidate
    \/ \E w \in Workspaces : DropSubscribers(w)

WatchStep(v) ==
    \/ \E w \in Selection : Subscribe(v, w)
    \/ OpenStream(v)
    \/ Deliver(v)
    \/ Disconnect(v)
    \/ EndWatch(v)
    \/ List(v)
    \/ Show(v)

Next ==
    \/ PassStep
    \/ MutationStep
    \/ \E v \in Viewers : WatchStep(v)
    \/ \E w \in Workspaces : Flip(w)

Spec == Init /\ [][Next]_vars

(* The ticker keeps ticking, a probe ends within five seconds, a mutation  *)
(* and a handler's deferred calls run to their end.  Nothing obliges a     *)
(* client to come, to stay or to leave.                                    *)
Fairness ==
    /\ WF_vars(RefreshActive)
    /\ WF_vars(RefreshAll)
    /\ \A p \in Passes : WF_vars(Start(p))
    /\ \A w \in Workspaces : WF_vars(\E c \in checks : c.ws = w /\ CheckMove(c))
    /\ WF_vars(PublishCandidate)
    /\ \A w \in Workspaces : WF_vars(DropSubscribers(w))
    /\ \A v \in Viewers : WF_vars(EndWatch(v))

FairSpec == Spec /\ Fairness
-----------------------------------------------------------------------------
TypeOK ==
    /\ objects \in [Generations -> [Workspaces -> Status]]
    /\ cur \in 0 .. MaxMutations
    /\ candidate \in [kind : Kinds, ws : Workspaces] \cup {None}
    /\ candidate # None => cur < MaxMutations
    /\ dropping \subseteq Workspaces
    /\ up \in [Workspaces -> BOOLEAN]
    /\ flips \in 0 .. MaxFlips
    /\ checks \subseteq Check
    /\ todo \in [Passes -> SUBSET (Generations \X Workspaces)]
    /\ warmed \in BOOLEAN
    /\ subs \in [Workspaces -> Nat]
    /\ dropped \subseteq Workspaces
    /\ watch \in [Viewers -> Stream]
    /\ shown \in [Viewers -> BOOLEAN]
    /\ listed \in [Viewers -> BOOLEAN \cup {None}]
    /\ fresh \in [Viewers -> {"no", "asked", "yes"}]

(* The number of subscribers of a workspace is never more than the number  *)
(* of WatchHealth handlers that still owe the matching Unsubscribe, and    *)
(* exactly that unless it has been deleted: a count that leaks keeps   *)
(* the periodic check of everything from ever running again, and one that  *)
(* is short leaves a watched workspace unchecked.                          *)
Handlers(w) == {v \in Viewers : watch[v].ws = w /\ watch[v].at # "off"}

CountsAreBacked ==
    \A w \in Workspaces :
        /\ subs[w] <= Cardinality(Handlers(w))
        /\ w \notin dropped => subs[w] = Cardinality(Handlers(w))

(* A console that read its workspace while its stream was open and empty   *)
(* and no probe was under way, and took no update before the answer, shows *)
(* whether the application is up, once it has taken every update and       *)
(* nothing is probed: unless since then an update met a full buffer, the   *)
(* check after a toggle wrote its verdict, two probes of the application   *)
(* overlapped, or a mutation replaced the application while it was probed. *)
ConsoleShowsStatus ==
    \A v \in Viewers :
        LET w == watch[v].ws IN
        (/\ fresh[v] = "yes"
         /\ watch[v].buffer = <<>>
         /\ ~ Checked(w))
            => shown[v] = Ok(Current(w))

(* A workspace that keeps a subscriber ends up with the true status of its *)
(* application, whatever mutations came in between.                        *)
WatchedConverges ==
    \A w \in Workspaces :
        <>[](Exists(w) /\ subs[w] > 0) => <>[](Current(w) = Verdict(up[w]))

(* So does every workspace when nothing at all is watched.                 *)
UnwatchedConverges ==
    \A w \in Workspaces :
        <>[](Exists(w) /\ ShouldRunFullCheck) => <>[](Current(w) = Verdict(up[w]))
=============================================================================
