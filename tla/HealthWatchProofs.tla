-------------------------- MODULE HealthWatchProofs --------------------------
(***************************************************************************)
(* The health checks and their watchers are type correct, count their      *)
(* subscribers right, and keep an undisturbed console in step with the     *)
(* registry, for any number of workspaces, clients, mutations and probes.  *)
(***************************************************************************)
EXTENDS HealthWatch, FiniteSetTheorems, SequenceTheorems, TLAPS

(* What a console has been told last: its latest waiting update, or what   *)
(* it shows or is about to show.                                           *)
Heard(v) ==
    IF watch[v].buffer # <<>> THEN watch[v].buffer[Len(watch[v].buffer)].ok
    ELSE IF fresh[v] = "yes" THEN shown[v] ELSE listed[v]

(* A probe that concerns a console in step: it started from the published  *)
(* status, and only between its update and its write, in either order, do  *)
(* the console and the registry disagree.                                  *)
Follows(v, c) ==
    LET status == Ok(Current(c.ws)) IN
    /\ c.at \in {"begun", "probed"} => Heard(v) = status
    /\ c.at \in {"begun", "probed"} /\ c.gen = cur /\ c.kind # "toggle" => c.old = status
    /\ c.at = "published" => c.kind = "refresh" /\ c.gen = cur /\ Heard(v) = c.ok
    /\ c.at = "written" /\ c.gen = cur => status = c.ok

InStep(v) ==
    /\ watch[v].at = "open"
    /\ watch[v].ws \in Workspaces
    /\ v \in Consoles
    /\ fresh[v] = "yes" => listed[v] = None
    /\ \A c, d \in checks : c.ws = watch[v].ws /\ d.ws = watch[v].ws => c = d
    /\ \A c \in checks : c.ws = watch[v].ws => Follows(v, c)
    /\ ~ Checked(watch[v].ws) => Heard(v) = Ok(Current(watch[v].ws))

FollowersInStep == \A v \in Viewers : fresh[v] # "no" => InStep(v)

ConsolesChoose == \A v \in Consoles : watch[v].at # "off" => watch[v].ws # All

IInv == TypeOK /\ CountsAreBacked /\ ConsolesChoose /\ FollowersInStep
-----------------------------------------------------------------------------
(* What the handlers do with a stream gives a stream.                      *)
LEMMA StreamFacts ==
    ASSUME NEW stream \in Stream
    PROVE  /\ \A e \in Update : [stream EXCEPT !.buffer = Append(@, e)] \in Stream
           /\ stream.buffer # <<>> => /\ Head(stream.buffer) \in Update
                                      /\ [stream EXCEPT !.buffer = Tail(@)] \in Stream
           /\ [stream EXCEPT !.at = "closing", !.buffer = <<>>] \in Stream
           /\ [stream EXCEPT !.at = "open"] \in Stream
<1> USE DEF Stream
<1>1. \A e \in Update : Append(stream.buffer, e) \in Seq(Update)
    OBVIOUS
<1>2. stream.buffer # <<>> =>
        /\ Head(stream.buffer) \in Update
        /\ Tail(stream.buffer) \in Seq(Update)
    OBVIOUS
<1>3. <<>> \in Seq(Update)
    OBVIOUS
<1>4. /\ \A b \in Seq(Update) : [stream EXCEPT !.buffer = b] \in Stream
      /\ [stream EXCEPT !.at = "closing", !.buffer = <<>>] \in Stream
      /\ [stream EXCEPT !.at = "open"] \in Stream
    BY <1>3
<1> QED
    BY <1>1, <1>2, <1>4

(* The initial states satisfy the invariant.                               *)
LEMMA InitIInv == Init => IInv
<1> SUFFICES ASSUME Init PROVE IInv
    OBVIOUS
<1> USE SelectionAssumption, BoundAssumption, ViewersAssumption
<1>1. TypeOK
  <2> USE DEF Init, Status, Passes, Selection
  <2>1. objects \in [Generations -> [Workspaces -> Status]]
    OBVIOUS
  <2>2. watch \in [Viewers -> Stream]
    <3>1. Off \in Stream
      BY DEF Off, Stream
    <3> QED
      BY <3>1
  <2>3. cur \in 0 .. MaxMutations /\ flips \in 0 .. MaxFlips
    OBVIOUS
  <2>4. todo \in [Passes -> SUBSET (Generations \X Workspaces)] /\ subs \in [Workspaces -> Nat]
    OBVIOUS
  <2> QED
    BY <2>1, <2>2, <2>3, <2>4 DEF TypeOK
<1>2. CountsAreBacked
  <2> SUFFICES ASSUME NEW w \in Workspaces PROVE subs[w] = Cardinality(Handlers(w))
      BY <1>1, FS_CardinalityType DEF CountsAreBacked, TypeOK
  <2>1. Handlers(w) = {}
      BY DEF Init, Handlers, Off
  <2> QED
      BY <2>1, FS_EmptySet DEF Init
<1>3. FollowersInStep
  BY DEF Init, FollowersInStep
<1>4. ConsolesChoose
  BY DEF Init, ConsolesChoose, Off
<1> QED
    BY <1>1, <1>2, <1>3, <1>4 DEF IInv

(* Every step keeps the types.                                             *)
LEMMA TypeStep == TypeOK /\ [Next]_vars => TypeOK'
<1> SUFFICES ASSUME TypeOK, [Next]_vars PROVE TypeOK'
    OBVIOUS
<1> USE SelectionAssumption, BoundAssumption, ViewersAssumption
<1> USE DEF TypeOK, Status, Passes, Kinds, Selection, Off, Ok, Verdict,
            healthVars, mutationVars, clockVars, consoleVars, subsVars
<1>1. ASSUME NEW w \in Workspaces, Flip(w) PROVE TypeOK'
  BY <1>1 DEF Flip
<1>a. ASSUME NEW ws \in SUBSET Workspaces, NEW p \in Passes,
             todo' = [todo EXCEPT ![p] = Listing(ws)]
      PROVE  todo' \in [Passes -> SUBSET (Generations \X Workspaces)]
  <2>1. Listing(ws) \in SUBSET (Generations \X Workspaces)
    BY DEF Listing, Generations
  <2> QED
    BY <1>a, <2>1
<1>2. CASE Warm
  <2>1. todo' \in [Passes -> SUBSET (Generations \X Workspaces)]
    BY <1>2, <1>a DEF Warm, ActiveWorkspaces
  <2> QED
    BY <1>2, <2>1 DEF Warm
<1>3. CASE RefreshActive
  <2>1. todo' \in [Passes -> SUBSET (Generations \X Workspaces)]
    BY <1>3, <1>a DEF RefreshActive, ActiveWorkspaces
  <2> QED
    BY <1>3, <2>1 DEF RefreshActive
<1>4. CASE RefreshAll
  <2>1. todo' \in [Passes -> SUBSET (Generations \X Workspaces)]
    BY <1>4, <1>a DEF RefreshAll
  <2> QED
    BY <1>4, <2>1 DEF RefreshAll
<1>5. ASSUME NEW p \in Passes, Start(p) PROVE TypeOK'
  <2> PICK g \in Generations, w \in Workspaces :
        LET check == [kind |-> p, gen |-> g, ws |-> w, at |-> "begun",
                      old |-> Ok(objects[g][w]), ok |-> FALSE]
        IN  /\ checks' = checks \cup {check}
            /\ todo' = [todo EXCEPT ![p] = @ \ {<<g, w>>}]
            /\ fresh' = Disturbed(w, Checked(w))
    BY <1>5 DEF Start
  <2>1. checks' \subseteq Check
    <3>1. Ok(objects[g][w]) \in BOOLEAN
      OBVIOUS
    <3> HIDE DEF Ok
    <3>2. [kind |-> p, gen |-> g, ws |-> w, at |-> "begun",
           old |-> Ok(objects[g][w]), ok |-> FALSE] \in Check
      BY <3>1 DEF Check
    <3> QED
      BY <3>2
  <2>2. fresh' \in [Viewers -> {"no", "asked", "yes"}]
    BY DEF Disturbed
  <2> QED
    BY <1>5, <2>1, <2>2 DEF Start
<1>6. ASSUME NEW c \in checks, CheckMove(c) PROVE TypeOK'
  <2>1. c \in Check
    OBVIOUS
  <2>2. CASE Probe(c)
    <3>1. checks' \subseteq Check
      <4>1. up[c.ws] \in BOOLEAN
        BY <2>1 DEF Check
      <4>2. [c EXCEPT !.at = "probed", !.ok = up[c.ws]] \in Check
        BY <2>1, <4>1 DEF Check
      <4> QED
        BY <2>2, <4>2 DEF Probe
    <3> QED
      BY <2>2, <3>1 DEF Probe
  <2>3. ASSUME PublishHealth(c)
        PROVE  /\ watch' \in [Viewers -> Stream]
               /\ fresh' \in [Viewers -> {"no", "asked", "yes"}]
    <3>1. [ws |-> c.ws, ok |-> c.ok] \in Update
      BY <2>1 DEF Check, Update
    <3>2. \A v \in Viewers :
            [watch[v] EXCEPT !.buffer = Append(@, [ws |-> c.ws, ok |-> c.ok])] \in Stream
      BY <3>1, StreamFacts
    <3>3. watch' \in [Viewers -> Stream]
      BY <2>3, <3>2 DEF PublishHealth
    <3>4. fresh' \in [Viewers -> {"no", "asked", "yes"}]
      BY <2>3 DEF PublishHealth
    <3> QED
      BY <3>3, <3>4
  <2>4. ASSUME WriteInto(c) PROVE objects' \in [Generations -> [Workspaces -> Status]]
    BY <2>1, <2>4 DEF WriteInto, Check
  <2>5. ASSUME NEW at \in {"published", "written"}, checks' = Moved(c, at)
        PROVE  checks' \subseteq Check
    BY <2>1, <2>5 DEF Moved, Check
  <2>6. CASE PublishRefresh(c)
    BY <2>6, <2>3, <2>5 DEF PublishRefresh
  <2>7. CASE WriteRefresh(c)
    BY <2>7, <2>4 DEF WriteRefresh
  <2>8. CASE WriteWarm(c)
    <3>1. checks' \subseteq Check
      BY <2>8, <2>5 DEF WriteWarm
    <3> QED
      BY <2>8, <2>4, <3>1 DEF WriteWarm
  <2>9. CASE PublishWarm(c)
    BY <2>9, <2>3 DEF PublishWarm
  <2>10. CASE WriteToggle(c)
    <3>1. fresh' \in [Viewers -> {"no", "asked", "yes"}]
      BY <2>10 DEF WriteToggle, Disturbed
    <3> QED
      BY <2>10, <2>4, <3>1 DEF WriteToggle
  <2> QED
    BY <1>6, <2>2, <2>6, <2>7, <2>8, <2>9, <2>10 DEF CheckMove
<1>7. ASSUME NEW kind \in Kinds, NEW w \in Workspaces, BeginMutation(kind, w) PROVE TypeOK'
  <2>1. Mutated(kind, w) \in [Workspaces -> Status]
    BY DEF Mutated, Generations
  <2> QED
    BY <1>7, <2>1 DEF BeginMutation, Generations
<1>8. CASE Abandon
  BY <1>8 DEF Abandon, Generations
<1>9. CASE PublishCandidate
  <2>1. candidate \in [kind : Kinds, ws : Workspaces] /\ cur + 1 \in 0 .. MaxMutations
    BY <1>9 DEF PublishCandidate
  <2>2. checks' \subseteq Check
    <3>1. [kind |-> "toggle", gen |-> cur + 1, ws |-> candidate.ws,
           at |-> "begun", old |-> FALSE, ok |-> FALSE] \in Check
      BY <2>1 DEF Check, Generations
    <3> QED
      BY <1>9, <3>1 DEF PublishCandidate
  <2>3. dropping' \subseteq Workspaces
    BY <1>9, <2>1 DEF PublishCandidate
  <2>4. fresh' \in [Viewers -> {"no", "asked", "yes"}]
    BY <1>9 DEF PublishCandidate
  <2> QED
    BY <1>9, <2>1, <2>2, <2>3, <2>4 DEF PublishCandidate
<1>10. ASSUME NEW w \in Workspaces, DropSubscribers(w) PROVE TypeOK'
  BY <1>10 DEF DropSubscribers
<1>11. ASSUME NEW v \in Viewers, WatchStep(v) PROVE TypeOK'
  <2>1. ASSUME NEW w \in Selection, Subscribe(v, w) PROVE TypeOK'
    <3>1. [at |-> "subscribed", ws |-> w, buffer |-> <<>>] \in Stream
      BY <2>1 DEF Stream
    <3> QED
      BY <2>1, <3>1 DEF Subscribe
  <2>2. CASE OpenStream(v)
    <3>1. [watch[v] EXCEPT !.at = "open"] \in Stream
      BY StreamFacts
    <3>2. watch' = [watch EXCEPT ![v] = [watch[v] EXCEPT !.at = "open"]]
      BY <2>2 DEF OpenStream
    <3> QED
      BY <2>2, <3>1, <3>2 DEF OpenStream
  <2>3. CASE Deliver(v)
    <3>1. watch[v].buffer # <<>>
      BY <2>3 DEF Deliver
    <3>2. Head(watch[v].buffer).ok \in BOOLEAN
      BY <3>1, StreamFacts DEF Update
    <3>3. [watch[v] EXCEPT !.buffer = Tail(@)] \in Stream
      BY <3>1, StreamFacts
    <3>4. watch' = [watch EXCEPT ![v] = [watch[v] EXCEPT !.buffer = Tail(@)]]
      BY <2>3 DEF Deliver
    <3>5. watch' \in [Viewers -> Stream]
      BY <3>3, <3>4
    <3>6. shown' \in [Viewers -> BOOLEAN]
      BY <2>3, <3>2 DEF Deliver
    <3>7. fresh' \in [Viewers -> {"no", "asked", "yes"}]
      BY <2>3 DEF Deliver
    <3> QED
      BY <2>3, <3>5, <3>6, <3>7 DEF Deliver
  <2>4. CASE Disconnect(v)
    <3>2. [watch[v] EXCEPT !.at = "closing", !.buffer = <<>>]
            \in Stream
      BY StreamFacts
    <3>3. watch' = [watch EXCEPT ![v] = [watch[v] EXCEPT !.at = "closing", !.buffer = <<>>]]
      BY <2>4 DEF Disconnect
    <3>4. watch' \in [Viewers -> Stream]
      BY <3>2, <3>3
    <3>5. listed' \in [Viewers -> BOOLEAN \cup {None}]
      BY <2>4 DEF Disconnect
    <3> QED
      BY <2>4, <3>4, <3>5 DEF Disconnect
  <2>5. CASE EndWatch(v)
    <3>1. Off \in Stream
      BY DEF Stream
    <3>2. subs' \in [Workspaces -> Nat]
      BY <2>5 DEF EndWatch, Stream
    <3> HIDE DEF Off
    <3> QED
      BY <2>5, <3>1, <3>2 DEF EndWatch
  <2>6. CASE List(v)
    <3>1. listed' \in [Viewers -> BOOLEAN \cup {None}]
      BY <2>6 DEF List
    <3>2. fresh' \in [Viewers -> {"no", "asked", "yes"}]
      BY <2>6 DEF List
    <3> QED
      BY <2>6, <3>1, <3>2 DEF List
  <2>7. CASE Show(v)
    <3>1. listed' \in [Viewers -> BOOLEAN \cup {None}] /\ shown' \in [Viewers -> BOOLEAN]
      BY <2>7 DEF Show
    <3>2. fresh' \in [Viewers -> {"no", "asked", "yes"}]
      BY <2>7 DEF Show
    <3> QED
      BY <2>7, <3>1, <3>2 DEF Show
  <2> QED
    BY <1>11, <2>1, <2>2, <2>3, <2>4, <2>5, <2>6, <2>7 DEF WatchStep
<1>12. CASE UNCHANGED vars
  BY <1>12 DEF vars
<1> QED
  BY <1>1, <1>2, <1>3, <1>4, <1>5, <1>6, <1>7, <1>8, <1>9, <1>10, <1>11, <1>12
  DEF Next, PassStep, CheckStep, MutationStep
-----------------------------------------------------------------------------
(* Only subscriptions, their ends and the delete of a workspace change who *)
(* is counted.                                                             *)
LEMMA HandlersStep ==
    ASSUME TypeOK, [Next]_vars
    PROVE  \/ /\ subs' = subs
              /\ dropped' = dropped
              /\ \A w \in Workspaces : Handlers(w)' = Handlers(w)
           \/ \E w \in Workspaces :
                 /\ subs' = [subs EXCEPT ![w] = 0]
                 /\ dropped' = dropped \cup {w}
                 /\ \A u \in Workspaces : Handlers(u)' = Handlers(u)
           \/ \E v \in Viewers, w \in Selection : Subscribe(v, w)
           \/ \E v \in Viewers : EndWatch(v)
<1> DEFINE Same == /\ subs' = subs
                   /\ dropped' = dropped
                   /\ \A w \in Workspaces : Handlers(w)' = Handlers(w)
<1> USE DEF healthVars, mutationVars, clockVars, consoleVars, subsVars
<1>1. ASSUME NEW w \in Workspaces, Flip(w) PROVE Same
  BY <1>1 DEF Flip, Handlers
<1>2. ASSUME Warm \/ RefreshActive \/ RefreshAll PROVE Same
  BY <1>2 DEF Warm, RefreshActive, RefreshAll, Handlers
<1>3. ASSUME NEW p \in Passes, Start(p) PROVE Same
  BY <1>3 DEF Start, Handlers
<1>4. ASSUME NEW c \in checks, CheckMove(c) PROVE Same
  <2>1. ASSUME PublishHealth(c), UNCHANGED subsVars PROVE Same
    <3>1. \A v \in Viewers : watch'[v].at = watch[v].at /\ watch'[v].ws = watch[v].ws
      BY <2>1 DEF PublishHealth, TypeOK, Stream
    <3> QED
      BY <2>1, <3>1 DEF Handlers
  <2>2. CASE PublishRefresh(c) \/ PublishWarm(c)
    BY <2>1, <2>2 DEF PublishRefresh, PublishWarm
  <2>3. CASE Probe(c) \/ WriteRefresh(c) \/ WriteWarm(c) \/ WriteToggle(c)
    BY <2>3 DEF Probe, WriteRefresh, WriteWarm, WriteToggle, Handlers
  <2> QED
    BY <1>4, <2>2, <2>3 DEF CheckMove
<1>5. ASSUME NEW kind \in Kinds, NEW w \in Workspaces, BeginMutation(kind, w) PROVE Same
  BY <1>5 DEF BeginMutation, Handlers
<1>6. ASSUME Abandon \/ PublishCandidate PROVE Same
  BY <1>6 DEF Abandon, PublishCandidate, Handlers
<1>7. ASSUME NEW w \in Workspaces, DropSubscribers(w)
      PROVE  /\ subs' = [subs EXCEPT ![w] = 0]
             /\ dropped' = dropped \cup {w}
             /\ \A u \in Workspaces : Handlers(u)' = Handlers(u)
  BY <1>7 DEF DropSubscribers, Handlers
<1>8. ASSUME NEW v \in Viewers, OpenStream(v) \/ Deliver(v) \/ Disconnect(v) PROVE Same
  <2>1. watch[v] \in Stream
    BY DEF TypeOK
  <2>2. /\ watch'[v].ws = watch[v].ws /\ watch'[v].at # "off" /\ watch[v].at # "off"
        /\ \A u \in Viewers \ {v} : watch'[u] = watch[u]
    BY <1>8, <2>1 DEF OpenStream, Deliver, Disconnect, TypeOK, Stream
  <2>3. UNCHANGED subsVars
    BY <1>8 DEF OpenStream, Deliver, Disconnect
  <2> QED
    BY <2>2, <2>3 DEF Handlers
<1>9. ASSUME NEW v \in Viewers, List(v) \/ Show(v) PROVE Same
  BY <1>9 DEF List, Show, Handlers
<1>10. CASE UNCHANGED vars
  BY <1>10 DEF vars, Handlers
<1> QED
  BY <1>1, <1>2, <1>3, <1>4, <1>5, <1>6, <1>7, <1>8, <1>9, <1>10
  DEF Next, PassStep, CheckStep, MutationStep, WatchStep

(* A client is counted where it watches, and its going takes one from a    *)
(* count that has it.                                                      *)
LEMMA CountStep == TypeOK /\ CountsAreBacked /\ [Next]_vars => CountsAreBacked'
<1> SUFFICES ASSUME TypeOK, CountsAreBacked, [Next]_vars,
                    NEW w \in Workspaces
             PROVE  /\ subs'[w] <= Cardinality(Handlers(w)')
                    /\ w \notin dropped' => subs'[w] = Cardinality(Handlers(w)')
    BY DEF CountsAreBacked
<1>1. /\ IsFiniteSet(Handlers(w))
      /\ Cardinality(Handlers(w)) \in Nat
      /\ subs \in [Workspaces -> Nat]
  <2>1. Handlers(w) \subseteq Viewers
    BY DEF Handlers
  <2> QED
    BY <2>1, ViewersAssumption, FS_Subset, FS_CardinalityType DEF TypeOK
<1>2. /\ subs[w] <= Cardinality(Handlers(w))
      /\ w \notin dropped => subs[w] = Cardinality(Handlers(w))
  BY DEF CountsAreBacked
<1>3. CASE UNCHANGED <<subs, dropped>> /\ Handlers(w)' = Handlers(w)
  BY <1>2, <1>3
<1>4. ASSUME NEW u \in Workspaces, subs' = [subs EXCEPT ![u] = 0],
             dropped' = dropped \cup {u}, Handlers(w)' = Handlers(w)
      PROVE  /\ subs'[w] <= Cardinality(Handlers(w)')
             /\ w \notin dropped' => subs'[w] = Cardinality(Handlers(w)')
  BY <1>1, <1>2, <1>4
<1>5. ASSUME NEW v \in Viewers, NEW u \in Selection, Subscribe(v, u)
      PROVE  /\ subs'[w] <= Cardinality(Handlers(w)')
             /\ w \notin dropped' => subs'[w] = Cardinality(Handlers(w)')
  <2>1. /\ watch[v].at = "off"
        /\ watch' = [watch EXCEPT ![v] = [at |-> "subscribed", ws |-> u, buffer |-> <<>>]]
        /\ subs' = IF u = All THEN subs ELSE [subs EXCEPT ![u] = @ + 1]
        /\ dropped' = dropped
    BY <1>5 DEF Subscribe
  <2>2. watch \in [Viewers -> Stream]
    BY DEF TypeOK
  <2>3. CASE u = w
    <3>1. v \notin Handlers(w) /\ Handlers(w)' = Handlers(w) \cup {v}
      BY <2>1, <2>2, <2>3 DEF Handlers
    <3>2. Cardinality(Handlers(w)') = Cardinality(Handlers(w)) + 1
      BY <1>1, <3>1, FS_AddElement
    <3>3. subs'[w] = subs[w] + 1
      BY <1>1, <2>1, <2>3, SelectionAssumption
    <3> QED
      BY <1>1, <1>2, <2>1, <3>2, <3>3
  <2>4. CASE u # w
    <3>1. Handlers(w)' = Handlers(w)
      BY <2>1, <2>2, <2>4 DEF Handlers
    <3> QED
      BY <1>1, <1>2, <2>1, <2>4, <3>1
  <2> QED
    BY <2>3, <2>4
<1>6. ASSUME NEW v \in Viewers, EndWatch(v)
      PROVE  /\ subs'[w] <= Cardinality(Handlers(w)')
             /\ w \notin dropped' => subs'[w] = Cardinality(Handlers(w)')
  <2>1. /\ watch[v].at = "closing"
        /\ watch' = [watch EXCEPT ![v] = Off]
        /\ subs' = IF watch[v].ws = All \/ subs[watch[v].ws] = 0 THEN subs
                   ELSE [subs EXCEPT ![watch[v].ws] = @ - 1]
        /\ dropped' = dropped
    BY <1>6 DEF EndWatch
  <2>2. watch \in [Viewers -> Stream]
    BY DEF TypeOK
  <2>3. CASE watch[v].ws = w
    <3>1. v \in Handlers(w) /\ Handlers(w)' = Handlers(w) \ {v}
      BY <2>1, <2>2, <2>3 DEF Handlers, Off
    <3>2. Cardinality(Handlers(w)') = Cardinality(Handlers(w)) - 1
      BY <1>1, <3>1, FS_RemoveElement
    <3>3. subs'[w] = IF subs[w] = 0 THEN 0 ELSE subs[w] - 1
      BY <1>1, <2>1, <2>3, SelectionAssumption
    <3>4. Cardinality(Handlers(w)) # 0
      BY <1>1, <3>1, FS_EmptySet
    <3> QED
      BY <1>1, <1>2, <2>1, <3>2, <3>3, <3>4
  <2>4. CASE watch[v].ws # w
    <3>1. Handlers(w)' = Handlers(w)
      BY <2>1, <2>2, <2>4, SelectionAssumption DEF Handlers, Off
    <3>2. subs'[w] = subs[w]
      BY <1>1, <2>1, <2>4
    <3> QED
      BY <1>2, <2>1, <3>1, <3>2
  <2> QED
    BY <2>3, <2>4
<1> QED
  BY HandlersStep, <1>3, <1>4, <1>5, <1>6
-----------------------------------------------------------------------------
(* Nothing that matters to the console of v changes.                       *)
LEMMA Undisturbed ==
    ASSUME NEW v \in Viewers, InStep(v), cur' = cur,
           watch'[v] = watch[v], fresh'[v] = fresh[v],
           shown'[v] = shown[v], listed'[v] = listed[v],
           objects'[cur][watch[v].ws] = objects[cur][watch[v].ws],
           \A c : c.ws = watch[v].ws => (c \in checks' <=> c \in checks)
    PROVE  InStep(v)'
<1>1. Heard(v)' = Heard(v)
  BY DEF Heard
<1>2. Current(watch[v].ws)' = Current(watch[v].ws) /\ watch[v].ws' = watch[v].ws
  BY DEF Current
<1>3. Checked(watch[v].ws)' <=> Checked(watch[v].ws)
  BY DEF Checked
<1>4. ASSUME NEW c, c.ws = watch[v].ws, Follows(v, c) PROVE Follows(v, c)'
  BY <1>1, <1>2, <1>4 DEF Follows
<1> QED
  BY <1>1, <1>2, <1>3, <1>4 DEF InStep

(* A probe moves on; it was the only one of its workspace and still is, or *)
(* it ends.                                                                *)
LEMMA OnlyCheck ==
    ASSUME NEW v \in Viewers, InStep(v), NEW c \in checks, c.ws = watch[v].ws,
           NEW d, d.ws = c.ws, watch'[v].ws = watch[v].ws
    PROVE  /\ checks' = (checks \ {c}) \cup {d} =>
                \A e \in checks' : e.ws = watch'[v].ws => e = d
           /\ checks' = checks \ {c} => ~ Checked(watch[v].ws)'
  BY DEF InStep, Checked

LEMMA FollowStart ==
    ASSUME TypeOK, NEW v \in Viewers, fresh[v] # "no" => InStep(v), fresh'[v] # "no",
           NEW p \in Passes, Start(p)
    PROVE  InStep(v)'
<1>1. PICK g \in Generations, w \in Workspaces :
        /\ checks' = checks \cup {[kind |-> p, gen |-> g, ws |-> w, at |-> "begun",
                                   old |-> Ok(objects[g][w]), ok |-> FALSE]}
        /\ fresh' = Disturbed(w, Checked(w))
        /\ UNCHANGED <<objects, mutationVars, watch, consoleVars>>
  BY DEF Start
<1>2. fresh'[v] = fresh[v] /\ (Watches(v, w) => ~ Checked(w)) /\ InStep(v)
  BY <1>1 DEF Disturbed
<1>3. UNCHANGED <<objects, cur, watch, shown, listed>>
  BY <1>1 DEF mutationVars, consoleVars
<1>4. CASE watch[v].ws # w
  BY <1>1, <1>2, <1>3, <1>4, Undisturbed
<1>5. CASE watch[v].ws = w
  <2>1. ~ Checked(w)
    BY <1>2, <1>5 DEF Watches
  <2>2. PICK new : new = [kind |-> p, gen |-> g, ws |-> w, at |-> "begun",
                          old |-> Ok(objects[g][w]), ok |-> FALSE]
    OBVIOUS
  <2>3. Heard(v)' = Heard(v) /\ Heard(v) = Ok(Current(w)) /\ Current(w)' = Current(w)
    BY <1>2, <1>3, <1>5, <2>1 DEF Heard, InStep, Current
  <2>4. \A c \in checks' : c.ws = w => c = new
    BY <1>1, <2>1, <2>2 DEF Checked
  <2>5. Follows(v, new)'
    BY <1>3, <2>2, <2>3 DEF Follows, Current
  <2>6. Checked(w)'
    BY <1>1, <2>2 DEF Checked
  <2> QED
    BY <1>2, <1>3, <1>5, <2>4, <2>5, <2>6 DEF InStep
<1> QED
  BY <1>4, <1>5

LEMMA FollowCheck ==
    ASSUME TypeOK, NEW v \in Viewers, fresh[v] # "no" => InStep(v), fresh'[v] # "no",
           NEW c \in checks, CheckMove(c)
    PROVE  InStep(v)'
<1> USE DEF mutationVars, consoleVars
<1> DEFINE w == watch[v].ws
<1>1. c \in Check /\ watch[v] \in Stream /\ watch \in [Viewers -> Stream] /\ fresh \in [Viewers -> {"no", "asked", "yes"}]
  BY DEF TypeOK
<1>2. fresh'[v] = fresh[v] /\ InStep(v)
  BY DEF CheckMove, Probe, PublishRefresh, WriteRefresh, WriteWarm, PublishWarm, WriteToggle,
         PublishHealth, Disturbed
<1>3. cur' = cur /\ UNCHANGED <<shown, listed>>
  BY DEF CheckMove, Probe, PublishRefresh, WriteRefresh, WriteWarm, PublishWarm, WriteToggle
<1>4. w \in Workspaces /\ watch[v].at = "open" /\ v \in Consoles /\ w # All
  BY <1>2, SelectionAssumption DEF InStep
<1>5. objects \in [Generations -> [Workspaces -> Status]] /\ cur \in Generations /\ c.gen \in Generations
      /\ c.ok \in BOOLEAN /\ c.ws \in Workspaces
  BY <1>1, BoundAssumption DEF TypeOK, Generations, Check
<1>6. ASSUME WriteInto(c) PROVE /\ c.ws # w \/ c.gen # cur => objects'[cur][w] = objects[cur][w]
                                /\ c.ws = w /\ c.gen = cur => Ok(objects'[cur][w]) = c.ok
  BY <1>4, <1>5, <1>6 DEF WriteInto, Ok, Verdict
<1>7. ASSUME PublishHealth(c)
      PROVE  /\ c.ws # w => watch'[v] = watch[v]
             /\ c.ws = w => c.gen = cur /\ Heard(v)' = c.ok
             /\ watch'[v].at = watch[v].at /\ watch'[v].ws = watch[v].ws
  <2>1. CASE c.ws # w
    BY <1>1, <1>4, <1>7, <2>1 DEF PublishHealth, Receives, Watches
  <2>2. CASE c.ws = w
    <3>1. Receives(v, c.ws)
      BY <1>4, <2>2 DEF Receives, Watches
    <3>2. HasRoom(v) /\ c.gen = cur
      BY <1>7, <3>1 DEF PublishHealth
    <3>3. watch'[v] = [watch[v] EXCEPT !.buffer = Append(@, [ws |-> c.ws, ok |-> c.ok])]
      BY <1>7, <3>1, <3>2 DEF PublishHealth
    <3>4. watch'[v].buffer = Append(watch[v].buffer, [ws |-> c.ws, ok |-> c.ok])
          /\ watch'[v].at = watch[v].at /\ watch'[v].ws = watch[v].ws
      BY <1>1, <3>3 DEF Stream
    <3>5. [ws |-> c.ws, ok |-> c.ok] \in Update /\ watch[v].buffer \in Seq(Update)
      BY <1>1, <1>5 DEF Stream, Update
    <3>6. \A b \in Seq(Update), e \in Update :
            Append(b, e) # <<>> /\ Append(b, e)[Len(Append(b, e))] = e
      OBVIOUS
    <3>7. watch'[v].buffer # <<>>
          /\ watch'[v].buffer[Len(watch'[v].buffer)] = [ws |-> c.ws, ok |-> c.ok]
      BY <3>4, <3>5, <3>6
    <3>8. Heard(v)' = c.ok
      BY <3>7 DEF Heard
    <3> QED
      BY <2>2, <3>2, <3>4, <3>8
  <2> QED
    BY <2>1, <2>2
<1>8. ASSUME watch' = watch PROVE Heard(v)' = Heard(v)
  BY <1>2, <1>3, <1>8 DEF Heard
<1>9. CASE c.ws # w
  <2>1. watch'[v] = watch[v]
    BY <1>7, <1>9 DEF CheckMove, Probe, PublishRefresh, WriteRefresh, WriteWarm, PublishWarm, WriteToggle
  <2>2. objects'[cur][w] = objects[cur][w]
    BY <1>6, <1>9 DEF CheckMove, Probe, PublishRefresh, WriteRefresh, WriteWarm, PublishWarm, WriteToggle
  <2>3. \A d : d.ws = w => (d \in checks' <=> d \in checks)
    <3>1. [c EXCEPT !.at = "probed", !.ok = up[c.ws]].ws # w
          /\ \A at : [c EXCEPT !.at = at].ws # w
      BY <1>1, <1>9 DEF Check
    <3> QED
      BY <1>9, <3>1
      DEF CheckMove, Probe, PublishRefresh, WriteRefresh, WriteWarm, PublishWarm, WriteToggle, Moved
  <2> QED
    BY <1>2, <1>3, <2>1, <2>2, <2>3, Undisturbed
<1>10. CASE c.ws = w
  <2>1. Follows(v, c) /\ (fresh[v] = "yes" => listed[v] = None)
    BY <1>2, <1>10 DEF InStep
  <2>2. ASSUME NEW d, d.ws = w, checks' = (checks \ {c}) \cup {d}, Follows(v, d)',
               watch'[v].at = "open", watch'[v].ws = w
        PROVE  InStep(v)'
    <3>1. \A e \in checks' : e.ws = w => e = d
      BY <1>2, <1>10, <2>2, OnlyCheck
    <3>2. Checked(w)'
      BY <2>2 DEF Checked
    <3> QED
      BY <1>2, <1>3, <1>4, <2>1, <2>2, <3>1, <3>2 DEF InStep
  <2>3. ASSUME checks' = checks \ {c}, Heard(v)' = Ok(objects'[cur][w]),
               watch'[v].at = "open", watch'[v].ws = w
        PROVE  InStep(v)'
    <3>1. ~ Checked(w)'
      BY <1>2, <1>10, <2>3, OnlyCheck
    <3> QED
      BY <1>2, <1>3, <1>4, <2>1, <2>3, <3>1 DEF InStep, Checked, Current
  <2>4. CASE Probe(c)
    <3>0. PICK d : d = [c EXCEPT !.at = "probed", !.ok = up[c.ws]]
      OBVIOUS
    <3>1. d.ws = c.ws /\ d.at = "probed" /\ d.gen = c.gen /\ d.kind = c.kind /\ d.old = c.old
      BY <1>1, <3>0 DEF Check
    <3>2. checks' = (checks \ {c}) \cup {d} /\ c.at = "begun" /\ UNCHANGED <<objects, cur, watch>>
      BY <2>4, <3>0 DEF Probe
    <3>3. Follows(v, d)'
      BY <1>8, <1>10, <2>1, <3>1, <3>2 DEF Follows, Current
    <3> QED
      BY <1>4, <1>10, <2>2, <3>1, <3>2, <3>3
  <2>5. CASE PublishRefresh(c)
    <3> DEFINE d == [c EXCEPT !.at = "published"]
    <3>1. d.ws = c.ws /\ d.at = "published" /\ d.gen = c.gen /\ d.kind = c.kind /\ d.ok = c.ok
      BY <1>1 DEF Check
    <3>2. checks' = (checks \ {c}) \cup {d} /\ c.kind = "refresh" /\ PublishHealth(c)
      BY <2>5 DEF PublishRefresh, Moved
    <3> HIDE DEF d
    <3>3. Follows(v, d)'
      BY <1>3, <1>7, <1>10, <3>1, <3>2 DEF Follows
    <3> QED
      BY <1>4, <1>7, <1>10, <2>2, <3>1, <3>2, <3>3
  <2>6. CASE WriteRefresh(c)
    <3>1. /\ WriteInto(c) /\ checks' = checks \ {c} /\ watch' = watch /\ c.kind = "refresh"
          /\ c.at = IF Changed(c) THEN "published" ELSE "probed"
      BY <2>6 DEF WriteRefresh
    <3>2. Heard(v)' = Ok(objects'[cur][w])
      BY <1>6, <1>8, <1>10, <2>1, <3>1 DEF Follows, Current, Changed
    <3> QED
      BY <1>4, <2>3, <3>1, <3>2
  <2>7. CASE WriteWarm(c)
    <3>1. WriteInto(c) /\ watch' = watch /\ c.kind = "warm" /\ c.at = "probed"
      BY <2>7 DEF WriteWarm
    <3>2. CASE ~ Changed(c)
      <4>1. Heard(v)' = Ok(objects'[cur][w])
        BY <1>6, <1>8, <1>10, <2>1, <3>1, <3>2 DEF Follows, Current, Changed
      <4> QED
        BY <1>4, <2>3, <2>7, <3>1, <3>2, <4>1 DEF WriteWarm
    <3>3. CASE Changed(c)
      <4> DEFINE d == [c EXCEPT !.at = "written"]
      <4>1. d.ws = c.ws /\ d.at = "written" /\ d.gen = c.gen /\ d.ok = c.ok
        BY <1>1 DEF Check
      <4>2. checks' = (checks \ {c}) \cup {d}
        BY <2>7, <3>3 DEF WriteWarm, Moved
      <4> HIDE DEF d
      <4>3. Follows(v, d)'
        BY <1>3, <1>6, <1>10, <3>1, <4>1 DEF Follows, Current
      <4> QED
        BY <1>4, <1>10, <2>2, <3>1, <4>1, <4>2, <4>3
    <3> QED
      BY <3>2, <3>3
  <2>8. CASE PublishWarm(c)
    <3>1. c.at = "written" /\ PublishHealth(c) /\ checks' = checks \ {c} /\ UNCHANGED objects
      BY <2>8 DEF PublishWarm
    <3>2. Heard(v)' = Ok(objects'[cur][w])
      BY <1>7, <1>10, <2>1, <3>1 DEF Follows, Current
    <3> QED
      BY <1>4, <1>7, <2>3, <3>1, <3>2
  <2>9. CASE WriteToggle(c)
    BY <1>10, <2>9 DEF WriteToggle, Disturbed, Watches
  <2> QED
    BY <2>4, <2>5, <2>6, <2>7, <2>8, <2>9 DEF CheckMove
<1> QED
  BY <1>9, <1>10

LEMMA FollowMutation ==
    ASSUME TypeOK, NEW v \in Viewers, fresh[v] # "no" => InStep(v), fresh'[v] # "no",
           MutationStep
    PROVE  InStep(v)'
<1> USE DEF clockVars, subsVars, consoleVars
<1>1. objects \in [Generations -> [Workspaces -> Status]] /\ cur \in Nat /\ fresh \in [Viewers -> {"no", "asked", "yes"}]
  BY BoundAssumption DEF TypeOK
<1>2. fresh'[v] = fresh[v] /\ InStep(v)
  BY <1>1 DEF MutationStep, BeginMutation, Abandon, PublishCandidate, DropSubscribers
<1>3. CASE \E w \in Workspaces : DropSubscribers(w)
  BY <1>2, <1>3, Undisturbed DEF DropSubscribers, healthVars
<1>4. CASE Abandon \/ \E kind \in Kinds, w \in Workspaces : BeginMutation(kind, w)
  <2>1. objects'[cur] = objects[cur]
    BY <1>1, <1>4, BoundAssumption DEF Abandon, BeginMutation, TypeOK, Generations
  <2>2. UNCHANGED <<cur, checks, watch, shown, listed, fresh>>
    BY <1>4 DEF Abandon, BeginMutation
  <2> QED
    BY <1>2, <2>1, <2>2, Undisturbed
<1>5. CASE PublishCandidate
  <2> DEFINE w == watch[v].ws
  <2>1. w \in Workspaces
    BY <1>2 DEF InStep
  <2>2. ~ Checked(w) /\ objects[cur + 1][w] = Current(w)
    BY <1>5, <2>1 DEF PublishCandidate, Watches
  <2>3. Heard(v) = Ok(Current(w)) /\ (fresh[v] = "yes" => listed[v] = None)
    BY <1>2, <2>2 DEF InStep
  <2>4. UNCHANGED <<objects, watch, shown, listed>> /\ cur' = cur + 1
    BY <1>5 DEF PublishCandidate
  <2>5. Heard(v)' = Heard(v) /\ Current(w)' = Current(w)
    BY <1>2, <2>2, <2>4 DEF Heard, Current
  <2>6. PICK new : /\ checks' \in {checks, checks \cup {new}}
                   /\ new.kind = "toggle" /\ new.at = "begun"
    <3>1. PICK new : new = [kind |-> "toggle", gen |-> cur + 1, ws |-> candidate.ws,
                            at |-> "begun", old |-> FALSE, ok |-> FALSE]
      OBVIOUS
    <3>2. new.kind = "toggle" /\ new.at = "begun"
      BY <3>1
    <3>3. checks' = checks \/ checks' = checks \cup {new}
      BY <1>5, <3>1 DEF PublishCandidate
    <3> QED
      BY <3>2, <3>3
  <2>7. \A c \in checks' : c.ws = w => c = new
    BY <2>2, <2>6 DEF Checked
  <2>8. new.ws = w => Follows(v, new)'
    BY <2>3, <2>4, <2>5, <2>6 DEF Follows
  <2>9. InStep(v)!1 /\ InStep(v)!2 /\ InStep(v)!3
    BY <1>2 DEF InStep
  <2> QED
    BY <1>2, <2>3, <2>4, <2>5, <2>7, <2>8, <2>9 DEF InStep
<1> QED
  BY <1>3, <1>4, <1>5 DEF MutationStep

LEMMA FollowWatch ==
    ASSUME TypeOK, ConsolesChoose, NEW v \in Viewers, fresh[v] # "no" => InStep(v),
           fresh'[v] # "no", NEW u \in Viewers, WatchStep(u)
    PROVE  InStep(v)'
<1> USE DEF healthVars, mutationVars
<1>1. /\ watch \in [Viewers -> Stream] /\ watch[v] \in Stream /\ shown \in [Viewers -> BOOLEAN]
      /\ DOMAIN listed = Viewers /\ fresh \in [Viewers -> {"no", "asked", "yes"}]
  BY DEF TypeOK
<1>2. UNCHANGED <<objects, cur, checks>>
  BY DEF WatchStep, Subscribe, OpenStream, Deliver, Disconnect, EndWatch, List, Show
<1>3. CASE u # v
  <2>1. watch'[v] = watch[v] /\ shown'[v] = shown[v] /\ listed'[v] = listed[v] /\ fresh'[v] = fresh[v]
    BY <1>1, <1>3 DEF WatchStep, Subscribe, OpenStream, Deliver, Disconnect, EndWatch, List, Show,
                      consoleVars
  <2> QED
    BY <1>2, <2>1, Undisturbed
<1>4. CASE u = v
  <2>1. ASSUME \/ \E w \in Selection : Subscribe(v, w)
               \/ OpenStream(v)
               \/ EndWatch(v)
        PROVE  FALSE
    BY <2>1 DEF Subscribe, OpenStream, EndWatch, InStep
  <2>2. CASE Disconnect(v)
    BY <1>1, <2>2 DEF Disconnect
  <2>3. CASE Deliver(v)
    <3>1. fresh[v] = "yes" /\ fresh'[v] = "yes" /\ InStep(v)
      BY <1>1, <2>3 DEF Deliver
    <3>2. /\ watch' = [watch EXCEPT ![v] = [watch[v] EXCEPT !.buffer = Tail(@)]]
          /\ watch[v].buffer # <<>>
          /\ shown' = [shown EXCEPT ![v] = Head(watch[v].buffer).ok]
          /\ listed' = listed
      BY <2>3, <3>1 DEF Deliver, InStep
    <3>3. watch'[v].buffer = Tail(watch[v].buffer) /\ watch'[v].ws = watch[v].ws
          /\ watch'[v].at = watch[v].at
      BY <1>1, <3>2 DEF Stream
    <3>4. watch[v].buffer \in Seq(Update)
      BY <1>1 DEF Stream
    <3>5. \A b \in Seq(Update) : b # <<>> =>
            IF Tail(b) = <<>> THEN b[Len(b)] = Head(b) ELSE Tail(b)[Len(Tail(b))] = b[Len(b)]
      <4> TAKE b \in Seq(Update)
      <4> HAVE b # <<>>
      <4>1. Len(b) \in Nat /\ Len(b) # 0 /\ Head(b) = b[1]
        OBVIOUS
      <4>a. Len(Tail(b)) = Len(b) - 1
        OBVIOUS
      <4>2. Len(Tail(b)) = Len(b) - 1 /\ \A i \in 1 .. Len(b) - 1 : Tail(b)[i] = b[i + 1]
        OBVIOUS
      <4>3. CASE Tail(b) = <<>>
        <5>1. Len(Tail(b)) = 0
          BY <4>3, EmptySeq
        <5>2. Len(b) = 1
          <6> DEFINE n == Len(b)  m == Len(Tail(b))
          <6>1. n \in Nat /\ m = n - 1 /\ m = 0
            BY <4>1, <4>a, <5>1
          <6> HIDE DEF n, m
          <6>2. n = 1
            BY <6>1
          <6> QED
            BY <6>2 DEF n
        <5> QED
          BY <4>1, <4>3, <5>2
      <4>4. CASE Tail(b) # <<>>
        <5>1. Tail(b) \in Seq(Update)
          OBVIOUS
        <5>2. Len(Tail(b)) # 0
          BY <4>4, <5>1, EmptySeq
        <5> QED
          BY <4>1, <4>2, <4>4, <5>2
      <4> QED
        BY <4>3, <4>4
    <3>6. IF Tail(watch[v].buffer) = <<>>
          THEN watch[v].buffer[Len(watch[v].buffer)] = Head(watch[v].buffer)
          ELSE Tail(watch[v].buffer)[Len(Tail(watch[v].buffer))]
                 = watch[v].buffer[Len(watch[v].buffer)]
      BY <3>2, <3>4, <3>5
    <3>7. shown'[v] = Head(watch[v].buffer).ok
      BY <1>1, <3>2
    <3>8. Heard(v)' = Heard(v)
      BY <3>1, <3>2, <3>3, <3>6, <3>7 DEF Heard
    <3>9. \A c : Follows(v, c) => Follows(v, c)'
      BY <1>2, <3>8 DEF Follows, Current
    <3> QED
      BY <1>2, <3>1, <3>2, <3>3, <3>8, <3>9 DEF InStep, Checked, Current
  <2>4. CASE List(v)
    <3>1. /\ v \in Consoles /\ watch[v].at = "open"
          /\ watch[v].buffer = <<>> /\ ~ Checked(watch[v].ws) /\ fresh'[v] = "asked"
          /\ listed'[v] = Ok(Current(watch[v].ws)) /\ watch' = watch
      BY <1>1, <2>4 DEF List
    <3>2. watch[v].ws \in Workspaces
      BY <1>1, <3>1 DEF ConsolesChoose, Stream, Selection
    <3>3. Heard(v)' = Ok(Current(watch[v].ws))
      BY <3>1 DEF Heard
    <3> QED
      BY <1>2, <3>1, <3>2, <3>3 DEF InStep, Checked, Current
  <2>5. CASE Show(v)
    <3>1. fresh[v] = "asked" /\ fresh'[v] = "yes" /\ InStep(v)
      BY <1>1, <2>5 DEF Show, InStep
    <3>2. shown'[v] = listed[v] /\ listed'[v] = None /\ watch' = watch
      BY <1>1, <2>5 DEF Show
    <3>3. Heard(v)' = Heard(v)
      BY <3>1, <3>2 DEF Heard
    <3>4. \A c : Follows(v, c) => Follows(v, c)'
      BY <1>2, <3>3 DEF Follows, Current
    <3> QED
      BY <1>2, <3>1, <3>2, <3>3, <3>4 DEF InStep, Checked, Current
  <2> QED
    BY <1>4, <2>1, <2>2, <2>3, <2>4, <2>5 DEF WatchStep
<1> QED
  BY <1>3, <1>4

(* A console that was in step stays so, or its history says otherwise.     *)
LEMMA FollowStep == IInv /\ [Next]_vars => FollowersInStep'
<1> SUFFICES ASSUME IInv, [Next]_vars, NEW v \in Viewers, fresh'[v] # "no"
             PROVE  InStep(v)'
  BY DEF FollowersInStep
<1> USE DEF IInv
<1>1. fresh[v] # "no" => InStep(v)
  BY DEF FollowersInStep
<1>2. CASE UNCHANGED <<objects, cur, checks, watch, consoleVars, fresh>>
  BY <1>1, <1>2, Undisturbed DEF consoleVars
<1>3. ASSUME NEW p \in Passes, Start(p) PROVE InStep(v)'
  BY <1>1, <1>3, FollowStart
<1>4. ASSUME NEW c \in checks, CheckMove(c) PROVE InStep(v)'
  BY <1>1, <1>4, FollowCheck
<1>5. CASE MutationStep
  BY <1>1, <1>5, FollowMutation
<1>6. ASSUME NEW u \in Viewers, WatchStep(u) PROVE InStep(v)'
  BY <1>1, <1>6, FollowWatch
<1>7. ASSUME NEW w \in Workspaces, Flip(w) PROVE InStep(v)'
  BY <1>2, <1>7 DEF Flip, healthVars, mutationVars
<1>8. CASE Warm \/ RefreshActive \/ RefreshAll
  BY <1>2, <1>8 DEF Warm, RefreshActive, RefreshAll, mutationVars
<1>9. CASE UNCHANGED vars
  BY <1>2, <1>9 DEF vars, healthVars, mutationVars
<1> QED
  BY <1>3, <1>4, <1>5, <1>6, <1>7, <1>8, <1>9 DEF Next, PassStep, CheckStep

LEMMA ChooseStep == TypeOK /\ ConsolesChoose /\ [Next]_vars => ConsolesChoose'
<1> SUFFICES ASSUME TypeOK, ConsolesChoose, [Next]_vars,
                    NEW v \in Consoles, watch'[v].at # "off"
             PROVE  watch'[v].ws # All
  BY DEF ConsolesChoose
<1>1. watch \in [Viewers -> Stream] /\ v \in Viewers
  BY ViewersAssumption DEF TypeOK
<1>2. watch[v].at # "off" => watch[v].ws # All
  BY DEF ConsolesChoose
<1>3. CASE watch' = watch
  BY <1>2, <1>3
<1>4. ASSUME NEW c \in checks, PublishHealth(c) PROVE watch'[v].ws # All
  BY <1>1, <1>2, <1>4 DEF PublishHealth, Stream
<1>5. ASSUME NEW u \in Viewers, WatchStep(u) PROVE watch'[v].ws # All
  <2>1. CASE u # v
    BY <1>1, <1>2, <1>5, <2>1
    DEF WatchStep, Subscribe, OpenStream, Deliver, Disconnect, EndWatch, List, Show
  <2>2. ASSUME NEW w \in Selection, u = v, Subscribe(u, w) PROVE watch'[v].ws # All
    BY <1>1, <2>2 DEF Subscribe
  <2>3. CASE EndWatch(v)
    BY <1>1, <2>3 DEF EndWatch, Off
  <2>4. CASE OpenStream(v) \/ Deliver(v) \/ Disconnect(v)
    BY <1>1, <1>2, <2>4 DEF OpenStream, Deliver, Disconnect, Stream
  <2>5. CASE List(v) \/ Show(v)
    BY <1>3, <2>5 DEF List, Show
  <2> QED
    BY <1>5, <2>1, <2>2, <2>3, <2>4, <2>5 DEF WatchStep
<1>6. CASE MutationStep
  BY <1>3, <1>6 DEF MutationStep, BeginMutation, Abandon, PublishCandidate, DropSubscribers
<1>7. CASE PassStep
  BY <1>3, <1>4, <1>7
  DEF PassStep, Warm, RefreshActive, RefreshAll, Start, CheckStep, CheckMove,
      Probe, PublishRefresh, WriteRefresh, WriteWarm, PublishWarm, WriteToggle
<1>8. ASSUME NEW w \in Workspaces, Flip(w) PROVE watch'[v].ws # All
  BY <1>3, <1>8 DEF Flip
<1>9. CASE UNCHANGED vars
  BY <1>3, <1>9 DEF vars
<1> QED
  BY <1>5, <1>6, <1>7, <1>8, <1>9 DEF Next
-----------------------------------------------------------------------------
(* The inductive invariant of the health checks and their watchers.        *)
THEOREM Invariant == Spec => []IInv
<1>1. Init => IInv
  BY InitIInv
<1>2. IInv /\ [Next]_vars => IInv'
  BY TypeStep, CountStep, ChooseStep, FollowStep DEF IInv
<1> QED
  BY <1>1, <1>2, PTL DEF Spec

(* The state of the registry's health side always has its types.           *)
THEOREM TypeCorrect == Spec => []TypeOK
<1>1. IInv => TypeOK
  BY DEF IInv
<1> QED
  BY <1>1, Invariant, PTL

(* SubscribeWorkspace and UnsubscribeWorkspace balance, whatever is deleted *)
(* in between.                                                             *)
THEOREM SubscribersCounted == Spec => []CountsAreBacked
<1>1. IInv => CountsAreBacked
  BY DEF IInv
<1> QED
  BY <1>1, Invariant, PTL

(* A console that nothing disturbed shows the status that the registry has, *)
(* for any number of probes, mutations and other clients.                  *)
THEOREM UndisturbedConsole == Spec => []ConsoleShowsStatus
<1>1. IInv => ConsoleShowsStatus
  BY DEF IInv, FollowersInStep, InStep, ConsoleShowsStatus, Heard
<1> QED
  BY <1>1, Invariant, PTL
=============================================================================
