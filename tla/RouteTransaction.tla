-------------------------- MODULE RouteTransaction --------------------------
(***************************************************************************)
(* The registry's route transactions: how a change of the desired routes   *)
(* goes through the write-ahead journal, nginx, SQLite and the in-memory   *)
(* projection, what each failure undoes, and what a restart recovers.      *)
(*                                                                         *)
(* One mutation runs at a time (mutationMu), so `op` is the holder of the  *)
(* lock and `pc` its next step.  Every external call is a step of its own: *)
(* it may fail, and the daemon may die after it.  A workspace has one      *)
(* routed application, whose desired mode stands for the whole projection. *)
(* An operation takes a fresh identifier (newOperationID) and a version.   *)
(***************************************************************************)
EXTENDS Naturals, FiniteSets

CONSTANTS
    Workspaces,   \* workspace identifiers
    Clients,      \* holders of a route plan: RPC, CLI and MCP callers
    Keys,         \* idempotency keys
    None,         \* the absence of a workspace, plan, key, record or operation
    Foreign,      \* a generated file that somebody else has edited
    Kinds,        \* the operations that callers request
    Faults,       \* the failures that may happen
    MaxOps,       \* bound on the operations ever begun
    MaxCrashes    \* bound on the crashes

Modes == {"local", "remote"}
Ops == 1 .. MaxOps
Versions == 0 .. MaxOps

JournaledKinds == {"apply", "repair"}
AllKinds == JournaledKinds \cup
    {"toggle", "toggle-all", "pattern", "sync", "update", "alias", "create", "delete"}

(* What may go wrong, each at its own call:                                 *)
(*   proxy        ApplyRouting reports an error after undoing its changes   *)
(*   undo         ... and its own restore or second reload failed as well   *)
(*   unavailable  nginx -t fails when IsAvailable asks                      *)
(*   store        SaveState or ReplaceWorkspaces fails                      *)
(*   journal      a read or write of route_operations fails                 *)
(*   load         the first proxy load of a daemon start fails              *)
(*   crash        the daemon dies between two steps                         *)
(*   drift        somebody edits the generated file and reloads nginx       *)
AllFaults == {"proxy", "undo", "unavailable", "store", "journal", "load",
              "crash", "drift"}

(* models.Workspace, as far as routing reads it: desired mode, route        *)
(* version and the operation that produced it.                              *)
State == [mode : Modes, ver : Versions, op : 0 .. MaxOps]
Snapshot == [Workspaces -> State \cup {None}]

Plan == [ws : Workspaces, mode : Modes, base : Versions,
         before : Modes, op : 0 .. MaxOps]

Operation == [kind : AllKinds, ws : Workspaces, key : Keys \cup {None},
              id : Ops, ver : Versions, cand : Snapshot,
              close : {"open", "failed", "rolled_back"}]

Entry == [ws : Workspaces, key : Keys \cup {None}, intent : Modes,
          ver : Versions,
          status : {"prepared", "proxy-applied", "committed", "failed",
                    "rolled_back"}]

Record == [intent : Modes, op : Ops]

Verification == {"unknown", "verified", "provider-unavailable"}
Effective == [state : State \cup {None}, status : Verification]

ASSUME BoundsAssumption == MaxOps \in Nat /\ MaxCrashes \in Nat
ASSUME SwitchAssumption == Kinds \subseteq AllKinds /\ Faults \subseteq AllFaults
ASSUME NoneAssumption ==
    /\ None \notin State /\ None \notin Plan /\ None \notin Operation
    /\ None \notin Entry /\ None \notin Record /\ None \notin Keys
ASSUME ForeignAssumption == Foreign \notin Snapshot

VARIABLES
    pc,           \* the daemon's phase, or the next step of the lock's holder
    op,           \* the mutation that holds mutationMu
    mem,          \* Registry.workspaces, what the daemon publishes
    db,           \* the workspaces and applications tables
    file,         \* workspaces.conf
    running,      \* the configuration nginx serves
    eff,          \* effectiveRoutes, effectiveVersions and effectiveStatus
    nextVersion,  \* Registry.nextRouteVersion
    nextOp,       \* the next operation identifier
    journal,      \* the route_operations table
    idem,         \* Registry.routeIdempotency
    plans,        \* the plan each client holds
    reply,        \* the last answer a mutation gave
    crashes,      \* crashes so far
    fate          \* history: what became of each operation's durable write

vars == <<pc, op, mem, db, file, running, eff, nextVersion, nextOp, journal,
          idem, plans, reply, crashes, fate>>

proxyVars == <<file, running, eff>>
counterVars == <<nextVersion, nextOp>>

DownSteps == {"down", "loading", "reconciling"}
OpSteps == {"prepare", "apply", "mark", "persist", "publish", "commit",
            "undo-store", "undo-proxy", "close"}
Replies == {"none", "committed", "unchanged", "refused", "replayed", "failed",
            "restored", "degraded", "not-required", "in-sync", "drift"}

Serving == pc \notin DownSteps

TypeOK ==
    /\ pc \in DownSteps \cup {"idle"} \cup OpSteps
    /\ op \in Operation \cup {None}
    /\ mem \in Snapshot
    /\ db \in Snapshot
    /\ file \in Snapshot \cup {Foreign}
    /\ running \in Snapshot \cup {Foreign}
    /\ eff \in [Workspaces -> Effective]
    /\ nextVersion \in Versions
    /\ nextOp \in 1 .. MaxOps + 1
    /\ journal \in [Ops -> Entry \cup {None}]
    /\ idem \in [Workspaces -> [Keys -> Record \cup {None}]]
    /\ plans \in [Clients -> Plan \cup {None}]
    /\ reply \in Replies
    /\ crashes \in 0 .. MaxCrashes
    /\ fate \in [Ops -> {"unused", "open", "durable", "aborted", "answer"}]

NoSnapshot == [w \in Workspaces |-> None]
NoEffective == [w \in Workspaces |-> [state |-> None, status |-> "unknown"]]
NoRecords == [w \in Workspaces |-> [k \in Keys |-> None]]

(* A database of workspaces that no operation has touched yet, and a proxy  *)
(* that serves none of them.                                                *)
Init ==
    /\ pc = "down"
    /\ op = None
    /\ mem = NoSnapshot
    /\ db = [w \in Workspaces |-> [mode |-> "remote", ver |-> 0, op |-> 0]]
    /\ file = NoSnapshot
    /\ running = NoSnapshot
    /\ eff = NoEffective
    /\ nextVersion = 0
    /\ nextOp = 1
    /\ journal = [o \in Ops |-> None]
    /\ idem = NoRecords
    /\ plans = [c \in Clients |-> None]
    /\ reply = "none"
    /\ crashes = 0
    /\ fate = [o \in Ops |-> "unused"]

----------------------------------------------------------------------------
(* The proxy boundary: applyRouting over the nginx provider's ApplyRouting. *)

(* recordEffectiveRoutes: every workspace of the projection is verified.    *)
Recorded(m) ==
    [w \in Workspaces |->
        IF m[w] = None THEN eff[w]
        ELSE [state |-> m[w], status |-> "verified"]]

(* markRoutingState keeps the last projection and lowers its status.        *)
Marked(m) ==
    [w \in Workspaces |->
        IF m[w] = None THEN eff[w]
        ELSE [eff[w] EXCEPT !.status = "provider-unavailable"]]

ProxyAccepts(m) ==
    /\ file' = m
    /\ running' = m
    /\ eff' = Recorded(m)

(* install() reports an error.  It restores the file and reloads again; the *)
(* results of both calls are ignored or only added to the message.          *)
ProxyRejects(m) ==
    /\ \/ file' = file /\ running' \in {running, file}
       \/ /\ "undo" \in Faults
          /\ \/ file' = file /\ running' = m
             \/ file' = m /\ running' \in {running, m}
    /\ UNCHANGED eff

(* Mutant: routes nobody loaded are called verified.                        *)
ProxySkippedVerified(m) ==
    /\ "unavailable" \in Faults
    /\ eff' = Recorded(m)
    /\ UNCHANGED <<file, running>>

(* A mutation that does not require routing is content with no provider.    *)
ProxySkipped(m) ==
    /\ "unavailable" \in Faults
    /\ eff' = Marked(m)
    /\ UNCHANGED <<file, running>>

ApplyRouting(m, required) ==
    ProxyAccepts(m) \/ (~required /\ ProxySkipped(m))

Required == op.kind # "alias"

CacheInSync(w) ==
    /\ eff[w].status = "verified"
    /\ eff[w].state # None
    /\ eff[w].state.mode = mem[w].mode
    /\ eff[w].state.ver = mem[w].ver

(* Mutant: trusts the cache.                                                *)
InspectedFromCache == \A w \in Workspaces : CacheInSync(w)

(* InspectRouting: the generated file is the rendering of the published     *)
(* state, and nginx -T lists that file.                                     *)
Inspected == file = mem

(* The projection callers read calls a workspace's routes verified.         *)
Current(w) ==
    /\ mem[w] # None
    /\ eff[w].state # None
    /\ eff[w].status = "verified"
    /\ eff[w].state.ver = mem[w].ver

----------------------------------------------------------------------------
(* The store: SQLite, one transaction a call.                               *)

(* SaveState updates rows by identifier: it neither adds nor removes one.   *)
SaveRows(d, m) ==
    [w \in Workspaces |->
        IF d[w] = None \/ m[w] = None THEN d[w] ELSE m[w]]

(* Mutant: a change of every workspace is saved for the named one only.     *)
PersistedNamedOnly(o) == [db EXCEPT ![o.ws] = SaveRows(db, o.cand)[o.ws]]

(* The three ways to persist: one workspace, the rows of all, or a complete *)
(* replacement.                                                             *)
Persisted(o) ==
    CASE o.kind = "toggle" ->
            [db EXCEPT ![o.ws] = SaveRows(db, o.cand)[o.ws]]
      [] o.kind \in {"apply", "repair", "toggle-all", "pattern", "sync"} ->
            SaveRows(db, o.cand)
      [] OTHER -> o.cand

(* route_operations_idempotency_idx: one committed entry for a key.         *)
Clash(o, w, k) ==
    k # None /\ \E p \in Ops \ {o} :
        /\ journal[p] # None
        /\ journal[p].status = "committed"
        /\ journal[p].ws = w /\ journal[p].key = k

JournalFails == "journal" \in Faults /\ UNCHANGED journal

SetStatus(o, status) ==
    journal' = [journal EXCEPT ![o] = [@ EXCEPT !.status = status]]

Pending(o) ==
    journal[o] # None /\ journal[o].status \in {"prepared", "proxy-applied"}

----------------------------------------------------------------------------
(* Begin: beginOperation under the lock, with the candidate it stamps.      *)

(* A version is handed to the candidate before anything can fail.           *)
Candidate(kind, w, m) ==
    LET stamp(mode) == [mode |-> mode, ver |-> nextVersion + 1, op |-> nextOp]
    IN [v \in Workspaces |->
          CASE kind = "sync" /\ mem[v] # None -> stamp(mem[v].mode)
            [] kind = "delete" /\ v = w -> None
            [] kind \notin {"sync", "delete"} /\ v = w -> stamp(m)
            [] OTHER -> mem[v]]

StartStep(kind) == IF kind \in JournaledKinds THEN "prepare" ELSE "apply"

Begin(kind, w, k, m) ==
    /\ pc = "idle"
    /\ kind \in Kinds
    /\ nextOp <= MaxOps
    /\ nextVersion < MaxOps
    /\ op' = [kind |-> kind, ws |-> w, key |-> k, id |-> nextOp,
              ver |-> nextVersion + 1, cand |-> Candidate(kind, w, m),
              close |-> "open"]
    /\ pc' = StartStep(kind)
    /\ nextVersion' = nextVersion + 1
    /\ nextOp' = nextOp + 1
    /\ fate' = [fate EXCEPT ![nextOp] = "open"]
    /\ reply' = "none"
    /\ UNCHANGED <<mem, db, proxyVars, journal, idem, plans, crashes>>

(* releaseOperationVersion gives the version back, if it is still the last. *)
Released ==
    IF nextVersion = op.ver /\ op.ver > 0 THEN nextVersion - 1 ELSE nextVersion

(* PlanRoute reads the published state without the lock.                    *)
PlanRoute(c, w, m) ==
    /\ Serving
    /\ "apply" \in Kinds
    /\ mem[w] # None
    /\ plans' = [plans EXCEPT ![c] =
         [ws |-> w, mode |-> m, base |-> mem[w].ver,
          before |-> mem[w].mode, op |-> mem[w].op]]
    /\ UNCHANGED <<pc, op, mem, db, proxyVars, counterVars, journal, idem,
                   reply, crashes, fate>>

Remembered(w, k) == k # None /\ idem[w][k] # None

(* ApplyRoutePlan answers a known key from the record of its first use.     *)
ApplyReplayed(c, k) ==
    /\ pc = "idle"
    /\ plans[c] # None
    /\ Remembered(plans[c].ws, k)
    /\ reply' = IF idem[plans[c].ws][k].intent = plans[c].mode
                THEN "replayed" ELSE "refused"
    /\ UNCHANGED <<pc, op, mem, db, proxyVars, counterVars, journal, idem,
                   plans, crashes, fate>>

(* The compare-and-swap on the version, and the fingerprint of the plan.    *)
Matches(p) ==
    /\ mem[p.ws] # None
    /\ p.base = mem[p.ws].ver
    /\ p.before = mem[p.ws].mode

ApplyRefused(c, k) ==
    /\ pc = "idle"
    /\ plans[c] # None
    /\ ~Remembered(plans[c].ws, k)
    /\ ~Matches(plans[c])
    /\ reply' = "refused"
    /\ UNCHANGED <<pc, op, mem, db, proxyVars, counterVars, journal, idem,
                   plans, crashes, fate>>

(* A plan that changes nothing takes no version.  Its answer is remembered  *)
(* and, best effort, journaled as committed under an op-noop identifier.    *)
ApplyUnchanged(c, k) ==
    LET p == plans[c]
    IN  /\ pc = "idle"
        /\ p # None
        /\ ~Remembered(p.ws, k)
        /\ Matches(p)
        /\ p.mode = mem[p.ws].mode
        /\ reply' = "unchanged"
        /\ \/ /\ k = None
              /\ UNCHANGED <<counterVars, journal, idem, fate>>
           \/ /\ k # None
              /\ nextOp <= MaxOps
              /\ nextOp' = nextOp + 1
              /\ fate' = [fate EXCEPT ![nextOp] = "answer"]
              /\ idem' = [idem EXCEPT ![p.ws][k] =
                            [intent |-> p.mode, op |-> nextOp]]
              /\ \/ /\ ~Clash(nextOp, p.ws, k)
                    /\ journal' = [journal EXCEPT ![nextOp] =
                         [ws |-> p.ws, key |-> k, intent |-> p.mode,
                          ver |-> mem[p.ws].ver, status |-> "committed"]]
                 \/ Clash(nextOp, p.ws, k) /\ UNCHANGED journal
                 \/ JournalFails
              /\ UNCHANGED nextVersion
        /\ UNCHANGED <<pc, op, mem, db, proxyVars, plans, crashes>>

ApplyBegin(c, k) ==
    /\ plans[c] # None
    /\ ~Remembered(plans[c].ws, k)
    /\ Matches(plans[c])
    /\ plans[c].mode # mem[plans[c].ws].mode
    /\ Begin("apply", plans[c].ws, k, plans[c].mode)

(* validateWorkspaces rejects the candidate: the version stays consumed.    *)
CandidateRejected ==
    /\ pc = "idle"
    /\ nextOp <= MaxOps
    /\ nextVersion < MaxOps
    /\ nextVersion' = nextVersion + 1
    /\ nextOp' = nextOp + 1
    /\ fate' = [fate EXCEPT ![nextOp] = "aborted"]
    /\ reply' = "failed"
    /\ UNCHANGED <<pc, op, mem, db, proxyVars, journal, idem, plans, crashes>>

(* The operations of mutate().  A toggle flips the mode, except where the   *)
(* whole workspace is local.                                                *)
Toggle(w) == mem[w] # None /\ \E m \in Modes : Begin("toggle", w, None, m)

ToggleAll(w) ==
    mem[w] # None /\ \E m \in Modes : Begin("toggle-all", w, None, m)

(* An application gets another route pattern, or loses its own.             *)
UpdatePattern(w) ==
    mem[w] # None /\ \E m \in Modes : Begin("pattern", w, None, m)

Sync == \E w \in Workspaces : Begin("sync", w, None, "remote")

Update(w) == mem[w] # None /\ \E m \in Modes : Begin("update", w, None, m)

Alias(w) == mem[w] # None /\ Begin("alias", w, None, mem[w].mode)

Create(w) == mem[w] = None /\ Begin("create", w, None, "remote")

Delete(w) == mem[w] # None /\ Begin("delete", w, None, "remote")

----------------------------------------------------------------------------
(* SyncRoute: inspect, and repair on request.                               *)

SyncInSync(w) ==
    /\ pc = "idle"
    /\ "repair" \in Kinds
    /\ mem[w] # None
    /\ Inspected
    /\ eff' = IF CacheInSync(w) THEN eff ELSE Recorded(mem)
    /\ reply' = "in-sync"
    /\ UNCHANGED <<pc, op, mem, db, file, running, counterVars, journal, idem,
                   plans, crashes, fate>>

(* A missing provider or a failed inspection never counts as in sync.       *)
DriftSeen(w) ==
    mem[w] # None /\ (~Inspected \/ "unavailable" \in Faults)

SyncDrift(w) ==
    /\ pc = "idle"
    /\ "repair" \in Kinds
    /\ DriftSeen(w)
    /\ reply' = "drift"
    /\ UNCHANGED <<pc, op, mem, db, proxyVars, counterVars, journal, idem,
                   plans, crashes, fate>>

Repair(w) == DriftSeen(w) /\ Begin("repair", w, None, mem[w].mode)

----------------------------------------------------------------------------
(* The steps of the mutation that holds the lock.                           *)

Finish(answer) == pc' = "idle" /\ op' = None /\ reply' = answer

(* What a failure does to the operation: it will never become durable.      *)
Abort(step, close) ==
    /\ pc' = step
    /\ op' = [op EXCEPT !.close = close]
    /\ fate' = [fate EXCEPT ![op.id] = "aborted"]

(* BeginRouteOperation writes the intent before the proxy is touched.       *)
Prepare ==
    /\ pc = "prepare"
    /\ \/ /\ journal' = [journal EXCEPT ![op.id] =
               [ws |-> op.ws, key |-> op.key, intent |-> op.cand[op.ws].mode,
                ver |-> op.ver, status |-> "prepared"]]
          /\ pc' = "apply"
          /\ UNCHANGED <<op, reply, nextVersion, fate>>
       \/ /\ JournalFails
          /\ Finish("failed")
          /\ fate' = [fate EXCEPT ![op.id] = "aborted"]
          /\ nextVersion' = Released
    /\ UNCHANGED <<mem, db, proxyVars, nextOp, idem, plans, crashes>>

AfterApply == IF op.kind \in JournaledKinds THEN "mark" ELSE "persist"

Apply ==
    /\ pc = "apply"
    /\ \/ /\ ApplyRouting(op.cand, Required)
          /\ pc' = AfterApply
          /\ UNCHANGED <<op, fate>>
       \/ /\ "proxy" \in Faults
          /\ ProxyRejects(op.cand)
          /\ Abort("undo-proxy", "failed")
    /\ UNCHANGED <<mem, db, counterVars, journal, idem, plans, reply, crashes>>

(* The journal learns that the proxy has the candidate.                     *)
Mark ==
    /\ pc = "mark"
    /\ \/ /\ SetStatus(op.id, "proxy-applied")
          /\ pc' = "persist"
          /\ UNCHANGED <<op, fate>>
       \/ JournalFails /\ Abort("undo-proxy", "rolled_back")
    /\ UNCHANGED <<mem, db, proxyVars, counterVars, idem, plans, reply, crashes>>

Persist ==
    /\ pc = "persist"
    /\ \/ /\ db' = Persisted(op)
          /\ fate' = [fate EXCEPT ![op.id] = "durable"]
          /\ pc' = "publish"
          /\ UNCHANGED op
       \/ /\ "store" \in Faults
          /\ Abort(IF op.kind \in JournaledKinds THEN "undo-store"
                   ELSE "undo-proxy", "rolled_back")
          /\ UNCHANGED db
    /\ UNCHANGED <<mem, proxyVars, counterVars, journal, idem, plans, reply,
                   crashes>>

Publish ==
    /\ pc = "publish"
    /\ mem' = op.cand
    /\ \/ op.kind \in JournaledKinds /\ pc' = "commit" /\ UNCHANGED <<op, reply>>
       \/ op.kind \notin JournaledKinds /\ Finish("committed")
    /\ UNCHANGED <<db, proxyVars, counterVars, journal, idem, plans, crashes,
                   fate>>

(* Mutant: a commit whose entry stays pending gives its version back.       *)
CommitReleases ==
    /\ pc = "commit"
    /\ JournalFails
    /\ nextVersion' = Released
    /\ Finish("committed")
    /\ UNCHANGED <<mem, db, proxyVars, nextOp, idem, plans, crashes, fate>>

(* The answer is remembered under its key whether or not the journal could  *)
(* be closed: a failure only adds a warning to the answer.                  *)
Commit ==
    /\ pc = "commit"
    /\ \/ ~Clash(op.id, op.ws, op.key) /\ SetStatus(op.id, "committed")
       \/ Clash(op.id, op.ws, op.key) /\ UNCHANGED journal
       \/ JournalFails
    /\ idem' = IF op.key = None THEN idem
               ELSE [idem EXCEPT ![op.ws][op.key] =
                       [intent |-> op.cand[op.ws].mode, op |-> op.id]]
    /\ Finish("committed")
    /\ UNCHANGED <<mem, db, proxyVars, counterVars, plans, crashes, fate>>

(* rollbackDurableState saves the previous snapshot over a failed save.     *)
UndoStore ==
    /\ pc = "undo-store"
    /\ \/ db' = SaveRows(db, mem) /\ UNCHANGED reply
       \/ "store" \in Faults /\ reply' = "degraded" /\ UNCHANGED db
    /\ pc' = "undo-proxy"
    /\ UNCHANGED <<op, mem, proxyVars, counterVars, journal, idem, plans,
                   crashes, fate>>

AfterUndo(answer) ==
    IF op.kind \in JournaledKinds
    THEN pc' = "close" /\ reply' = answer /\ UNCHANGED op
    ELSE Finish(answer)

WithDurable(answer) == IF reply = "degraded" THEN "degraded" ELSE answer

(* Mutant: an error of the compensating reload is not looked at.            *)
UndoProxyUnchecked ==
    /\ pc = "undo-proxy"
    /\ \/ ApplyRouting(mem, Required \/ op.close = "failed")
       \/ "proxy" \in Faults /\ ProxyRejects(mem)
    /\ AfterUndo(WithDurable("restored"))
    /\ UNCHANGED <<mem, db, counterVars, journal, idem, plans, crashes, fate>>

(* The compensating reload of the previous snapshot.  After a failed apply  *)
(* it is skipped when the provider is unavailable.                          *)
UndoProxy ==
    /\ pc = "undo-proxy"
    /\ \/ /\ ApplyRouting(mem, Required \/ op.close = "failed")
          /\ AfterUndo(WithDurable("restored"))
       \/ "proxy" \in Faults /\ ProxyRejects(mem) /\ AfterUndo("degraded")
       \/ /\ "unavailable" \in Faults
          /\ op.close = "failed"
          /\ AfterUndo("not-required")
          /\ UNCHANGED proxyVars
    /\ UNCHANGED <<mem, db, counterVars, journal, idem, plans, crashes, fate>>

(* Mutant: the entry of a failed operation stays as it is.                  *)
CloseUnrecorded ==
    /\ pc = "close"
    /\ nextVersion' = Released
    /\ Finish(reply)
    /\ UNCHANGED <<mem, db, proxyVars, nextOp, journal, idem, plans, crashes,
                   fate>>

(* The journal entry of a failed operation is closed, best effort, and the  *)
(* version is given back.                                                   *)
Close ==
    /\ pc = "close"
    /\ SetStatus(op.id, op.close) \/ JournalFails
    /\ nextVersion' = Released
    /\ Finish(reply)
    /\ UNCHANGED <<mem, db, proxyVars, nextOp, idem, plans, crashes, fate>>

----------------------------------------------------------------------------
(* Crash, restart and recovery.                                             *)

(* What the process holds in memory is gone; SQLite, the generated file,    *)
(* nginx and the callers stay.                                              *)
ProcessEnds ==
    /\ pc' = "down"
    /\ op' = None
    /\ mem' = NoSnapshot
    /\ eff' = NoEffective
    /\ idem' = NoRecords
    /\ nextVersion' = 0
    /\ reply' = "none"
    /\ fate' = [o \in Ops |->
                  IF fate[o] = "open" THEN "aborted" ELSE fate[o]]
    /\ UNCHANGED <<db, file, running, nextOp, journal, plans>>

Crash ==
    /\ "crash" \in Faults
    /\ pc # "down"
    /\ crashes < MaxCrashes
    /\ crashes' = crashes + 1
    /\ ProcessEnds

(* Mutant: only the journal says which versions are taken.                  *)
DurableVersionsForgotten == {0}

DurableVersions == {0} \cup {db[w].ver : w \in {v \in Workspaces : db[v] # None}}

JournalVersions == {journal[o].ver : o \in {p \in Ops : journal[p] # None}}

(* Mutant: the counter holds the next free version.                         *)
HighestFree(S) == 1 + CHOOSE v \in S : \A u \in S : u <= v

Highest(S) == CHOOSE v \in S : \A u \in S : u <= v

(* Mutant: an answer is restored whatever became of its operation.          *)
CommittedForAny(w, k) ==
    {o \in Ops : journal[o] # None /\ journal[o].ws = w /\ journal[o].key = k}

(* The committed entry of a key; the unique index allows one.               *)
CommittedFor(w, k) ==
    {o \in Ops : /\ journal[o] # None
                 /\ journal[o].status = "committed"
                 /\ journal[o].ws = w /\ journal[o].key = k}

(* Mutant: no answer outlives the daemon.                                   *)
RestoredRecordsNone == NoRecords

RestoredRecords ==
    [w \in Workspaces |-> [k \in Keys |->
        IF CommittedFor(w, k) = {} THEN None
        ELSE LET o == CHOOSE o \in CommittedFor(w, k) : TRUE
             IN [intent |-> journal[o].intent, op |-> o]]]

(* Load: the durable state, the version counter and the remembered answers. *)
(* A journal that cannot be read is only logged.                            *)
Load ==
    /\ pc = "down"
    /\ pc' = "loading"
    /\ mem' = db
    /\ \/ /\ nextVersion' = Highest(DurableVersions \cup JournalVersions)
          /\ idem' = RestoredRecords
       \/ /\ "journal" \in Faults
          /\ nextVersion' = Highest(DurableVersions)
          /\ UNCHANGED idem
    /\ UNCHANGED <<op, db, proxyVars, nextOp, journal, plans, reply, crashes,
                   fate>>

(* The first proxy load; only its success lets the journal be reconciled.   *)
LoadProxy ==
    /\ pc = "loading"
    /\ \/ ProxyAccepts(mem) /\ pc' = "reconciling"
       \/ "load" \in Faults /\ ProxyRejects(mem) /\ pc' = "idle"
    /\ UNCHANGED <<op, mem, db, counterVars, journal, idem, plans, reply,
                   crashes, fate>>

(* Mutant: every entry of a workspace that is still there is committed.     *)
MatchesCandidateAny(o) == mem[journal[o].ws] # None

(* reconcileRouteJournal takes the pending entries in their order: committed *)
(* if the workspace is at the entry's version, rolled back otherwise.  The   *)
(* key is remembered first, and an entry that cannot be written ends it.     *)
MatchesCandidate(o) ==
    mem[journal[o].ws] # None /\ mem[journal[o].ws].ver = journal[o].ver

FirstPending(o) == Pending(o) /\ \A p \in Ops : Pending(p) => o <= p

Recover(o) ==
    LET e == journal[o]
    IN  /\ pc = "reconciling"
        /\ FirstPending(o)
        /\ idem' = IF MatchesCandidate(o) /\ e.key # None
                   THEN [idem EXCEPT ![e.ws][e.key] =
                           [intent |-> e.intent, op |-> o]]
                   ELSE idem
        /\ \/ /\ MatchesCandidate(o)
              /\ ~Clash(o, e.ws, e.key)
              /\ SetStatus(o, "committed")
              /\ UNCHANGED pc
           \/ ~MatchesCandidate(o) /\ SetStatus(o, "rolled_back") /\ UNCHANGED pc
           \/ /\ MatchesCandidate(o)
              /\ Clash(o, e.ws, e.key)
              /\ pc' = "idle"
              /\ UNCHANGED journal
           \/ JournalFails /\ pc' = "idle"
        /\ UNCHANGED <<op, mem, db, proxyVars, counterVars, plans, reply,
                       crashes, fate>>

Recovered ==
    /\ pc = "reconciling"
    /\ \A o \in Ops : ~Pending(o)
    /\ pc' = "idle"
    /\ UNCHANGED <<op, mem, db, proxyVars, counterVars, journal, idem, plans,
                   reply, crashes, fate>>

(* Somebody edits the generated file and reloads nginx.                     *)
Drift ==
    /\ "drift" \in Faults
    /\ file' = Foreign
    /\ running' = Foreign
    /\ UNCHANGED <<pc, op, mem, db, eff, counterVars, journal, idem, plans,
                   reply, crashes, fate>>

----------------------------------------------------------------------------
Request ==
    \/ \E c \in Clients, w \in Workspaces, m \in Modes : PlanRoute(c, w, m)
    \/ \E c \in Clients, k \in Keys \cup {None} :
          \/ ApplyReplayed(c, k)
          \/ ApplyRefused(c, k)
          \/ ApplyUnchanged(c, k)
          \/ ApplyBegin(c, k)
    \/ CandidateRejected
    \/ Sync
    \/ \E w \in Workspaces :
          \/ Toggle(w)
          \/ ToggleAll(w)
          \/ UpdatePattern(w)
          \/ Update(w)
          \/ Alias(w)
          \/ Create(w)
          \/ Delete(w)
          \/ SyncInSync(w)
          \/ SyncDrift(w)
          \/ Repair(w)

Step == Prepare \/ Apply \/ Mark \/ Persist \/ Publish \/ Commit
        \/ UndoStore \/ UndoProxy \/ Close

Start == Load \/ LoadProxy \/ (\E o \in Ops : Recover(o)) \/ Recovered

Next == Request \/ Step \/ Start \/ Crash \/ Drift

Spec == Init /\ [][Next]_vars

(* Every call a mutation or a start makes returns, with a result or with a  *)
(* timeout, and systemd restarts the daemon: the steps are weakly fair.     *)
FairSpec == Spec /\ WF_vars(Step) /\ WF_vars(Start)
=============================================================================
