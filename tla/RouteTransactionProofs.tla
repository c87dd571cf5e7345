----------------------- MODULE RouteTransactionProofs -----------------------
(***************************************************************************)
(* The route transactions, proved for any number of workspaces, clients,   *)
(* keys, operations and restarts: what holds of the durable state under    *)
(* every failure the model knows, and what needs some failures not to      *)
(* happen.  Those theorems name the failures they exclude.                 *)
(***************************************************************************)
EXTENDS RouteTransactionProps, WellFoundedInduction, TLAPS

----------------------------------------------------------------------------
(* The inductive invariant.                                                 *)

(* The lock's holder has an operation; the steps of the journal belong to   *)
(* operations that have an entry there, and a failed one knows its status.  *)
OperationHeld ==
    pc \in OpSteps =>
        /\ op \in Operation
        /\ pc \in {"prepare", "mark", "commit", "undo-store", "close"} =>
              op.kind \in JournaledKinds
        /\ op.kind \in JournaledKinds =>
              /\ op.cand[op.ws] # None
              /\ pc # "prepare" => journal[op.id] \in Entry
        /\ pc \in {"undo-store", "undo-proxy", "close"} =>
              op.close \in {"failed", "rolled_back"}

(* The candidate changes only what its operation may change, and only to a  *)
(* state stamped with the operation and its version.                        *)
CandidateShape ==
    pc \in OpSteps =>
        /\ op.id < nextOp
        /\ \A w \in Workspaces :
              \/ op.cand[w] = mem[w]
              \/ op.cand[w] = None
              \/ op.cand[w].op = op.id /\ op.cand[w].ver = op.ver
        /\ op.kind \in {"apply", "repair", "toggle", "toggle-all", "pattern", "sync"} =>
              \A w \in Workspaces : op.cand[w] = None <=> mem[w] = None
        /\ op.kind = "toggle" =>
              \A w \in Workspaces \ {op.ws} : op.cand[w] = mem[w]

(* The counter is at or above every published version, and a candidate that *)
(* is not published yet carries the counter's own value.                    *)
VersionsAhead ==
    /\ pc # "down" =>
          \A w \in Workspaces : mem[w] # None => mem[w].ver <= nextVersion
    /\ pc \in OpSteps \ {"commit"} =>
          /\ op.ver = nextVersion
          /\ \A w \in Workspaces : mem[w] # None => mem[w].ver < op.ver

Undecided == {"prepare", "apply", "mark", "persist"}

(* One operation at most is undecided, and it is the one in progress.       *)
FatesInOrder ==
    /\ \A o \in Ops : o >= nextOp => fate[o] = "unused"
    /\ \A o \in Ops : fate[o] = "open" => pc \in Undecided /\ o = op.id
    /\ pc \in Undecided => fate[op.id] = "open"

(* Everything but the types.                                                *)
Kept == /\ OperationHeld
        /\ DurableMatchesPublished
        /\ CandidateShape
        /\ VersionsAhead
        /\ FatesInOrder

IInv == /\ TypeOK
        /\ Kept

----------------------------------------------------------------------------
(* A non-empty set of versions has a highest one: the order of the          *)
(* naturals, read backwards below MaxOps, is well founded.                  *)
LEMMA HighestIsMax ==
    ASSUME NEW S, S \subseteq Versions, S # {}
    PROVE  Highest(S) \in S /\ \A u \in S : u <= Highest(S)
<1> DEFINE Below == {MaxOps - v : v \in S}
           Less == OpToRel(<, Nat)
<1>1. MaxOps \in Nat BY BoundsAssumption
<1>2. Below \subseteq Nat BY <1>1 DEF Versions
<1>3. Below # {} OBVIOUS
<1>4. IsWellFoundedOn(Less, Nat) BY NatLessThanWellFounded
<1> HIDE DEF Less
<1>5. \E x \in Below : \A y \in Below : ~(<<y, x>> \in Less)
  <2> HIDE DEF Below
  <2> QED BY <1>2, <1>3, <1>4, WFMin
<1>6. PICK x \in Below : \A y \in Below : ~(<<y, x>> \in Less) BY <1>5
<1>7. \A y \in Below : ~(y < x)
  <2> SUFFICES ASSUME NEW y \in Below, y < x PROVE FALSE OBVIOUS
  <2>1. y \in Nat /\ x \in Nat BY <1>2
  <2>2. <<y, x>> \in Less BY <2>1 DEF Less, OpToRel
  <2> QED BY <2>2, <1>6
<1>8. PICK v \in S : x = MaxOps - v OBVIOUS
<1>9. \A u \in S : u <= v
  <2> SUFFICES ASSUME NEW u \in S, ~(u <= v) PROVE FALSE OBVIOUS
  <2>1. u \in Nat /\ v \in Nat /\ u <= MaxOps /\ v <= MaxOps
    BY <1>1 DEF Versions
  <2>2. MaxOps - u \in Below OBVIOUS
  <2> QED BY <1>1, <1>7, <1>8, <2>1, <2>2
<1> QED BY <1>9 DEF Highest

----------------------------------------------------------------------------
(* Type correctness.                                                        *)

(* What beginOperation stamps is a snapshot.                                *)
LEMMA CandidateType ==
    ASSUME TypeOK, NEW kind \in AllKinds, NEW w \in Workspaces,
           NEW m \in Modes, nextOp <= MaxOps, nextVersion < MaxOps
    PROVE  Candidate(kind, w, m) \in Snapshot
<1> DEFINE stamp(mode) == [mode |-> mode, ver |-> nextVersion + 1, op |-> nextOp]
<1>1. \A mode \in Modes : stamp(mode) \in State
  BY BoundsAssumption DEF TypeOK, State, Versions
<1>2. \A v \in Workspaces : mem[v] \in State \cup {None}
  BY DEF TypeOK, Snapshot
<1>3. \A v \in Workspaces : mem[v] # None => stamp(mem[v].mode) \in State
  BY <1>1, <1>2 DEF State
<1> HIDE DEF stamp
<1>4. Candidate(kind, w, m) =
        [v \in Workspaces |->
          CASE kind = "sync" /\ mem[v] # None -> stamp(mem[v].mode)
            [] kind = "delete" /\ v = w -> None
            [] kind \notin {"sync", "delete"} /\ v = w -> stamp(m)
            [] OTHER -> mem[v]]
  BY DEF Candidate, stamp
<1>5. ASSUME NEW v \in Workspaces
      PROVE  Candidate(kind, w, m)[v] \in State \cup {None}
  BY <1>1, <1>2, <1>3, <1>4
<1> QED BY <1>4, <1>5 DEF Snapshot

(* An operation that begins.                                                *)
LEMMA BeginType ==
    ASSUME TypeOK, NEW kind \in AllKinds, NEW w \in Workspaces,
           NEW k \in Keys \cup {None}, NEW m \in Modes, Begin(kind, w, k, m)
    PROVE  TypeOK'
<1>1. Candidate(kind, w, m) \in Snapshot BY CandidateType DEF Begin
<1>2. op' \in Operation
  BY <1>1, BoundsAssumption DEF Begin, Operation, TypeOK, Ops, Versions
<1>3. nextVersion' \in Versions /\ nextOp' \in 1 .. MaxOps + 1
  BY BoundsAssumption DEF Begin, TypeOK, Versions
<1>4. fate' \in [Ops -> {"unused", "open", "durable", "aborted", "answer"}]
  BY BoundsAssumption DEF Begin, TypeOK, Ops
<1>5. pc' \in OpSteps /\ reply' \in Replies
  BY DEF Begin, StartStep, OpSteps, Replies
<1> QED BY <1>2, <1>3, <1>4, <1>5 DEF TypeOK, Begin, proxyVars

(* The requests that take or refuse an operation without the lock's steps.  *)
LEMMA RequestType == ASSUME TypeOK, Request PROVE TypeOK'
<1>1. ASSUME NEW c \in Clients, NEW w \in Workspaces, NEW m \in Modes,
             PlanRoute(c, w, m)
      PROVE  TypeOK'
  <2>1. mem[w] \in State BY <1>1 DEF PlanRoute, TypeOK, Snapshot
  <2>2. plans' \in [Clients -> Plan \cup {None}]
    BY <1>1, <2>1 DEF PlanRoute, TypeOK, Plan, State
  <2> QED BY <1>1, <2>2 DEF TypeOK, PlanRoute, proxyVars, counterVars
<1>2. ASSUME NEW c \in Clients, NEW k \in Keys \cup {None}, ApplyReplayed(c, k)
      PROVE  TypeOK'
  <2>1. reply' \in Replies BY <1>2 DEF ApplyReplayed, Replies
  <2> QED BY <1>2, <2>1 DEF TypeOK, ApplyReplayed, proxyVars, counterVars
<1>3. ASSUME NEW c \in Clients, NEW k \in Keys \cup {None}, ApplyRefused(c, k)
      PROVE  TypeOK'
  BY <1>3 DEF TypeOK, ApplyRefused, Replies, proxyVars, counterVars
<1>4. ASSUME NEW c \in Clients, NEW k \in Keys \cup {None}, ApplyUnchanged(c, k)
      PROVE  TypeOK'
  <2>1. plans[c] \in Plan BY <1>4 DEF ApplyUnchanged, TypeOK
  <2>2. CASE k = None
    BY <1>4, <2>2 DEF TypeOK, ApplyUnchanged, Replies, proxyVars, counterVars
  <2>3. CASE k # None
    <3>1. nextOp \in Ops /\ nextOp' \in 1 .. MaxOps + 1
      BY <1>4, <2>3, BoundsAssumption DEF TypeOK, ApplyUnchanged, Ops
    <3>2. idem' \in [Workspaces -> [Keys -> Record \cup {None}]]
      <4> DEFINE r == [intent |-> plans[c].mode, op |-> nextOp]
                 ws == plans[c].ws
      <4>1. r \in Record BY <2>1, <3>1 DEF Record, Plan
      <4>2. ws \in Workspaces /\ k \in Keys BY <2>1, <2>3 DEF Plan
      <4>3. idem' = [idem EXCEPT ![ws][k] = r]
        BY <1>4, <2>3 DEF ApplyUnchanged
      <4> HIDE DEF r, ws
      <4> QED BY <4>1, <4>2, <4>3 DEF TypeOK
    <3>3. mem[plans[c].ws] \in State
      BY <1>4, <2>1 DEF TypeOK, ApplyUnchanged, Matches, Snapshot, Plan
    <3>4. [ws |-> plans[c].ws, key |-> k, intent |-> plans[c].mode,
           ver |-> mem[plans[c].ws].ver, status |-> "committed"] \in Entry
      BY <2>1, <3>3 DEF Entry, Plan, State
    <3>5. journal' \in [Ops -> Entry \cup {None}]
      BY <1>4, <2>3, <3>1, <3>4
      DEF TypeOK, ApplyUnchanged, JournalFails
    <3>6. fate' \in [Ops -> {"unused", "open", "durable", "aborted", "answer"}]
      BY <1>4, <2>3, <3>1 DEF TypeOK, ApplyUnchanged
    <3> QED BY <1>4, <2>3, <3>1, <3>2, <3>5, <3>6
            DEF TypeOK, ApplyUnchanged, Replies, proxyVars
  <2> QED BY <2>2, <2>3
<1>5. ASSUME NEW c \in Clients, NEW k \in Keys \cup {None}, ApplyBegin(c, k)
      PROVE  TypeOK'
  <2>1. plans[c] \in Plan BY <1>5 DEF ApplyBegin, TypeOK
  <2> QED BY <1>5, <2>1, BeginType DEF ApplyBegin, Plan, AllKinds, JournaledKinds
<1>6. ASSUME CandidateRejected PROVE TypeOK'
  <2>1. nextVersion' \in Versions /\ nextOp' \in 1 .. MaxOps + 1
    BY <1>6, BoundsAssumption DEF TypeOK, CandidateRejected, Versions
  <2>2. fate' \in [Ops -> {"unused", "open", "durable", "aborted", "answer"}]
    BY <1>6, BoundsAssumption DEF TypeOK, CandidateRejected, Ops
  <2> QED BY <1>6, <2>1, <2>2 DEF TypeOK, CandidateRejected, Replies, proxyVars
<1>7. ASSUME Sync PROVE TypeOK'
  BY <1>7, BeginType DEF Sync, AllKinds, Modes
<1>8. ASSUME NEW w \in Workspaces,
             \/ Toggle(w) \/ ToggleAll(w) \/ UpdatePattern(w) \/ Update(w) \/ Alias(w)
             \/ Create(w) \/ Delete(w) \/ Repair(w)
      PROVE  TypeOK'
  <2>1. mem[w] # None => mem[w].mode \in Modes
    BY DEF TypeOK, Snapshot, State
  <2> QED BY <1>8, <2>1, BeginType
          DEF Toggle, ToggleAll, UpdatePattern, Update, Alias, Create, Delete, Repair,
              DriftSeen,
              AllKinds, JournaledKinds, Modes
<1>9. ASSUME NEW w \in Workspaces, SyncInSync(w) PROVE TypeOK'
  <2>1. Recorded(mem) \in [Workspaces -> Effective]
    BY DEF TypeOK, Recorded, Effective, Verification, Snapshot
  <2> QED BY <1>9, <2>1 DEF TypeOK, SyncInSync, Replies, counterVars
<1>10. ASSUME NEW w \in Workspaces, SyncDrift(w) PROVE TypeOK'
  BY <1>10 DEF TypeOK, SyncDrift, Replies, proxyVars, counterVars
<1> QED BY <1>1, <1>2, <1>3, <1>4, <1>5, <1>6, <1>7, <1>8, <1>9, <1>10
        DEF Request

(* What the proxy boundary leaves behind, whatever it reports.              *)
LEMMA ProxyType ==
    ASSUME TypeOK, NEW m \in Snapshot, NEW required \in BOOLEAN,
           ApplyRouting(m, required) \/ ProxyRejects(m) \/ UNCHANGED proxyVars
    PROVE  /\ file' \in Snapshot \cup {Foreign}
           /\ running' \in Snapshot \cup {Foreign}
           /\ eff' \in [Workspaces -> Effective]
<1>1. Recorded(m) \in [Workspaces -> Effective]
  BY DEF TypeOK, Recorded, Effective, Verification, Snapshot
<1>2. Marked(m) \in [Workspaces -> Effective]
  BY DEF TypeOK, Marked, Effective, Verification
<1>3. CASE ApplyRouting(m, required)
  BY <1>1, <1>2, <1>3
  DEF ApplyRouting, ProxyAccepts, ProxySkipped, TypeOK
<1>4. CASE ProxyRejects(m) BY <1>4 DEF ProxyRejects, TypeOK
<1>5. CASE UNCHANGED proxyVars BY <1>5 DEF proxyVars, TypeOK
<1> QED BY <1>3, <1>4, <1>5

(* An entry of the journal keeps its shape when its status changes.         *)
LEMMA StatusType ==
    ASSUME TypeOK, NEW o \in Ops, journal[o] \in Entry,
           NEW status \in {"prepared", "proxy-applied", "committed", "failed",
                           "rolled_back"},
           SetStatus(o, status) \/ UNCHANGED journal
    PROVE  journal' \in [Ops -> Entry \cup {None}]
<1>1. [journal[o] EXCEPT !.status = status] \in Entry BY DEF Entry
<1> QED BY <1>1 DEF SetStatus, TypeOK

(* A step of the operation that holds the lock.                             *)
LEMMA StepType == ASSUME TypeOK, OperationHeld, Step PROVE TypeOK'
<1>1. pc \in OpSteps /\ op \in Operation
  BY DEF Step, Prepare, Apply, Mark, Persist, Publish, Commit, UndoStore,
         UndoProxy, Close, OpSteps, OperationHeld
<1>2. /\ op.id \in Ops /\ op.ws \in Workspaces /\ op.key \in Keys \cup {None}
      /\ op.ver \in Versions /\ op.cand \in Snapshot /\ op.kind \in AllKinds
      /\ op.close \in {"open", "failed", "rolled_back"}
  BY <1>1 DEF Operation
<1>3. Released \in Versions
  BY <1>2, BoundsAssumption DEF Released, TypeOK, Versions
<1>4. ASSUME NEW step, NEW close \in {"failed", "rolled_back"},
             Abort(step, close)
      PROVE  /\ op' \in Operation
             /\ fate' \in [Ops -> {"unused", "open", "durable", "aborted",
                                   "answer"}]
  BY <1>1, <1>2, <1>4 DEF Abort, Operation, TypeOK
<1>5. ASSUME pc # "prepare", op.kind \in JournaledKinds,
             NEW status \in {"proxy-applied", "committed", "failed",
                             "rolled_back"},
             SetStatus(op.id, status) \/ UNCHANGED journal
      PROVE  journal' \in [Ops -> Entry \cup {None}]
  BY <1>1, <1>2, <1>5, StatusType DEF OperationHeld
<1>6. Required \in BOOLEAN /\ (Required \/ op.close = "failed") \in BOOLEAN
  BY DEF Required
<1>7. op.kind \in JournaledKinds => op.cand[op.ws].mode \in Modes
  BY <1>1, <1>2 DEF OperationHeld, Snapshot, State
<1>8. CASE Prepare
  <2>1. op.kind \in JournaledKinds BY <1>1, <1>8 DEF Prepare, OperationHeld
  <2> DEFINE e == [ws |-> op.ws, key |-> op.key, intent |-> op.cand[op.ws].mode,
                   ver |-> op.ver, status |-> "prepared"]
  <2>2. e \in Entry BY <1>2, <1>7, <2>1 DEF Entry
  <2>3. CASE journal' = [journal EXCEPT ![op.id] = e] /\ pc' = "apply"
               /\ UNCHANGED <<op, reply, nextVersion, fate>>
    <3> HIDE DEF e
    <3>1. journal' \in [Ops -> Entry \cup {None}] BY <1>2, <2>2, <2>3 DEF TypeOK
    <3> QED BY <1>8, <2>3, <3>1 DEF TypeOK, Prepare, proxyVars, OpSteps
  <2>4. CASE JournalFails /\ Finish("failed")
               /\ fate' = [fate EXCEPT ![op.id] = "aborted"]
               /\ nextVersion' = Released
    BY <1>2, <1>3, <1>8, <2>4
    DEF TypeOK, Prepare, JournalFails, Finish, Replies, proxyVars
  <2> QED BY <1>8, <2>3, <2>4 DEF Prepare
<1>9. CASE Apply
  <2>1. /\ file' \in Snapshot \cup {Foreign}
        /\ running' \in Snapshot \cup {Foreign}
        /\ eff' \in [Workspaces -> Effective]
    BY <1>2, <1>6, <1>9, ProxyType DEF Apply
  <2>2. op' \in Operation /\ pc' \in OpSteps
        /\ fate' \in [Ops -> {"unused", "open", "durable", "aborted", "answer"}]
    <3>1. CASE pc' = AfterApply /\ UNCHANGED <<op, fate>>
      BY <1>1, <3>1 DEF AfterApply, OpSteps, TypeOK
    <3>2. CASE Abort("undo-proxy", "failed")
      BY <1>4, <3>2 DEF Abort, OpSteps
    <3> QED BY <1>9, <3>1, <3>2 DEF Apply
  <2> QED BY <1>9, <2>1, <2>2 DEF TypeOK, Apply, counterVars
<1>10. CASE Mark
  <2>1. op.kind \in JournaledKinds BY <1>1, <1>10 DEF Mark, OperationHeld
  <2>2. journal' \in [Ops -> Entry \cup {None}]
    BY <1>5, <1>10, <2>1 DEF Mark, JournalFails
  <2>3. op' \in Operation /\ pc' \in OpSteps
        /\ fate' \in [Ops -> {"unused", "open", "durable", "aborted", "answer"}]
    <3>1. CASE pc' = "persist" /\ UNCHANGED <<op, fate>>
      BY <1>1, <3>1 DEF OpSteps, TypeOK
    <3>2. CASE Abort("undo-proxy", "rolled_back")
      BY <1>4, <3>2 DEF Abort, OpSteps
    <3> QED BY <1>10, <3>1, <3>2 DEF Mark
  <2> QED BY <1>10, <2>2, <2>3 DEF TypeOK, Mark, proxyVars, counterVars
<1>11. CASE Persist
  <2>1. SaveRows(db, op.cand) \in Snapshot
    BY <1>2 DEF SaveRows, TypeOK, Snapshot
  <2>2. Persisted(op) \in Snapshot
    <3>1. [db EXCEPT ![op.ws] = SaveRows(db, op.cand)[op.ws]] \in Snapshot
      BY <1>2, <2>1 DEF TypeOK, Snapshot
    <3> QED BY <1>2, <2>1, <3>1 DEF Persisted
  <2>3. db' \in Snapshot /\ op' \in Operation /\ pc' \in OpSteps
        /\ fate' \in [Ops -> {"unused", "open", "durable", "aborted", "answer"}]
    <3>1. CASE db' = Persisted(op) /\ fate' = [fate EXCEPT ![op.id] = "durable"]
                 /\ pc' = "publish" /\ UNCHANGED op
      BY <1>1, <1>2, <2>2, <3>1 DEF TypeOK, OpSteps
    <3>2. CASE Abort(IF op.kind \in JournaledKinds THEN "undo-store"
                     ELSE "undo-proxy", "rolled_back") /\ UNCHANGED db
      BY <1>4, <3>2 DEF Abort, OpSteps, TypeOK
    <3> QED BY <1>11, <3>1, <3>2 DEF Persist
  <2> QED BY <1>11, <2>3 DEF TypeOK, Persist, proxyVars, counterVars
<1>12. CASE Publish
  <2>1. op' \in Operation \cup {None} /\ pc' \in {"idle"} \cup OpSteps
        /\ reply' \in Replies
    BY <1>1, <1>12 DEF Publish, Finish, OpSteps, Replies, TypeOK
  <2> QED BY <1>2, <1>12, <2>1 DEF TypeOK, Publish, proxyVars, counterVars
<1>13. CASE Commit
  <2>1. op.kind \in JournaledKinds BY <1>1, <1>13 DEF Commit, OperationHeld
  <2>2. journal' \in [Ops -> Entry \cup {None}]
    BY <1>5, <1>13, <2>1 DEF Commit, JournalFails
  <2> DEFINE r == [intent |-> op.cand[op.ws].mode, op |-> op.id]
  <2>3. r \in Record BY <1>2, <1>7, <2>1 DEF Record
  <2>4. idem' \in [Workspaces -> [Keys -> Record \cup {None}]]
    <3>1. CASE op.key = None BY <1>13, <3>1 DEF Commit, TypeOK
    <3>2. CASE op.key # None
      <4>1. idem' = [idem EXCEPT ![op.ws][op.key] = r]
        BY <1>13, <3>2 DEF Commit
      <4> HIDE DEF r
      <4> QED BY <1>2, <2>3, <3>2, <4>1 DEF TypeOK
    <3> QED BY <3>1, <3>2
  <2> QED BY <1>13, <2>2, <2>4
          DEF TypeOK, Commit, Finish, Replies, proxyVars, counterVars
<1>14. CASE UndoStore
  <2>1. SaveRows(db, mem) \in Snapshot BY DEF SaveRows, TypeOK, Snapshot
  <2>2. db' \in Snapshot /\ reply' \in Replies
    BY <1>14, <2>1 DEF UndoStore, TypeOK, Replies
  <2> QED BY <1>14, <2>2 DEF TypeOK, UndoStore, OpSteps, proxyVars, counterVars
<1>15. CASE UndoProxy
  <2>1. /\ file' \in Snapshot \cup {Foreign}
        /\ running' \in Snapshot \cup {Foreign}
        /\ eff' \in [Workspaces -> Effective]
    BY <1>6, <1>15, ProxyType DEF UndoProxy, TypeOK
  <2>2. ASSUME NEW answer \in Replies, AfterUndo(answer)
        PROVE  op' \in Operation \cup {None} /\ pc' \in {"idle"} \cup OpSteps
               /\ reply' \in Replies
    BY <1>1, <2>2 DEF AfterUndo, Finish, OpSteps
  <2>3. WithDurable("restored") \in Replies BY DEF WithDurable, Replies
  <2>4. op' \in Operation \cup {None} /\ pc' \in {"idle"} \cup OpSteps
        /\ reply' \in Replies
    BY <1>15, <2>2, <2>3 DEF UndoProxy, Replies
  <2> QED BY <1>15, <2>1, <2>4 DEF TypeOK, UndoProxy, counterVars
<1>16. CASE Close
  <2>1. /\ op.kind \in JournaledKinds
        /\ op.close \in {"failed", "rolled_back"}
        /\ pc # "prepare"
    BY <1>1, <1>16 DEF Close, OperationHeld
  <2>2. journal' \in [Ops -> Entry \cup {None}]
    BY <1>5, <1>16, <2>1 DEF Close, JournalFails
  <2> QED BY <1>3, <1>16, <2>2 DEF TypeOK, Close, Finish, proxyVars
<1> QED BY <1>8, <1>9, <1>10, <1>11, <1>12, <1>13, <1>14, <1>15, <1>16 DEF Step

(* What a start reads back is of the right shape.                           *)
LEMMA RestoredType ==
    ASSUME TypeOK
    PROVE  /\ RestoredRecords \in [Workspaces -> [Keys -> Record \cup {None}]]
           /\ Highest(DurableVersions) \in Versions
           /\ Highest(DurableVersions \cup JournalVersions) \in Versions
           /\ \A w \in Workspaces : db[w] # None =>
                 /\ db[w].ver <= Highest(DurableVersions)
                 /\ db[w].ver <= Highest(DurableVersions \cup JournalVersions)
<1>1. RestoredRecords \in [Workspaces -> [Keys -> Record \cup {None}]]
  <2> SUFFICES ASSUME NEW w \in Workspaces, NEW k \in Keys,
                      CommittedFor(w, k) # {}
               PROVE  LET o == CHOOSE o \in CommittedFor(w, k) : TRUE
                      IN  [intent |-> journal[o].intent, op |-> o] \in Record
    BY DEF RestoredRecords
  <2> DEFINE o == CHOOSE o \in CommittedFor(w, k) : TRUE
  <2>1. o \in CommittedFor(w, k) OBVIOUS
  <2> HIDE DEF o
  <2>2. o \in Ops /\ journal[o] \in Entry
    BY <2>1 DEF CommittedFor, TypeOK
  <2> QED BY <2>2 DEF o, Entry, Record
<1>2. /\ DurableVersions \subseteq Versions
      /\ \A w \in Workspaces : db[w] # None => db[w].ver \in DurableVersions
  BY BoundsAssumption DEF DurableVersions, TypeOK, Snapshot, State, Versions
<1>3. JournalVersions \subseteq Versions
  BY DEF JournalVersions, TypeOK, Entry
<1>4. DurableVersions # {} BY DEF DurableVersions
<1>5. Highest(DurableVersions) \in DurableVersions
      /\ \A u \in DurableVersions : u <= Highest(DurableVersions)
  BY <1>2, <1>4, HighestIsMax
<1> DEFINE S == DurableVersions \cup JournalVersions
<1>6. S \subseteq Versions /\ S # {} BY <1>2, <1>3, <1>4
<1>7. Highest(S) \in S /\ \A u \in S : u <= Highest(S)
  <2> HIDE DEF S
  <2> QED BY <1>6, HighestIsMax
<1> QED BY <1>1, <1>2, <1>5, <1>6, <1>7

(* The steps of a start.                                                    *)
LEMMA StartType == ASSUME TypeOK, Start PROVE TypeOK'
<1>1. CASE Load
  <2>1. nextVersion' \in Versions
        /\ idem' \in [Workspaces -> [Keys -> Record \cup {None}]]
    BY <1>1, RestoredType DEF Load, TypeOK
  <2> QED BY <1>1, <2>1 DEF TypeOK, Load, DownSteps, proxyVars
<1>2. CASE LoadProxy
  <2>1. /\ file' \in Snapshot \cup {Foreign}
        /\ running' \in Snapshot \cup {Foreign}
        /\ eff' \in [Workspaces -> Effective]
    BY <1>2, ProxyType DEF LoadProxy, TypeOK, ApplyRouting
  <2> QED BY <1>2, <2>1 DEF TypeOK, LoadProxy, DownSteps, counterVars
<1>3. ASSUME NEW o \in Ops, Recover(o) PROVE TypeOK'
  <2>1. journal[o] \in Entry BY <1>3 DEF Recover, FirstPending, Pending, TypeOK
  <2>2. journal' \in [Ops -> Entry \cup {None}]
    BY <1>3, <2>1, StatusType DEF Recover, JournalFails
  <2> DEFINE r == [intent |-> journal[o].intent, op |-> o]
             e == journal[o]
  <2>3. r \in Record BY <2>1 DEF Entry, Record
  <2>4. idem' \in [Workspaces -> [Keys -> Record \cup {None}]]
    <3>1. CASE UNCHANGED idem BY <3>1 DEF TypeOK
    <3>2. CASE e.key # None /\ idem' = [idem EXCEPT ![e.ws][e.key] = r]
      <4>1. e.ws \in Workspaces /\ e.key \in Keys BY <2>1, <3>2 DEF Entry
      <4> HIDE DEF r, e
      <4> QED BY <2>3, <3>2, <4>1 DEF TypeOK
    <3> QED BY <1>3, <3>1, <3>2 DEF Recover
  <2>5. pc' \in DownSteps \cup {"idle"} \cup OpSteps
    BY <1>3 DEF Recover, TypeOK
  <2> QED BY <1>3, <2>2, <2>4, <2>5 DEF TypeOK, Recover, proxyVars, counterVars
<1>4. CASE Recovered
  BY <1>4 DEF TypeOK, Recovered, proxyVars, counterVars
<1> QED BY <1>1, <1>2, <1>3, <1>4 DEF Start

(* What a crash leaves.                                                     *)
LEMMA CrashType == ASSUME TypeOK, Crash PROVE TypeOK'
<1>1. /\ mem' \in Snapshot
      /\ eff' \in [Workspaces -> Effective]
      /\ idem' \in [Workspaces -> [Keys -> Record \cup {None}]]
      /\ nextVersion' \in Versions
  BY BoundsAssumption
  DEF Crash, ProcessEnds, NoSnapshot, NoEffective, NoRecords, Snapshot,
      Effective, Verification, Versions
<1>2. /\ pc' \in DownSteps
      /\ reply' \in Replies
      /\ crashes' \in 0 .. MaxCrashes
      /\ fate' \in [Ops -> {"unused", "open", "durable", "aborted", "answer"}]
  BY BoundsAssumption DEF Crash, ProcessEnds, TypeOK, DownSteps, Replies
<1> QED BY <1>1, <1>2 DEF TypeOK, Crash, ProcessEnds

(* The state before the first start.                                        *)
LEMMA InitType == ASSUME Init PROVE TypeOK
<1>1. /\ mem \in Snapshot /\ db \in Snapshot /\ file \in Snapshot
      /\ running \in Snapshot
  BY BoundsAssumption
  DEF Init, NoSnapshot, Snapshot, State, Versions, Modes
<1>2. /\ eff \in [Workspaces -> Effective]
      /\ idem \in [Workspaces -> [Keys -> Record \cup {None}]]
  BY DEF Init, NoEffective, NoRecords, Effective, Verification
<1>3. /\ nextVersion \in Versions /\ nextOp \in 1 .. MaxOps + 1
      /\ crashes \in 0 .. MaxCrashes
  BY BoundsAssumption DEF Init, Versions
<1> QED BY <1>1, <1>2, <1>3 DEF Init, TypeOK, DownSteps, Replies

----------------------------------------------------------------------------
(* The rest of the inductive invariant, action by action.                   *)

keptVars == <<pc, op, mem, db, nextVersion, nextOp, journal, fate>>

(* What the candidate of an operation differs in from the published state.  *)
LEMMA CandidateFacts ==
    ASSUME TypeOK, NEW kind \in AllKinds, NEW w \in Workspaces,
           NEW m \in Modes, nextOp <= MaxOps, nextVersion < MaxOps
    PROVE  /\ \A v \in Workspaces :
                 \/ Candidate(kind, w, m)[v] = mem[v]
                 \/ Candidate(kind, w, m)[v] = None
                 \/ /\ Candidate(kind, w, m)[v].op = nextOp
                    /\ Candidate(kind, w, m)[v].ver = nextVersion + 1
           /\ kind \notin {"sync", "delete"} => Candidate(kind, w, m)[w] # None
           /\ kind = "sync" => \A v \in Workspaces :
                 Candidate(kind, w, m)[v] = None <=> mem[v] = None
           /\ kind \notin {"sync", "delete"} => \A v \in Workspaces \ {w} :
                 Candidate(kind, w, m)[v] = mem[v]
<1> DEFINE stamp(mode) == [mode |-> mode, ver |-> nextVersion + 1, op |-> nextOp]
<1>1. \A mode : stamp(mode).op = nextOp /\ stamp(mode).ver = nextVersion + 1
  OBVIOUS
<1>2. \A mode \in Modes : stamp(mode) # None
  <2> SUFFICES ASSUME NEW mode \in Modes PROVE stamp(mode) \in State
    BY NoneAssumption
  <2> QED BY BoundsAssumption DEF TypeOK, State, Versions
<1>3. \A v \in Workspaces : mem[v] # None => mem[v].mode \in Modes
  BY DEF TypeOK, Snapshot, State
<1> HIDE DEF stamp
<1>4. Candidate(kind, w, m) =
        [v \in Workspaces |->
          CASE kind = "sync" /\ mem[v] # None -> stamp(mem[v].mode)
            [] kind = "delete" /\ v = w -> None
            [] kind \notin {"sync", "delete"} /\ v = w -> stamp(m)
            [] OTHER -> mem[v]]
  BY DEF Candidate, stamp
<1>5. ASSUME NEW v \in Workspaces
      PROVE  /\ kind = "sync" /\ mem[v] # None =>
                   Candidate(kind, w, m)[v] = stamp(mem[v].mode)
             /\ kind = "sync" /\ mem[v] = None => Candidate(kind, w, m)[v] = mem[v]
             /\ kind = "delete" /\ v = w => Candidate(kind, w, m)[v] = None
             /\ kind # "sync" /\ v # w => Candidate(kind, w, m)[v] = mem[v]
             /\ kind \notin {"sync", "delete"} /\ v = w =>
                   Candidate(kind, w, m)[v] = stamp(m)
  BY <1>4
<1> HIDE DEF Candidate
<1>6. ASSUME NEW v \in Workspaces
      PROVE  \/ Candidate(kind, w, m)[v] = mem[v]
             \/ Candidate(kind, w, m)[v] = None
             \/ /\ Candidate(kind, w, m)[v].op = nextOp
                /\ Candidate(kind, w, m)[v].ver = nextVersion + 1
  BY <1>1, <1>5
<1> QED BY <1>2, <1>3, <1>5, <1>6

LEMMA BeginKeeps ==
    ASSUME TypeOK, Kept, NEW kind \in AllKinds, NEW w \in Workspaces,
           NEW k \in Keys \cup {None}, NEW m \in Modes, Begin(kind, w, k, m),
           kind \in {"apply", "repair", "toggle", "toggle-all", "pattern"} =>
              mem[w] # None
    PROVE  Kept'
<1> DEFINE c == Candidate(kind, w, m)
<1>1. /\ pc = "idle" /\ nextOp \in Ops /\ nextOp' = nextOp + 1
      /\ nextVersion \in Nat /\ nextVersion < MaxOps
      /\ nextVersion' = nextVersion + 1
      /\ UNCHANGED <<mem, db, journal>>
      /\ fate' = [fate EXCEPT ![nextOp] = "open"]
  BY BoundsAssumption DEF Begin, TypeOK, Ops, Versions
<1>2. /\ op' = [kind |-> kind, ws |-> w, key |-> k, id |-> nextOp,
               ver |-> nextVersion + 1, cand |-> c, close |-> "open"]
      /\ pc' = (IF kind \in JournaledKinds THEN "prepare" ELSE "apply")
  BY DEF Begin, StartStep
<1>3. c \in Snapshot BY <1>1, CandidateType DEF Begin
<1>4. /\ \A v \in Workspaces :
            \/ c[v] = mem[v]
            \/ c[v] = None
            \/ c[v].op = nextOp /\ c[v].ver = nextVersion + 1
      /\ kind \notin {"sync", "delete"} => c[w] # None
      /\ kind = "sync" => \A v \in Workspaces : c[v] = None <=> mem[v] = None
      /\ kind \notin {"sync", "delete"} =>
            \A v \in Workspaces \ {w} : c[v] = mem[v]
  BY <1>1, CandidateFacts DEF Begin
<1> HIDE DEF c
<1>5. OperationHeld'
  <2>1. op' \in Operation
    BY <1>1, <1>2, <1>3, BoundsAssumption DEF Operation, Ops, Versions
  <2>2. kind \in JournaledKinds => c[w] # None
    BY <1>4 DEF JournaledKinds
  <2>3. pc' = "prepare" \/ (pc' = "apply" /\ kind \notin JournaledKinds) BY <1>2
  <2> QED BY <1>2, <2>1, <2>2, <2>3 DEF OperationHeld
<1>6. DurableMatchesPublished'
  BY <1>1, <1>2 DEF Kept, DurableMatchesPublished, OpSteps
<1>7. CandidateShape'
  BY <1>1, <1>2, <1>4 DEF CandidateShape, Ops
<1>8. VersionsAhead'
  <2>1. \A v \in Workspaces : mem[v] # None =>
           mem[v].ver <= nextVersion /\ mem[v].ver \in Nat
    BY <1>1 DEF Kept, VersionsAhead, TypeOK, Snapshot, State, Versions
  <2> QED BY <1>1, <1>2, <2>1 DEF VersionsAhead
<1>9. FatesInOrder'
  BY <1>1, <1>2 DEF Kept, FatesInOrder, TypeOK, Ops, Undecided
<1> QED BY <1>5, <1>6, <1>7, <1>8, <1>9 DEF Kept

(* A step that leaves the operation and the state it works on alone.        *)
LEMMA QuietKeeps == ASSUME Kept, UNCHANGED keptVars PROVE Kept'
BY DEF Kept, keptVars, OperationHeld, DurableMatchesPublished, CandidateShape,
       VersionsAhead, FatesInOrder

(* An answer takes an identifier, and perhaps a version, between operations.*)
LEMMA AnswerKeeps ==
    ASSUME TypeOK, Kept, pc = "idle", nextOp \in Ops,
           nextOp' = nextOp + 1, nextVersion' \in {nextVersion, nextVersion + 1},
           NEW f \in {"answer", "aborted"},
           fate' = [fate EXCEPT ![nextOp] = f],
           UNCHANGED <<pc, op, mem, db>>
    PROVE  Kept'
<1>1. OperationHeld' /\ CandidateShape' BY DEF OperationHeld, CandidateShape, OpSteps
<1>2. DurableMatchesPublished' BY DEF Kept, DurableMatchesPublished
<1>3. VersionsAhead'
  <2>1. \A w \in Workspaces : mem[w] # None =>
           mem[w].ver \in Nat /\ mem[w].ver <= nextVersion
    BY DEF Kept, VersionsAhead, TypeOK, Snapshot, State, Versions
  <2>2. nextVersion \in Nat BY DEF TypeOK, Versions
  <2> QED BY <2>1, <2>2 DEF VersionsAhead, OpSteps
<1>4. FatesInOrder' BY DEF Kept, FatesInOrder, TypeOK, Ops, Undecided
<1> QED BY <1>1, <1>2, <1>3, <1>4 DEF Kept

(* The requests: those that begin an operation and those that only answer.  *)
LEMMA RequestKeeps == ASSUME TypeOK, Kept, Request PROVE Kept'
<1>1. ASSUME NEW c \in Clients, NEW w \in Workspaces, NEW m \in Modes,
             PlanRoute(c, w, m)
      PROVE  Kept'
  BY <1>1, QuietKeeps DEF PlanRoute, keptVars, counterVars
<1>2. ASSUME NEW c \in Clients, NEW k \in Keys \cup {None},
             ApplyReplayed(c, k) \/ ApplyRefused(c, k)
      PROVE  Kept'
  BY <1>2, QuietKeeps DEF ApplyReplayed, ApplyRefused, keptVars, counterVars
<1>3. ASSUME NEW c \in Clients, NEW k \in Keys \cup {None}, ApplyUnchanged(c, k)
      PROVE  Kept'
  <2>1. CASE k = None
    BY <1>3, <2>1, QuietKeeps DEF ApplyUnchanged, keptVars, counterVars
  <2>2. CASE k # None
    <3>1. nextOp \in Ops
      BY <1>3, <2>2, BoundsAssumption DEF ApplyUnchanged, TypeOK, Ops
    <3>2. /\ pc = "idle" /\ nextOp' = nextOp + 1 /\ UNCHANGED nextVersion
          /\ fate' = [fate EXCEPT ![nextOp] = "answer"]
          /\ UNCHANGED <<pc, op, mem, db>>
      BY <1>3, <2>2 DEF ApplyUnchanged
    <3> QED BY <3>1, <3>2, AnswerKeeps
  <2> QED BY <2>1, <2>2
<1>4. ASSUME NEW c \in Clients, NEW k \in Keys \cup {None}, ApplyBegin(c, k)
      PROVE  Kept'
  <2>1. plans[c] \in Plan BY <1>4 DEF ApplyBegin, TypeOK
  <2> QED BY <1>4, <2>1, BeginKeeps
          DEF ApplyBegin, Matches, Plan, AllKinds, JournaledKinds
<1>5. ASSUME CandidateRejected PROVE Kept'
  <2>1. nextOp \in Ops
    BY <1>5, BoundsAssumption DEF CandidateRejected, TypeOK, Ops
  <2> QED BY <1>5, <2>1, AnswerKeeps DEF CandidateRejected
<1>6. ASSUME Sync PROVE Kept'
  BY <1>6, BeginKeeps DEF Sync, AllKinds, Modes
<1>7. ASSUME NEW w \in Workspaces,
             \/ Toggle(w) \/ ToggleAll(w) \/ UpdatePattern(w) \/ Update(w) \/ Alias(w)
             \/ Create(w) \/ Delete(w) \/ Repair(w)
      PROVE  Kept'
  <2>1. mem[w] # None => mem[w].mode \in Modes
    BY DEF TypeOK, Snapshot, State
  <2> QED BY <1>7, <2>1, BeginKeeps
          DEF Toggle, ToggleAll, UpdatePattern, Update, Alias, Create, Delete, Repair,
              DriftSeen,
              AllKinds, JournaledKinds, Modes
<1>8. ASSUME NEW w \in Workspaces, SyncInSync(w) \/ SyncDrift(w) PROVE Kept'
  BY <1>8, QuietKeeps DEF SyncInSync, SyncDrift, keptVars, counterVars
<1> QED BY <1>1, <1>2, <1>3, <1>4, <1>5, <1>6, <1>7, <1>8 DEF Request

(* An operation whose candidate will not be stored is decided.              *)
LEMMA AbortKeeps ==
    ASSUME TypeOK, Kept, pc \in Undecided, NEW close \in {"failed", "rolled_back"},
           NEW step \in {"undo-store", "undo-proxy"},
           step = "undo-store" => op.kind \in JournaledKinds,
           pc # "prepare", Abort(step, close), op' \in Operation,
           journal' = journal \/ journal'[op.id] \in Entry,
           UNCHANGED <<mem, db, nextVersion, nextOp>>
    PROVE  Kept'
<1>1. pc \in OpSteps /\ op \in Operation /\ op.id \in Ops
  BY DEF Undecided, OpSteps, Kept, OperationHeld, Operation
<1>2. /\ pc' = step /\ op'.close = close
      /\ op'.kind = op.kind /\ op'.ws = op.ws /\ op'.id = op.id
      /\ op'.ver = op.ver /\ op'.cand = op.cand
      /\ fate' = [fate EXCEPT ![op.id] = "aborted"]
  BY <1>1 DEF Abort, Operation
<1>3. OperationHeld'
  BY <1>1, <1>2 DEF Kept, OperationHeld, OpSteps
<1>4. DurableMatchesPublished'
  BY <1>1, <1>2 DEF Kept, DurableMatchesPublished, Undecided, OpSteps
<1>5. CandidateShape' BY <1>1, <1>2 DEF Kept, CandidateShape
<1>6. VersionsAhead' BY <1>1, <1>2 DEF Kept, VersionsAhead, OpSteps, Undecided
<1>7. FatesInOrder'
  BY <1>1, <1>2 DEF Kept, FatesInOrder, CandidateShape, Undecided, TypeOK, Ops
<1> QED BY <1>3, <1>4, <1>5, <1>6, <1>7 DEF Kept

(* An operation that ends leaves nothing undecided behind.                  *)
LEMMA EndKeeps ==
    ASSUME TypeOK, Kept, pc \in OpSteps, pc' = "idle", db' = mem',
           nextVersion' \in Nat,
           \A w \in Workspaces : mem'[w] # None => mem'[w].ver <= nextVersion',
           UNCHANGED nextOp,
           \/ pc \notin Undecided /\ UNCHANGED fate
           \/ fate' = [fate EXCEPT ![op.id] = "aborted"]
    PROVE  Kept'
<1>1. op.id \in Ops BY DEF Kept, OperationHeld, Operation
<1>2. OperationHeld' /\ CandidateShape'
  BY DEF OperationHeld, CandidateShape, OpSteps
<1>3. DurableMatchesPublished' BY DEF DurableMatchesPublished
<1>4. VersionsAhead' BY DEF VersionsAhead, OpSteps
<1>5. /\ op.id < nextOp /\ fate \in [Ops -> {"unused", "open", "durable",
                                           "aborted", "answer"}]
      /\ \A o \in Ops : o >= nextOp => fate[o] = "unused"
      /\ \A o \in Ops : fate[o] = "open" => pc \in Undecided /\ o = op.id
  BY DEF Kept, FatesInOrder, CandidateShape, TypeOK
<1>6. nextOp \in Nat /\ Ops \subseteq Nat
  BY BoundsAssumption DEF TypeOK, Ops
<1>7. \A o \in Ops : o >= nextOp => fate'[o] = "unused"
  BY <1>1, <1>5, <1>6
<1>8. \A o \in Ops : fate'[o] # "open" BY <1>1, <1>5
<1>9. FatesInOrder' BY <1>7, <1>8 DEF FatesInOrder, Undecided
<1> QED BY <1>2, <1>3, <1>4, <1>9 DEF Kept

(* An operation that moves to its next step, with nothing decided.          *)
LEMMA MoveKeeps ==
    ASSUME TypeOK, Kept, pc \in OpSteps \ {"publish", "commit"},
           NEW step \in OpSteps \ {"publish", "commit"}, pc' = step,
           step \in Undecided <=> pc \in Undecided,
           step # "prepare",
           step \in {"mark", "undo-store", "close"} => op.kind \in JournaledKinds,
           step \in {"undo-proxy", "close"} => op.close \in {"failed", "rolled_back"},
           step # "undo-store",
           op.kind \in JournaledKinds => journal'[op.id] \in Entry,
           UNCHANGED <<op, mem, db, nextVersion, nextOp, fate>>
    PROVE  Kept'
<1>1. OperationHeld' BY DEF Kept, OperationHeld
<1>2. DurableMatchesPublished' BY DEF Kept, DurableMatchesPublished, OpSteps
<1>3. CandidateShape' BY DEF Kept, CandidateShape
<1>4. VersionsAhead' BY DEF Kept, VersionsAhead, OpSteps
<1>5. FatesInOrder' BY DEF Kept, FatesInOrder
<1> QED BY <1>1, <1>2, <1>3, <1>4, <1>5 DEF Kept

(* A save stores exactly the candidate, whichever of the three ways is      *)
(* taken: the kinds that save rows neither add nor remove a workspace, and  *)
(* a toggle touches no other one.                                           *)
LEMMA PersistedIsCandidate ==
    ASSUME TypeOK, Kept, pc = "persist"
    PROVE  Persisted(op) = op.cand
<1>1. /\ op.ws \in Workspaces /\ op.cand \in Snapshot /\ op.kind \in AllKinds
  BY DEF Kept, OperationHeld, OpSteps, Operation
<1>2. db = mem BY DEF Kept, DurableMatchesPublished, OpSteps
<1>3. op.kind \in {"apply", "repair", "toggle", "toggle-all", "pattern", "sync"} =>
        \A w \in Workspaces : op.cand[w] = None <=> mem[w] = None
  BY DEF Kept, CandidateShape, OpSteps
<1>4. op.kind = "toggle" => \A w \in Workspaces \ {op.ws} : op.cand[w] = mem[w]
  BY DEF Kept, CandidateShape, OpSteps
<1>5. op.kind \in {"apply", "repair", "toggle", "toggle-all", "pattern", "sync"} =>
        SaveRows(db, op.cand) = op.cand
  <2> SUFFICES ASSUME op.kind \in {"apply", "repair", "toggle", "toggle-all",
                                   "pattern", "sync"}
               PROVE  SaveRows(mem, op.cand) = op.cand
    BY <1>2
  <2>1. op.cand = [w \in Workspaces |-> op.cand[w]] BY <1>1 DEF Snapshot
  <2>2. \A w \in Workspaces :
          (IF mem[w] = None \/ op.cand[w] = None THEN mem[w] ELSE op.cand[w])
             = op.cand[w]
    BY <1>3
  <2> QED BY <2>1, <2>2, Zenon DEF SaveRows
<1>6. op.kind = "toggle" =>
        [db EXCEPT ![op.ws] = SaveRows(db, op.cand)[op.ws]] = op.cand
  <2> SUFFICES ASSUME op.kind = "toggle"
               PROVE  [mem EXCEPT ![op.ws] = op.cand[op.ws]] = op.cand
    BY <1>2, <1>5
  <2>1. mem \in Snapshot BY DEF TypeOK
  <2> QED BY <1>1, <1>4, <2>1 DEF Snapshot
<1>7. CASE op.kind = "toggle" BY <1>6, <1>7 DEF Persisted
<1>8. CASE op.kind \in {"apply", "repair", "toggle-all", "pattern", "sync"}
  BY <1>5, <1>8 DEF Persisted
<1>9. CASE op.kind \notin {"apply", "repair", "toggle", "toggle-all", "pattern", "sync"}
  BY <1>9 DEF Persisted
<1> QED BY <1>7, <1>8, <1>9

(* Giving a version back never goes below a published one.                  *)
LEMMA ReleaseKeeps ==
    ASSUME TypeOK, Kept, pc \in {"prepare", "close"}
    PROVE  /\ Released \in Nat
           /\ \A w \in Workspaces : mem[w] # None => mem[w].ver <= Released
<1>1. op.ver = nextVersion
      /\ \A w \in Workspaces : mem[w] # None => mem[w].ver < op.ver
  BY DEF Kept, VersionsAhead, OpSteps
<1>2. nextVersion \in Nat
      /\ \A w \in Workspaces : mem[w] # None => mem[w].ver \in Nat
  BY BoundsAssumption DEF TypeOK, Versions, Snapshot, State
<1> QED BY <1>1, <1>2 DEF Released

(* A new status leaves an entry an entry.                                   *)
LEMMA SetStatusKeepsEntry ==
    ASSUME TypeOK, NEW o \in Ops, journal[o] \in Entry,
           NEW s \in {"prepared", "proxy-applied", "committed", "failed",
                      "rolled_back"},
           SetStatus(o, s)
    PROVE  journal'[o] \in Entry
BY DEF SetStatus, TypeOK, Entry

(* The candidate of an operation is not above the counter.                  *)
LEMMA CandidateBelowCounter ==
    ASSUME TypeOK, Kept, pc \in OpSteps \ {"commit"}
    PROVE  \A w \in Workspaces :
              op.cand[w] # None => op.cand[w].ver <= nextVersion
<1>1. \A w \in Workspaces :
         \/ op.cand[w] = mem[w]
         \/ op.cand[w] = None
         \/ op.cand[w].ver = op.ver
  BY DEF Kept, CandidateShape
<1>2. op.ver = nextVersion
      /\ \A w \in Workspaces : mem[w] # None => mem[w].ver <= nextVersion
  BY DEF Kept, VersionsAhead, OpSteps
<1>3. nextVersion \in Nat BY DEF TypeOK, Versions
<1> QED BY <1>1, <1>2, <1>3

(* The published candidate of a journaled operation waits for its entry.    *)
LEMMA PublishKeeps ==
    ASSUME TypeOK, Kept, Publish PROVE Kept'
<1>1. /\ pc = "publish" /\ mem' = op.cand /\ db' = op.cand
      /\ UNCHANGED <<db, nextVersion, nextOp, journal, fate>>
  BY DEF Publish, Kept, DurableMatchesPublished, counterVars
<1>2. \A w \in Workspaces : mem'[w] # None => mem'[w].ver <= nextVersion
  BY <1>1, CandidateBelowCounter DEF OpSteps
<1>3. CASE pc' = "idle"
  <2>1. nextVersion' \in Nat BY <1>1 DEF TypeOK, Versions
  <2> QED BY <1>1, <1>2, <1>3, <2>1, EndKeeps DEF OpSteps, Undecided
<1>4. CASE pc' # "idle"
  <2>1. pc' = "commit" /\ UNCHANGED op /\ op.kind \in JournaledKinds
    BY <1>4 DEF Publish, Finish
  <2>2. OperationHeld'
    BY <1>1, <2>1 DEF Kept, OperationHeld, OpSteps
  <2>3. DurableMatchesPublished' BY <1>1, <2>1 DEF DurableMatchesPublished
  <2>4. CandidateShape'
    BY <1>1, <2>1 DEF Kept, CandidateShape, OpSteps
  <2>5. VersionsAhead' BY <1>1, <1>2, <2>1 DEF VersionsAhead
  <2>6. FatesInOrder'
    BY <1>1, <2>1 DEF Kept, FatesInOrder, Undecided
  <2> QED BY <2>2, <2>3, <2>4, <2>5, <2>6 DEF Kept
<1> QED BY <1>3, <1>4

(* A save decides the operation, for or against.                            *)
LEMMA PersistKeeps ==
    ASSUME TypeOK, TypeOK', Kept, Persist PROVE Kept'
<1>1. pc = "persist" /\ UNCHANGED <<mem, nextVersion, nextOp, journal>>
  BY DEF Persist, counterVars
<1>2. op \in Operation /\ op.id \in Ops
  BY <1>1 DEF Kept, OperationHeld, OpSteps, Operation
<1>3. CASE pc' = "publish"
  <2>1. db' = op.cand /\ UNCHANGED op
        /\ fate' = [fate EXCEPT ![op.id] = "durable"]
    BY <1>1, <1>3, PersistedIsCandidate DEF Persist, Abort
  <2>2. OperationHeld' BY <1>1, <1>3, <2>1 DEF Kept, OperationHeld, OpSteps
  <2>3. DurableMatchesPublished'
    BY <1>3, <2>1 DEF DurableMatchesPublished, OpSteps
  <2>4. CandidateShape' BY <1>1, <1>3, <2>1 DEF Kept, CandidateShape, OpSteps
  <2>5. VersionsAhead' BY <1>1, <1>3, <2>1 DEF Kept, VersionsAhead, OpSteps
  <2>6. FatesInOrder'
    BY <1>1, <1>2, <1>3, <2>1
       DEF Kept, FatesInOrder, CandidateShape, Undecided, OpSteps, TypeOK, Ops
  <2> QED BY <2>2, <2>3, <2>4, <2>5, <2>6 DEF Kept
<1>4. CASE pc' # "publish"
  <2> DEFINE step == IF op.kind \in JournaledKinds THEN "undo-store"
                     ELSE "undo-proxy"
  <2>1. Abort(step, "rolled_back") /\ UNCHANGED db
    BY <1>1, <1>4 DEF Persist
  <2>2. pc' \in OpSteps /\ op' \in Operation
    <3>1. pc' = step BY <2>1 DEF Abort
    <3>2. op' = [op EXCEPT !.close = "rolled_back"] BY <2>1 DEF Abort
    <3> QED BY <3>1, <3>2, <1>2 DEF OpSteps, Operation
  <2>3. /\ step \in {"undo-store", "undo-proxy"}
        /\ step = "undo-store" => op.kind \in JournaledKinds
    OBVIOUS
  <2> HIDE DEF step
  <2> QED BY <1>1, <2>1, <2>2, <2>3, AbortKeeps DEF Undecided
<1> QED BY <1>3, <1>4

(* The steps of the lock's holder, one by one.                              *)
LEMMA StepKeeps == ASSUME TypeOK, TypeOK', Kept, Step PROVE Kept'
<1>1. ASSUME pc \in OpSteps
      PROVE  /\ op \in Operation /\ op.id \in Ops /\ op.kind \in AllKinds
             /\ pc # "publish" => db = mem
             /\ nextVersion \in Nat
             /\ \A w \in Workspaces : mem[w] # None => mem[w].ver <= nextVersion
  BY <1>1 DEF Kept, OperationHeld, Operation, DurableMatchesPublished, TypeOK,
              Versions, VersionsAhead, DownSteps, OpSteps
<1>2. CASE Prepare
  <2>1. pc = "prepare" /\ op.kind \in JournaledKinds
    BY <1>2 DEF Prepare, Kept, OperationHeld, OpSteps
  <2>2. CASE pc' = "apply"
    <3>1. UNCHANGED <<op, mem, db, nextVersion, nextOp, fate>>
      BY <1>2, <2>2 DEF Prepare, Finish, counterVars
    <3>2. journal'[op.id] \in Entry
      <4>1. journal' = [journal EXCEPT ![op.id] =
               [ws |-> op.ws, key |-> op.key, intent |-> op.cand[op.ws].mode,
                ver |-> op.ver, status |-> "prepared"]]
        BY <1>2, <2>2 DEF Prepare, Finish
      <4>2. op.cand[op.ws] # None
        BY <2>1 DEF Kept, OperationHeld, OpSteps
      <4> QED BY <1>1, <2>1, <4>1, <4>2
              DEF TypeOK, Operation, Snapshot, State, Entry, OpSteps
    <3> QED BY <1>1, <2>1, <2>2, <3>1, <3>2, MoveKeeps DEF OpSteps, Undecided
  <2>3. CASE pc' # "apply"
    <3>1. /\ pc' = "idle" /\ UNCHANGED <<mem, db, nextOp>>
          /\ fate' = [fate EXCEPT ![op.id] = "aborted"]
          /\ nextVersion' = Released
      BY <1>2, <2>3 DEF Prepare, Finish
    <3>2. db' = mem' BY <1>1, <2>1, <3>1 DEF OpSteps
    <3>3. /\ nextVersion' \in Nat
          /\ \A w \in Workspaces : mem'[w] # None => mem'[w].ver <= nextVersion'
      BY <2>1, <3>1, ReleaseKeeps
    <3> QED BY <2>1, <3>1, <3>2, <3>3, EndKeeps DEF OpSteps
  <2> QED BY <2>2, <2>3
<1>3. CASE Apply
  <2>1. pc = "apply" /\ UNCHANGED <<mem, db, nextVersion, nextOp, journal>>
    BY <1>3 DEF Apply, counterVars
  <2>2. CASE pc' = AfterApply
    <3>1. UNCHANGED <<op, fate>>
      BY <1>3, <2>2 DEF Apply, Abort, AfterApply
    <3>2. op.kind \in JournaledKinds => journal[op.id] \in Entry
      BY <2>1 DEF Kept, OperationHeld, OpSteps
    <3>3. /\ pc' \in {"mark", "persist"}
          /\ pc' = "mark" => op.kind \in JournaledKinds
      BY <2>2 DEF AfterApply
    <3> QED BY <2>1, <3>1, <3>2, <3>3, MoveKeeps DEF OpSteps, Undecided
  <2>3. CASE pc' # AfterApply
    <3>1. Abort("undo-proxy", "failed") BY <1>3, <2>3 DEF Apply
    <3>2. op' \in Operation
      BY <1>1, <2>1, <3>1 DEF Abort, Operation, OpSteps
    <3> QED BY <2>1, <3>1, <3>2, AbortKeeps DEF Undecided
  <2> QED BY <2>2, <2>3
<1>4. CASE Mark
  <2>1. /\ pc = "mark" /\ UNCHANGED <<mem, db, nextVersion, nextOp>>
        /\ op.kind \in JournaledKinds /\ journal[op.id] \in Entry
    BY <1>4 DEF Mark, counterVars, Kept, OperationHeld, OpSteps
  <2>2. CASE pc' = "persist"
    <3>1. SetStatus(op.id, "proxy-applied") /\ UNCHANGED <<op, fate>>
      BY <1>4, <2>2 DEF Mark, Abort
    <3>2. journal'[op.id] \in Entry
      BY <1>1, <2>1, <3>1, SetStatusKeepsEntry DEF OpSteps
    <3> QED BY <2>1, <2>2, <3>1, <3>2, MoveKeeps DEF OpSteps, Undecided
  <2>3. CASE pc' # "persist"
    <3>1. UNCHANGED journal /\ Abort("undo-proxy", "rolled_back")
      BY <1>4, <2>3 DEF Mark, JournalFails
    <3>2. op' \in Operation
      BY <1>1, <2>1, <3>1 DEF Abort, Operation, OpSteps
    <3> QED BY <2>1, <3>1, <3>2, AbortKeeps DEF Undecided
  <2> QED BY <2>2, <2>3
<1>5. CASE Persist BY <1>5, PersistKeeps
<1>6. CASE Publish BY <1>6, PublishKeeps
<1>7. CASE Commit
  <2>1. /\ pc = "commit" /\ pc' = "idle"
        /\ UNCHANGED <<mem, db, nextVersion, nextOp, fate>>
    BY <1>7 DEF Commit, Finish, counterVars
  <2> QED BY <1>1, <2>1, EndKeeps DEF OpSteps, Undecided
<1>8. CASE UndoStore
  <2>1. /\ pc = "undo-store" /\ pc' = "undo-proxy"
        /\ UNCHANGED <<op, mem, nextVersion, nextOp, journal, fate>>
    BY <1>8 DEF UndoStore, counterVars
  <2>2. db' = db
    <3>1. db = mem BY <1>1, <2>1 DEF OpSteps
    <3>2. SaveRows(mem, mem) = mem
      BY DEF SaveRows, TypeOK, Snapshot
    <3> QED BY <1>8, <3>1, <3>2 DEF UndoStore
  <2>3. /\ op.close \in {"failed", "rolled_back"}
        /\ op.kind \in JournaledKinds => journal[op.id] \in Entry
    BY <2>1 DEF Kept, OperationHeld, OpSteps
  <2> QED BY <2>1, <2>2, <2>3, MoveKeeps DEF OpSteps, Undecided
<1>9. CASE UndoProxy
  <2>1. /\ pc = "undo-proxy"
        /\ UNCHANGED <<mem, db, nextVersion, nextOp, journal, fate>>
    BY <1>9 DEF UndoProxy, counterVars
  <2>2. PICK answer : AfterUndo(answer) BY <1>9 DEF UndoProxy
  <2>3. CASE op.kind \in JournaledKinds
    <3>1. pc' = "close" /\ UNCHANGED op BY <2>2, <2>3 DEF AfterUndo
    <3>2. /\ op.close \in {"failed", "rolled_back"}
          /\ journal[op.id] \in Entry
      BY <2>1, <2>3 DEF Kept, OperationHeld, OpSteps
    <3> QED BY <2>1, <2>3, <3>1, <3>2, MoveKeeps DEF OpSteps, Undecided
  <2>4. CASE op.kind \notin JournaledKinds
    <3>1. pc' = "idle" BY <2>2, <2>4 DEF AfterUndo, Finish
    <3> QED BY <1>1, <2>1, <3>1, EndKeeps DEF OpSteps, Undecided
  <2> QED BY <2>3, <2>4
<1>10. CASE Close
  <2>1. /\ pc = "close" /\ pc' = "idle" /\ nextVersion' = Released
        /\ UNCHANGED <<mem, db, nextOp, fate>>
    BY <1>10 DEF Close, Finish
  <2>2. /\ nextVersion' \in Nat
        /\ \A w \in Workspaces : mem'[w] # None => mem'[w].ver <= nextVersion'
    BY <2>1, ReleaseKeeps
  <2> QED BY <1>1, <2>1, <2>2, EndKeeps DEF OpSteps, Undecided
<1> QED BY <1>2, <1>3, <1>4, <1>5, <1>6, <1>7, <1>8, <1>9, <1>10 DEF Step

(* A start publishes the durable state, with a counter that is at or above  *)
(* every version in it, and recovery leaves both alone.                     *)
LEMMA StartKeeps == ASSUME TypeOK, Kept, Start PROVE Kept'
<1>1. CASE Load
  <2>1. /\ pc = "down" /\ pc' = "loading" /\ mem' = db
        /\ UNCHANGED <<op, db, nextOp, fate>>
    BY <1>1 DEF Load
  <2>2. \A w \in Workspaces : mem'[w] # None => mem'[w].ver <= nextVersion'
    BY <1>1, <2>1, RestoredType DEF Load
  <2>3. OperationHeld' /\ CandidateShape' /\ DurableMatchesPublished'
    BY <2>1 DEF OperationHeld, CandidateShape, DurableMatchesPublished, OpSteps
  <2>4. VersionsAhead' BY <2>1, <2>2 DEF VersionsAhead, OpSteps
  <2>5. FatesInOrder' BY <2>1 DEF Kept, FatesInOrder, Undecided
  <2> QED BY <2>3, <2>4, <2>5 DEF Kept
<1>2. ASSUME pc \in {"loading", "reconciling"},
             pc' \in {"loading", "reconciling", "idle"},
             UNCHANGED <<op, mem, db, nextVersion, nextOp, fate>>
      PROVE  Kept'
  <2>1. OperationHeld' /\ CandidateShape' /\ DurableMatchesPublished'
    BY <1>2 DEF Kept, OperationHeld, CandidateShape, DurableMatchesPublished,
                OpSteps
  <2>2. VersionsAhead' BY <1>2 DEF Kept, VersionsAhead, OpSteps
  <2>3. FatesInOrder' BY <1>2 DEF Kept, FatesInOrder, Undecided
  <2> QED BY <2>1, <2>2, <2>3 DEF Kept
<1>3. CASE LoadProxy BY <1>2, <1>3 DEF LoadProxy, counterVars
<1>4. ASSUME NEW o \in Ops, Recover(o) PROVE Kept'
  BY <1>2, <1>4 DEF Recover, counterVars
<1>5. CASE Recovered BY <1>2, <1>5 DEF Recovered, counterVars
<1> QED BY <1>1, <1>3, <1>4, <1>5 DEF Start

(* A crash decides the operation in progress against its candidate.         *)
LEMMA CrashKeeps == ASSUME TypeOK, Kept, Crash PROVE Kept'
<1>1. /\ pc' = "down" /\ UNCHANGED <<nextOp, db>>
      /\ fate' = [o \in Ops |-> IF fate[o] = "open" THEN "aborted" ELSE fate[o]]
  BY DEF Crash, ProcessEnds
<1>2. OperationHeld' /\ CandidateShape' /\ DurableMatchesPublished'
      /\ VersionsAhead'
  BY <1>1 DEF OperationHeld, CandidateShape, DurableMatchesPublished,
              VersionsAhead, OpSteps
<1>3. FatesInOrder' BY <1>1 DEF Kept, FatesInOrder, Undecided
<1> QED BY <1>2, <1>3 DEF Kept

----------------------------------------------------------------------------
(* The theorems.                                                            *)

(* Before the first start nothing is held and nothing is published.         *)
LEMMA InitInv == ASSUME Init PROVE IInv
<1>1. TypeOK BY InitType
<1>2. OperationHeld /\ CandidateShape /\ DurableMatchesPublished /\ VersionsAhead
  BY DEF Init, OperationHeld, CandidateShape, DurableMatchesPublished,
         VersionsAhead, OpSteps
<1>3. FatesInOrder BY DEF Init, FatesInOrder, Undecided
<1> QED BY <1>1, <1>2, <1>3 DEF IInv, Kept

(* The invariant is inductive.                                              *)
LEMMA NextInv == ASSUME IInv, [Next]_vars PROVE IInv'
<1> USE DEF IInv
<1>1. CASE Request BY <1>1, RequestType, RequestKeeps
<1>2. CASE Step BY <1>2, StepType, StepKeeps DEF Kept
<1>3. CASE Start BY <1>3, StartType, StartKeeps
<1>4. CASE Crash BY <1>4, CrashType, CrashKeeps
<1>5. CASE Drift
  <2>1. TypeOK' BY <1>5 DEF Drift, TypeOK, counterVars
  <2>2. Kept' BY <1>5, QuietKeeps DEF Drift, keptVars, counterVars
  <2> QED BY <2>1, <2>2
<1>6. CASE UNCHANGED vars
  <2>1. TypeOK' BY <1>6 DEF vars, TypeOK, proxyVars, counterVars
  <2>2. Kept' BY <1>6, QuietKeeps DEF vars, keptVars
  <2> QED BY <2>1, <2>2
<1> QED BY <1>1, <1>2, <1>3, <1>4, <1>5, <1>6 DEF Next

(* The inductive invariant holds in every reachable state.                  *)
THEOREM Invariant == Spec => []IInv
<1>1. Init => IInv BY InitInv
<1>2. IInv /\ [Next]_vars => IInv' BY NextInv
<1> QED BY <1>1, <1>2, PTL DEF Spec

(* Every variable keeps its type, whatever fails: in particular the version *)
(* counter never leaves its range when a version is given back.             *)
THEOREM TypeCorrect == Spec => []TypeOK
<1>1. IInv => TypeOK BY DEF IInv
<1> QED BY <1>1, Invariant, PTL

(* What callers read is durable, and what is durable is what callers read   *)
(* or the candidate about to be published: persist first, then publish.     *)
THEOREM DurableSafe == Spec => []DurableMatchesPublished
<1>1. IInv => DurableMatchesPublished BY DEF IInv, Kept
<1> QED BY <1>1, Invariant, PTL

----------------------------------------------------------------------------
(* The transactions implement the ledger.                                   *)

(* A step of the ledger for one operation is a step of the ledger.          *)
LEMMA LedgerStep ==
    ASSUME NEW o \in Ops,
           \/ Ledger!Open(o)
           \/ Ledger!Commit(o)
           \/ Ledger!Discard(o)
           \/ Ledger!Answer(o)
    PROVE  [Ledger!Next]_(Ledger!vars)
BY DEF Ledger!Next

(* Deciding against an undecided operation is a discard.                    *)
LEMMA AbortIsDiscard ==
    ASSUME IInv, pc \in Undecided, UNCHANGED db,
           fate' = [fate EXCEPT ![op.id] = "aborted"]
    PROVE  [Ledger!Next]_(Ledger!vars)
<1>1. op.id \in Ops /\ fate[op.id] = "open"
  BY DEF IInv, Kept, OperationHeld, FatesInOrder, Undecided, OpSteps, Operation
<1>2. Ledger!Discard(op.id) BY <1>1 DEF Ledger!Discard, Ledger!Becomes
<1> QED BY <1>1, <1>2, LedgerStep

(* An operation that begins opens its entry in the ledger.                  *)
LEMMA BeginOpens ==
    ASSUME IInv, NEW kind, NEW w, NEW k, NEW m, Begin(kind, w, k, m)
    PROVE  [Ledger!Next]_(Ledger!vars)
<1>1. nextOp \in Ops /\ fate[nextOp] = "unused"
  <2>1. nextOp \in Ops
    BY BoundsAssumption DEF Begin, IInv, TypeOK, Ops
  <2>2. nextOp >= nextOp BY <2>1 DEF Ops
  <2> QED BY <2>1, <2>2 DEF IInv, Kept, FatesInOrder
<1>2. Ledger!Open(nextOp)
  BY <1>1 DEF Begin, Ledger!Open, Ledger!Becomes
<1> QED BY <1>1, <1>2, LedgerStep

(* Of the requests, only a begin, a remembered answer and a rejected        *)
(* candidate move the ledger.                                               *)
LEMMA RequestImplements ==
    ASSUME IInv, Request PROVE [Ledger!Next]_(Ledger!vars)
<1>1. ASSUME NEW c \in Clients, NEW w \in Workspaces, NEW m \in Modes,
             PlanRoute(c, w, m)
      PROVE  [Ledger!Next]_(Ledger!vars)
  BY <1>1 DEF PlanRoute, Ledger!vars
<1>2. ASSUME NEW c \in Clients, NEW k \in Keys \cup {None},
             ApplyReplayed(c, k) \/ ApplyRefused(c, k)
      PROVE  [Ledger!Next]_(Ledger!vars)
  BY <1>2 DEF ApplyReplayed, ApplyRefused, Ledger!vars
<1>3. nextOp <= MaxOps => nextOp \in Ops /\ fate[nextOp] = "unused"
  <2> SUFFICES ASSUME nextOp <= MaxOps
               PROVE  nextOp \in Ops /\ fate[nextOp] = "unused"
    OBVIOUS
  <2>1. nextOp \in Ops BY BoundsAssumption DEF IInv, TypeOK, Ops
  <2>2. nextOp >= nextOp BY <2>1 DEF Ops
  <2> QED BY <2>1, <2>2 DEF IInv, Kept, FatesInOrder
<1>4. ASSUME NEW c \in Clients, NEW k \in Keys \cup {None}, ApplyUnchanged(c, k)
      PROVE  [Ledger!Next]_(Ledger!vars)
  <2>1. CASE k = None BY <1>4, <2>1 DEF ApplyUnchanged, Ledger!vars
  <2>2. CASE k # None
    <3>1. Ledger!Answer(nextOp)
      BY <1>3, <1>4, <2>2 DEF ApplyUnchanged, Ledger!Answer, Ledger!Becomes
    <3>2. nextOp \in Ops BY <1>3, <1>4, <2>2 DEF ApplyUnchanged
    <3> QED BY <3>1, <3>2, LedgerStep
  <2> QED BY <2>1, <2>2
<1>5. ASSUME NEW c \in Clients, NEW k \in Keys \cup {None}, ApplyBegin(c, k)
      PROVE  [Ledger!Next]_(Ledger!vars)
  BY <1>5, BeginOpens DEF ApplyBegin
<1>6. CASE CandidateRejected
  <2>1. Ledger!Discard(nextOp)
    BY <1>3, <1>6 DEF CandidateRejected, Ledger!Discard, Ledger!Becomes
  <2>2. nextOp \in Ops BY <1>3, <1>6 DEF CandidateRejected
  <2> QED BY <2>1, <2>2, LedgerStep
<1>7. CASE Sync BY <1>7, BeginOpens DEF Sync
<1>8. ASSUME NEW w \in Workspaces,
             \/ Toggle(w) \/ ToggleAll(w) \/ UpdatePattern(w) \/ Update(w) \/ Alias(w)
             \/ Create(w) \/ Delete(w) \/ Repair(w)
      PROVE  [Ledger!Next]_(Ledger!vars)
  BY <1>8, BeginOpens
     DEF Toggle, ToggleAll, UpdatePattern, Update, Alias, Create, Delete, Repair
<1>9. ASSUME NEW w \in Workspaces, SyncInSync(w) \/ SyncDrift(w)
      PROVE  [Ledger!Next]_(Ledger!vars)
  BY <1>9 DEF SyncInSync, SyncDrift, Ledger!vars
<1> QED BY <1>1, <1>2, <1>4, <1>5, <1>6, <1>7, <1>8, <1>9 DEF Request

(* The save is the commit: the candidate is published state, a removal, or  *)
(* a state stamped above every version then stored.                         *)
LEMMA PersistImplements ==
    ASSUME IInv, Persist PROVE [Ledger!Next]_(Ledger!vars)
<1>1. pc = "persist" BY DEF Persist
<1>2. CASE pc' = "publish"
  <2>1. db' = op.cand /\ fate' = [fate EXCEPT ![op.id] = "durable"]
    BY <1>1, <1>2, PersistedIsCandidate DEF Persist, Abort, IInv
  <2>2. db = mem
    BY <1>1 DEF IInv, Kept, DurableMatchesPublished, OpSteps
  <2>3. op.id \in Ops /\ fate[op.id] = "open"
    BY <1>1 DEF IInv, Kept, OperationHeld, FatesInOrder, Undecided, OpSteps,
                Operation
  <2>4. \A w \in Workspaces :
           \/ op.cand[w] = mem[w]
           \/ op.cand[w] = None
           \/ op.cand[w].op = op.id /\ op.cand[w].ver = op.ver
    BY <1>1 DEF IInv, Kept, CandidateShape, OpSteps
  <2>5. \A w \in Workspaces : mem[w] # None => mem[w].ver < op.ver
    BY <1>1 DEF IInv, Kept, VersionsAhead, OpSteps
  <2>6. Ledger!Commit(op.id)
    BY <2>1, <2>2, <2>3, <2>4, <2>5
       DEF Ledger!Commit, Ledger!Becomes, Ledger!NewState
  <2> QED BY <2>3, <2>6, LedgerStep
<1>3. CASE pc' # "publish"
  <2>1. fate' = [fate EXCEPT ![op.id] = "aborted"] /\ UNCHANGED db
    BY <1>3 DEF Persist, Abort
  <2> QED BY <1>1, <2>1, AbortIsDiscard DEF Undecided
<1> QED BY <1>2, <1>3

(* Of the steps of an operation, only the save and the failures before it   *)
(* move the ledger; the undo of a save that failed changes nothing.         *)
LEMMA StepImplements ==
    ASSUME IInv, Step PROVE [Ledger!Next]_(Ledger!vars)
<1>1. ASSUME UNCHANGED <<db, fate>> PROVE [Ledger!Next]_(Ledger!vars)
  BY <1>1 DEF Ledger!vars
<1>2. ASSUME pc \in {"prepare", "apply", "mark"}, UNCHANGED db,
             \/ UNCHANGED fate
             \/ fate' = [fate EXCEPT ![op.id] = "aborted"]
      PROVE  [Ledger!Next]_(Ledger!vars)
  BY <1>1, <1>2, AbortIsDiscard DEF Undecided
<1>3. CASE Prepare BY <1>2, <1>3 DEF Prepare
<1>4. CASE Apply BY <1>2, <1>4 DEF Apply, Abort
<1>5. CASE Mark BY <1>2, <1>5 DEF Mark, Abort
<1>6. CASE Persist BY <1>6, PersistImplements
<1>7. CASE Publish BY <1>1, <1>7 DEF Publish
<1>8. CASE Commit BY <1>1, <1>8 DEF Commit
<1>9. CASE UndoStore
  <2>1. db = mem
    BY <1>9 DEF UndoStore, IInv, Kept, DurableMatchesPublished, OpSteps
  <2>2. SaveRows(mem, mem) = mem BY DEF SaveRows, IInv, TypeOK, Snapshot
  <2> QED BY <1>1, <1>9, <2>1, <2>2 DEF UndoStore
<1>10. CASE UndoProxy BY <1>1, <1>10 DEF UndoProxy
<1>11. CASE Close BY <1>1, <1>11 DEF Close
<1> QED BY <1>3, <1>4, <1>5, <1>6, <1>7, <1>8, <1>9, <1>10, <1>11 DEF Step

(* A crash discards the operation in progress, if it is undecided.          *)
LEMMA CrashImplements ==
    ASSUME IInv, Crash PROVE [Ledger!Next]_(Ledger!vars)
<1>1. UNCHANGED db
      /\ fate' = [o \in Ops |-> IF fate[o] = "open" THEN "aborted" ELSE fate[o]]
  BY DEF Crash, ProcessEnds
<1>2. fate \in [Ops -> {"unused", "open", "durable", "aborted", "answer"}]
      /\ \A o \in Ops : fate[o] = "open" => pc \in Undecided /\ o = op.id
  BY DEF IInv, TypeOK, Kept, FatesInOrder
<1>3. CASE pc \in Undecided
  <2>1. op.id \in Ops /\ fate[op.id] = "open"
    BY <1>3 DEF IInv, Kept, OperationHeld, FatesInOrder, Undecided, OpSteps,
                Operation
  <2>2. fate' = [fate EXCEPT ![op.id] = "aborted"] BY <1>1, <1>2, <2>1
  <2> QED BY <1>1, <1>3, <2>2, AbortIsDiscard
<1>4. CASE pc \notin Undecided
  <2>1. fate' = fate BY <1>1, <1>2, <1>4
  <2> QED BY <1>1, <2>1 DEF Ledger!vars
<1> QED BY <1>3, <1>4

(* Every behaviour of the transactions, under every failure, is a behaviour *)
(* of the ledger: SQLite moves by whole operations, each at most once and   *)
(* each to a version above all that were stored.                            *)
THEOREM Implements == Spec => LedgerSpec
<1>1. Init => Ledger!Init BY DEF Init, Ledger!Init
<1>2. ASSUME IInv, [Next]_vars PROVE [Ledger!Next]_(Ledger!vars)
  <2>1. CASE Request BY <1>2, <2>1, RequestImplements
  <2>2. CASE Step BY <1>2, <2>2, StepImplements
  <2>3. CASE Start
    <3>1. UNCHANGED <<db, fate>>
      BY <2>3 DEF Start, Load, LoadProxy, Recover, Recovered
    <3> QED BY <3>1 DEF Ledger!vars
  <2>4. CASE Crash BY <1>2, <2>4, CrashImplements
  <2>5. CASE Drift BY <2>5 DEF Drift, Ledger!vars
  <2>6. CASE UNCHANGED vars BY <2>6 DEF vars, Ledger!vars
  <2> QED BY <1>2, <2>1, <2>2, <2>3, <2>4, <2>5, <2>6 DEF Next
<1> QED BY <1>1, <1>2, Invariant, PTL DEF Spec, LedgerSpec, Ledger!Spec

----------------------------------------------------------------------------
(* What holds when some failures do not happen: a rollback reported.        *)

(* The operation in progress is one that callers request.                   *)
KindsHeld == pc \in OpSteps => op.kind \in Kinds

(* A rollback that was reported as succeeded left nginx at the published    *)
(* state, and nothing has touched either since.                             *)
RestoredAt ==
    reply = "restored" =>
        pc \in {"close", "idle"} /\ running = mem /\ file = mem

(* A step keeps the operation, except for how a failed one is closed, until *)
(* it ends.                                                                 *)
LEMMA StepHolds ==
    ASSUME OperationHeld, Step
    PROVE  /\ pc \in OpSteps /\ op \in Operation
           /\ \/ pc' = "idle"
              \/ /\ pc' \in OpSteps
                 /\ op'.kind = op.kind /\ op'.ws = op.ws /\ op'.key = op.key
                 /\ op'.id = op.id /\ op'.ver = op.ver /\ op'.cand = op.cand
<1>1. pc \in OpSteps
  BY DEF Step, Prepare, Apply, Mark, Persist, Publish, Commit, UndoStore,
         UndoProxy, Close, OpSteps
<1>2. op \in Operation BY <1>1 DEF OperationHeld
<1>3. \/ pc' = "idle"
      \/ pc' \in OpSteps /\ op' = op
      \/ pc' \in OpSteps /\ \E c : op' = [op EXCEPT !.close = c]
  BY DEF Step, Prepare, Apply, Mark, Persist, Publish, Commit, UndoStore,
         UndoProxy, Close, OpSteps, Abort, Finish, AfterUndo, AfterApply
<1> QED BY <1>1, <1>2, <1>3 DEF Operation

(* A request begins an operation, or it answers without changing anything   *)
(* that is durable, published or served.                                    *)
LEMMA RequestBeginsOrAnswers ==
    ASSUME TypeOK, Request
    PROVE  \/ \E kind \in Kinds, w \in Workspaces, k \in Keys \cup {None},
                 m \in Modes :
                 /\ Begin(kind, w, k, m)
                 /\ k # None => kind = "apply" /\ idem[w][k] = None
                 /\ kind \in JournaledKinds => mem[w] # None
           \/ /\ UNCHANGED <<pc, op, mem, db, file, running>>
              /\ reply' = reply \/ reply' # "restored"
              /\ eff' = eff \/ (pc = "idle" /\ Inspected /\ eff' = Recorded(mem))
              /\ \/ UNCHANGED <<nextOp, journal, idem, fate>>
                 \/ CandidateRejected
                 \/ \E c \in Clients, k \in Keys : ApplyUnchanged(c, k)
<1>1. ASSUME NEW c \in Clients, NEW w \in Workspaces, NEW m \in Modes,
             PlanRoute(c, w, m)
      PROVE  UNCHANGED <<pc, op, mem, db, file, running, reply, eff, nextOp, journal,
                         idem, fate>>
  BY <1>1 DEF PlanRoute, proxyVars, counterVars
<1>2. ASSUME NEW c \in Clients, NEW k \in Keys \cup {None},
             ApplyReplayed(c, k) \/ ApplyRefused(c, k) \/ ApplyUnchanged(c, k)
      PROVE  /\ UNCHANGED <<pc, op, mem, db, file, running, eff>> /\ reply' # "restored"
             /\ \/ UNCHANGED <<nextOp, journal, idem, fate>>
                \/ k \in Keys /\ ApplyUnchanged(c, k)
  BY <1>2 DEF ApplyReplayed, ApplyRefused, ApplyUnchanged, proxyVars, counterVars
<1>3. ASSUME CandidateRejected
      PROVE  UNCHANGED <<pc, op, mem, db, file, running, eff>> /\ reply' # "restored"
  BY <1>3 DEF CandidateRejected, proxyVars
<1>4. ASSUME NEW w \in Workspaces, SyncInSync(w) \/ SyncDrift(w)
      PROVE  /\ UNCHANGED <<pc, op, mem, db, file, running>> /\ reply' # "restored"
             /\ eff' = eff \/ (pc = "idle" /\ Inspected /\ eff' = Recorded(mem))
             /\ UNCHANGED <<nextOp, journal, idem, fate>>
  BY <1>4 DEF SyncInSync, SyncDrift, proxyVars, counterVars
<1>5. ASSUME NEW c \in Clients, NEW k \in Keys \cup {None}, ApplyBegin(c, k)
      PROVE  \E w \in Workspaces, m \in Modes :
                 /\ Begin("apply", w, k, m)
                 /\ k # None => idem[w][k] = None
                 /\ mem[w] # None
  <2>1. plans[c].ws \in Workspaces /\ plans[c].mode \in Modes
    BY <1>5 DEF ApplyBegin, TypeOK, Plan
  <2> QED BY <1>5, <2>1 DEF ApplyBegin, Remembered, Matches
<1>6. ASSUME Sync
      PROVE  \E w \in Workspaces, m \in Modes : Begin("sync", w, None, m)
  BY <1>6 DEF Sync, Modes
<1>7. ASSUME NEW w \in Workspaces,
             \/ Toggle(w) \/ ToggleAll(w) \/ UpdatePattern(w) \/ Update(w)
             \/ Alias(w) \/ Create(w) \/ Delete(w) \/ Repair(w)
      PROVE  \E kind \in AllKinds, m \in Modes :
                 Begin(kind, w, None, m) /\ (kind \in JournaledKinds => mem[w] # None)
  <2>1. mem[w] # None => mem[w].mode \in Modes
    BY DEF TypeOK, Snapshot, State
  <2> QED BY <1>7, <2>1
          DEF Toggle, ToggleAll, UpdatePattern, Update, Alias, Create, Delete,
              Repair, DriftSeen, AllKinds, JournaledKinds, Modes
<1>8. \A kind, w, k, m : Begin(kind, w, k, m) => kind \in Kinds BY DEF Begin
<1> HIDE DEF Begin
<1>9. CASE \E c \in Clients, k \in Keys \cup {None} : ApplyBegin(c, k)
  BY <1>5, <1>8, <1>9
<1>10. CASE Sync BY <1>6, <1>8, <1>10 DEF JournaledKinds
<1>11. CASE \E w \in Workspaces :
               \/ Toggle(w) \/ ToggleAll(w) \/ UpdatePattern(w) \/ Update(w)
               \/ Alias(w) \/ Create(w) \/ Delete(w) \/ Repair(w)
  BY <1>7, <1>8, <1>11
<1>12. CASE \E w \in Workspaces : SyncInSync(w) \/ SyncDrift(w) BY <1>4, <1>12
<1>13. CASE \/ CandidateRejected
            \/ \E c \in Clients, k \in Keys \cup {None} :
                  ApplyReplayed(c, k) \/ ApplyRefused(c, k) \/ ApplyUnchanged(c, k)
            \/ \E c \in Clients, w \in Workspaces, m \in Modes : PlanRoute(c, w, m)
  BY <1>1, <1>2, <1>3, <1>13
<1> QED BY <1>9, <1>10, <1>11, <1>12, <1>13 DEF Request

(* Callers request nothing but Kinds.                                       *)
LEMMA KindsNext ==
    ASSUME IInv, KindsHeld, [Next]_vars PROVE KindsHeld'
<1>1. CASE Request
  <2>1. ASSUME NEW kind \in Kinds, NEW w \in Workspaces, NEW k \in Keys \cup {None},
               NEW m \in Modes, Begin(kind, w, k, m)
        PROVE  KindsHeld'
    BY <2>1 DEF Begin, KindsHeld
  <2>2. CASE UNCHANGED <<pc, op>> BY <2>2 DEF KindsHeld
  <2> QED BY <1>1, <2>1, <2>2, RequestBeginsOrAnswers DEF IInv
<1>2. CASE Step BY <1>2, StepHolds DEF IInv, Kept, KindsHeld, OpSteps
<1>3. CASE Start \/ Crash
  BY <1>3 DEF Start, Load, LoadProxy, Recover, Recovered, Crash, ProcessEnds,
              KindsHeld, OpSteps
<1>4. CASE Drift \/ UNCHANGED vars BY <1>4 DEF Drift, vars, KindsHeld
<1> QED BY <1>1, <1>2, <1>3, <1>4 DEF Next

(* Only a compensating reload that succeeded is reported as a rollback.     *)
LEMMA RestoredNext ==
    ASSUME IInv, KindsHeld, RestoredAt, [Next]_vars,
           "drift" \notin Faults, "alias" \notin Kinds
    PROVE  RestoredAt'
<1>1. CASE Request
  <2>1. ASSUME NEW kind \in Kinds, NEW w \in Workspaces, NEW k \in Keys \cup {None},
               NEW m \in Modes, Begin(kind, w, k, m)
        PROVE  RestoredAt'
    BY <2>1 DEF Begin, RestoredAt
  <2>2. CASE /\ UNCHANGED <<pc, op, mem, db, file, running>>
             /\ reply' = reply \/ reply' # "restored"
    BY <2>2 DEF RestoredAt
  <2> QED BY <1>1, <2>1, <2>2, RequestBeginsOrAnswers DEF IInv
<1>2. CASE Prepare \/ Apply \/ Mark \/ Persist \/ Publish \/ Commit \/ UndoStore
  BY <1>2 DEF Prepare, Apply, Mark, Persist, Publish, Commit, UndoStore, Abort,
              Finish, AfterApply, RestoredAt
<1>3. CASE UndoProxy
  <2>1. op.kind # "alias" /\ pc = "undo-proxy"
    BY <1>3 DEF UndoProxy, KindsHeld, OpSteps
  <2>2. ASSUME reply' = "restored"
        PROVE  ApplyRouting(mem, TRUE) /\ pc' \in {"close", "idle"}
    BY <1>3, <2>1, <2>2
       DEF UndoProxy, AfterUndo, Finish, WithDurable, Required, ApplyRouting
  <2> QED BY <1>3, <2>2 DEF ApplyRouting, ProxyAccepts, UndoProxy, RestoredAt
<1>4. CASE Close
  BY <1>4 DEF Close, Finish, RestoredAt, proxyVars
<1>5. CASE Start
  BY <1>5 DEF Start, Load, LoadProxy, Recover, Recovered, RestoredAt
<1>6. CASE Crash BY <1>6 DEF Crash, ProcessEnds, RestoredAt
<1>7. CASE Drift \/ UNCHANGED vars BY <1>7 DEF Drift, vars, proxyVars, RestoredAt
<1> QED BY <1>1, <1>2, <1>3, <1>4, <1>5, <1>6, <1>7 DEF Next, Step

(* A mutation that reports its rollback as succeeded leaves SQLite and nginx*)
(* as callers see the state, unless somebody edits the generated file; an   *)
(* alias does not insist on nginx (mutate, ApplyRoutePlan).                 *)
THEOREM RollbackTrue ==
    ASSUME "drift" \notin Faults, "alias" \notin Kinds
    PROVE  Spec => []RollbackReportIsTrue
<1>1. Init => KindsHeld /\ RestoredAt
  BY DEF Init, KindsHeld, RestoredAt, OpSteps
<1>2. IInv /\ KindsHeld /\ RestoredAt /\ [Next]_vars => KindsHeld' /\ RestoredAt'
  BY KindsNext, RestoredNext
<1>3. IInv /\ RestoredAt => RollbackReportIsTrue
  BY DEF IInv, Kept, DurableMatchesPublished, RestoredAt, RollbackReportIsTrue
<1> QED BY <1>1, <1>2, <1>3, Invariant, PTL DEF Spec

----------------------------------------------------------------------------
(* Compare-and-swap, without deletions.                                     *)

(* Without deletions every workspace stays, stored and published.           *)
AllPresent ==
    \A w \in Workspaces :
        /\ db[w] # None
        /\ pc # "down" => mem[w] # None
        /\ pc \in OpSteps => op.cand[w] # None

(* A snapshot has the state a plan was made from, or a later version.       *)
Behind(p, m) ==
    /\ p.base <= m[p.ws].ver
    /\ p.base = m[p.ws].ver => m[p.ws].op = p.op

(* No plan is ahead of the durable or the published state.                  *)
PlansBehind ==
    \A c \in Clients :
        plans[c] # None =>
            /\ Behind(plans[c], db)
            /\ pc # "down" => Behind(plans[c], mem)

(* The durable state moves to a candidate, the published one to the durable *)
(* one.                                                                     *)
LEMMA SnapshotMoves ==
    ASSUME IInv, [Next]_vars
    PROVE  /\ db' = db \/ (pc = "persist" /\ db' = op.cand)
           /\ pc' # "down" =>
                 (pc # "down" /\ mem' = mem) \/ (mem' = db /\ db' = db)
<1>1. CASE Request
  BY <1>1, RequestBeginsOrAnswers DEF IInv, Begin
<1>2. CASE Persist
  BY <1>2, PersistedIsCandidate DEF Persist, IInv
<1>3. CASE Publish
  BY <1>3 DEF Publish, IInv, Kept, DurableMatchesPublished
<1>4. CASE UndoStore
  <2>1. db = mem /\ pc = "undo-store"
    BY <1>4 DEF UndoStore, IInv, Kept, DurableMatchesPublished, OpSteps
  <2>2. SaveRows(mem, mem) = mem
    BY DEF SaveRows, IInv, TypeOK, Snapshot
  <2> QED BY <1>4, <2>1, <2>2 DEF UndoStore
<1>5. CASE Prepare \/ Apply \/ Mark \/ Commit \/ UndoProxy \/ Close
  BY <1>5 DEF Prepare, Apply, Mark, Commit, UndoProxy, Close
<1>6. CASE Start
  BY <1>6 DEF Start, Load, LoadProxy, Recover, Recovered
<1>7. CASE Crash BY <1>7 DEF Crash, ProcessEnds
<1>8. CASE Drift \/ UNCHANGED vars BY <1>8 DEF Drift, vars
<1> QED BY <1>1, <1>2, <1>3, <1>4, <1>5, <1>6, <1>7, <1>8 DEF Next, Step

(* A workspace leaves by a deletion and by nothing else.                    *)
LEMMA PresentNext ==
    ASSUME IInv, KindsHeld, AllPresent, [Next]_vars, "delete" \notin Kinds
    PROVE  AllPresent'
<1>1. \A w \in Workspaces : db'[w] # None /\ (pc' # "down" => mem'[w] # None)
  BY SnapshotMoves DEF AllPresent, OpSteps
<1>2. ASSUME pc' \in OpSteps, NEW w \in Workspaces PROVE op'.cand[w] # None
  <2>1. CASE Request
    <3>1. ASSUME NEW kind \in Kinds, NEW v \in Workspaces,
                 NEW k \in Keys \cup {None}, NEW m \in Modes, Begin(kind, v, k, m)
          PROVE  op'.cand[w] # None
      <4>1. op'.cand = Candidate(kind, v, m) /\ pc = "idle"
            /\ nextOp <= MaxOps /\ nextVersion < MaxOps
        BY <3>1 DEF Begin
      <4>2. kind \in AllKinds /\ kind # "delete" BY SwitchAssumption
      <4>3. mem[w] # None BY <4>1 DEF AllPresent
      <4>4. /\ kind \notin {"sync", "delete"} => Candidate(kind, v, m)[v] # None
            /\ kind = "sync" => \A u \in Workspaces :
                  Candidate(kind, v, m)[u] = None <=> mem[u] = None
            /\ kind \notin {"sync", "delete"} => \A u \in Workspaces \ {v} :
                  Candidate(kind, v, m)[u] = mem[u]
        BY <4>1, <4>2, CandidateFacts DEF IInv
      <4> HIDE DEF Candidate
      <4> QED BY <4>1, <4>2, <4>3, <4>4
    <3>2. CASE UNCHANGED <<pc, op>> BY <1>2, <3>2 DEF AllPresent
    <3> QED BY <2>1, <3>1, <3>2, RequestBeginsOrAnswers DEF IInv
  <2>2. CASE Step
    BY <1>2, <2>2, StepHolds DEF IInv, Kept, AllPresent, OpSteps
  <2>3. CASE Start \/ Crash
    BY <1>2, <2>3 DEF Start, Load, LoadProxy, Recover, Recovered, Crash,
                      ProcessEnds, OpSteps
  <2>4. CASE Drift \/ UNCHANGED vars
    BY <1>2, <2>4 DEF Drift, vars, AllPresent
  <2> QED BY <2>1, <2>2, <2>3, <2>4 DEF Next
<1> QED BY <1>1, <1>2 DEF AllPresent

(* Every workspace of the first database is there.                          *)
LEMMA InitPresent == ASSUME Init PROVE KindsHeld /\ AllPresent
<1>1. \A w \in Workspaces : db[w] # None
  <2> SUFFICES ASSUME NEW w \in Workspaces PROVE db[w] \in State
    BY NoneAssumption
  <2> QED BY BoundsAssumption DEF Init, State, Modes, Versions
<1> QED BY <1>1 DEF Init, KindsHeld, AllPresent, OpSteps

(* What a plan is not ahead of now, it is not ahead of in the candidate.    *)
LEMMA CandidateIsAhead ==
    ASSUME IInv, AllPresent, pc \in OpSteps \ {"commit"}, NEW p \in Plan,
           Behind(p, mem)
    PROVE  Behind(p, op.cand)
<1>1. p.ws \in Workspaces /\ p.base \in Nat BY DEF Plan, Versions
<1>2. op.cand[p.ws] # None /\ mem[p.ws] # None
  BY <1>1 DEF AllPresent, DownSteps, OpSteps
<1>3. \/ op.cand[p.ws] = mem[p.ws]
      \/ op.cand[p.ws].ver = op.ver
  BY <1>1, <1>2 DEF IInv, Kept, CandidateShape
<1>4. mem[p.ws].ver < op.ver
  BY <1>1, <1>2 DEF IInv, Kept, VersionsAhead
<1>5. mem[p.ws].ver \in Nat /\ op.ver \in Nat
  BY <1>1, <1>2
     DEF IInv, Kept, OperationHeld, Operation, TypeOK, Snapshot, State, Versions
<1> QED BY <1>1, <1>3, <1>4, <1>5 DEF Behind

(* No step brings a state back behind a plan.                               *)
LEMMA PlansNext ==
    ASSUME IInv, AllPresent, PlansBehind, [Next]_vars
    PROVE  PlansBehind'
<1>1. ASSUME NEW c \in Clients, UNCHANGED plans[c], plans[c] # None
      PROVE  Behind(plans[c], db)' /\ (pc' # "down" => Behind(plans[c], mem)')
  <2>1. plans[c] \in Plan BY <1>1 DEF IInv, TypeOK
  <2>2. Behind(plans[c], db) /\ (pc # "down" => Behind(plans[c], mem))
    BY <1>1 DEF PlansBehind
  <2>3. pc = "persist" => Behind(plans[c], op.cand)
    BY <2>1, <2>2, CandidateIsAhead DEF OpSteps
  <2> QED BY <1>1, <2>2, <2>3, SnapshotMoves DEF Behind
<1>2. ASSUME NEW c \in Clients, NEW w \in Workspaces, NEW m \in Modes,
             PlanRoute(c, w, m)
      PROVE  PlansBehind'
  <2> DEFINE p == [ws |-> w, mode |-> m, base |-> mem[w].ver,
                   before |-> mem[w].mode, op |-> mem[w].op]
  <2>1. /\ plans' = [plans EXCEPT ![c] = p]
        /\ UNCHANGED <<pc, op, mem, db>> /\ pc \notin DownSteps /\ mem[w] # None
    BY <1>2 DEF PlanRoute, Serving
  <2>2. p \in Plan
    BY <2>1 DEF Plan, IInv, TypeOK, Snapshot, State
  <2>3. p.ws = w /\ p.base = mem[w].ver /\ p.op = mem[w].op OBVIOUS
  <2> HIDE DEF p
  <2>4. Behind(p, mem)
    <3>1. mem[w].ver \in Nat
      BY <2>1 DEF IInv, TypeOK, Snapshot, State, Versions
    <3> QED BY <2>3, <3>1 DEF Behind
  <2>5. Behind(p, db)
    <3>1. CASE pc = "publish"
      BY <2>2, <2>4, <3>1, CandidateIsAhead
         DEF OpSteps, IInv, Kept, DurableMatchesPublished
    <3>2. CASE pc # "publish"
      BY <2>1, <2>4, <3>2
         DEF OpSteps, DownSteps, IInv, Kept, DurableMatchesPublished, TypeOK
    <3> QED BY <3>1, <3>2
  <2>6. ASSUME NEW d \in Clients, plans'[d] # None
        PROVE  Behind(plans'[d], db') /\ Behind(plans'[d], mem')
    <3>1. plans \in [Clients -> Plan \cup {None}] BY DEF IInv, TypeOK
    <3>2. CASE d = c
      <4>1. plans'[d] = p BY <2>1, <3>1, <3>2
      <4> QED BY <2>1, <2>4, <2>5, <4>1
    <3>3. CASE d # c
      <4>1. plans'[d] = plans[d] BY <2>1, <3>1, <3>3
      <4> QED BY <2>1, <2>6, <4>1 DEF PlansBehind, DownSteps
    <3> QED BY <3>2, <3>3
  <2> QED BY <2>6 DEF PlansBehind, Behind
<1>3. CASE UNCHANGED plans BY <1>1, <1>3 DEF PlansBehind, Behind
<1>4. CASE \E c \in Clients, w \in Workspaces, m \in Modes : PlanRoute(c, w, m)
  BY <1>2, <1>4
<1>5. CASE Request
  <2>1. \A kind, w, k, m : Begin(kind, w, k, m) => UNCHANGED plans BY DEF Begin
  <2> QED BY <1>3, <1>4, <1>5, <2>1
          DEF Request, ApplyReplayed, ApplyRefused, ApplyUnchanged, ApplyBegin,
              CandidateRejected, Sync, Toggle, ToggleAll, UpdatePattern, Update,
              Alias, Create, Delete, SyncInSync, SyncDrift, Repair
<1>6. CASE Step \/ Start \/ Crash \/ Drift \/ UNCHANGED vars
  BY <1>3, <1>6
     DEF Step, Prepare, Apply, Mark, Persist, Publish, Commit, UndoStore,
         UndoProxy, Close, Start, Load, LoadProxy, Recover, Recovered, Crash,
         ProcessEnds, Drift, vars
<1> QED BY <1>5, <1>6 DEF Next

(* A plan that passes the version check was made from the very state the    *)
(* workspace is in, whatever fails and however often versions are given back*)
(* or counted anew, as long as no workspace is deleted (ApplyRoutePlan,     *)
(* releaseOperationVersion, Load).                                          *)
THEOREM PlansSound ==
    ASSUME "delete" \notin Kinds
    PROVE  Spec => []PlanBaseIdentifiesState
<1>1. Init => KindsHeld /\ AllPresent /\ PlansBehind
  BY InitPresent DEF Init, PlansBehind
<1>2. IInv /\ KindsHeld /\ AllPresent /\ PlansBehind /\ [Next]_vars
        => KindsHeld' /\ AllPresent' /\ PlansBehind'
  BY KindsNext, PresentNext, PlansNext
<1>3. PlansBehind => PlanBaseIdentifiesState
  BY DEF PlansBehind, Behind, PlanBaseIdentifiesState, Serving, DownSteps
<1> QED BY <1>1, <1>2, <1>3, Invariant, PTL DEF Spec

----------------------------------------------------------------------------
(* A verified route, without hand edits, deletions and double failures.     *)

(* The daemon believes that nginx serves a state of workspace w.            *)
Believed(w) == eff[w].status = "verified" /\ eff[w].state # None

(* Nginx runs what the generated file says.  A state that the daemon        *)
(* believes served is served; it is the published one if it has its version *)
(* and the candidate's once the candidate was applied.                      *)
BeliefTrue(w) ==
    Believed(w) =>
        /\ running[w] = eff[w].state
        /\ eff[w].state.ver = mem[w].ver => eff[w].state = mem[w]
        /\ pc \in {"mark", "persist", "publish"} => eff[w].state = op.cand[w]

ServedTrue ==
    /\ file = running /\ running \in Snapshot
    /\ pc = "down" => eff = NoEffective
    /\ pc # "down" => \A w \in Workspaces : BeliefTrue(w)

(* Nothing is believed before the first load.                               *)
LEMMA NothingBelieved ==
    ASSUME eff' = NoEffective, file' = running', running' \in Snapshot
    PROVE  ServedTrue'
BY DEF ServedTrue, BeliefTrue, Believed, NoEffective

(* A successful reload of a state that is the published one where the       *)
(* versions agree.                                                          *)
LEMMA AcceptKeepsBelief ==
    ASSUME NEW m \in Snapshot, \A w \in Workspaces : m[w] # None,
           file' = m, running' = m, eff' = Recorded(m), pc' # "down",
           \A w \in Workspaces : m[w].ver = mem'[w].ver => m[w] = mem'[w],
           pc' \in {"mark", "persist", "publish"} => m = op'.cand
    PROVE  ServedTrue'
<1>1. ASSUME NEW w \in Workspaces PROVE eff'[w].state = m[w]
  BY <1>1 DEF Recorded
<1> QED BY <1>1 DEF ServedTrue, BeliefTrue, Believed

(* Without a provider the mutation is recorded, and nothing is believed.    *)
LEMMA SkipKeepsBelief ==
    ASSUME TypeOK, ServedTrue, NEW m \in Snapshot, \A w \in Workspaces : m[w] # None,
           ProxySkipped(m), pc' # "down"
    PROVE  ServedTrue'
<1>1. ASSUME NEW w \in Workspaces PROVE eff'[w].status = "provider-unavailable"
  <2>1. eff'[w] = [eff[w] EXCEPT !.status = "provider-unavailable"]
    BY <1>1 DEF ProxySkipped, Marked
  <2>2. eff[w] \in Effective BY DEF TypeOK
  <2> QED BY <2>1, <2>2 DEF Effective
<1> QED BY <1>1 DEF ServedTrue, BeliefTrue, Believed, ProxySkipped

(* What changes neither the published state nor what nginx runs.            *)
LEMMA RestKeepsBelief ==
    ASSUME ServedTrue, pc # "down", pc' # "down",
           UNCHANGED <<mem, file, running, eff>>,
           pc' \in {"mark", "persist", "publish"} =>
              pc \in {"mark", "persist", "publish"} /\ op' = op
    PROVE  ServedTrue'
BY DEF ServedTrue, BeliefTrue, Believed

(* A candidate is the published state where their versions agree.           *)
LEMMA CandidateIsNew ==
    ASSUME IInv, AllPresent, pc \in OpSteps \ {"commit"}
    PROVE  /\ op.cand \in Snapshot
           /\ \A w \in Workspaces :
                 op.cand[w].ver = mem[w].ver => op.cand[w] = mem[w]
<1>1. op.cand \in Snapshot BY DEF IInv, Kept, OperationHeld, Operation
<1>2. ASSUME NEW w \in Workspaces, op.cand[w].ver = mem[w].ver
      PROVE  op.cand[w] = mem[w]
  <2>1. op.cand[w] # None /\ mem[w] # None BY DEF AllPresent, OpSteps
  <2>2. mem[w].ver < op.ver BY <2>1 DEF IInv, Kept, VersionsAhead
  <2>3. mem[w].ver \in Nat
    BY <2>1 DEF IInv, TypeOK, Snapshot, State, Versions
  <2> QED BY <1>2, <2>1, <2>2, <2>3 DEF IInv, Kept, CandidateShape
<1> QED BY <1>1, <1>2

(* A failed reload whose restore succeeds changes nothing.                  *)
LEMMA RejectKeepsFile ==
    ASSUME ServedTrue, "undo" \notin Faults, NEW m, ProxyRejects(m)
    PROVE  UNCHANGED <<file, running, eff>>
BY DEF ServedTrue, ProxyRejects

(* No step makes the daemon believe more than nginx serves.                 *)
LEMMA ServedNext ==
    ASSUME IInv, AllPresent, ServedTrue, [Next]_vars,
           "undo" \notin Faults, "drift" \notin Faults
    PROVE  ServedTrue'
<1>1. ASSUME pc # "down"
      PROVE  mem \in Snapshot /\ \A w \in Workspaces : mem[w] # None
  BY <1>1 DEF IInv, TypeOK, AllPresent
<1>2. CASE Request
  <2>1. ASSUME NEW kind \in Kinds, NEW w \in Workspaces, NEW k \in Keys \cup {None},
               NEW m \in Modes, Begin(kind, w, k, m)
        PROVE  ServedTrue'
    BY <2>1, RestKeepsBelief DEF Begin, StartStep, proxyVars
  <2>2. CASE UNCHANGED <<pc, op, mem, db, file, running>> /\ eff' = eff
    BY <2>2, RestKeepsBelief DEF ServedTrue
  <2>3. CASE /\ UNCHANGED <<pc, op, mem, db, file, running>>
             /\ pc = "idle" /\ Inspected /\ eff' = Recorded(mem)
    <3>1. file = mem /\ running = mem BY <2>3 DEF Inspected, ServedTrue
    <3> QED BY <1>1, <2>3, <3>1, AcceptKeepsBelief
  <2> QED BY <1>2, <2>1, <2>2, <2>3, RequestBeginsOrAnswers DEF IInv
<1>3. CASE Prepare \/ Mark \/ Persist \/ Commit \/ UndoStore \/ Close
  BY <1>3, RestKeepsBelief
     DEF Prepare, Mark, Persist, Commit, UndoStore, Close, Finish, Abort, proxyVars
<1>4. CASE Apply
  <2>1. pc = "apply" /\ UNCHANGED mem BY <1>4 DEF Apply
  <2>2. /\ op.cand \in Snapshot /\ \A w \in Workspaces : op.cand[w] # None
        /\ \A w \in Workspaces : op.cand[w].ver = mem[w].ver => op.cand[w] = mem[w]
    BY <2>1, CandidateIsNew DEF AllPresent, OpSteps
  <2>3. CASE pc' = AfterApply /\ UNCHANGED op /\ ProxyAccepts(op.cand)
    <3>1. pc' # "down" BY <2>3 DEF AfterApply
    <3> QED BY <2>1, <2>2, <2>3, <3>1, AcceptKeepsBelief DEF ProxyAccepts
  <2>4. CASE pc' = AfterApply /\ ProxySkipped(op.cand)
    BY <2>2, <2>4, SkipKeepsBelief DEF AfterApply, IInv
  <2>5. CASE ProxyRejects(op.cand) /\ pc' = "undo-proxy"
    BY <2>1, <2>5, RejectKeepsFile, RestKeepsBelief
  <2> QED BY <1>4, <2>3, <2>4, <2>5 DEF Apply, ApplyRouting, Abort
<1>5. CASE Publish
  <2>1. /\ pc = "publish" /\ pc' \in {"commit", "idle"} /\ mem' = op.cand
        /\ UNCHANGED <<file, running, eff>>
    BY <1>5 DEF Publish, Finish, proxyVars
  <2> QED BY <2>1 DEF ServedTrue, BeliefTrue, Believed
<1>6. CASE UndoProxy
  <2>1. /\ pc = "undo-proxy" /\ pc' \in {"close", "idle"} /\ UNCHANGED mem
        /\ \/ ProxyAccepts(mem)
           \/ ProxySkipped(mem)
           \/ ProxyRejects(mem)
           \/ UNCHANGED <<file, running, eff>>
    BY <1>6 DEF UndoProxy, AfterUndo, Finish, ApplyRouting, proxyVars
  <2>2. CASE ProxyAccepts(mem)
    BY <1>1, <2>1, <2>2, AcceptKeepsBelief DEF ProxyAccepts
  <2>3. CASE ProxySkipped(mem) BY <1>1, <2>1, <2>3, SkipKeepsBelief DEF IInv
  <2>4. CASE ProxyRejects(mem) BY <2>1, <2>4, RejectKeepsFile, RestKeepsBelief
  <2>5. CASE UNCHANGED <<file, running, eff>> BY <2>1, <2>5, RestKeepsBelief
  <2> QED BY <2>1, <2>2, <2>3, <2>4, <2>5
<1>7. CASE Load
  BY <1>7, NothingBelieved DEF Load, ServedTrue, proxyVars
<1>8. CASE LoadProxy
  <2>1. CASE ProxyAccepts(mem)
    BY <1>1, <1>8, <2>1, AcceptKeepsBelief DEF LoadProxy, ProxyAccepts
  <2>2. CASE ProxyRejects(mem)
    BY <1>8, <2>2, RejectKeepsFile, RestKeepsBelief DEF LoadProxy
  <2> QED BY <1>8, <2>1, <2>2 DEF LoadProxy
<1>9. CASE (\E o \in Ops : Recover(o)) \/ Recovered
  BY <1>9, RestKeepsBelief DEF Recover, Recovered, proxyVars
<1>10. CASE Crash
  BY <1>10, NothingBelieved DEF Crash, ProcessEnds, ServedTrue
<1>11. CASE UNCHANGED vars
  BY <1>11 DEF vars, proxyVars, ServedTrue, BeliefTrue, Believed
<1> QED BY <1>2, <1>3, <1>4, <1>5, <1>6, <1>7, <1>8, <1>9, <1>10, <1>11
        DEF Next, Step, Start, Drift

(* A route shown as verified is the one nginx serves, whatever call fails, as*)
(* long as no workspace is deleted, nobody edits the generated file and no  *)
(* restore of a failed reload fails too (recordEffectiveRoutes,             *)
(* markRoutingState).                                                       *)
THEOREM VerifiedServed ==
    ASSUME "delete" \notin Kinds, "undo" \notin Faults, "drift" \notin Faults
    PROVE  Spec => []VerifiedIsServed
<1>1. Init => KindsHeld /\ AllPresent /\ ServedTrue
  <2> SUFFICES ASSUME Init PROVE KindsHeld /\ AllPresent /\ ServedTrue OBVIOUS
  <2>1. KindsHeld /\ AllPresent BY InitPresent
  <2>2. running \in Snapshot BY DEF Init, NoSnapshot, Snapshot
  <2> QED BY <2>1, <2>2 DEF Init, ServedTrue
<1>2. IInv /\ KindsHeld /\ AllPresent /\ ServedTrue /\ [Next]_vars
        => KindsHeld' /\ AllPresent' /\ ServedTrue'
  BY KindsNext, PresentNext, ServedNext
<1>3. ServedTrue => VerifiedIsServed
  <2> SUFFICES ASSUME ServedTrue, NEW w \in Workspaces, Serving, Current(w)
               PROVE  running # Foreign /\ running[w] = mem[w]
    BY DEF VerifiedIsServed
  <2>1. running # Foreign BY ForeignAssumption DEF ServedTrue
  <2> QED BY <2>1 DEF ServedTrue, BeliefTrue, Believed, Current, Serving, DownSteps
<1> QED BY <1>1, <1>2, <1>3, Invariant, PTL DEF Spec

----------------------------------------------------------------------------
(* The journal, while SQLite answers for it.                                *)

Committed(o) == journal[o] # None /\ journal[o].status = "committed"

Closed(o) == journal[o] # None /\ journal[o].status \in {"failed", "rolled_back"}

(* The durable workspace is at the version of the entry: what recovery      *)
(* decides by.                                                              *)
SavedAt(e) == db[e.ws] # None /\ db[e.ws].ver = e.ver

SameKey(o, p) ==
    journal[o].key # None /\ journal[o].key = journal[p].key
        /\ journal[o].ws = journal[p].ws

(* A journaled operation stamps its workspace, its entry says so and stays  *)
(* pending until the operation ends; the others have no entry.              *)
EntryHeld ==
    pc \in OpSteps =>
        /\ op.kind \notin JournaledKinds \/ pc = "prepare" => journal[op.id] = None
        /\ op.kind \in JournaledKinds => op.cand[op.ws].ver = op.ver
        /\ op.kind \in JournaledKinds /\ pc # "prepare" =>
              /\ Pending(op.id)
              /\ journal[op.id].ws = op.ws /\ journal[op.id].key = op.key
              /\ journal[op.id].ver = op.ver

(* The key of the operation in progress has no answer yet.                  *)
KeyFree == pc \in OpSteps /\ op.key # None => idem[op.ws][op.key] = None

FateHeld ==
    /\ pc \in {"publish", "commit"} => fate[op.id] = "durable"
    /\ pc \in {"undo-store", "undo-proxy", "close"} => fate[op.id] = "aborted"

(* A pending entry belongs to the operation in progress, or a crash left it *)
(* and the start has not reached it.  Its version tells whether it was      *)
(* saved, it is the only one, and its key was never committed.              *)
PendingTold ==
    \A o \in Ops : Pending(o) =>
        /\ \/ pc \in DownSteps
           \/ pc \in OpSteps \ {"prepare"} /\ o = op.id /\ op.kind \in JournaledKinds
        /\ fate[o] = "durable" <=> SavedAt(journal[o])
        /\ \A p \in Ops : Pending(p) => o = p
        /\ \A p \in Ops : Committed(p) => ~SameKey(o, p)

(* Identifiers are fresh; a committed key is remembered while the daemon    *)
(* runs, and no key is committed twice.                                     *)
CommittedKnown ==
    \A o \in Ops :
        /\ journal[o] # None => o < nextOp
        /\ Committed(o) /\ journal[o].key # None /\ pc # "down" =>
              idem[journal[o].ws][journal[o].key] # None
        /\ \A p \in Ops : Committed(o) /\ Committed(p) /\ SameKey(o, p) => o = p

JournalKept ==
    /\ EntryHeld /\ KeyFree /\ FateHeld
    /\ PendingTold
    /\ CommittedKnown
    /\ JournalTellsFate
    /\ ReplayIsOfADurableAnswer

journalVars == <<pc, op, db, nextOp, journal, idem, fate>>

(* A step of something else.                                                *)
LEMMA QuietKeepsJournal ==
    ASSUME JournalKept, UNCHANGED journalVars PROVE JournalKept'
BY DEF JournalKept, journalVars, EntryHeld, KeyFree, FateHeld, PendingTold,
       CommittedKnown, JournalTellsFate, ReplayIsOfADurableAnswer, Pending,
       Committed, SavedAt, SameKey

(* An entry that is closed as the fate of its operation says.               *)
LEMMA CloseKeepsJournal ==
    ASSUME TypeOK, JournalKept, NEW o \in Ops, Pending(o),
           NEW s \in {"committed", "failed", "rolled_back"}, SetStatus(o, s),
           s = "committed" <=> fate[o] = "durable",
           NEW r \in Record, r.op = o,
           idem' = (IF s = "committed" /\ journal[o].key # None
                    THEN [idem EXCEPT ![journal[o].ws][journal[o].key] = r]
                    ELSE idem),
           pc' = "idle" \/ (pc' = "reconciling" /\ pc = "reconciling"),
           pc # "down", UNCHANGED <<nextOp, fate>>
    PROVE  JournalKept'
<1>1. journal[o] \in Entry BY DEF Pending, TypeOK
<1>2. /\ journal'[o] = [journal[o] EXCEPT !.status = s]
      /\ \A p \in Ops \ {o} : journal'[p] = journal[p]
  BY DEF SetStatus, TypeOK
<1>3. /\ journal'[o].status = s /\ journal'[o].key = journal[o].key
      /\ journal'[o].ws = journal[o].ws /\ journal'[o] # None
  BY <1>1, <1>2, NoneAssumption DEF Entry
<1>4. \A p \in Ops : ~Pending(p)'
  <2>1. ~Pending(o)' BY <1>3 DEF Pending
  <2>2. ASSUME NEW p \in Ops \ {o} PROVE ~Pending(p)'
    <3>1. ~Pending(p) BY DEF JournalKept, PendingTold
    <3> QED BY <1>2, <3>1 DEF Pending
  <2> QED BY <2>1, <2>2
<1>5. EntryHeld' /\ KeyFree' /\ FateHeld'
  BY DEF EntryHeld, KeyFree, FateHeld, OpSteps
<1>6. PendingTold' BY <1>4 DEF PendingTold
<1>7. \A p \in Ops : journal'[p] # None => p < nextOp'
  BY <1>1, <1>2, NoneAssumption DEF JournalKept, CommittedKnown
<1>8. ASSUME NEW w \in Workspaces, NEW k \in Keys
      PROVE  /\ s = "committed" /\ w = journal[o].ws /\ k = journal[o].key =>
                   idem'[w][k] = r
             /\ idem'[w][k] = idem[w][k] \/ (s = "committed" /\ idem'[w][k] = r)
  <2>1. idem \in [Workspaces -> [Keys -> Record \cup {None}]] BY DEF TypeOK
  <2>2. k # None BY NoneAssumption
  <2> QED BY <1>1, <2>1, <2>2 DEF Entry
<1>9. r # None BY NoneAssumption
<1>10. ASSUME NEW p \in Ops, Committed(p)', journal'[p].key # None
       PROVE  idem'[journal'[p].ws][journal'[p].key] # None
  <2>1. CASE p = o
    <3>1. s = "committed" /\ journal[o].ws \in Workspaces /\ journal[o].key \in Keys
      BY <1>1, <1>3, <1>10, <2>1 DEF Committed, Entry
    <3> QED BY <1>3, <1>8, <1>9, <2>1, <3>1
  <2>2. CASE p # o
    <3>1. Committed(p) /\ journal'[p] = journal[p]
      BY <1>2, <1>10, <2>2 DEF Committed
    <3>2. journal[p].ws \in Workspaces /\ journal[p].key \in Keys
      BY <1>10, <3>1 DEF Committed, TypeOK, Entry
    <3> QED BY <1>8, <1>9, <1>10, <3>1, <3>2 DEF JournalKept, CommittedKnown
  <2> QED BY <2>1, <2>2
<1>11. ASSUME NEW p \in Ops, NEW q \in Ops, Committed(p)', Committed(q)',
              SameKey(p, q)'
       PROVE  p = q
  <2>1. CASE p # o /\ q # o
    <3>1. Committed(p) /\ Committed(q) /\ SameKey(p, q)
      BY <1>2, <1>11, <2>1 DEF Committed, SameKey
    <3> QED BY <3>1 DEF JournalKept, CommittedKnown
  <2>2. ASSUME NEW x \in Ops, x # o, Committed(x)', SameKey(o, x)' \/ SameKey(x, o)'
        PROVE  FALSE
    <3>1. Committed(x) /\ SameKey(o, x)
      BY <1>2, <1>3, <2>2 DEF Committed, SameKey
    <3> QED BY <3>1 DEF JournalKept, PendingTold
  <2> QED BY <1>11, <2>1, <2>2
<1>12. CommittedKnown' BY <1>7, <1>10, <1>11 DEF CommittedKnown
<1>13. JournalTellsFate'
  <2>1. ASSUME NEW p \in Ops
        PROVE  /\ journal'[p] # None /\ journal'[p].status = "committed"
                     => fate'[p] \in {"durable", "answer"}
               /\ journal'[p] # None
                     /\ journal'[p].status \in {"failed", "rolled_back"}
                     => fate'[p] # "durable"
    BY <1>2, <1>3, <2>1 DEF JournalKept, JournalTellsFate
  <2> QED BY <2>1 DEF JournalTellsFate
<1>14. ReplayIsOfADurableAnswer'
  BY <1>8 DEF JournalKept, ReplayIsOfADurableAnswer
<1> QED BY <1>5, <1>6, <1>12, <1>13, <1>14 DEF JournalKept

(* A step of an operation that leaves its entry pending.                    *)
LEMMA MoveKeepsJournal ==
    ASSUME IInv, JournalKept, pc \in OpSteps \ {"prepare"},
           pc' \in OpSteps \ {"prepare"},
           op'.kind = op.kind, op'.ws = op.ws, op'.key = op.key,
           op'.id = op.id, op'.ver = op.ver, op'.cand = op.cand,
           UNCHANGED <<idem, nextOp>>,
           journal' = journal \/ (op.kind \in JournaledKinds /\ SetStatus(op.id, "proxy-applied")),
           \/ UNCHANGED fate
           \/ /\ pc \in Undecided
              /\ \E f \in {"durable", "aborted"} : fate' = [fate EXCEPT ![op.id] = f],
           FateHeld',
           op.kind \in JournaledKinds =>
              (fate'[op.id] = "durable" <=> SavedAt(journal[op.id])')
    PROVE  JournalKept'
<1>1. op.id \in Ops BY DEF IInv, Kept, OperationHeld, Operation
<1>2. ASSUME NEW o \in Ops
      PROVE  /\ Pending(o)' <=> Pending(o)
             /\ Committed(o)' <=> Committed(o)
             /\ Closed(o)' <=> Closed(o)
             /\ journal'[o] # None <=> journal[o] # None
             /\ journal[o] # None =>
                   /\ journal'[o].ws = journal[o].ws
                   /\ journal'[o].key = journal[o].key
                   /\ journal'[o].ver = journal[o].ver
  <2>1. CASE journal' = journal
    BY <2>1 DEF Pending, Committed, Closed
  <2>2. CASE op.kind \in JournaledKinds /\ SetStatus(op.id, "proxy-applied")
    <3>1. Pending(op.id) BY <2>2 DEF JournalKept, EntryHeld
    <3>2. journal[op.id] \in Entry BY <1>1, <3>1 DEF Pending, IInv, TypeOK
    <3>3. /\ journal'[op.id] = [journal[op.id] EXCEPT !.status = "proxy-applied"]
          /\ o # op.id => journal'[o] = journal[o]
      BY <1>1, <2>2 DEF SetStatus, IInv, TypeOK
    <3>4. /\ journal'[op.id] # None /\ journal'[op.id].status = "proxy-applied"
          /\ journal'[op.id].ws = journal[op.id].ws
          /\ journal'[op.id].key = journal[op.id].key
          /\ journal'[op.id].ver = journal[op.id].ver
      BY <3>2, <3>3, NoneAssumption DEF Entry
    <3>5. CASE o = op.id
      BY <3>1, <3>4, <3>5 DEF Pending, Committed, Closed
    <3>6. CASE o # op.id BY <3>3, <3>6 DEF Pending, Committed, Closed
    <3> QED BY <3>5, <3>6
  <2> QED BY <2>1, <2>2
<1>3. /\ journal[op.id] # None => Pending(op.id)
      /\ \A o \in Ops : o # op.id => fate'[o] = fate[o]
      /\ \A o \in Ops : fate[o] \in {"durable", "answer"} => fate'[o] = fate[o]
  <2>1. pc \in Undecided => fate[op.id] = "open" BY DEF IInv, Kept, FatesInOrder
  <2>2. fate \in [Ops -> {"unused", "open", "durable", "aborted", "answer"}]
    BY DEF IInv, TypeOK
  <2> QED BY <1>1, <2>1, <2>2 DEF JournalKept, EntryHeld
<1>4. ASSUME NEW o \in Ops, NEW p \in Ops, journal[o] # None, journal[p] # None
      PROVE  SameKey(o, p)' <=> SameKey(o, p)
  BY <1>2, <1>4 DEF SameKey
<1>5. EntryHeld'
  BY <1>1, <1>2 DEF JournalKept, EntryHeld, Pending
<1>6. KeyFree' BY DEF JournalKept, KeyFree
<1>7. PendingTold'
  <2> SUFFICES ASSUME NEW o \in Ops, Pending(o)'
               PROVE  /\ o = op.id /\ op.kind \in JournaledKinds
                      /\ \A p \in Ops : Pending(p)' => o = p
                      /\ \A p \in Ops : Committed(p)' => ~SameKey(o, p)'
    BY DEF PendingTold
  <2>1. Pending(o) BY <1>2
  <2>2. /\ o = op.id /\ op.kind \in JournaledKinds
        /\ \A p \in Ops : Pending(p) => o = p
        /\ \A p \in Ops : Committed(p) => ~SameKey(o, p)
    BY <2>1 DEF JournalKept, PendingTold, OpSteps, DownSteps
  <2>3. \A p \in Ops : Committed(p)' => ~SameKey(o, p)'
    BY <1>2, <1>4, <2>1, <2>2 DEF Pending, Committed
  <2> QED BY <1>2, <2>2, <2>3
<1>8. CommittedKnown'
  <2>1. ASSUME NEW o \in Ops, Committed(o)', journal'[o].key # None
        PROVE  idem[journal'[o].ws][journal'[o].key] # None
    <3>1. Committed(o) /\ journal[o] # None BY <1>2, <2>1 DEF Committed
    <3> QED BY <1>2, <2>1, <3>1 DEF JournalKept, CommittedKnown, OpSteps
  <2>2. ASSUME NEW o \in Ops, NEW p \in Ops, Committed(o)', Committed(p)',
               SameKey(o, p)'
        PROVE  o = p
    <3>1. Committed(o) /\ Committed(p) /\ journal[o] # None /\ journal[p] # None
      BY <1>2, <2>2 DEF Committed
    <3> QED BY <1>4, <2>2, <3>1 DEF JournalKept, CommittedKnown
  <2>3. \A o \in Ops : journal'[o] # None => o < nextOp'
    BY <1>2 DEF JournalKept, CommittedKnown
  <2> QED BY <2>1, <2>2, <2>3 DEF CommittedKnown
<1>9. JournalTellsFate'
  <2>1. ASSUME NEW o \in Ops
        PROVE  /\ Committed(o)' => fate'[o] \in {"durable", "answer"}
               /\ Closed(o)' => fate'[o] # "durable"
    <3>1. CASE o = op.id
      BY <1>1, <1>2, <1>3, <3>1 DEF Pending, Committed, Closed
    <3>2. CASE o # op.id
      BY <1>2, <1>3, <3>2 DEF JournalKept, JournalTellsFate, Committed, Closed
    <3> QED BY <3>1, <3>2
  <2> QED BY <2>1 DEF JournalTellsFate, Committed, Closed
<1>10. ReplayIsOfADurableAnswer'
  <2>1. \A w \in Workspaces, k \in Keys : idem[w][k] # None => idem[w][k].op \in Ops
    BY DEF IInv, TypeOK, Record
  <2> QED BY <1>3, <2>1 DEF JournalKept, ReplayIsOfADurableAnswer
<1> QED BY <1>5, <1>6, <1>7, <1>8, <1>9, <1>10 DEF JournalKept

(* A journaled operation stamps the workspace it names.                     *)
LEMMA CandidateIsStamped ==
    ASSUME NEW kind \in JournaledKinds, NEW w \in Workspaces, NEW m
    PROVE  Candidate(kind, w, m)[w].ver = nextVersion + 1
<1>1. kind \notin {"sync", "delete"} BY DEF JournaledKinds
<1> DEFINE stamp(mode) == [mode |-> mode, ver |-> nextVersion + 1, op |-> nextOp]
<1>2. stamp(m).ver = nextVersion + 1 OBVIOUS
<1> HIDE DEF stamp
<1>3. Candidate(kind, w, m) =
        [v \in Workspaces |->
          CASE kind = "sync" /\ mem[v] # None -> stamp(mem[v].mode)
            [] kind = "delete" /\ v = w -> None
            [] kind \notin {"sync", "delete"} /\ v = w -> stamp(m)
            [] OTHER -> mem[v]]
  BY DEF Candidate, stamp
<1> HIDE DEF Candidate
<1>4. Candidate(kind, w, m)[w] = stamp(m) BY <1>1, <1>3
<1> QED BY <1>2, <1>4

(* A new identifier is decided, or an operation begins under it.            *)
LEMMA FreshKeepsJournal ==
    ASSUME IInv, JournalKept, pc = "idle", nextOp \in Ops, nextOp' = nextOp + 1,
           NEW f \in {"open", "aborted"}, fate' = [fate EXCEPT ![nextOp] = f],
           UNCHANGED <<db, journal, idem>>, EntryHeld', KeyFree',
           pc' \in {"idle", "prepare", "apply"}
    PROVE  JournalKept'
<1>1. \A o \in Ops : ~Pending(o)
  BY DEF JournalKept, PendingTold, DownSteps, OpSteps
<1>2. PendingTold' BY <1>1 DEF PendingTold, Pending
<1>3. FateHeld' BY DEF FateHeld
<1>4. nextOp \in Nat /\ Ops \subseteq Nat BY DEF Ops
<1>5. CommittedKnown'
  BY <1>4 DEF JournalKept, CommittedKnown, Committed, SameKey
<1>6. /\ fate[nextOp] = "unused"
      /\ \A o \in Ops : o # nextOp => fate'[o] = fate[o]
      /\ \A o \in Ops : journal[o] # None => o # nextOp
  BY <1>4 DEF IInv, Kept, FatesInOrder, TypeOK, JournalKept, CommittedKnown
<1>7. JournalTellsFate' BY <1>6 DEF JournalKept, JournalTellsFate
<1>8. ReplayIsOfADurableAnswer'
  <2>1. \A w \in Workspaces, k \in Keys : idem[w][k] # None => idem[w][k].op \in Ops
    BY DEF IInv, TypeOK, Record
  <2> QED BY <1>6, <2>1 DEF JournalKept, ReplayIsOfADurableAnswer
<1> QED BY <1>2, <1>3, <1>5, <1>7, <1>8 DEF JournalKept

(* An answer that changes nothing is remembered, and journaled if it can.   *)
LEMMA UnchangedKeepsJournal ==
    ASSUME IInv, JournalKept, "journal" \notin Faults,
           NEW c \in Clients, NEW k \in Keys, ApplyUnchanged(c, k)
    PROVE  JournalKept'
<1> DEFINE w == plans[c].ws
           r == [intent |-> plans[c].mode, op |-> nextOp]
           e == [ws |-> w, key |-> k, intent |-> plans[c].mode,
                 ver |-> mem[w].ver, status |-> "committed"]
<1>1. w \in Workspaces /\ plans[c].mode \in Modes /\ k # None
  BY NoneAssumption DEF ApplyUnchanged, IInv, TypeOK, Plan
<1>2. /\ pc = "idle" /\ nextOp \in Ops /\ nextOp' = nextOp + 1
      /\ fate' = [fate EXCEPT ![nextOp] = "answer"]
      /\ idem' = [idem EXCEPT ![w][k] = r]
      /\ idem[w][k] = None /\ mem[w] # None
      /\ UNCHANGED <<pc, op, mem, db>>
      /\ \/ ~Clash(nextOp, w, k) /\ journal' = [journal EXCEPT ![nextOp] = e]
         \/ Clash(nextOp, w, k) /\ UNCHANGED journal
  BY <1>1, BoundsAssumption
     DEF ApplyUnchanged, Remembered, Matches, JournalFails, IInv, TypeOK, Ops
<1>3. r \in Record /\ r # None /\ r.op = nextOp
  BY <1>1, <1>2, NoneAssumption DEF Record
<1>4. e \in Entry
  <2>1. mem[w].ver \in Versions
    BY <1>1, <1>2 DEF IInv, TypeOK, Snapshot, State
  <2> QED BY <1>1, <2>1 DEF Entry
<1>5. /\ e # None /\ e.status = "committed" /\ e.ws = w /\ e.key = k
  BY <1>4, NoneAssumption
<1> HIDE DEF r, e, w
<1>6. journal' = [journal EXCEPT ![nextOp] = e]
  <2>1. ~Clash(nextOp, w, k)
    BY <1>1, <1>2 DEF Clash, JournalKept, CommittedKnown, Committed
  <2> QED BY <1>2, <2>1
<1>7. /\ journal'[nextOp] = e /\ \A o \in Ops : o # nextOp => journal'[o] = journal[o]
      /\ fate'[nextOp] = "answer" /\ \A o \in Ops : o # nextOp => fate'[o] = fate[o]
      /\ fate[nextOp] = "unused" /\ journal[nextOp] = None
      /\ nextOp \in Nat /\ Ops \subseteq Nat
  <2>1. nextOp \in Nat /\ Ops \subseteq Nat BY <1>2 DEF Ops
  <2> QED BY <1>2, <1>6, <2>1
          DEF IInv, Kept, FatesInOrder, TypeOK, JournalKept, CommittedKnown
<1>8. \A v \in Workspaces, j \in Keys :
         idem'[v][j] = (IF v = w /\ j = k THEN r ELSE idem[v][j])
  BY <1>1, <1>2 DEF IInv, TypeOK
<1>9. \A o \in Ops : ~Pending(o)'
  <2>1. \A o \in Ops : ~Pending(o)
    BY <1>2 DEF JournalKept, PendingTold, DownSteps, OpSteps
  <2> QED BY <1>5, <1>7, <2>1 DEF Pending
<1>10. EntryHeld' /\ KeyFree' /\ FateHeld'
  BY <1>2 DEF EntryHeld, KeyFree, FateHeld, OpSteps
<1>11. PendingTold' BY <1>9 DEF PendingTold
<1>12. CommittedKnown'
  <2>1. \A o \in Ops : journal'[o] # None => o < nextOp'
    BY <1>2, <1>7 DEF JournalKept, CommittedKnown
  <2>2. ASSUME NEW o \in Ops, Committed(o)', journal'[o].key # None
        PROVE  idem'[journal'[o].ws][journal'[o].key] # None
    <3>1. CASE o = nextOp BY <1>1, <1>3, <1>5, <1>7, <1>8, <3>1
    <3>2. CASE o # nextOp
      <4>1. Committed(o) /\ journal'[o] = journal[o]
        BY <1>7, <2>2, <3>2 DEF Committed
      <4>2. journal[o].ws \in Workspaces /\ journal[o].key \in Keys
        BY <2>2, <4>1 DEF Committed, IInv, TypeOK, Entry
      <4> QED BY <1>2, <1>3, <1>8, <2>2, <4>1, <4>2 DEF JournalKept, CommittedKnown
    <3> QED BY <3>1, <3>2
  <2>3. ASSUME NEW o \in Ops, NEW p \in Ops, Committed(o)', Committed(p)',
               SameKey(o, p)'
        PROVE  o = p
    <3>1. PICK n \in Ops : n = nextOp BY <1>2
    <3>2. ASSUME NEW x \in Ops, x # n, Committed(x)',
                 SameKey(x, n)' \/ SameKey(n, x)'
          PROVE  FALSE
      <4>1. journal'[x] = journal[x] /\ journal'[n] = e
        BY <1>7, <3>1, <3>2
      <4>2. Committed(x) BY <3>2, <4>1 DEF Committed
      <4>3. journal[x].ws = w /\ journal[x].key = k
        BY <1>5, <3>2, <4>1 DEF SameKey
      <4> QED BY <1>1, <1>2, <4>2, <4>3 DEF JournalKept, CommittedKnown
    <3>3. CASE o # n /\ p # n
      <4>1. Committed(o) /\ Committed(p) /\ SameKey(o, p)
        BY <1>7, <2>3, <3>1, <3>3 DEF Committed, SameKey
      <4> QED BY <4>1 DEF JournalKept, CommittedKnown
    <3>4. CASE o = n /\ p # n BY <2>3, <3>2, <3>4
    <3>5. CASE o # n /\ p = n BY <2>3, <3>2, <3>5
    <3> QED BY <3>3, <3>4, <3>5
  <2> QED BY <2>1, <2>2, <2>3 DEF CommittedKnown
<1>13. JournalTellsFate'
  BY <1>5, <1>7 DEF JournalKept, JournalTellsFate
<1>14. ReplayIsOfADurableAnswer'
  <2>1. \A v \in Workspaces, j \in Keys : idem[v][j] # None => idem[v][j].op \in Ops
    BY DEF IInv, TypeOK, Record
  <2> QED BY <1>3, <1>7, <1>8, <2>1 DEF JournalKept, ReplayIsOfADurableAnswer
<1> QED BY <1>10, <1>11, <1>12, <1>13, <1>14 DEF JournalKept

(* The requests.                                                            *)
LEMMA RequestKeepsJournal ==
    ASSUME IInv, IInv', JournalKept, Request, "journal" \notin Faults
    PROVE  JournalKept'
<1>1. ASSUME NEW kind \in Kinds, NEW w \in Workspaces, NEW k \in Keys \cup {None},
             NEW m \in Modes, Begin(kind, w, k, m), k # None => idem[w][k] = None
      PROVE  JournalKept'
  <2>1. /\ pc = "idle" /\ nextOp \in Ops /\ nextOp' = nextOp + 1
        /\ fate' = [fate EXCEPT ![nextOp] = "open"]
        /\ UNCHANGED <<db, journal, idem>> /\ pc' \in {"prepare", "apply"}
        /\ pc' = "apply" => kind \notin JournaledKinds
    BY <1>1, BoundsAssumption DEF Begin, StartStep, IInv, TypeOK, Ops
  <2>2. /\ op'.kind = kind /\ op'.ws = w /\ op'.key = k /\ op'.id = nextOp
        /\ op'.ver = nextVersion + 1 /\ op'.cand = Candidate(kind, w, m)
    BY <1>1 DEF Begin
  <2>3. journal[nextOp] = None
    <3>1. nextOp \in Nat BY <2>1 DEF Ops
    <3> QED BY <2>1, <3>1 DEF JournalKept, CommittedKnown
  <2>4. EntryHeld'
    <3>1. kind \in JournaledKinds => op'.cand[op'.ws].ver = op'.ver
      BY <2>2, CandidateIsStamped
    <3> QED BY <2>1, <2>2, <2>3, <3>1 DEF EntryHeld
  <2>5. KeyFree' BY <1>1, <2>1, <2>2 DEF KeyFree
  <2> QED BY <2>1, <2>4, <2>5, FreshKeepsJournal
<1>2. CASE \E kind \in Kinds, w \in Workspaces, k \in Keys \cup {None}, m \in Modes :
              Begin(kind, w, k, m) /\ (k # None => idem[w][k] = None)
  BY <1>1, <1>2
<1>3. CASE \E c \in Clients, k \in Keys : ApplyUnchanged(c, k)
  BY <1>3, UnchangedKeepsJournal
<1>4. CASE CandidateRejected
  <2>1. /\ pc = "idle" /\ nextOp \in Ops /\ nextOp' = nextOp + 1 /\ UNCHANGED pc
        /\ fate' = [fate EXCEPT ![nextOp] = "aborted"]
        /\ UNCHANGED <<db, journal, idem>>
    BY <1>4, BoundsAssumption DEF CandidateRejected, IInv, TypeOK, Ops
  <2> QED BY <2>1, FreshKeepsJournal DEF EntryHeld, KeyFree, OpSteps
<1>5. CASE UNCHANGED journalVars BY <1>5, QuietKeepsJournal
<1> QED
  <2>1. CASE UNCHANGED <<pc, op, db, nextOp, journal, idem, fate>>
    BY <1>5, <2>1 DEF journalVars
  <2> QED BY <1>2, <1>3, <1>4, <2>1, RequestBeginsOrAnswers DEF IInv

(* The entry of an operation is written before anything else is touched.    *)
LEMMA PrepareKeepsJournal ==
    ASSUME IInv, IInv', JournalKept, Prepare, "journal" \notin Faults
    PROVE  JournalKept'
<1> DEFINE e == [ws |-> op.ws, key |-> op.key, intent |-> op.cand[op.ws].mode,
                 ver |-> op.ver, status |-> "prepared"]
<1>1. /\ pc = "prepare" /\ pc' = "apply" /\ journal' = [journal EXCEPT ![op.id] = e]
      /\ UNCHANGED <<op, mem, db, nextOp, idem, fate>>
  BY DEF Prepare, JournalFails
<1>2. /\ op \in Operation /\ op.id \in Ops /\ op.kind \in JournaledKinds
      /\ op.cand[op.ws] # None /\ op.id < nextOp /\ fate[op.id] = "open"
      /\ db = mem /\ op.ws \in Workspaces
      /\ mem[op.ws] # None => mem[op.ws].ver < op.ver
  BY <1>1 DEF IInv, Kept, OperationHeld, Operation, CandidateShape, FatesInOrder,
              DurableMatchesPublished, VersionsAhead, OpSteps, Undecided
<1>3. PICK n \in Ops : n = op.id BY <1>2
<1>4. /\ journal'[n] = e /\ \A o \in Ops : o # n => journal'[o] = journal[o]
      /\ e.status = "prepared" /\ e.ws = op.ws /\ e.key = op.key /\ e.ver = op.ver
  BY <1>1, <1>3 DEF IInv, TypeOK
<1>5. e # None
  <2>1. e \in Entry
    BY <1>2 DEF Entry, Operation, Snapshot, State
  <2> QED BY <2>1, NoneAssumption
<1> HIDE DEF e
<1>6. \A o \in Ops : /\ Pending(o)' <=> o = n
                     /\ Committed(o)' => Committed(o) /\ o # n
                     /\ Closed(o)' => Closed(o) /\ o # n
  <2>1. \A o \in Ops : ~Pending(o)
    BY <1>1 DEF JournalKept, PendingTold, DownSteps, OpSteps
  <2> QED BY <1>4, <1>5, <2>1 DEF Pending, Committed, Closed
<1>7. EntryHeld'
  BY <1>1, <1>2, <1>3, <1>4, <1>6 DEF JournalKept, EntryHeld, OpSteps
<1>8. KeyFree' BY <1>1 DEF JournalKept, KeyFree, OpSteps
<1>9. FateHeld' BY <1>1 DEF FateHeld
<1>10. PendingTold'
  <2>1. fate'[n] # "durable" /\ ~SavedAt(journal[n])'
    <3>1. op.ver \in Nat /\ (mem[op.ws] # None => mem[op.ws].ver \in Nat)
      BY <1>2 DEF Operation, IInv, TypeOK, Snapshot, State, Versions
    <3> QED BY <1>1, <1>2, <1>3, <1>4, <3>1 DEF SavedAt
  <2>2. ASSUME NEW p \in Ops, Committed(p)', SameKey(n, p)' PROVE FALSE
    <3>1. Committed(p) /\ journal'[p] = journal[p] BY <1>4, <1>6, <2>2
    <3>2. op.key # None /\ journal[p].ws = op.ws /\ journal[p].key = op.key
      BY <1>4, <2>2, <3>1 DEF SameKey
    <3> QED BY <1>1, <3>1, <3>2 DEF JournalKept, CommittedKnown, KeyFree, OpSteps
  <2> QED BY <1>1, <1>2, <1>3, <1>6, <2>1, <2>2 DEF PendingTold, OpSteps
<1>11. CommittedKnown'
  <2>1. ASSUME NEW o \in Ops, Committed(o)', journal'[o].key # None
        PROVE  idem'[journal'[o].ws][journal'[o].key] # None
    BY <1>1, <1>4, <1>6, <2>1 DEF JournalKept, CommittedKnown
  <2>2. ASSUME NEW o \in Ops, NEW p \in Ops, Committed(o)', Committed(p)',
               SameKey(o, p)'
        PROVE  o = p
    <3>1. Committed(o) /\ Committed(p) /\ SameKey(o, p)
      BY <1>4, <1>6, <2>2 DEF SameKey
    <3> QED BY <3>1 DEF JournalKept, CommittedKnown
  <2>3. \A o \in Ops : journal'[o] # None => o < nextOp'
    BY <1>1, <1>2, <1>3, <1>4 DEF JournalKept, CommittedKnown
  <2> QED BY <2>1, <2>2, <2>3 DEF CommittedKnown
<1>12. JournalTellsFate'
  BY <1>1, <1>4, <1>5, <1>6 DEF JournalKept, JournalTellsFate
<1>13. ReplayIsOfADurableAnswer'
  BY <1>1 DEF JournalKept, ReplayIsOfADurableAnswer
<1> QED BY <1>7, <1>8, <1>9, <1>10, <1>11, <1>12, <1>13 DEF JournalKept

(* What leaves nothing pending behind, and changes no entry.                *)
LEMMA RestKeepsJournal ==
    ASSUME JournalKept, pc # "down", UNCHANGED <<db, nextOp, journal, idem, fate>>,
           \/ pc' = "idle" /\ \A o \in Ops : ~Pending(o)
           \/ pc' = "reconciling" /\ pc \in DownSteps
    PROVE  JournalKept'
BY DEF JournalKept, EntryHeld, KeyFree, FateHeld, PendingTold,
       CommittedKnown, JournalTellsFate, ReplayIsOfADurableAnswer, Pending,
       Committed, SavedAt, SameKey, OpSteps, DownSteps

(* The steps of an operation.                                               *)
LEMMA StepKeepsJournal ==
    ASSUME IInv, IInv', JournalKept, Step, "journal" \notin Faults
    PROVE  JournalKept'
<1>1. /\ pc \in OpSteps /\ op \in Operation /\ op.id \in Ops
      /\ pc' # "idle" => /\ pc' \in OpSteps
                         /\ op'.kind = op.kind /\ op'.ws = op.ws /\ op'.key = op.key
                         /\ op'.id = op.id /\ op'.ver = op.ver /\ op'.cand = op.cand
  BY StepHolds DEF IInv, Kept, Operation
<1>2. ASSUME op.kind \in JournaledKinds, pc # "prepare"
      PROVE  /\ Pending(op.id) /\ journal[op.id].ws = op.ws
             /\ journal[op.id].key = op.key /\ journal[op.id].ver = op.ver
             /\ fate[op.id] = "durable" <=> SavedAt(journal[op.id])
  BY <1>1, <1>2 DEF JournalKept, EntryHeld, PendingTold
<1>3. /\ pc \in Undecided => fate[op.id] = "open"
      /\ fate \in [Ops -> {"unused", "open", "durable", "aborted", "answer"}]
  BY DEF IInv, Kept, FatesInOrder, TypeOK
<1>4. op.kind \notin JournaledKinds => \A o \in Ops : ~Pending(o)
  BY <1>1 DEF JournalKept, PendingTold, DownSteps, OpSteps
<1>5. CASE Prepare BY <1>5, PrepareKeepsJournal
<1>6. CASE Apply \/ Mark
  <2>1. /\ pc \in {"apply", "mark"} /\ pc' \in {"mark", "persist", "undo-proxy"}
        /\ UNCHANGED <<db, idem, nextOp>>
        /\ \/ UNCHANGED fate /\ pc' \in {"mark", "persist"}
           \/ fate' = [fate EXCEPT ![op.id] = "aborted"] /\ pc' = "undo-proxy"
        /\ \/ UNCHANGED journal
           \/ pc = "mark" /\ SetStatus(op.id, "proxy-applied")
    BY <1>6 DEF Apply, Mark, Abort, AfterApply, JournalFails, counterVars
  <2>2. op'.id = op.id BY <1>1, <2>1
  <2>3. FateHeld' BY <1>1, <1>3, <2>1, <2>2 DEF FateHeld
  <2>4. pc = "mark" => op.kind \in JournaledKinds
    BY DEF IInv, Kept, OperationHeld, OpSteps
  <2>5. op.kind \in JournaledKinds =>
           /\ fate'[op.id] # "durable"
           /\ ~SavedAt(journal[op.id])'
    <3> SUFFICES ASSUME op.kind \in JournaledKinds
                 PROVE  fate'[op.id] # "durable" /\ ~SavedAt(journal[op.id])'
      OBVIOUS
    <3>1. fate'[op.id] # "durable" BY <1>1, <1>3, <2>1 DEF Undecided
    <3>2. ~SavedAt(journal[op.id]) BY <1>2, <1>3, <2>1 DEF Undecided
    <3>3. journal'[op.id].ws = journal[op.id].ws /\ journal'[op.id].ver = journal[op.id].ver
      <4>1. journal[op.id] \in Entry
        BY <1>1, <1>2, <2>1 DEF Pending, IInv, TypeOK
      <4> QED BY <1>1, <2>1, <4>1 DEF SetStatus, IInv, TypeOK, Entry
    <3> QED BY <2>1, <2>2, <3>1, <3>2, <3>3 DEF SavedAt
  <2> QED BY <1>1, <2>1, <2>2, <2>3, <2>4, <2>5, MoveKeepsJournal DEF Undecided
<1>7. CASE Persist
  <2>1. /\ pc = "persist" /\ pc' \in {"publish", "undo-store", "undo-proxy"}
        /\ UNCHANGED <<idem, nextOp, journal>>
        /\ \/ /\ fate' = [fate EXCEPT ![op.id] = "durable"] /\ pc' = "publish"
              /\ db' = op.cand
           \/ /\ fate' = [fate EXCEPT ![op.id] = "aborted"] /\ pc' # "publish"
              /\ UNCHANGED db
    BY <1>7, PersistedIsCandidate DEF Persist, Abort, counterVars, IInv
  <2>2. op'.id = op.id BY <1>1, <2>1
  <2>3. FateHeld' BY <1>1, <1>3, <2>1, <2>2 DEF FateHeld
  <2>4. op.kind \in JournaledKinds =>
           (fate'[op.id] = "durable" <=> SavedAt(journal[op.id])')
    <3> SUFFICES ASSUME op.kind \in JournaledKinds
                 PROVE  fate'[op.id] = "durable" <=> SavedAt(journal[op.id])'
      OBVIOUS
    <3>1. op.cand[op.ws].ver = op.ver /\ op.cand[op.ws] # None
      BY <1>1 DEF JournalKept, EntryHeld, IInv, Kept, OperationHeld
    <3>2. fate[op.id] = "open" BY <1>3, <2>1 DEF Undecided
    <3> QED BY <1>1, <1>2, <1>3, <2>1, <2>2, <3>1, <3>2 DEF SavedAt
  <2> QED BY <1>1, <2>1, <2>2, <2>3, <2>4, MoveKeepsJournal DEF Undecided
<1>8. CASE (Publish \/ UndoStore \/ UndoProxy) /\ pc' # "idle"
  <2>1. /\ \/ pc = "publish" /\ pc' = "commit"
           \/ pc \in {"undo-store", "undo-proxy"} /\ pc' \in {"undo-proxy", "close"}
        /\ UNCHANGED <<idem, nextOp, journal, fate>>
    BY <1>8 DEF Publish, UndoStore, UndoProxy, AfterUndo, Finish, counterVars
  <2>2. op'.id = op.id BY <1>1, <1>8
  <2>3. FateHeld' BY <2>1, <2>2 DEF JournalKept, FateHeld
  <2>4. UNCHANGED db BY <2>1, SnapshotMoves DEF Next
  <2>5. op.kind \in JournaledKinds =>
           (fate'[op.id] = "durable" <=> SavedAt(journal[op.id])')
    BY <1>2, <2>1, <2>2, <2>4 DEF SavedAt
  <2> QED BY <1>1, <1>8, <2>1, <2>2, <2>3, <2>5, MoveKeepsJournal
<1>9. CASE (Publish \/ UndoProxy) /\ pc' = "idle"
  <2>1. /\ op.kind \notin JournaledKinds
        /\ UNCHANGED <<db, nextOp, journal, idem, fate>>
    BY <1>9 DEF Publish, UndoProxy, AfterUndo, Finish, counterVars
  <2> QED BY <1>1, <1>4, <1>9, <2>1, RestKeepsJournal DEF OpSteps, DownSteps
<1>10. CASE Commit
  <2> DEFINE r == [intent |-> op.cand[op.ws].mode, op |-> op.id]
  <2>1. pc = "commit" /\ op.kind \in JournaledKinds /\ op.cand[op.ws] # None
    BY <1>10 DEF Commit, IInv, Kept, OperationHeld, OpSteps
  <2>2. PICK n \in Ops : n = op.id BY <1>1
  <2>3. /\ Pending(n) /\ journal[n].ws = op.ws /\ journal[n].key = op.key
        /\ fate[n] = "durable"
    BY <1>2, <2>1, <2>2 DEF JournalKept, FateHeld
  <2>4. ~Clash(op.id, op.ws, op.key)
    <3>1. \A p \in Ops : Committed(p) => ~SameKey(n, p)
      BY <2>3 DEF JournalKept, PendingTold
    <3> QED BY <2>2, <2>3, <3>1 DEF Clash, Committed, SameKey
  <2>5. r \in Record /\ r.op = n
    BY <1>1, <2>1, <2>2 DEF Record, Operation, Snapshot, State
  <2>6. /\ SetStatus(n, "committed") /\ pc' = "idle" /\ UNCHANGED <<nextOp, fate>>
        /\ idem' = IF op.key = None THEN idem
                   ELSE [idem EXCEPT ![op.ws][op.key] = r]
    BY <1>10, <2>2, <2>4 DEF Commit, Finish, JournalFails, counterVars
  <2> HIDE DEF r
  <2>7. idem' = (IF "committed" = "committed" /\ journal[n].key # None
                 THEN [idem EXCEPT ![journal[n].ws][journal[n].key] = r]
                 ELSE idem)
    BY <2>3, <2>6
  <2> QED BY <2>1, <2>2, <2>3, <2>5, <2>6, <2>7, CloseKeepsJournal DEF IInv
<1>11. CASE Close
  <2>1. pc = "close" /\ op.kind \in JournaledKinds
        /\ op.close \in {"failed", "rolled_back"}
    BY <1>11 DEF Close, IInv, Kept, OperationHeld, OpSteps
  <2>2. PICK n \in Ops : n = op.id BY <1>1
  <2>3. PICK s \in {"failed", "rolled_back"} : s = op.close BY <2>1
  <2>4. Pending(n) /\ fate[n] = "aborted"
    BY <1>2, <2>1, <2>2 DEF JournalKept, FateHeld
  <2>5. /\ SetStatus(n, s) /\ pc' = "idle" /\ UNCHANGED <<idem, nextOp, fate>>
    BY <1>11, <2>2, <2>3 DEF Close, Finish, JournalFails
  <2>6. PICK r \in Record : r.op = n
    <3> DEFINE r == [intent |-> "local", op |-> n]
    <3>1. r \in Record /\ r.op = n BY DEF Record, Modes
    <3> QED BY <3>1
  <2> QED BY <2>1, <2>3, <2>4, <2>5, <2>6, CloseKeepsJournal DEF IInv
<1>12. ASSUME UndoStore PROVE pc' # "idle" BY <1>12 DEF UndoStore
<1> QED BY <1>5, <1>6, <1>7, <1>8, <1>9, <1>10, <1>11, <1>12 DEF Step

(* A start remembers the committed keys and closes what a crash left.       *)
LEMMA LoadKeepsJournal ==
    ASSUME IInv, JournalKept, Load, "journal" \notin Faults PROVE JournalKept'
<1>1. /\ pc = "down" /\ pc' = "loading" /\ idem' = RestoredRecords
      /\ UNCHANGED <<db, nextOp, journal, fate>>
  BY DEF Load
<1>2. ASSUME NEW w \in Workspaces, NEW k \in Keys, NEW o \in CommittedFor(w, k)
      PROVE  idem'[w][k] # None
  <2> DEFINE p == CHOOSE p \in CommittedFor(w, k) : TRUE
  <2>1. idem'[w][k] = [intent |-> journal[p].intent, op |-> p]
    BY <1>1, <1>2 DEF RestoredRecords
  <2>2. p \in CommittedFor(w, k) BY <1>2
  <2> HIDE DEF p
  <2>3. p \in Ops /\ journal[p] \in Entry
    BY <2>2 DEF CommittedFor, IInv, TypeOK
  <2>4. idem'[w][k] \in Record BY <2>1, <2>3 DEF Record, Entry
  <2> QED BY <2>4, NoneAssumption
<1>3. ASSUME NEW w \in Workspaces, NEW k \in Keys, idem'[w][k] # None
      PROVE  fate[idem'[w][k].op] \in {"durable", "answer"}
  <2> DEFINE p == CHOOSE p \in CommittedFor(w, k) : TRUE
  <2>1. CommittedFor(w, k) # {} /\ idem'[w][k] = [intent |-> journal[p].intent, op |-> p]
    BY <1>1, <1>3 DEF RestoredRecords
  <2>2. p \in CommittedFor(w, k) BY <2>1
  <2> HIDE DEF p
  <2> QED BY <2>1, <2>2 DEF CommittedFor, JournalKept, JournalTellsFate
<1>4. ReplayIsOfADurableAnswer' BY <1>1, <1>3 DEF ReplayIsOfADurableAnswer
<1>5. ASSUME NEW o \in Ops, Committed(o), journal[o].key # None
      PROVE  idem'[journal[o].ws][journal[o].key] # None
  <2>1. journal[o].ws \in Workspaces /\ journal[o].key \in Keys
    BY <1>5 DEF Committed, IInv, TypeOK, Entry
  <2> QED BY <1>2, <1>5, <2>1 DEF CommittedFor, Committed
<1>6. CommittedKnown'
  BY <1>1, <1>5 DEF JournalKept, CommittedKnown, Committed, SameKey
<1>7. PendingTold'
  BY <1>1 DEF JournalKept, PendingTold, Pending, Committed, SameKey, SavedAt,
              DownSteps
<1>8. EntryHeld' /\ KeyFree' /\ FateHeld' /\ JournalTellsFate'
  BY <1>1 DEF JournalKept, EntryHeld, KeyFree, FateHeld, JournalTellsFate, OpSteps
<1> QED BY <1>4, <1>6, <1>7, <1>8 DEF JournalKept

(* The recovery decides by versions, and decides right.                     *)
LEMMA StartKeepsJournal ==
    ASSUME IInv, JournalKept, Start, "journal" \notin Faults, "load" \notin Faults
    PROVE  JournalKept'
<1>1. CASE Load BY <1>1, LoadKeepsJournal
<1>2. CASE LoadProxy
  BY <1>2, RestKeepsJournal DEF LoadProxy, counterVars, DownSteps
<1>3. ASSUME NEW o \in Ops, Recover(o) PROVE JournalKept'
  <2> DEFINE s == IF MatchesCandidate(o) THEN "committed" ELSE "rolled_back"
             r == [intent |-> journal[o].intent, op |-> o]
  <2>1. pc = "reconciling" /\ Pending(o) /\ journal[o] \in Entry
    BY <1>3 DEF Recover, FirstPending, Pending, IInv, TypeOK
  <2>2. mem = db BY <2>1 DEF IInv, Kept, DurableMatchesPublished
  <2>3. MatchesCandidate(o) <=> fate[o] = "durable"
    BY <2>1, <2>2 DEF MatchesCandidate, JournalKept, PendingTold, SavedAt
  <2>4. ~Clash(o, journal[o].ws, journal[o].key)
    BY <2>1 DEF JournalKept, PendingTold, Clash, Committed, SameKey
  <2>5. /\ SetStatus(o, s) /\ pc' = "reconciling" /\ UNCHANGED <<nextOp, fate>>
        /\ idem' = IF MatchesCandidate(o) /\ journal[o].key # None
                   THEN [idem EXCEPT ![journal[o].ws][journal[o].key] = r]
                   ELSE idem
    BY <1>3, <2>1, <2>4 DEF Recover, JournalFails, counterVars
  <2>6. r \in Record /\ r.op = o BY <2>1 DEF Record, Entry
  <2>7. /\ s \in {"committed", "failed", "rolled_back"}
        /\ s = "committed" <=> MatchesCandidate(o)
    OBVIOUS
  <2> HIDE DEF r, s
  <2> QED BY <2>1, <2>3, <2>5, <2>6, <2>7, CloseKeepsJournal DEF IInv
<1>4. CASE Recovered
  BY <1>4, RestKeepsJournal DEF Recovered, counterVars
<1> QED BY <1>1, <1>2, <1>3, <1>4 DEF Start

(* A crash leaves the entry of its operation pending.                       *)
LEMMA CrashKeepsJournal ==
    ASSUME IInv, JournalKept, Crash PROVE JournalKept'
<1>1. /\ pc' = "down" /\ idem' = NoRecords /\ UNCHANGED <<db, nextOp, journal>>
      /\ fate' = [o \in Ops |-> IF fate[o] = "open" THEN "aborted" ELSE fate[o]]
  BY DEF Crash, ProcessEnds
<1>2. \A o \in Ops : /\ fate'[o] = "durable" <=> fate[o] = "durable"
                     /\ fate'[o] = "answer" <=> fate[o] = "answer"
  BY <1>1
<1>3. EntryHeld' /\ KeyFree' /\ FateHeld' BY <1>1 DEF EntryHeld, KeyFree, FateHeld, OpSteps
<1>4. PendingTold'
  BY <1>1, <1>2 DEF JournalKept, PendingTold, Pending, Committed, SameKey, SavedAt,
                    DownSteps
<1>5. CommittedKnown'
  BY <1>1 DEF JournalKept, CommittedKnown, Committed, SameKey
<1>6. JournalTellsFate' BY <1>1, <1>2 DEF JournalKept, JournalTellsFate
<1>7. ReplayIsOfADurableAnswer' BY <1>1 DEF ReplayIsOfADurableAnswer, NoRecords
<1> QED BY <1>3, <1>4, <1>5, <1>6, <1>7 DEF JournalKept

(* The invariant of the journal is inductive.                               *)
LEMMA JournalNext ==
    ASSUME IInv, IInv', JournalKept, [Next]_vars,
           "journal" \notin Faults, "load" \notin Faults
    PROVE  JournalKept'
<1>1. CASE Drift \/ UNCHANGED vars
  BY <1>1, QuietKeepsJournal DEF Drift, vars, journalVars, counterVars
<1> QED BY <1>1, RequestKeepsJournal, StepKeepsJournal, StartKeepsJournal,
           CrashKeepsJournal DEF Next

(* An operation that took effect is committed, or its entry is pending.     *)
LEMMA KeysOnce == ASSUME TypeOK, JournalKept PROVE KeyTakesEffectOnce
<1> SUFFICES ASSUME NEW o \in Ops, NEW p \in Ops,
                    fate[o] = "durable", fate[p] = "durable",
                    journal[o] # None, journal[p] # None, SameKey(o, p)
             PROVE  o = p
  BY DEF KeyTakesEffectOnce, SameKey
<1>1. ASSUME NEW q \in Ops, journal[q] # None, fate[q] = "durable"
      PROVE  Committed(q) \/ Pending(q)
  BY <1>1 DEF JournalKept, JournalTellsFate, TypeOK, Entry, Committed, Pending
<1>2. SameKey(p, o) BY DEF SameKey
<1> QED BY <1>1, <1>2 DEF JournalKept, PendingTold, CommittedKnown

(* While SQLite answers for the journal and the first load succeeds, the    *)
(* invariant of the journal holds.                                          *)
THEOREM JournalSound ==
    ASSUME "journal" \notin Faults, "load" \notin Faults
    PROVE  Spec => []JournalKept
<1>1. Init => JournalKept
  BY DEF Init, JournalKept, EntryHeld, KeyFree, FateHeld, PendingTold,
         CommittedKnown, JournalTellsFate, ReplayIsOfADurableAnswer, Pending,
         Committed, NoRecords, OpSteps
<1>2. IInv /\ IInv' /\ JournalKept /\ [Next]_vars => JournalKept' BY JournalNext
<1> QED BY <1>1, <1>2, Invariant, PTL DEF Spec

(* ... what the journal says of an operation is what became of it           *)
(* (reconcileRouteJournal),                                                 *)
THEOREM JournalTrue ==
    ASSUME "journal" \notin Faults, "load" \notin Faults
    PROVE  Spec => []JournalTellsFate
<1>1. JournalKept => JournalTellsFate BY DEF JournalKept
<1> QED BY <1>1, JournalSound, PTL

(* ... an idempotency key takes effect once, also across crashes            *)
(* (ApplyRoutePlan),                                                        *)
THEOREM KeyOnce ==
    ASSUME "journal" \notin Faults, "load" \notin Faults
    PROVE  Spec => []KeyTakesEffectOnce
<1>1. IInv /\ JournalKept => KeyTakesEffectOnce BY KeysOnce DEF IInv
<1> QED BY <1>1, Invariant, JournalSound, PTL

(* ... and a replayed answer is that of an operation that happened          *)
(* (ApplyRoutePlan, reconcileRouteJournal).                                 *)
THEOREM ReplayTrue ==
    ASSUME "journal" \notin Faults, "load" \notin Faults
    PROVE  Spec => []ReplayIsOfADurableAnswer
<1>1. JournalKept => ReplayIsOfADurableAnswer BY DEF JournalKept
<1> QED BY <1>1, JournalSound, PTL

----------------------------------------------------------------------------
(* What SyncRoute answers, without double failures.                         *)

(* Nginx has loaded the generated file.                                     *)
FileLoaded == file = running

(* File and configuration change together.                                  *)
LEMMA FileLoadedNext ==
    ASSUME FileLoaded, [Next]_vars, "undo" \notin Faults PROVE FileLoaded'
<1>1. ASSUME NEW m, ProxyAccepts(m) \/ ProxySkipped(m) \/ ProxyRejects(m)
      PROVE  FileLoaded'
  BY <1>1 DEF ProxyAccepts, ProxySkipped, ProxyRejects, FileLoaded
<1>2. CASE UNCHANGED <<file, running>> BY <1>2 DEF FileLoaded
<1>3. CASE Request
  <2>1. \A kind, w, k, m : Begin(kind, w, k, m) => UNCHANGED <<file, running>>
    BY DEF Begin, proxyVars
  <2>2. UNCHANGED <<file, running>>
    BY <1>3, <2>1
       DEF Request, PlanRoute, ApplyReplayed, ApplyRefused, ApplyUnchanged, ApplyBegin,
           CandidateRejected, Sync, Toggle, ToggleAll, UpdatePattern, Update,
           Alias, Create, Delete, SyncInSync, SyncDrift, Repair, proxyVars
  <2> QED BY <1>2, <2>2
<1>4. CASE Step
  BY <1>1, <1>2, <1>4
     DEF Step, Prepare, Apply, Mark, Persist, Publish, Commit, UndoStore,
         UndoProxy, Close, ApplyRouting, proxyVars
<1>5. CASE Start
  BY <1>1, <1>2, <1>5 DEF Start, Load, LoadProxy, Recover, Recovered, proxyVars
<1>6. CASE Crash BY <1>2, <1>6 DEF Crash, ProcessEnds
<1>7. CASE Drift BY <1>7 DEF Drift, FileLoaded
<1>8. CASE UNCHANGED vars BY <1>2, <1>8 DEF vars, proxyVars
<1> QED BY <1>3, <1>4, <1>5, <1>6, <1>7, <1>8 DEF Next

(* SyncRoute answers in-sync only while nginx serves the published state,   *)
(* hand edits included.                                                     *)
THEOREM InSyncServed ==
    ASSUME "undo" \notin Faults
    PROVE  Spec => InSyncIsServed
<1>1. Init => FileLoaded BY DEF Init, FileLoaded
<1>2. FileLoaded /\ [Next]_vars => FileLoaded' BY FileLoadedNext
<1>3. FileLoaded /\ [Next]_vars
        => [\A w \in Workspaces : SyncInSync(w) => running = mem]_vars
  BY DEF FileLoaded, SyncInSync, Inspected
<1> QED BY <1>1, <1>2, <1>3, PTL DEF Spec, InSyncIsServed
=============================================================================
