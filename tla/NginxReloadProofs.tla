-------------------------- MODULE NginxReloadProofs --------------------------
(***************************************************************************)
(* Proofs about the reload protocol of the nginx provider.  The contract   *)
(* speaks of what nginx will end up serving (Destined); the master's own   *)
(* steps do not change that, so it is decided by what the provider does to *)
(* the file and when it signals.  Who answers a probe is decided by the    *)
(* workers, of which an apply that begins at rest sees at most two.        *)
(***************************************************************************)
EXTENDS NginxReload, TLAPS

One(b) == IF b THEN 1 ELSE 0

(* A call reloads at most twice, and every reload starts one worker.        *)
ReloadsLeft ==
    IF pc = "idle" THEN 0 ELSE IF pc \in {"install", "test", "reload"} THEN 2 ELSE 1

ReloadsCounted ==
    nextPid + One(hup) + One(master = "read") + ReloadsLeft <= 2 * calls + 2

(* The youngest worker always accepts, and alone outside of the grace time. *)
WorkersInOrder ==
    /\ \E w \in workers : w.pid = nextPid - 1
    /\ \A w \in workers : w.pid < nextPid /\ w.cfg \notin Invalid
    /\ \A w, v \in workers : w.pid = v.pid => w = v
    /\ master # "grace" => \A w, v \in workers : w = v

(* Who was not captured is younger than who was.                            *)
OldAreOlder ==
    /\ pc \in {"verify", "retire"} => \A p \in old : p < nextPid
    /\ pc = "verify" => \A w \in workers : w.pid \in old \/ \A p \in old : p < w.pid
    /\ pc = "retire" => nextPid - 1 \notin old

(* The fast path replaces only what nginx has loaded before.                *)
FastIsSafe ==
    /\ last \notin Invalid
    /\ pc = "test" => ~ fast
    /\ pc \in {"retire", "grace"} => cand \notin Invalid
    /\ pc \in {"reload", "verify", "retire", "grace", "undo"} /\ fast => previous \notin Invalid

Base == TypeOK /\ ReloadsCounted /\ WorkersInOrder /\ OldAreOlder /\ FastIsSafe

(* What an apply that began at rest has come to, step by step.              *)
AtRest == Settled /\ Newest.cfg = before.served

Installing == pc = "install" => file = before.file /\ AtRest /\ undone

Testing ==
    pc \in {"test", "reload"} => file = cand /\ previous = before.file /\ AtRest /\ undone

Verifying ==
    pc \in {"verify", "retire", "grace"} =>
        /\ file = cand /\ previous = before.file /\ undone
        /\ hup => master = "idle"
        /\ master = "read" => loading = cand
        /\ Newest.cfg \in {before.served, cand}
        /\ Destined = IF cand \in Invalid THEN before.served ELSE cand
        /\ \A w, v \in workers : w.pid < v.pid => v.cfg = cand
        /\ old # {} => \A w \in workers : w.pid \in old \/ w.cfg = cand
        /\ pc # "verify" => \A w \in workers : w.pid >= proof => w.cfg = cand

Undoing ==
    pc = "undo" =>
        /\ previous = before.file
        /\ file = IF undone THEN before.file ELSE cand
        /\ master = "read" => loading \in {cand, file}
        /\ Newest.cfg \in {before.served, cand, file}

Served ==
    pc = "idle" /\ result = "ok" =>
        /\ file = cand
        /\ \A w \in workers : w.cfg = cand
        /\ master = "read" => loading = cand

Progress == before.settled => Installing /\ Testing /\ Verifying /\ Undoing /\ Served

IInv == Base /\ Progress /\ ContractKept

-----------------------------------------------------------------------------
(* The workers.                                                             *)

(* Of workers with different identifiers the youngest is the newest.        *)
LEMMA NewestOf ==
    ASSUME NEW W, NEW n \in Nat, NEW u \in W, u.pid = n - 1,
           \A w \in W : w.pid \in Nat /\ w.pid < n,
           \A w, v \in W : w.pid = v.pid => w = v
    PROVE  (CHOOSE w \in W : \A v \in W : v.pid <= w.pid) = u
<1>1. \A v \in W : v.pid <= u.pid
    OBVIOUS
<1>2. \A w \in W : (\A v \in W : v.pid <= w.pid) => w = u
    <2> SUFFICES ASSUME NEW w \in W, \A v \in W : v.pid <= w.pid
                 PROVE  w = u
        OBVIOUS
    <2>1. w.pid = u.pid
        <3>1. u.pid <= w.pid /\ w.pid <= u.pid
            BY <1>1
        <3>2. u.pid \in Nat /\ w.pid \in Nat
            OBVIOUS
        <3> QED BY <3>1, <3>2
    <2> QED BY <2>1
<1> DEFINE P(w) == \A v \in W : v.pid <= w.pid
<1>3. P(u) /\ \A w \in W : P(w) => w = u
    BY <1>1, <1>2
<1> HIDE DEF P
<1>4. (CHOOSE w \in W : P(w)) = u
    BY <1>3
<1> QED BY <1>4 DEF P

LEMMA NewestIs ==
    ASSUME Base
    PROVE  /\ Newest \in workers /\ Newest.pid = nextPid - 1
           /\ \A w \in workers : w.pid = nextPid - 1 => w = Newest
           /\ Newest.cfg \in Files \ Invalid
<1>1. PICK u \in workers : u.pid = nextPid - 1
    BY DEF Base, WorkersInOrder
<1>2. nextPid \in Nat /\ \A w \in workers : w.pid \in Nat /\ w.cfg \in Files
    BY BoundAssumption DEF Base, TypeOK, Worker, MaxPid
<1>3. Newest = u
    BY <1>1, <1>2, NewestOf DEF Newest, Base, WorkersInOrder
<1> QED BY <1>1, <1>2, <1>3 DEF Base, WorkersInOrder

LEMMA DestinedIs ==
    ASSUME Base
    PROVE  /\ Destined \in {file, loading, Newest.cfg}
           /\ Destined \in Files
           /\ Settled => Destined = Newest.cfg
BY NewestIs DEF Destined, Settled, Base, TypeOK

-----------------------------------------------------------------------------
(* Types, workers and what the fast path relies on.                         *)

LEMMA MasterKeepsBase ==
    ASSUME Base, Master
    PROVE  Base'
<1>1. CASE MasterRead
    <2>1. TypeOK'
        BY <1>1 DEF MasterRead, Base, TypeOK, callVars, keptVars
    <2>2. ReloadsCounted'
        BY <1>1 DEF MasterRead, Base, TypeOK, ReloadsCounted, ReloadsLeft, One, keptVars
    <2>3. WorkersInOrder'
        BY <1>1 DEF MasterRead, Base, WorkersInOrder
    <2>4. OldAreOlder' /\ FastIsSafe'
        BY <1>1 DEF MasterRead, Base, OldAreOlder, FastIsSafe, callVars, keptVars
    <2> QED BY <2>1, <2>2, <2>3, <2>4 DEF Base
<1>2. CASE MasterSpawn /\ loading \in Invalid
    <2>1. TypeOK'
        BY <1>2 DEF MasterSpawn, Base, TypeOK, callVars, keptVars, Files
    <2>2. ReloadsCounted'
        BY <1>2, BoundAssumption
           DEF MasterSpawn, Base, TypeOK, ReloadsCounted, ReloadsLeft, One, keptVars, MaxPid
    <2>3. WorkersInOrder'
        BY <1>2 DEF MasterSpawn, Base, WorkersInOrder
    <2>4. OldAreOlder' /\ FastIsSafe'
        BY <1>2 DEF MasterSpawn, Base, OldAreOlder, FastIsSafe, callVars, keptVars
    <2> QED BY <2>1, <2>2, <2>3, <2>4 DEF Base
<1>3. CASE MasterSpawn /\ loading \notin Invalid
    <2> DEFINE u == [pid |-> nextPid, cfg |-> loading]
    <2>1. /\ master = "read" /\ master' = "grace"
          /\ workers' = workers \cup {u} /\ nextPid' = nextPid + 1 /\ loading' = None
          /\ UNCHANGED <<file, hup, pc, cand, previous, fast, old, proof, result, last,
                         inspected, calls, before, undone>>
        BY <1>3 DEF MasterSpawn, callVars, keptVars
    <2>2. /\ nextPid \in Nat /\ calls \in Nat /\ MaxCalls \in Nat /\ calls <= MaxCalls
          /\ MaxPid = 2 * MaxCalls + 1 /\ nextPid >= 2
        BY BoundAssumption DEF Base, TypeOK, MaxPid
    <2>3. nextPid + 1 <= 2 * calls + 2 /\ ReloadsCounted'
        BY <2>1, <2>2 DEF Base, ReloadsCounted, ReloadsLeft, One
    <2>4. nextPid' \in 2 .. MaxPid + 1 /\ u \in Worker
        BY <2>1, <2>2, <2>3 DEF Worker, Base, TypeOK
    <2>5. TypeOK'
        BY <2>1, <2>4 DEF Base, TypeOK, Files
    <2>6. u.pid = nextPid /\ u.cfg = loading
        OBVIOUS
    <2>7. \A w \in workers : w.pid \in Nat /\ w.pid < nextPid
        BY DEF Base, TypeOK, WorkersInOrder, Worker
    <2> HIDE DEF u
    <2>8. WorkersInOrder'
        BY <1>3, <2>1, <2>2, <2>6, <2>7 DEF Base, WorkersInOrder
    <2>9. OldAreOlder'
        <3>1. old \subseteq Nat
            BY <2>2 DEF Base, TypeOK
        <3> QED BY <2>1, <2>2, <2>6, <3>1 DEF Base, OldAreOlder
    <2>10. FastIsSafe'
        BY <2>1 DEF Base, FastIsSafe
    <2> QED BY <2>3, <2>5, <2>8, <2>9, <2>10 DEF Base
<1>4. CASE MasterRetire
    <2>1. Newest \in workers /\ Newest.pid = nextPid - 1
        BY NewestIs
    <2>2. /\ master' = "idle" /\ workers' = {Newest}
          /\ UNCHANGED <<file, hup, loading, nextPid, pc, cand, previous, fast, old, proof,
                         result, last, inspected, calls, before, undone>>
        BY <1>4 DEF MasterRetire, callVars, keptVars
    <2>3. TypeOK'
        BY <2>1, <2>2 DEF Base, TypeOK
    <2>4. ReloadsCounted'
        BY <1>4, <2>2 DEF MasterRetire, Base, ReloadsCounted, ReloadsLeft, One
    <2>5. WorkersInOrder'
        BY <2>1, <2>2 DEF Base, WorkersInOrder
    <2>6. OldAreOlder' /\ FastIsSafe'
        BY <2>1, <2>2 DEF Base, OldAreOlder, FastIsSafe
    <2> QED BY <2>3, <2>4, <2>5, <2>6 DEF Base
<1> QED BY <1>1, <1>2, <1>3, <1>4 DEF Master

LEMMA RestoreTypes ==
    ASSUME Base, Restore
    PROVE  file' \in Files /\ undone' \in BOOLEAN
BY DEF Restore, Base, TypeOK

LEMMA CallKeepsBase ==
    ASSUME Base, NEW m \in Configs, Call(m)
    PROVE  Base'
<1>1. Destined \in Files /\ Settled \in BOOLEAN
    BY DestinedIs DEF Settled, Base, TypeOK
<1>2. TypeOK'
    BY <1>1, BoundAssumption DEF Call, Base, TypeOK, nginxVars, Files
<1>3. ReloadsCounted'
    BY BoundAssumption
       DEF Call, Base, TypeOK, ReloadsCounted, ReloadsLeft, One, nginxVars, MaxPid
<1>4. WorkersInOrder' /\ OldAreOlder' /\ FastIsSafe'
    BY DEF Call, Base, WorkersInOrder, OldAreOlder, FastIsSafe, nginxVars
<1> QED BY <1>2, <1>3, <1>4 DEF Base

LEMMA InstallKeepsBase ==
    ASSUME Base, Install
    PROVE  Base'
<1>1. TypeOK'
    BY DEF Install, Return, Base, TypeOK, nginxVars, keptVars, CanSignal
<1>2. ReloadsCounted'
    BY BoundAssumption
       DEF Install, Return, Base, TypeOK, ReloadsCounted, ReloadsLeft, One, nginxVars,
           keptVars, MaxPid
<1>3. WorkersInOrder'
    BY DEF Install, Base, WorkersInOrder, nginxVars
<1>4. OldAreOlder' /\ FastIsSafe'
    BY DEF Install, Return, Base, OldAreOlder, FastIsSafe, nginxVars, keptVars, CanSignal
<1> QED BY <1>1, <1>2, <1>3, <1>4 DEF Base

LEMMA TestKeepsBase ==
    ASSUME Base, Test
    PROVE  Base'
<1>1. TypeOK'
    BY RestoreTypes DEF Test, Return, Base, TypeOK, nginxVars, callVars
<1>2. ReloadsCounted'
    BY BoundAssumption
       DEF Test, Return, Base, TypeOK, ReloadsCounted, ReloadsLeft, One, nginxVars, MaxPid
<1>3. WorkersInOrder'
    BY DEF Test, Base, WorkersInOrder, nginxVars
<1>4. OldAreOlder' /\ FastIsSafe'
    <2>1. pc' \in {"idle", "reload"} /\ pc = "test"
        BY DEF Test, Return
    <2>2. pc' = "reload" => ~ fast'
        BY DEF Test, Base, FastIsSafe, callVars
    <2> QED BY <2>1, <2>2 DEF Test, Base, OldAreOlder, FastIsSafe, nginxVars, callVars
<1> QED BY <1>1, <1>2, <1>3, <1>4 DEF Base

LEMMA ReloadKeepsBase ==
    ASSUME Base, Reload
    PROVE  Base'
<1>1. /\ pc = "reload" /\ old' \in {Pids, {}} /\ pc' \in {"verify", "undo"}
      /\ UNCHANGED <<master, loading, workers, nextPid, cand, previous, fast, proof, result,
                     last, inspected, calls, before>>
      /\ file' \in Files /\ undone' \in BOOLEAN /\ hup' \in BOOLEAN
    BY RestoreTypes DEF Reload, keptVars, Signalled, Base, TypeOK
<1>2. old' \subseteq 1 .. MaxPid /\ \A p \in old' : p < nextPid
    BY <1>1 DEF Base, TypeOK, WorkersInOrder, Pids, Worker
<1>3. TypeOK'
    BY <1>1, <1>2 DEF Base, TypeOK
<1>4. ReloadsCounted'
    BY <1>1, BoundAssumption
       DEF Base, TypeOK, ReloadsCounted, ReloadsLeft, One, MaxPid
<1>5. WorkersInOrder'
    BY <1>1 DEF Base, WorkersInOrder
<1>6. OldAreOlder'
    BY <1>1, <1>2 DEF OldAreOlder, Pids
<1>7. FastIsSafe'
    BY <1>1 DEF Base, FastIsSafe
<1> QED BY <1>3, <1>4, <1>5, <1>6, <1>7 DEF Base

LEMMA ProveKeepsBase ==
    ASSUME Base, Prove
    PROVE  Base'
<1>1. PICK w \in workers : Proves(w) /\ proof' = w.pid
    BY DEF Prove
<1>2. /\ pc = "verify" /\ pc' = "retire"
      /\ UNCHANGED <<file, hup, master, loading, workers, nextPid, cand, previous, fast, old,
                     result, last, inspected, calls, before, undone>>
    BY DEF Prove, nginxVars, keptVars
<1>3. w.cfg = cand /\ w.pid \notin old /\ w \in Worker /\ w.pid < nextPid /\ w.cfg \notin Invalid
    BY <1>1 DEF Proves, Base, TypeOK, WorkersInOrder
<1>4. TypeOK'
    BY <1>1, <1>2, <1>3 DEF Base, TypeOK, Worker
<1>5. ReloadsCounted'
    BY <1>2 DEF Base, ReloadsCounted, ReloadsLeft, One
<1>6. WorkersInOrder' /\ FastIsSafe'
    BY <1>2, <1>3 DEF Base, WorkersInOrder, FastIsSafe
<1>7. OldAreOlder'
    <2>1. \A p \in old : p < w.pid /\ p \in Nat
        BY <1>2, <1>3 DEF Base, TypeOK, OldAreOlder
    <2>2. w.pid \in Nat /\ nextPid \in Nat
        BY <1>3 DEF Base, TypeOK, Worker
    <2>3. nextPid - 1 \notin old
        BY <1>3, <2>1, <2>2
    <2> QED BY <1>2, <2>3 DEF Base, OldAreOlder
<1> QED BY <1>4, <1>5, <1>6, <1>7 DEF Base

(* The youngest worker is not among the old ones that retire.               *)
LEMMA RetireLeaves ==
    ASSUME Base, Retire
    PROVE  /\ workers' \subseteq workers /\ Newest \in workers'
           /\ workers' = {w \in workers : w.pid \notin old} \/ pc' = "grace"
           /\ Newest' = Newest
<1>1. PICK some \in SUBSET old : workers' = {w \in workers : w.pid \notin some}
    BY DEF Retire
<1>2. nextPid - 1 \notin old
    BY DEF Retire, Base, OldAreOlder
<1>3. workers' \subseteq workers /\ Newest \in workers'
    BY <1>1, <1>2, NewestIs
<1>4. nextPid \in Nat /\ \A w \in workers : w.pid \in Nat
    BY BoundAssumption DEF Base, TypeOK, Worker, MaxPid
<1>5. Newest' = Newest
    <2> DEFINE u == Newest
    <2>1. u \in workers' /\ u.pid = nextPid - 1
        BY <1>3, NewestIs
    <2> HIDE DEF u
    <2>2. (CHOOSE w \in workers' : \A v \in workers' : v.pid <= w.pid) = u
        BY <1>3, <1>4, <2>1, NewestOf DEF Base, WorkersInOrder
    <2> QED BY <2>2 DEF Newest, u
<1> QED BY <1>3, <1>5 DEF Retire

LEMMA RetireKeepsBase ==
    ASSUME Base, Retire
    PROVE  Base'
<1>1. /\ pc = "retire" /\ pc' \in {"idle", "grace"} /\ result' \in {"none", "ok", "error"}
      /\ last' \in {last, cand}
      /\ UNCHANGED <<file, hup, master, loading, nextPid, cand, previous, fast, old, proof,
                     inspected, calls, before, undone>>
    BY DEF Retire, Succeed, Return, callVars, Base, TypeOK
<1>2. workers' \subseteq workers /\ Newest \in workers' /\ Newest.pid = nextPid - 1
    BY RetireLeaves, NewestIs
<1>3. TypeOK'
    BY <1>1, <1>2 DEF Base, TypeOK
<1>4. ReloadsCounted'
    BY <1>1, BoundAssumption DEF Base, TypeOK, ReloadsCounted, ReloadsLeft, One, MaxPid
<1>5. WorkersInOrder'
    BY <1>1, <1>2 DEF Base, WorkersInOrder
<1>6. OldAreOlder' /\ FastIsSafe'
    BY <1>1 DEF Base, OldAreOlder, FastIsSafe
<1> QED BY <1>3, <1>4, <1>5, <1>6 DEF Base

LEMMA ReturnsKeepBase ==
    ASSUME Base, Confirm \/ TimeOut \/ Undo \/ Crash
    PROVE  Base'
<1>1. CASE Confirm
    <2>1. TypeOK'
        BY <1>1 DEF Confirm, Succeed, Return, Base, TypeOK, nginxVars, callVars
    <2>2. ReloadsCounted'
        BY <1>1, BoundAssumption
           DEF Confirm, Succeed, Return, Base, TypeOK, ReloadsCounted, ReloadsLeft, One,
               nginxVars, MaxPid
    <2>3. WorkersInOrder' /\ OldAreOlder' /\ FastIsSafe'
        BY <1>1 DEF Confirm, Succeed, Return, Base, WorkersInOrder, OldAreOlder, FastIsSafe,
                    nginxVars, callVars
    <2> QED BY <2>1, <2>2, <2>3 DEF Base
<1>2. CASE TimeOut
    <2>1. TypeOK'
        BY <1>2, RestoreTypes DEF TimeOut, Base, TypeOK, nginxVars, callVars, keptVars
    <2>2. ReloadsCounted'
        BY <1>2 DEF TimeOut, Base, ReloadsCounted, ReloadsLeft, One, nginxVars, keptVars
    <2>3. WorkersInOrder' /\ OldAreOlder' /\ FastIsSafe'
        BY <1>2 DEF TimeOut, Base, WorkersInOrder, OldAreOlder, FastIsSafe, nginxVars,
                    callVars, keptVars
    <2> QED BY <2>1, <2>2, <2>3 DEF Base
<1>3. CASE Undo
    <2>1. TypeOK'
        BY <1>3 DEF Undo, Signalled, Return, Base, TypeOK, callVars, keptVars
    <2>2. ReloadsCounted'
        BY <1>3, BoundAssumption
           DEF Undo, Signalled, Return, Base, TypeOK, ReloadsCounted, ReloadsLeft, One,
               keptVars, MaxPid
    <2>3. WorkersInOrder' /\ OldAreOlder' /\ FastIsSafe'
        BY <1>3 DEF Undo, Return, Base, WorkersInOrder, OldAreOlder, FastIsSafe, callVars,
                    keptVars
    <2> QED BY <2>1, <2>2, <2>3 DEF Base
<1>4. CASE Crash
    <2>1. TypeOK'
        <3>1. /\ pc' = "idle" /\ result' = "none" /\ last' = None /\ inspected' = FALSE
              /\ UNCHANGED <<file, hup, master, loading, workers, nextPid, cand, previous,
                             fast, old, proof, calls, before, undone>>
            BY <1>4 DEF Crash, nginxVars, callVars
        <3> QED BY <3>1 DEF Base, TypeOK, Files
    <2>2. ReloadsCounted'
        BY <1>4, BoundAssumption
           DEF Crash, Base, TypeOK, ReloadsCounted, ReloadsLeft, One, nginxVars, MaxPid
    <2>3. WorkersInOrder' /\ OldAreOlder' /\ FastIsSafe'
        BY <1>4, ConfigAssumption DEF Crash, Base, WorkersInOrder, OldAreOlder, FastIsSafe,
                    nginxVars
    <2> QED BY <2>1, <2>2, <2>3 DEF Base
<1> QED BY <1>1, <1>2, <1>3, <1>4

LEMMA StepKeepsBase ==
    ASSUME Base, [Next]_vars
    PROVE  Base'
<1>1. CASE Next
    BY <1>1, MasterKeepsBase, CallKeepsBase, InstallKeepsBase, TestKeepsBase, ReloadKeepsBase,
       ProveKeepsBase, RetireKeepsBase, ReturnsKeepBase DEF Next, Provider
<1>2. CASE UNCHANGED vars
    BY <1>2 DEF vars, nginxVars, callVars, keptVars, Base, TypeOK, ReloadsCounted, ReloadsLeft,
                WorkersInOrder, OldAreOlder, FastIsSafe
<1> QED BY <1>1, <1>2

-----------------------------------------------------------------------------
(* The master's steps, as an apply sees them.                               *)

LEMMA SpawnNewest ==
    ASSUME Base, MasterSpawn, loading \notin Invalid
    PROVE  Newest' = [pid |-> nextPid, cfg |-> loading]
<1> DEFINE u == [pid |-> nextPid, cfg |-> loading]
<1>1. workers' = workers \cup {u} /\ nextPid' = nextPid + 1
    BY DEF MasterSpawn
<1>2. u.pid = nextPid /\ nextPid \in Nat
    BY DEF Base, TypeOK
<1>3. \A w \in workers : w.pid \in Nat /\ w.pid < nextPid
    BY BoundAssumption DEF Base, TypeOK, WorkersInOrder, Worker, MaxPid
<1> HIDE DEF u
<1>4. /\ u \in workers' /\ u.pid = nextPid' - 1 /\ nextPid' \in Nat
      /\ \A w \in workers' : w.pid \in Nat /\ w.pid < nextPid'
      /\ \A w, v \in workers' : w.pid = v.pid => w = v
    BY <1>1, <1>2, <1>3 DEF Base, WorkersInOrder
<1>5. (CHOOSE w \in workers' : \A v \in workers' : v.pid <= w.pid) = u
    BY <1>4, NewestOf
<1> QED BY <1>5 DEF Newest, u

LEMMA RetireNewest ==
    ASSUME Base, MasterRetire
    PROVE  Newest' = Newest
<1> DEFINE u == Newest
<1>1. u \in workers /\ workers' = {u}
    BY NewestIs DEF MasterRetire
<1>2. u.pid \in Nat
    BY <1>1, BoundAssumption DEF Base, TypeOK, Worker, MaxPid
<1> HIDE DEF u
<1>3. (CHOOSE w \in workers' : \A v \in workers' : v.pid <= w.pid) = u
    BY <1>1, <1>2
<1> QED BY <1>3 DEF Newest, u

(* The master does not change what nginx will end up serving.               *)
LEMMA MasterKeepsDestined ==
    ASSUME Base, Master
    PROVE  Destined' = Destined
<1>1. CASE MasterRead
    <2>1. Newest' = Newest
        BY <1>1 DEF MasterRead, Newest
    <2> QED BY <1>1, <2>1 DEF MasterRead, Destined
<1>2. CASE MasterSpawn /\ loading \in Invalid
    <2>1. Newest' = Newest
        BY <1>2 DEF MasterSpawn, Newest
    <2> QED BY <1>2, <2>1 DEF MasterSpawn, Destined
<1>3. CASE MasterSpawn /\ loading \notin Invalid
    <2>1. Newest'.cfg = loading
        BY <1>3, SpawnNewest
    <2> QED BY <1>3, <2>1 DEF MasterSpawn, Destined
<1>4. CASE MasterRetire
    BY <1>4, RetireNewest DEF MasterRetire, Destined
<1> QED BY <1>1, <1>2, <1>3, <1>4 DEF Master

(* At rest it does nothing.                                                 *)
LEMMA MasterRests ==
    ASSUME Master
    PROVE  ~ Settled
BY DEF Master, MasterRead, MasterSpawn, MasterRetire, Settled

LEMMA MasterKeepsVerifying ==
    ASSUME Base, Master, Verifying
    PROVE  Verifying'
<1>1. UNCHANGED <<file, pc, cand, previous, fast, old, proof, result, last, inspected, calls,
                  before, undone>>
    BY DEF Master, MasterRead, MasterSpawn, MasterRetire, callVars, keptVars
<1> SUFFICES ASSUME pc \in {"verify", "retire", "grace"}
             PROVE  Verifying'
    BY <1>1 DEF Verifying
<1>2. Destined' = IF cand' \in Invalid THEN before'.served ELSE cand'
    BY <1>1, MasterKeepsDestined DEF Verifying
<1>3. CASE MasterRead
    BY <1>1, <1>2, <1>3 DEF MasterRead, Verifying, Newest
<1>4. CASE MasterSpawn /\ loading \in Invalid
    BY <1>1, <1>2, <1>4 DEF MasterSpawn, Verifying, Newest
<1>5. CASE MasterSpawn /\ loading \notin Invalid
    <2> DEFINE u == [pid |-> nextPid, cfg |-> loading]
    <2>1. u.cfg = cand /\ u.pid = nextPid /\ nextPid \in Nat
        BY <1>5 DEF MasterSpawn, Verifying, Base, TypeOK
    <2>2. Newest' = u /\ workers' = workers \cup {u} /\ master' = "grace" /\ hup' = hup
          /\ hup = FALSE
        BY <1>5, SpawnNewest DEF MasterSpawn, Verifying, Base, TypeOK
    <2>3. \A w \in workers : w.pid \in Nat /\ w.pid < nextPid
        BY BoundAssumption DEF Base, TypeOK, WorkersInOrder, Worker, MaxPid
    <2> HIDE DEF u
    <2>4. \A w, v \in workers' : w.pid < v.pid => v.cfg = cand
        <3> SUFFICES ASSUME NEW w \in workers', NEW v \in workers', w.pid < v.pid
                     PROVE  v.cfg = cand
            OBVIOUS
        <3>1. CASE v = u
            BY <2>1, <3>1
        <3>2. CASE v # u /\ w = u
            BY <2>1, <2>2, <2>3, <3>2
        <3>3. CASE v # u /\ w # u
            BY <2>2, <3>3 DEF Verifying
        <3> QED BY <3>1, <3>2, <3>3
    <2>5. old # {} => \A w \in workers' : w.pid \in old \/ w.cfg = cand
        BY <2>1, <2>2 DEF Verifying
    <2>6. pc # "verify" => \A w \in workers' : w.pid >= proof => w.cfg = cand
        BY <2>1, <2>2 DEF Verifying
    <2> QED BY <1>1, <1>2, <2>1, <2>2, <2>4, <2>5, <2>6 DEF Verifying
<1>6. CASE MasterRetire
    <2>1. Newest' = Newest /\ workers' \subseteq workers /\ master' = "idle"
        BY <1>6, RetireNewest, NewestIs DEF MasterRetire
    <2> QED BY <1>1, <1>2, <2>1 DEF Verifying
<1> QED BY <1>3, <1>4, <1>5, <1>6 DEF Master

LEMMA MasterKeepsUndoing ==
    ASSUME Base, Master, Undoing
    PROVE  Undoing'
<1>1. UNCHANGED <<file, pc, cand, previous, before, undone>>
    BY DEF Master, MasterRead, MasterSpawn, MasterRetire, callVars, keptVars
<1>2. CASE MasterRead
    BY <1>1, <1>2 DEF MasterRead, Undoing, Newest
<1>3. CASE MasterSpawn /\ loading \in Invalid
    BY <1>1, <1>3 DEF MasterSpawn, Undoing, Newest
<1>4. CASE MasterSpawn /\ loading \notin Invalid
    <2>1. Newest'.cfg = loading
        BY <1>4, SpawnNewest
    <2> QED BY <1>1, <1>4, <2>1 DEF MasterSpawn, Undoing
<1>5. CASE MasterRetire
    BY <1>1, <1>5, RetireNewest DEF MasterRetire, Undoing
<1> QED BY <1>2, <1>3, <1>4, <1>5 DEF Master

LEMMA MasterKeepsServed ==
    ASSUME Base, Master, Served
    PROVE  Served'
<1>1. UNCHANGED <<file, pc, cand, result>>
    BY DEF Master, MasterRead, MasterSpawn, MasterRetire, callVars
<1>2. CASE MasterRead
    BY <1>1, <1>2 DEF MasterRead, Served
<1>3. CASE MasterSpawn
    BY <1>1, <1>3 DEF MasterSpawn, Served
<1>4. CASE MasterRetire
    BY <1>1, <1>4, NewestIs DEF MasterRetire, Served
<1> QED BY <1>2, <1>3, <1>4 DEF Master

LEMMA MasterKeeps ==
    ASSUME IInv, Master
    PROVE  IInv'
<1>1. UNCHANGED <<file, pc, cand, before, result, undone>>
    BY DEF Master, MasterRead, MasterSpawn, MasterRetire, callVars, keptVars
<1>2. ContractKept'
    BY <1>1, MasterKeepsDestined DEF IInv, ContractKept
<1>3. before.settled => Installing' /\ Testing'
    BY <1>1, MasterRests DEF IInv, Progress, Installing, Testing, AtRest
<1>4. Progress'
    BY <1>1, <1>3, MasterKeepsVerifying, MasterKeepsUndoing, MasterKeepsServed
       DEF IInv, Progress
<1> QED BY <1>2, <1>4, MasterKeepsBase DEF IInv

-----------------------------------------------------------------------------
(* The provider's steps.                                                    *)

LEMMA CallKeeps ==
    ASSUME IInv, NEW m \in Configs, Call(m)
    PROVE  IInv'
<1>1. /\ pc' = "install" /\ result' = "none" /\ undone' = TRUE
      /\ before' = [file |-> file, served |-> Destined, settled |-> Settled]
      /\ UNCHANGED <<file, hup, master, loading, workers, nextPid>>
    BY DEF Call, nginxVars
<1>2. Newest' = Newest /\ Settled' = Settled
    BY <1>1 DEF Newest, Settled
<1>3. Settled => Newest.cfg = Destined
    BY DestinedIs DEF IInv
<1>4. Progress' /\ ContractKept'
    BY <1>1, <1>2, <1>3
       DEF Progress, Installing, Testing, Verifying, Undoing, Served, AtRest, ContractKept
<1> QED BY <1>4, CallKeepsBase DEF IInv

LEMMA InstallKeeps ==
    ASSUME IInv, Install
    PROVE  IInv'
<1>1. /\ pc = "install"
      /\ UNCHANGED <<hup, master, loading, workers, nextPid, cand, before, undone>>
      /\ \/ /\ previous' = file /\ file' = cand /\ pc' \in {"test", "reload"}
            /\ result' = result
         \/ pc' = "idle" /\ result' = "error" /\ file' = file
    BY DEF Install, Return, nginxVars, keptVars
<1>2. Newest' = Newest /\ Settled' = Settled
    BY <1>1 DEF Newest, Settled
<1>3. Progress'
    BY <1>1, <1>2
       DEF IInv, Progress, Installing, Testing, Verifying, Undoing, Served, AtRest
<1>4. ContractKept'
    <2> SUFFICES ASSUME pc' = "idle", before.settled
                 PROVE  ContractKept'
        BY <1>1 DEF ContractKept
    <2>1. file = before.file /\ Settled /\ Newest.cfg = before.served /\ undone
        BY <1>1 DEF IInv, Progress, Installing, AtRest
    <2>2. Destined' = before.served
        BY <1>1, <1>2, <2>1 DEF Destined, Settled
    <2> QED BY <1>1, <2>1, <2>2 DEF ContractKept
<1> QED BY <1>3, <1>4, InstallKeepsBase DEF IInv

LEMMA TestKeeps ==
    ASSUME IInv, Test
    PROVE  IInv'
<1>1. /\ pc = "test"
      /\ UNCHANGED <<hup, master, loading, workers, nextPid, cand, previous, before>>
      /\ \/ pc' = "reload" /\ UNCHANGED <<file, undone>>
         \/ pc' = "idle" /\ result' = "error" /\ Restore
    BY DEF Test, Return, nginxVars, callVars
<1>2. Newest' = Newest /\ Settled' = Settled
    BY <1>1 DEF Newest, Settled
<1>3. Progress'
    BY <1>1, <1>2
       DEF IInv, Progress, Installing, Testing, Verifying, Undoing, Served, AtRest
<1>4. ContractKept'
    <2> SUFFICES ASSUME pc' = "idle", before.settled
                 PROVE  ContractKept'
        BY <1>1 DEF ContractKept
    <2>1. /\ file = cand /\ previous = before.file /\ undone
          /\ Settled /\ Newest.cfg = before.served
        BY <1>1 DEF IInv, Progress, Testing, AtRest
    <2>2. Destined' = before.served
        BY <1>1, <1>2, <2>1 DEF Destined, Settled
    <2>3. result' = "error" /\ (file' = before.file \/ (~ undone' /\ file' = cand))
        BY <1>1, <2>1 DEF Restore
    <2>4. undone' => file' = before.file
        BY <2>3
    <2> QED BY <1>1, <2>2, <2>3, <2>4 DEF ContractKept
<1> QED BY <1>3, <1>4, TestKeepsBase DEF IInv

LEMMA ReloadKeeps ==
    ASSUME IInv, Reload
    PROVE  IInv'
<1>1. /\ pc = "reload" /\ old' \in {Pids, {}}
      /\ UNCHANGED <<master, loading, workers, nextPid, cand, previous, fast, result, before>>
      /\ \/ pc' = "verify" /\ hup' = TRUE /\ UNCHANGED <<file, undone>>
         \/ pc' = "undo" /\ hup' = hup /\ Restore
    BY DEF Reload, Signalled, keptVars
<1>2. Newest' = Newest
    BY <1>1 DEF Newest
<1> SUFFICES ASSUME before.settled
             PROVE  Progress'
    BY <1>1, ReloadKeepsBase DEF IInv, Progress, ContractKept
<1>3. /\ file = cand /\ previous = before.file /\ undone
      /\ hup = FALSE /\ master = "idle" /\ Newest.cfg = before.served
    BY <1>1 DEF IInv, Progress, Testing, AtRest, Settled, Base, TypeOK
<1>4. CASE pc' = "verify"
    <2>1. Destined' = IF cand \in Invalid THEN before.served ELSE cand
        BY <1>1, <1>2, <1>3, <1>4 DEF Destined
    <2>2. \A w, v \in workers : ~ (w.pid < v.pid)
        <3> SUFFICES ASSUME NEW w \in workers, NEW v \in workers
                     PROVE  ~ (w.pid < v.pid)
            OBVIOUS
        <3>1. w = v /\ w.pid \in Nat
            BY <1>3, BoundAssumption DEF IInv, Base, WorkersInOrder, TypeOK, Worker, MaxPid
        <3> QED BY <3>1
    <2>3. old' # {} => \A w \in workers : w.pid \in old'
        BY <1>1 DEF Pids
    <2>4. Verifying'
        BY <1>1, <1>2, <1>3, <1>4, <2>1, <2>2, <2>3 DEF Verifying
    <2> QED BY <1>4, <2>4 DEF Progress, Installing, Testing, Undoing, Served
<1>5. CASE pc' = "undo"
    <2>1. Undoing'
        BY <1>1, <1>2, <1>3, <1>5 DEF Undoing, Restore
    <2> QED BY <1>5, <2>1 DEF Progress, Installing, Testing, Verifying, Served
<1> QED BY <1>1, <1>4, <1>5

(* A worker that has proved the candidate and those younger serve nothing   *)
(* else.                                                                    *)
LEMMA ProveKeeps ==
    ASSUME IInv, Prove
    PROVE  IInv'
<1>1. PICK u \in workers : Proves(u) /\ proof' = u.pid
    BY DEF Prove
<1>2. /\ pc = "verify" /\ pc' = "retire"
      /\ UNCHANGED <<file, hup, master, loading, workers, nextPid, cand, previous, old,
                     result, before, undone>>
    BY DEF Prove, nginxVars, keptVars
<1> SUFFICES ASSUME before.settled
             PROVE  Progress'
    BY <1>2, ProveKeepsBase DEF IInv, Progress, ContractKept
<1>3. Verifying /\ u.cfg = cand
    BY <1>1 DEF IInv, Progress, Proves
<1>4. \A w \in workers : w.pid >= u.pid => w.cfg = cand
    <2> SUFFICES ASSUME NEW w \in workers, w.pid >= u.pid
                 PROVE  w.cfg = cand
        OBVIOUS
    <2>1. w.pid \in Nat /\ u.pid \in Nat
        BY BoundAssumption DEF IInv, Base, TypeOK, Worker, MaxPid
    <2>2. w.pid = u.pid \/ u.pid < w.pid
        BY <2>1
    <2> QED BY <1>2, <1>3, <2>2 DEF Verifying, IInv, Base, WorkersInOrder
<1>5. Newest' = Newest /\ Destined' = Destined
    BY <1>2 DEF Newest, Destined
<1>6. Verifying'
    BY <1>1, <1>2, <1>3, <1>4, <1>5 DEF Verifying
<1> QED BY <1>2, <1>6 DEF Progress, Installing, Testing, Undoing, Served

(* An apply that succeeds with every worker on the candidate is as it says. *)
LEMMA SucceedKeeps ==
    ASSUME IInv, Base', before.settled, pc \in {"retire", "grace"},
           pc' = "idle", result' = "ok",
           UNCHANGED <<file, hup, master, loading, nextPid, cand, before>>,
           workers' \subseteq workers, Newest' = Newest,
           \A w \in workers' : w.cfg = cand
    PROVE  IInv'
<1>1. /\ file = cand /\ cand \notin Invalid /\ Destined = cand
      /\ master = "read" => loading = cand
    BY DEF IInv, Progress, Verifying, Base, FastIsSafe
<1>2. Served'
    BY <1>1 DEF Served
<1>3. Destined' = cand
    BY <1>1 DEF Destined
<1>4. ContractKept'
    BY <1>1, <1>3 DEF ContractKept
<1> QED BY <1>2, <1>4 DEF IInv, Progress, Installing, Testing, Verifying, Undoing

LEMMA RetireKeeps ==
    ASSUME IInv, Retire
    PROVE  IInv'
<1>1. /\ pc = "retire"
      /\ UNCHANGED <<file, hup, master, loading, nextPid, cand, previous, old, proof, before,
                     undone>>
      /\ \/ /\ pc' = "idle" /\ result' = "ok" /\ old # {}
            /\ workers' = {w \in workers : w.pid \notin old}
         \/ pc' = "grace" /\ result' = result
    BY DEF Retire, Succeed, Return, callVars
<1>2. workers' \subseteq workers /\ Newest' = Newest
    BY RetireLeaves DEF IInv
<1>3. Base'
    BY RetireKeepsBase DEF IInv
<1> SUFFICES ASSUME before.settled
             PROVE  IInv'
    BY <1>1, <1>3 DEF IInv, Progress, ContractKept
<1>4. Verifying
    BY DEF IInv, Progress
<1>5. CASE pc' = "idle"
    <2>1. \A w \in workers' : w.cfg = cand
        BY <1>1, <1>4, <1>5 DEF Verifying
    <2> QED BY <1>1, <1>2, <1>3, <1>5, <2>1, SucceedKeeps
<1>6. CASE pc' = "grace"
    <2>1. Destined' = Destined
        BY <1>1, <1>2 DEF Destined
    <2>2. Verifying'
        BY <1>1, <1>2, <1>4, <1>6, <2>1 DEF Verifying
    <2> QED BY <1>3, <1>6, <2>2
            DEF IInv, Progress, Installing, Testing, Undoing, Served, ContractKept
<1> QED BY <1>1, <1>5, <1>6

LEMMA ConfirmKeeps ==
    ASSUME IInv, Confirm
    PROVE  IInv'
<1>1. /\ pc = "grace" /\ GraceOver /\ pc' = "idle" /\ result' = "ok"
      /\ UNCHANGED <<file, hup, master, loading, workers, nextPid, cand, before>>
    BY DEF Confirm, Succeed, Return, nginxVars, callVars
<1>2. Base'
    BY ReturnsKeepBase DEF IInv
<1> SUFFICES ASSUME before.settled
             PROVE  IInv'
    BY <1>1, <1>2 DEF IInv, Progress, ContractKept
<1>3. \A w \in workers' : w.cfg = cand
    BY <1>1 DEF IInv, Progress, Verifying, GraceOver
<1>4. Newest' = Newest
    BY <1>1 DEF Newest
<1> QED BY <1>1, <1>2, <1>3, <1>4, SucceedKeeps

LEMMA TimeOutKeeps ==
    ASSUME IInv, TimeOut
    PROVE  IInv'
<1>1. /\ pc \in {"verify", "grace"} /\ pc' = "undo" /\ Restore
      /\ UNCHANGED <<hup, master, loading, workers, nextPid, cand, previous, before>>
    BY DEF TimeOut, nginxVars, callVars, keptVars
<1>2. Base'
    BY ReturnsKeepBase DEF IInv
<1> SUFFICES ASSUME before.settled
             PROVE  IInv'
    BY <1>1, <1>2 DEF IInv, Progress, ContractKept
<1>3. Verifying /\ Newest' = Newest
    BY <1>1 DEF IInv, Progress, Newest
<1>4. file' = (IF undone' THEN before.file ELSE cand) \/ (~ undone' /\ file' = cand)
    BY <1>1, <1>3 DEF Restore, Verifying
<1>5. Undoing'
    BY <1>1, <1>3, <1>4 DEF Undoing, Verifying
<1> QED BY <1>1, <1>2, <1>5
        DEF IInv, Progress, Installing, Testing, Verifying, Served, ContractKept

(* The undo leaves nginx with what it had, the restored file or, when       *)
(* something of it fails, the candidate.                                    *)
LEMMA UndoKeeps ==
    ASSUME IInv, Undo
    PROVE  IInv'
<1>1. /\ pc = "undo" /\ pc' = "idle" /\ result' = "error"
      /\ UNCHANGED <<file, master, loading, workers, nextPid, cand, before>>
      /\ \/ (fast \/ file \notin Invalid) /\ hup' = TRUE /\ undone' = undone
         \/ undone' = FALSE /\ hup' = hup
    BY DEF Undo, Signalled, Return, callVars, keptVars
<1>2. Base'
    BY ReturnsKeepBase DEF IInv
<1> SUFFICES ASSUME before.settled
             PROVE  IInv'
    BY <1>1, <1>2 DEF IInv, Progress, ContractKept
<1>3. /\ previous = before.file
      /\ file = IF undone THEN before.file ELSE cand
      /\ master = "read" => loading \in {cand, file}
      /\ Newest.cfg \in {before.served, cand, file}
    BY <1>1 DEF IInv, Progress, Undoing
<1>4. Newest' = Newest
    BY <1>1 DEF Newest
<1>5. Destined' \in {before.served, cand, file}
    BY <1>1, <1>3, <1>4 DEF Destined
<1>6. undone' => Destined' = file
    <2> SUFFICES ASSUME undone'
                 PROVE  Destined' = file
        OBVIOUS
    <2>1. undone /\ hup' = TRUE /\ (fast \/ file \notin Invalid)
        BY <1>1 DEF IInv, Base, TypeOK
    <2>2. file \notin Invalid
        BY <1>1, <1>3, <2>1 DEF IInv, Base, FastIsSafe
    <2> QED BY <1>1, <2>1, <2>2 DEF Destined
<1>7. ContractKept'
    <2>1. CASE undone'
        <3>1. undone /\ file = before.file
            BY <1>1, <1>3, <2>1
        <3> QED BY <1>1, <1>6, <2>1, <3>1 DEF ContractKept
    <2>2. CASE ~ undone'
        BY <1>1, <1>3, <1>5, <2>2 DEF ContractKept
    <2> QED BY <2>1, <2>2
<1> QED BY <1>1, <1>2, <1>7
        DEF IInv, Progress, Installing, Testing, Verifying, Undoing, Served

LEMMA CrashKeeps ==
    ASSUME IInv, Crash
    PROVE  IInv'
<1>1. pc' = "idle" /\ result' = "none"
    BY DEF Crash
<1> QED BY <1>1, ReturnsKeepBase
        DEF IInv, Progress, Installing, Testing, Verifying, Undoing, Served, ContractKept

LEMMA StepKeeps ==
    ASSUME IInv, [Next]_vars
    PROVE  IInv'
<1>1. CASE Next
    BY <1>1, MasterKeeps, CallKeeps, InstallKeeps, TestKeeps, ReloadKeeps, ProveKeeps,
       RetireKeeps, ConfirmKeeps, TimeOutKeeps, UndoKeeps, CrashKeeps DEF Next, Provider
<1>2. CASE UNCHANGED vars
    <2>1. /\ UNCHANGED <<file, hup, master, loading, workers, nextPid, pc, cand, previous,
                         fast, old, proof, result, before, undone>>
          /\ Newest' = Newest
        BY <1>2 DEF vars, nginxVars, callVars, keptVars, Newest
    <2>2. Destined' = Destined
        BY <2>1 DEF Destined
    <2>3. Progress' /\ ContractKept'
        BY <2>1, <2>2 DEF IInv, Progress, Installing, Testing, Verifying, Undoing, Served,
                          AtRest, Settled, ContractKept
    <2> QED BY <1>2, <2>3, StepKeepsBase DEF IInv
<1> QED BY <1>1, <1>2

LEMMA Initially ==
    ASSUME Init
    PROVE  IInv
<1>1. TypeOK
    <2> DEFINE u == [pid |-> 1, cfg |-> None]
    <2>1. MaxPid \in Nat /\ MaxPid >= 1 /\ MaxCalls \in Nat
        BY BoundAssumption DEF MaxPid
    <2>2. u \in Worker
        BY <2>1 DEF Worker, Files
    <2>3. workers = {u} /\ nextPid = 2
        BY DEF Init
    <2> HIDE DEF u
    <2>4. workers \subseteq Worker /\ nextPid \in 2 .. MaxPid + 1 /\ proof \in 0 .. MaxPid
        BY <2>1, <2>2, <2>3 DEF Init
    <2>5. before \in [file : Files, served : Files, settled : BOOLEAN]
        BY DEF Init, Files
    <2>6. calls \in 0 .. MaxCalls /\ old \subseteq 1 .. MaxPid
        BY <2>1 DEF Init
    <2>7. /\ file \in Files /\ previous \in Files /\ cand \in Files
          /\ last \in Files /\ loading \in Files
          /\ hup \in BOOLEAN /\ inspected \in BOOLEAN
          /\ fast \in BOOLEAN /\ undone \in BOOLEAN
        BY DEF Init, Files
    <2>8. master = "idle" /\ pc = "idle" /\ result = "none"
        BY DEF Init
    <2> QED BY <2>4, <2>5, <2>6, <2>7, <2>8 DEF TypeOK
<1>2. ReloadsCounted
    BY DEF Init, ReloadsCounted, ReloadsLeft, One
<1>3. WorkersInOrder
    <2> DEFINE u == [pid |-> 1, cfg |-> None]
    <2>1. workers = {u} /\ u.pid = 1 /\ u.cfg = None /\ nextPid = 2
        BY DEF Init
    <2> HIDE DEF u
    <2> QED BY <2>1, ConfigAssumption DEF WorkersInOrder
<1>4. OldAreOlder /\ FastIsSafe
    BY ConfigAssumption DEF Init, OldAreOlder, FastIsSafe
<1>5. Progress /\ ContractKept
    BY DEF Init, Progress, Installing, Testing, Verifying, Undoing, Served, ContractKept
<1> QED BY <1>1, <1>2, <1>3, <1>4, <1>5 DEF IInv, Base

-----------------------------------------------------------------------------
(* The theorems.                                                            *)

(* Where an apply has come to, which workers there are, and what the fast   *)
(* path relies on.                                                          *)
THEOREM Invariant == Spec => []IInv
<1>1. Init => IInv
    BY Initially
<1>2. IInv /\ [Next]_vars => IInv'
    BY StepKeeps
<1> QED BY <1>1, <1>2, PTL DEF Spec

(* The state keeps its types: a call reloads nginx at most twice, once for  *)
(* the candidate and once for the file that it restores.                    *)
THEOREM TypeCorrect == Spec => []TypeOK
<1>1. IInv => TypeOK
    BY DEF IInv, Base
<1> QED BY <1>1, Invariant, PTL

(* ApplyRouting keeps its contract, for every failure of its own steps and  *)
(* crash of the daemon (install and its rollback).                          *)
THEOREM ApplyKeepsContract == Spec => []ContractKept
<1>1. IInv => ContractKept
    BY DEF IInv
<1> QED BY <1>1, Invariant, PTL

(* When an apply that began at rest returns, every worker that accepts has  *)
(* its configuration (verifyServing, retireWorkers).                        *)
THEOREM AppliesAreServed == Spec => []SettledApplyIsServed
<1>1. IInv => SettledApplyIsServed
    BY NewestIs DEF IInv, Progress, Served, SettledApplyIsServed, AppliedIsServed
<1> QED BY <1>1, Invariant, PTL

=============================================================================
