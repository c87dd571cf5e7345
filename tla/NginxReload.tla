----------------------------- MODULE NginxReload -----------------------------
(***************************************************************************)
(* How the nginx provider installs a configuration: it replaces the        *)
(* generated file, has it tested or (the fast path) trusts nginx to test   *)
(* it, signals the master, waits for a new worker to prove that it serves  *)
(* the candidate, retires the old workers, and undoes all that on failure. *)
(*                                                                         *)
(* The master is concurrent: it coalesces signals, reads the file when it  *)
(* gets to it, starts workers, and lets the old ones accept for 100 ms.    *)
(* rp.mu lets one call run at a time.  A worker is its process identifier; *)
(* one worker stands for the several of a generation.                      *)
(***************************************************************************)
EXTENDS Naturals, FiniteSets

CONSTANTS
    Configs,    \* renderings of the desired state
    Invalid,    \* those that nginx does not load
    None,       \* no generated file, and nothing rendered yet
    Faults,     \* the failures that may happen
    MaxCalls    \* bound on the calls

(* What may go wrong:                                                       *)
(*   write    the generated file is not written                             *)
(*   test     nginx -T fails, or does not answer, for another reason        *)
(*   reload   neither the signal nor nginx -s reload reaches the master     *)
(*   restore  the previous file is not written back                         *)
(*   slow     the master takes longer than two seconds to start workers     *)
(*   crash    the daemon dies within a call                                 *)
AllFaults == {"write", "test", "reload", "restore", "slow", "crash"}

ASSUME ConfigAssumption == Invalid \subseteq Configs /\ None \notin Configs
ASSUME BoundAssumption == MaxCalls \in Nat /\ Faults \subseteq AllFaults

Files == Configs \cup {None}
MaxPid == 2 * MaxCalls + 1
Worker == [pid : 1 .. MaxPid, cfg : Files]

VARIABLES
    file,       \* workspaces.conf
    hup,        \* a reload signal the master has not seen to
    master,     \* what the master is doing
    loading,    \* the file as the master read it
    workers,    \* the workers that accept connections
    nextPid,    \* the next process identifier
    pc,         \* the provider's next step
    cand,       \* the rendering to install
    previous,   \* the file it replaces
    last,       \* RoutingProvider.lastRendered
    inspected,  \* configFiles and pidFile are known from an nginx -T
    fast,       \* the test is left to the master
    old,        \* the workers captured before the reload
    proof,      \* the worker that gave the first proof
    result,     \* how the last call ended
    calls,      \* calls so far
    before,     \* history: the file, what nginx was to serve and whether it
                \*   had settled, when the call began
    undone      \* history: no call of the undo failed

nginxVars == <<hup, master, loading, workers, nextPid>>
callVars == <<cand, previous, fast, old, proof>>
keptVars == <<last, inspected, calls, before>>
vars == <<file, nginxVars, pc, callVars, result, keptVars, undone>>

Pids == {w.pid : w \in workers}

Newest == CHOOSE w \in workers : \A v \in workers : v.pid <= w.pid

(* What nginx ends up serving once it has seen to all it was told.          *)
Destined ==
    CASE hup /\ file \notin Invalid -> file
      [] ~(hup /\ file \notin Invalid) /\ master = "read"
            /\ loading \notin Invalid -> loading
      [] OTHER -> Newest.cfg

Settled == ~hup /\ master = "idle"

TypeOK ==
    /\ file \in Files /\ previous \in Files /\ cand \in Files
    /\ last \in Files /\ loading \in Files
    /\ hup \in BOOLEAN /\ inspected \in BOOLEAN
    /\ fast \in BOOLEAN /\ undone \in BOOLEAN
    /\ master \in {"idle", "read", "grace"}
    /\ workers \subseteq Worker
    /\ nextPid \in 2 .. MaxPid + 1
    /\ pc \in {"idle", "install", "test", "reload", "verify", "retire",
               "grace", "undo"}
    /\ old \subseteq 1 .. MaxPid
    /\ proof \in 0 .. MaxPid
    /\ result \in {"none", "ok", "error"}
    /\ calls \in 0 .. MaxCalls
    /\ before \in [file : Files, served : Files, settled : BOOLEAN]

Init ==
    /\ file = None /\ hup = FALSE /\ master = "idle" /\ loading = None
    /\ workers = {[pid |-> 1, cfg |-> None]} /\ nextPid = 2
    /\ pc = "idle" /\ cand = None /\ previous = None
    /\ last = None /\ inspected = FALSE /\ fast = FALSE
    /\ old = {} /\ proof = 0 /\ result = "none"
    /\ calls = 0 /\ undone = TRUE
    /\ before = [file |-> None, served |-> None, settled |-> TRUE]

----------------------------------------------------------------------------
(* The nginx master process.                                                *)

MasterRead ==
    /\ hup
    /\ master = "idle"
    /\ hup' = FALSE
    /\ loading' = file
    /\ master' = "read"
    /\ UNCHANGED <<file, workers, nextPid, pc, callVars, result, keptVars, undone>>

(* An invalid configuration leaves the workers as they are.                 *)
MasterSpawn ==
    /\ master = "read"
    /\ IF loading \in Invalid
       THEN master' = "idle" /\ UNCHANGED <<workers, nextPid>>
       ELSE /\ master' = "grace"
            /\ workers' = workers \cup {[pid |-> nextPid, cfg |-> loading]}
            /\ nextPid' = nextPid + 1
    /\ loading' = None
    /\ UNCHANGED <<file, hup, pc, callVars, result, keptVars, undone>>

(* 100 ms later the old workers stop accepting.                             *)
MasterRetire ==
    /\ master = "grace"
    /\ master' = "idle"
    /\ workers' = {Newest}
    /\ UNCHANGED <<file, hup, loading, nextPid, pc, callVars, result, keptVars,
                   undone>>

Master == MasterRead \/ MasterSpawn \/ MasterRetire

----------------------------------------------------------------------------
(* The provider.                                                            *)

Return(answer) == pc' = "idle" /\ result' = answer

(* ApplyRouting, with the rendering of the state it is given.               *)
Call(m) ==
    /\ pc = "idle"
    /\ calls < MaxCalls
    /\ calls' = calls + 1
    /\ pc' = "install"
    /\ cand' = m
    /\ result' = "none"
    /\ undone' = TRUE
    /\ before' = [file |-> file, served |-> Destined, settled |-> Settled]
    /\ UNCHANGED <<file, nginxVars, previous, last, inspected, fast, old, proof>>

(* canSignal also reads the pid file and the other configuration files, so  *)
(* it may refuse the fast path whenever it is open.                         *)
CanSignal == inspected

(* The candidate replaces the file in one rename.                           *)
Install ==
    /\ pc = "install"
    /\ \/ /\ previous' = file
          /\ file' = cand
          /\ fast' \in {FALSE, file = last /\ CanSignal}
          /\ pc' = IF fast' THEN "reload" ELSE "test"
          /\ UNCHANGED result
       \/ /\ "write" \in Faults
          /\ Return("error")
          /\ UNCHANGED <<file, previous, fast>>
    /\ UNCHANGED <<nginxVars, cand, old, proof, keptVars, undone>>

(* Mutant: the candidate stays in place.                                    *)
RestoreForgotten == UNCHANGED <<file, undone>>

(* Mutant: a file that was not there is written back empty.                 *)
RestoreEmpty ==
    /\ file' = IF previous = None THEN {} ELSE previous
    /\ UNCHANGED undone

(* The file is put back, or removed if there was none.                      *)
Restore ==
    \/ file' = previous /\ UNCHANGED undone
    \/ "restore" \in Faults /\ undone' = FALSE /\ UNCHANGED file

(* verifyLoaded: nginx -T parses the whole configuration.                   *)
Test ==
    /\ pc = "test"
    /\ \/ /\ file \notin Invalid
          /\ inspected' = TRUE
          /\ pc' = "reload"
          /\ UNCHANGED <<file, result, undone>>
       \/ /\ file \in Invalid \/ "test" \in Faults
          /\ Restore
          /\ Return("error")
          /\ UNCHANGED inspected
    /\ UNCHANGED <<nginxVars, callVars, last, calls, before>>

(* A signal succeeds whatever the file says; nginx -s reload parses it.     *)
Signalled == (fast \/ file \notin Invalid) /\ hup' = TRUE

Unsignalled ==
    "reload" \in Faults \/ (~fast /\ file \in Invalid)

(* The workers are captured first.  Without /proc there are none to see.    *)
Reload ==
    /\ pc = "reload"
    /\ old' \in {Pids, {}}
    /\ \/ Signalled /\ pc' = "verify" /\ UNCHANGED <<file, undone>>
       \/ Unsignalled /\ Restore /\ pc' = "undo" /\ UNCHANGED hup
    /\ UNCHANGED <<master, loading, workers, nextPid, cand, previous, fast,
                   proof, result, keptVars>>

(* A worker answers with the digest of its configuration and its pid.       *)
Proves(w) == w.cfg = cand /\ w.pid \notin old

Prove ==
    /\ pc = "verify"
    /\ \E w \in workers : Proves(w) /\ proof' = w.pid
    /\ pc' = "retire"
    /\ UNCHANGED <<file, nginxVars, cand, previous, fast, old, result, keptVars,
                   undone>>

Succeed == Return("ok") /\ last' = cand

(* retireWorkers sends QUIT to every captured worker and watches them close *)
(* their sockets; it gives up when it cannot see them or they take longer.  *)
Retire ==
    /\ pc = "retire"
    /\ \/ /\ old # {}
          /\ workers' = {w \in workers : w.pid \notin old}
          /\ Succeed
       \/ /\ \E some \in SUBSET old :
                workers' = {w \in workers : w.pid \notin some}
          /\ pc' = "grace"
          /\ UNCHANGED <<result, last>>
    /\ UNCHANGED <<file, hup, master, loading, nextPid, callVars, inspected,
                   calls, before, undone>>

(* Mutant: one proof is enough.                                             *)
GraceOverAtOnce == TRUE

(* 105 ms after the first proof the master has retired the workers that are *)
(* older than the one that gave it.                                         *)
GraceOver == \A w \in workers : w.pid >= proof

Confirm ==
    /\ pc = "grace"
    /\ GraceOver
    /\ \E w \in workers : w.cfg = cand
    /\ Succeed
    /\ UNCHANGED <<file, nginxVars, callVars, inspected, calls, before, undone>>

(* Two seconds pass without the proof: the master is slow, or has rejected  *)
(* the candidate, or nobody serves it any more.                             *)
TimeOut ==
    /\ pc \in {"verify", "grace"}
    /\ "slow" \in Faults \/ (Settled /\ \A w \in workers : ~Proves(w))
    /\ Restore
    /\ pc' = "undo"
    /\ UNCHANGED <<nginxVars, callVars, result, keptVars>>

(* Mutant: the restored file is not loaded.                                 *)
UndoUnloaded ==
    /\ pc = "undo"
    /\ Return("error")
    /\ UNCHANGED <<file, nginxVars, callVars, keptVars, undone>>

(* The restored file is loaded, unless that fails too.                      *)
Undo ==
    /\ pc = "undo"
    /\ \/ Signalled /\ UNCHANGED undone
       \/ Unsignalled /\ undone' = FALSE /\ UNCHANGED hup
    /\ Return("error")
    /\ UNCHANGED <<file, master, loading, workers, nextPid, callVars, keptVars>>

(* The daemon dies and is started again: the provider remembers nothing.    *)
Crash ==
    /\ "crash" \in Faults
    /\ pc # "idle"
    /\ pc' = "idle"
    /\ result' = "none"
    /\ last' = None
    /\ inspected' = FALSE
    /\ UNCHANGED <<file, nginxVars, callVars, calls, before, undone>>

Provider == Install \/ Test \/ Reload \/ Prove \/ Retire \/ Confirm \/ TimeOut
            \/ Undo

Next == Master \/ Provider \/ Crash \/ \E m \in Configs : Call(m)

Spec == Init /\ [][Next]_vars

(* nginx acts on its signals, and a call returns: each of its steps has a   *)
(* timeout.                                                                 *)
FairSpec == Spec /\ WF_vars(Master) /\ WF_vars(Provider)

----------------------------------------------------------------------------
(* What ApplyRouting promises.                                              *)

(* The contract that the registry's transactions assume, of a call that     *)
(* begins with nginx at rest: success means the candidate is installed and  *)
(* nginx serves it as soon as it has settled; an error means the file is as *)
(* before, and nginx serves what it served or that file, unless the undo    *)
(* failed as well (install, and its rollback).                              *)
ContractKept ==
    pc = "idle" /\ before.settled =>
        /\ result = "ok" => file = cand /\ Destined = cand
        /\ result = "error" /\ undone =>
              /\ file = before.file
              /\ Destined \in {before.served, before.file}
        /\ result = "error" /\ ~undone =>
              \/ /\ file = before.file
                 /\ Destined \in {before.served, before.file, cand}
              \/ file = cand /\ Destined \in {before.served, cand}

(* "A single new-worker response is not sufficient": when an apply returns, *)
(* no worker accepts connections with another configuration, and some       *)
(* worker does with this one: also when a candidate equals what was served  *)
(* already, so that old and new workers give the same proof.                *)
AppliedIsServed ==
    pc = "idle" /\ result = "ok" =>
        workers # {} /\ \A w \in workers : w.cfg = cand

(* The same, of the applies that began with nginx at rest.                  *)
SettledApplyIsServed == before.settled => AppliedIsServed

(* After a call that was undone nginx comes back to the file on disk: the   *)
(* workers of a rejected or a slow candidate do not stay.                   *)
UndoneIsLoaded ==
    (/\ pc = "idle" /\ result = "error" /\ undone
     /\ before.settled /\ before.served = before.file)
        ~> (pc # "idle" \/ \A w \in workers : w.cfg = file)
=============================================================================
