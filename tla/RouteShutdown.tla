--------------------------- MODULE RouteShutdown ---------------------------
(***************************************************************************)
(* A termination signal while requests are served: the signal goroutine    *)
(* saves the published state without taking mutationMu, and only then does *)
(* the server stop accepting requests and end.                             *)
(***************************************************************************)
EXTENDS RouteTransactionProps

VARIABLES
    stopping,   \* how far the signal goroutine is
    snapshot    \* the published state it has read

shutdownVars == <<stopping, snapshot>>

ShutdownInit == Init /\ stopping = "no" /\ snapshot = NoSnapshot

(* Registry.SaveState: read the projection ...                              *)
ShutdownRead ==
    /\ Serving
    /\ stopping = "no"
    /\ stopping' = "read"
    /\ snapshot' = mem
    /\ UNCHANGED vars

(* ... and write it.  An error is only logged.                              *)
ShutdownSave ==
    /\ stopping = "read"
    /\ stopping' = "saved"
    /\ db' = SaveRows(db, snapshot) \/ ("store" \in Faults /\ UNCHANGED db)
    /\ UNCHANGED <<snapshot, pc, op, mem, proxyVars, counterVars, journal,
                   idem, plans, reply, crashes, fate>>

(* Echo waits for the handlers, but not for longer than ten seconds.        *)
ShutdownExit ==
    /\ stopping = "saved"
    /\ ProcessEnds
    /\ stopping' = "no"
    /\ snapshot' = NoSnapshot
    /\ UNCHANGED crashes

ShutdownCrash == Crash /\ stopping' = "no" /\ snapshot' = NoSnapshot

ShutdownNext ==
    \/ (Request \/ Step \/ Start \/ Drift) /\ UNCHANGED shutdownVars
    \/ ShutdownRead
    \/ ShutdownSave
    \/ ShutdownExit
    \/ ShutdownCrash

ShutdownSpec == ShutdownInit /\ [][ShutdownNext]_<<vars, shutdownVars>>

(* A mutation is answered only when its state is durable: "persist the      *)
(* durable state, then publish it".                                         *)
CommittedIsStored == pc = "idle" /\ reply = "committed" => db = mem
=============================================================================
