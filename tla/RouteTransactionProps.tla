----------------------- MODULE RouteTransactionProps -----------------------
(***************************************************************************)
(* What the route transactions guarantee, and which failures each          *)
(* guarantee survives.  The runs name the failures.                        *)
(***************************************************************************)
EXTENDS RouteTransaction

(* SQLite and the published projection agree except while one operation is  *)
(* between its save and its publication, and then SQLite has exactly that   *)
(* operation's candidate: whatever fails, callers never read a state that a *)
(* restart would lose (mutate, ApplyRoutePlan: persist, then publish).      *)
DurableMatchesPublished ==
    /\ pc \in {"idle", "loading", "reconciling"} \cup (OpSteps \ {"publish"})
          => db = mem
    /\ pc = "publish" => db = op.cand

(* Compare-and-swap is sound: a plan whose base version is the workspace's  *)
(* version was made from the very state the workspace is in, although       *)
(* failed operations give their version back to be used again and a restart *)
(* recomputes the counter (ApplyRoutePlan, releaseOperationVersion, Load).  *)
PlanBaseIdentifiesState ==
    \A c \in Clients :
        LET p == plans[c]
        IN  Serving /\ p # None /\ mem[p.ws] # None /\ mem[p.ws].ver = p.base
                => mem[p.ws].op = p.op

(* The journal tells the truth about the durable state: an entry committed  *)
(* by the operation or by recovery had its candidate saved, an entry closed *)
(* as failed or rolled back had not (reconcileRouteJournal decides from     *)
(* versions alone).                                                         *)
JournalTellsFate ==
    \A o \in Ops :
        /\ journal[o] # None /\ journal[o].status = "committed"
              => fate[o] \in {"durable", "answer"}
        /\ journal[o] # None /\ journal[o].status \in {"failed", "rolled_back"}
              => fate[o] # "durable"

(* An idempotency key takes effect once, also when its caller retries after *)
(* a crash that lost the first answer, at whatever step it came.            *)
KeyTakesEffectOnce ==
    \A o, p \in Ops :
        /\ fate[o] = "durable" /\ fate[p] = "durable"
        /\ journal[o] # None /\ journal[p] # None
        /\ journal[o].key # None
        /\ journal[o].key = journal[p].key /\ journal[o].ws = journal[p].ws
        => o = p

(* A replayed answer is the answer of an operation that happened.           *)
ReplayIsOfADurableAnswer ==
    \A w \in Workspaces, k \in Keys :
        idem[w][k] # None => fate[idem[w][k].op] \in {"durable", "answer"}

(* An operation that reports its rollback as succeeded leaves SQLite and    *)
(* nginx as the published state says, whatever failed before.               *)
RollbackReportIsTrue ==
    pc = "idle" /\ reply = "restored" => running = mem /\ file = mem /\ db = mem

(* A route shown as verified is the one nginx serves: a reused version, a   *)
(* failed rollback or a provider that went away never leaves a projection   *)
(* that claims more (recordEffectiveRoutes, markRoutingState).              *)
VerifiedIsServed ==
    \A w \in Workspaces :
        Serving /\ Current(w) => running # Foreign /\ running[w] = mem[w]

(* SyncRoute compares the candidate "with what the proxy actually has       *)
(* loaded": it answers in-sync only while nginx serves the published state. *)
InSyncIsServed ==
    [][\A w \in Workspaces : SyncInSync(w) => running = mem]_vars

(* Every journal entry is closed in the end: by its operation, by the undo  *)
(* of a failed one, or by the recovery after a crash.                       *)
JournalSettles == \A o \in Ops : Pending(o) ~> ~Pending(o)

(* The transactions implement the ledger: SQLite moves by whole operations, *)
(* each at most once and each to a version above all that were stored.      *)
Ledger == INSTANCE RouteLedger WITH desired <- db
LedgerSpec == Ledger!Spec
=============================================================================
