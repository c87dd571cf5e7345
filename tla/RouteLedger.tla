---------------------------- MODULE RouteLedger ----------------------------
(***************************************************************************)
(* What the registry promises of its durable state, without its steps: an  *)
(* operation takes effect at once and at most once, or not at all, and the *)
(* state it leaves carries a version above every version then stored.      *)
(***************************************************************************)
EXTENDS Naturals

CONSTANTS Workspaces, Ops, None

VARIABLES
    desired,   \* the durable state of each workspace, None when it has none
    fate       \* what became of each operation

vars == <<desired, fate>>

Init ==
    /\ desired = [w \in Workspaces |-> [mode |-> "remote", ver |-> 0, op |-> 0]]
    /\ fate = [o \in Ops |-> "unused"]

Becomes(o, from, to) ==
    fate[o] \in from /\ fate' = [fate EXCEPT ![o] = to]

Open(o) == Becomes(o, {"unused"}, "open") /\ UNCHANGED desired

(* A commit removes workspaces, leaves them, or gives them a state of its   *)
(* own, newer than all there was.                                           *)
NewState(o, s) ==
    /\ s.op = o
    /\ \A v \in Workspaces : desired[v] # None => desired[v].ver < s.ver

Commit(o) ==
    /\ Becomes(o, {"open"}, "durable")
    /\ \A w \in Workspaces :
          \/ desired'[w] = desired[w]
          \/ desired'[w] = None
          \/ NewState(o, desired'[w])

Discard(o) == Becomes(o, {"unused", "open"}, "aborted") /\ UNCHANGED desired

(* An answer that changes nothing also takes an identifier.                 *)
Answer(o) == Becomes(o, {"unused"}, "answer") /\ UNCHANGED desired

Next == \E o \in Ops : Open(o) \/ Commit(o) \/ Discard(o) \/ Answer(o)

Spec == Init /\ [][Next]_vars
=============================================================================
