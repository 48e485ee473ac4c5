------------------------------ MODULE ToolCall ------------------------------
(***************************************************************************)
(* What the registry promises about routed tool calls to the agents that   *)
(* make them: a tool-use identity is decided once, executed at most once   *)
(* by one provider lease, and ends once.  The result is that worker's own, *)
(* or the statement that its outcome is unknown; a call that was given up  *)
(* as stale was never executed.  After its retention the identity is free. *)
(*                                                                         *)
(* This is the abstract specification.  RoutedCall implements it.          *)
(***************************************************************************)
CONSTANTS
    Calls,      \* tool-use identities
    Leases,     \* provider leases; a lease also stands for the result of its worker
    NoLease,
    Unknown,    \* the result that says the outcome is unknown
    Stale       \* the result that says the call was never executed

VARIABLE call  \* the stage of every call: free, refused, admitted, executing or done

Free == [stage |-> "free", owner |-> NoLease, outcome |-> NoLease]

CallInit == call = [c \in Calls |-> Free]

Decide(c, stage) ==
    /\ call[c] = Free
    /\ call' = [call EXCEPT ![c].stage = stage]

Dispatch(c, l) ==
    /\ call[c].stage = "admitted"
    /\ call' = [call EXCEPT ![c].stage = "executing", ![c].owner = l]

\* The worker's result, or nobody knows.
Finish(c, outcome) ==
    /\ call[c].stage = "executing"
    /\ outcome \in {call[c].owner, Unknown}
    /\ call' = [call EXCEPT ![c].stage = "done", ![c].outcome = outcome]

GiveUp(c) ==
    /\ call[c].stage = "admitted"
    /\ call' = [call EXCEPT ![c].stage = "done", ![c].outcome = Stale]

\* Retention ends, for any number of identities at once.
Forget(gone) == call' = [c \in Calls |-> IF c \in gone THEN Free ELSE call[c]]

CallNext ==
    \/ \E c \in Calls, stage \in {"refused", "admitted"} : Decide(c, stage)
    \/ \E c \in Calls, l \in Leases : Dispatch(c, l)
    \/ \E c \in Calls, outcome \in Leases \cup {Unknown} : Finish(c, outcome)
    \/ \E c \in Calls : GiveUp(c)
    \/ \E gone \in SUBSET Calls : Forget(gone)

CallSpec == CallInit /\ [][CallNext]_call
=============================================================================
