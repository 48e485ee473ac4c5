---------------------------- MODULE MapRevision -----------------------------
(***************************************************************************)
(* The revision counter of the replicated catalog map, and its repair by   *)
(* the health trackers (registry/health_tracker.go).                       *)
(*                                                                         *)
(* Redis holds the counter; every registry node holds a replica of the map *)
(* and applies a write only if its revision exceeds the replica's own.     *)
(* When Redis loses the map the counter restarts at zero, and the replicas *)
(* silently drop what is written next, until a tracker raises the counter. *)
(* A pass of a tracker is two Redis commands, with other passes, writes    *)
(* and losses in between.  The counter is pinned to wall clock readings,   *)
(* milliseconds that are far above the number of writes; a node's reading  *)
(* is off by up to Drift, so it may step back.  Writes come at most one    *)
(* per millisecond, and none in the millisecond of a pin, as the comment   *)
(* of ensureMapRevision assumes.                                           *)
(***************************************************************************)
EXTENDS Naturals, FiniteSets, FiniteSetsExt

CONSTANTS
    Nodes,
    Slack,       \* revFloorSlack
    Epoch,       \* the wall clock at the start
    MaxTicks,    \* bound: milliseconds that pass
    Drift,       \* how far a node's wall clock is off
    MaxLosses,   \* bound: losses of the Redis state
    MaxRestarts  \* bound: restarts of registry nodes

ASSUME RevisionAssumption ==
    /\ IsFiniteSet(Nodes) /\ Nodes # {}
    /\ Slack \in Nat /\ Drift \in Nat
    /\ MaxTicks \in Nat /\ Epoch \in Nat /\ Epoch > MaxTicks + Drift
    /\ MaxLosses \in Nat /\ MaxRestarts \in Nat

VARIABLES
    clock,     \* the right time
    counter,   \* the field "=rev" in Redis, 0 when it is missing
    replica,   \* the revision of every node's replica
    floor,     \* revFloors of every node, 0 before its first pass
    pass,      \* the pass every node is in: idle, or what it read
    wrote,     \* this millisecond has had its write or its pin
    losses, restarts,
    passed,    \* nodes whose last pass read Redis after the last loss
    orderly    \* no node restarted, and every loss so far found all nodes passed
               \* and at most Slack behind

vars == <<clock, counter, replica, floor, pass, wrote, losses, restarts, passed, orderly>>

Idle == [pc |-> "idle", read |-> 0, fresh |-> FALSE]

Init ==
    /\ clock = Epoch
    /\ counter = 0
    /\ replica = [n \in Nodes |-> 0]
    /\ floor = [n \in Nodes |-> 0]
    /\ pass = [n \in Nodes |-> Idle]
    /\ wrote = TRUE /\ losses = 0 /\ restarts = 0
    /\ passed = {}
    /\ orderly = TRUE

Tick ==
    /\ clock < Epoch + MaxTicks
    /\ clock' = clock + 1 /\ wrote' = FALSE
    /\ UNCHANGED <<counter, replica, floor, pass, losses, restarts, passed, orderly>>

-----------------------------------------------------------------------------
(* The map. *)

\* A catalog write takes the next revision; a replica that is not behind it
\* drops the write.
Write ==
    /\ ~wrote /\ wrote' = TRUE
    /\ counter' = counter + 1
    /\ replica' = [n \in Nodes |-> IF counter + 1 > replica[n] THEN counter + 1 ELSE replica[n]]
    /\ UNCHANGED <<clock, floor, pass, losses, restarts, passed, orderly>>

\* Redis loses the hash.
Lose ==
    /\ losses < MaxLosses
    /\ counter' = 0
    /\ losses' = losses + 1
    /\ orderly' = (orderly /\ passed = Nodes /\ \A n \in Nodes : counter <= floor[n] + Slack)
    /\ passed' = {}
    /\ pass' = [n \in Nodes |-> [pass[n] EXCEPT !.fresh = FALSE]]
    /\ UNCHANGED <<clock, replica, floor, wrote, restarts>>

\* A node is restarted: it joins the map as Redis has it, and knows no floor.
Restart(n) ==
    /\ restarts < MaxRestarts
    /\ restarts' = restarts + 1
    /\ replica' = [replica EXCEPT ![n] = counter]
    /\ floor' = [floor EXCEPT ![n] = 0]
    /\ pass' = [pass EXCEPT ![n] = Idle]
    /\ passed' = passed \ {n}
    /\ orderly' = FALSE
    /\ UNCHANGED <<clock, counter, wrote, losses>>

-----------------------------------------------------------------------------
(* A pass of ensureMapRevision. *)

ReadRevision(n) ==
    /\ pass[n].pc = "idle"
    /\ pass' = [pass EXCEPT ![n] = [pc |-> "read", read |-> counter, fresh |-> TRUE]]
    /\ UNCHANGED <<clock, counter, replica, floor, wrote, losses, restarts, passed, orderly>>

\* The pass ends with a floor; its reading is current if no loss came after.
EndPass(n, f) ==
    /\ floor' = [floor EXCEPT ![n] = f]
    /\ pass' = [pass EXCEPT ![n] = Idle]
    /\ passed' = IF pass[n].fresh THEN passed \cup {n} ELSE passed
    /\ UNCHANGED <<clock, replica, losses, restarts, orderly>>

Intact(n) == floor[n] > 0 /\ pass[n].read >= floor[n]

Observe(n) ==
    /\ pass[n].pc = "read" /\ Intact(n)
    /\ EndPass(n, pass[n].read) /\ UNCHANGED <<counter, wrote>>

\* Mutant: the repair target is the wall clock alone.
target_ClockOnly(n, now) == now

\* Never below the floor plus the slack, whatever the clock says.
target(n, now) == Max({now, floor[n] + Slack})

revisionPin(t) == counter' = Max({counter, t})

Pin(n, now) ==
    /\ pass[n].pc = "read" /\ ~Intact(n)
    /\ revisionPin(target(n, now))
    /\ EndPass(n, counter') /\ wrote' = TRUE

\* Redis fails one of the two commands.
PassFails(n) ==
    /\ pass[n].pc = "read"
    /\ pass' = [pass EXCEPT ![n] = Idle]
    /\ UNCHANGED <<clock, counter, replica, floor, wrote, losses, restarts, passed, orderly>>

Next ==
    \/ Tick \/ Write \/ Lose
    \/ \E n \in Nodes :
          \/ Restart(n) \/ ReadRevision(n) \/ Observe(n) \/ PassFails(n)
          \/ \E now \in (clock - Drift)..(clock + Drift) : Pin(n, now)

Spec == Init /\ [][Next]_vars

-----------------------------------------------------------------------------
(* Properties. *)

TypeOK ==
    /\ clock \in Epoch..Epoch + MaxTicks
    /\ counter \in Nat
    /\ replica \in [Nodes -> Nat] /\ floor \in [Nodes -> Nat]
    /\ pass \in [Nodes -> [pc : {"idle", "read"}, read : Nat, fresh : BOOLEAN]]
    /\ wrote \in BOOLEAN /\ losses \in 0..MaxLosses /\ restarts \in 0..MaxRestarts
    /\ passed \subseteq Nodes
    /\ orderly \in BOOLEAN

\* Replicas that would drop the next write.
Outranked == {n \in Nodes : replica[n] > counter}

\* Once every tracker has made a pass after a loss, no replica drops the next
\* write, whatever the clocks of the nodes say.  The losses must be as far
\* apart as the passes, and at most Slack revisions may come between a node's
\* pass and a loss: that is what the slack is for.
RepairedIsFollowed == (orderly /\ passed = Nodes) => Outranked = {}

\* Concurrent repairs converge: a counter that is there is never lowered.
NeverLowered == [][counter' >= counter \/ losses' > losses]_vars

\* What the comment of ensureMapRevision promises of a pinned counter: no
\* local revision of a replica can outrank it.
NeverOutranked == passed = Nodes => Outranked = {}
=============================================================================
