---------------------------- MODULE PingSchedule ----------------------------
(***************************************************************************)
(* Who pings a toolset, and what the pongs say of its health               *)
(* (registry/health_tracker.go).                                           *)
(*                                                                         *)
(* Every registry node runs one scheduler.  At each of its ticks, four to  *)
(* the ping interval, it competes for the toolset's ping lease, a Redis    *)
(* key that lives for one interval; the winner publishes a ping.  Nodes    *)
(* tick at phases of their own, stop and start again; a winner may stop    *)
(* before it publishes; Redis may lose the lease, and may fail any         *)
(* request of a tick, which then ends without a ping.  The model has one   *)
(* toolset, registered throughout.                                         *)
(***************************************************************************)
EXTENDS Naturals, FiniteSets

CONSTANTS
    Nodes,
    Period,       \* schedulerTickPeriod
    Missed,       \* missedPingThreshold
    MaxDelay,     \* bound: how late a pong may come
    MaxTime,      \* bound on time
    MaxStops,     \* bound on stops of nodes
    MaxLosses,    \* bound on losses of the lease
    MaxFailures   \* bound on ticks that Redis fails

Interval == 4 * Period   \* pingInterval

ASSUME ScheduleAssumption ==
    /\ IsFiniteSet(Nodes) /\ Nodes # {}
    /\ Period \in Nat \ {0} /\ Missed \in Nat /\ MaxDelay \in Nat
    /\ MaxTime \in Nat /\ MaxStops \in Nat /\ MaxLosses \in Nat
    /\ MaxFailures \in Nat

Down == MaxTime + Interval

VARIABLES
    now,
    node,       \* every scheduler: what it does, its next tick, its start, how
                \* many ticks failed in a row and how many since the last pong
    lease,      \* when the ping lease expires
    lastPing,   \* when the lease was last won
    pings,      \* published pings that may still be answered
    lastPong,   \* the catalog's LastPong
    unanswered, \* intervals won since the ping that was answered last
    stops, losses, failures

vars == <<now, node, lease, lastPing, pings, lastPong, unanswered, stops, losses, failures>>

Running(since) ==
    [pc |-> "wait", next |-> since + Period, since |-> since, skipped |-> 0, failed |-> 0]

Stopped == [pc |-> "down", next |-> Down, since |-> Down, skipped |-> 0, failed |-> 0]

\* The toolset has answered a ping at time zero.
Init ==
    /\ now = 0
    /\ node \in [Nodes -> [pc : {"wait"}, next : 0..Period, since : {0}, skipped : {0}, failed : {0}]]
    /\ lease = Interval /\ lastPing = 0
    /\ pings = {} /\ lastPong = 0 /\ unanswered = 0
    /\ stops = 0 /\ losses = 0 /\ failures = 0

-----------------------------------------------------------------------------

\* Mutant: the ping lease lives for two intervals.
LeaseDuration_Double == 2 * Interval

LeaseDuration == Interval

\* The lease is gone at its expiry; a tick at that very instant may come
\* before or after.
Expired == lease <= now
Held == lease >= now

\* The ticker fires; a slow scheduler keeps its phase.
run(n) ==
    /\ node[n].pc = "wait" /\ node[n].next = now
    /\ node' = [node EXCEPT ![n].pc = "contend", ![n].next = @ + Period]
    /\ UNCHANGED <<now, lease, lastPing, pings, lastPong, unanswered, stops, losses, failures>>

\* Redis has answered the scheduler, which goes on to the ping or waits again.
Answered(n, pc) == node' = [node EXCEPT ![n].pc = pc, ![n].skipped = 0]

\* A request of the tick fails: the enumeration of the catalog, the resolution
\* of the toolset or the lease itself.  The tick is logged and given up.
Failed(n) ==
    node' = [node EXCEPT ![n].pc = "wait", ![n].skipped = @ + 1, ![n].failed = @ + 1]

MayFail == failures < MaxFailures /\ failures' = failures + 1

\* Mutant: the lease is taken without looking whether somebody holds it.
acquirePingLease_Blind(n) ==
    /\ node[n].pc = "contend"
    /\ lease' = now + LeaseDuration /\ lastPing' = now /\ Answered(n, "send")
    /\ UNCHANGED <<now, pings, lastPong, unanswered, stops, losses, failures>>

\* The lease is won; or it is won and the answer is lost, so that nobody pings
\* in the interval; or it is held; or the tick fails before it reaches Redis.
acquirePingLease(n) ==
    /\ node[n].pc = "contend"
    /\ \/ /\ Expired /\ lease' = now + LeaseDuration /\ lastPing' = now
          /\ \/ Answered(n, "send") /\ UNCHANGED <<unanswered, failures>>
             \/ MayFail /\ Answered(n, "wait") /\ unanswered' = unanswered + 1
       \/ Held /\ Answered(n, "wait") /\ UNCHANGED <<lease, lastPing, unanswered, failures>>
       \/ MayFail /\ Failed(n) /\ UNCHANGED <<lease, lastPing, unanswered>>
    /\ UNCHANGED <<now, pings, lastPong, stops, losses>>

\* The ping is published, or the publication fails and is only logged.
sendPing(n) ==
    /\ node[n].pc = "send"
    /\ node' = [node EXCEPT ![n].pc = "wait"]
    /\ unanswered' = unanswered + 1
    /\ pings' \in {pings, pings \cup {[at |-> now, nth |-> unanswered + 1]}}
    /\ UNCHANGED <<now, lease, lastPing, lastPong, stops, losses, failures>>

\* A provider answers one of the pings.
RecordPong(p) ==
    /\ lastPong' = now
    /\ unanswered' = unanswered - p.nth
    /\ pings' = {[q EXCEPT !.nth = @ - p.nth] : q \in {r \in pings : r.nth > p.nth}}
    /\ node' = [n \in Nodes |-> [node[n] EXCEPT !.failed = 0]]
    /\ UNCHANGED <<now, lease, lastPing, stops, losses, failures>>

Close(n) ==
    /\ node[n].pc # "down" /\ stops < MaxStops
    /\ node' = [node EXCEPT ![n] = Stopped]
    /\ unanswered' = IF node[n].pc = "send" THEN unanswered + 1 ELSE unanswered
    /\ stops' = stops + 1
    /\ UNCHANGED <<now, lease, lastPing, pings, lastPong, losses, failures>>

newHealthTracker(n) ==
    /\ node[n].pc = "down"
    /\ node' = [node EXCEPT ![n] = Running(now)]
    /\ UNCHANGED <<now, lease, lastPing, pings, lastPong, unanswered, stops, losses, failures>>

LoseLease ==
    /\ losses < MaxLosses /\ losses' = losses + 1
    /\ lease' = 0
    /\ UNCHANGED <<now, node, lastPing, pings, lastPong, unanswered, stops, failures>>

\* Time passes once every running scheduler has done what is due.
Tick ==
    /\ now < MaxTime
    /\ \A n \in Nodes : node[n].pc \in {"wait", "down"} /\ node[n].next > now
    /\ now' = now + 1
    /\ pings' = {p \in pings : now + 1 <= p.at + MaxDelay}
    /\ UNCHANGED <<node, lease, lastPing, lastPong, unanswered, stops, losses, failures>>

Ended == now = MaxTime /\ UNCHANGED vars

Next ==
    \/ \E n \in Nodes : run(n) \/ acquirePingLease(n) \/ sendPing(n) \/ Close(n) \/ newHealthTracker(n)
    \/ \E p \in pings : RecordPong(p)
    \/ LoseLease \/ Tick \/ Ended

Spec == Init /\ [][Next]_vars

-----------------------------------------------------------------------------
(* Health. *)

\* Mutant: the freshness window is one interval short.
deriveStalenessThreshold_Short == Missed * Interval

deriveStalenessThreshold == (Missed + 1) * Interval

Healthy == now - lastPong <= deriveStalenessThreshold

-----------------------------------------------------------------------------
(* Properties. *)

TypeOK ==
    /\ now \in 0..MaxTime
    /\ node \in [Nodes -> [pc : {"wait", "contend", "send", "down"}, next : 0..Down, since : 0..Down,
                           skipped : Nat, failed : Nat]]
    /\ lease \in 0..MaxTime + 2 * Interval /\ lastPing \in 0..now /\ lastPong \in 0..now
    /\ pings \subseteq [at : 0..now, nth : 1..unanswered]
    /\ unanswered \in Nat
    /\ stops \in 0..MaxStops /\ losses \in 0..MaxLosses /\ failures \in 0..MaxFailures

Cadence == Interval + Period

\* The nodes together ping once in an interval, however their ticks fall:
\* two wins are an interval apart, unless Redis lost the lease in between.
OnePingPerInterval ==
    [][lastPing' # lastPing => lastPing' >= lastPing + Interval \/ losses > 0]_vars

\* A scheduler that runs keeps the pings coming: once it has run for a full
\* cadence, the last win is no older than that, whoever won it, but for a
\* period for every tick that Redis failed it in a row.
PingsGoOn ==
    \A n \in Nodes :
        LET delay == Cadence + node[n].skipped * Period
        IN  now >= node[n].since + delay /\ node[n].pc = "wait" /\ node[n].next > now
                => now - lastPing <= delay

\* A toolset turns unhealthy only after its chances to answer: the intervals
\* that were won in vain since its last pong, the one that is due and the ticks
\* that Redis failed a scheduler that ran all that time make up the window.
UnhealthyIsEarned ==
    \A n \in Nodes :
        ~Healthy /\ node[n].since <= lastPong /\ node[n].pc = "wait" /\ node[n].next > now
            => (unanswered + 1) * Cadence + node[n].failed * Period > (Missed + 1) * Interval

\* What the comment of DefaultMissedPingThreshold says: that many missed pings
\* are tolerated.
MissesAreTolerated ==
    (~Healthy /\ \E n \in Nodes : node[n].since <= lastPong) => unanswered > Missed
=============================================================================
