------------------------ MODULE PingSchedule_proofs -------------------------
(***************************************************************************)
(* The schedulers of any number of nodes, at any phases, ping once in an   *)
(* interval and keep on pinging, and a toolset turns unhealthy only after  *)
(* pings were won in vain or Redis failed the ticks that would have won.   *)
(*                                                                         *)
(* The argument.  The lease never outlasts an interval from the last win,  *)
(* so a scheduler whose tick finds it held proves that the last win is at  *)
(* most an interval old, and at its next tick at most a cadence.  A tick   *)
(* that fails proves nothing and costs a period.  Hence while a scheduler  *)
(* runs since the last pong, its next tick is at most a cadence for every  *)
(* win that was not answered, one more cadence and a period for each of    *)
(* its failed ticks after that pong.                                       *)
(***************************************************************************)
EXTENDS PingSchedule, TLAPS

-----------------------------------------------------------------------------
(* Arithmetic. *)

\* The period, the interval and the cadence.
LEMMA Times ==
    /\ Period \in Nat /\ Period > 0 /\ Interval \in Nat /\ Cadence \in Nat /\ Down \in Nat
    /\ Interval = 4 * Period /\ Cadence = 5 * Period /\ Cadence = Interval + Period
    /\ LeaseDuration = Interval /\ MaxTime \in Nat /\ Down = MaxTime + Interval
BY ScheduleAssumption DEF Interval, Cadence, Down, LeaseDuration

\* One more of the same.
LEMMA OneMore ==
    ASSUME NEW u \in Nat, NEW c \in Nat
    PROVE  u * c \in Nat /\ (u + 1) * c = u * c + c
OBVIOUS

\* Multiples keep an order.
LEMMA MultiplesOrdered ==
    ASSUME NEW a \in Nat, NEW b \in Nat, NEW p \in Nat, a <= b
    PROVE  a * p <= b * p
<1>1. PICK d \in Nat : b = a + d
  <2>1. b - a \in Nat /\ b = a + (b - a)
    OBVIOUS
  <2> QED BY <2>1
<1>2. b * p = a * p + d * p /\ d * p \in Nat /\ a * p \in Nat
  BY <1>1
<1> QED BY <1>2

\* A win at "win" and a tick due at "due" come soon enough after a start, but
\* for s ticks that failed.
Soon(win, due, start, s) == due <= start + (s + 1) * Period \/ due <= win + Cadence + s * Period

\* A win at "win" and a tick due at "due" are paid for by u wins after a pong,
\* but for f ticks that failed.
Paid(win, due, pong, u, f) ==
    /\ win <= pong + u * Cadence + f * Period
    /\ due <= pong + (u + 1) * Cadence + f * Period

\* A later win, a tick that fails and a tick that finds a recent win.
LEMMA SoonSteps ==
    ASSUME NEW win \in Nat, NEW due \in Nat, NEW start \in Nat, NEW s \in Nat
    PROVE  /\ \A w \in Nat : w >= win /\ Soon(win, due, start, s) => Soon(w, due, start, s)
           /\ Soon(win, due, start, s) => Soon(win, due + Period, start, s + 1)
           /\ due <= win + Cadence => Soon(win, due, start, 0)
<1>1. /\ Period \in Nat /\ Cadence \in Nat /\ s + 1 \in Nat /\ s * Period \in Nat /\ 0 * Period = 0
      /\ (s + 1) * Period = s * Period + Period /\ (s + 1 + 1) * Period = (s + 1) * Period + Period
  <2>1. s + 1 \in Nat /\ Period \in Nat /\ Cadence \in Nat
    BY Times
  <2> QED BY <2>1, OneMore
<1>2. PICK x \in Nat : x = s * Period
  BY <1>1
<1>3. \A w, d, a, p, c \in Nat :
         /\ w >= win /\ (d <= a + (x + p) \/ d <= win + c + x) => d <= a + (x + p) \/ d <= w + c + x
         /\ (d <= a + (x + p) \/ d <= win + c + x)
               => (d + p <= a + (x + p + p) \/ d + p <= win + c + (x + p))
  OBVIOUS
<1>4. \A w \in Nat : w >= win /\ Soon(win, due, start, s) => Soon(w, due, start, s)
  BY <1>1, <1>2, <1>3 DEF Soon
<1>5. Soon(win, due, start, s) => Soon(win, due + Period, start, s + 1)
  BY <1>1, <1>2, <1>3 DEF Soon
<1>6. due <= win + Cadence => Soon(win, due, start, 0)
  BY <1>1 DEF Soon
<1> QED BY <1>4, <1>5, <1>6

\* One more win, a win that comes before the tick, a tick that fails, a tick
\* that finds a recent win, and the pong itself.
LEMMA PaidSteps ==
    ASSUME NEW win \in Nat, NEW due \in Nat, NEW pong \in Nat, NEW u \in Nat, NEW f \in Nat
    PROVE  /\ Paid(win, due, pong, u, f) => Paid(win, due, pong, u + 1, f)
           /\ \A t \in Nat : t <= due /\ Paid(win, due, pong, u, f) => Paid(t, due, pong, u + 1, f)
           /\ Paid(win, due, pong, u, f) => Paid(win, due + Period, pong, u, f + 1)
           /\ \A t \in Nat : t <= win + Cadence /\ Paid(win, due, pong, u, f) => Paid(win, t, pong, u, f)
           /\ win <= pong /\ due <= pong + Period => Paid(win, due, pong, u, f)
<1>1. /\ Period \in Nat /\ Cadence \in Nat /\ Period <= Cadence /\ u * Cadence \in Nat /\ f * Period \in Nat
      /\ (u + 1) * Cadence = u * Cadence + Cadence /\ (u + 1 + 1) * Cadence = (u + 1) * Cadence + Cadence
      /\ (f + 1) * Period = f * Period + Period
  <2>1. u + 1 \in Nat /\ Period \in Nat /\ Cadence \in Nat /\ Period <= Cadence
    BY Times
  <2> QED BY <2>1, OneMore
<1>2. PICK x \in Nat, y \in Nat : x = u * Cadence /\ y = f * Period
  BY <1>1
<1>3. \A w, d, q, p, c \in Nat : w <= q + x + y /\ d <= q + (x + c) + y =>
         /\ w <= q + (x + c) + y /\ d <= q + (x + c + c) + y
         /\ w <= q + x + (y + p) /\ d + p <= q + (x + c) + (y + p)
         /\ \A t \in Nat : /\ t <= d => t <= q + (x + c) + y
                           /\ t <= w + c => t <= q + (x + c) + y
  OBVIOUS
<1>4. Paid(win, due, pong, u, f) => Paid(win, due, pong, u + 1, f)
  BY <1>1, <1>2, <1>3 DEF Paid
<1>5. \A t \in Nat : t <= due /\ Paid(win, due, pong, u, f) => Paid(t, due, pong, u + 1, f)
  BY <1>1, <1>2, <1>3 DEF Paid
<1>6. Paid(win, due, pong, u, f) => Paid(win, due + Period, pong, u, f + 1)
  BY <1>1, <1>2, <1>3 DEF Paid
<1>7. \A t \in Nat : t <= win + Cadence /\ Paid(win, due, pong, u, f) => Paid(win, t, pong, u, f)
  BY <1>1, <1>2, <1>3 DEF Paid
<1>8. win <= pong /\ due <= pong + Period => Paid(win, due, pong, u, f)
  <2>1. \A w, d, q, p, c \in Nat : w <= q /\ d <= q + p /\ p <= c => w <= q + x + y /\ d <= q + (x + c) + y
    OBVIOUS
  <2> QED BY <1>1, <1>2, <2>1 DEF Paid
<1> QED BY <1>4, <1>5, <1>6, <1>7, <1>8

-----------------------------------------------------------------------------
(* The invariant. *)

\* The lease is an interval long, unless Redis lost it.
LeaseGood == lease = lastPing + Interval \/ (losses > 0 /\ lease = 0)

\* When a scheduler next competes for the lease.
Due(n) == IF node[n].pc = "wait" THEN node[n].next ELSE now

\* A scheduler waits for its next tick or has just ticked, one that is about to
\* ping has just won, and no win is too long ago for its failed ticks.
NodeGood(n) ==
    /\ node[n].pc = "wait" => now <= node[n].next /\ node[n].next <= now + Period
    /\ node[n].pc \in {"contend", "send"} => node[n].next = now + Period
    /\ node[n].pc = "send" => lastPing = now
    /\ node[n].pc # "down" => Soon(lastPing, Due(n), node[n].since, node[n].skipped)

\* A scheduler that ran all the time since the last pong.
Witness(n) == node[n].pc # "down" /\ node[n].since <= lastPong

\* The wins and the failed ticks since the last pong pay for the time.
Bought(n, u) == Paid(lastPing, Due(n), lastPong, u, node[n].failed)

Pending == \E n \in Nodes : node[n].pc = "send"

\* They do for every such scheduler, counting the win whose ping is about to be
\* published.
Counted(n) == Witness(n) => Bought(n, unanswered) \/ (Pending /\ Bought(n, unanswered + 1))

ScheduleInv ==
    /\ TypeOK
    /\ LeaseGood
    /\ \A n \in Nodes : NodeGood(n)
    /\ \A n \in Nodes : Counted(n)

States ==
    [pc : {"wait", "contend", "send", "down"}, next : 0..Down, since : 0..Down, skipped : Nat, failed : Nat]

\* Types of the numbers.
LEMMA Numbers ==
    ASSUME TypeOK
    PROVE  /\ now \in Nat /\ now <= MaxTime /\ lastPing \in Nat /\ lastPing <= now
           /\ lastPong \in Nat /\ lastPong <= now /\ lease \in Nat /\ unanswered \in Nat
           /\ losses \in Nat /\ stops \in Nat
           /\ node \in [Nodes -> States]
           /\ \A n \in Nodes : /\ node[n] \in States /\ node[n].next \in Nat /\ node[n].since \in Nat
                               /\ node[n].next <= Down /\ node[n].skipped \in Nat /\ node[n].failed \in Nat
                               /\ Due(n) \in Nat
<1>1. /\ now \in Nat /\ now <= MaxTime /\ lastPing \in Nat /\ lastPing <= now
      /\ lastPong \in Nat /\ lastPong <= now /\ lease \in Nat /\ unanswered \in Nat
      /\ losses \in Nat /\ stops \in Nat
  BY ScheduleAssumption, Times DEF TypeOK
<1>2. node \in [Nodes -> States]
  BY DEF TypeOK, States
<1>3. \A n \in Nodes : node[n] \in States
  BY <1>2
<1>4. \A n \in Nodes : /\ node[n].next \in 0..Down /\ node[n].since \in 0..Down
                       /\ node[n].skipped \in Nat /\ node[n].failed \in Nat
  BY <1>3 DEF States
<1>5. \A n \in Nodes : /\ node[n].next \in Nat /\ node[n].since \in Nat /\ node[n].next <= Down
  BY <1>4, Times
<1>6. \A n \in Nodes : Due(n) \in Nat
  BY <1>1, <1>5 DEF Due
<1> QED BY <1>1, <1>2, <1>3, <1>4, <1>5, <1>6

\* It holds initially.
LEMMA ScheduleInit ==
    ASSUME Init
    PROVE  ScheduleInv
<1> USE ScheduleAssumption
<1> DEFINE Fresh == [pc : {"wait"}, next : 0..Period, since : {0}, skipped : {0}, failed : {0}]
<1>0. node \in [Nodes -> Fresh]
  BY DEF Init
<1>1. ASSUME NEW n \in Nodes
      PROVE  /\ node[n].pc = "wait" /\ node[n].next \in 0..Period /\ node[n].since = 0
             /\ node[n].skipped = 0 /\ node[n].failed = 0
  BY <1>0
<1>2. node \in [Nodes -> States]
  <2>1. Fresh \subseteq States
    <3>1. 0..Period \subseteq 0..Down /\ 0 \in 0..Down
      BY Times
    <3> QED BY <3>1 DEF States
  <2> QED BY <1>0, <2>1
<1>3. TypeOK
  <2>1. /\ now \in 0..MaxTime /\ lease \in 0..MaxTime + 2 * Interval /\ lastPing \in 0..now /\ lastPong \in 0..now
        /\ failures \in 0..MaxFailures
    BY Times DEF Init
  <2> QED BY <1>2, <2>1 DEF Init, TypeOK, States
<1>4. LeaseGood
  BY Times DEF Init, LeaseGood
<1>5. ASSUME NEW n \in Nodes PROVE NodeGood(n) /\ Counted(n)
  <2>1. /\ now = 0 /\ lastPing = 0 /\ lastPong = 0 /\ unanswered = 0
        /\ node[n].next \in Nat /\ node[n].next <= Period /\ Period \in Nat /\ Period <= Cadence
    BY <1>1, Times DEF Init
  <2>2. Due(n) = node[n].next
    BY <1>1 DEF Due
  <2>3. Soon(0, node[n].next, 0, 0)
    <3>1. node[n].next <= 0 + Cadence
      BY <2>1, Times
    <3> QED BY <2>1, <3>1, SoonSteps
  <2>4. Paid(0, node[n].next, 0, 0, 0)
    <3>1. PICK z \in Nat, d \in Nat : z = 0 /\ d = node[n].next /\ z <= z /\ d <= z + Period
      BY <2>1
    <3>2. Paid(z, d, z, z, z)
      BY <3>1, PaidSteps
    <3> QED BY <3>1, <3>2
  <2> QED BY <1>1, <2>1, <2>2, <2>3, <2>4, Times DEF NodeGood, Counted, Bought
<1> QED BY <1>3, <1>4, <1>5 DEF ScheduleInv

-----------------------------------------------------------------------------
(* Schedulers that do not move. *)

\* A scheduler whose place is the same, while time stands still.
LEMMA OthersGood ==
    ASSUME ScheduleInv, NEW m \in Nodes, node'[m] = node[m], UNCHANGED now,
           lastPing' = lastPing \/ lastPing' = now
    PROVE  NodeGood(m)'
<1>1. NodeGood(m) /\ TypeOK
  BY DEF ScheduleInv
<1>2. /\ now \in Nat /\ lastPing \in Nat /\ lastPing <= now /\ node[m].since \in Nat /\ Due(m) \in Nat
      /\ node[m].skipped \in Nat
  BY <1>1, Numbers
<1>3. lastPing' \in Nat /\ lastPing' >= lastPing
  BY <1>2
<1>4. Due(m)' = Due(m)
  BY DEF Due
<1>5. Soon(lastPing, Due(m), node[m].since, node[m].skipped)
         => Soon(lastPing', Due(m), node[m].since, node[m].skipped)
  BY <1>2, <1>3, SoonSteps
<1>6. node[m].pc = "send" => lastPing' = now
  BY <1>1 DEF NodeGood
<1> QED BY <1>1, <1>4, <1>5, <1>6 DEF NodeGood

\* What counts for a scheduler is the same.
Steady(m) ==
    /\ Due(m)' = Due(m) /\ node'[m].failed = node[m].failed
    /\ Witness(m)' => Witness(m)

\* A tick is not over yet when somebody has just won.
LEMMA DueAhead ==
    ASSUME ScheduleInv, NEW m \in Nodes
    PROVE  /\ Witness(m) => now <= Due(m)
           /\ Pending => lastPing = now
<1>1. now \in Nat /\ NodeGood(m)
  BY Numbers DEF ScheduleInv
<1>2. Witness(m) => now <= Due(m)
  BY <1>1 DEF NodeGood, Due, Witness
<1>3. Pending => lastPing = now
  BY DEF Pending, ScheduleInv, NodeGood
<1> QED BY <1>2, <1>3

\* Nobody wins.
LEMMA CountKept ==
    ASSUME ScheduleInv, NEW m \in Nodes, Steady(m), UNCHANGED lastPing, UNCHANGED lastPong,
           UNCHANGED unanswered, Pending => Pending'
    PROVE  Counted(m)'
<1>1. Counted(m)
  BY DEF ScheduleInv
<1>2. \A u : Bought(m, u) <=> Paid(lastPing', Due(m)', lastPong', u, node'[m].failed)
  BY DEF Bought, Steady
<1>3. Bought(m, unanswered) => Bought(m, unanswered)'
  BY <1>2 DEF Bought
<1>4. Bought(m, unanswered + 1) => Bought(m, unanswered + 1)'
  BY <1>2 DEF Bought
<1> QED BY <1>1, <1>3, <1>4 DEF Counted, Steady

\* A win that was pending is counted.
LEMMA CountGrows ==
    ASSUME ScheduleInv, NEW m \in Nodes, Steady(m), UNCHANGED lastPing, UNCHANGED lastPong,
           unanswered' = unanswered + 1
    PROVE  Counted(m)'
<1>1. Counted(m)
  BY DEF ScheduleInv
<1>2. /\ lastPing \in Nat /\ lastPong \in Nat /\ unanswered \in Nat /\ Due(m) \in Nat /\ node[m].failed \in Nat
  BY Numbers DEF ScheduleInv
<1>3. Bought(m, unanswered) => Bought(m, unanswered + 1)
  BY <1>2, PaidSteps DEF Bought
<1>4. Bought(m, unanswered + 1) => Bought(m, unanswered)'
  BY DEF Bought, Steady
<1> QED BY <1>1, <1>3, <1>4 DEF Counted, Steady

\* The lease is won, whether the winner learns of it or not.
LEMMA CountWon ==
    ASSUME ScheduleInv, NEW m \in Nodes, Steady(m), lastPing' = now, UNCHANGED lastPong,
           \/ UNCHANGED unanswered /\ Pending'
           \/ unanswered' = unanswered + 1
    PROVE  Counted(m)'
<1>1. Counted(m)
  BY DEF ScheduleInv
<1>2. /\ lastPing \in Nat /\ lastPong \in Nat /\ unanswered \in Nat /\ Due(m) \in Nat /\ node[m].failed \in Nat
      /\ now \in Nat
  BY Numbers DEF ScheduleInv
<1>3. Witness(m) /\ Bought(m, unanswered) => Paid(now, Due(m), lastPong, unanswered + 1, node[m].failed)
  BY <1>2, PaidSteps, DueAhead DEF Bought
<1>4. Pending /\ Bought(m, unanswered + 1) => Paid(now, Due(m), lastPong, unanswered + 1, node[m].failed)
  BY DueAhead DEF Bought
<1>5. CASE UNCHANGED unanswered /\ Pending'
  <2>1. Paid(now, Due(m), lastPong, unanswered + 1, node[m].failed) => Bought(m, unanswered + 1)'
    BY <1>5 DEF Bought, Steady
  <2> QED BY <1>1, <1>3, <1>4, <1>5, <2>1 DEF Counted, Steady
<1>6. CASE unanswered' = unanswered + 1
  <2>1. Paid(now, Due(m), lastPong, unanswered + 1, node[m].failed) => Bought(m, unanswered)'
    BY <1>6 DEF Bought, Steady
  <2> QED BY <1>1, <1>3, <1>4, <2>1 DEF Counted, Steady
<1> QED BY <1>5, <1>6

\* A scheduler that stands still is steady, as long as no pong comes.
LEMMA StandingIsSteady ==
    ASSUME NEW m \in Nodes, node'[m] = node[m], UNCHANGED now, UNCHANGED lastPong
    PROVE  Steady(m)
BY DEF Steady, Due, Witness

-----------------------------------------------------------------------------
(* The steps. *)

\* A scheduler's record, and nothing else of the schedulers, changes.
LEMMA Placed ==
    ASSUME TypeOK, NEW n \in Nodes, NEW r \in States, node' = [node EXCEPT ![n] = r]
    PROVE  node' \in [Nodes -> States] /\ node'[n] = r /\ \A m \in Nodes \ {n} : node'[m] = node[m]
<1>1. node \in [Nodes -> States]
  BY Numbers
<1> QED BY <1>1

\* Redis has answered a scheduler.
LEMMA AnsweredPlace ==
    ASSUME TypeOK, NEW n \in Nodes, NEW pc \in {"wait", "send"}, Answered(n, pc)
    PROVE  /\ node' \in [Nodes -> States]
           /\ node'[n].pc = pc /\ node'[n].next = node[n].next /\ node'[n].since = node[n].since
           /\ node'[n].skipped = 0 /\ node'[n].failed = node[n].failed
           /\ \A m \in Nodes \ {n} : node'[m] = node[m]
<1>1. node \in [Nodes -> States] /\ node[n] \in States
  BY Numbers
<1>2. PICK r \in States : r = [node[n] EXCEPT !.pc = pc, !.skipped = 0]
  BY <1>1 DEF States
<1>3. node' = [node EXCEPT ![n] = r]
  BY <1>1, <1>2 DEF Answered
<1>4. node' \in [Nodes -> States] /\ node'[n] = r /\ \A m \in Nodes \ {n} : node'[m] = node[m]
  BY <1>3, Placed
<1> QED BY <1>1, <1>2, <1>4 DEF States

\* Redis has failed a scheduler.
LEMMA FailedPlace ==
    ASSUME TypeOK, NEW n \in Nodes, Failed(n)
    PROVE  /\ node' \in [Nodes -> States]
           /\ node'[n].pc = "wait" /\ node'[n].next = node[n].next /\ node'[n].since = node[n].since
           /\ node'[n].skipped = node[n].skipped + 1 /\ node'[n].failed = node[n].failed + 1
           /\ \A m \in Nodes \ {n} : node'[m] = node[m]
<1>1. node \in [Nodes -> States] /\ node[n] \in States /\ node[n].skipped \in Nat /\ node[n].failed \in Nat
  BY Numbers
<1>2. PICK s \in Nat, f \in Nat : s = node[n].skipped + 1 /\ f = node[n].failed + 1
  BY <1>1
<1>3. PICK r \in States : r = [node[n] EXCEPT !.pc = "wait", !.skipped = s, !.failed = f]
  BY <1>1 DEF States
<1>4. node' = [node EXCEPT ![n] = r]
  BY <1>1, <1>2, <1>3 DEF Failed
<1>5. node' \in [Nodes -> States] /\ node'[n] = r /\ \A m \in Nodes \ {n} : node'[m] = node[m]
  BY <1>4, Placed
<1> QED BY <1>1, <1>2, <1>3, <1>5 DEF States

\* The ticker of a scheduler fires.
LEMMA RunKeeps ==
    ASSUME ScheduleInv, NEW n \in Nodes, run(n)
    PROVE  ScheduleInv'
<1>0. TypeOK /\ LeaseGood /\ NodeGood(n)
  BY DEF ScheduleInv
<1>1. /\ node[n].pc = "wait" /\ node[n].next = now
      /\ node' = [node EXCEPT ![n].pc = "contend", ![n].next = @ + Period]
      /\ UNCHANGED now /\ UNCHANGED lease /\ UNCHANGED lastPing /\ UNCHANGED pings /\ UNCHANGED lastPong
      /\ UNCHANGED unanswered /\ UNCHANGED stops /\ UNCHANGED losses /\ UNCHANGED failures
  BY DEF run
<1>2. now \in Nat /\ now <= MaxTime /\ node[n] \in States /\ node \in [Nodes -> States]
  BY <1>0, Numbers
<1>3. PICK t \in 0..Down : t = now + Period
  BY <1>2, Times
<1>4. PICK r \in States : r = [node[n] EXCEPT !.pc = "contend", !.next = t]
  BY <1>2 DEF States
<1>5. node' = [node EXCEPT ![n] = r]
  BY <1>1, <1>2, <1>3, <1>4
<1>6. node' \in [Nodes -> States] /\ node'[n] = r /\ \A m \in Nodes \ {n} : node'[m] = node[m]
  BY <1>0, <1>5, Placed
<1>7. /\ node'[n].pc = "contend" /\ node'[n].next = t /\ node'[n].since = node[n].since
      /\ node'[n].skipped = node[n].skipped /\ node'[n].failed = node[n].failed
  BY <1>2, <1>4, <1>6 DEF States
<1>8. TypeOK'
  BY <1>0, <1>1, <1>6 DEF TypeOK, States
<1>9. Due(n)' = Due(n)
  BY <1>1, <1>7 DEF Due
<1>10. NodeGood(n)'
  BY <1>0, <1>1, <1>3, <1>7, <1>9 DEF NodeGood
<1>11. \A m \in Nodes : NodeGood(m)'
  BY <1>1, <1>6, <1>10, OthersGood
<1>12. Steady(n)
  BY <1>1, <1>7, <1>9 DEF Steady, Witness
<1>13. Pending => Pending'
  BY <1>1, <1>6 DEF Pending
<1>14. \A m \in Nodes : Counted(m)'
  BY <1>1, <1>6, <1>12, <1>13, StandingIsSteady, CountKept
<1> QED BY <1>0, <1>1, <1>8, <1>11, <1>14 DEF ScheduleInv, LeaseGood

\* A scheduler wins the lease and learns of it.
LEMMA WinKeeps ==
    ASSUME ScheduleInv, NEW n \in Nodes, node[n].pc = "contend",
           lease' = now + LeaseDuration, lastPing' = now, Answered(n, "send"),
           UNCHANGED <<unanswered, failures, now, pings, lastPong, stops, losses>>
    PROVE  ScheduleInv'
<1>0. TypeOK /\ NodeGood(n)
  BY DEF ScheduleInv
<1>1. now \in Nat /\ now <= MaxTime /\ node[n].since \in Nat
  BY <1>0, Numbers
<1>2. /\ node' \in [Nodes -> States]
      /\ node'[n].pc = "send" /\ node'[n].next = node[n].next /\ node'[n].since = node[n].since
      /\ node'[n].skipped = 0 /\ node'[n].failed = node[n].failed
      /\ \A m \in Nodes \ {n} : node'[m] = node[m]
  BY <1>0, AnsweredPlace
<1>3. lease' \in 0..MaxTime + 2 * Interval /\ lastPing' \in 0..now'
  BY <1>1, Times
<1>4. TypeOK'
  BY <1>0, <1>2, <1>3 DEF TypeOK, States
<1>5. Due(n)' = now /\ Due(n) = now
  BY <1>2 DEF Due
<1>6. NodeGood(n)'
  <2>1. Soon(now, now, node[n].since, 0)
    <3>1. now <= now + Cadence
      BY <1>1, Times
    <3> QED BY <1>1, <3>1, SoonSteps
  <2> QED BY <1>0, <1>2, <1>5, <2>1 DEF NodeGood
<1>7. \A m \in Nodes : NodeGood(m)'
  BY <1>2, <1>6, OthersGood
<1>8. Steady(n)
  BY <1>2, <1>5 DEF Steady, Witness
<1>9. Pending'
  BY <1>2 DEF Pending
<1>10. \A m \in Nodes : Counted(m)'
  <2>1. UNCHANGED now /\ UNCHANGED lastPong /\ UNCHANGED unanswered
    OBVIOUS
  <2> QED BY <1>2, <1>8, <1>9, <2>1, StandingIsSteady, CountWon
<1>11. LeaseGood'
  BY Times DEF LeaseGood, Interval
<1> QED BY <1>4, <1>7, <1>10, <1>11 DEF ScheduleInv

\* The pings that may be answered stay in range.
LEMMA PingsGrow ==
    ASSUME TypeOK, UNCHANGED now, unanswered' = unanswered + 1,
           pings' \in {pings, pings \cup {[at |-> now, nth |-> unanswered + 1]}}
    PROVE  pings' \subseteq [at : 0..now', nth : 1..unanswered']
<1>1. now \in Nat /\ unanswered \in Nat
  BY Numbers
<1>2. 1..unanswered \subseteq 1..unanswered' /\ unanswered + 1 \in 1..unanswered' /\ now \in 0..now
  BY <1>1
<1>3. [at |-> now, nth |-> unanswered + 1] \in [at : 0..now', nth : 1..unanswered']
  BY <1>2
<1>4. pings \subseteq [at : 0..now, nth : 1..unanswered]
  BY DEF TypeOK
<1>5. pings \subseteq [at : 0..now', nth : 1..unanswered']
  BY <1>2, <1>4
<1> QED BY <1>3, <1>5

\* One more tick has failed.
LEMMA FailuresBounded ==
    ASSUME TypeOK, MayFail
    PROVE  failures' \in 0..MaxFailures
<1>1. failures \in 0..MaxFailures /\ MaxFailures \in Nat
  BY ScheduleAssumption DEF TypeOK
<1> QED BY <1>1 DEF MayFail

\* The next tick of a scheduler that ticked and waits again, and a tick found
\* or left a win at most an interval old.
LEMMA WaitsAgain ==
    ASSUME ScheduleInv, NEW n \in Nodes, node[n].pc = "contend", UNCHANGED now,
           node'[n].pc = "wait", node'[n].next = node[n].next, node'[n].since = node[n].since,
           node'[n].skipped = 0, NEW win \in Nat, lastPing' = win, now <= win + Interval
    PROVE  NodeGood(n)' /\ Due(n)' = now + Period /\ Due(n) = now /\ now + Period <= win + Cadence
<1>0. TypeOK /\ NodeGood(n)
  BY DEF ScheduleInv
<1>1. now \in Nat /\ node[n].since \in Nat /\ Period \in Nat
  BY <1>0, Numbers, Times
<1>2. node[n].next = now + Period /\ Due(n) = now
  BY <1>0 DEF NodeGood, Due
<1>3. Due(n)' = now + Period
  BY <1>2 DEF Due
<1>4. now + Period <= win + Cadence
  BY <1>1, Times
<1>5. Soon(win, now + Period, node[n].since, 0)
  <2>1. now + Period \in Nat
    BY <1>1
  <2> QED BY <1>1, <1>4, <2>1, SoonSteps
<1>6. Soon(lastPing, Due(n), node[n].since, node[n].skipped)'
  BY <1>3, <1>5
<1>7. now <= now + Period /\ now + Period <= now + Period /\ now' = now /\ node'[n].next = now + Period
  BY <1>1, <1>2
<1>8. NodeGood(n)'
  BY <1>6, <1>7 DEF NodeGood
<1> QED BY <1>2, <1>3, <1>4, <1>8

\* A scheduler wins the lease and does not learn of it.
LEMMA LostWinKeeps ==
    ASSUME ScheduleInv, NEW n \in Nodes, node[n].pc = "contend",
           lease' = now + LeaseDuration, lastPing' = now, MayFail, Answered(n, "wait"),
           unanswered' = unanswered + 1,
           UNCHANGED <<now, pings, lastPong, stops, losses>>
    PROVE  ScheduleInv'
<1>0. TypeOK /\ Counted(n)
  BY DEF ScheduleInv
<1>1. /\ now \in Nat /\ now <= MaxTime /\ unanswered \in Nat /\ lastPing \in Nat /\ lastPong \in Nat
      /\ node[n].failed \in Nat
  BY <1>0, Numbers
<1>2. /\ node' \in [Nodes -> States]
      /\ node'[n].pc = "wait" /\ node'[n].next = node[n].next /\ node'[n].since = node[n].since
      /\ node'[n].skipped = 0 /\ node'[n].failed = node[n].failed
      /\ \A m \in Nodes \ {n} : node'[m] = node[m]
  BY <1>0, AnsweredPlace
<1>3. lease' \in 0..MaxTime + 2 * Interval /\ lastPing' \in 0..now' /\ unanswered' \in Nat
  BY <1>1, Times
<1>4. pings' \subseteq [at : 0..now', nth : 1..unanswered']
  BY <1>0, PingsGrow
<1>5. TypeOK'
  BY <1>0, <1>2, <1>3, <1>4, FailuresBounded DEF TypeOK, States
<1>6. NodeGood(n)' /\ Due(n)' = now + Period /\ Due(n) = now /\ now + Period <= now + Cadence
  <2>1. now <= now + Interval
    BY <1>1, Times
  <2> QED BY <1>1, <1>2, <2>1, WaitsAgain
<1>7. \A m \in Nodes : NodeGood(m)'
  BY <1>2, <1>6, OthersGood
<1>8. Counted(n)'
  <2>1. Witness(n)' => Witness(n)
    BY <1>2 DEF Witness
  <2>2. unanswered + 1 \in Nat /\ now + Period \in Nat
    BY <1>1, Times
  <2>3. Bought(n, unanswered) => Paid(now, now, lastPong, unanswered + 1, node[n].failed)
    <3>1. now <= now
      BY <1>1
    <3> QED BY <1>1, <1>6, <3>1, PaidSteps DEF Bought
  <2>4. Pending /\ Bought(n, unanswered + 1) => Paid(now, now, lastPong, unanswered + 1, node[n].failed)
    BY <1>6, DueAhead DEF Bought
  <2>5. Paid(now, now, lastPong, unanswered + 1, node[n].failed)
           => Paid(now, now + Period, lastPong, unanswered + 1, node[n].failed)
    BY <1>1, <1>6, <2>2, PaidSteps
  <2>6. Paid(now, now + Period, lastPong, unanswered + 1, node[n].failed) => Bought(n, unanswered)'
    BY <1>2, <1>6 DEF Bought
  <2> QED BY <1>0, <2>1, <2>3, <2>4, <2>5, <2>6 DEF Counted
<1>9. ASSUME NEW m \in Nodes \ {n} PROVE Counted(m)'
  <2>1. UNCHANGED now /\ UNCHANGED lastPong
    OBVIOUS
  <2> QED BY <1>2, <2>1, StandingIsSteady, CountWon
<1>10. LeaseGood'
  BY Times DEF LeaseGood, Interval
<1> QED BY <1>5, <1>7, <1>8, <1>9, <1>10 DEF ScheduleInv

\* A scheduler finds the lease held.
LEMMA HeldKeeps ==
    ASSUME ScheduleInv, NEW n \in Nodes, node[n].pc = "contend", Held, Answered(n, "wait"),
           UNCHANGED <<lease, lastPing, unanswered, failures, now, pings, lastPong, stops, losses>>
    PROVE  ScheduleInv'
<1>0. TypeOK /\ LeaseGood /\ Counted(n)
  BY DEF ScheduleInv
<1>1. /\ now \in Nat /\ unanswered \in Nat /\ lastPing \in Nat /\ lastPong \in Nat /\ lease \in Nat
      /\ node[n].failed \in Nat
  BY <1>0, Numbers
<1>2. /\ node' \in [Nodes -> States]
      /\ node'[n].pc = "wait" /\ node'[n].next = node[n].next /\ node'[n].since = node[n].since
      /\ node'[n].skipped = 0 /\ node'[n].failed = node[n].failed
      /\ \A m \in Nodes \ {n} : node'[m] = node[m]
  BY <1>0, AnsweredPlace
<1>3. TypeOK'
  BY <1>0, <1>2 DEF TypeOK, States
<1>4. now <= lastPing + Interval
  BY <1>0, <1>1, Times DEF LeaseGood, Held
<1>5. NodeGood(n)' /\ Due(n)' = now + Period /\ Due(n) = now /\ now + Period <= lastPing + Cadence
  BY <1>1, <1>2, <1>4, WaitsAgain
<1>6. \A m \in Nodes : NodeGood(m)'
  BY <1>2, <1>5, OthersGood
<1>7. Pending => Pending'
  BY <1>2 DEF Pending
<1>8. Counted(n)'
  <2>1. Witness(n)' => Witness(n)
    BY <1>2 DEF Witness
  <2>2. unanswered + 1 \in Nat /\ now + Period \in Nat
    BY <1>1, Times
  <2>3. ASSUME NEW u \in Nat
        PROVE  Bought(n, u) => Paid(lastPing, now + Period, lastPong, u, node[n].failed)
    BY <1>1, <1>5, <2>2, PaidSteps DEF Bought
  <2>4. Paid(lastPing, now + Period, lastPong, unanswered, node[n].failed) => Bought(n, unanswered)'
    BY <1>2, <1>5 DEF Bought
  <2>5. Paid(lastPing, now + Period, lastPong, unanswered + 1, node[n].failed) => Bought(n, unanswered + 1)'
    BY <1>2, <1>5 DEF Bought
  <2> QED BY <1>0, <1>1, <1>7, <2>1, <2>2, <2>3, <2>4, <2>5 DEF Counted
<1>9. ASSUME NEW m \in Nodes \ {n} PROVE Counted(m)'
  <2>1. UNCHANGED now /\ UNCHANGED lastPing /\ UNCHANGED lastPong /\ UNCHANGED unanswered
    OBVIOUS
  <2> QED BY <1>2, <1>7, <2>1, StandingIsSteady, CountKept
<1> QED BY <1>0, <1>3, <1>6, <1>8, <1>9 DEF ScheduleInv, LeaseGood

\* Redis fails a scheduler's tick.
LEMMA FailKeeps ==
    ASSUME ScheduleInv, NEW n \in Nodes, node[n].pc = "contend", MayFail, Failed(n),
           UNCHANGED <<lease, lastPing, unanswered, now, pings, lastPong, stops, losses>>
    PROVE  ScheduleInv'
<1>0. TypeOK /\ LeaseGood /\ NodeGood(n) /\ Counted(n)
  BY DEF ScheduleInv
<1>1. /\ now \in Nat /\ unanswered \in Nat /\ lastPing \in Nat /\ lastPong \in Nat
      /\ node[n].failed \in Nat /\ node[n].skipped \in Nat /\ node[n].since \in Nat
  BY <1>0, Numbers
<1>2. /\ node' \in [Nodes -> States]
      /\ node'[n].pc = "wait" /\ node'[n].next = node[n].next /\ node'[n].since = node[n].since
      /\ node'[n].skipped = node[n].skipped + 1 /\ node'[n].failed = node[n].failed + 1
      /\ \A m \in Nodes \ {n} : node'[m] = node[m]
  BY <1>0, FailedPlace
<1>3. TypeOK'
  BY <1>0, <1>2, FailuresBounded DEF TypeOK, States
<1>4. /\ Due(n)' = now + Period /\ Due(n) = now /\ node[n].next = now + Period
      /\ now <= now + Period /\ now + Period <= now + Period
  BY <1>0, <1>1, <1>2, Times DEF NodeGood, Due
<1>5. NodeGood(n)'
  <2>1. Soon(lastPing, now, node[n].since, node[n].skipped)
    BY <1>0, <1>4 DEF NodeGood
  <2>2. Soon(lastPing, now + Period, node[n].since, node[n].skipped + 1)
    BY <1>1, <2>1, SoonSteps
  <2>3. Soon(lastPing, Due(n), node[n].since, node[n].skipped)'
    BY <1>2, <1>4, <2>2
  <2> QED BY <1>2, <1>4, <2>3 DEF NodeGood
<1>6. \A m \in Nodes : NodeGood(m)'
  BY <1>2, <1>5, OthersGood
<1>7. Pending => Pending'
  BY <1>2 DEF Pending
<1>8. Counted(n)'
  <2>1. Witness(n)' => Witness(n)
    BY <1>2 DEF Witness
  <2>2. unanswered + 1 \in Nat
    BY <1>1
  <2>3. ASSUME NEW u \in Nat
        PROVE  Bought(n, u) => Paid(lastPing, now + Period, lastPong, u, node[n].failed + 1)
    BY <1>1, <1>4, PaidSteps DEF Bought
  <2>4. Paid(lastPing, now + Period, lastPong, unanswered, node[n].failed + 1) => Bought(n, unanswered)'
    BY <1>2, <1>4 DEF Bought
  <2>5. Paid(lastPing, now + Period, lastPong, unanswered + 1, node[n].failed + 1)
           => Bought(n, unanswered + 1)'
    BY <1>2, <1>4 DEF Bought
  <2> QED BY <1>0, <1>1, <1>7, <2>1, <2>2, <2>3, <2>4, <2>5 DEF Counted
<1>9. ASSUME NEW m \in Nodes \ {n} PROVE Counted(m)'
  <2>1. UNCHANGED now /\ UNCHANGED lastPing /\ UNCHANGED lastPong /\ UNCHANGED unanswered
    OBVIOUS
  <2> QED BY <1>2, <1>7, <2>1, StandingIsSteady, CountKept
<1> QED BY <1>0, <1>3, <1>6, <1>8, <1>9 DEF ScheduleInv, LeaseGood

\* A scheduler competes for the lease.
LEMMA AcquireKeeps ==
    ASSUME ScheduleInv, NEW n \in Nodes, acquirePingLease(n)
    PROVE  ScheduleInv'
<1>1. /\ node[n].pc = "contend"
      /\ UNCHANGED now /\ UNCHANGED pings /\ UNCHANGED lastPong /\ UNCHANGED stops /\ UNCHANGED losses
  BY DEF acquirePingLease
<1>2. CASE /\ lease' = now + LeaseDuration /\ lastPing' = now
           /\ Answered(n, "send") /\ UNCHANGED <<unanswered, failures>>
  BY <1>1, <1>2, WinKeeps
<1>3. CASE /\ lease' = now + LeaseDuration /\ lastPing' = now
           /\ MayFail /\ Answered(n, "wait") /\ unanswered' = unanswered + 1
  BY <1>1, <1>3, LostWinKeeps
<1>4. CASE Held /\ Answered(n, "wait") /\ UNCHANGED <<lease, lastPing, unanswered, failures>>
  BY <1>1, <1>4, HeldKeeps
<1>5. CASE MayFail /\ Failed(n) /\ UNCHANGED <<lease, lastPing, unanswered>>
  BY <1>1, <1>5, FailKeeps
<1> QED BY <1>2, <1>3, <1>4, <1>5 DEF acquirePingLease

\* The winner publishes, or fails to.
LEMMA SendKeeps ==
    ASSUME ScheduleInv, NEW n \in Nodes, sendPing(n)
    PROVE  ScheduleInv'
<1>0. TypeOK /\ LeaseGood /\ NodeGood(n) /\ Counted(n)
  BY DEF ScheduleInv
<1>1. /\ node[n].pc = "send" /\ node' = [node EXCEPT ![n].pc = "wait"] /\ unanswered' = unanswered + 1
      /\ pings' \in {pings, pings \cup {[at |-> now, nth |-> unanswered + 1]}}
      /\ UNCHANGED now /\ UNCHANGED lease /\ UNCHANGED lastPing /\ UNCHANGED lastPong
      /\ UNCHANGED stops /\ UNCHANGED losses /\ UNCHANGED failures
  BY DEF sendPing
<1>2. /\ now \in Nat /\ unanswered \in Nat /\ lastPong \in Nat /\ node[n].failed \in Nat
      /\ node[n] \in States /\ node \in [Nodes -> States] /\ node[n].since \in Nat /\ node[n].skipped \in Nat
  BY <1>0, Numbers
<1>3. PICK r \in States : r = [node[n] EXCEPT !.pc = "wait"]
  BY <1>2 DEF States
<1>4. node' = [node EXCEPT ![n] = r]
  BY <1>1, <1>2, <1>3
<1>5. node' \in [Nodes -> States] /\ node'[n] = r /\ \A m \in Nodes \ {n} : node'[m] = node[m]
  BY <1>0, <1>4, Placed
<1>6. /\ node'[n].pc = "wait" /\ node'[n].next = node[n].next /\ node'[n].since = node[n].since
      /\ node'[n].skipped = node[n].skipped /\ node'[n].failed = node[n].failed
  BY <1>2, <1>3, <1>5 DEF States
<1>7. pings' \subseteq [at : 0..now', nth : 1..unanswered'] /\ unanswered' \in Nat
  BY <1>0, <1>1, <1>2, PingsGrow
<1>8. TypeOK'
  BY <1>0, <1>1, <1>5, <1>7 DEF TypeOK, States
<1>9. node[n].next = now + Period /\ lastPing = now /\ Due(n) = now /\ Due(n)' = now + Period
  BY <1>0, <1>1, <1>6 DEF NodeGood, Due
<1>10. /\ now + Period \in Nat /\ now <= now + Period /\ now + Period <= now + Period
       /\ now + Period <= now + Cadence
  BY <1>2, Times
<1>11. NodeGood(n)'
  <2>1. PICK t \in Nat, a \in Nat, s \in Nat :
           t = now + Period /\ a = node[n].since /\ s = node[n].skipped
    BY <1>2, <1>10
  <2>2. s * Period \in Nat
    BY <2>1, OneMore, Times
  <2>3. Soon(now, t, a, s)
    <3>1. t <= now + Cadence + s * Period
      BY <1>2, <1>10, <2>1, <2>2, Times
    <3> QED BY <3>1 DEF Soon
  <2>4. Soon(lastPing, Due(n), node[n].since, node[n].skipped)'
    BY <1>1, <1>6, <1>9, <2>1, <2>3
  <2> QED BY <1>1, <1>6, <1>9, <1>10, <2>4 DEF NodeGood
<1>12. \A m \in Nodes : NodeGood(m)'
  BY <1>1, <1>5, <1>11, OthersGood
<1>13. Counted(n)'
  <2>1. Witness(n)' => Witness(n)
    BY <1>1, <1>6 DEF Witness
  <2>2. unanswered + 1 \in Nat
    BY <1>2
  <2>3. Bought(n, unanswered) \/ Bought(n, unanswered + 1)
           => Paid(now, now, lastPong, unanswered + 1, node[n].failed)
    BY <1>2, <1>9, PaidSteps DEF Bought
  <2>4. Paid(now, now, lastPong, unanswered + 1, node[n].failed)
           => Paid(now, now + Period, lastPong, unanswered + 1, node[n].failed)
    BY <1>2, <1>10, <2>2, PaidSteps
  <2>5. Paid(now, now + Period, lastPong, unanswered + 1, node[n].failed) => Bought(n, unanswered)'
    BY <1>1, <1>6, <1>9 DEF Bought
  <2> QED BY <1>0, <2>1, <2>3, <2>4, <2>5 DEF Counted
<1>14. ASSUME NEW m \in Nodes \ {n} PROVE Counted(m)'
  BY <1>1, <1>5, StandingIsSteady, CountGrows
<1> QED BY <1>0, <1>1, <1>8, <1>12, <1>13, <1>14 DEF ScheduleInv, LeaseGood

\* A pong is recorded.
LEMMA PongKeeps ==
    ASSUME ScheduleInv, NEW p \in pings, RecordPong(p)
    PROVE  ScheduleInv'
<1>0. TypeOK /\ LeaseGood
  BY DEF ScheduleInv
<1>1. /\ lastPong' = now /\ unanswered' = unanswered - p.nth
      /\ pings' = {[q EXCEPT !.nth = @ - p.nth] : q \in {r \in pings : r.nth > p.nth}}
      /\ node' = [n \in Nodes |-> [node[n] EXCEPT !.failed = 0]]
      /\ UNCHANGED now /\ UNCHANGED lease /\ UNCHANGED lastPing
      /\ UNCHANGED stops /\ UNCHANGED losses /\ UNCHANGED failures
  BY DEF RecordPong
<1>2. now \in Nat /\ unanswered \in Nat /\ lastPing \in Nat /\ lastPing <= now /\ node \in [Nodes -> States]
  BY <1>0, Numbers
<1>3. pings \subseteq [at : 0..now, nth : 1..unanswered] /\ p.nth \in 1..unanswered
  BY <1>0 DEF TypeOK
<1>4. unanswered' \in Nat
  BY <1>1, <1>2, <1>3
<1>5. ASSUME NEW q \in pings, q.nth > p.nth
      PROVE  [q EXCEPT !.nth = @ - p.nth] \in [at : 0..now', nth : 1..unanswered']
  <2>1. q \in [at : 0..now, nth : 1..unanswered]
    BY <1>3
  <2>2. PICK k \in 1..unanswered' : k = q.nth - p.nth
    <3>1. q.nth \in 1..unanswered
      BY <2>1
    <3> QED BY <1>1, <1>2, <1>3, <1>5, <3>1
  <2>3. [q EXCEPT !.nth = k] \in [at : 0..now, nth : 1..unanswered']
    BY <2>1
  <2> QED BY <1>1, <2>1, <2>2, <2>3
<1>6. pings' \subseteq [at : 0..now', nth : 1..unanswered']
  BY <1>1, <1>5
<1>7. ASSUME NEW n \in Nodes
      PROVE  /\ node'[n] = [node[n] EXCEPT !.failed = 0] /\ node'[n] \in States
             /\ node'[n].pc = node[n].pc /\ node'[n].next = node[n].next /\ node'[n].since = node[n].since
             /\ node'[n].skipped = node[n].skipped /\ node'[n].failed = 0
  <2>1. node[n] \in States
    BY <1>2
  <2>2. node'[n] = [node[n] EXCEPT !.failed = 0]
    BY <1>1
  <2> QED BY <2>1, <2>2 DEF States
<1>8. TypeOK'
  <2>1. lastPong' \in 0..now'
    BY <1>1, <1>2
  <2>2. node' \in [Nodes -> States]
    BY <1>1, <1>7
  <2> QED BY <1>0, <1>1, <1>4, <1>6, <2>1, <2>2 DEF TypeOK, States
<1>9. ASSUME NEW n \in Nodes PROVE NodeGood(n)' /\ Counted(n)'
  <2>1. NodeGood(n) /\ node[n].pc \in {"wait", "contend", "send", "down"}
    BY <1>2 DEF ScheduleInv, States
  <2>2. Due(n)' = Due(n) /\ Due(n) \in Nat
    BY <1>0, <1>1, <1>7, Numbers DEF Due
  <2>3. NodeGood(n)'
    BY <1>1, <1>7, <2>1, <2>2 DEF NodeGood
  <2>4. node[n].pc # "down" => Due(n) <= now + Period
    BY <1>2, <2>1, Times DEF NodeGood, Due
  <2>5. node[n].pc # "down" => Paid(lastPing, Due(n), now, unanswered', 0)
    BY <1>2, <1>4, <2>2, <2>4, PaidSteps
  <2>6. Witness(n)' => Bought(n, unanswered)'
    BY <1>1, <1>7, <2>2, <2>5 DEF Bought, Witness
  <2> QED BY <2>3, <2>6 DEF Counted
<1> QED BY <1>0, <1>1, <1>8, <1>9 DEF ScheduleInv, LeaseGood

\* A node stops, perhaps between its win and its ping.
LEMMA CloseKeeps ==
    ASSUME ScheduleInv, NEW n \in Nodes, Close(n)
    PROVE  ScheduleInv'
<1>0. TypeOK /\ LeaseGood
  BY DEF ScheduleInv
<1>1. /\ node' = [node EXCEPT ![n] = Stopped]
      /\ unanswered' = IF node[n].pc = "send" THEN unanswered + 1 ELSE unanswered
      /\ stops < MaxStops /\ stops' = stops + 1
      /\ UNCHANGED now /\ UNCHANGED lease /\ UNCHANGED lastPing /\ UNCHANGED pings /\ UNCHANGED lastPong
      /\ UNCHANGED losses /\ UNCHANGED failures
  BY DEF Close
<1>2. now \in Nat /\ unanswered \in Nat /\ node \in [Nodes -> States]
  BY <1>0, Numbers
<1>3. Stopped \in States
  BY Times DEF States, Stopped
<1>4. node' \in [Nodes -> States] /\ node'[n].pc = "down" /\ \A m \in Nodes \ {n} : node'[m] = node[m]
  BY <1>0, <1>1, <1>3, Placed DEF Stopped
<1>5. pings' \subseteq [at : 0..now', nth : 1..unanswered'] /\ unanswered' \in Nat
  <2>1. CASE node[n].pc = "send"
    BY <1>0, <1>1, <1>2, <2>1, PingsGrow
  <2>2. CASE node[n].pc # "send"
    BY <1>0, <1>1, <1>2, <2>2 DEF TypeOK
  <2> QED BY <2>1, <2>2
<1>6. stops' \in 0..MaxStops
  <2>1. stops \in 0..MaxStops /\ MaxStops \in Nat
    BY <1>0, ScheduleAssumption DEF TypeOK
  <2> QED BY <1>1, <2>1
<1>7. TypeOK'
  BY <1>0, <1>1, <1>4, <1>5, <1>6 DEF TypeOK, States
<1>8. NodeGood(n)' /\ Counted(n)'
  BY <1>4 DEF NodeGood, Counted, Witness
<1>9. \A m \in Nodes : NodeGood(m)'
  BY <1>1, <1>4, <1>8, OthersGood
<1>10. ASSUME NEW m \in Nodes \ {n} PROVE Counted(m)'
  <2>0. Steady(m)
    BY <1>1, <1>4, StandingIsSteady
  <2>1. CASE node[n].pc = "send"
    BY <1>1, <2>0, <2>1, CountGrows
  <2>2. CASE node[n].pc # "send"
    <3>1. Pending => Pending'
      BY <1>4, <2>2 DEF Pending
    <3> QED BY <1>1, <2>0, <2>2, <3>1, CountKept
  <2> QED BY <2>1, <2>2
<1> QED BY <1>0, <1>1, <1>7, <1>8, <1>9, <1>10 DEF ScheduleInv, LeaseGood

\* A node starts.
LEMMA StartKeeps ==
    ASSUME ScheduleInv, NEW n \in Nodes, newHealthTracker(n)
    PROVE  ScheduleInv'
<1>0. TypeOK /\ LeaseGood
  BY DEF ScheduleInv
<1>1. /\ node[n].pc = "down" /\ node' = [node EXCEPT ![n] = Running(now)]
      /\ UNCHANGED now /\ UNCHANGED lease /\ UNCHANGED lastPing /\ UNCHANGED pings /\ UNCHANGED lastPong
      /\ UNCHANGED unanswered /\ UNCHANGED stops /\ UNCHANGED losses /\ UNCHANGED failures
  BY DEF newHealthTracker
<1>2. /\ now \in Nat /\ now <= MaxTime /\ unanswered \in Nat /\ node \in [Nodes -> States]
      /\ lastPing \in Nat /\ lastPing <= now /\ lastPong \in Nat /\ lastPong <= now
  BY <1>0, Numbers
<1>3. PICK t \in 0..Down : t = now + Period
  BY <1>2, Times
<1>4. now \in 0..Down /\ t \in Nat /\ now <= t /\ t <= now + Period
  BY <1>2, <1>3, Times
<1>5. PICK r \in States : r = [pc |-> "wait", next |-> t, since |-> now, skipped |-> 0, failed |-> 0]
  BY <1>3, <1>4 DEF States
<1>6. node' = [node EXCEPT ![n] = r]
  BY <1>1, <1>3, <1>5 DEF Running
<1>7. node' \in [Nodes -> States] /\ node'[n] = r /\ \A m \in Nodes \ {n} : node'[m] = node[m]
  BY <1>0, <1>6, Placed
<1>8. /\ node'[n].pc = "wait" /\ node'[n].next = t /\ node'[n].since = now
      /\ node'[n].skipped = 0 /\ node'[n].failed = 0 /\ Due(n)' = t
  BY <1>5, <1>7 DEF Due
<1>9. TypeOK'
  BY <1>0, <1>1, <1>7 DEF TypeOK, States
<1>10. NodeGood(n)'
  <2>1. Soon(lastPing, t, now, 0)
    <3>1. (0 + 1) * Period = Period
      BY Times
    <3> QED BY <1>4, <3>1 DEF Soon
  <2>2. Soon(lastPing, Due(n), node[n].since, node[n].skipped)'
    BY <1>1, <1>8, <2>1
  <2> QED BY <1>1, <1>4, <1>8, <2>2 DEF NodeGood
<1>11. \A m \in Nodes : NodeGood(m)'
  BY <1>1, <1>7, <1>10, OthersGood
<1>12. Counted(n)'
  <2>1. CASE lastPong = now
    <3>1. PICK z \in Nat : z = 0
      OBVIOUS
    <3>2. Paid(lastPing, t, now, unanswered, z)
      BY <1>2, <1>4, <3>1, PaidSteps
    <3>3. Bought(n, unanswered)'
      BY <1>1, <1>8, <2>1, <3>1, <3>2 DEF Bought
    <3> QED BY <3>3 DEF Counted
  <2>2. CASE lastPong # now
    BY <1>1, <1>2, <1>8, <2>2 DEF Counted, Witness
  <2> QED BY <2>1, <2>2
<1>13. ASSUME NEW m \in Nodes \ {n} PROVE Counted(m)'
  <2>1. Pending => Pending'
    BY <1>1, <1>7 DEF Pending
  <2> QED BY <1>1, <1>7, <2>1, StandingIsSteady, CountKept
<1> QED BY <1>0, <1>1, <1>9, <1>11, <1>12, <1>13 DEF ScheduleInv, LeaseGood

\* Redis loses the lease.
LEMMA LossKeeps ==
    ASSUME ScheduleInv, LoseLease
    PROVE  ScheduleInv'
<1>0. TypeOK /\ LeaseGood
  BY DEF ScheduleInv
<1>1. /\ losses < MaxLosses /\ losses' = losses + 1 /\ lease' = 0
      /\ UNCHANGED now /\ UNCHANGED node /\ UNCHANGED lastPing /\ UNCHANGED pings /\ UNCHANGED lastPong
      /\ UNCHANGED unanswered /\ UNCHANGED stops /\ UNCHANGED failures
  BY DEF LoseLease
<1>2. losses \in 0..MaxLosses /\ MaxLosses \in Nat
  BY <1>0, ScheduleAssumption DEF TypeOK
<1>3. losses' \in 0..MaxLosses /\ losses' > 0 /\ lease' \in 0..MaxTime + 2 * Interval
  BY <1>1, <1>2, Times
<1>4. TypeOK'
  BY <1>0, <1>1, <1>3 DEF TypeOK
<1>5. \A m \in Nodes : NodeGood(m)'
  BY <1>1, OthersGood
<1>6. Pending => Pending'
  BY <1>1 DEF Pending
<1>7. \A m \in Nodes : Counted(m)'
  BY <1>1, <1>6, StandingIsSteady, CountKept
<1> QED BY <1>1, <1>3, <1>4, <1>5, <1>7 DEF ScheduleInv, LeaseGood

\* Time passes: no scheduler has anything due.
LEMMA TickKeeps ==
    ASSUME ScheduleInv, Tick
    PROVE  ScheduleInv'
<1>0. TypeOK /\ LeaseGood
  BY DEF ScheduleInv
<1>1. /\ now < MaxTime /\ now' = now + 1
      /\ \A n \in Nodes : node[n].pc \in {"wait", "down"} /\ node[n].next > now
      /\ pings' \subseteq pings
      /\ UNCHANGED node /\ UNCHANGED lease /\ UNCHANGED lastPing /\ UNCHANGED lastPong
      /\ UNCHANGED unanswered /\ UNCHANGED stops /\ UNCHANGED losses /\ UNCHANGED failures
  BY DEF Tick
<1>2. /\ now \in Nat /\ lastPing \in Nat /\ lastPing <= now /\ lastPong \in Nat /\ lastPong <= now
      /\ \A n \in Nodes : node[n].next \in Nat
  BY <1>0, Numbers
<1>3. now' \in 0..MaxTime /\ lastPing' \in 0..now' /\ lastPong' \in 0..now' /\ 0..now \subseteq 0..now'
  BY <1>1, <1>2, Times
<1>4. pings' \subseteq [at : 0..now', nth : 1..unanswered']
  <2>1. pings \subseteq [at : 0..now, nth : 1..unanswered]
    BY <1>0 DEF TypeOK
  <2> QED BY <1>1, <1>3, <2>1
<1>5. TypeOK'
  BY <1>0, <1>1, <1>3, <1>4 DEF TypeOK
<1>6. ASSUME NEW n \in Nodes, node[n].pc # "down" PROVE NodeGood(n)' /\ Steady(n)
  <2>1. NodeGood(n) /\ node[n].pc = "wait"
    BY <1>1, <1>6 DEF ScheduleInv
  <2>2. now' <= node[n].next /\ node[n].next <= now' + Period
    <3>1. node[n].next <= now + Period /\ node[n].next > now
      BY <1>1, <2>1 DEF NodeGood
    <3> QED BY <1>1, <1>2, <3>1, Times
  <2>3. Due(n)' = Due(n)
    BY <1>1, <2>1 DEF Due
  <2>4. NodeGood(n)'
    BY <1>1, <2>1, <2>2, <2>3 DEF NodeGood
  <2> QED BY <1>1, <2>3, <2>4 DEF Steady, Witness
<1>7. ASSUME NEW n \in Nodes, node[n].pc = "down" PROVE NodeGood(n)' /\ Counted(n)'
  BY <1>1, <1>7 DEF NodeGood, Counted, Witness
<1>8. Pending => Pending'
  BY <1>1 DEF Pending
<1>9. \A n \in Nodes : NodeGood(n)' /\ Counted(n)'
  BY <1>1, <1>6, <1>7, <1>8, CountKept
<1> QED BY <1>0, <1>1, <1>5, <1>9 DEF ScheduleInv, LeaseGood

\* Every step keeps the invariant.
LEMMA ScheduleStep ==
    ASSUME ScheduleInv, [Next]_vars
    PROVE  ScheduleInv'
<1>1. CASE UNCHANGED vars
  BY <1>1 DEF vars, ScheduleInv, TypeOK, LeaseGood, NodeGood, Counted, Witness, Bought, Pending, Due
<1>2. Ended => UNCHANGED vars
  BY DEF Ended
<1> QED BY <1>1, <1>2, RunKeeps, AcquireKeeps, SendKeeps, PongKeeps, CloseKeeps, StartKeeps,
           LossKeeps, TickKeeps DEF Next

-----------------------------------------------------------------------------
(* Theorems. *)

\* The invariant holds of every behaviour.
THEOREM ScheduleInvariant == Spec => []ScheduleInv
<1>1. Init => ScheduleInv
  BY ScheduleInit
<1>2. ScheduleInv /\ [Next]_vars => ScheduleInv'
  BY ScheduleStep
<1> QED BY <1>1, <1>2, PTL DEF Spec

\* Every variable has its type.
THEOREM ScheduleTypeCorrect == Spec => []TypeOK
<1>1. ScheduleInv => TypeOK
  BY DEF ScheduleInv
<1> QED BY <1>1, ScheduleInvariant, PTL

\* Two wins are an interval apart, for any number of nodes at any phases and
\* whatever ticks fail, unless Redis lost the lease.
THEOREM OnePingPerIntervalAlways == Spec => OnePingPerInterval
<1>1. ASSUME ScheduleInv, [Next]_vars
      PROVE  [lastPing' # lastPing => lastPing' >= lastPing + Interval \/ losses > 0]_vars
  <2>0. TypeOK /\ LeaseGood
    BY <1>1 DEF ScheduleInv
  <2>1. lastPing \in Nat /\ now \in Nat /\ lease \in Nat
    BY <2>0, Numbers
  <2>2. ASSUME NEW n \in Nodes, acquirePingLease(n), lastPing' # lastPing
        PROVE  lastPing' >= lastPing + Interval \/ losses > 0
    <3>1. lease <= now /\ lastPing' = now
      BY <2>2 DEF acquirePingLease, Expired
    <3> QED BY <2>0, <2>1, <3>1, Times DEF LeaseGood
  <2>3. ASSUME NEW n \in Nodes, run(n) \/ sendPing(n) \/ Close(n) \/ newHealthTracker(n)
        PROVE  UNCHANGED lastPing
    BY <2>3 DEF run, sendPing, Close, newHealthTracker
  <2>4. ASSUME NEW p \in pings, RecordPong(p) PROVE UNCHANGED lastPing
    BY <2>4 DEF RecordPong
  <2>5. LoseLease \/ Tick \/ Ended => UNCHANGED lastPing
    BY DEF LoseLease, Tick, Ended, vars
  <2> QED BY <1>1, <2>2, <2>3, <2>4, <2>5 DEF Next
<1>2. ScheduleInv /\ [Next]_vars
         => [lastPing' # lastPing => lastPing' >= lastPing + Interval \/ losses > 0]_vars
  BY <1>1
<1> QED BY <1>2, ScheduleInvariant, PTL DEF Spec, OnePingPerInterval

\* Once a scheduler has run for a full cadence, the last win is no older than
\* that, but for a period for every tick that Redis failed it in a row,
\* whatever the other nodes do and whatever Redis loses.
THEOREM PingsGoOnAlways == Spec => []PingsGoOn
<1>1. ASSUME ScheduleInv, NEW n \in Nodes, now >= node[n].since + (Cadence + node[n].skipped * Period),
             node[n].pc = "wait", node[n].next > now
      PROVE  now - lastPing <= Cadence + node[n].skipped * Period
  <2>1. /\ now \in Nat /\ lastPing \in Nat /\ lastPing <= now /\ node[n].next \in Nat /\ node[n].since \in Nat
        /\ node[n].skipped \in Nat
    BY <1>1, Numbers DEF ScheduleInv
  <2>2. PICK x \in Nat : x = node[n].skipped * Period /\ (node[n].skipped + 1) * Period = x + Period
    BY <2>1, OneMore, Times
  <2>3. Soon(lastPing, node[n].next, node[n].since, node[n].skipped)
    BY <1>1 DEF ScheduleInv, NodeGood, Due
  <2>4. node[n].next <= node[n].since + (x + Period) \/ node[n].next <= lastPing + Cadence + x
    BY <2>2, <2>3 DEF Soon
  <2>5. now >= node[n].since + (Cadence + x)
    BY <1>1, <2>2
  <2>6. now - lastPing <= Cadence + x
    BY <1>1, <2>1, <2>4, <2>5, Times
  <2> QED BY <2>2, <2>6
<1>2. ScheduleInv => PingsGoOn
  BY <1>1 DEF PingsGoOn
<1> QED BY <1>2, ScheduleInvariant, PTL

\* For every threshold: a toolset turns unhealthy under a scheduler that ran
\* since its last pong only when the wins it left unanswered, one more and the
\* ticks Redis failed that scheduler make up the window.
THEOREM UnhealthyIsEarnedAlways == Spec => []UnhealthyIsEarned
<1>1. ASSUME ScheduleInv, NEW n \in Nodes, ~Healthy, node[n].since <= lastPong, node[n].pc = "wait",
             node[n].next > now
      PROVE  (unanswered + 1) * Cadence + node[n].failed * Period > (Missed + 1) * Interval
  <2>1. /\ now \in Nat /\ lastPing \in Nat /\ lastPong \in Nat /\ lastPong <= now /\ unanswered \in Nat
        /\ Missed \in Nat /\ node[n].next \in Nat /\ node[n].failed \in Nat
    BY <1>1, Numbers, ScheduleAssumption DEF ScheduleInv
  <2>2. PICK x \in Nat, y \in Nat, z \in Nat :
           /\ x = (unanswered + 1) * Cadence /\ y = node[n].failed * Period /\ z = (Missed + 1) * Interval
           /\ (unanswered + 1 + 1) * Cadence = x + Cadence
    <3>1. unanswered + 1 \in Nat /\ Missed + 1 \in Nat
      BY <2>1
    <3>2. /\ (unanswered + 1) * Cadence \in Nat /\ (Missed + 1) * Interval \in Nat
          /\ (unanswered + 1 + 1) * Cadence = (unanswered + 1) * Cadence + Cadence
      BY <3>1, OneMore, Times
    <3>3. node[n].failed * Period \in Nat
      BY <2>1, OneMore, Times
    <3> QED BY <3>2, <3>3
  <2>3. now - lastPong > z
    BY <1>1, <2>1, <2>2 DEF Healthy, deriveStalenessThreshold
  <2>4. Counted(n) /\ Witness(n) /\ Due(n) = node[n].next
    BY <1>1 DEF ScheduleInv, Witness, Due
  <2>5. CASE Bought(n, unanswered)
    <3>1. node[n].next <= lastPong + x + y
      BY <2>2, <2>4, <2>5 DEF Bought, Paid
    <3>2. x + y > z
      BY <1>1, <2>1, <2>3, <3>1
    <3> QED BY <2>2, <3>2
  <2>6. CASE Pending /\ Bought(n, unanswered + 1)
    <3>1. now <= lastPong + x + y
      BY <1>1, <2>2, <2>6, DueAhead DEF Bought, Paid
    <3>2. x + y > z
      BY <2>1, <2>3, <3>1
    <3> QED BY <2>2, <3>2
  <2> QED BY <2>4, <2>5, <2>6 DEF Counted
<1>2. ScheduleInv => UnhealthyIsEarned
  BY <1>1 DEF UnhealthyIsEarned
<1> QED BY <1>2, ScheduleInvariant, PTL

\* A toolset turns unhealthy under a scheduler none of whose ticks failed since
\* the last pong only after Missed intervals were won in vain.
MissesAreSpent ==
    \A n \in Nodes :
        ~Healthy /\ node[n].since <= lastPong /\ node[n].pc = "wait" /\ node[n].next > now /\ node[n].failed = 0
            => unanswered >= Missed

\* That is so for every threshold up to four, which has the default of three.
\* Above four the cadence of a scheduler, which is a tick longer than the
\* interval, loses a whole ping within the window, and it fails.
THEOREM MissesAreSpentAlways == Missed <= 4 => (Spec => []MissesAreSpent)
<1>1. ASSUME Missed <= 4, TypeOK, UnhealthyIsEarned PROVE MissesAreSpent
  <2> SUFFICES ASSUME NEW n \in Nodes, ~Healthy, node[n].since <= lastPong, node[n].pc = "wait",
                      node[n].next > now, node[n].failed = 0
               PROVE  unanswered >= Missed
    BY DEF MissesAreSpent
  <2>1. unanswered \in Nat /\ Missed \in Nat /\ Period \in Nat
    BY <1>1, Numbers, ScheduleAssumption
  <2>2. (unanswered + 1) * Cadence > (Missed + 1) * Interval
    <3>1. (unanswered + 1) * Cadence + 0 * Period > (Missed + 1) * Interval
      BY <1>1 DEF UnhealthyIsEarned
    <3>2. (unanswered + 1) * Cadence \in Nat /\ 0 * Period = 0
      <4>1. unanswered + 1 \in Nat
        BY <2>1
      <4> QED BY <2>1, <4>1, OneMore, Times
    <3> QED BY <3>1, <3>2
  <2>3. (Missed + 1) * Interval = (4 * (Missed + 1)) * Period
    BY <2>1, Times
  <2>4. (unanswered + 1) * Cadence = (5 * (unanswered + 1)) * Period
    BY <2>1, Times
  <2>5. PICK a \in Nat, b \in Nat : a = 4 * (Missed + 1) /\ b = 5 * (unanswered + 1)
    BY <2>1
  <2>6. b * Period \in Nat /\ a * Period \in Nat
    BY <2>1, <2>5, OneMore
  <2>7. ~(b * Period <= a * Period)
    BY <2>2, <2>3, <2>4, <2>5, <2>6
  <2>8. ~(b <= a)
    BY <2>1, <2>5, <2>7, MultiplesOrdered
  <2> QED BY <1>1, <2>1, <2>5, <2>8
<1>2. Missed <= 4 => (TypeOK /\ UnhealthyIsEarned => MissesAreSpent)
  BY <1>1
<1>3. SUFFICES ASSUME Missed <= 4 PROVE Spec => []MissesAreSpent
  OBVIOUS
<1>4. TypeOK /\ UnhealthyIsEarned => MissesAreSpent
  BY <1>2, <1>3
<1> QED BY <1>4, UnhealthyIsEarnedAlways, ScheduleTypeCorrect, PTL
=============================================================================
