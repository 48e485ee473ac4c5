------------------------- MODULE MapRevision_proofs -------------------------
(***************************************************************************)
(* The catalog map's revision is repaired, whatever the number of nodes,   *)
(* losses and passes and however far the clocks are off.                   *)
(*                                                                         *)
(* The argument.  Between two orderly losses the map is first ahead of no  *)
(* replica at all, or it is broken: replicas outrank the counter.  While   *)
(* it is broken no node has passed yet; the counter holds only writes made *)
(* since the loss, one in a millisecond, which are far below any reading   *)
(* of a wall clock and so below every floor; hence no fresh pass finds the *)
(* counter intact, and whichever pin comes first raises it past its node's *)
(* floor and the slack, that is past every replica.                        *)
(***************************************************************************)
EXTENDS MapRevision, TLAPS

\* The larger of two numbers.
LEMMA MaxOfTwo ==
    ASSUME NEW a \in Int, NEW b \in Int
    PROVE  /\ Max({a, b}) \in {a, b}
           /\ Max({a, b}) >= a /\ Max({a, b}) >= b
<1>1. \E x \in {a, b} : \A y \in {a, b} : x >= y
  <2>1. CASE a >= b
    BY <2>1
  <2>2. CASE ~(a >= b)
    <3>1. b >= a /\ b >= b
      BY <2>2
    <3> QED BY <3>1
  <2> QED BY <2>1, <2>2
<1>2. /\ Max({a, b}) \in {a, b}
      /\ \A y \in {a, b} : Max({a, b}) >= y
  BY <1>1 DEF Max
<1> QED BY <1>2

-----------------------------------------------------------------------------
(* The invariant. *)

\* No replica drops the next write.
Followed == \A n \in Nodes : replica[n] <= counter

\* Replicas may outrank the counter, but the floor of every node and the slack
\* reach them, and the counter is too low for a fresh pass to take it as intact.
Broken ==
    /\ passed = {}
    /\ Epoch + counter <= clock
    /\ ~wrote => Epoch + counter < clock
    /\ \A n \in Nodes : floor[n] > 0
    /\ \A n, m \in Nodes : replica[m] <= floor[n] + Slack
    /\ \A n \in Nodes : pass[n].pc = "read" /\ pass[n].fresh => pass[n].read <= counter

\* A floor is a wall clock reading, or above one.
FloorsGood ==
    /\ \A n \in Nodes : floor[n] > 0 => floor[n] + Drift >= Epoch
    /\ \A n \in passed : floor[n] > 0

RevisionInv ==
    /\ TypeOK
    /\ ~wrote => clock > Epoch
    /\ FloorsGood
    /\ orderly => Followed \/ Broken

Passes == [pc : {"idle", "read"}, read : Nat, fresh : BOOLEAN]

\* What a node pins the counter to.
LEMMA PinTarget ==
    ASSUME TypeOK, NEW n \in Nodes, NEW now \in (clock - Drift)..(clock + Drift),
           Pin(n, now)
    PROVE  /\ counter' \in Nat /\ counter' >= counter
           /\ counter' >= floor[n] + Slack /\ counter' + Drift >= Epoch
<1> USE RevisionAssumption
<1>1. /\ clock \in Nat /\ clock >= Epoch /\ floor[n] \in Nat /\ counter \in Nat
      /\ now \in Int /\ now + Drift >= clock /\ floor[n] + Slack \in Int
  BY DEF TypeOK
<1>2. PICK t : t = target(n, now)
  OBVIOUS
<1>3. t \in {now, floor[n] + Slack} /\ t >= now /\ t >= floor[n] + Slack
  BY <1>1, <1>2, MaxOfTwo DEF target
<1>4. t \in Int
  BY <1>1, <1>3
<1>5. counter' = Max({counter, t})
  BY <1>2 DEF Pin, revisionPin
<1>6. counter' \in {counter, t} /\ counter' >= counter /\ counter' >= t
  <2>1. counter \in Int
    BY <1>1
  <2> QED BY <1>4, <1>5, <2>1, MaxOfTwo
<1>7. counter' \in Int /\ counter' \in Nat
  BY <1>1, <1>4, <1>6
<1>8. counter' >= floor[n] + Slack
  BY <1>1, <1>3, <1>4, <1>6, <1>7
<1>9. counter' + Drift >= Epoch
  <2>1. counter' >= now /\ Epoch \in Int /\ Drift \in Int /\ clock \in Int
    BY <1>1, <1>3, <1>4, <1>6, <1>7
  <2>2. \A a, b, c, d, e \in Int : a >= b /\ b + c >= d /\ d >= e => a + c >= e
    OBVIOUS
  <2>3. now \in Int /\ now + Drift >= clock /\ clock >= Epoch /\ counter' \in Int
    BY <1>1, <1>7
  <2> HIDE RevisionAssumption
  <2> QED BY <2>1, <2>2, <2>3
<1> QED BY <1>6, <1>7, <1>8, <1>9

\* Every step keeps the types.
LEMMA TypeStep ==
    ASSUME TypeOK, [Next]_vars
    PROVE  TypeOK'
<1> USE RevisionAssumption
<1>0. Idle \in Passes
  BY DEF Idle, Passes
<1>p. pass \in [Nodes -> Passes]
  BY DEF TypeOK, Passes
<1>1. CASE Tick
  <2>1. clock' \in Epoch..Epoch + MaxTicks
    <3>1. clock \in Epoch..Epoch + MaxTicks /\ clock < Epoch + MaxTicks /\ clock' = clock + 1
      BY <1>1 DEF TypeOK, Tick
    <3> QED BY <3>1
  <2>3. wrote' \in BOOLEAN
    BY <1>1 DEF Tick
  <2>2. UNCHANGED <<counter, replica, floor, pass, losses, restarts, passed, orderly>>
    BY <1>1 DEF Tick
  <2> QED BY <2>1, <2>2, <2>3 DEF TypeOK
<1>2. CASE Write
  <2>1. replica' \in [Nodes -> Nat] /\ counter' \in Nat
    BY <1>2 DEF TypeOK, Write
  <2> QED BY <1>2, <2>1 DEF TypeOK, Write
<1>3. CASE Lose
  <2>1. pass' \in [Nodes -> Passes]
    <3>1. \A n \in Nodes : [pass[n] EXCEPT !.fresh = FALSE] \in Passes
      BY <1>p DEF Passes
    <3> QED BY <1>3, <3>1 DEF Lose
  <2>2. orderly' \in BOOLEAN
    <3>1. orderly' = (orderly /\ passed = Nodes /\ \A n \in Nodes : counter <= floor[n] + Slack)
      BY <1>3 DEF Lose
    <3> DEFINE P == orderly /\ passed = Nodes /\ \A n \in Nodes : counter <= floor[n] + Slack
    <3>2. P \in BOOLEAN
      OBVIOUS
    <3> HIDE DEF P
    <3>3. orderly' = P
      BY <3>1 DEF P
    <3> QED BY <3>2, <3>3
  <2>3. losses' \in 0..MaxLosses /\ counter' \in Nat /\ passed' \subseteq Nodes
    BY <1>3 DEF Lose, TypeOK
  <2>4. UNCHANGED <<clock, replica, floor, wrote, restarts>>
    BY <1>3 DEF Lose
  <2> QED BY <2>1, <2>2, <2>3, <2>4 DEF TypeOK, Passes
<1>4. ASSUME NEW n \in Nodes, Restart(n) PROVE TypeOK'
  <2>1. pass' \in [Nodes -> Passes]
    BY <1>0, <1>p, <1>4 DEF Restart
  <2>2. replica' \in [Nodes -> Nat] /\ floor' \in [Nodes -> Nat]
    BY <1>4 DEF Restart, TypeOK
  <2>4. restarts' \in 0..MaxRestarts
    <3>1. restarts \in 0..MaxRestarts /\ restarts < MaxRestarts /\ restarts' = restarts + 1
      BY <1>4 DEF Restart, TypeOK
    <3> QED BY <3>1
  <2>5. passed' \subseteq Nodes /\ orderly' \in BOOLEAN
    BY <1>4 DEF Restart, TypeOK
  <2>3. UNCHANGED <<clock, counter, wrote, losses>>
    BY <1>4 DEF Restart
  <2> QED BY <2>1, <2>2, <2>3, <2>4, <2>5 DEF TypeOK, Passes
<1>e. ASSUME NEW n \in Nodes, NEW f \in Nat, EndPass(n, f), counter' \in Nat, wrote' \in BOOLEAN
      PROVE  TypeOK'
  <2>1. pass' \in [Nodes -> Passes] /\ floor' \in [Nodes -> Nat]
    BY <1>0, <1>p, <1>e DEF EndPass, TypeOK
  <2>2. passed' \subseteq Nodes
    BY <1>e DEF EndPass, TypeOK
  <2>3. UNCHANGED <<clock, replica, losses, restarts, orderly>>
    BY <1>e DEF EndPass
  <2> QED BY <1>e, <2>1, <2>2, <2>3 DEF TypeOK, Passes
<1>5. ASSUME NEW n \in Nodes, ReadRevision(n) PROVE TypeOK'
  <2>1. [pc |-> "read", read |-> counter, fresh |-> TRUE] \in Passes
    BY DEF TypeOK, Passes
  <2>2. pass' \in [Nodes -> Passes]
    BY <1>p, <1>5, <2>1 DEF ReadRevision
  <2>3. UNCHANGED <<clock, counter, replica, floor, wrote, losses, restarts, passed, orderly>>
    BY <1>5 DEF ReadRevision
  <2> QED BY <2>2, <2>3 DEF TypeOK, Passes
<1>6. ASSUME NEW n \in Nodes, Observe(n) PROVE TypeOK'
  <2>1. pass[n].read \in Nat
    BY <1>p DEF Passes
  <2> QED BY <1>e, <1>6, <2>1 DEF Observe, TypeOK
<1>7. ASSUME NEW n \in Nodes, PassFails(n) PROVE TypeOK'
  <2>1. pass' \in [Nodes -> Passes]
    BY <1>0, <1>p, <1>7 DEF PassFails
  <2>2. UNCHANGED <<clock, counter, replica, floor, wrote, losses, restarts, passed, orderly>>
    BY <1>7 DEF PassFails
  <2> QED BY <2>1, <2>2 DEF TypeOK, Passes
<1>8. ASSUME NEW n \in Nodes, NEW now \in (clock - Drift)..(clock + Drift), Pin(n, now) PROVE TypeOK'
  <2>1. counter' \in Nat
    BY <1>8, PinTarget
  <2> QED BY <1>e, <1>8, <2>1 DEF Pin
<1>9. CASE UNCHANGED vars
  BY <1>9 DEF TypeOK, vars
<1> QED BY <1>1, <1>2, <1>3, <1>4, <1>5, <1>6, <1>7, <1>8, <1>9 DEF Next

\* It holds initially.
LEMMA RevisionInit ==
    ASSUME Init
    PROVE  RevisionInv
<1> USE RevisionAssumption
<1>1. Idle \in Passes
  BY DEF Idle, Passes
<1>2. pass \in [Nodes -> Passes]
  BY <1>1 DEF Init
<1>3. clock \in Epoch..Epoch + MaxTicks
  BY DEF Init
<1>4. TypeOK
  BY <1>2, <1>3 DEF Init, TypeOK, Passes
<1>5. FloorsGood /\ Followed /\ wrote
  BY DEF Init, FloorsGood, Followed
<1> QED BY <1>4, <1>5 DEF RevisionInv

\* The end of a pass leaves every floor a wall clock reading.
LEMMA FloorsKept ==
    ASSUME TypeOK, FloorsGood, NEW n \in Nodes, NEW f \in Nat, f > 0, f + Drift >= Epoch, EndPass(n, f)
    PROVE  FloorsGood'
<1>1. floor' = [floor EXCEPT ![n] = f] /\ floor \in [Nodes -> Nat] /\ passed \subseteq Nodes
  BY DEF EndPass, TypeOK
<1>2. passed' \subseteq passed \cup {n}
  BY DEF EndPass
<1>3. \A m \in Nodes : floor'[m] = IF m = n THEN f ELSE floor[m]
  BY <1>1
<1> QED BY <1>1, <1>2, <1>3 DEF FloorsGood

\* A broken counter is far below every floor.
LEMMA BrokenIsLow ==
    ASSUME RevisionInv, Broken
    PROVE  \A n \in Nodes : counter < floor[n]
<1> SUFFICES ASSUME NEW n \in Nodes PROVE counter < floor[n]
  OBVIOUS
<1>1. floor[n] \in Nat /\ counter \in Nat /\ clock \in Nat /\ clock <= Epoch + MaxTicks
  BY RevisionAssumption DEF RevisionInv, TypeOK
<1>2. floor[n] + Drift >= Epoch /\ Epoch + counter <= clock
  BY DEF RevisionInv, FloorsGood, Broken
<1>3. Epoch > MaxTicks + Drift /\ Epoch \in Nat /\ MaxTicks \in Nat /\ Drift \in Nat
  BY RevisionAssumption
<1> QED BY <1>1, <1>2, <1>3

\* Every step keeps the invariant.
LEMMA RevisionStep ==
    ASSUME RevisionInv, [Next]_vars
    PROVE  RevisionInv'
<1> USE RevisionAssumption
<1>0. TypeOK /\ TypeOK' /\ FloorsGood /\ (~wrote => clock > Epoch) /\ (orderly => Followed \/ Broken)
  BY TypeStep DEF RevisionInv
<1>t. /\ clock \in Nat /\ counter \in Nat /\ counter' \in Nat /\ clock' \in Nat /\ passed \subseteq Nodes
      /\ \A n \in Nodes : floor[n] \in Nat /\ floor'[n] \in Nat /\ replica[n] \in Nat /\ replica'[n] \in Nat
  BY <1>0 DEF TypeOK
<1>p. pass \in [Nodes -> Passes] /\ floor \in [Nodes -> Nat]
  BY <1>0 DEF TypeOK, Passes
<1>k. ASSUME ~wrote' => clock' > Epoch, FloorsGood', orderly' => Followed' \/ Broken'
      PROVE  RevisionInv'
  BY <1>0, <1>k DEF RevisionInv
<1>1. CASE Tick
  <2>1. /\ clock' = clock + 1 /\ wrote' = FALSE
        /\ UNCHANGED counter /\ UNCHANGED replica /\ UNCHANGED floor /\ UNCHANGED pass
        /\ UNCHANGED passed /\ UNCHANGED orderly
    BY <1>1 DEF Tick
  <2>2. clock' > Epoch
    BY <1>0, <1>t, <2>1 DEF TypeOK
  <2>3. FloorsGood'
    BY <1>0, <2>1 DEF FloorsGood
  <2>4. Followed => Followed'
    BY <2>1 DEF Followed
  <2>5. Broken => Broken'
    BY <1>t, <2>1 DEF Broken
  <2> QED BY <1>0, <1>k, <2>1, <2>2, <2>3, <2>4, <2>5
<1>2. CASE Write
  <2>1. /\ ~wrote /\ wrote' = TRUE /\ counter' = counter + 1
        /\ \A n \in Nodes : replica'[n] = IF counter + 1 > replica[n] THEN counter + 1 ELSE replica[n]
        /\ UNCHANGED clock /\ UNCHANGED floor /\ UNCHANGED pass /\ UNCHANGED passed /\ UNCHANGED orderly
    BY <1>2 DEF Write
  <2>2. FloorsGood'
    BY <1>0, <2>1 DEF FloorsGood
  <2>3. Followed => Followed'
    BY <1>t, <2>1 DEF Followed
  <2>4. ASSUME Broken PROVE Broken'
    <3>1. \A n \in Nodes : counter < floor[n]
      BY <2>4, BrokenIsLow
    <3>2. ASSUME NEW n \in Nodes, NEW m \in Nodes PROVE replica'[m] <= floor'[n] + Slack
      <4>1. replica[m] <= floor[n] + Slack
        BY <2>4 DEF Broken
      <4> QED BY <1>t, <2>1, <3>1, <4>1
    <3>3. ASSUME NEW n \in Nodes, pass'[n].pc = "read", pass'[n].fresh PROVE pass'[n].read <= counter'
      <4>1. pass[n].read <= counter /\ pass[n].read \in Nat
        BY <1>p, <2>1, <2>4, <3>3 DEF Broken, Passes
      <4> QED BY <1>t, <2>1, <4>1
    <3>4. Epoch + counter' <= clock'
      BY <1>t, <2>1, <2>4 DEF Broken
    <3>5. passed' = {} /\ \A n \in Nodes : floor'[n] > 0
      BY <2>1, <2>4 DEF Broken
    <3> QED BY <2>1, <3>2, <3>3, <3>4, <3>5 DEF Broken
  <2> QED BY <1>0, <1>k, <2>1, <2>2, <2>3, <2>4
<1>3. CASE Lose
  <2>1. /\ counter' = 0 /\ passed' = {}
        /\ pass' = [n \in Nodes |-> [pass[n] EXCEPT !.fresh = FALSE]]
        /\ UNCHANGED clock /\ UNCHANGED replica /\ UNCHANGED floor /\ UNCHANGED wrote
    BY <1>3 DEF Lose
  <2>2. orderly' = (orderly /\ passed = Nodes /\ \A n \in Nodes : counter <= floor[n] + Slack)
    BY <1>3 DEF Lose
  <2>3. FloorsGood'
    BY <1>0, <2>1 DEF FloorsGood
  <2>4. ASSUME orderly' PROVE Broken'
    <3>1. orderly /\ passed = Nodes /\ \A n \in Nodes : counter <= floor[n] + Slack
      BY <2>2, <2>4
    <3>2. Followed
      BY <1>0, <3>1 DEF Broken
    <3>3. ASSUME NEW n \in Nodes, NEW m \in Nodes PROVE replica'[m] <= floor'[n] + Slack
      BY <1>t, <2>1, <3>1, <3>2 DEF Followed
    <3>4. \A n \in Nodes : floor'[n] > 0
      BY <1>0, <2>1, <3>1 DEF FloorsGood
    <3>5. \A n \in Nodes : pass'[n].fresh = FALSE
      BY <1>p, <2>1 DEF Passes
    <3>6. Epoch + counter' <= clock' /\ (~wrote' => Epoch + counter' < clock')
      BY <1>0, <1>t, <2>1 DEF TypeOK
    <3> QED BY <2>1, <3>3, <3>4, <3>5, <3>6 DEF Broken
  <2> QED BY <1>0, <1>k, <2>1, <2>3, <2>4
<1>4. ASSUME NEW n \in Nodes, Restart(n) PROVE RevisionInv'
  <2>1. /\ floor' = [floor EXCEPT ![n] = 0] /\ passed' = passed \ {n} /\ orderly' = FALSE
        /\ UNCHANGED clock /\ UNCHANGED wrote
    BY <1>4 DEF Restart
  <2>2. \A m \in Nodes : floor'[m] = IF m = n THEN 0 ELSE floor[m]
    BY <1>p, <2>1
  <2>3. FloorsGood'
    BY <1>0, <1>t, <2>1, <2>2 DEF FloorsGood
  <2> QED BY <1>0, <1>k, <2>1, <2>3
<1>5. ASSUME NEW n \in Nodes, ReadRevision(n) PROVE RevisionInv'
  <2>1. /\ pass' = [pass EXCEPT ![n] = [pc |-> "read", read |-> counter, fresh |-> TRUE]]
        /\ UNCHANGED clock /\ UNCHANGED counter /\ UNCHANGED replica /\ UNCHANGED floor
        /\ UNCHANGED wrote /\ UNCHANGED passed /\ UNCHANGED orderly
    BY <1>5 DEF ReadRevision
  <2>2. FloorsGood'
    BY <1>0, <2>1 DEF FloorsGood
  <2>3. Followed => Followed'
    BY <2>1 DEF Followed
  <2>4. ASSUME Broken PROVE Broken'
    <3>1. ASSUME NEW m \in Nodes, pass'[m].pc = "read", pass'[m].fresh PROVE pass'[m].read <= counter'
      <4>1. CASE m = n
        BY <1>p, <1>t, <2>1, <4>1
      <4>2. CASE m # n
        BY <1>p, <2>1, <2>4, <3>1, <4>2 DEF Broken
      <4> QED BY <4>1, <4>2
    <3> QED BY <2>1, <2>4, <3>1 DEF Broken
  <2> QED BY <1>0, <1>k, <2>1, <2>2, <2>3, <2>4
<1>6. ASSUME NEW n \in Nodes, Observe(n) PROVE RevisionInv'
  <2>1. PICK f : f = pass[n].read
    OBVIOUS
  <2>2. /\ pass[n].pc = "read" /\ floor[n] > 0 /\ f >= floor[n] /\ EndPass(n, f)
        /\ UNCHANGED counter /\ UNCHANGED wrote
    BY <1>6, <2>1 DEF Observe, Intact
  <2>3. f \in Nat
    BY <1>p, <2>1 DEF Passes
  <2>4. /\ floor' = [floor EXCEPT ![n] = f] /\ pass' = [pass EXCEPT ![n] = Idle]
        /\ passed' = IF pass[n].fresh THEN passed \cup {n} ELSE passed
        /\ UNCHANGED clock /\ UNCHANGED replica /\ UNCHANGED orderly
    BY <2>2 DEF EndPass
  <2>5. floor[n] + Drift >= Epoch
    BY <1>0, <2>2 DEF FloorsGood
  <2>6. f > 0 /\ f + Drift >= Epoch
    BY <1>t, <2>2, <2>3, <2>5
  <2>7. FloorsGood'
    BY <1>0, <2>2, <2>3, <2>6, FloorsKept
  <2>8. Followed => Followed'
    BY <2>2, <2>4 DEF Followed
  <2>9. ASSUME Broken PROVE Broken'
    <3>1. ~pass[n].fresh
      <4>1. counter < floor[n]
        BY <2>9, BrokenIsLow
      <4> QED BY <1>t, <2>1, <2>2, <2>3, <2>9, <4>1 DEF Broken
    <3>2. passed' = {}
      BY <2>4, <2>9, <3>1 DEF Broken
    <3>3. \A m \in Nodes : floor'[m] = IF m = n THEN f ELSE floor[m]
      BY <1>p, <2>4
    <3>4. ASSUME NEW l \in Nodes, NEW m \in Nodes PROVE replica'[m] <= floor'[l] + Slack
      <4>1. replica[m] <= floor[l] + Slack
        BY <2>9 DEF Broken
      <4> QED BY <1>t, <2>2, <2>3, <2>4, <3>3, <4>1
    <3>5. ASSUME NEW m \in Nodes, pass'[m].pc = "read", pass'[m].fresh PROVE pass'[m].read <= counter'
      <4>1. m # n
        BY <1>p, <2>4, <3>5 DEF Idle
      <4> QED BY <1>p, <2>2, <2>4, <2>9, <3>5, <4>1 DEF Broken
    <3>6. \A m \in Nodes : floor'[m] > 0
      BY <2>6, <2>9, <3>3 DEF Broken
    <3> QED BY <2>2, <2>4, <2>9, <3>2, <3>4, <3>5, <3>6 DEF Broken
  <2> QED BY <1>0, <1>k, <2>2, <2>4, <2>7, <2>8, <2>9
<1>7. ASSUME NEW n \in Nodes, PassFails(n) PROVE RevisionInv'
  <2>1. /\ pass' = [pass EXCEPT ![n] = Idle]
        /\ UNCHANGED clock /\ UNCHANGED counter /\ UNCHANGED replica /\ UNCHANGED floor
        /\ UNCHANGED wrote /\ UNCHANGED passed /\ UNCHANGED orderly
    BY <1>7 DEF PassFails
  <2>2. FloorsGood'
    BY <1>0, <2>1 DEF FloorsGood
  <2>3. Followed => Followed'
    BY <2>1 DEF Followed
  <2>4. ASSUME Broken PROVE Broken'
    <3>1. ASSUME NEW m \in Nodes, pass'[m].pc = "read", pass'[m].fresh PROVE pass'[m].read <= counter'
      <4>1. m # n
        BY <1>p, <2>1, <3>1 DEF Idle
      <4> QED BY <1>p, <2>1, <2>4, <3>1, <4>1 DEF Broken
    <3> QED BY <2>1, <2>4, <3>1 DEF Broken
  <2> QED BY <1>0, <1>k, <2>1, <2>2, <2>3, <2>4
<1>8. ASSUME NEW n \in Nodes, NEW now \in (clock - Drift)..(clock + Drift), Pin(n, now) PROVE RevisionInv'
  <2>1. /\ counter' >= counter /\ counter' >= floor[n] + Slack /\ counter' + Drift >= Epoch
    BY <1>0, <1>8, PinTarget
  <2>2. PICK f \in Nat : f = counter'
    BY <1>t
  <2>3. EndPass(n, f) /\ wrote' = TRUE
    BY <1>8, <2>2 DEF Pin
  <2>4. UNCHANGED replica /\ UNCHANGED orderly /\ UNCHANGED clock
    BY <2>3 DEF EndPass
  <2>5. f > 0 /\ f + Drift >= Epoch
    <3>1. f + Drift >= Epoch
      BY <2>1, <2>2
    <3>2. Epoch > MaxTicks + Drift /\ Epoch \in Nat /\ MaxTicks \in Nat /\ Drift \in Nat
      OBVIOUS
    <3> HIDE RevisionAssumption
    <3> QED BY <3>1, <3>2
  <2>6. FloorsGood'
    BY <1>0, <2>3, <2>5, FloorsKept
  <2>7. Followed => Followed'
    BY <1>t, <2>1, <2>4 DEF Followed
  <2>8. Broken => Followed'
    BY <1>t, <2>1, <2>4 DEF Broken, Followed
  <2> QED BY <1>0, <1>k, <2>3, <2>4, <2>6, <2>7, <2>8
<1>9. CASE UNCHANGED vars
  <2>1. FloorsGood' /\ (Followed => Followed') /\ (Broken => Broken')
    BY <1>0, <1>9 DEF vars, FloorsGood, Followed, Broken
  <2>2. UNCHANGED wrote /\ UNCHANGED clock /\ UNCHANGED orderly
    BY <1>9 DEF vars
  <2> QED BY <1>0, <1>k, <2>1, <2>2
<1> QED BY <1>1, <1>2, <1>3, <1>4, <1>5, <1>6, <1>7, <1>8, <1>9 DEF Next

-----------------------------------------------------------------------------
(* Theorems. *)

\* The invariant holds of every behaviour.
THEOREM RevisionInvariant == Spec => []RevisionInv
<1>1. Init => RevisionInv
  BY RevisionInit
<1>2. RevisionInv /\ [Next]_vars => RevisionInv'
  BY RevisionStep
<1> QED BY <1>1, <1>2, PTL DEF Spec

\* Every variable has its type.
THEOREM RevisionTypeCorrect == Spec => []TypeOK
<1>1. RevisionInv => TypeOK
  BY DEF RevisionInv
<1> QED BY <1>1, RevisionInvariant, PTL

\* Once every tracker has made a pass after an orderly loss no replica drops
\* the next write, for any number of nodes and losses, any slack and any drift
\* of the clocks.
THEOREM RepairedIsFollowedAlways == Spec => []RepairedIsFollowed
<1>1. ASSUME RevisionInv, orderly, passed = Nodes PROVE Outranked = {}
  <2>1. ~Broken
    BY <1>1, RevisionAssumption DEF Broken
  <2>2. \A n \in Nodes : replica[n] \in Nat /\ counter \in Nat /\ replica[n] <= counter
    BY <1>1, <2>1 DEF RevisionInv, TypeOK, Followed
  <2> QED BY <2>2 DEF Outranked
<1>2. RevisionInv => RepairedIsFollowed
  BY <1>1 DEF RepairedIsFollowed
<1> QED BY <1>2, RevisionInvariant, PTL

\* Concurrent repairs converge: no pass of any tracker, stale or not, lowers a
\* counter that is there.
THEOREM NeverLoweredAlways == Spec => NeverLowered
<1>1. ASSUME TypeOK, [Next]_vars PROVE [counter' >= counter \/ losses' > losses]_vars
  <2>1. counter \in Nat /\ losses \in Nat
    BY <1>1, RevisionAssumption DEF TypeOK
  <2>2. CASE Lose
    BY <2>1, <2>2 DEF Lose
  <2>3. ASSUME NEW n \in Nodes, NEW now \in (clock - Drift)..(clock + Drift), Pin(n, now)
        PROVE  counter' >= counter
    BY <1>1, <2>3, PinTarget
  <2>4. ASSUME UNCHANGED counter PROVE counter' >= counter
    BY <2>1, <2>4
  <2>5. CASE Write
    BY <2>1, <2>5 DEF Write
  <2>6. ASSUME NEW n \in Nodes, Restart(n) \/ ReadRevision(n) \/ Observe(n) \/ PassFails(n)
        PROVE  UNCHANGED counter
    BY <2>6 DEF Restart, ReadRevision, Observe, PassFails
  <2>7. Tick => UNCHANGED counter
    BY DEF Tick
  <2> QED BY <1>1, <2>2, <2>3, <2>4, <2>5, <2>6, <2>7 DEF Next
<1>2. TypeOK /\ [Next]_vars => [counter' >= counter \/ losses' > losses]_vars
  BY <1>1
<1> QED BY <1>2, RevisionTypeCorrect, PTL DEF Spec, NeverLowered
=============================================================================
