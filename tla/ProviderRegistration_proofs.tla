--------------------- MODULE ProviderRegistration_proofs ---------------------
(***************************************************************************)
(* Proofs about a provider's registration, for all durations, timeouts and *)
(* delays.  The supervisor's two timers, the wait for the next attempt and *)
(* the limit of the attempt under way, never lie behind the cutoff of the  *)
(* lease; the local deadline never lies behind the start of an attempt by  *)
(* more than the lease duration; and the registry cannot admit another     *)
(* token while the lease it granted lives.                                 *)
(***************************************************************************)
EXTENDS ProviderRegistration, TLAPS

ReplyRecord == [token : Tokens \cup {NoToken}, duration : Nat]

SupRecord == [pc : {"waiting", "calling", "done"}, token : Tokens \cup {NoToken}, duration : Nat,
              deadline : Nat, failures : Nat, wake : Int, started : Nat, limit : Int,
              reply : ReplyRecord]

MainRecord == [pc : {"registering", "select", "busy", "waitRenewal", "drain", "close", "release",
                     "returned"},
               until : Nat, tokens : SUBSET Tokens, failed : BOOLEAN]

\* The shapes of TypeOK, except that a delay is only known to be an integer:
\* Backoff is defined by recursion.
Shapes ==
    /\ now \in Nat /\ leaseTTL \in Nat
    /\ expires \in [Tokens -> Nat] /\ draining \subseteq Tokens
    /\ stray \subseteq Tokens /\ lost \subseteq Tokens /\ late \subseteq Tokens
    /\ main \in MainRecord

\* The answer that has arrived and the lease that is held, for a state s of
\* the supervisor.
ReplyGood(s) ==
    \/ s.reply = NoReply
    \/ s.pc = "calling" /\ s.reply.token \in Tokens /\ s.reply.duration = leaseTTL

\* The timers.
TimersGood(s) ==
    /\ s.pc = "calling" =>
          /\ s.started <= now /\ now <= s.limit /\ s.limit <= s.started + AttemptTimeout
          /\ s.token # NoToken => s.limit <= cutoff(s)
    /\ s.pc = "waiting" /\ s.token # NoToken => now <= s.wake /\ s.wake <= cutoff(s)

\* The registry's lease covers the local deadline, and the deadline the
\* answer under way will give.
LeaseGood(s) ==
    /\ s.token # NoToken => s.deadline <= now + leaseTTL
    /\ s.pc # "done" /\ s.token # NoToken /\ s.token \notin lost => expires[s.token] >= s.deadline
    /\ s.pc = "calling" /\ s.reply # NoReply /\ leaseTTL > leaseSafetyBudget /\ s.reply.token \notin lost
          => expires[s.reply.token] >= s.started + leaseTTL

SupGood(s) == s \in SupRecord /\ ReplyGood(s) /\ TimersGood(s) /\ LeaseGood(s)

\* Serve and the supervisor: the drain comes after the supervisor's end.
MainGood ==
    /\ main.pc \in {"drain", "close", "release", "returned"} => sup.pc = "done"
    /\ main.pc \notin {"registering", "returned"} => sup.token # NoToken

RegistrationInv == Shapes /\ SupGood(sup) /\ MainGood /\ DrainedIsNotRoutable

-----------------------------------------------------------------------------
(* Delays and the head of the supervisor's loop. *)

\* Delays are integers.
LEMMA DelaysAreIntegers ==
    ASSUME NEW base, NEW maximum \in Nat, NEW d \in jitterRegistrationDelay(base, maximum)
    PROVE  d \in Int
BY DEF jitterRegistrationDelay, Minimum

\* The next wake-up lies in the first half of what is left before the cutoff,
\* so not behind the cutoff.
LEMMA HalfOfRemaining ==
    ASSUME NEW n \in Nat, NEW c \in Int, NEW d \in Int, c - n > 0
    PROVE  /\ Minimum(d, (c - n) \div 2) \in Int
           /\ n + Minimum(d, (c - n) \div 2) <= c
BY DEF Minimum

\* The head of the loop ends the supervisor or sets a timer that is not behind
\* the cutoff, and changes neither the lease nor the deadline.
LEMMA ScheduleStep ==
    ASSUME NEW s \in SupRecord, now \in Nat, Schedule(s)
    PROVE  /\ sup' \in SupRecord /\ sup'.token = s.token /\ sup'.deadline = s.deadline
           /\ sup'.reply = NoReply
           /\ \/ sup'.pc = "done"
              \/ sup'.pc = "waiting" /\ now <= sup'.wake /\ sup'.wake <= cutoff(s)
<1> USE RegistrationAssumption
<1>0. NoReply \in ReplyRecord
  BY DEF NoReply, ReplyRecord
<1>1. CASE sup' = [s EXCEPT !.pc = "done", !.reply = NoReply]
  BY <1>0, <1>1 DEF SupRecord
<1>2. CASE \E d \in (IF s.failures > 0 THEN retryDelay(s.failures) ELSE renewalDelay(s.duration)) :
              /\ cutoff(s) - now > 0
              /\ ~(Minimum(d, (cutoff(s) - now) \div 2) <= 0)
              /\ sup' = [s EXCEPT !.pc = "waiting", !.wake = now + Minimum(d, (cutoff(s) - now) \div 2),
                                  !.reply = NoReply]
  <2>1. PICK d \in (IF s.failures > 0 THEN retryDelay(s.failures) ELSE renewalDelay(s.duration)) :
              /\ cutoff(s) - now > 0
              /\ ~(Minimum(d, (cutoff(s) - now) \div 2) <= 0)
              /\ sup' = [s EXCEPT !.pc = "waiting", !.wake = now + Minimum(d, (cutoff(s) - now) \div 2),
                                  !.reply = NoReply]
    BY <1>2
  <2>2. d \in Int
    BY <2>1, DelaysAreIntegers DEF retryDelay, renewalDelay
  <2>3. cutoff(s) \in Int
    BY DEF cutoff, SupRecord
  <2> DEFINE w == Minimum(d, (cutoff(s) - now) \div 2)
  <2>4. w \in Int /\ now + w <= cutoff(s)
    BY <2>1, <2>2, <2>3, HalfOfRemaining
  <2>5. ~(w <= 0) /\ sup' = [s EXCEPT !.pc = "waiting", !.wake = now + w, !.reply = NoReply]
    BY <2>1
  <2> HIDE DEF w
  <2>6. PICK v \in Int : v = now + w /\ now <= v /\ v <= cutoff(s)
    BY <2>4, <2>5
  <2>7. sup' = [s EXCEPT !.pc = "waiting", !.wake = v, !.reply = NoReply]
    BY <2>5, <2>6
  <2>8. /\ sup' \in SupRecord /\ sup'.token = s.token /\ sup'.deadline = s.deadline
        /\ sup'.reply = NoReply /\ sup'.pc = "waiting" /\ sup'.wake = v
    BY <1>0, <2>7 DEF SupRecord
  <2> QED BY <2>6, <2>8
<1> QED BY <1>1, <1>2 DEF Schedule, Stop

\* What the head of the loop makes of a lease that was good is good.
LEMMA ScheduleKeeps ==
    ASSUME RegistrationInv, NEW s \in SupRecord, Schedule(s), s.token # NoToken,
           s.deadline <= now + leaseTTL,
           s.token \notin lost => expires[s.token] >= s.deadline
    PROVE  SupGood(sup') /\ sup'.token # NoToken
<1> USE RegistrationAssumption
<1>1. /\ sup' \in SupRecord /\ sup'.token = s.token /\ sup'.deadline = s.deadline
      /\ sup'.reply = NoReply
      /\ \/ sup'.pc = "done"
         \/ sup'.pc = "waiting" /\ now <= sup'.wake /\ sup'.wake <= cutoff(s)
  BY ScheduleStep DEF RegistrationInv, Shapes
<1>2. cutoff(sup') = cutoff(s)
  BY <1>1 DEF cutoff
<1> QED BY <1>1, <1>2 DEF SupGood, ReplyGood, TimersGood, LeaseGood

\* The end of the registration loops is good.
LEMMA StopKeeps ==
    ASSUME RegistrationInv, NEW err, Stop(sup, err)
    PROVE  SupGood(sup') /\ sup'.token = sup.token
<1>0. NoReply \in ReplyRecord
  BY DEF NoReply, ReplyRecord
<1>1. sup \in SupRecord /\ sup' = [sup EXCEPT !.pc = "done", !.reply = NoReply]
  BY DEF RegistrationInv, SupGood, Stop
<1>2. /\ sup' \in SupRecord /\ sup'.pc = "done" /\ sup'.reply = NoReply /\ sup'.token = sup.token
      /\ sup'.deadline = sup.deadline
  BY <1>0, <1>1 DEF SupRecord
<1> QED BY <1>2 DEF RegistrationInv, SupGood, ReplyGood, TimersGood, LeaseGood

\* A failed attempt is tried again later: before the first lease without a
\* bound, under a lease not behind its cutoff.
LEMMA RetryKeeps ==
    ASSUME RegistrationInv, RetryLater, sup.pc # "done"
    PROVE  SupGood(sup') /\ sup'.token = sup.token
<1> USE RegistrationAssumption
<1>0. NoReply \in ReplyRecord
  BY DEF NoReply, ReplyRecord
<1>1. sup \in SupRecord
  BY DEF RegistrationInv, SupGood
<1>2. CASE sup.token # NoToken
  <2> DEFINE s == [sup EXCEPT !.failures = sup.failures + 1]
  <2>1. s \in SupRecord /\ s.token = sup.token /\ s.deadline = sup.deadline
    BY <1>1 DEF SupRecord
  <2>2. Schedule(s)
    BY <1>2 DEF RetryLater, Supervising
  <2> HIDE DEF s
  <2>3. s.deadline <= now + leaseTTL /\ (s.token \notin lost => expires[s.token] >= s.deadline)
    BY <1>2, <2>1 DEF RegistrationInv, SupGood, LeaseGood
  <2>4. SupGood(sup')
    BY <1>2, <2>1, <2>2, <2>3, ScheduleKeeps
  <2>5. sup'.token = s.token
    BY <2>1, <2>2, ScheduleStep DEF RegistrationInv, Shapes
  <2> QED BY <2>1, <2>4, <2>5
<1>3. CASE sup.token = NoToken
  <2>1. PICK delay \in retryDelay(sup.failures + 1) :
          sup' = [sup EXCEPT !.pc = "waiting", !.wake = now + delay, !.failures = sup.failures + 1,
                             !.reply = NoReply]
    BY <1>3 DEF RetryLater, Supervising
  <2>2. delay \in Int
    BY <2>1, DelaysAreIntegers DEF retryDelay
  <2>3. now + delay \in Int
    BY <2>2 DEF RegistrationInv, Shapes
  <2>4. /\ sup' \in SupRecord /\ sup'.pc = "waiting" /\ sup'.reply = NoReply /\ sup'.token = NoToken
    <3>1. PICK w \in Int : w = now + delay
      BY <2>3
    <3>2. PICK f \in Nat : f = sup.failures + 1
      BY <1>1 DEF SupRecord
    <3>3. sup' = [sup EXCEPT !.pc = "waiting", !.wake = w, !.failures = f, !.reply = NoReply]
      BY <2>1, <3>1, <3>2
    <3> QED BY <1>0, <1>1, <1>3, <3>3 DEF SupRecord
  <2> QED BY <1>3, <2>4 DEF SupGood, ReplyGood, TimersGood, LeaseGood
<1> QED BY <1>2, <1>3

-----------------------------------------------------------------------------
(* The registration loops. *)

\* A step of the registration loops that leaves a good supervisor behind and
\* keeps its lease keeps the invariant.
LEMMA SupervisorKeeps ==
    ASSUME RegistrationInv, sup.pc # "done", SupGood(sup'), sup.token # NoToken => sup'.token # NoToken,
           stray' \subseteq Tokens, UNCHANGED <<now, leaseTTL, expires, draining, lost, late, main>>
    PROVE  RegistrationInv'
<1>1. Shapes' /\ DrainedIsNotRoutable'
  BY DEF RegistrationInv, Shapes, DrainedIsNotRoutable
<1>2. SupGood(sup)'
  BY DEF SupGood, ReplyGood, TimersGood, LeaseGood, leaseSafetyBudget, cutoff
<1>3. MainGood'
  BY DEF RegistrationInv, MainGood
<1> QED BY <1>1, <1>2, <1>3 DEF RegistrationInv

\* An attempt starts with a limit that is not behind the cutoff, or fails at
\* once.
LEMMA AttemptStep ==
    ASSUME RegistrationInv, Attempt
    PROVE  RegistrationInv'
<1> USE RegistrationAssumption
<1>1. sup \in SupRecord /\ now \in Nat /\ sup.pc = "waiting"
  BY DEF RegistrationInv, SupGood, Shapes, Attempt
<1>2. UNCHANGED <<now, registryVars, main, cancelled, sinkOpen>>
  BY DEF Attempt
<1>3. CASE AttemptLimit <= now
  <2> DEFINE s == [sup EXCEPT !.failures = @ + 1]
  <2>1. s \in SupRecord /\ s.token = sup.token /\ s.deadline = sup.deadline
    BY <1>1 DEF SupRecord
  <2>2. Schedule(s)
    BY <1>3 DEF Attempt
  <2> HIDE DEF s
  <2>3. sup.token # NoToken
    BY <1>1, <1>3 DEF AttemptLimit, Supervising
  <2>4. s.deadline <= now + leaseTTL /\ (s.token \notin lost => expires[s.token] >= s.deadline)
    BY <1>1, <2>1, <2>3 DEF RegistrationInv, SupGood, LeaseGood
  <2>5. SupGood(sup') /\ sup'.token # NoToken
    BY <2>1, <2>2, <2>3, <2>4, ScheduleKeeps
  <2> QED BY <1>1, <1>2, <2>5, SupervisorKeeps DEF registryVars, RegistrationInv, Shapes
<1>4. CASE ~(AttemptLimit <= now)
  <2>1. sup' = [sup EXCEPT !.pc = "calling", !.started = now, !.limit = AttemptLimit]
    BY <1>4 DEF Attempt
  <2>2. cutoff(sup) \in Int
    BY <1>1 DEF cutoff, SupRecord
  <2>3. /\ AttemptLimit \in Int /\ AttemptLimit <= now + AttemptTimeout
        /\ sup.token # NoToken => AttemptLimit <= cutoff(sup)
    BY <1>1, <2>2 DEF AttemptLimit, Supervising, Minimum
  <2>4. /\ sup' \in SupRecord /\ sup'.pc = "calling" /\ sup'.started = now /\ sup'.limit = AttemptLimit
        /\ sup'.token = sup.token /\ sup'.deadline = sup.deadline /\ sup'.reply = sup.reply
    BY <1>1, <2>1, <2>3 DEF SupRecord
  <2>5. sup.reply = NoReply
    BY <1>1 DEF RegistrationInv, SupGood, ReplyGood
  <2>6. cutoff(sup') = cutoff(sup)
    BY <2>4 DEF cutoff
  <2>7. TimersGood(sup')
    BY <1>1, <1>4, <2>3, <2>4, <2>6 DEF TimersGood
  <2>8. LeaseGood(sup')
    BY <1>1, <2>4, <2>5 DEF RegistrationInv, SupGood, LeaseGood
  <2>9. SupGood(sup')
    BY <2>4, <2>5, <2>7, <2>8 DEF SupGood, ReplyGood
  <2> QED BY <1>1, <1>2, <2>4, <2>9, SupervisorKeeps DEF registryVars, RegistrationInv, Shapes
<1> QED BY <1>3, <1>4

\* The wait ends with the lifecycle.
LEMMA WaitCancelledStep ==
    ASSUME RegistrationInv, WaitCancelled
    PROVE  RegistrationInv'
<1>1. sup \in SupRecord /\ sup.pc = "waiting" /\ sup.reply = NoReply
  BY DEF RegistrationInv, SupGood, ReplyGood, WaitCancelled
<1>2. /\ sup' \in SupRecord /\ sup'.pc = "done" /\ sup'.reply = NoReply /\ sup'.token = sup.token
      /\ sup'.deadline = sup.deadline
  BY <1>1 DEF WaitCancelled, SupRecord
<1>3. SupGood(sup')
  BY <1>2 DEF RegistrationInv, SupGood, ReplyGood, TimersGood, LeaseGood
<1> QED BY <1>1, <1>2, <1>3, SupervisorKeeps DEF WaitCancelled, registryVars, RegistrationInv, Shapes

\* An accepted answer gives a deadline counted from the start of its attempt,
\* and the registry's lease is at least as long.
LEMMA RenewedIsGood ==
    ASSUME RegistrationInv, sup.pc = "calling", sup.reply # NoReply, acceptable
    PROVE  /\ Renewed \in SupRecord /\ Renewed.token = sup.reply.token /\ Renewed.token # NoToken
           /\ Renewed.deadline <= now + leaseTTL
           /\ Renewed.token \notin lost => expires[Renewed.token] >= Renewed.deadline
<1> USE RegistrationAssumption
<1>1. /\ sup \in SupRecord /\ sup.reply.token \in Tokens /\ sup.reply.duration = leaseTTL
      /\ leaseTTL > leaseSafetyBudget /\ sup.started <= now /\ now \in Nat /\ leaseTTL \in Nat
  BY DEF RegistrationInv, SupGood, ReplyGood, TimersGood, Shapes, acceptable
<1>2. sup.started \in Nat
  BY <1>1 DEF SupRecord
<1>3. Deadline \in Nat /\ Deadline = sup.started + leaseTTL /\ Deadline <= now + leaseTTL
  BY <1>1, <1>2 DEF Deadline
<1>4. /\ Renewed \in SupRecord /\ Renewed.token = sup.reply.token /\ Renewed.deadline = Deadline
  BY <1>1, <1>3 DEF Renewed, SupRecord
<1>5. sup.reply.token \notin lost => expires[sup.reply.token] >= sup.started + leaseTTL
  BY <1>1 DEF RegistrationInv, SupGood, LeaseGood
<1> QED BY <1>1, <1>3, <1>4, <1>5

\* The registration is answered.
LEMMA AnsweredStep ==
    ASSUME RegistrationInv, Answered
    PROVE  RegistrationInv'
<1>1. sup.pc = "calling" /\ sup.reply # NoReply
  BY DEF Answered
<1>2. UNCHANGED <<now, registryVars, main, cancelled, sinkOpen>>
  BY DEF Answered
<1>3. \/ \E err : Stop(sup, err)
      \/ RetryLater
      \/ acceptable /\ Schedule(Renewed)
  BY DEF Answered
<1>4. SupGood(sup') /\ (sup.token # NoToken => sup'.token # NoToken)
  <2>1. CASE \E err : Stop(sup, err)
    BY <2>1, StopKeeps
  <2>2. CASE RetryLater
    BY <1>1, <2>2, RetryKeeps
  <2>3. CASE acceptable /\ Schedule(Renewed)
    BY <1>1, <2>3, RenewedIsGood, ScheduleKeeps
  <2> QED BY <1>3, <2>1, <2>2, <2>3
<1> QED BY <1>1, <1>2, <1>4, SupervisorKeeps DEF registryVars, RegistrationInv, Shapes

\* The registration fails.
LEMMA AttemptFailsStep ==
    ASSUME RegistrationInv, AttemptFails
    PROVE  RegistrationInv'
<1>1. sup.pc = "calling" /\ UNCHANGED <<now, leaseTTL, expires, draining, lost, late, main>>
  BY DEF AttemptFails
<1>2. stray' \subseteq Tokens
  BY DEF AttemptFails, RegistrationInv, Shapes
<1>3. Stop(sup, "stopped") \/ RetryLater
  BY DEF AttemptFails
<1>4. SupGood(sup') /\ sup'.token = sup.token
  BY <1>1, <1>3, StopKeeps, RetryKeeps
<1> QED BY <1>1, <1>2, <1>4, SupervisorKeeps

-----------------------------------------------------------------------------
(* The registry. *)

\* While a lease the supervisor relies on lives, no other token is admitted.
LEMMA OthersAreBlocked ==
    ASSUME RegistrationInv, NEW t \in Tokens, Admits(t)
    PROVE  /\ sup.pc # "done" /\ sup.token # NoToken /\ sup.token \notin lost => sup.token = t
           /\ sup.pc = "calling" /\ sup.reply # NoReply /\ leaseTTL > leaseSafetyBudget
                 /\ sup.reply.token \notin lost => sup.reply.token = t
<1> USE RegistrationAssumption
<1>1. sup \in SupRecord /\ now \in Nat /\ leaseTTL \in Nat /\ expires \in [Tokens -> Nat]
  BY DEF RegistrationInv, SupGood, Shapes
<1>2. ASSUME sup.pc # "done", sup.token # NoToken, sup.token \notin lost, sup.token # t
      PROVE  FALSE
  <2>1. sup.token \in Tokens /\ sup.deadline \in Nat /\ expires[sup.token] >= sup.deadline
    BY <1>1, <1>2 DEF SupRecord, RegistrationInv, SupGood, LeaseGood
  <2>2. now <= cutoff(sup)
    BY <1>1, <1>2 DEF SupRecord, RegistrationInv, SupGood, TimersGood, cutoff
  <2>3. expires[sup.token] <= now /\ expires[sup.token] \in Nat
    BY <1>1, <1>2, <2>1 DEF Admits
  <2> QED BY <1>1, <2>1, <2>2, <2>3 DEF cutoff
<1>3. ASSUME sup.pc = "calling", sup.reply # NoReply, leaseTTL > leaseSafetyBudget,
             sup.reply.token \notin lost, sup.reply.token # t
      PROVE  FALSE
  <2>1. /\ sup.reply.token \in Tokens /\ expires[sup.reply.token] >= sup.started + leaseTTL
        /\ now <= sup.limit /\ sup.limit <= sup.started + AttemptTimeout
    BY <1>3 DEF RegistrationInv, SupGood, LeaseGood, ReplyGood, TimersGood
  <2>2. expires[sup.reply.token] <= now /\ expires[sup.reply.token] \in Nat
    BY <1>1, <1>3, <2>1 DEF Admits
  <2>3. sup.started \in Nat /\ sup.limit \in Int
    BY <1>1 DEF SupRecord
  <2> QED BY <1>1, <1>3, <2>1, <2>2, <2>3 DEF leaseSafetyBudget
<1> QED BY <1>2, <1>3

\* A lease that is extended, by the supervisor's request or one it gave up on,
\* covers what the supervisor relies on.
LEMMA ExtendKeeps ==
    ASSUME RegistrationInv, NEW t \in Tokens, Admits(t), Extend(t), UNCHANGED <<now, leaseTTL>>
    PROVE  /\ expires' \in [Tokens -> Nat] /\ lost' \subseteq Tokens /\ draining' = {}
           /\ expires'[t] = now + leaseTTL
           /\ \A u \in Tokens : u # t => expires'[u] = 0
           /\ sup.pc # "done" /\ sup.token # NoToken /\ sup.token \notin lost'
                 => expires'[sup.token] >= sup.deadline
           /\ sup.pc = "calling" /\ sup.reply # NoReply /\ leaseTTL > leaseSafetyBudget
                 /\ sup.reply.token \notin lost' => expires'[sup.reply.token] >= sup.started + leaseTTL
<1> USE RegistrationAssumption
<1>1. sup \in SupRecord /\ now \in Nat /\ leaseTTL \in Nat /\ expires \in [Tokens -> Nat] /\ lost \subseteq Tokens
  BY DEF RegistrationInv, SupGood, Shapes
<1>2. /\ expires' \in [Tokens -> Nat] /\ lost' \subseteq Tokens /\ draining' = {} /\ lost' = lost \ {t}
      /\ expires'[t] = now + leaseTTL
      /\ \A u \in Tokens : u # t => expires'[u] = 0
  BY <1>1 DEF Extend
<1>3. ASSUME sup.pc # "done", sup.token # NoToken, sup.token \notin lost'
      PROVE  expires'[sup.token] >= sup.deadline
  <2>1. sup.token = t
    BY <1>2, <1>3, OthersAreBlocked
  <2>2. sup.deadline <= now + leaseTTL
    BY <1>3 DEF RegistrationInv, SupGood, LeaseGood
  <2> QED BY <1>2, <2>1, <2>2
<1>4. ASSUME sup.pc = "calling", sup.reply # NoReply, leaseTTL > leaseSafetyBudget,
             sup.reply.token \notin lost'
      PROVE  expires'[sup.reply.token] >= sup.started + leaseTTL
  <2>1. sup.reply.token = t
    BY <1>2, <1>4, OthersAreBlocked
  <2>2. sup.started <= now /\ sup.started \in Nat
    BY <1>1, <1>4 DEF SupRecord, RegistrationInv, SupGood, TimersGood
  <2> QED BY <1>1, <1>2, <2>1, <2>2
<1> QED BY <1>2, <1>3, <1>4

\* The registry applies the registration under way.
LEMMA RegistryAppliesStep ==
    ASSUME RegistrationInv, NEW t \in Tokens, RegistryApplies(t)
    PROVE  RegistrationInv'
<1> USE RegistrationAssumption
<1>1. sup \in SupRecord /\ now \in Nat /\ leaseTTL \in Nat /\ sup.pc = "calling"
  BY DEF RegistrationInv, SupGood, Shapes, RegistryApplies
<1>2. UNCHANGED <<now, leaseTTL, stray, late, main>> /\ Admits(t) /\ Extend(t)
  BY DEF RegistryApplies
<1>3. /\ expires' \in [Tokens -> Nat] /\ lost' \subseteq Tokens /\ draining' = {}
      /\ expires'[t] = now + leaseTTL
      /\ sup.pc # "done" /\ sup.token # NoToken /\ sup.token \notin lost'
            => expires'[sup.token] >= sup.deadline
  BY <1>2, ExtendKeeps
<1>4. /\ sup' \in SupRecord /\ sup'.pc = "calling" /\ sup'.token = sup.token /\ sup'.deadline = sup.deadline
      /\ sup'.started = sup.started /\ sup'.limit = sup.limit
      /\ sup'.reply.token = t /\ sup'.reply.duration = leaseTTL
  BY <1>1 DEF RegistryApplies, SupRecord, ReplyRecord
<1>5. Shapes'
  BY <1>2, <1>3 DEF RegistrationInv, Shapes
<1>6. ReplyGood(sup)'
  BY <1>2, <1>4 DEF ReplyGood
<1>7. TimersGood(sup)'
  BY <1>1, <1>2, <1>4 DEF RegistrationInv, SupGood, TimersGood, cutoff
<1>8. LeaseGood(sup)'
  <2>1. sup.started <= now /\ sup.started \in Nat
    BY <1>1 DEF SupRecord, RegistrationInv, SupGood, TimersGood
  <2>2. sup'.token # NoToken => sup'.deadline <= now + leaseTTL
    BY <1>4 DEF RegistrationInv, SupGood, LeaseGood
  <2>3. expires'[sup'.reply.token] >= sup'.started + leaseTTL
    BY <1>1, <1>3, <1>4, <2>1
  <2> QED BY <1>1, <1>2, <1>3, <1>4, <2>2, <2>3 DEF LeaseGood
<1>9. MainGood' /\ DrainedIsNotRoutable'
  BY <1>1, <1>2, <1>4 DEF RegistrationInv, MainGood, DrainedIsNotRoutable
<1> QED BY <1>4, <1>5, <1>6, <1>7, <1>8, <1>9 DEF RegistrationInv, SupGood

\* The registry applies a registration the supervisor gave up on; in the
\* interval of the close it is recorded as late.
LEMMA StrayAppliesStep ==
    ASSUME RegistrationInv, NEW t \in Tokens, StrayApplies(t)
    PROVE  RegistrationInv'
<1>1. /\ UNCHANGED <<now, leaseTTL, sup, main>> /\ Admits(t) /\ Extend(t) /\ stray' \subseteq stray
      /\ late' = IF main.pc = "close" THEN late \cup {t} ELSE late
  BY DEF StrayApplies
<1>2. /\ expires' \in [Tokens -> Nat] /\ lost' \subseteq Tokens /\ draining' = {}
      /\ \A u \in Tokens : u # t => expires'[u] = 0
      /\ sup.pc # "done" /\ sup.token # NoToken /\ sup.token \notin lost'
            => expires'[sup.token] >= sup.deadline
      /\ sup.pc = "calling" /\ sup.reply # NoReply /\ leaseTTL > leaseSafetyBudget
            /\ sup.reply.token \notin lost' => expires'[sup.reply.token] >= sup.started + leaseTTL
  BY <1>1, ExtendKeeps
<1>3. Shapes'
  BY <1>1, <1>2 DEF RegistrationInv, Shapes
<1>4. ReplyGood(sup)' /\ TimersGood(sup)' /\ MainGood' /\ (sup \in SupRecord)'
  BY <1>1 DEF RegistrationInv, SupGood, ReplyGood, TimersGood, MainGood, cutoff
<1>5. LeaseGood(sup)'
  BY <1>1, <1>2 DEF RegistrationInv, SupGood, LeaseGood, leaseSafetyBudget
<1>6. DrainedIsNotRoutable'
  <2> SUFFICES ASSUME main.pc = "close", NEW u \in main.tokens
               PROVE  expires'[u] <= now \/ u \in late'
    BY <1>1 DEF DrainedIsNotRoutable
  <2>1. u \in Tokens /\ now \in Nat
    BY DEF RegistrationInv, Shapes, MainRecord
  <2> QED BY <1>1, <1>2, <2>1
<1> QED BY <1>3, <1>4, <1>5, <1>6 DEF RegistrationInv, SupGood

\* The registry forgets.
LEMMA ForgetStep ==
    ASSUME RegistrationInv, Forget
    PROVE  RegistrationInv'
<1>1. /\ UNCHANGED <<now, leaseTTL, stray, late, sup, main>>
      /\ expires' = [t \in Tokens |-> 0] /\ draining' = {} /\ lost' = Tokens
  BY DEF Forget
<1>2. Shapes'
  BY <1>1 DEF RegistrationInv, Shapes
<1>3. ReplyGood(sup)' /\ TimersGood(sup)' /\ MainGood' /\ (sup \in SupRecord)'
  BY <1>1 DEF RegistrationInv, SupGood, ReplyGood, TimersGood, MainGood, cutoff
<1>4. LeaseGood(sup)'
  BY <1>1 DEF RegistrationInv, SupGood, LeaseGood, ReplyGood, SupRecord
<1>5. DrainedIsNotRoutable'
  BY <1>1 DEF RegistrationInv, Shapes, MainRecord, DrainedIsNotRoutable
<1> QED BY <1>2, <1>3, <1>4, <1>5 DEF RegistrationInv, SupGood

-----------------------------------------------------------------------------
(* Serve and time. *)

\* A step of Serve that leaves the leases and the drains alone, and does not
\* enter the close.
LEMMA ServeKeeps ==
    ASSUME RegistrationInv, serveStep, UNCHANGED <<expires, draining>>, main' \in MainRecord,
           main'.pc # "close",
           main'.pc \in {"drain", "release", "returned"} => sup.pc = "done",
           main'.pc \notin {"registering", "returned"} => sup.token # NoToken
    PROVE  RegistrationInv'
<1>1. Shapes'
  BY DEF serveStep, RegistrationInv, Shapes
<1>2. SupGood(sup)'
  BY DEF serveStep, RegistrationInv, SupGood, ReplyGood, TimersGood, LeaseGood, cutoff, leaseSafetyBudget
<1>3. MainGood' /\ DrainedIsNotRoutable'
  BY DEF serveStep, MainGood, DrainedIsNotRoutable
<1> QED BY <1>1, <1>2, <1>3 DEF RegistrationInv

\* The steps of Serve before the drain.
LEMMA IntakeStep ==
    ASSUME RegistrationInv,
           StartServing \/ Intake \/ IntakeDone \/ SettleFailure \/ StartFinish \/ WaitRenewal
    PROVE  RegistrationInv'
<1> USE RegistrationAssumption
<1>1. main \in MainRecord /\ now \in Nat /\ sup \in SupRecord
  BY DEF RegistrationInv, Shapes, SupGood
<1>2. serveStep /\ UNCHANGED <<expires, draining>>
  BY DEF StartServing, Intake, IntakeDone, SettleFailure, StartFinish, WaitRenewal
<1>3. CASE StartServing
  <2>1. /\ main' \in MainRecord
        /\ \/ main'.pc = "select" /\ sup.token # NoToken
           \/ main'.pc = "returned" /\ sup.pc = "done"
    BY <1>1, <1>3 DEF StartServing, MainRecord, Supervising
  <2> QED BY <1>2, <2>1, ServeKeeps
<1>4. CASE Intake
  <2>1. PICK t \in 1 .. IntakeTime : main' = [main EXCEPT !.pc = "busy", !.until = now + t]
    BY <1>4 DEF Intake
  <2>2. main' \in MainRecord /\ main'.pc = "busy" /\ main.pc = "select"
    <3>1. PICK u \in Nat : u = now + t
      BY <1>1, <2>1
    <3> QED BY <1>1, <1>4, <2>1, <3>1 DEF Intake, MainRecord
  <2> QED BY <1>2, <2>2, ServeKeeps DEF RegistrationInv, MainGood
<1>5. CASE IntakeDone
  <2>1. main' \in MainRecord /\ main'.pc = "select" /\ main.pc = "busy"
    BY <1>1, <1>5 DEF IntakeDone, MainRecord
  <2> QED BY <1>2, <2>1, ServeKeeps DEF RegistrationInv, MainGood
<1>6. CASE SettleFailure
  <2>1. main' \in MainRecord /\ main'.pc = main.pc /\ main.pc \in {"select", "busy"}
    BY <1>1, <1>6 DEF SettleFailure, MainRecord
  <2> QED BY <1>2, <2>1, ServeKeeps DEF RegistrationInv, MainGood
<1>7. CASE StartFinish
  <2>1. main.pc = "select" /\ sup.token \in Tokens
    BY <1>1, <1>7 DEF StartFinish, RegistrationInv, MainGood, SupRecord
  <2>2. main' \in MainRecord /\ main'.pc = "waitRenewal"
    <3>1. {sup.token} \cup ({errc} \cap Tokens) \in SUBSET Tokens
      BY <2>1
    <3> QED BY <1>1, <1>7, <3>1 DEF StartFinish, MainRecord
  <2> QED BY <1>2, <2>1, <2>2, ServeKeeps DEF RegistrationInv, MainGood
<1>8. CASE WaitRenewal
  <2>1. main' \in MainRecord /\ main'.pc = "drain" /\ main.pc = "waitRenewal" /\ sup.pc = "done"
    <3>1. PICK u \in Nat : u = now + ReleaseTimeout
      BY <1>1
    <3> QED BY <1>1, <1>8, <3>1 DEF WaitRenewal, MainRecord
  <2> QED BY <1>2, <2>1, ServeKeeps DEF RegistrationInv, MainGood
<1> QED BY <1>3, <1>4, <1>5, <1>6, <1>7, <1>8

\* The lifecycle context ends: nothing the invariant is about changes.
LEMMA CancelStep ==
    ASSUME RegistrationInv, Cancel
    PROVE  RegistrationInv'
BY DEF Cancel, serveStep, RegistrationInv, Shapes, SupGood, ReplyGood, TimersGood, LeaseGood, cutoff,
       leaseSafetyBudget, MainGood, DrainedIsNotRoutable

\* After the supervisor's end the leases may be drained and released.
LEMMA DrainKeeps ==
    ASSUME RegistrationInv, serveStep, sup.pc = "done", expires' \in [Tokens -> Nat],
           draining' \subseteq Tokens, main' \in MainRecord,
           main.pc # "registering", main.pc # "returned", DrainedIsNotRoutable'
    PROVE  RegistrationInv'
<1>1. Shapes'
  BY DEF serveStep, RegistrationInv, Shapes
<1>2. SupGood(sup)'
  BY DEF serveStep, RegistrationInv, SupGood, ReplyGood, TimersGood, LeaseGood, cutoff, leaseSafetyBudget
<1>3. MainGood'
  BY DEF serveStep, RegistrationInv, MainGood
<1> QED BY <1>1, <1>2, <1>3 DEF RegistrationInv

\* A drain takes the routes of every lease it is about.
LEMMA DrainStep ==
    ASSUME RegistrationInv, NEW tokens \in SUBSET Tokens, Drain(tokens)
    PROVE  /\ expires' \in [Tokens -> Nat] /\ draining' \subseteq Tokens
           /\ \A t \in tokens : expires'[t] <= now \/ t \in draining'
<1> USE RegistrationAssumption
<1>1. now \in Nat /\ expires \in [Tokens -> Nat] /\ draining \subseteq Tokens
  BY DEF RegistrationInv, Shapes
<1>2. \A t \in Tokens : Maximum(expires[t], now + DrainDuration) \in Nat
  BY <1>1 DEF Maximum
<1>3. expires' \in [Tokens -> Nat] /\ draining' \subseteq Tokens
  BY <1>1, <1>2 DEF Drain
<1>4. ASSUME NEW t \in tokens PROVE expires'[t] <= now \/ t \in draining'
  <2>1. t \in Tokens
    OBVIOUS
  <2>2. CASE expires[t] > now
    BY <2>1, <2>2 DEF Drain
  <2>3. CASE ~(expires[t] > now)
    BY <1>1, <2>1, <2>3 DEF Drain
  <2> QED BY <2>2, <2>3
<1> QED BY <1>3, <1>4

\* The drain, the close and the release.
LEMMA ShutdownStep ==
    ASSUME RegistrationInv, drainProvider \/ closeSinkBounded \/ releaseProvider
    PROVE  RegistrationInv'
<1> USE RegistrationAssumption
<1>1. /\ main \in MainRecord /\ now \in Nat /\ expires \in [Tokens -> Nat] /\ draining \subseteq Tokens
  BY DEF RegistrationInv, Shapes
<1>2. serveStep /\ sup.pc = "done" /\ main.pc \in {"drain", "close", "release"}
  BY DEF drainProvider, closeSinkBounded, releaseProvider, RegistrationInv, MainGood
<1>3. CASE drainProvider
  <2>1. CASE Drain(main.tokens) /\ main' = [main EXCEPT !.pc = "close"]
    <3>1. main' \in MainRecord /\ main'.tokens = main.tokens /\ main.tokens \in SUBSET Tokens
      BY <1>1, <2>1 DEF MainRecord
    <3>2. /\ expires' \in [Tokens -> Nat] /\ draining' \subseteq Tokens
          /\ \A t \in main.tokens : expires'[t] <= now \/ t \in draining'
      BY <2>1, <3>1, DrainStep
    <3>3. DrainedIsNotRoutable'
      BY <1>2, <3>1, <3>2 DEF DrainedIsNotRoutable, serveStep
    <3> QED BY <1>2, <3>1, <3>2, <3>3, DrainKeeps
  <2>2. CASE /\ \E some \in SUBSET main.tokens : Drain(some)
             /\ main' = [main EXCEPT !.pc = "close", !.failed = TRUE]
    <3>1. main' \in MainRecord /\ main'.failed = TRUE /\ main.tokens \in SUBSET Tokens
      BY <1>1, <2>2 DEF MainRecord
    <3>2. PICK some \in SUBSET Tokens : Drain(some)
      BY <2>2, <3>1
    <3>3. expires' \in [Tokens -> Nat] /\ draining' \subseteq Tokens
      BY <3>2, DrainStep
    <3>4. DrainedIsNotRoutable'
      BY <3>1 DEF DrainedIsNotRoutable
    <3> QED BY <1>2, <3>1, <3>3, <3>4, DrainKeeps
  <2> QED BY <1>3, <2>1, <2>2 DEF drainProvider
<1>4. CASE closeSinkBounded
  <2>1. PICK failed \in {main.failed, TRUE} :
          main' = [main EXCEPT !.pc = "release", !.until = now + ReleaseTimeout, !.failed = failed]
    BY <1>4 DEF closeSinkBounded
  <2>2. main' \in MainRecord /\ main'.pc = "release"
    <3>1. PICK u \in Nat : u = now + ReleaseTimeout
      BY <1>1
    <3>2. failed \in BOOLEAN
      BY <1>1, <2>1 DEF MainRecord
    <3> QED BY <1>1, <2>1, <3>1, <3>2 DEF MainRecord
  <2>3. UNCHANGED <<expires, draining>>
    BY <1>4 DEF closeSinkBounded
  <2> QED BY <1>1, <1>2, <2>2, <2>3, DrainKeeps DEF DrainedIsNotRoutable
<1>5. CASE releaseProvider
  <2>1. main' \in MainRecord /\ main'.pc = "returned"
    BY <1>1, <1>5 DEF releaseProvider, MainRecord
  <2>2. expires' \in [Tokens -> Nat] /\ draining' \subseteq Tokens
    <3>1. ASSUME NEW tokens, Release(tokens) PROVE expires' \in [Tokens -> Nat] /\ draining' \subseteq Tokens
      BY <1>1, <3>1 DEF Release
    <3> QED BY <1>1, <1>5, <3>1 DEF releaseProvider
  <2> QED BY <1>2, <2>1, <2>2, DrainKeeps DEF DrainedIsNotRoutable
<1> QED BY <1>3, <1>4, <1>5

\* Time waits for a timer that is due, so it never passes one.
LEMMA TickStep ==
    ASSUME RegistrationInv, Tick
    PROVE  RegistrationInv'
<1> USE RegistrationAssumption
<1>1. /\ ~Due /\ now' = now + 1 /\ now \in Nat /\ leaseTTL \in Nat /\ sup \in SupRecord
      /\ UNCHANGED <<leaseTTL, expires, draining, stray, lost, late, sup, main>>
  BY DEF Tick, registryVars, RegistrationInv, Shapes, SupGood
<1>2. Shapes' /\ MainGood'
  BY <1>1 DEF RegistrationInv, Shapes, MainGood
<1>3. TimersGood(sup)'
  <2>0. sup.started \in Nat /\ sup.limit \in Int /\ sup.wake \in Int
    BY <1>1 DEF SupRecord
  <2>1. sup.pc = "calling" => ~(now >= sup.limit)
    BY <1>1 DEF Due
  <2>2. sup.pc = "waiting" => ~(now >= sup.wake)
    BY <1>1 DEF Due
  <2> QED BY <1>1, <2>0, <2>1, <2>2 DEF RegistrationInv, SupGood, TimersGood, cutoff
<1>4. ReplyGood(sup)' /\ LeaseGood(sup)'
  <2>1. sup.deadline \in Nat
    BY <1>1 DEF SupRecord
  <2> QED BY <1>1, <2>1 DEF RegistrationInv, SupGood, ReplyGood, LeaseGood, leaseSafetyBudget
<1>5. DrainedIsNotRoutable'
  <2>1. main.pc # "close"
    BY <1>1 DEF Due
  <2> QED BY <1>1, <2>1 DEF DrainedIsNotRoutable
<1> QED BY <1>1, <1>2, <1>3, <1>4, <1>5 DEF RegistrationInv, SupGood

-----------------------------------------------------------------------------
(* The theorems. *)

\* Every reachable state has the invariant.
THEOREM RegistrationInvariant == Spec => []RegistrationInv
<1>1. Init => RegistrationInv
  <2> SUFFICES ASSUME Init PROVE RegistrationInv
    OBVIOUS
  <2> USE RegistrationAssumption
  <2>1. Shapes
    BY DEF Init, Shapes, MainInit, MainRecord
  <2>2. sup \in SupRecord /\ sup.reply = NoReply /\ sup.token = NoToken /\ sup.pc = "waiting"
    BY DEF Init, SupInit, NoReply, SupRecord, ReplyRecord
  <2>3. SupGood(sup)
    BY <2>2 DEF SupGood, ReplyGood, TimersGood, LeaseGood
  <2>4. MainGood /\ DrainedIsNotRoutable
    BY DEF Init, MainInit, MainGood, DrainedIsNotRoutable
  <2> QED BY <2>1, <2>3, <2>4 DEF RegistrationInv
<1>2. RegistrationInv /\ [Next]_vars => RegistrationInv'
  <2> SUFFICES ASSUME RegistrationInv, [Next]_vars PROVE RegistrationInv'
    OBVIOUS
  <2>1. CASE UNCHANGED vars
    BY <2>1 DEF vars, registryVars, RegistrationInv, Shapes, SupGood, ReplyGood, TimersGood, LeaseGood,
                cutoff, leaseSafetyBudget, MainGood, DrainedIsNotRoutable
  <2>2. CASE Next
    BY <2>1, <2>2, AttemptStep, WaitCancelledStep, AnsweredStep, AttemptFailsStep, RegistryAppliesStep,
       StrayAppliesStep, ForgetStep, IntakeStep, CancelStep, ShutdownStep, TickStep DEF Next, Returned
  <2> QED BY <2>1, <2>2
<1> QED BY <1>1, <1>2, PTL DEF Spec

\* While the supervisor renews, the registry's lease outlives the deadline it
\* computed from the start of an attempt (registerProvider), for every lease
\* duration and however late answers and abandoned requests are applied.
THEOREM LeaseIsConservativeAlways == Spec => []LeaseIsConservative
<1>1. RegistrationInv => LeaseIsConservative
  BY DEF RegistrationInv, SupGood, LeaseGood, LeaseIsConservative, Active, Supervising
<1> QED BY <1>1, RegistrationInvariant, PTL

\* The supervisor never works past the cutoff: neither a wait nor a renewal
\* lasts beyond it (superviseRegistration).
THEOREM StopsByCutoffAlways == Spec => []StopsByCutoff
<1>1. RegistrationInv => StopsByCutoff
  <2> SUFFICES ASSUME RegistrationInv, Active PROVE now <= cutoff(sup)
    BY DEF StopsByCutoff
  <2>1. sup.pc \in {"waiting", "calling"} /\ sup.token # NoToken /\ sup \in SupRecord /\ now \in Nat
    BY DEF RegistrationInv, SupGood, SupRecord, Shapes, Active, Supervising
  <2>2. cutoff(sup) \in Int /\ sup.wake \in Int /\ sup.limit \in Int
    BY <2>1, RegistrationAssumption DEF cutoff, SupRecord
  <2> QED BY <2>1, <2>2 DEF RegistrationInv, SupGood, TimersGood
<1> QED BY <1>1, RegistrationInvariant, PTL

\* After the drain no lease that Serve knows of routes calls, since the
\* supervisor's end comes before the drain (finish).
THEOREM DrainedIsNotRoutableAlways == Spec => []DrainedIsNotRoutable
<1>1. RegistrationInv => DrainedIsNotRoutable
  BY DEF RegistrationInv
<1> QED BY <1>1, RegistrationInvariant, PTL
=============================================================================
