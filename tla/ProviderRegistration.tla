------------------------ MODULE ProviderRegistration ------------------------
(***************************************************************************)
(* How a provider keeps its registration, in time                          *)
(* (runtime/toolregistry/provider/registration.go, and what serve makes of *)
(* it in provider.go): the first registration, its renewal before a cutoff *)
(* that is computed from the start of the attempt that obtained the lease, *)
(* and the drain and release of every lease when the supervisor stops.     *)
(*                                                                         *)
(* now counts abstract ticks; a timer that is due runs before time goes    *)
(* on.  The registry extends a lease when it applies a registration, which *)
(* may be after the provider has given up on it; applying one also takes   *)
(* back a drain (ToolsetCatalog).  It may forget everything.               *)
(***************************************************************************)
EXTENDS Integers, FiniteSets

CONSTANTS
    Tokens,           \* admission tokens a registration may be answered with
    Durations,        \* lease durations the registry may be configured with
    AttemptTimeout, RetryInitial, RetryMax, ShutdownMargin,
    IntakeTime,       \* bound of one intake step: pong, overload report, acknowledgement
    ReleaseTimeout,   \* bound of a drain or a release with all its retries
    DrainDuration,    \* settlement time a drain asks for
    NoToken,
    MaxStray,         \* bound: registrations given up on that may still be applied
    MaxTime           \* bound: leases are granted and events arrive only before this time

ASSUME RegistrationAssumption ==
    /\ NoToken \notin Tokens
    /\ Durations \subseteq Nat
    /\ AttemptTimeout \in Nat \ {0} /\ RetryInitial \in Nat \ {0} /\ RetryMax \in Nat
    /\ RetryInitial <= RetryMax
    /\ ShutdownMargin \in Nat \ {0} /\ IntakeTime \in Nat /\ ReleaseTimeout \in Nat
    /\ DrainDuration \in Nat \ {0}
    /\ MaxStray \in Nat /\ MaxTime \in Nat

VARIABLES
    now,
    leaseTTL,   \* the lease duration the registry is configured with
    expires,    \* the registry's leases of this provider, by token; 0 is none
    draining,   \* the tokens under which it is draining
    stray,      \* tokens of registrations the provider gave up on, still to be applied
    lost,       \* history: tokens whose lease the registry forgot
    late,       \* history: registrations given up on and applied while the sink is closed
    sup,        \* the registration loops: first registration, then supervisor
    main,       \* the rest of Serve
    errc,       \* the stop signal: none, failed, stopped or a changed token
    cancelled,  \* the lifecycle context is done
    sinkOpen    \* the provider consumes the toolset stream

registryVars == <<leaseTTL, expires, draining, stray, lost, late>>
vars == <<now, registryVars, sup, main, errc, cancelled, sinkOpen>>

Minimum(a, b) == IF a < b THEN a ELSE b
Maximum(a, b) == IF a < b THEN b ELSE a

-----------------------------------------------------------------------------
(* Delays. *)

\* Up to a fifth more or less, bounded by maximum unless that is 0.
jitterRegistrationDelay(base, maximum) ==
    LET spread == base \div 5 IN
    {IF maximum > 0 THEN Minimum(d, maximum) ELSE d : d \in base - spread .. base + spread}

\* Consecutive failures double the delay up to its bound.
Backoff[failures \in Nat] ==
    IF failures <= 1 THEN RetryInitial
    ELSE IF Backoff[failures - 1] >= RetryMax \div 2 THEN RetryMax
    ELSE 2 * Backoff[failures - 1]

retryDelay(failures) == jitterRegistrationDelay(Backoff[failures], RetryMax)

renewalDelay(duration) == jitterRegistrationDelay(duration \div 3, 0)

leaseSafetyBudget == ShutdownMargin + AttemptTimeout + RetryMax

-----------------------------------------------------------------------------
(* The supervisor's state: lease token and duration, the local deadline of *)
(* the lease, consecutive failures; when it wakes; when the attempt under  *)
(* way started, when it is over, and the lease it obtained, if it did.     *)

NoReply == [token |-> NoToken, duration |-> 0]

SupInit == [pc |-> "waiting", token |-> NoToken, duration |-> 0, deadline |-> 0, failures |-> 0,
            wake |-> 0, started |-> 0, limit |-> 0, reply |-> NoReply]

MainInit == [pc |-> "registering", until |-> 0, tokens |-> {}, failed |-> FALSE]

Init ==
    /\ now = 0
    /\ expires = [t \in Tokens |-> 0] /\ draining = {} /\ stray = {} /\ lost = {}
    /\ late = {} /\ leaseTTL \in Durations
    /\ sup = SupInit
    /\ main = MainInit
    /\ errc = "none" /\ cancelled = FALSE /\ sinkOpen = FALSE

Supervising == sup.token # NoToken
cutoff(s) == s.deadline - ShutdownMargin

\* The supervisor returns an error, and signals it unless the lifecycle is over.
\* The signal is lost when another is waiting.  The first registration returns
\* its error to Serve.
Stop(s, err) ==
    /\ sup' = [s EXCEPT !.pc = "done", !.reply = NoReply]
    /\ errc' = IF s.token = NoToken \/ cancelled \/ errc # "none" THEN errc ELSE err

\* The head of the supervisor's loop, with the state s: the lease is too close
\* to its cutoff, or the next attempt is scheduled in the first half of what
\* is left.
Schedule(s) ==
    LET remaining == cutoff(s) - now
        delays == IF s.failures > 0 THEN retryDelay(s.failures) ELSE renewalDelay(s.duration)
    IN  \/ /\ remaining <= 0
           /\ Stop(s, "stopped")
        \/ /\ remaining > 0
           /\ \E d \in delays :
                LET delay == Minimum(d, remaining \div 2) IN
                IF delay <= 0 THEN Stop(s, "stopped")
                ELSE /\ sup' = [s EXCEPT !.pc = "waiting", !.wake = now + delay, !.reply = NoReply]
                     /\ UNCHANGED errc

\* Mutant: a renewal may take its full timeout whatever is left of the lease.
AttemptLimit_Unbounded == now + AttemptTimeout

\* An attempt is over at its timeout, and a renewal never after the cutoff.
AttemptLimit ==
    IF Supervising THEN Minimum(now + AttemptTimeout, cutoff(sup)) ELSE now + AttemptTimeout

\* registerProvider calls the registry.  With no time left it fails at once.
Attempt ==
    /\ sup.pc = "waiting" /\ now >= sup.wake
    /\ IF AttemptLimit <= now
       THEN Schedule([sup EXCEPT !.failures = @ + 1])
       ELSE /\ sup' = [sup EXCEPT !.pc = "calling", !.started = now, !.limit = AttemptLimit]
            /\ UNCHANGED errc
    /\ UNCHANGED <<now, registryVars, main, cancelled, sinkOpen>>

\* Waiting for the next attempt ends with the lifecycle.
WaitCancelled ==
    /\ sup.pc = "waiting" /\ cancelled
    /\ sup' = [sup EXCEPT !.pc = "done"]
    /\ UNCHANGED <<now, registryVars, main, errc, cancelled, sinkOpen>>

\* A registration is admitted when no other token has leases.
Admits(t) == now < MaxTime /\ \A u \in Tokens \ {t} : expires[u] <= now

Extend(t) ==
    /\ expires' = [u \in Tokens |-> IF u = t THEN now + leaseTTL ELSE 0]
    /\ draining' = {}
    /\ lost' = lost \ {t}

\* The registry admits the provider or renews its lease.
RegistryApplies(t) ==
    /\ sup.pc = "calling" /\ sup.reply = NoReply
    /\ Admits(t) /\ Extend(t)
    /\ sup' = [sup EXCEPT !.reply = [token |-> t, duration |-> leaseTTL]]
    /\ UNCHANGED <<now, leaseTTL, stray, late, main, errc, cancelled, sinkOpen>>

\* Mutant: the lease is counted from the answer.
Deadline_FromAnswer == now + sup.reply.duration

\* A lease is counted from the start of the attempt that obtained it.
Deadline == sup.started + sup.reply.duration

Renewed == [sup EXCEPT !.token = sup.reply.token, !.duration = sup.reply.duration,
                       !.deadline = Deadline, !.failures = 0]

acceptable == sup.reply.duration > leaseSafetyBudget

RetryLater ==
    LET failures == sup.failures + 1 IN
    IF Supervising THEN Schedule([sup EXCEPT !.failures = failures])
    ELSE /\ \E delay \in retryDelay(failures) :
              sup' = [sup EXCEPT !.pc = "waiting", !.wake = now + delay, !.failures = failures,
                                 !.reply = NoReply]
         /\ UNCHANGED errc

\* The registration is answered.  The first one starts the supervisor; a
\* renewal must come before the cutoff, for the same token, and with enough
\* of the new lease left.  A lease inside the safety budget is a failure.
Answered ==
    /\ sup.pc = "calling" /\ sup.reply # NoReply
    /\ IF ~acceptable
       THEN IF cancelled THEN Stop(sup, "stopped") ELSE RetryLater
       ELSE IF ~Supervising
       THEN IF Deadline > now + ShutdownMargin THEN Schedule(Renewed)
            ELSE IF cancelled THEN Stop(sup, "stopped") ELSE RetryLater
       ELSE IF now >= cutoff(sup) THEN Stop(sup, "stopped")
       ELSE IF sup.reply.token # sup.token THEN Stop(sup, sup.reply.token)
       ELSE IF Deadline <= now + ShutdownMargin THEN Stop(sup, "stopped")
       ELSE Schedule(Renewed)
    /\ UNCHANGED <<now, registryVars, main, cancelled, sinkOpen>>

\* The registration fails: the provider is not admitted, or the answer is
\* lost, or the request is given up and applied later, or never.  A retired
\* admission and, under a supervisor, a blocked one are not tried again; the
\* end of the lifecycle is noticed first.
AttemptFails ==
    /\ sup.pc = "calling"
    /\ stray' \in (IF sup.reply = NoReply /\ Cardinality(stray) < MaxStray
                   THEN {stray} \cup {stray \cup {t} : t \in Tokens} ELSE {stray})
    /\ \/ cancelled /\ Stop(sup, "stopped")
       \/ ~cancelled /\ stray' = stray /\ sup.reply = NoReply /\ Stop(sup, "stopped")
       \/ ~cancelled /\ RetryLater
    /\ UNCHANGED <<now, leaseTTL, expires, draining, lost, late, main, cancelled, sinkOpen>>

-----------------------------------------------------------------------------
(* The registry. *)

StrayApplies(t) ==
    /\ t \in stray /\ stray' = stray \ {t}
    /\ Admits(t) /\ Extend(t)
    /\ late' = IF main.pc = "close" THEN late \cup {t} ELSE late
    /\ UNCHANGED <<now, leaseTTL, sup, main, errc, cancelled, sinkOpen>>

\* Redis loses its state.
Forget ==
    /\ \E t \in Tokens : expires[t] > 0
    /\ expires' = [t \in Tokens |-> 0] /\ draining' = {} /\ lost' = Tokens
    /\ UNCHANGED <<now, leaseTTL, stray, late, sup, main, errc, cancelled, sinkOpen>>

-----------------------------------------------------------------------------
(* Serve. *)

serveStep == UNCHANGED <<now, leaseTTL, stray, lost, late, sup>>

\* Serve starts to consume once it is registered, or gives up.
StartServing ==
    /\ main.pc = "registering"
    /\ IF Supervising
       THEN /\ main' = [main EXCEPT !.pc = "select"] /\ sinkOpen' = TRUE
       ELSE /\ sup.pc = "done"
            /\ main' = [main EXCEPT !.pc = "returned", !.failed = TRUE] /\ UNCHANGED sinkOpen
    /\ serveStep /\ UNCHANGED <<expires, draining, errc, cancelled>>

\* An event holds the intake loop for up to IntakeTime.  The select that takes
\* it may do so although a stop is signalled.
Intake ==
    /\ main.pc = "select" /\ now < MaxTime
    /\ \E t \in 1 .. IntakeTime : main' = [main EXCEPT !.pc = "busy", !.until = now + t]
    /\ serveStep /\ UNCHANGED <<expires, draining, errc, cancelled, sinkOpen>>

IntakeDone ==
    /\ main.pc = "busy" /\ now >= main.until
    /\ main' = [main EXCEPT !.pc = "select"]
    /\ serveStep /\ UNCHANGED <<expires, draining, errc, cancelled, sinkOpen>>

\* A worker or the acknowledger fails to settle a call.
SettleFailure ==
    /\ main.pc \in {"select", "busy"} /\ ~main.failed
    /\ main' = [main EXCEPT !.failed = TRUE]
    /\ errc' = IF errc = "none" THEN "failed" ELSE errc
    /\ serveStep /\ UNCHANGED <<expires, draining, cancelled, sinkOpen>>

Cancel ==
    /\ ~cancelled /\ cancelled' = TRUE
    /\ serveStep /\ UNCHANGED <<expires, draining, main, errc, sinkOpen>>

\* finish: the leases to give back are the admitted one and, if the signal
\* that is received says so, the one that came instead.
StartFinish ==
    /\ main.pc = "select" /\ (cancelled \/ errc # "none")
    /\ main' = [main EXCEPT !.pc = "waitRenewal", !.tokens = {sup.token} \cup ({errc} \cap Tokens)]
    /\ cancelled' = TRUE /\ errc' = "none"
    /\ serveStep /\ UNCHANGED <<expires, draining, sinkOpen>>

\* Mutant: the drain does not wait for the supervisor.
WaitRenewal_Skips ==
    /\ main.pc = "waitRenewal"
    /\ main' = [main EXCEPT !.pc = "drain", !.until = now + ReleaseTimeout]
    /\ serveStep /\ UNCHANGED <<expires, draining, errc, cancelled, sinkOpen>>

WaitRenewal ==
    /\ main.pc = "waitRenewal" /\ sup.pc = "done"
    /\ main' = [main EXCEPT !.pc = "drain", !.until = now + ReleaseTimeout]
    /\ serveStep /\ UNCHANGED <<expires, draining, errc, cancelled, sinkOpen>>

\* The registry marks the leases as draining and lets them live for the
\* settlement.
Drain(tokens) ==
    LET held == {t \in tokens : expires[t] > now} IN
    /\ draining' = draining \cup held
    /\ expires' = [t \in Tokens |-> IF t \in held THEN Maximum(expires[t], now + DrainDuration)
                                    ELSE expires[t]]

\* Every lease is drained; or time runs out after some.
drainProvider ==
    /\ main.pc = "drain"
    /\ \/ Drain(main.tokens) /\ main' = [main EXCEPT !.pc = "close"]
       \/ /\ now >= main.until
          /\ \E some \in SUBSET main.tokens : Drain(some)
          /\ main' = [main EXCEPT !.pc = "close", !.failed = TRUE]
    /\ serveStep /\ UNCHANGED <<errc, cancelled, sinkOpen>>

closeSinkBounded ==
    /\ main.pc = "close"
    /\ sinkOpen' = FALSE
    /\ \E failed \in {main.failed, TRUE} :
          main' = [main EXCEPT !.pc = "release", !.until = now + ReleaseTimeout, !.failed = failed]
    /\ serveStep /\ UNCHANGED <<expires, draining, errc, cancelled>>

Release(tokens) ==
    /\ expires' = [t \in Tokens |-> IF t \in tokens THEN 0 ELSE expires[t]]
    /\ draining' = draining \ tokens

\* The leases are given back unless something failed to settle.
releaseProvider ==
    /\ main.pc = "release"
    /\ \/ ~main.failed /\ Release(main.tokens) /\ main' = [main EXCEPT !.pc = "returned"]
       \/ /\ ~main.failed /\ now >= main.until
          /\ \E some \in SUBSET main.tokens : Release(some)
          /\ main' = [main EXCEPT !.pc = "returned", !.failed = TRUE]
       \/ main.failed /\ main' = [main EXCEPT !.pc = "returned"] /\ UNCHANGED <<expires, draining>>
    /\ serveStep /\ UNCHANGED <<errc, cancelled, sinkOpen>>

-----------------------------------------------------------------------------

\* Time passes while every goroutine waits for it.
Due ==
    \/ sup.pc = "waiting" /\ (now >= sup.wake \/ cancelled)
    \/ sup.pc = "calling" /\ (now >= sup.limit \/ cancelled)
    \/ main.pc = "registering" /\ (Supervising \/ sup.pc = "done")
    \/ main.pc = "select" /\ (cancelled \/ errc # "none")
    \/ main.pc = "busy" /\ now >= main.until
    \/ main.pc = "waitRenewal" /\ sup.pc = "done"
    \/ main.pc \in {"drain", "release"} /\ now >= main.until
    \/ main.pc = "release" /\ main.failed
    \/ main.pc = "close"

Tick ==
    /\ ~Due /\ main.pc # "returned"
    /\ Supervising \/ now < MaxTime
    /\ now' = now + 1
    /\ UNCHANGED <<registryVars, sup, main, errc, cancelled, sinkOpen>>

Returned == main.pc = "returned" /\ UNCHANGED vars

Next ==
    \/ Attempt \/ WaitCancelled \/ Answered \/ AttemptFails
    \/ \E t \in Tokens : RegistryApplies(t) \/ StrayApplies(t)
    \/ Forget
    \/ StartServing \/ Intake \/ IntakeDone \/ SettleFailure \/ Cancel \/ StartFinish
    \/ WaitRenewal \/ drainProvider \/ closeSinkBounded \/ releaseProvider
    \/ Tick \/ Returned

Spec == Init /\ [][Next]_vars

-----------------------------------------------------------------------------
(* Properties. *)

\* The registry's view, the supervisor and Serve have their shapes.
TypeOK ==
    /\ now \in Nat /\ leaseTTL \in Durations
    /\ expires \in [Tokens -> Nat] /\ draining \subseteq Tokens
    /\ stray \subseteq Tokens /\ lost \subseteq Tokens /\ late \subseteq Tokens
    /\ sup \in [pc : {"waiting", "calling", "done"}, token : Tokens \cup {NoToken}, duration : Nat,
                deadline : Nat, failures : Nat, wake : Nat, started : Nat, limit : Nat,
                reply : [token : Tokens \cup {NoToken}, duration : Nat]]
    /\ main \in [pc : {"registering", "select", "busy", "waitRenewal", "drain", "close", "release",
                       "returned"},
                 until : Nat, tokens : SUBSET Tokens, failed : BOOLEAN]
    /\ errc \in {"none", "failed", "stopped"} \cup Tokens
    /\ cancelled \in BOOLEAN /\ sinkOpen \in BOOLEAN

Active == Supervising /\ sup.pc # "done"

\* The provider never believes in a lease longer than the registry grants it:
\* while it is renewing, the lease outlives the local deadline, whatever
\* answers were slow or lost, unless the registry forgot it.
LeaseIsConservative == Active /\ sup.token \notin lost => expires[sup.token] >= sup.deadline

\* The supervisor never works past the cutoff: a renewal in flight is given
\* up, and Serve is told to stop, with ShutdownMargin of the lease left.
StopsByCutoff == Active => now <= cutoff(sup)

\* After the drain, while intake is being closed, no lease of the provider
\* that it knows of routes calls to it, although renewals were under way when
\* the stop was decided.  The exception is a renewal that was given up on and
\* that the registry applies in just this interval.
DrainedIsNotRoutable ==
    main.pc = "close" /\ ~main.failed =>
        \A t \in main.tokens : expires[t] <= now \/ t \in draining \/ t \in late

\* Serve closes its sink before the lease it last relied on ends.
SinkClosesInTime == sinkOpen => now < sup.deadline

\* A clean return leaves no routable lease of this provider behind.
CleanReturnLeavesNothing ==
    main.pc = "returned" /\ ~main.failed => \A t \in Tokens : expires[t] <= now \/ t \in draining
=============================================================================
