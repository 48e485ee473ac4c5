--------------------------- MODULE ProviderServe ----------------------------
(***************************************************************************)
(* One provider process: Serve of runtime/toolregistry/provider, from the  *)
(* registration to the return.  Its goroutines are the intake loop (main), *)
(* the workers, the acknowledger, the registration supervisor and the      *)
(* consumer-group repair loop; they meet in the channels work, acks and    *)
(* errc and in three contexts.                                             *)
(*                                                                         *)
(* A call event stands for its tool-use id: the model has one request      *)
(* event per call.  The registry answers claims, results and overload      *)
(* reports; an error may hide that the request took effect.  Timeouts are  *)
(* choices: the settlement context may expire at any step of the shutdown. *)
(* What the supervisor does with time is in ProviderRegistration.          *)
(***************************************************************************)
EXTENDS Naturals, Sequences, FiniteSets

CONSTANTS
    Calls,          \* call events of the toolset stream
    Pings,          \* every other event: pings, malformed and unknown messages
    Workers,
    MaxQueued,      \* capacity of the work channel
    MaxDeliveries,  \* bound: how often the stream delivers one event here
    NoEvent

Events == Calls \cup Pings

ASSUME ServeAssumption ==
    /\ Calls \cap Pings = {}
    /\ NoEvent \notin Calls \cup Pings
    /\ IsFiniteSet(Workers) /\ Workers # {}
    /\ MaxQueued \in Nat \ {0}
    /\ MaxDeliveries \in Nat

VARIABLES
    main,        \* where Serve is, and the event it holds
    worker,      \* where every worker is, and the event it holds
    acker,       \* where the acknowledger is, and the event it holds
    supervisor,  \* the registration supervisor: off, running or done
    ensure,      \* the consumer-group repair loop: off, running or done
    work, acks,  \* the channels
    closed,      \* the channels that are closed
    errc,        \* a stop was signalled and not yet received
    cancelled,   \* the contexts that are done: lifecycle, settlement, handlers
    settleErr,   \* settlementErr is set
    stopErr,     \* another step of the shutdown failed
    lease,       \* the registry's view of this provider: none, routable, draining or released
    registry,    \* the registry's view of every call
    deliveries,  \* how often an event was delivered here
    acked        \* events this provider acknowledged

channelVars == <<work, acks, closed>>
goVars == <<supervisor, ensure>>
vars == <<main, worker, acker, goVars, channelVars, errc, cancelled, settleErr, stopErr,
          lease, registry, deliveries, acked>>

At(pc, e) == [pc |-> pc, event |-> e]
Idle == At("idle", NoEvent)
Exited == At("exited", NoEvent)

AckCapacity == Cardinality(Workers) + MaxQueued

Init ==
    /\ main = At("register", NoEvent)
    /\ worker = [w \in Workers |-> At("off", NoEvent)]
    /\ acker = At("off", NoEvent)
    /\ supervisor = "off" /\ ensure = "off"
    /\ work = <<>> /\ acks = <<>> /\ closed = {}
    /\ errc = FALSE /\ cancelled = {}
    /\ settleErr = FALSE /\ stopErr = FALSE
    /\ lease = "none"
    /\ registry = [c \in Calls |-> "queued"]
    /\ deliveries = [e \in Events |-> 0]
    /\ acked = {}

-----------------------------------------------------------------------------
(* Signals. *)

signalStop == errc' = TRUE

\* Mutant: a settlement failure stops the provider but is not remembered.
signalSettleFailure_Forgets == signalStop /\ UNCHANGED settleErr

signalSettleFailure == settleErr' = TRUE /\ signalStop

NoFailure == UNCHANGED <<settleErr, errc>>

-----------------------------------------------------------------------------
(* The start of Serve. *)

\* The provider is admitted; or Serve returns without it.
registerUntilSuccess ==
    /\ main.pc = "register"
    /\ \/ lease' = "routable" /\ main' = At("newSink", NoEvent)
       \/ lease' \in {"none", "routable"} /\ main' = At("returned", NoEvent)
    /\ UNCHANGED <<worker, acker, goVars, channelVars, errc, cancelled, settleErr, stopErr,
                   registry, deliveries, acked>>

\* The sink exists and the goroutines are started; or the lease is given back.
NewSink ==
    /\ main.pc = "newSink"
    /\ \/ /\ main' = At("select", NoEvent)
          /\ worker' = [w \in Workers |-> Idle] /\ acker' = Idle
          /\ supervisor' = "running" /\ ensure' = "running"
          /\ UNCHANGED lease
       \/ /\ main' = At("returned", NoEvent)
          /\ lease' \in {"routable", "released"}
          /\ UNCHANGED <<worker, acker, goVars>>
    /\ UNCHANGED <<channelVars, errc, cancelled, settleErr, stopErr, registry, deliveries, acked>>

\* The caller of Serve cancels its context.
Cancel ==
    /\ main.pc # "returned"
    /\ cancelled' = cancelled \cup {"lifecycle"}
    /\ UNCHANGED <<main, worker, acker, goVars, channelVars, errc, settleErr, stopErr, lease,
                   registry, deliveries, acked>>

\* The supervisor ends: because the lifecycle did, or with an error of its
\* own, which it signals unless the lifecycle is over.
superviseRegistration ==
    /\ supervisor = "running"
    /\ supervisor' = "done"
    /\ \/ "lifecycle" \in cancelled /\ UNCHANGED errc
       \/ "lifecycle" \notin cancelled /\ signalStop
    /\ UNCHANGED <<main, worker, acker, ensure, channelVars, cancelled, settleErr, stopErr, lease,
                   registry, deliveries, acked>>

runEnsureGroupLoop ==
    /\ ensure = "running" /\ "lifecycle" \in cancelled
    /\ ensure' = "done"
    /\ UNCHANGED <<main, worker, acker, supervisor, channelVars, errc, cancelled, settleErr,
                   stopErr, lease, registry, deliveries, acked>>

-----------------------------------------------------------------------------
(* Intake. *)

intakeStep == UNCHANGED <<worker, acker, goVars, acks, closed, cancelled, stopErr, lease>>

\* Mutant: intake waits for room in the queue.
acceptEvent_Blocks(e) ==
    IF e \in Pings
    THEN main' = At("ack", e) /\ UNCHANGED work
    ELSE IF Len(work) < MaxQueued
    THEN work' = Append(work, e) /\ UNCHANGED main
    ELSE main' = At("blocked", e) /\ UNCHANGED work

\* A call is queued, or is to be reported when the queue is full; anything
\* else is acknowledged at once, after the pong if it is a ping.
acceptEvent(e) ==
    IF e \in Pings
    THEN main' = At("ack", e) /\ UNCHANGED work
    ELSE IF Len(work) < MaxQueued
    THEN work' = Append(work, e) /\ UNCHANGED main
    ELSE main' = At("overload", e) /\ UNCHANGED work

\* The stream delivers an event, and may deliver it again until it is
\* acknowledged.
Receive(e) ==
    /\ main.pc = "select"
    /\ e \notin acked /\ deliveries[e] < MaxDeliveries
    /\ deliveries' = [deliveries EXCEPT ![e] = @ + 1]
    /\ acceptEvent(e)
    /\ intakeStep /\ UNCHANGED <<errc, settleErr, registry, acked>>

\* A failed intake step is recorded and ends the loop.
IntakeFails == signalSettleFailure /\ main' = At("cancel", NoEvent)

\* The report is answered: retry control was published, or the call turns out
\* to be decided already.
reportOverload ==
    LET c == main.event IN
    /\ main.pc = "overload"
    /\ \/ /\ registry' = [registry EXCEPT ![c] = IF @ = "queued" THEN "overloaded" ELSE @]
          /\ main' = At("ack", c) /\ NoFailure
       \/ /\ registry' \in {registry, [registry EXCEPT ![c] = IF @ = "queued" THEN "overloaded" ELSE @]}
          /\ IntakeFails
    /\ intakeStep /\ UNCHANGED <<work, deliveries, acked>>

ackImmediate ==
    /\ main.pc = "ack"
    /\ \/ acked' = acked \cup {main.event} /\ main' = At("select", NoEvent) /\ NoFailure
       \/ acked' \in {acked, acked \cup {main.event}} /\ IntakeFails
    /\ intakeStep /\ UNCHANGED <<work, registry, deliveries>>

\* The loop ends with the lifecycle or with a signal; a signal that is there
\* when the lifecycle ends is received too.
StopIntake ==
    /\ main.pc = "select"
    /\ "lifecycle" \in cancelled \/ errc
    /\ main' = At("cancel", NoEvent) /\ errc' = FALSE
    /\ intakeStep /\ UNCHANGED <<work, settleErr, registry, deliveries, acked>>

SubscriptionCloses ==
    /\ main.pc = "select"
    /\ main' = At("cancel", NoEvent)
    /\ intakeStep /\ UNCHANGED <<errc, work, settleErr, registry, deliveries, acked>>

-----------------------------------------------------------------------------
(* Workers and acknowledger. *)

Become(w, s) == worker' = [worker EXCEPT ![w] = s]
workerStep == UNCHANGED <<main, acker, goVars, closed, cancelled, stopErr, lease, deliveries, acked>>

Undecided == {"queued", "overloaded"}

Take(w) ==
    /\ worker[w] = Idle /\ work # <<>>
    /\ Become(w, At("claim", Head(work))) /\ work' = Tail(work)
    /\ workerStep /\ UNCHANGED <<acks, errc, settleErr, registry>>

\* Mutant: a claim that fails is taken for one that was not granted.
claimToolCall_Lenient(w) ==
    LET c == worker[w].event IN
    /\ worker[w].pc = "claim"
    /\ \/ /\ registry[c] \in Undecided
          /\ registry' = [registry EXCEPT ![c] = "mine"]
          /\ Become(w, At("handle", c)) /\ NoFailure
       \/ /\ registry' \in {registry, [registry EXCEPT ![c] = IF @ \in Undecided THEN "mine" ELSE @]}
          /\ Become(w, At("ack", c)) /\ NoFailure
    /\ workerStep /\ UNCHANGED <<work, acks>>

\* Only a granted claim runs the handler.  A claim that is refused leaves the
\* event to be acknowledged; one that fails, with or without effect, leaves it
\* pending and stops the provider.
claimToolCall(w) ==
    LET c == worker[w].event IN
    /\ worker[w].pc = "claim"
    /\ \/ /\ registry[c] \in Undecided
          /\ registry' = [registry EXCEPT ![c] = "mine"]
          /\ Become(w, At("handle", c)) /\ NoFailure
       \/ /\ registry[c] \notin Undecided
          /\ Become(w, At("ack", c)) /\ NoFailure /\ UNCHANGED registry
       \/ /\ registry' \in {registry, [registry EXCEPT ![c] = IF @ \in Undecided THEN "mine" ELSE @]}
          /\ Become(w, Idle) /\ signalSettleFailure
    /\ workerStep /\ UNCHANGED <<work, acks>>

\* The handler returns; an invalid result is not published.
HandleToolCall(w) ==
    /\ worker[w].pc = "handle"
    /\ \/ Become(w, At("publish", worker[w].event)) /\ NoFailure
       \/ Become(w, Idle) /\ signalSettleFailure
    /\ workerStep /\ UNCHANGED <<work, acks, registry>>

complete(w) ==
    LET c == worker[w].event IN
    /\ worker[w].pc = "publish"
    /\ \/ /\ registry' = [registry EXCEPT ![c] = "over"]
          /\ Become(w, At("ack", c)) /\ NoFailure
       \/ /\ registry' \in {registry, [registry EXCEPT ![c] = "over"]}
          /\ Become(w, Idle) /\ signalSettleFailure
    /\ workerStep /\ UNCHANGED <<work, acks>>

\* Sending on a closed channel panics.
SendAck(w) ==
    /\ worker[w].pc = "ack"
    /\ IF "acks" \in closed
       THEN Become(w, At("panic", worker[w].event)) /\ UNCHANGED acks
       ELSE /\ Len(acks) < AckCapacity
            /\ acks' = Append(acks, worker[w].event) /\ Become(w, Idle)
    /\ workerStep /\ UNCHANGED <<work, errc, settleErr, registry>>

\* A closed channel is read to its end.
ExitWorker(w) ==
    /\ worker[w] = Idle /\ work = <<>> /\ "work" \in closed
    /\ Become(w, Exited)
    /\ workerStep /\ UNCHANGED <<work, acks, errc, settleErr, registry>>

ackerStep == UNCHANGED <<main, worker, goVars, work, closed, cancelled, stopErr, lease, registry, deliveries>>

TakeAck ==
    /\ acker = Idle /\ acks # <<>>
    /\ acker' = At("ack", Head(acks)) /\ acks' = Tail(acks)
    /\ ackerStep /\ UNCHANGED <<errc, settleErr, acked>>

\* Mutant: the acknowledger gives up at the first failure.
AckEvent_Exits ==
    /\ acker.pc = "ack"
    /\ \/ acked' = acked \cup {acker.event} /\ NoFailure /\ acker' = Idle
       \/ acked' \in {acked, acked \cup {acker.event}} /\ signalSettleFailure
          /\ acker' = At("gone", NoEvent)
    /\ ackerStep /\ UNCHANGED acks

AckEvent ==
    /\ acker.pc = "ack"
    /\ acker' = Idle
    /\ \/ acked' = acked \cup {acker.event} /\ NoFailure
       \/ acked' \in {acked, acked \cup {acker.event}} /\ signalSettleFailure
    /\ ackerStep /\ UNCHANGED acks

ExitAcker ==
    /\ acker = Idle /\ acks = <<>> /\ "acks" \in closed
    /\ acker' = Exited
    /\ ackerStep /\ UNCHANGED <<acks, errc, settleErr, acked>>

-----------------------------------------------------------------------------
(* The shutdown, finish. *)

Finishing(pc, next) == main.pc = pc /\ main' = At(next, NoEvent)
finishStep == UNCHANGED <<worker, acker, goVars, work, acks, errc, settleErr, registry, deliveries, acked>>

\* A phase that ends when the settlement context is done may be reported as
\* not settled in time.
PhaseError == IF "settlement" \in cancelled THEN stopErr' \in {stopErr, TRUE} ELSE UNCHANGED stopErr

CancelLifecycle ==
    /\ Finishing("cancel", "waitRenewal")
    /\ cancelled' = cancelled \cup {"lifecycle"}
    /\ finishStep /\ UNCHANGED <<closed, stopErr, lease>>

\* The supervisor is waited for even after the wait has timed out.
WaitRenewal ==
    /\ Finishing("waitRenewal", "drain")
    /\ supervisor = "done"
    /\ stopErr' \in {stopErr, TRUE}
    /\ finishStep /\ UNCHANGED <<closed, cancelled, lease>>

\* The retries end with the transition made, or out of time and then nobody
\* knows.
drainProvider ==
    /\ Finishing("drain", "close")
    /\ \/ lease' = "draining" /\ UNCHANGED stopErr
       \/ lease' \in {lease, "draining"} /\ stopErr' = TRUE
    /\ finishStep /\ UNCHANGED <<closed, cancelled>>

\* The shared deadline of the settlement passes.
SettlementTimeout ==
    /\ main.pc \in {"close", "waitEnsure", "waitWorkers", "waitAcks"}
    /\ cancelled' = cancelled \cup {"settlement"}
    /\ UNCHANGED main /\ finishStep /\ UNCHANGED <<closed, stopErr, lease>>

\* Mutant: both channels are closed together.
closeSinkBounded_ClosesAcks ==
    /\ Finishing("close", "waitEnsure")
    /\ stopErr' \in {stopErr, TRUE}
    /\ closed' = closed \cup {"work", "acks"}
    /\ finishStep /\ UNCHANGED <<cancelled, lease>>

\* Intake is closed before the queue is.
closeSinkBounded ==
    /\ Finishing("close", "waitEnsure")
    /\ stopErr' \in {stopErr, TRUE}
    /\ closed' = closed \cup {"work"}
    /\ finishStep /\ UNCHANGED <<cancelled, lease>>

WaitEnsure ==
    /\ Finishing("waitEnsure", "waitWorkers")
    /\ ensure = "done"
    /\ PhaseError
    /\ finishStep /\ UNCHANGED <<closed, cancelled, lease>>

WorkersDone == \A w \in Workers : worker[w].pc = "exited"

\* Mutant: the acknowledgement channel is closed while workers still run.
WaitWorkers_Early ==
    /\ Finishing("waitWorkers", "waitAcks")
    /\ WorkersDone \/ "settlement" \in cancelled
    /\ IF WorkersDone THEN PhaseError ELSE stopErr' = TRUE
    /\ cancelled' = cancelled \cup {"handlers"}
    /\ closed' = closed \cup {"acks"}
    /\ finishStep /\ UNCHANGED lease

WaitWorkers ==
    /\ Finishing("waitWorkers", "waitAcks")
    /\ WorkersDone
    /\ PhaseError
    /\ cancelled' = cancelled \cup {"handlers"}
    /\ closed' = closed \cup {"acks"}
    /\ finishStep /\ UNCHANGED lease

\* Out of time: the handlers are cancelled, and the wait goes on.
cancelHandlers ==
    /\ main.pc = "waitWorkers" /\ "settlement" \in cancelled
    /\ cancelled' = cancelled \cup {"handlers"}
    /\ stopErr' = TRUE
    /\ UNCHANGED main /\ finishStep /\ UNCHANGED <<closed, lease>>

WaitAcks ==
    /\ Finishing("waitAcks", "release")
    /\ acker.pc = "exited"
    /\ PhaseError
    /\ finishStep /\ UNCHANGED <<closed, cancelled, lease>>

\* The lease is given back only if everything settled; a failed release
\* leaves it to expire.
releaseProvider ==
    /\ Finishing("release", "returned")
    /\ lease' \in (IF settleErr \/ stopErr THEN {lease} ELSE {lease, "released"})
    /\ finishStep /\ UNCHANGED <<closed, cancelled, stopErr>>

-----------------------------------------------------------------------------
(* The registry settles calls by itself: at their deadline, and for other  *)
(* providers.                                                              *)

Elsewhere(c) ==
    /\ \/ registry[c] \in Undecided /\ registry' = [registry EXCEPT ![c] = "other"]
       \/ registry[c] # "over" /\ registry' = [registry EXCEPT ![c] = "over"]
    /\ UNCHANGED <<main, worker, acker, goVars, channelVars, errc, cancelled, settleErr, stopErr,
                   lease, deliveries, acked>>

\* Serve has returned.
Stopped == main.pc = "returned" /\ UNCHANGED vars

Next ==
    \/ registerUntilSuccess \/ NewSink \/ Cancel
    \/ superviseRegistration \/ runEnsureGroupLoop
    \/ \E e \in Events : Receive(e)
    \/ reportOverload \/ ackImmediate \/ StopIntake \/ SubscriptionCloses
    \/ \E w \in Workers :
          \/ Take(w) \/ claimToolCall(w) \/ HandleToolCall(w) \/ complete(w)
          \/ SendAck(w) \/ ExitWorker(w)
    \/ TakeAck \/ AckEvent \/ ExitAcker
    \/ CancelLifecycle \/ WaitRenewal \/ drainProvider \/ SettlementTimeout \/ closeSinkBounded
    \/ WaitEnsure \/ WaitWorkers \/ cancelHandlers \/ WaitAcks \/ releaseProvider
    \/ \E c \in Calls : Elsewhere(c)
    \/ Stopped

Spec == Init /\ [][Next]_vars

(* Fairness: a goroutine that can go on does; the registry and Redis       *)
(* answer or the request times out.  A handler returns once its context is *)
(* cancelled, and nothing is asked of it before.  The supervisor and the   *)
(* repair loop end once the lifecycle does.  A stop that is signalled wins *)
(* the intake's select at some time.                                       *)
Fairness ==
    /\ WF_vars(registerUntilSuccess) /\ WF_vars(NewSink)
    /\ WF_vars(superviseRegistration /\ "lifecycle" \in cancelled)
    /\ WF_vars(runEnsureGroupLoop)
    /\ \A p \in Pings : SF_vars(Receive(p))
    /\ WF_vars(reportOverload) /\ WF_vars(ackImmediate) /\ SF_vars(StopIntake)
    /\ \A w \in Workers :
          /\ WF_vars(Take(w)) /\ WF_vars(claimToolCall(w)) /\ WF_vars(complete(w))
          /\ WF_vars(SendAck(w)) /\ WF_vars(ExitWorker(w))
          /\ WF_vars(HandleToolCall(w) /\ "handlers" \in cancelled)
    /\ WF_vars(TakeAck) /\ WF_vars(AckEvent) /\ WF_vars(ExitAcker)
    /\ WF_vars(CancelLifecycle) /\ WF_vars(WaitRenewal) /\ WF_vars(drainProvider)
    /\ WF_vars(SettlementTimeout) /\ WF_vars(closeSinkBounded) /\ WF_vars(WaitEnsure)
    /\ WF_vars(WaitWorkers) /\ WF_vars(cancelHandlers) /\ WF_vars(WaitAcks)
    /\ WF_vars(releaseProvider)

FairSpec == Spec /\ Fairness

-----------------------------------------------------------------------------
(* Properties. *)

StopPhases == {"cancel", "waitRenewal", "drain", "close", "waitEnsure", "waitWorkers", "waitAcks",
               "release", "returned"}

States(pcs) == [pc : pcs, event : Events \cup {NoEvent}]

\* The goroutines, channels and records have the shapes the code gives them.
TypeOK ==
    /\ main \in States({"register", "newSink", "select", "overload", "ack"} \cup StopPhases)
    /\ worker \in [Workers -> States({"off", "idle", "claim", "handle", "publish", "ack", "panic",
                                      "exited"})]
    /\ acker \in States({"off", "idle", "ack", "exited"})
    /\ supervisor \in {"off", "running", "done"} /\ ensure \in {"off", "running", "done"}
    /\ work \in Seq(Calls) /\ Len(work) <= MaxQueued
    /\ acks \in Seq(Calls) /\ Len(acks) <= AckCapacity
    /\ closed \subseteq {"work", "acks"}
    /\ cancelled \subseteq {"lifecycle", "settlement", "handlers"}
    /\ errc \in BOOLEAN /\ settleErr \in BOOLEAN /\ stopErr \in BOOLEAN
    /\ lease \in {"none", "routable", "draining", "released"}
    /\ registry \in [Calls -> {"queued", "overloaded", "mine", "other", "over"}]
    /\ deliveries \in [Events -> Nat]
    /\ acked \subseteq Events

\* A lease is given back only when no call dispatched to it is still open: the
\* registry would call its outcome unknown.  A claim or a result whose reply
\* was lost may be such a call, so it must withhold the release.
ReleasedIsSettled == lease = "released" => \A c \in Calls : registry[c] # "mine"

\* No worker sends on the acknowledgement channel after finish closed it.
NoSendOnClosed == \A w \in Workers : worker[w].pc # "panic"

\* The drain starts only after the last renewal has ended: a renewal makes a
\* draining lease routable again.
RenewalEndsBeforeDrain == lease \in {"draining", "released"} => supervisor # "running"

\* A request is acknowledged only after the registry decided about it: it was
\* claimed, settled or reported, never merely dropped.
AckedIsDecided == \A c \in Calls \cap acked : registry[c] # "queued"

\* Serve returns only when its goroutines are gone and its channels empty.
ReturnsQuiet ==
    main.pc = "returned" =>
        /\ supervisor # "running" /\ ensure # "running"
        /\ \A w \in Workers : worker[w].pc \in {"off", "exited"}
        /\ acker.pc \in {"off", "exited"}
        /\ work = <<>> /\ acks = <<>>

\* Pings are answered whatever the workers do: intake never waits for the
\* queue, not even when every handler hangs.
PingsAreAnswered ==
    \A p \in Pings : (main.pc = "select") ~> (p \in acked \/ main.pc \in StopPhases)

\* A stop that was signalled or requested ends in the return of Serve.
StopIsCompleted == ("lifecycle" \in cancelled \/ errc) ~> (main.pc = "returned")
=============================================================================
