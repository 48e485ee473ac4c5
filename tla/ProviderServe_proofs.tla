------------------------ MODULE ProviderServe_proofs ------------------------
(***************************************************************************)
(* Theorems about ProviderServe, for any sets of calls, pings and workers  *)
(* and any capacity of the work channel.                                   *)
(***************************************************************************)
EXTENDS ProviderServe, FiniteSetTheorems, TLAPS

-----------------------------------------------------------------------------
(* Types: of the goroutines with the events they hold, of the channels, and *)
(* of the rest.                                                             *)

MainType ==
    /\ main \in States({"register", "newSink", "select", "overload", "ack"} \cup StopPhases)
    /\ main.pc = "overload" => main.event \in Calls
    /\ main.pc = "ack" => main.event \in Events

WorkerType ==
    /\ worker \in [Workers -> States({"off", "idle", "claim", "handle", "publish", "ack", "panic",
                                      "exited"})]
    /\ \A w \in Workers : worker[w].pc \in {"claim", "handle", "publish", "ack"} => worker[w].event \in Calls

AckerType ==
    /\ acker \in States({"off", "idle", "ack", "exited"})
    /\ acker.pc = "ack" => acker.event \in Calls

ChannelType ==
    /\ work \in Seq(Calls) /\ Len(work) <= MaxQueued
    /\ acks \in Seq(Calls) /\ Len(acks) <= AckCapacity

FlagType ==
    /\ supervisor \in {"off", "running", "done"} /\ ensure \in {"off", "running", "done"}
    /\ closed \subseteq {"work", "acks"}
    /\ cancelled \subseteq {"lifecycle", "settlement", "handlers"}
    /\ errc \in BOOLEAN /\ settleErr \in BOOLEAN /\ stopErr \in BOOLEAN
    /\ lease \in {"none", "routable", "draining", "released"}

RegistryType ==
    /\ registry \in [Calls -> {"queued", "overloaded", "mine", "other", "over"}]
    /\ deliveries \in [Events -> Nat]
    /\ acked \subseteq Events

TypeInv == MainType /\ WorkerType /\ AckerType /\ ChannelType /\ FlagType /\ RegistryType

\* The capacity of the acknowledgement channel is a number.
LEMMA CapacityType == AckCapacity \in Nat
BY ServeAssumption, FS_CardinalityType DEF AckCapacity

\* A worker that becomes something well-formed keeps the type.
LEMMA Becomes ==
    ASSUME WorkerType, NEW w \in Workers,
           NEW pc \in {"idle", "claim", "handle", "publish", "ack", "panic", "exited"},
           NEW e \in Events \cup {NoEvent},
           pc \in {"claim", "handle", "publish", "ack"} => e \in Calls,
           Become(w, At(pc, e))
    PROVE  WorkerType'
BY DEF WorkerType, States, Become, At

\* Intake holds a call or an event when it says so.
LEMMA MainTypeStep == ASSUME TypeInv, [Next]_vars PROVE MainType'
<1>. USE ServeAssumption, CapacityType DEF At, Idle, Exited, goVars, channelVars, TypeInv, MainType, States, Events, StopPhases
<1>1. CASE UNCHANGED <<main>>
  BY <1>1
<1>2. CASE registerUntilSuccess
  BY <1>2 DEF registerUntilSuccess
<1>3. CASE NewSink
  BY <1>3 DEF NewSink
<1>4. ASSUME NEW e \in Events, Receive(e) PROVE MainType'
  BY <1>4 DEF Receive, acceptEvent, intakeStep
<1>5. CASE reportOverload
  BY <1>5 DEF reportOverload, intakeStep, IntakeFails, signalSettleFailure, signalStop, NoFailure
<1>6. CASE ackImmediate
  BY <1>6 DEF ackImmediate, intakeStep, IntakeFails, signalSettleFailure, signalStop, NoFailure
<1>7. CASE StopIntake
  BY <1>7 DEF StopIntake, intakeStep
<1>8. CASE SubscriptionCloses
  BY <1>8 DEF SubscriptionCloses, intakeStep
<1>9. CASE CancelLifecycle
  BY <1>9 DEF CancelLifecycle, Finishing, finishStep
<1>10. CASE WaitRenewal
  BY <1>10 DEF WaitRenewal, Finishing, finishStep
<1>11. CASE drainProvider
  BY <1>11 DEF drainProvider, Finishing, finishStep
<1>12. CASE closeSinkBounded
  BY <1>12 DEF closeSinkBounded, Finishing, finishStep
<1>13. CASE WaitEnsure
  BY <1>13 DEF WaitEnsure, Finishing, finishStep, PhaseError
<1>14. CASE WaitWorkers
  BY <1>14 DEF WaitWorkers, WorkersDone, Finishing, finishStep, PhaseError
<1>15. CASE WaitAcks
  BY <1>15 DEF WaitAcks, Finishing, finishStep, PhaseError
<1>16. CASE releaseProvider
  BY <1>16 DEF releaseProvider, Finishing, finishStep
<1>17. QED
  BY <1>1, <1>2, <1>3, <1>4, <1>5, <1>6, <1>7, <1>8, <1>9, <1>10, <1>11, <1>12, <1>13, <1>14,
      <1>15, <1>16 DEF Next, Stopped, vars, AckEvent, Become, Cancel, Elsewhere, ExitAcker,
      ExitWorker, HandleToolCall, SendAck, SettlementTimeout, Take, TakeAck, ackerStep,
      cancelHandlers, claimToolCall, complete, finishStep, runEnsureGroupLoop,
      superviseRegistration, workerStep

\* A worker that works holds a call.
LEMMA WorkerTypeStep == ASSUME TypeInv, [Next]_vars PROVE WorkerType'
<1>. USE ServeAssumption, CapacityType DEF At, Idle, Exited, goVars, channelVars, TypeInv, WorkerType, ChannelType, States, Events
<1>1. CASE UNCHANGED <<worker>>
  BY <1>1
<1>2. CASE NewSink
  BY <1>2 DEF NewSink
<1>3. ASSUME NEW w \in Workers, Take(w) PROVE WorkerType'
  BY <1>3 DEF Take, Become, workerStep
<1>4. ASSUME NEW w \in Workers, claimToolCall(w) PROVE WorkerType'
  <2>1. worker[w].event \in Calls /\ worker[w].event \in Events \cup {NoEvent}
    BY <1>4 DEF claimToolCall, workerStep, Undecided, signalSettleFailure, signalStop, NoFailure
  <2>2. Become(w, At("idle", NoEvent)) \/ Become(w, At("handle", worker[w].event)) \/ Become(w, At("ack", worker[w].event))
    BY <1>4 DEF claimToolCall, workerStep, Undecided, signalSettleFailure, signalStop, NoFailure
  <2>. QED
    BY <2>1, <2>2, Becomes DEF Events
<1>5. ASSUME NEW w \in Workers, HandleToolCall(w) PROVE WorkerType'
  <2>1. worker[w].event \in Calls /\ worker[w].event \in Events \cup {NoEvent}
    BY <1>5 DEF HandleToolCall, workerStep, signalSettleFailure, signalStop, NoFailure
  <2>2. Become(w, At("idle", NoEvent)) \/ Become(w, At("publish", worker[w].event))
    BY <1>5 DEF HandleToolCall, workerStep, signalSettleFailure, signalStop, NoFailure
  <2>. QED
    BY <2>1, <2>2, Becomes DEF Events
<1>6. ASSUME NEW w \in Workers, complete(w) PROVE WorkerType'
  <2>1. worker[w].event \in Calls /\ worker[w].event \in Events \cup {NoEvent}
    BY <1>6 DEF complete, workerStep, signalSettleFailure, signalStop, NoFailure
  <2>2. Become(w, At("idle", NoEvent)) \/ Become(w, At("ack", worker[w].event))
    BY <1>6 DEF complete, workerStep, signalSettleFailure, signalStop, NoFailure
  <2>. QED
    BY <2>1, <2>2, Becomes DEF Events
<1>7. ASSUME NEW w \in Workers, SendAck(w) PROVE WorkerType'
  <2>1. worker[w].event \in Calls /\ worker[w].event \in Events \cup {NoEvent}
    BY <1>7 DEF SendAck, workerStep
  <2>2. Become(w, At("idle", NoEvent)) \/ Become(w, At("panic", worker[w].event))
    BY <1>7 DEF SendAck, workerStep
  <2>. QED
    BY <2>1, <2>2, Becomes DEF Events
<1>8. ASSUME NEW w \in Workers, ExitWorker(w) PROVE WorkerType'
  BY <1>8 DEF ExitWorker, Become, workerStep
<1>9. QED
  BY <1>1, <1>2, <1>3, <1>4, <1>5, <1>6, <1>7, <1>8 DEF Next, Stopped, vars, AckEvent, Cancel,
      CancelLifecycle, Elsewhere, ExitAcker, Finishing, Receive, SettlementTimeout, StopIntake,
      SubscriptionCloses, TakeAck, WaitAcks, WaitEnsure, WaitRenewal, WaitWorkers,
      ackImmediate, ackerStep, cancelHandlers, closeSinkBounded, drainProvider, finishStep,
      intakeStep, registerUntilSuccess, releaseProvider, reportOverload, runEnsureGroupLoop,
      superviseRegistration

\* So does the acknowledger.
LEMMA AckerTypeStep == ASSUME TypeInv, [Next]_vars PROVE AckerType'
<1>. USE ServeAssumption, CapacityType DEF At, Idle, Exited, goVars, channelVars, TypeInv, AckerType, ChannelType, States, Events
<1>1. CASE UNCHANGED <<acker>>
  BY <1>1
<1>2. CASE NewSink
  BY <1>2 DEF NewSink
<1>3. CASE TakeAck
  BY <1>3 DEF TakeAck, ackerStep
<1>4. CASE AckEvent
  BY <1>4 DEF AckEvent, ackerStep, signalSettleFailure, signalStop, NoFailure
<1>5. CASE ExitAcker
  BY <1>5 DEF ExitAcker, ackerStep
<1>6. QED
  BY <1>1, <1>2, <1>3, <1>4, <1>5 DEF Next, Stopped, vars, Become, Cancel, CancelLifecycle,
      Elsewhere, ExitWorker, Finishing, HandleToolCall, Receive, SendAck, SettlementTimeout,
      StopIntake, SubscriptionCloses, Take, WaitAcks, WaitEnsure, WaitRenewal, WaitWorkers,
      ackImmediate, cancelHandlers, claimToolCall, closeSinkBounded, complete, drainProvider,
      finishStep, intakeStep, registerUntilSuccess, releaseProvider, reportOverload,
      runEnsureGroupLoop, superviseRegistration, workerStep

\* Channels hold calls, up to their capacity.
LEMMA ChannelTypeStep == ASSUME TypeInv, [Next]_vars PROVE ChannelType'
<1>. USE ServeAssumption, CapacityType DEF At, Idle, Exited, goVars, channelVars, TypeInv, ChannelType, Events
<1>1. CASE UNCHANGED <<work, acks>>
  BY <1>1
<1>2. ASSUME NEW e \in Events, Receive(e) PROVE ChannelType'
  BY <1>2 DEF Receive, acceptEvent, intakeStep
<1>3. ASSUME NEW w \in Workers, Take(w) PROVE ChannelType'
  BY <1>3 DEF Take, Become, workerStep
<1>4. ASSUME NEW w \in Workers, SendAck(w) PROVE ChannelType'
  <2>1. worker[w].pc = "ack" => worker[w].event \in Calls
    BY DEF WorkerType
  <2>2. CASE acks' = acks
    BY <1>4, <2>2 DEF SendAck
  <2>3. CASE acks' = Append(acks, worker[w].event) /\ Len(acks) < AckCapacity
    <3>1. worker[w].event \in Calls /\ work' = work
      BY <1>4, <2>1 DEF SendAck
    <3>2. acks' \in Seq(Calls) /\ Len(acks') = Len(acks) + 1
      BY <2>3, <3>1
    <3>. QED
      BY <2>3, <3>1, <3>2
  <2>. QED
    BY <1>4, <2>2, <2>3 DEF SendAck
<1>5. CASE TakeAck
  BY <1>5 DEF TakeAck, ackerStep
<1>6. QED
  BY <1>1, <1>2, <1>3, <1>4, <1>5 DEF Next, Stopped, vars, AckEvent, Become, Cancel,
      CancelLifecycle, Elsewhere, ExitAcker, ExitWorker, Finishing, HandleToolCall, NewSink,
      SettlementTimeout, StopIntake, SubscriptionCloses, WaitAcks, WaitEnsure, WaitRenewal,
      WaitWorkers, ackImmediate, ackerStep, cancelHandlers, claimToolCall, closeSinkBounded,
      complete, drainProvider, finishStep, intakeStep, registerUntilSuccess, releaseProvider,
      reportOverload, runEnsureGroupLoop, superviseRegistration, workerStep

\* Flags, contexts and the lease.
LEMMA FlagTypeStep == ASSUME TypeInv, [Next]_vars PROVE FlagType'
<1>. USE ServeAssumption, CapacityType DEF At, Idle, Exited, goVars, channelVars, TypeInv, FlagType
<1>1. CASE UNCHANGED <<goVars, closed, cancelled, errc, settleErr, stopErr, lease>>
  BY <1>1
<1>2. CASE registerUntilSuccess
  BY <1>2 DEF registerUntilSuccess
<1>3. CASE NewSink
  BY <1>3 DEF NewSink
<1>4. CASE Cancel
  BY <1>4 DEF Cancel
<1>5. CASE superviseRegistration
  BY <1>5 DEF superviseRegistration, signalStop
<1>6. CASE runEnsureGroupLoop
  BY <1>6 DEF runEnsureGroupLoop
<1>7. CASE reportOverload
  BY <1>7 DEF reportOverload, intakeStep, IntakeFails, signalSettleFailure, signalStop, NoFailure
<1>8. CASE ackImmediate
  BY <1>8 DEF ackImmediate, intakeStep, IntakeFails, signalSettleFailure, signalStop, NoFailure
<1>9. CASE StopIntake
  BY <1>9 DEF StopIntake, intakeStep
<1>10. ASSUME NEW w \in Workers, claimToolCall(w) PROVE FlagType'
  BY <1>10 DEF claimToolCall, Become, workerStep, Undecided, signalSettleFailure, signalStop, NoFailure
<1>11. ASSUME NEW w \in Workers, HandleToolCall(w) PROVE FlagType'
  BY <1>11 DEF HandleToolCall, Become, workerStep, signalSettleFailure, signalStop, NoFailure
<1>12. ASSUME NEW w \in Workers, complete(w) PROVE FlagType'
  BY <1>12 DEF complete, Become, workerStep, signalSettleFailure, signalStop, NoFailure
<1>13. CASE AckEvent
  BY <1>13 DEF AckEvent, ackerStep, signalSettleFailure, signalStop, NoFailure
<1>14. CASE CancelLifecycle
  BY <1>14 DEF CancelLifecycle, Finishing, finishStep
<1>15. CASE WaitRenewal
  BY <1>15 DEF WaitRenewal, Finishing, finishStep
<1>16. CASE drainProvider
  BY <1>16 DEF drainProvider, Finishing, finishStep
<1>17. CASE SettlementTimeout
  BY <1>17 DEF SettlementTimeout, finishStep
<1>18. CASE closeSinkBounded
  BY <1>18 DEF closeSinkBounded, Finishing, finishStep
<1>19. CASE WaitEnsure
  BY <1>19 DEF WaitEnsure, Finishing, finishStep, PhaseError
<1>20. CASE WaitWorkers
  BY <1>20 DEF WaitWorkers, WorkersDone, Finishing, finishStep, PhaseError
<1>21. CASE cancelHandlers
  BY <1>21 DEF cancelHandlers, finishStep
<1>22. CASE WaitAcks
  BY <1>22 DEF WaitAcks, Finishing, finishStep, PhaseError
<1>23. CASE releaseProvider
  BY <1>23 DEF releaseProvider, Finishing, finishStep
<1>24. QED
  BY <1>1, <1>2, <1>3, <1>4, <1>5, <1>6, <1>7, <1>8, <1>9, <1>10, <1>11, <1>12, <1>13, <1>14,
      <1>15, <1>16, <1>17, <1>18, <1>19, <1>20, <1>21, <1>22, <1>23 DEF Next, Stopped, vars,
      Become, Elsewhere, ExitAcker, ExitWorker, Receive, SendAck, SubscriptionCloses, Take,
      TakeAck, ackerStep, intakeStep, workerStep

\* What the registry and the stream know.
LEMMA RegistryTypeStep == ASSUME TypeInv, [Next]_vars PROVE RegistryType'
<1>. USE ServeAssumption, CapacityType DEF At, Idle, Exited, goVars, channelVars, TypeInv, RegistryType, Events
<1>1. CASE UNCHANGED <<registry, deliveries, acked>>
  BY <1>1
<1>2. ASSUME NEW e \in Events, Receive(e) PROVE RegistryType'
  BY <1>2 DEF Receive, acceptEvent, intakeStep
<1>3. CASE reportOverload
  <2>1. main.event \in Calls
    BY <1>3 DEF MainType, reportOverload
  <2>. QED
    BY <1>3, <2>1 DEF reportOverload, intakeStep
<1>4. CASE ackImmediate
  <2>1. main.event \in Events
    BY <1>4 DEF MainType, ackImmediate
  <2>. QED
    BY <1>4, <2>1 DEF ackImmediate, intakeStep
<1>5. ASSUME NEW w \in Workers, claimToolCall(w) PROVE RegistryType'
  <2>1. worker[w].event \in Calls
    BY <1>5 DEF WorkerType, claimToolCall
  <2>. QED
    BY <1>5, <2>1 DEF claimToolCall, workerStep
<1>6. ASSUME NEW w \in Workers, complete(w) PROVE RegistryType'
  <2>1. worker[w].event \in Calls
    BY <1>6 DEF WorkerType, complete
  <2>. QED
    BY <1>6, <2>1 DEF complete, workerStep
<1>7. CASE AckEvent
  <2>1. acker.event \in Calls
    BY <1>7 DEF AckerType, AckEvent
  <2>. QED
    BY <1>7, <2>1 DEF AckEvent, ackerStep
<1>8. ASSUME NEW c \in Calls, Elsewhere(c) PROVE RegistryType'
  BY <1>8 DEF Elsewhere, Undecided
<1>9. QED
  BY <1>1, <1>2, <1>3, <1>4, <1>5, <1>6, <1>7, <1>8 DEF Next, Stopped, vars, Become, Cancel,
      CancelLifecycle, ExitAcker, ExitWorker, Finishing, HandleToolCall, NewSink, SendAck,
      SettlementTimeout, StopIntake, SubscriptionCloses, Take, TakeAck, WaitAcks, WaitEnsure,
      WaitRenewal, WaitWorkers, ackerStep, cancelHandlers, closeSinkBounded, drainProvider,
      finishStep, intakeStep, registerUntilSuccess, releaseProvider, runEnsureGroupLoop,
      superviseRegistration, workerStep

\* Initially everything has its type.
LEMMA TypeInit == ASSUME Init PROVE TypeInv
<1>1. MainType /\ WorkerType /\ AckerType
  BY DEF Init, MainType, WorkerType, AckerType, States, Events, StopPhases, At
<1>2. ChannelType
  BY ServeAssumption, CapacityType DEF Init, ChannelType
<1>3. FlagType
  BY DEF Init, FlagType
<1>4. RegistryType
  BY DEF Init, RegistryType
<1>. QED
  BY <1>1, <1>2, <1>3, <1>4 DEF TypeInv

\* Every step keeps the types.
LEMMA TypeStep == ASSUME TypeInv, [Next]_vars PROVE TypeInv'
<1>1. MainType' /\ WorkerType' /\ AckerType'
  BY MainTypeStep, WorkerTypeStep, AckerTypeStep
<1>2. ChannelType' /\ FlagType' /\ RegistryType'
  BY ChannelTypeStep, FlagTypeStep, RegistryTypeStep
<1>. QED
  BY <1>1, <1>2 DEF TypeInv

\* Whatever the number of workers and calls, goroutines, channels and records keep
\* their shapes, and both channels stay within their capacities: intake never
\* waits for the queue (acceptEvent), a worker only for room (SendAck).
THEOREM TypeCorrect == Spec => []TypeOK
<1>1. TypeInv => TypeOK
  BY DEF TypeInv, MainType, WorkerType, AckerType, ChannelType, FlagType, RegistryType, TypeOK
<1>. QED
  BY <1>1, TypeInit, TypeStep, PTL DEF Spec

-----------------------------------------------------------------------------
(* The order of the shutdown.                                              *)
(*                                                                         *)
(* Each wait of finish leaves behind what it waited for: a channel closed  *)
(* only after its readers or writers are known to be in order.             *)

NotStarted == main.pc \in {"register", "newSink"}

QuietStart ==
    NotStarted =>
        /\ \A w \in Workers : worker[w].pc = "off"
        /\ acker.pc = "off" /\ supervisor = "off" /\ ensure = "off"
        /\ work = <<>> /\ acks = <<>> /\ closed = {}
        /\ lease \in {"none", "routable"} /\ settleErr = FALSE

WorkersOrder ==
    /\ \A w \in Workers : worker[w].pc = "exited" => "work" \in closed /\ work = <<>>
    /\ "work" \in closed => main.pc \in {"waitEnsure", "waitWorkers", "waitAcks", "release", "returned"}
    /\ "acks" \in closed => WorkersDone
    /\ main.pc \in {"waitAcks", "release"} => "acks" \in closed
    /\ "acks" \in closed => main.pc \in {"waitAcks", "release", "returned"}

AckerOrder ==
    /\ acker.pc = "exited" => acks = <<>> /\ "acks" \in closed
    /\ main.pc = "release" => acker.pc = "exited"

LoopsOrder ==
    /\ main.pc \in {"drain", "close", "waitEnsure", "waitWorkers", "waitAcks", "release"} => supervisor = "done"
    /\ main.pc \in {"waitWorkers", "waitAcks", "release"} => ensure = "done"
    /\ lease = "released" => main.pc = "returned"

OrderInv ==
    /\ TypeInv
    /\ QuietStart /\ WorkersOrder /\ AckerOrder /\ LoopsOrder
    /\ RenewalEndsBeforeDrain /\ ReturnsQuiet /\ NoSendOnClosed

\* Before the goroutines are started there is nothing.
LEMMA QuietStartStep == ASSUME OrderInv, [Next]_vars PROVE QuietStart'
<1>. USE ServeAssumption, CapacityType DEF At, Idle, Exited, goVars, channelVars, TypeInv, WorkerType, OrderInv, QuietStart, NotStarted
<1>1. CASE UNCHANGED <<main, worker, acker, goVars, channelVars, lease, settleErr>>
  BY <1>1
<1>2. CASE registerUntilSuccess
  BY <1>2 DEF registerUntilSuccess
<1>3. CASE NewSink
  BY <1>3 DEF NewSink
<1>4. CASE superviseRegistration
  BY <1>4 DEF superviseRegistration, signalStop
<1>5. ASSUME NEW e \in Events, Receive(e) PROVE QuietStart'
  BY <1>5 DEF Receive, acceptEvent, intakeStep
<1>6. CASE reportOverload
  BY <1>6 DEF reportOverload, intakeStep, IntakeFails, signalSettleFailure, signalStop, NoFailure
<1>7. CASE ackImmediate
  BY <1>7 DEF ackImmediate, intakeStep, IntakeFails, signalSettleFailure, signalStop, NoFailure
<1>8. CASE StopIntake
  BY <1>8 DEF StopIntake, intakeStep
<1>9. CASE SubscriptionCloses
  BY <1>9 DEF SubscriptionCloses, intakeStep
<1>10. ASSUME NEW w \in Workers, Take(w) PROVE QuietStart'
  BY <1>10 DEF Take, Become, workerStep
<1>11. ASSUME NEW w \in Workers, claimToolCall(w) PROVE QuietStart'
  BY <1>11 DEF claimToolCall, Become, workerStep, Undecided, signalSettleFailure, signalStop, NoFailure
<1>12. ASSUME NEW w \in Workers, HandleToolCall(w) PROVE QuietStart'
  BY <1>12 DEF HandleToolCall, Become, workerStep, signalSettleFailure, signalStop, NoFailure
<1>13. ASSUME NEW w \in Workers, complete(w) PROVE QuietStart'
  BY <1>13 DEF complete, Become, workerStep, signalSettleFailure, signalStop, NoFailure
<1>14. ASSUME NEW w \in Workers, SendAck(w) PROVE QuietStart'
  BY <1>14 DEF SendAck, Become, workerStep
<1>15. ASSUME NEW w \in Workers, ExitWorker(w) PROVE QuietStart'
  BY <1>15 DEF ExitWorker, Become, workerStep
<1>16. CASE TakeAck
  BY <1>16 DEF TakeAck, ackerStep
<1>17. CASE AckEvent
  BY <1>17 DEF AckEvent, ackerStep, signalSettleFailure, signalStop, NoFailure
<1>18. CASE ExitAcker
  BY <1>18 DEF ExitAcker, ackerStep
<1>19. CASE CancelLifecycle
  BY <1>19 DEF CancelLifecycle, Finishing, finishStep
<1>20. CASE WaitRenewal
  BY <1>20 DEF WaitRenewal, Finishing, finishStep
<1>21. CASE drainProvider
  BY <1>21 DEF drainProvider, Finishing, finishStep
<1>22. CASE closeSinkBounded
  BY <1>22 DEF closeSinkBounded, Finishing, finishStep
<1>23. CASE WaitEnsure
  BY <1>23 DEF WaitEnsure, Finishing, finishStep, PhaseError
<1>24. CASE WaitWorkers
  BY <1>24 DEF WaitWorkers, WorkersDone, Finishing, finishStep, PhaseError
<1>25. CASE WaitAcks
  BY <1>25 DEF WaitAcks, Finishing, finishStep, PhaseError
<1>26. CASE releaseProvider
  BY <1>26 DEF releaseProvider, Finishing, finishStep
<1>27. QED
  BY <1>1, <1>2, <1>3, <1>4, <1>5, <1>6, <1>7, <1>8, <1>9, <1>10, <1>11, <1>12, <1>13, <1>14,
      <1>15, <1>16, <1>17, <1>18, <1>19, <1>20, <1>21, <1>22, <1>23, <1>24, <1>25, <1>26 DEF
      Next, Stopped, vars, Cancel, Elsewhere, SettlementTimeout, cancelHandlers, finishStep,
      runEnsureGroupLoop

\* Channels are closed in order, and workers leave only an empty, closed queue.
LEMMA WorkersOrderStep == ASSUME OrderInv, [Next]_vars PROVE WorkersOrder'
<1>. USE ServeAssumption, CapacityType DEF At, Idle, Exited, goVars, channelVars, TypeInv, WorkerType, OrderInv, QuietStart, NotStarted, WorkersOrder, WorkersDone
<1>1. CASE UNCHANGED <<main, worker, channelVars>>
  BY <1>1
<1>2. CASE registerUntilSuccess
  BY <1>2 DEF registerUntilSuccess
<1>3. CASE NewSink
  BY <1>3 DEF NewSink
<1>4. ASSUME NEW e \in Events, Receive(e) PROVE WorkersOrder'
  BY <1>4 DEF Receive, acceptEvent, intakeStep
<1>5. CASE reportOverload
  BY <1>5 DEF reportOverload, intakeStep, IntakeFails, signalSettleFailure, signalStop, NoFailure
<1>6. CASE ackImmediate
  BY <1>6 DEF ackImmediate, intakeStep, IntakeFails, signalSettleFailure, signalStop, NoFailure
<1>7. CASE StopIntake
  BY <1>7 DEF StopIntake, intakeStep
<1>8. CASE SubscriptionCloses
  BY <1>8 DEF SubscriptionCloses, intakeStep
<1>9. ASSUME NEW w \in Workers, Take(w) PROVE WorkersOrder'
  BY <1>9 DEF Take, Become, workerStep
<1>10. ASSUME NEW w \in Workers, claimToolCall(w) PROVE WorkersOrder'
  BY <1>10 DEF claimToolCall, Become, workerStep, Undecided, signalSettleFailure, signalStop, NoFailure
<1>11. ASSUME NEW w \in Workers, HandleToolCall(w) PROVE WorkersOrder'
  BY <1>11 DEF HandleToolCall, Become, workerStep, signalSettleFailure, signalStop, NoFailure
<1>12. ASSUME NEW w \in Workers, complete(w) PROVE WorkersOrder'
  BY <1>12 DEF complete, Become, workerStep, signalSettleFailure, signalStop, NoFailure
<1>13. ASSUME NEW w \in Workers, SendAck(w) PROVE WorkersOrder'
  BY <1>13 DEF SendAck, Become, workerStep
<1>14. ASSUME NEW w \in Workers, ExitWorker(w) PROVE WorkersOrder'
  BY <1>14 DEF ExitWorker, Become, workerStep
<1>15. CASE TakeAck
  BY <1>15 DEF TakeAck, ackerStep
<1>16. CASE CancelLifecycle
  BY <1>16 DEF CancelLifecycle, Finishing, finishStep
<1>17. CASE WaitRenewal
  BY <1>17 DEF WaitRenewal, Finishing, finishStep
<1>18. CASE drainProvider
  BY <1>18 DEF drainProvider, Finishing, finishStep
<1>19. CASE closeSinkBounded
  BY <1>19 DEF closeSinkBounded, Finishing, finishStep
<1>20. CASE WaitEnsure
  BY <1>20 DEF WaitEnsure, Finishing, finishStep, PhaseError
<1>21. CASE WaitWorkers
  BY <1>21 DEF WaitWorkers, WorkersDone, Finishing, finishStep, PhaseError
<1>22. CASE WaitAcks
  BY <1>22 DEF WaitAcks, Finishing, finishStep, PhaseError
<1>23. CASE releaseProvider
  BY <1>23 DEF releaseProvider, Finishing, finishStep
<1>24. QED
  BY <1>1, <1>2, <1>3, <1>4, <1>5, <1>6, <1>7, <1>8, <1>9, <1>10, <1>11, <1>12, <1>13, <1>14,
      <1>15, <1>16, <1>17, <1>18, <1>19, <1>20, <1>21, <1>22, <1>23 DEF Next, Stopped, vars,
      AckEvent, Cancel, Elsewhere, ExitAcker, SettlementTimeout, ackerStep, cancelHandlers,
      finishStep, runEnsureGroupLoop, superviseRegistration

\* The acknowledger leaves only after the last worker.
LEMMA AckerOrderStep == ASSUME OrderInv, [Next]_vars PROVE AckerOrder'
<1>. USE ServeAssumption, CapacityType DEF At, Idle, Exited, goVars, channelVars, TypeInv, OrderInv, WorkerType, QuietStart, NotStarted, AckerOrder, WorkersOrder, WorkersDone
<1>1. CASE UNCHANGED <<main, acker, acks, closed>>
  BY <1>1
<1>2. CASE registerUntilSuccess
  BY <1>2 DEF registerUntilSuccess
<1>3. CASE NewSink
  BY <1>3 DEF NewSink
<1>4. ASSUME NEW e \in Events, Receive(e) PROVE AckerOrder'
  BY <1>4 DEF Receive, acceptEvent, intakeStep
<1>5. CASE reportOverload
  BY <1>5 DEF reportOverload, intakeStep, IntakeFails, signalSettleFailure, signalStop, NoFailure
<1>6. CASE ackImmediate
  BY <1>6 DEF ackImmediate, intakeStep, IntakeFails, signalSettleFailure, signalStop, NoFailure
<1>7. CASE StopIntake
  BY <1>7 DEF StopIntake, intakeStep
<1>8. CASE SubscriptionCloses
  BY <1>8 DEF SubscriptionCloses, intakeStep
<1>9. ASSUME NEW w \in Workers, SendAck(w) PROVE AckerOrder'
  BY <1>9 DEF SendAck, Become, workerStep
<1>10. CASE TakeAck
  BY <1>10 DEF TakeAck, ackerStep
<1>11. CASE AckEvent
  BY <1>11 DEF AckEvent, ackerStep, signalSettleFailure, signalStop, NoFailure
<1>12. CASE ExitAcker
  BY <1>12 DEF ExitAcker, ackerStep
<1>13. CASE CancelLifecycle
  BY <1>13 DEF CancelLifecycle, Finishing, finishStep
<1>14. CASE WaitRenewal
  BY <1>14 DEF WaitRenewal, Finishing, finishStep
<1>15. CASE drainProvider
  BY <1>15 DEF drainProvider, Finishing, finishStep
<1>16. CASE closeSinkBounded
  BY <1>16 DEF closeSinkBounded, Finishing, finishStep
<1>17. CASE WaitEnsure
  BY <1>17 DEF WaitEnsure, Finishing, finishStep, PhaseError
<1>18. CASE WaitWorkers
  BY <1>18 DEF WaitWorkers, WorkersDone, Finishing, finishStep, PhaseError
<1>19. CASE WaitAcks
  BY <1>19 DEF WaitAcks, Finishing, finishStep, PhaseError
<1>20. CASE releaseProvider
  BY <1>20 DEF releaseProvider, Finishing, finishStep
<1>21. QED
  BY <1>1, <1>2, <1>3, <1>4, <1>5, <1>6, <1>7, <1>8, <1>9, <1>10, <1>11, <1>12, <1>13, <1>14,
      <1>15, <1>16, <1>17, <1>18, <1>19, <1>20 DEF Next, Stopped, vars, Become, Cancel,
      Elsewhere, ExitWorker, HandleToolCall, SettlementTimeout, Take, cancelHandlers,
      claimToolCall, complete, finishStep, runEnsureGroupLoop, superviseRegistration,
      workerStep

\* Nothing is drained or released before the loops that were waited for are gone.
LEMMA LoopsOrderStep == ASSUME OrderInv, [Next]_vars PROVE LoopsOrder'
<1>. USE ServeAssumption, CapacityType DEF At, Idle, Exited, goVars, channelVars, TypeInv, OrderInv, QuietStart, NotStarted, LoopsOrder
<1>1. CASE UNCHANGED <<main, goVars, lease>>
  BY <1>1
<1>2. CASE registerUntilSuccess
  BY <1>2 DEF registerUntilSuccess
<1>3. CASE NewSink
  BY <1>3 DEF NewSink
<1>4. CASE superviseRegistration
  BY <1>4 DEF superviseRegistration, signalStop
<1>5. CASE runEnsureGroupLoop
  BY <1>5 DEF runEnsureGroupLoop
<1>6. ASSUME NEW e \in Events, Receive(e) PROVE LoopsOrder'
  BY <1>6 DEF Receive, acceptEvent, intakeStep
<1>7. CASE reportOverload
  BY <1>7 DEF reportOverload, intakeStep, IntakeFails, signalSettleFailure, signalStop, NoFailure
<1>8. CASE ackImmediate
  BY <1>8 DEF ackImmediate, intakeStep, IntakeFails, signalSettleFailure, signalStop, NoFailure
<1>9. CASE StopIntake
  BY <1>9 DEF StopIntake, intakeStep
<1>10. CASE SubscriptionCloses
  BY <1>10 DEF SubscriptionCloses, intakeStep
<1>11. CASE CancelLifecycle
  BY <1>11 DEF CancelLifecycle, Finishing, finishStep
<1>12. CASE WaitRenewal
  BY <1>12 DEF WaitRenewal, Finishing, finishStep
<1>13. CASE drainProvider
  BY <1>13 DEF drainProvider, Finishing, finishStep
<1>14. CASE closeSinkBounded
  BY <1>14 DEF closeSinkBounded, Finishing, finishStep
<1>15. CASE WaitEnsure
  BY <1>15 DEF WaitEnsure, Finishing, finishStep, PhaseError
<1>16. CASE WaitWorkers
  BY <1>16 DEF WaitWorkers, WorkersDone, Finishing, finishStep, PhaseError
<1>17. CASE WaitAcks
  BY <1>17 DEF WaitAcks, Finishing, finishStep, PhaseError
<1>18. CASE releaseProvider
  BY <1>18 DEF releaseProvider, Finishing, finishStep
<1>19. QED
  BY <1>1, <1>2, <1>3, <1>4, <1>5, <1>6, <1>7, <1>8, <1>9, <1>10, <1>11, <1>12, <1>13, <1>14,
      <1>15, <1>16, <1>17, <1>18 DEF Next, Stopped, vars, AckEvent, Become, Cancel, Elsewhere,
      ExitAcker, ExitWorker, HandleToolCall, SendAck, SettlementTimeout, Take, TakeAck,
      ackerStep, cancelHandlers, claimToolCall, complete, finishStep, workerStep

\* No renewal is running when the lease is drained.
LEMMA RenewalStep == ASSUME OrderInv, [Next]_vars PROVE RenewalEndsBeforeDrain'
<1>. USE ServeAssumption, CapacityType DEF At, Idle, Exited, goVars, channelVars, TypeInv, OrderInv, QuietStart, NotStarted, LoopsOrder, RenewalEndsBeforeDrain
<1>1. CASE UNCHANGED <<supervisor, lease>>
  BY <1>1
<1>2. CASE registerUntilSuccess
  BY <1>2 DEF registerUntilSuccess
<1>3. CASE NewSink
  BY <1>3 DEF NewSink
<1>4. CASE superviseRegistration
  BY <1>4 DEF superviseRegistration, signalStop
<1>5. CASE drainProvider
  BY <1>5 DEF drainProvider, Finishing, finishStep
<1>6. CASE releaseProvider
  BY <1>6 DEF releaseProvider, Finishing, finishStep
<1>7. QED
  BY <1>1, <1>2, <1>3, <1>4, <1>5, <1>6 DEF Next, Stopped, vars, AckEvent, Become, Cancel,
      CancelLifecycle, Elsewhere, ExitAcker, ExitWorker, Finishing, HandleToolCall, Receive,
      SendAck, SettlementTimeout, StopIntake, SubscriptionCloses, Take, TakeAck, WaitAcks,
      WaitEnsure, WaitRenewal, WaitWorkers, ackImmediate, ackerStep, cancelHandlers,
      claimToolCall, closeSinkBounded, complete, finishStep, intakeStep, reportOverload,
      runEnsureGroupLoop, workerStep

\* A worker that sends is not done, so the channel is open.
LEMMA PanicStep == ASSUME OrderInv, [Next]_vars PROVE NoSendOnClosed'
<1>. USE ServeAssumption, CapacityType DEF At, Idle, Exited, goVars, channelVars, TypeInv, OrderInv, WorkerType, WorkersOrder, WorkersDone, NoSendOnClosed
<1>1. CASE UNCHANGED <<worker>>
  BY <1>1
<1>2. CASE NewSink
  BY <1>2 DEF NewSink
<1>3. ASSUME NEW w \in Workers, Take(w) PROVE NoSendOnClosed'
  BY <1>3 DEF Take, Become, workerStep
<1>4. ASSUME NEW w \in Workers, claimToolCall(w) PROVE NoSendOnClosed'
  BY <1>4 DEF claimToolCall, Become, workerStep, Undecided, signalSettleFailure, signalStop, NoFailure
<1>5. ASSUME NEW w \in Workers, HandleToolCall(w) PROVE NoSendOnClosed'
  BY <1>5 DEF HandleToolCall, Become, workerStep, signalSettleFailure, signalStop, NoFailure
<1>6. ASSUME NEW w \in Workers, complete(w) PROVE NoSendOnClosed'
  BY <1>6 DEF complete, Become, workerStep, signalSettleFailure, signalStop, NoFailure
<1>7. ASSUME NEW w \in Workers, SendAck(w) PROVE NoSendOnClosed'
  BY <1>7 DEF SendAck, Become, workerStep
<1>8. ASSUME NEW w \in Workers, ExitWorker(w) PROVE NoSendOnClosed'
  BY <1>8 DEF ExitWorker, Become, workerStep
<1>9. QED
  BY <1>1, <1>2, <1>3, <1>4, <1>5, <1>6, <1>7, <1>8 DEF Next, Stopped, vars, AckEvent, Cancel,
      CancelLifecycle, Elsewhere, ExitAcker, Finishing, Receive, SettlementTimeout, StopIntake,
      SubscriptionCloses, TakeAck, WaitAcks, WaitEnsure, WaitRenewal, WaitWorkers,
      ackImmediate, ackerStep, cancelHandlers, closeSinkBounded, drainProvider, finishStep,
      intakeStep, registerUntilSuccess, releaseProvider, reportOverload, runEnsureGroupLoop,
      superviseRegistration

\* After the last wait nobody is left to move.
LEMMA QuietStep == ASSUME OrderInv, [Next]_vars PROVE ReturnsQuiet'
<1>. USE ServeAssumption, CapacityType DEF At, Idle, Exited, goVars, channelVars, TypeInv, OrderInv, WorkerType, AckerType, QuietStart, NotStarted, WorkersOrder, WorkersDone, AckerOrder, LoopsOrder, ReturnsQuiet
<1>1. CASE UNCHANGED <<main, worker, acker, goVars, work, acks>>
  BY <1>1
<1>2. CASE registerUntilSuccess
  BY <1>2 DEF registerUntilSuccess
<1>3. CASE NewSink
  BY <1>3 DEF NewSink
<1>4. CASE superviseRegistration
  BY <1>4 DEF superviseRegistration, signalStop
<1>5. CASE runEnsureGroupLoop
  BY <1>5 DEF runEnsureGroupLoop
<1>6. ASSUME NEW e \in Events, Receive(e) PROVE ReturnsQuiet'
  BY <1>6 DEF Receive, acceptEvent, intakeStep
<1>7. CASE reportOverload
  BY <1>7 DEF reportOverload, intakeStep, IntakeFails, signalSettleFailure, signalStop, NoFailure
<1>8. CASE ackImmediate
  BY <1>8 DEF ackImmediate, intakeStep, IntakeFails, signalSettleFailure, signalStop, NoFailure
<1>9. CASE StopIntake
  BY <1>9 DEF StopIntake, intakeStep
<1>10. CASE SubscriptionCloses
  BY <1>10 DEF SubscriptionCloses, intakeStep
<1>11. ASSUME NEW w \in Workers, Take(w) PROVE ReturnsQuiet'
  BY <1>11 DEF Take, Become, workerStep
<1>12. ASSUME NEW w \in Workers, claimToolCall(w) PROVE ReturnsQuiet'
  BY <1>12 DEF claimToolCall, Become, workerStep, Undecided, signalSettleFailure, signalStop, NoFailure
<1>13. ASSUME NEW w \in Workers, HandleToolCall(w) PROVE ReturnsQuiet'
  BY <1>13 DEF HandleToolCall, Become, workerStep, signalSettleFailure, signalStop, NoFailure
<1>14. ASSUME NEW w \in Workers, complete(w) PROVE ReturnsQuiet'
  BY <1>14 DEF complete, Become, workerStep, signalSettleFailure, signalStop, NoFailure
<1>15. ASSUME NEW w \in Workers, SendAck(w) PROVE ReturnsQuiet'
  BY <1>15 DEF SendAck, Become, workerStep
<1>16. ASSUME NEW w \in Workers, ExitWorker(w) PROVE ReturnsQuiet'
  BY <1>16 DEF ExitWorker, Become, workerStep
<1>17. CASE TakeAck
  BY <1>17 DEF TakeAck, ackerStep
<1>18. CASE AckEvent
  BY <1>18 DEF AckEvent, ackerStep, signalSettleFailure, signalStop, NoFailure
<1>19. CASE ExitAcker
  BY <1>19 DEF ExitAcker, ackerStep
<1>20. CASE CancelLifecycle
  BY <1>20 DEF CancelLifecycle, Finishing, finishStep
<1>21. CASE WaitRenewal
  BY <1>21 DEF WaitRenewal, Finishing, finishStep
<1>22. CASE drainProvider
  BY <1>22 DEF drainProvider, Finishing, finishStep
<1>23. CASE closeSinkBounded
  BY <1>23 DEF closeSinkBounded, Finishing, finishStep
<1>24. CASE WaitEnsure
  BY <1>24 DEF WaitEnsure, Finishing, finishStep, PhaseError
<1>25. CASE WaitWorkers
  BY <1>25 DEF WaitWorkers, WorkersDone, Finishing, finishStep, PhaseError
<1>26. CASE WaitAcks
  BY <1>26 DEF WaitAcks, Finishing, finishStep, PhaseError
<1>27. CASE releaseProvider
  BY <1>27 DEF releaseProvider, Finishing, finishStep
<1>28. QED
  BY <1>1, <1>2, <1>3, <1>4, <1>5, <1>6, <1>7, <1>8, <1>9, <1>10, <1>11, <1>12, <1>13, <1>14,
      <1>15, <1>16, <1>17, <1>18, <1>19, <1>20, <1>21, <1>22, <1>23, <1>24, <1>25, <1>26, <1>27
      DEF Next, Stopped, vars, Cancel, Elsewhere, SettlementTimeout, cancelHandlers, finishStep

\* The order holds when Serve starts.
LEMMA OrderInit == ASSUME Init PROVE OrderInv
BY TypeInit DEF Init, OrderInv, QuietStart, NotStarted, WorkersOrder, AckerOrder, LoopsOrder,
                RenewalEndsBeforeDrain, ReturnsQuiet, NoSendOnClosed, At

\* Every step keeps it.
LEMMA OrderStep == ASSUME OrderInv, [Next]_vars PROVE OrderInv'
<1>1. TypeInv'
  BY TypeStep DEF OrderInv
<1>2. QuietStart' /\ WorkersOrder' /\ AckerOrder' /\ LoopsOrder'
  BY QuietStartStep, WorkersOrderStep, AckerOrderStep, LoopsOrderStep
<1>3. RenewalEndsBeforeDrain' /\ ReturnsQuiet' /\ NoSendOnClosed'
  BY RenewalStep, QuietStep, PanicStep
<1>. QED
  BY <1>1, <1>2, <1>3 DEF OrderInv

\* No worker ever sends on the closed acknowledgement channel: finish closes it only
\* after the workers are gone (close(acks) in serve), for any number of workers.
THEOREM NoPanic == Spec => []NoSendOnClosed
<1>1. OrderInv => NoSendOnClosed
  BY DEF OrderInv
<1>. QED
  BY <1>1, OrderInit, OrderStep, PTL DEF Spec

\* Serve returns only when every goroutine it started is gone and both channels are
\* empty, whichever of its waits ran out of time.
THEOREM QuietReturn == Spec => []ReturnsQuiet
<1>1. OrderInv => ReturnsQuiet
  BY DEF OrderInv
<1>. QED
  BY <1>1, OrderInit, OrderStep, PTL DEF Spec

\* The registration supervisor is gone before the lease is drained: finish waits for
\* registrationDone even after its timeout.
THEOREM DrainFollowsRenewal == Spec => []RenewalEndsBeforeDrain
<1>1. OrderInv => RenewalEndsBeforeDrain
  BY DEF OrderInv
<1>. QED
  BY <1>1, OrderInit, OrderStep, PTL DEF Spec

-----------------------------------------------------------------------------
(* What is given back and what is acknowledged. *)

\* An open dispatch has its worker, or its loss is remembered.
OpenIsKnown ==
    \A c \in Calls : registry[c] = "mine" =>
        \/ settleErr = TRUE
        \/ \E w \in Workers : worker[w].pc \in {"handle", "publish"} /\ worker[w].event = c

SettledInv == OrderInv /\ OpenIsKnown /\ ReleasedIsSettled

\* A dispatch is forgotten only with a settlement failure that is remembered.
LEMMA OpenIsKnownStep == ASSUME SettledInv, [Next]_vars PROVE OpenIsKnown'
<1>. USE ServeAssumption, CapacityType DEF At, Idle, Exited, goVars, channelVars, TypeInv, WorkerType, FlagType, RegistryType, OrderInv, SettledInv, OpenIsKnown, QuietStart, NotStarted
<1>1. CASE UNCHANGED <<worker, registry, settleErr>>
  BY <1>1
<1>2. CASE NewSink
  BY <1>2 DEF NewSink
<1>3. CASE reportOverload
  BY <1>3 DEF reportOverload, intakeStep, IntakeFails, signalSettleFailure, signalStop, NoFailure
<1>4. CASE ackImmediate
  BY <1>4 DEF ackImmediate, intakeStep, IntakeFails, signalSettleFailure, signalStop, NoFailure
<1>5. ASSUME NEW w \in Workers, Take(w) PROVE OpenIsKnown'
  BY <1>5 DEF Take, Become, workerStep
<1>6. ASSUME NEW w \in Workers, claimToolCall(w) PROVE OpenIsKnown'
  <2>1. worker[w].event \in Calls
    BY <1>6 DEF claimToolCall
  <2>. QED
    BY <1>6, <2>1 DEF claimToolCall, Become, workerStep, Undecided, signalSettleFailure, signalStop, NoFailure
<1>7. ASSUME NEW w \in Workers, HandleToolCall(w) PROVE OpenIsKnown'
  BY <1>7 DEF HandleToolCall, Become, workerStep, signalSettleFailure, signalStop, NoFailure
<1>8. ASSUME NEW w \in Workers, complete(w) PROVE OpenIsKnown'
  <2>1. worker[w].event \in Calls
    BY <1>8 DEF complete
  <2>. QED
    BY <1>8, <2>1 DEF complete, Become, workerStep, signalSettleFailure, signalStop, NoFailure
<1>9. ASSUME NEW w \in Workers, SendAck(w) PROVE OpenIsKnown'
  BY <1>9 DEF SendAck, Become, workerStep
<1>10. ASSUME NEW w \in Workers, ExitWorker(w) PROVE OpenIsKnown'
  BY <1>10 DEF ExitWorker, Become, workerStep
<1>11. CASE AckEvent
  BY <1>11 DEF AckEvent, ackerStep, signalSettleFailure, signalStop, NoFailure
<1>12. ASSUME NEW c \in Calls, Elsewhere(c) PROVE OpenIsKnown'
  BY <1>12 DEF Elsewhere, Undecided
<1>13. QED
  BY <1>1, <1>2, <1>3, <1>4, <1>5, <1>6, <1>7, <1>8, <1>9, <1>10, <1>11, <1>12 DEF Next,
      Stopped, vars, Cancel, CancelLifecycle, ExitAcker, Finishing, Receive, SettlementTimeout,
      StopIntake, SubscriptionCloses, TakeAck, WaitAcks, WaitEnsure, WaitRenewal, WaitWorkers,
      ackerStep, cancelHandlers, closeSinkBounded, drainProvider, finishStep, intakeStep,
      registerUntilSuccess, releaseProvider, runEnsureGroupLoop, superviseRegistration

\* When the lease is given back nobody works and no failure is remembered.
LEMMA ReleasedStep == ASSUME SettledInv, [Next]_vars PROVE ReleasedIsSettled'
<1>. USE ServeAssumption, CapacityType DEF At, Idle, Exited, goVars, channelVars, TypeInv, WorkerType, FlagType, RegistryType, OrderInv, SettledInv, OpenIsKnown, ReleasedIsSettled, QuietStart, NotStarted, WorkersOrder, WorkersDone, LoopsOrder, ReturnsQuiet
<1>1. CASE UNCHANGED <<lease, registry>>
  BY <1>1
<1>2. CASE registerUntilSuccess
  BY <1>2 DEF registerUntilSuccess
<1>3. CASE NewSink
  BY <1>3 DEF NewSink
<1>4. CASE reportOverload
  BY <1>4 DEF reportOverload, intakeStep, IntakeFails, signalSettleFailure, signalStop, NoFailure
<1>5. ASSUME NEW w \in Workers, claimToolCall(w) PROVE ReleasedIsSettled'
  BY <1>5 DEF claimToolCall, Become, workerStep, Undecided, signalSettleFailure, signalStop, NoFailure
<1>6. ASSUME NEW w \in Workers, complete(w) PROVE ReleasedIsSettled'
  <2>1. worker[w].event \in Calls
    BY <1>6 DEF complete
  <2>. QED
    BY <1>6, <2>1 DEF complete, Become, workerStep, signalSettleFailure, signalStop, NoFailure
<1>7. CASE drainProvider
  BY <1>7 DEF drainProvider, Finishing, finishStep
<1>8. CASE releaseProvider
  BY <1>8 DEF releaseProvider, Finishing, finishStep
<1>9. ASSUME NEW c \in Calls, Elsewhere(c) PROVE ReleasedIsSettled'
  BY <1>9 DEF Elsewhere, Undecided
<1>10. QED
  BY <1>1, <1>2, <1>3, <1>4, <1>5, <1>6, <1>7, <1>8, <1>9 DEF Next, Stopped, vars, AckEvent,
      Become, Cancel, CancelLifecycle, ExitAcker, ExitWorker, Finishing, HandleToolCall,
      Receive, SendAck, SettlementTimeout, StopIntake, SubscriptionCloses, Take, TakeAck,
      WaitAcks, WaitEnsure, WaitRenewal, WaitWorkers, ackImmediate, ackerStep, cancelHandlers,
      closeSinkBounded, finishStep, intakeStep, runEnsureGroupLoop, superviseRegistration,
      workerStep

\* A lease is given back only when no call dispatched to it is open, although claims,
\* results and acknowledgements may have failed with or without effect: each such
\* failure is remembered (signalSettleFailure) and withholds the release.
THEOREM ReleaseSettled == Spec => []ReleasedIsSettled
<1>1. Init => SettledInv
  <2>. SUFFICES ASSUME Init PROVE SettledInv
    OBVIOUS
  <2>. QED
    BY OrderInit DEF Init, SettledInv, OpenIsKnown, ReleasedIsSettled
<1>2. SettledInv /\ [Next]_vars => SettledInv'
  BY OrderStep, OpenIsKnownStep, ReleasedStep DEF SettledInv
<1>3. SettledInv => ReleasedIsSettled
  BY DEF SettledInv
<1>. QED
  BY <1>1, <1>2, <1>3, PTL DEF Spec

\* Whatever is on its way to an acknowledgement was decided by the registry.
OnItsWay ==
    /\ \A w \in Workers : worker[w].pc \in {"handle", "publish", "ack"} => registry[worker[w].event] # "queued"
    /\ \A i \in 1 .. Len(acks) : registry[acks[i]] # "queued"
    /\ acker.pc = "ack" => registry[acker.event] # "queued"
    /\ main.pc = "ack" /\ main.event \in Calls => registry[main.event] # "queued"

DecidedInv == TypeInv /\ OnItsWay /\ AckedIsDecided

\* The registry never takes a decision back.
LEMMA StaysDecided ==
    ASSUME TypeInv, [Next]_vars, NEW c \in Calls, registry[c] # "queued"
    PROVE  registry'[c] # "queued"
<1>. USE DEF TypeInv, RegistryType, At, Idle, Exited, goVars, channelVars
<1>1. CASE UNCHANGED registry
  BY <1>1
<1>2. CASE reportOverload
  BY <1>2 DEF reportOverload
<1>3. ASSUME NEW w \in Workers, claimToolCall(w) PROVE registry'[c] # "queued"
  BY <1>3 DEF claimToolCall
<1>4. ASSUME NEW w \in Workers, complete(w) PROVE registry'[c] # "queued"
  BY <1>4 DEF complete
<1>5. ASSUME NEW d \in Calls, Elsewhere(d) PROVE registry'[c] # "queued"
  BY <1>5 DEF Elsewhere
<1>6. QED
  BY <1>1, <1>2, <1>3, <1>4, <1>5 DEF Next, Stopped, vars, AckEvent, Cancel, CancelLifecycle,
      ExitAcker, ExitWorker, Finishing, HandleToolCall, NewSink, Receive, SendAck,
      SettlementTimeout, StopIntake, SubscriptionCloses, Take, TakeAck, WaitAcks, WaitEnsure,
      WaitRenewal, WaitWorkers, ackImmediate, ackerStep, cancelHandlers, closeSinkBounded,
      drainProvider, finishStep, intakeStep, registerUntilSuccess, releaseProvider,
      runEnsureGroupLoop, superviseRegistration, workerStep

\* Only decided calls are passed on.
LEMMA OnItsWayStep == ASSUME DecidedInv, [Next]_vars PROVE OnItsWay'
<1>. USE ServeAssumption, CapacityType DEF At, Idle, Exited, goVars, channelVars, TypeInv, DecidedInv, OnItsWay, AckedIsDecided, WorkerType, AckerType, ChannelType, RegistryType, MainType
<1>1. CASE UNCHANGED <<main, worker, acker, acks, registry>>
  BY <1>1
<1>2. CASE registerUntilSuccess
  BY <1>2, StaysDecided DEF registerUntilSuccess
<1>3. CASE NewSink
  BY <1>3, StaysDecided DEF NewSink
<1>4. ASSUME NEW e \in Events, Receive(e) PROVE OnItsWay'
  BY <1>4, StaysDecided DEF Receive, acceptEvent, intakeStep
<1>5. CASE reportOverload
  BY <1>5, StaysDecided DEF reportOverload, intakeStep, IntakeFails, signalSettleFailure, signalStop, NoFailure
<1>6. CASE ackImmediate
  BY <1>6, StaysDecided DEF ackImmediate, intakeStep, IntakeFails, signalSettleFailure, signalStop, NoFailure
<1>7. CASE StopIntake
  BY <1>7, StaysDecided DEF StopIntake, intakeStep
<1>8. CASE SubscriptionCloses
  BY <1>8, StaysDecided DEF SubscriptionCloses, intakeStep
<1>9. ASSUME NEW w \in Workers, Take(w) PROVE OnItsWay'
  BY <1>9, StaysDecided DEF Take, Become, workerStep
<1>10. ASSUME NEW w \in Workers, claimToolCall(w) PROVE OnItsWay'
  <2>1. worker[w].event \in Calls
    BY <1>10 DEF claimToolCall
  <2>2. \A i \in 1 .. Len(acks) : acks[i] \in Calls
    OBVIOUS
  <2>3. UNCHANGED <<main, acker, acks>>
    BY <1>10 DEF claimToolCall, workerStep
  <2>4. \A i \in 1 .. Len(acks') : registry'[acks'[i]] # "queued"
    BY <2>2, <2>3, StaysDecided
  <2>5. /\ acker'.pc = "ack" => registry'[acker'.event] # "queued"
        /\ main'.pc = "ack" /\ main'.event \in Calls => registry'[main'.event] # "queued"
    BY <2>3, StaysDecided
  <2>6. worker'[w].pc \in {"handle", "ack"} => worker'[w].event = worker[w].event /\ registry'[worker[w].event] # "queued"
    BY <1>10, <2>1 DEF claimToolCall, Become, Undecided
  <2>7. ASSUME NEW v \in Workers, v # w, worker'[v].pc \in {"handle", "publish", "ack"}
        PROVE registry'[worker'[v].event] # "queued"
    <3>1. worker'[v] = worker[v]
      BY <1>10, <2>7 DEF claimToolCall, Become
    <3>. QED
      BY <2>7, <3>1, StaysDecided
  <2>8. worker'[w].pc # "publish"
    BY <1>10 DEF claimToolCall, Become
  <2>. QED
    BY <2>4, <2>5, <2>6, <2>7, <2>8
<1>11. ASSUME NEW w \in Workers, HandleToolCall(w) PROVE OnItsWay'
  <2>1. UNCHANGED <<main, acker, acks, registry>>
    BY <1>11 DEF HandleToolCall, workerStep
  <2>2. worker'[w] = Idle \/ (worker'[w].event = worker[w].event /\ worker[w].pc = "handle")
    BY <1>11 DEF HandleToolCall, Become
  <2>3. \A v \in Workers : v # w => worker'[v] = worker[v]
    BY <1>11 DEF HandleToolCall, Become
  <2>. QED
    BY <2>1, <2>2, <2>3
<1>12. ASSUME NEW w \in Workers, complete(w) PROVE OnItsWay'
  <2>1. worker[w].event \in Calls
    BY <1>12 DEF complete, WorkerType
  <2>. QED
    BY <1>12, <2>1, StaysDecided DEF complete, Become, workerStep, signalSettleFailure, signalStop, NoFailure
<1>13. ASSUME NEW w \in Workers, SendAck(w) PROVE OnItsWay'
  <2>1. UNCHANGED <<main, acker, registry>>
    BY <1>13 DEF SendAck, workerStep
  <2>2. worker'[w].pc \in {"panic", "idle"}
    BY <1>13 DEF SendAck, Become
  <2>3. \A v \in Workers : v # w => worker'[v] = worker[v]
    BY <1>13 DEF SendAck, Become
  <2>4. acks' = acks \/ acks' = Append(acks, worker[w].event)
    BY <1>13 DEF SendAck
  <2>5. worker[w].event \in Calls /\ registry[worker[w].event] # "queued"
    BY <1>13 DEF SendAck
  <2>6. \A i \in 1 .. Len(acks') : registry[acks'[i]] # "queued"
    BY <2>4, <2>5
  <2>. QED
    BY <2>1, <2>2, <2>3, <2>6
<1>14. ASSUME NEW w \in Workers, ExitWorker(w) PROVE OnItsWay'
  BY <1>14, StaysDecided DEF ExitWorker, Become, workerStep
<1>15. CASE TakeAck
  BY <1>15, StaysDecided DEF TakeAck, ackerStep
<1>16. CASE AckEvent
  BY <1>16, StaysDecided DEF AckEvent, ackerStep, signalSettleFailure, signalStop, NoFailure
<1>17. CASE ExitAcker
  BY <1>17, StaysDecided DEF ExitAcker, ackerStep
<1>18. ASSUME NEW c \in Calls, Elsewhere(c) PROVE OnItsWay'
  BY <1>18, StaysDecided DEF Elsewhere, Undecided
<1>19. CASE CancelLifecycle
  BY <1>19, StaysDecided DEF CancelLifecycle, Finishing, finishStep
<1>20. CASE WaitRenewal
  BY <1>20, StaysDecided DEF WaitRenewal, Finishing, finishStep
<1>21. CASE drainProvider
  BY <1>21, StaysDecided DEF drainProvider, Finishing, finishStep
<1>22. CASE closeSinkBounded
  BY <1>22, StaysDecided DEF closeSinkBounded, Finishing, finishStep
<1>23. CASE WaitEnsure
  BY <1>23, StaysDecided DEF WaitEnsure, Finishing, finishStep, PhaseError
<1>24. CASE WaitWorkers
  BY <1>24, StaysDecided DEF WaitWorkers, WorkersDone, Finishing, finishStep, PhaseError
<1>25. CASE WaitAcks
  BY <1>25, StaysDecided DEF WaitAcks, Finishing, finishStep, PhaseError
<1>26. CASE releaseProvider
  BY <1>26, StaysDecided DEF releaseProvider, Finishing, finishStep
<1>27. QED
  BY <1>1, <1>2, <1>3, <1>4, <1>5, <1>6, <1>7, <1>8, <1>9, <1>10, <1>11, <1>12, <1>13, <1>14,
      <1>15, <1>16, <1>17, <1>18, <1>19, <1>20, <1>21, <1>22, <1>23, <1>24, <1>25, <1>26 DEF
      Next, Stopped, vars, Cancel, SettlementTimeout, cancelHandlers, finishStep,
      runEnsureGroupLoop, superviseRegistration

\* Only what was passed on is acknowledged.
LEMMA AckedStep == ASSUME DecidedInv, [Next]_vars PROVE AckedIsDecided'
<1>. USE ServeAssumption, CapacityType DEF At, Idle, Exited, goVars, channelVars, TypeInv, DecidedInv, OnItsWay, AckedIsDecided, WorkerType, AckerType, ChannelType, RegistryType, MainType
<1>1. CASE UNCHANGED <<acked, registry>>
  BY <1>1
<1>2. CASE reportOverload
  BY <1>2, StaysDecided DEF reportOverload, intakeStep, IntakeFails, signalSettleFailure, signalStop, NoFailure
<1>3. CASE ackImmediate
  BY <1>3, StaysDecided DEF ackImmediate, intakeStep, IntakeFails, signalSettleFailure, signalStop, NoFailure
<1>4. ASSUME NEW w \in Workers, claimToolCall(w) PROVE AckedIsDecided'
  <2>1. worker[w].event \in Calls
    BY <1>4 DEF claimToolCall, WorkerType
  <2>. QED
    BY <1>4, <2>1, StaysDecided DEF claimToolCall, Become, workerStep, Undecided, signalSettleFailure, signalStop, NoFailure
<1>5. ASSUME NEW w \in Workers, complete(w) PROVE AckedIsDecided'
  <2>1. worker[w].event \in Calls
    BY <1>5 DEF complete, WorkerType
  <2>. QED
    BY <1>5, <2>1, StaysDecided DEF complete, Become, workerStep, signalSettleFailure, signalStop, NoFailure
<1>6. CASE AckEvent
  BY <1>6, StaysDecided DEF AckEvent, ackerStep, signalSettleFailure, signalStop, NoFailure
<1>7. ASSUME NEW c \in Calls, Elsewhere(c) PROVE AckedIsDecided'
  BY <1>7, StaysDecided DEF Elsewhere, Undecided
<1>8. QED
  BY <1>1, <1>2, <1>3, <1>4, <1>5, <1>6, <1>7 DEF Next, Stopped, vars, Become, Cancel,
      CancelLifecycle, ExitAcker, ExitWorker, Finishing, HandleToolCall, NewSink, Receive,
      SendAck, SettlementTimeout, StopIntake, SubscriptionCloses, Take, TakeAck, WaitAcks,
      WaitEnsure, WaitRenewal, WaitWorkers, ackerStep, cancelHandlers, closeSinkBounded,
      drainProvider, finishStep, intakeStep, registerUntilSuccess, releaseProvider,
      runEnsureGroupLoop, superviseRegistration, workerStep

\* A request is acknowledged only after the registry decided about it: claimed,
\* settled, or reported as overload; a failed claim leaves it pending.
THEOREM AckDecided == Spec => []AckedIsDecided
<1>1. Init => DecidedInv
  <2>. SUFFICES ASSUME Init PROVE DecidedInv
    OBVIOUS
  <2>. QED
    <3>1. OnItsWay
      BY DEF Init, OnItsWay, At
    <3>2. AckedIsDecided
      BY DEF Init, AckedIsDecided
    <3>. QED
      BY <3>1, <3>2, TypeInit DEF DecidedInv
<1>2. DecidedInv /\ [Next]_vars => DecidedInv'
  BY TypeStep, OnItsWayStep, AckedStep DEF DecidedInv
<1>3. DecidedInv => AckedIsDecided
  BY DEF DecidedInv
<1>. QED
  BY <1>1, <1>2, <1>3, PTL DEF Spec
=============================================================================
