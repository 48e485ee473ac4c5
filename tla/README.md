# A TLA+ model of loom-mcp's tool registry and agent runs

loom-mcp builds agent services in Go: a DSL and code generator, an agent
runtime that plans and executes turns on a durable workflow engine, and a
clustered **tool registry** through which agents call tools that run in other
processes. This project follows a tool call from end to end: the run that
decides to make it (agent runtime), the executor that asks the registry for it,
the registry that admits, dispatches and settles it in Redis, and the provider
that executes it. These are the parts in which several processes share state,
and in which a mistake executes a tool twice, loses its outcome, or leaves a run
waiting for ever.

The repository has models of its own in `docs/formal`, among them a
`CallAdmission` of the call scripts with one caller. This project is
independent of them and starts from the Go and Lua code.

## 1. Inventory

### The registry

| Component | State | Operations | Correct when |
|---|---|---|---|
| Toolset catalog, `registry/catalog.go` | one value per toolset in a replicated map: state, registration token, provider leases, tombstones, health epoch, last pong | Register, DrainProvider, ReleaseProvider, Retire, RecordPong, pruning reads | one admission at a time; a replacement waits for every lease; a tombstone is for ever; the decoder accepts what is written |
| Provider health, `registry/health_tracker.go` | epoch and pong of the catalog value, ping leases, revision floors | ping schedule, pong, Health, revision repair | only a pong of the current membership makes a toolset healthy; pings neither double nor dry up; a repaired map is followed by every replica |
| Call records, `registry/call_decision.go`, `registry/call_admission.go` | a Redis hash per tool-use identity, a result stream, settlement indexes | attach, ensure, reject, initialize, claim, live event, overload, complete, restore, settle, clean up (Lua) | decided once, executed at most once, ends once |
| Publication, `registry/bounded_publish.go` | the toolset's request stream and consumer group | bounded publish | at most the bound outstanding |
| Settlement, `registry/call_settlement.go` | none of its own | scan every 250 ms, on every replica | every dispatched call ends |
| Service, `registry/service.go` | none | handlers that make several Redis commands in a row | a handler that stops anywhere leaves a state a retry can use |

### Its clients

| Component | State | Operations | Correct when |
|---|---|---|---|
| Provider, `runtime/toolregistry/provider` | intake, workers, acknowledger, supervisor, repair loop, two channels, lease, token | register, renew, take in, claim, execute, complete, acknowledge, drain, release | gives its lease back only when nothing it dispatched is open; never sends on a closed channel; answers pings whatever its handlers do; a stop ends |
| Executor, `runtime/toolregistry/executor` | one attempt of one call | CallTool, read results, RetryTool | invites the planner to call again only if nobody executed the call and nobody will, or its provider answered with an error |
| Agent run, `runtime/agent/runtime` | plan, caps, budget, await queue, channels, advertised await | plan, execute, await, pause, finalize; answers and results from outside | caps, approvals and deadlines hold through every await; an unknown outcome stops the work; the run ends |

They interact through Redis and the workflow engine alone. A run's planner asks
for a call; the executor asks any registry replica for it. The handler decides
the call in its record, publishes a request to the toolset's stream, and the
executor reads the result stream. Some provider is delivered the request,
claims it (which checks its lease in the catalog value, in the same script),
runs the tool and completes the call. Settlement ends calls whose provider lost
its lease or whose deadline passed. The result, or the fact that the outcome is
unknown, goes back into the run.

Hard here are: decisions made from a clock and a record that are stale when
they are written; pings answered late; requests delivered twice; handlers that
vanish between two scripts; settlement that takes three commands per call while
others write the record; records that expire under those who still use them;
counters that a lost Redis restarts; renewals that are applied after their
caller gave up; goroutines that close channels others write; prompts answered
early, twice and out of order; a deadline that falls between an approval and the
execution. `PROJECT.json` lists each hazard at its line, with the properties
that cover it.

### The rest of the repository

Nested runs and start admission, engines (in memory, Temporal, Selvedge),
session, run, log and memory stores, hooks and streams, transcript, compaction
and continuation, model clients and rate limiting, MCP runtime, client-side
registry cache, DSL and code generation, evaluation tools, release tooling.
Section 6 says why they are not modelled.

## 2. Modules

    AdmissionAuthority        what the catalog promises
        ^  refined by              ^  extended by
    ToolsetCatalog            RoutedCall --- refines ---> ToolCall   what a call promises
                                                             ^  extended by
                                                         ToolExecutor

    PingSchedule   MapRevision          the health tracker's two loops
    ProviderRegistration                the provider, in time
    ProviderServe                       the provider, as goroutines
    AgentRun                            the run, its prompts and its limits

Each has an `MC...` module for TLC, and each but the two abstract ones a
`..._proofs` module for TLAPS (section 4). The pieces meet at the abstract modules:
RoutedCall assumes of the catalog what ToolsetCatalog implements
(AdmissionAuthority), ToolExecutor assumes of the registry what RoutedCall
implements (ToolCall), and the results that AgentRun is given (`unknown` among
them) are the answers of ToolExecutor.

**ToolsetCatalog** models the catalog and the health kept in it, for one
toolset. `entry` is the map's value. A handler is one request on some replica:
`Start` reads the value, `ReadClock` or `Reply` reads Redis TIME and decides,
`Commit` or `Conflict` is the compare-and-swap, `Reread` starts the loop over.
A RecordPong that has to prune first swaps twice without reading in between;
`Commit` does both, the second by `PongAfterPrune`. The
operations are operators `Register(e, req, now)` and so on, which say what a
handler does with the value and clock it read. A token stands for the hash of
schema, revision and protocol, a lease for provider and incarnation. `pings`
holds every ping ever published; a pong answers any of them, at any time, for
any lease. `born`, `past` and `gap` are history variables that only properties
read.

**AdmissionAuthority** is the abstract catalog: current token, tombstones and
the leases that carry authority *now*. A lease loses authority when the clock
reaches its deadline; there are no handlers and no stale clocks.

**RoutedCall** models calls of one toolset on top of that authority. `record`
is the call hash, `result` every event appended to the result stream (with
`lost` of them gone), `requests` and `acked` the request stream, and
`settlement`, `leaseIndex`, `membership` are the three settlement indexes. A
Lua script is one action. A handler that runs several is a process in `caller`
or `settler`, with a step per script, and `Abandon` takes it away between any
two. `running` holds the workers that were granted a claim; a worker may
complete, repeat the completion when its reply was lost, complete after its
lease or the call's deadline is over, or die (`Crash`). Requests are delivered
to any provider, again and again until acknowledged. Ids of events are their
positions.

| Code | Actions |
|---|---|
| CallTool | CallTool, ResolveRegistration, Ensure, AttachEnsured, Reject, AttachRejected, resumeUnpublishedToolCall, InitializeResultStream, PublishAdmittedToolCall, RestoreTerminal |
| RetryTool | RetryTool, RouteRetry, retryTerminalOrError, then as above |
| ClaimToolCall | ClaimVoid, ClaimStale, Claim |
| CompleteToolCall, PublishToolOutputDelta, ReportToolCallOverload | Complete, PublishLiveEvent, ReportOverload |
| ReleaseProvider | ReleaseProvider, SettleLostClaimsForLease, then ReadIdentity, ReadMembership, settleLostClaim, cleanupSettlementMember |
| settlement tracker | SettleLostClaims, then the same |
| Register, DrainProvider, Unregister | Catalog |
| Redis and Pulse | Time (clock, expiry), LoseStream |

**ToolCall** is the abstract call: free, refused, admitted, executing, done.

**MapRevision** is the revision counter of the replicated map. `counter` is the
field in Redis, `replica` what each node last applied, `floor` what its tracker
remembers. A pass of `ensureMapRevision` is two commands: `ReadRevision`, then
`Observe` or `Pin`. `Lose` is Redis losing the map, `Restart` a node that joins
again. Clocks of nodes differ by up to `Drift` and may step back.

**PingSchedule** is the other loop: schedulers that tick at phases of their own,
four ticks to the interval (`run`), compete for the ping lease
(`acquirePingLease`) and publish (`sendPing`), with nodes that stop, also between
the two, and start again. A Redis request of a tick may fail before the lease is
taken (the tick is skipped: `Failed`) or after it (the win is known to nobody and
no ping is sent). A scheduler counts its failed ticks, in a row (`skipped`) and
since the last pong (`failed`); only properties read the counts. `Healthy` is the
staleness window.

**ProviderRegistration** has the provider's registration in ticks of time: the
first registration and its retries with backoff and jitter, the renewal at a
third of the lease, the cutoff computed from the *start* of the attempt, and
drain, close and release with their timeouts. `expires` and `draining` are the
registry's side of it, `stray` the registrations the provider gave up on that
the registry may still apply.

**ProviderServe** leaves out time and has the goroutines: `main` (first the
registration, then intake, then `finish` with its waits in order), `worker`,
`acker`, `supervisor`, `ensure`; the channels `work` and `acks` and which of them
are `closed`; the contexts that are `cancelled`; and the remembered failures
`errc`, `settleErr`, `stopErr`. A claim, a result or an acknowledgement may fail
with and without effect. Sending on a closed channel is a state of its own
(`panic`).

**ToolExecutor** runs overlapping attempts of a call (the engine retries an
activity that it believes dead) on top of ToolCall: one action per step of
Execute, requests that are lost or arrive after their attempt has gone, result
streams that are lost or hold the terminal of an earlier admission. A worker
answers with a result or with an error of any code (`reply`), and
`retryHintFromRegistryError` has every code that the executor turns into advice
for the planner. A tool without specification or toolset ends the attempt before
the registry is asked (`Start`; `Routable` are the others); the attempts of one
call run in executors that have the same specifications.

**AgentRun** is one run. `pc` is where the workflow is: planning, between turns,
paused, in tools, in the await queue, executing a call that was approved
(`gated`), recording provided results, waiting for missing fields, finalizing, or
over. `queue` holds the prompts still to be answered, `channel` the answers that
arrived, `head` the await that the query advertises. An answer names its await or
names none (`Provide`), and one that names none is taken for the prompt that waits
(`Fits`). Time has a `budget` that waits extend. A batch of results is the set of kinds of results in it, which is
what caps, recovery and failure policies tell apart.

| Code | Actions |
|---|---|
| runLoop, handleInterrupts, beforeTurn | TakePause, Resume, ResumeTimeout, Turn |
| executeAndAdvanceToolTurn | ToolsDone |
| handleAwaitQueue and its items | TakeConfirmation, GatedDone, TakeAnswer, TakeResults, Recorded |
| handleMissingFieldsPolicy | TakeMissing |
| planner activities | PlanDone, PlanRecovers, PlanError |
| finalizeWithPlanner | FinalizePlanDone, ClosingDone |
| PauseRun, ResumeRun, ProvideClarification, ProvideTypedInput, ProvideConfirmation | Pause, ResumeRun, Answer, AnswerAgain |
| ProvideToolResults | Preflight, SignalResults |

What is abstracted throughout: payloads (a worker's result is its lease),
schemas and their validation (may refuse any request), error texts, tracing, the
batch limit of 128 and the order of a batch, pings in the request queue, the
trimming of streams, and records from before decisions were stored. A failed
Redis command is a handler that goes no further.

## 3. Runs

| Run | Module | Shows |
|---|---|---|
| catalog | ToolsetCatalog | Two handlers, two admissions, all writers, pings and late or duplicated pongs: decodable records, fenced replacement, permanent tombstones, token and epoch that name one membership only, pongs of this membership, refinement of AdmissionAuthority |
| call_execution | RoutedCall | Two callers, two request bodies, two admissions, one retention period: records that every exact retry can attach to, a bounded queue |
| call_settlement | RoutedCall | Two trackers and a release over a lapsing lease, with a lost stream and output fragments: indexes agree with the record, no call poisons a batch, results end at the terminal, decisions are final |
| call_readmission | RoutedCall | The record expires and the identity is used again, with requests, workers and a tracker left over: refinement of ToolCall |
| call_liveness | RoutedCall | Two providers are delivered one request: one executes, and every dispatched call ends |
| map_revision | MapRevision | Losses, a restart and clocks that differ: once every tracker made a pass, no replica drops a write |
| ping_health | PingSchedule | Two schedulers, a stop, a lost lease, failed ticks: one ping per interval, pings go on but for the ticks that fail, a toolset turns unhealthy only when missed pings and failed ticks account for the window |
| serve | ProviderServe | Every order of intake, workers, acknowledger and shutdown: lease given back only when settled, no send on a closed channel, acknowledgement only after a decision, quiet return, answered pings, stops that end |
| registration | ProviderRegistration | Slow, lost and late registrations: a lease is believed no longer than it lasts, the supervisor stops by its cutoff, a drained lease is not routed to |
| executor | ToolExecutor | Two attempts of one call and one of an unknown tool, answers of every code: an invitation to call again only when the call is never executed or its provider answered with an error, results of this call only, attempts that end |
| agent_run | AgentRun | One run with prompts, answers with and without a name, pauses, two submitting clients and a budget: tool cap, approvals, unknown outcomes, deadlines, published status, waits that cost nothing, a run that ends |
| executor_unknown | ToolExecutor | *Violation*: see section 5 |

### Bounds

`MaxTime`, `MaxEpoch`, `LastAdmission`, `MaxRequests`, `MaxEvents`, `MaxDeltas`
(256 in the code), `MaxTurns`, `MaxStops`, `MaxLosses`, `MaxRestarts`,
`MaxStray`, `MaxDeliveries`, `MaxFailures` and `MaxSignals` are bounds. Durations are a few
ticks: every order of deadlines and steps that the durations allow is reached,
because clock ticks interleave with everything.

* *Catalog.* `MaxEpoch` stops requests that start, not those under way. The run
  does not reach a pong that prunes one of two leases of one admission. With
  `AnyProvider`, `LeaseDuration` 2, `MaxTime` 4 and the operations register, ping
  and pong TLC does (2.3 million states, no error), and the theorems cover it.
* *RoutedCall.* In call_execution, call_settlement and call_liveness the record
  outlives the clock (`RecordTTL` 9), which separates what holds within a
  retention period from what holds across it. In the code a record is kept for
  at least `MinResultStreamTTL` (over ten minutes), so leftovers of an earlier
  record are rare, and no test waits for them; call_readmission is about
  exactly those. One toolset and one tool-use identity suffice because no script
  touches two call records; only the queue bound and a settlement batch are
  shared, and a batch with several members differs only in that an error ends
  it (`NoPoisonedIndex` excludes the error).
* *PingSchedule.* `MaxTime` 26 is three intervals of eight ticks and a tick
  period, long enough for the staleness window of `Missed` 2 to pass. Three
  failed ticks of two schedulers reach a tick that both fail at, ticks that one
  fails at in a row, and a win that nobody learns of.
* *ToolExecutor.* Two attempts of one call that overlap, one attempt of a tool
  without specification, one lease, streams of up to three events.
* *ProviderRegistration.* The safety budget is 5 ticks; the durations 5 and 7
  are one lease that is all budget (which the code refuses) and one outside it.
* *ProviderServe.* One worker, a queue of one, two calls and one ping fill every
  channel; that more workers and deliveries change nothing for the four safety
  properties is proved (section 4).
* *AgentRun.* Two budgeted calls, one recovery turn, three turns, eight plans
  that between them have every kind of call and prompt, three policies that have
  each limit action and each missing-fields action. `MaxSignals` 1 is one pause
  request or one answer that is given a second time. Two typed prompts in one
  queue let an answer without a name be taken for the other prompt; an approval
  that is given twice meets the gated call of a later turn.

Symmetry is used over handlers, callers, trackers, tokens, leases, nodes and
request bodies where the configuration treats them alike, and not for liveness.
Only AgentRun switches the deadlock check off: a run that has ended does nothing
more. The other modules that can end have an explicit stuttering action.

### Fairness

* *call_liveness*: time goes on and the tracker keeps taking steps:
  `callSettlementTracker.run` calls `settle` on a ticker for as long as the
  replica lives. Nothing is assumed of callers, providers and releases.
* *serve*: a goroutine that can go on does, Redis commands end or time out
  (every one has a context with a deadline), and a handler returns after its
  context is cancelled, not before. A stop signal and a ping win the intake's
  `select` at some time (strong fairness: Go's select chooses at random among
  the ready cases). The supervisor need not end before the lifecycle does.
* *executor*: requests are answered or time out, and the execution deadline
  comes. Nothing is asked of the registry or of providers.
* *agent_run*: the engine runs the workflow and ends its activities, a prompt is
  answered, and again when it waits and its answer, which named no await, was taken
  for another prompt (`Unanswered`), an advertised await is answered by a client, and time goes on
  while a run is paused. Nobody resumes a paused run.

### Mutants

Each property of a passing run names, in `PROJECT.json`, a variant of a
modelled definition that violates it: a dropped guard, an off-by-one, a
forgotten tombstone or index. They are the operators named
`<definition>_<fault>` next to the definitions they vary.

## 4. Proofs

`ToolsetCatalog_proofs` proves, for any sets of tokens, leases, handlers and
providers, any durations and any bounds that satisfy `CatalogAssumption`:

| Theorem | Statement |
|---|---|
| TypeCorrect | `Spec => []TypeOK` |
| DecoderAcceptsAll | `Spec => []DecoderAccepts` |
| ReplacementFenced | `Spec => ReplacementIsFenced` |
| RetirementPermanent | `Spec => RetirementIsPermanent` |
| IdentityUnique | `Spec => []IdentityNeverReused` |
| PongOfMembership | `Spec => []PongOfThisMembership` |
| ImplementsAuthorityAlways | `Spec => ImplementsAuthority` |

The argument has four layers.

1. *Operations.* Whatever an operation decides to write is one of four kinds of
   step (`CatalogStep`): the admission is kept, with its health as it was or
   fenced; a pong of the token and epoch that the record has is recorded; the
   admission is retired; another one, without tombstone, is admitted. The
   `...Decides` lemmas show this of each operation, and nothing else about the
   operations is used afterwards.
2. *`CatalogInv`*: types, `Decoded(entry)`, and the same of the record every
   handler has read, with a clock that is not ahead. The last part is what
   makes it inductive: a swap writes what was computed from an earlier record,
   so that record must be in order too. A replacement is fenced because the
   record compared equal at the swap, the leases in it had lapsed at the clock
   that was read, and that clock is not ahead of the current one.
3. *`HealthInv`* adds that every identity used before is of a tombstoned token
   or of a smaller epoch of this one, that every published ping names an
   identity of the present or the past, that a handler about to record a pong
   holds a ping that was published, and that a handler working on the current
   record read its clock no earlier than that record's membership began.
   Uniqueness and the property of pongs follow.
4. *`Effect`*, for the refinement. A write is computed at a clock `now` and seen
   by the abstract authority at the instant `c >= now` of the swap. Leases that
   were pruned had lapsed at `now`, so the prune is not seen at `c`; a deadline
   that was written may have passed at `c`, and is then never seen. What is left
   of each operation is one abstract action or none (the `...Effect` lemmas).
   The abstract drain has a bounded deadline, so the invariant
   `DeadlinesBounded` is needed: a drain keeps a later deadline, and a renewal
   sets its own, so that no sequence of them adds up to more than one of each.

`ProviderServe_proofs` proves, for any numbers of workers, calls, pings and
deliveries and any queue size that satisfy `ServeAssumption`:

| Theorem | Statement |
|---|---|
| TypeCorrect | `Spec => []TypeOK`, with the bounds of both channels |
| NoPanic | `Spec => []NoSendOnClosed` |
| QuietReturn | `Spec => []ReturnsQuiet` |
| DrainFollowsRenewal | `Spec => []RenewalEndsBeforeDrain` |
| ReleaseSettled | `Spec => []ReleasedIsSettled` |
| AckDecided | `Spec => []AckedIsDecided` |

1. *`TypeInv`* ties the place of a goroutine to what it holds: a worker that
   claims, handles, publishes or acknowledges holds a call.
2. *`OrderInv`* says what each wait of `finish` leaves behind: before the start
   there is nothing (`QuietStart`); a worker exits only from a closed and empty
   queue, and the acknowledgement channel is closed only when all have
   (`WorkersOrder`); then the acknowledger exits only when it is empty
   (`AckerOrder`); the supervisor is gone before the drain, the repair loop
   before the workers are waited for, the lease released last (`LoopsOrder`).
   Panics, quiet return and the renewal follow from these together and from none
   of them alone.
3. *`SettledInv`* adds that every call that is open at the registry under this
   lease is held by a worker or was remembered as a settlement failure
   (`OpenIsKnown`): after the last wait no worker holds anything, so a release
   without a remembered failure leaves nothing open. *`DecidedInv`* adds that
   whatever is on its way to an acknowledgement (worker, channel, acknowledger,
   intake) was decided, and that the registry takes no decision back.

`AgentRun_proofs` proves, for any plans, policies, clients, caps and budgets
that satisfy the assumptions of AgentRun:

| Theorem | Statement |
|---|---|
| GraceIsForTheFinalizer | `Spec => []NoWorkInGrace` |
| WaitsCostNothing | `Spec => []AwaitsAreFree` |
| UnknownEndsWork | `Spec => []UnknownIsFinal` |
| WorkIsShown | `Spec => []PlannerSeesRunning` |
| ToolCallsAreCapped | `Spec => []ToolCapHolds` |
| GatedCallsAreApproved | `Spec => []GatedIsApproved` |
| ResultsAreAccepted | `Spec => []PreflightedIsAccepted` |

1. *`RunInv`.* Whatever a policy, a turn or a queue of prompts decides, it leaves
   the run at one of a few ends (`Ends`): over, finalizing, closing, waiting, or
   planning again before the deadline and without an unknown outcome. The
   invariant is shown of the ends, in one lemma for those that follow a wait and
   one for the others. It adds to the first four properties what the deadline is
   *while* the run waits (`BudgetFollows`: the time since the wait began is still
   to be added) and every place where an unknown outcome can be met
   (`UnknownStops`).
2. *`CapInv`.* `toolsLeft` is reduced only after the batch, and then for the gated
   calls too, which are executed later. So the sum of what was spent and what is
   left is bounded differently at each place (`PaidInv`): during the batch without
   its own calls, in the queue with the confirmations that are still in it.
   `Pending` reads their number off the first prompt, which is right because
   confirmations come first and are numbered in order (`Ordered`): prompts taken
   from the front and clarifications added at the end preserve that.
3. *`ApprovalInv`.* Every approval in the channel is of a call that was approved
   by name, or names none and is counted in `blanks`: there are at most as many of
   the latter in the channel as the counter says (`BlanksGrow`, `BlanksShrink`).
   The run compares a name with the prompt in front, so a call that was not
   approved by name is executed only when such an approval leaves the channel, and
   the counter never becomes negative.
4. *`NameInv`.* Every await that a client was told, that a signal in the channel
   names or that the query shows is one whose results were taken, or the first
   results prompt of the queue (`NamesKnown`), and between turns the queue is
   empty (`QueueEnds`). So a signal that is not for the prompt in front is for one
   that was taken, and is dropped. The lemmas about `ToolAwait` (the first such
   prompt exists and is the same in the tail of the queue) use that the order of
   the naturals is well founded.

`RoutedCall_proofs` proves, for any numbers of calls, callers, settling replicas,
tokens, leases and requests that satisfy `CallAssumption`:

| Theorem | Statement |
|---|---|
| RoutedTypeCorrect | `Spec => []TypeOK` |
| AtMostOneExecutionAlways | `Spec => []AtMostOneExecution` |
| ResultsEndAtTerminalAlways | `Spec => []ResultsEndAtTerminal` |
| QueueIsBoundedAlways | `Spec => []QueueIsBounded` |
| DecisionIsFinalAlways | `Spec => DecisionIsFinal` |
| ImplementsToolCallAlways | `Spec => ImplementsToolCall` |
| AttachAcceptsUnlessExpired | `Spec /\ [][ExpiresUnused]_vars => []AttachAccepts` |
| DispatchedIsIndexedUnlessExpired | `Spec /\ [][ExpiresUnused]_vars => []DispatchedIsIndexed` |
| NoPoisonedIndexUnlessExpired | `Spec /\ [][ExpiresUnused]_vars => []NoPoisonedIndex` |

1. *`CoreStep`.* Whatever a script writes to a record and its stream is one of nine
   kinds of step: nothing, admitted, rejected, published, dispatched, an event
   reported, ended, the end restored, expired. Fourteen actions
   are shown to be steps of these kinds, and nothing else about them is used.
2. *`CoreInv`* relates the fields of a record to each other (what is terminal was
   published, what is dispatched carries the record's own token and request),
   the stream since the admission to the record (a terminal event in it is the
   record's), and the history of grants to the dispatch. A grant is given only to
   a record without dispatch, so there is at most one; a terminal event is
   appended only with the record's payload, so the second is the first. The
   refinement reads stage, owner and outcome off the record, and each kind is one
   abstract action.
3. *`EnvInv`* has the types of what handlers, streams and indexes hold, and
   `QueueIsBounded` is inductive with it: the bound is checked in the script that
   appends, and acknowledgements only make room (`FiniteSetTheorems`).
4. *`FreshInv`* is about the properties that use more than the record: overloads
   that callers carry from one script to the next, calls that a settler took from
   an index, the indexes themselves. They fail when a record expires under a
   handler that has read it and its identity is admitted again (section 5 has
   TLC's counterexamples). `ExpiresUnused` excludes just that: a record that
   expires is not the call of a caller or settler under way and is in no index.
   Nothing is assumed about identities being used again later, and the records
   do expire. The code makes such an expiry unlikely by keeping a record longer
   than any call is waited for (transport.go:26, 15 minutes by default); nothing
   in it stops a handler or a tracker from being slower, which is why this is a
   hypothesis of the three theorems and not of the model. TLC confirms
   `FreshInv` under the hypothesis with records that do expire (RecordTTL 2,
   MaxTime 4, one and two callers).

`ToolExecutor_proofs` proves, for any calls and attempts, `[]TypeOK`,
`[]InvitationIsSettled` and `[]ResultIsOfThisCall`. The invariant has what
an answer rests on: the shape of a call at each stage (`CallShape`), that a
terminal event which is not of an earlier admission has the code of the finished
call (`TerminalIsOutcome`), that nobody asks for a call of an unknown tool
(`NeverAsked`), and that an answer names what became of the call
(`AnswerIsEarned`): refused or given up as stale (`Refused`), or answered by its
worker (`Replied`) with a result, or with an error that is not an unknown
outcome. These are final in ToolCall, which is why an answer read long after the
decision still holds, and why no later request can execute a call that was
reported as not executed.

`ProviderRegistration_proofs` proves, for all durations, timeouts and delays:
`[]LeaseIsConservative`, `[]StopsByCutoff` and `[]DrainedIsNotRoutable`. The
invariant (`RegistrationInv`) says that both timers of the supervisor lie before
the cutoff (`TimersGood`), that the registry's lease covers the local deadline
and the one that an answer on its way will give (`LeaseGood`), and that the drain
follows the supervisor's end (`MainGood`). The second part of `LeaseGood` is what
makes it inductive: the deadline is computed from the *start* of an attempt,
the registry's from a later instant. `ShutdownMargin` must not be zero, which
the code ensures (registration.go:307-309 puts a default in its place): with
zero, the lease has expired at the cutoff and a renewal answered just then may
admit another token in its place. That
delays are natural numbers is not proved, since `Backoff` is recursive; the
invariant only needs them to be integers.

`MapRevision_proofs` proves, for any number of nodes, losses, restarts and passes
and any drift: `[]TypeOK`, `[]RepairedIsFollowed` and `NeverLowered`. Between
orderly losses the map is `Followed` (no replica outranks the counter) or
`Broken`: nobody has passed, every floor and the slack reach every replica, and
the counter holds only writes since the loss, fewer than there are milliseconds.
The first pin then raises it above everything. This needs `Epoch > MaxTicks +
Drift`: a wall clock in milliseconds is far above any number of writes since a
loss.

`PingSchedule_proofs` proves, for any number of schedulers at any phases, any
period and any number of stops, lost leases and failed ticks: `[]TypeOK`,
`OnePingPerInterval`, `[]PingsGoOn`, and

| Theorem | Statement |
|---|---|
| UnhealthyIsEarnedAlways | `Spec => []UnhealthyIsEarned`: when a toolset turns unhealthy, `(unanswered + 1) * Cadence + failed * Period` is more than the window, for every scheduler that ran since the last pong |
| MissesAreSpentAlways | `Missed <= 4 => (Spec => []MissesAreSpent)`: if none of that scheduler's ticks failed, `unanswered >= Missed` |

The lease outlasts the last win by an interval, so a tick that finds it held
bounds the age of the win, and every scheduler's next tick lies within a cadence
(five tick periods) of the last win, and a period more for each tick that failed
in a row (`NodeGood`). Hence the wins since the last pong, counted in cadences,
and the failed ticks, counted in periods, reach the present (`Counted`). The
window is counted in intervals (four periods), so the wins fall behind by one in
five: the bound on `Missed` in the second theorem is not an artefact of the proof.
With a threshold of five, TLC finds a toolset that turns unhealthy after four wins
(one node, Period 2). The code's default is three. No bound that leaves the failed
ticks out holds: a Redis that fails every tick turns a toolset unhealthy without
one ping.

Only model-checked is what needs fairness: EveryDispatchEnds, PingsAreAnswered,
StopIsCompleted, AttemptsEnd and RunEnds. TLAPS proves neither liveness under
fairness nor ENABLED. Also not proved is the type invariant of
ProviderRegistration (see above). All other properties of passing runs are
theorems.

## 5. Disagreements

The run executor_unknown shows one with the documentation: `docs/runtime.md`
says that the executor carries `outcome_unknown` as typed metadata to the
planner; for a call that the *registry* settled as lost it keeps the message
only, so the run does not see an unknown outcome and goes on (in terms of
AgentRun, `failed` where `unknown` was meant).

The modules state further promises of comments that the code does not keep in
full. They are definitions without a run; the constants here give TLC the
counterexample (other constants as in the module's run).

| Property | Constants | Counterexample |
|---|---|---|
| ToolsetCatalog `GapIsFenced` | Providers `AnyProvider`, durations 2, MaxTime 5, MaxEpoch 3, register, ping, pong | A renewal decided before the last lease lapsed and written after it keeps the old pong: the gap is not fenced |
| RoutedCall `OneRequestPerOverload` | 2 callers, QueueBound 1, MaxRequests 4, MaxTime 1 | A delayed retry of one overload publishes again after a later overload was published |
| RoutedCall `ClaimsAreAnswered` | RecordTTL 2, MaxTime 4, LastAdmission 4 | A request outlives its record, its identity is rejected, and the claim fails instead of being answered as expired |
| RoutedCall `DispatchedIsIndexed` | RecordTTL 2, one tracker, MaxTime 4, MaxRequests 2 | A tracker clears the indexes of a call that was admitted and dispatched again after the tracker found it missing |
| RoutedCall `AttachAccepts` | RecordTTL 2, two callers, MaxTime 4 | A retry that waits across the expiry of its record publishes its overload on the next one, which no caller can attach to afterwards |
| MapRevision `NeverOutranked` | Drift 0, MaxLosses 2, MaxRestarts 0 | The map is lost twice before one of the trackers makes its pass: its floor is that of the first life |
| PingSchedule `MissesAreTolerated` | no stops, no losses, no failed ticks | Pings come at scheduler ticks, so one miss fewer than the threshold's name says is tolerated |
| ProviderRegistration `SinkClosesInTime` | Durations {7}, IntakeTime 2, ReleaseTimeout 2 | A slow intake step and a slow drain use up the margin and the sink outlives the lease |
| ProviderRegistration `CleanReturnLeavesNothing` | Durations {7}, MaxTime 10 | A renewal returns a new token as the lifecycle ends: its lease is neither drained nor released |

`DrainedIsNotRoutable` excuses one case, the history variable `late`: a renewal
that the provider gave up on is applied by the registry after the drain, and
takes it back until the lease expires.

Seen while modelling AgentRun, each at the definition's lines: an operator's
pause uses up the time budget where waits for answers do not (TakePause); a
denied confirmation counts as a success and gives the recovery turns back
(TakeConfirmation); calls approved in the same await queue are still executed
after one of them had an unknown outcome (GatedDone; `UnknownIsFinal` excepts
them); an answer to a clarification, a typed prompt or a confirmation that
arrives out of order or twice fails the run, where tool results do not
(TakeAnswer, TakeResults). An approval without an await ID is for whichever call
is in front (`workflow_await_queue.go:357`): given twice, the second one executes
the next gated call, about which nobody was asked yet when it was sent.
`GatedIsApproved` counts it as an approval of its own, which is all the code
gives; with an await ID in every answer each call is approved by name.

Seen while modelling ToolExecutor: errors that a provider returns after it executed
the call (`service_unavailable`, `rate_limited`, `timeout`, `invalid_arguments`,
and `stale_registration` if a provider chooses that code) reach the planner with
the same advice as if nothing had been executed (`retryHintFromRegistryError`).
Whether the tool had an effect before it failed is the provider's to say: it can
answer `outcome_unknown`, for which the executor gives no advice.

## 6. Not modelled

Of the modelled parts: option validation, payload validation and decoding (a
choice of outcomes); in AgentRun the policy engine with its merged and per-turn
caps, charges for recalled results, context overflow recovery, a zero deadline
given to the missing-fields finalizer and the timing inside the grace period,
await IDs that the planner reuses or leaves empty, resume requests
before any pause, external-tools prompts for several calls at once, gated
bookkeeping calls, nested agent runs and start admission.

Of the rest: stores (session, run, log, memory) are keyed reads and writes to
MongoDB or a map; hooks and streams move events over Pulse; model clients and the
MCP runtime are wire formats and network I/O over external SDKs; engines are
adapters of external durable engines; transcript, compaction and continuation
have models of their own in `docs/formal`, release publication beside its
scripts. DSL, expressions and code generation, with what they generate, are more
than half of the repository's lines: a sequential compiler without state that
survives it, for which a model checker has nothing to add. That is also why the
mapped lines stay a small share of the implementation, although the protocol
parts are covered.

## 7. Plan

1. Proofs: the weaker promises of section 5 in the form in which they do hold
   (how far a gap may go unfenced, when a claim is answered), and the lemmas of
   RoutedCall that a proof of liveness would start from.
2. The client-side cache and sync of `runtime/registry`, the in-memory engine,
   session lifecycle, start admission and nested runs, the adaptive rate limiter.
