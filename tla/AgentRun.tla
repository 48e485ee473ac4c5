------------------------------ MODULE AgentRun ------------------------------
(***************************************************************************)
(* One run of an agent (runtime/agent/runtime): the durable loop that      *)
(* turns planner results into tool calls, the queue of prompts a turn may  *)
(* wait on, pause and resume, the limits, and the finalizer they lead to.  *)
(*                                                                         *)
(* The workflow is one deterministic thread; operators and clients signal  *)
(* it at any time, and its channels keep what it does not yet wait for.    *)
(* A client submits tool results in two steps that are not atomic: it asks *)
(* which await is current, then it signals.                                *)
(*                                                                         *)
(* A batch of tools is the set of kinds of results it had: ok (of a domain *)
(* tool), noted (of a bookkeeping tool), failed (the planner must repair   *)
(* it), transient, missing (fields), unknown (outcome).  Await IDs are     *)
(* distinct.  An answer names the await it is for, or names none and then  *)
(* is taken for the one that waits; tool results always name theirs.  An   *)
(* activity may fail for reasons of its own; then the run fails.           *)
(***************************************************************************)
EXTENDS Integers, Sequences, FiniteSets, SequencesExt

CONSTANTS
    Plans,          \* what a planner may return
    Policies,       \* the run policies: completion tool, limit plan, missing fields
    Results,        \* the kinds of results that tools have
    Clients,        \* who submits tool results
    MaxToolCalls, MaxRecoveryTurns, TimeBudget,
    None,
    MaxTurns,       \* bound: the planner answers in this turn
    MaxTime,        \* bound of the clock
    MaxSignals      \* bound of pause requests and answers given a second time, together

Kinds == {"confirmation", "clarification", "typed", "results"}
Successes == {"ok", "noted"}
Outcomes == Successes \cup {"failed", "transient", "missing", "unknown"}

ASSUME AgentAssumption ==
    /\ Plans \subseteq [calls : Nat, bookkeeping : BOOLEAN, terminal : BOOLEAN, completion : BOOLEAN,
                        confirmations : Nat, items : Seq(Kinds \ {"confirmation"}), final : BOOLEAN]
    /\ Policies \subseteq [completion : BOOLEAN, limitPlan : BOOLEAN, missing : {"finalize", "await", "resume"}]
    /\ \A p \in Policies : ~(p.completion /\ p.limitPlan)
    /\ Results \subseteq Outcomes
    /\ MaxToolCalls \in Nat \ {0} /\ MaxRecoveryTurns \in Nat /\ TimeBudget \in Nat \ {0}
    /\ MaxTurns \in Nat /\ MaxTime \in Nat /\ MaxSignals \in Nat
    /\ None # "results" /\ None \notin [kind : Kinds \cup {"missing"}, turn : Nat, n : Nat]

VARIABLES
    policy,
    pc,        \* where the workflow is
    turn, plan,
    outcomes,  \* the kinds of results of this turn
    unknown,   \* some result of the run has an unknown outcome
    queue,     \* the prompts still to be waited for, the first being waited for
    toolsLeft, recoveriesLeft,
    now, budget,
    since,     \* when the activity or the wait under way began
    shown,     \* the status that was last published
    pauses, resumes,  \* requests waiting in their channels
    requests,  \* the requests made so far, of each kind
    channel,   \* the answers waiting in each channel
    head,      \* the await that the query advertises
    consumed,  \* the awaits whose results were taken
    client,    \* the await each client was told is current
    sent,      \* the prompts that were answered
    repeated,  \* answers given a second time
    why,       \* history: what made the run fail
    spent,     \* history: budgeted calls that were executed
    approved,  \* history: the calls that were approved by name
    blanks,    \* history: approvals that named no call, less the gated calls that
               \* were executed without being approved by name
    waited     \* history: time spent waiting for answers

signals == <<pauses, resumes, requests, channel, client, sent, repeated>>
awaiting == <<queue, head, consumed>>
limits == <<toolsLeft, recoveriesLeft>>
times == <<now, budget, since, waited>>
approvals == <<approved, blanks>>
vars == <<policy, pc, turn, plan, outcomes, unknown, awaiting, limits, times, shown, signals, why,
          spent, approvals>>

-----------------------------------------------------------------------------

Prompt(kind, n) == [kind |-> kind, turn |-> turn, n |-> n]
\* A missing-fields prompt is answered as a clarification.
Channel(kind) == IF kind = "missing" THEN "clarification" ELSE kind

confirmationAwaits(p) == [n \in 1 .. p.confirmations |-> Prompt("confirmation", n)]
awaitItems(p) == [n \in 1 .. Len(p.items) |-> Prompt(p.items[n], p.confirmations + n)]
toolPauseAwaitItems(n, paused) == IF paused THEN <<Prompt("clarification", n)>> ELSE <<>>

\* Mutant: only the calls that run at once are counted.
budgetedToolCallCount_ForgetsGated(p) == IF p.bookkeeping THEN 0 ELSE p.calls
budgetedToolCallCount(p) == (IF p.bookkeeping THEN 0 ELSE p.calls) + p.confirmations

\* The first prompt that tool results answer; the others do not block it.
ToolAwait(prompts) ==
    LET first == SelectInSeq(prompts, LAMBDA p : p.kind = "results")
    IN  IF first = 0 THEN None ELSE prompts[first]

\* Mutant: the instant at which the budget ends is still inside it.
budgetExpired_Late == now > budget
budgetExpired == now >= budget

decrementCap(current, delta) == IF current > delta THEN current - delta ELSE 0

Init ==
    /\ policy \in Policies
    /\ pc = "planning" /\ turn = 0
    /\ plan = [calls |-> 0, bookkeeping |-> FALSE, terminal |-> FALSE, completion |-> FALSE,
               confirmations |-> 0, items |-> <<>>, final |-> FALSE]
    /\ outcomes = {} /\ unknown = FALSE
    /\ queue = <<>> /\ head = None /\ consumed = {}
    /\ toolsLeft = MaxToolCalls /\ recoveriesLeft = MaxRecoveryTurns
    /\ now = 0 /\ budget = TimeBudget /\ since = 0 /\ waited = 0
    /\ shown = "running"
    /\ pauses = 0 /\ resumes = 0 /\ requests = [r \in {"pause", "resume"} |-> 0]
    /\ channel = [k \in Kinds |-> <<>>]
    /\ client = [c \in Clients |-> None] /\ sent = {} /\ repeated = 0
    /\ why = None /\ spent = 0
    /\ approved = {} /\ blanks = 0

-----------------------------------------------------------------------------
(* How a step ends.  Goto leaves the status alone. *)

Goto(place) == pc' = place /\ UNCHANGED <<shown, why>>
Begin(place) == Goto(place) /\ since' = now
Finish == Goto("done") /\ UNCHANGED since
Fail(reason) == pc' = "failed" /\ why' = reason /\ UNCHANGED <<shown, since>>

\* finalizeWithPlanner: a run that requires its completion tool fails; the
\* limit's terminal call is executed unless an outcome is unknown; otherwise
\* the planner is asked to finish.
Finalize(nowUnknown) ==
    IF policy.completion THEN Fail("completion")
    ELSE /\ pc' = IF policy.limitPlan /\ ~nowUnknown THEN "closing" ELSE "finalizing"
         /\ shown' = "running" /\ since' = now /\ UNCHANGED why

\* Mutant: the planner is resumed, but the resume is not published.
ResumePlan_Unpublished(nowUnknown, ends) ==
    IF now >= ends \/ nowUnknown THEN Finalize(nowUnknown)
    ELSE pc' = "planning" /\ since' = now /\ UNCHANGED <<shown, why>>
\* Mutant: only the deadline is asked for.
ResumePlan_IgnoresUnknown(nowUnknown, ends) ==
    IF now >= ends THEN Finalize(nowUnknown)
    ELSE pc' = "planning" /\ since' = now /\ shown' = "running" /\ UNCHANGED why
\* resumeAfterToolTurn: one more plan, unless the budget is over (of which ends is
\* the deadline) or an outcome is unknown.
ResumePlan(nowUnknown, ends) ==
    IF now >= ends \/ nowUnknown THEN Finalize(nowUnknown)
    ELSE pc' = "planning" /\ since' = now /\ shown' = "running" /\ UNCHANGED why

\* A success of a domain tool (a denied call has such a result) gives the
\* recovery turns back; a result to be repaired costs one.
AfterReset(outs) == IF "ok" \in outs THEN MaxRecoveryTurns ELSE recoveriesLeft
RequireRecovery(outs) == outs \cap {"failed", "missing", "unknown"} # {}

CannotRecover(outs) == RequireRecovery(outs) /\ AfterReset(outs) = 0

\* Agent tools that ran without children end the run, whatever they returned.
Protect(outs, nowUnknown) == outs # {} /\ Finalize(nowUnknown)

\* The failure policy over the results of a turn, and what follows it.  A turn of
\* successful bookkeeping must also finish the run.
ApplyFailurePolicy(outs, nowUnknown, ends, finishes) ==
    IF CannotRecover(outs)
    THEN Finalize(nowUnknown) /\ recoveriesLeft' = AfterReset(outs)
    ELSE /\ recoveriesLeft' = AfterReset(outs) - (IF RequireRecovery(outs) THEN 1 ELSE 0)
         /\ \/ "missing" \in outs /\ policy.missing = "finalize" /\ Finalize(nowUnknown)
            \/ /\ "missing" \in outs /\ policy.missing = "await"
               /\ pc' = "missing" /\ shown' = "paused" /\ since' = now /\ UNCHANGED why
            \/ /\ "missing" \notin outs \/ policy.missing = "resume"
               /\ \/ Protect(outs, nowUnknown)
                  \/ finishes /\ (IF plan.final THEN Finish ELSE Fail("planner"))
                  \/ ~finishes /\ ResumePlan(nowUnknown, ends)

-----------------------------------------------------------------------------
(* Before a turn: the operator's pauses, then the limits. *)

\* handleInterrupts: a paused run waits for one resume request, at most until its
\* budget is over; then the other pauses are left in the channel.
TakePause ==
    /\ pc = "turn" /\ pauses > 0
    /\ pauses' = pauses - 1
    /\ IF budgetExpired THEN pc' = "ready" /\ shown' = "running" /\ UNCHANGED since
       ELSE pc' = "paused" /\ shown' = "paused" /\ since' = now
    /\ UNCHANGED <<policy, turn, plan, outcomes, unknown, awaiting, limits, now, budget, waited,
                   resumes, requests, channel, client, sent, repeated, why, spent, approvals>>

Resume ==
    /\ pc = "paused" /\ resumes > 0
    /\ resumes' = resumes - 1
    /\ pc' = "turn" /\ shown' = "running"
    /\ UNCHANGED <<policy, turn, plan, outcomes, unknown, awaiting, limits, times,
                   pauses, requests, channel, client, sent, repeated, why, spent, approvals>>

ResumeTimeout ==
    /\ pc = "paused" /\ budgetExpired
    /\ pc' = "ready" /\ shown' = "running"
    /\ UNCHANGED <<policy, turn, plan, outcomes, unknown, awaiting, limits, times, signals, why,
                   spent, approvals>>

\* The prompts are published together and the run is shown as paused once.
StartQueue(prompts) ==
    /\ queue' = prompts /\ head' = ToolAwait(prompts) /\ UNCHANGED consumed
    /\ pc' = "await" /\ shown' = "paused" /\ since' = now /\ UNCHANGED why

InvalidForCompletion(p) ==
    policy.completion /\ (p.final \/ p.terminal \/ (p.completion /\ (p.calls + p.confirmations # 1 \/ p.items # <<>>)))

HasCalls(p) == p.calls + p.confirmations > 0

\* beforeTurn, then an await-only turn, a final answer, or the guards of a tool turn.
Turn ==
    /\ pc = "ready" \/ (pc = "turn" /\ pauses = 0)
    /\ \/ InvalidForCompletion(plan) /\ Fail("completion") /\ UNCHANGED <<awaiting, spent>>
       \/ /\ ~InvalidForCompletion(plan)
          /\ LET inHand == plan.final /\ ~HasCalls(plan) /\ plan.items = <<>>
                 cost == budgetedToolCallCount(plan)
             IN  \/ ~inHand /\ budgetExpired /\ Finalize(unknown) /\ UNCHANGED <<awaiting, spent>>
                 \/ inHand /\ Finish /\ UNCHANGED <<awaiting, spent>>
                 \/ /\ ~budgetExpired /\ ~HasCalls(plan) /\ plan.items # <<>>
                    /\ StartQueue(awaitItems(plan)) /\ UNCHANGED spent
                 \/ /\ ~budgetExpired /\ ~HasCalls(plan) /\ plan.items = <<>> /\ ~plan.final
                    /\ Fail("planner") /\ UNCHANGED <<awaiting, spent>>
                 \/ /\ ~budgetExpired /\ HasCalls(plan) /\ cost > toolsLeft
                    /\ Finalize(unknown) /\ UNCHANGED <<awaiting, spent>>
                 \/ /\ ~budgetExpired /\ HasCalls(plan) /\ cost <= toolsLeft
                    /\ spent' = spent + (IF plan.bookkeeping THEN 0 ELSE plan.calls)
                    /\ Begin("tools") /\ UNCHANGED awaiting
    /\ UNCHANGED <<policy, turn, plan, outcomes, unknown, limits, now, budget, waited, signals, approvals>>

-----------------------------------------------------------------------------
(* The tools of a turn that need no approval. *)

BatchOutcomes(p) ==
    LET kinds == Results \ {IF p.bookkeeping THEN "ok" ELSE "noted"}
    IN  IF p.calls = 0 THEN {{}} ELSE {outs \in SUBSET kinds : Cardinality(outs) \in 1 .. p.calls}

\* What became of the terminal tool among the calls, if there is one.
TerminalOutcomes(isTerminal, outs) ==
    IF ~isTerminal THEN {"none"}
    ELSE (IF outs \cap Successes # {} THEN {"ok"} ELSE {}) \cup
         (IF outs \ Successes # {} THEN {"error"} ELSE {})

Unknown(outs) == unknown \/ "unknown" \in outs

\* handleToolTurnPostExecution
AfterBatch(outs, pausing) ==
    LET prompts == confirmationAwaits(plan) \o awaitItems(plan)
                   \o toolPauseAwaitItems(plan.confirmations + Len(plan.items) + 1, pausing)
    IN  /\ toolsLeft' = decrementCap(toolsLeft, budgetedToolCallCount(plan))
        /\ \/ /\ plan.items # <<>> /\ pausing
              /\ Fail("tools") /\ UNCHANGED <<recoveriesLeft, awaiting>>
           \/ /\ ~(plan.items # <<>> /\ pausing) /\ prompts # <<>>
              /\ StartQueue(prompts) /\ UNCHANGED recoveriesLeft
           \/ /\ prompts = <<>> /\ "unknown" \in outs
              /\ Finalize(TRUE) /\ UNCHANGED <<recoveriesLeft, awaiting>>
           \/ /\ prompts = <<>> /\ "unknown" \notin outs
              /\ ApplyFailurePolicy(outs, Unknown(outs), budget, outs = {"noted"})
              /\ UNCHANGED awaiting

\* executeAndAdvanceToolTurn.  At the end of the budget the calls that are still
\* running are given up.
ToolsDone ==
    /\ pc = "tools"
    /\ \E outs \in BatchOutcomes(plan), pausing \in BOOLEAN, timedOut \in BOOLEAN :
       \E terminal \in TerminalOutcomes(plan.terminal, outs) :
          LET succeeded == policy.completion /\ plan.completion /\ "ok" \in outs
              invalid == terminal = "error" \/ (pausing /\ (succeeded \/ terminal = "ok"))
          IN  /\ pausing => plan.calls > 0
              /\ timedOut => plan.calls > 0 /\ budgetExpired
              /\ outcomes' = outs /\ unknown' = Unknown(outs)
              /\ \/ invalid /\ Fail("tools") /\ UNCHANGED <<limits, awaiting>>
                 \/ /\ ~invalid /\ (succeeded \/ (terminal = "ok" /\ ~timedOut))
                    /\ Finish /\ UNCHANGED <<limits, awaiting>>
                 \/ /\ ~invalid /\ ~succeeded /\ timedOut
                    /\ Finalize(Unknown(outs)) /\ UNCHANGED <<limits, awaiting>>
                 \/ /\ ~invalid /\ ~succeeded /\ ~timedOut /\ terminal = "none"
                    /\ AfterBatch(outs, pausing)
    /\ UNCHANGED <<policy, turn, plan, now, budget, waited, signals, spent, approvals>>

-----------------------------------------------------------------------------
(* The await queue.  Every channel is read for the first prompt of the queue  *)
(* only.  An answer that names another prompt fails the run, and so does one  *)
(* that is not valid: it does not say who decided, or is not of its schema.   *)

Current == queue[1]
Received(kind) == channel[Channel(kind)][1]
\* The first answer of a channel is taken for the prompt that waits.
Receive(prompt) ==
    /\ channel' = [channel EXCEPT ![Channel(prompt.kind)] = Tail(@)]
    /\ sent' = sent \cup {prompt}
    /\ UNCHANGED <<pauses, resumes, requests, client, repeated>>

\* Mutant: the decision is applied to the call in front, whichever it names.
Fits_Any(entry, prompt) == TRUE
\* A decision without an await ID is for the prompt that waits.
Fits(entry, prompt) == entry.prompt \in {None, prompt}

\* Mutant: the deadline moves by the length of the wait only from the second tick on.
PausedBudget_SkipsFirst == budget + (IF now > since THEN now - since - 1 ELSE 0)
\* runDeadlines.pause: the time of a wait does not count.
PausedBudget == budget + (now - since)

\* What follows an item: the next one, or after the last one the failure policy and
\* one planner resume.
NextPrompt(rest, outs, nowUnknown, ends) ==
    IF rest # <<>>
    THEN Begin("await") /\ UNCHANGED recoveriesLeft
    ELSE ApplyFailurePolicy(outs, nowUnknown, ends, FALSE)

\* waitAwaitConfirmation: a denied call has a result at once, an approved one is
\* executed unless the budget is over.
TakeConfirmation ==
    LET entry == Received("confirmation") IN
    /\ pc = "await" /\ Current.kind = "confirmation" /\ channel["confirmation"] # <<>>
    /\ Receive(Current)
    /\ \/ Fail("answer") /\ UNCHANGED <<outcomes, awaiting, recoveriesLeft, budget, spent, blanks>>
       \/ /\ Fits(entry, Current) /\ ~entry.ok
          /\ budget' = PausedBudget
          /\ outcomes' = outcomes \cup {"ok"}
          /\ queue' = Tail(queue) /\ UNCHANGED <<head, consumed, spent, blanks>>
          /\ NextPrompt(Tail(queue), outcomes', unknown, budget')
       \/ /\ Fits(entry, Current) /\ entry.ok
          /\ budget' = PausedBudget
          /\ IF now >= budget' THEN Finalize(unknown) /\ UNCHANGED <<spent, blanks>>
             ELSE /\ Begin("gated") /\ spent' = spent + 1
                  /\ blanks' = blanks - (IF Current \in approved THEN 0 ELSE 1)
          /\ UNCHANGED <<outcomes, awaiting, recoveriesLeft>>
    /\ UNCHANGED <<policy, turn, plan, unknown, toolsLeft, now, waited, approved>>

\* The number of the prompt that the call in front may ask for.
GatedPause == plan.confirmations + Len(plan.items) + 1 + Current.n

\* executeConfirmedToolCall: the call may end the run, or ask for a clarification
\* that is waited for after the other prompts.
GatedDone ==
    /\ pc = "gated"
    /\ \E outcome \in Results \ {"noted"}, pausing \in BOOLEAN, timedOut \in BOOLEAN,
          isTerminal \in BOOLEAN :
       \E terminal \in TerminalOutcomes(isTerminal, {outcome}) :
          LET rest == Tail(queue) \o toolPauseAwaitItems(GatedPause, pausing) IN
          /\ timedOut => budgetExpired
          /\ outcomes' = outcomes \cup {outcome} /\ unknown' = Unknown({outcome})
          /\ \/ /\ terminal = "error" \/ (terminal = "ok" /\ pausing)
                /\ Fail("tools") /\ UNCHANGED <<awaiting, recoveriesLeft>>
             \/ /\ terminal = "ok" /\ ~pausing /\ ~timedOut
                /\ Finish /\ UNCHANGED <<awaiting, recoveriesLeft>>
             \/ /\ terminal # "error" /\ ~(terminal = "ok" /\ pausing) /\ timedOut
                /\ Finalize(unknown') /\ UNCHANGED <<awaiting, recoveriesLeft>>
             \/ /\ terminal = "none" /\ ~timedOut
                /\ queue' = rest /\ UNCHANGED <<head, consumed>>
                /\ NextPrompt(rest, outcomes', unknown', budget)
    /\ UNCHANGED <<policy, turn, plan, toolsLeft, now, budget, waited, signals, spent, approvals>>

\* waitAwaitClarification, waitAwaitTypedInput
TakeAnswer ==
    /\ pc = "await" /\ Current.kind \in {"clarification", "typed"}
    /\ channel[Current.kind] # <<>>
    /\ Receive(Current)
    /\ \/ Fail("answer") /\ UNCHANGED <<awaiting, recoveriesLeft, budget>>
       \/ /\ Fits(Received(Current.kind), Current)
          /\ budget' = PausedBudget
          /\ queue' = Tail(queue) /\ head' = ToolAwait(Tail(queue)) /\ UNCHANGED consumed
          /\ NextPrompt(Tail(queue), outcomes, unknown, budget')
    /\ UNCHANGED <<policy, turn, plan, outcomes, unknown, toolsLeft, now, waited, spent, approvals>>

\* Mutant: the await is not remembered.
Consumed_Forgotten == consumed
Consumed == consumed \cup {Current}

\* waitForProvidedToolResults: results of an await that was answered before are
\* dropped; the head is hidden before the results are recorded.
TakeResults ==
    LET answered == Received("results").prompt IN
    /\ pc = "await" /\ Current.kind = "results" /\ channel["results"] # <<>>
    /\ channel' = [channel EXCEPT !["results"] = Tail(@)]
    /\ UNCHANGED <<pauses, resumes, requests, client, sent, repeated>>
    /\ \/ /\ answered # Current /\ answered \in consumed
          /\ UNCHANGED <<pc, shown, why, since, awaiting>>
       \/ /\ answered # Current /\ answered \notin consumed
          /\ Fail("results") /\ UNCHANGED awaiting
       \/ /\ answered = Current
          /\ head' = None /\ consumed' = Consumed
          /\ Goto("recording") /\ UNCHANGED <<queue, since>>
    /\ UNCHANGED <<policy, turn, plan, outcomes, unknown, limits, now, budget, waited, spent, approvals>>

\* Mutant: the query keeps the empty answer it gave while results were recorded.
NextHead_StaysHidden(rest) == head
NextHead(rest) == ToolAwait(rest)

\* consumeProvidedToolResults and what the loop does with the results: a terminal
\* tool ends the run.
Recorded ==
    /\ pc = "recording"
    /\ \E outcome \in Results, isTerminal \in BOOLEAN :
       \E terminal \in TerminalOutcomes(isTerminal, {outcome}) :
          /\ outcomes' = outcomes \cup {outcome} /\ unknown' = Unknown({outcome})
          /\ budget' = PausedBudget
          /\ head' = NextHead(Tail(queue)) /\ queue' = Tail(queue) /\ UNCHANGED consumed
          /\ \/ terminal = "error" /\ Fail("tools") /\ UNCHANGED recoveriesLeft
             \/ terminal = "ok" /\ Finish /\ UNCHANGED recoveriesLeft
             \/ terminal = "none" /\ NextPrompt(Tail(queue), outcomes', unknown', budget')
    /\ UNCHANGED <<policy, turn, plan, toolsLeft, now, waited, signals, spent, approvals>>

\* awaitMissingFieldClarification
MissingPrompt == Prompt("missing", 0)

TakeMissing ==
    /\ pc = "missing" /\ channel["clarification"] # <<>>
    /\ Receive(MissingPrompt)
    /\ \/ Fail("answer") /\ UNCHANGED budget
       \/ /\ Fits(Received("missing"), MissingPrompt)
          /\ budget' = PausedBudget
          /\ Protect(outcomes, unknown) \/ ResumePlan(unknown, budget')
    /\ UNCHANGED <<policy, turn, plan, outcomes, unknown, awaiting, limits, now, waited, spent, approvals>>

-----------------------------------------------------------------------------
(* The planner, and the finalizer. *)

PlanDone ==
    /\ pc = "planning"
    /\ turn' = turn + 1
    /\ \E p \in Plans : (turn' >= MaxTurns => p.final /\ ~HasCalls(p)) /\ plan' = p
    /\ outcomes' = {}
    /\ Goto("turn")
    /\ UNCHANGED <<policy, unknown, awaiting, limits, times, signals, spent, approvals>>

\* runPlanActivityRecovering: output that cannot be accepted costs a recovery turn;
\* without one, or at the end of the budget, the run is finalized.
PlanRecovers ==
    /\ pc = "planning"
    /\ IF recoveriesLeft > 0
       THEN /\ recoveriesLeft' = recoveriesLeft - 1
            /\ IF budgetExpired THEN Finalize(unknown) ELSE Begin("planning")
       ELSE Finalize(unknown) /\ UNCHANGED recoveriesLeft
    /\ UNCHANGED <<policy, turn, plan, outcomes, unknown, awaiting, toolsLeft, now, budget, waited, signals,
                   spent, approvals>>

\* handleResumePlanError: an activity that fails at the end of the budget was
\* stopped by it.
PlanError ==
    /\ pc = "planning"
    /\ IF budgetExpired THEN Finalize(unknown) ELSE Fail("engine")
    /\ UNCHANGED <<policy, turn, plan, outcomes, unknown, awaiting, limits, now, budget, waited, signals,
                   spent, approvals>>

ActivityFails ==
    /\ pc \in {"tools", "gated", "recording", "finalizing", "closing"}
    /\ Fail("engine")
    /\ UNCHANGED <<policy, turn, plan, outcomes, unknown, awaiting, limits, now, budget, waited, signals,
                   spent, approvals>>

\* finalizeWithModelPlan: an answer, or calls of terminal tools.
FinalizePlanDone ==
    /\ pc = "finalizing"
    /\ \/ Finish
       \/ ~unknown /\ Begin("closing")
       \/ unknown /\ Fail("planner")
    /\ UNCHANGED <<policy, turn, plan, outcomes, unknown, awaiting, limits, now, budget, waited, signals,
                   spent, approvals>>

\* executeFinalizationToolCalls
ClosingDone ==
    /\ pc = "closing"
    /\ Finish \/ Fail("tools")
    /\ UNCHANGED <<policy, turn, plan, outcomes, unknown, awaiting, limits, now, budget, waited, signals,
                   spent, approvals>>

-----------------------------------------------------------------------------
(* Operators, clients and time. *)

Ended == pc \in {"done", "failed"}

workflow == <<policy, pc, turn, plan, outcomes, unknown, awaiting, limits, times, shown, why, spent>>

Pause ==
    /\ ~Ended /\ requests.pause + repeated < MaxSignals /\ requests' = [requests EXCEPT !.pause = @ + 1]
    /\ pauses' = pauses + 1
    /\ UNCHANGED <<workflow, approvals, resumes, channel, client, sent, repeated>>

\* An operator resumes what it asked to pause, before the run is paused or after.
ResumeRun ==
    /\ ~Ended /\ requests.resume < requests.pause /\ requests' = [requests EXCEPT !.resume = @ + 1]
    /\ resumes' = resumes + 1
    /\ UNCHANGED <<workflow, approvals, pauses, channel, client, sent, repeated>>

Published ==
    (IF pc \in {"await", "gated", "recording"} THEN ToSet(queue) ELSE {})
    \cup (IF pc = "missing" THEN {MissingPrompt} ELSE {})

\* ProvideConfirmation, ProvideClarification, ProvideTypedInput: in any order, and
\* without a name or with one.
Provide(p, named, ok) ==
    LET approval == p.kind = "confirmation" /\ ok
        entry == [prompt |-> IF named THEN p ELSE None, ok |-> ok]
    IN  /\ channel' = [channel EXCEPT ![Channel(p.kind)] = Append(@, entry)]
        /\ sent' = sent \cup {p}
        /\ approved' = IF approval /\ named THEN approved \cup {p} ELSE approved
        /\ blanks' = blanks + (IF approval /\ ~named THEN 1 ELSE 0)
        /\ UNCHANGED <<workflow, pauses, resumes, requests, client>>

\* A prompt that has no answer: none was given, or it was taken for another prompt.
Unanswered(p) ==
    \/ p \notin sent
    \/ channel[Channel(p.kind)] = <<>> /\ (pc = "missing" \/ (pc = "await" /\ p = Current))

Answer ==
    /\ ~Ended
    /\ \E p \in Published, named \in BOOLEAN, ok \in BOOLEAN :
          /\ p.kind # "results" /\ Unanswered(p) /\ (ok \/ p.kind = "confirmation")
          /\ Provide(p, named, ok)
    /\ UNCHANGED repeated

AnswerAgain ==
    /\ ~Ended /\ requests.pause + repeated < MaxSignals /\ repeated' = repeated + 1
    /\ \E p \in sent, named \in BOOLEAN, ok \in BOOLEAN :
          (ok \/ p.kind = "confirmation") /\ Provide(p, named, ok)

\* ProvideToolResults asks for the current await: none is shown while results are in
\* the channel, and its signal is a step of its own.
Preflight(c) ==
    /\ ~Ended /\ client[c] = None
    /\ head # None /\ channel["results"] = <<>>
    /\ client' = [client EXCEPT ![c] = head]
    /\ UNCHANGED <<workflow, approvals, pauses, resumes, requests, channel, sent, repeated>>

SignalResults(c) ==
    /\ ~Ended /\ client[c] # None
    /\ client' = [client EXCEPT ![c] = None]
    /\ channel' = [channel EXCEPT !["results"] = Append(@, [prompt |-> client[c], ok |-> TRUE])]
    /\ UNCHANGED <<workflow, approvals, pauses, resumes, requests, sent, repeated>>

Waiting == pc \in {"await", "recording", "missing"}

\* Activities and pauses are stopped at the end of the budget.
Tick ==
    /\ ~Ended
    /\ pc \in {"planning", "tools", "gated", "paused"} => ~budgetExpired
    /\ now < MaxTime \/ pc = "paused"
    /\ now' = now + 1
    /\ waited' = IF Waiting THEN waited + 1 ELSE waited
    /\ UNCHANGED <<policy, pc, turn, plan, outcomes, unknown, awaiting, limits, budget, since, shown,
                   signals, why, spent, approvals>>

Workflow ==
    \/ TakePause \/ Resume \/ ResumeTimeout \/ Turn \/ ToolsDone
    \/ TakeConfirmation \/ GatedDone \/ TakeAnswer \/ TakeResults \/ Recorded \/ TakeMissing
    \/ PlanDone \/ PlanRecovers \/ PlanError \/ ActivityFails \/ FinalizePlanDone \/ ClosingDone

Next ==
    \/ Workflow \/ Pause \/ ResumeRun \/ Answer \/ AnswerAgain \/ Tick
    \/ \E c \in Clients : Preflight(c) \/ SignalResults(c)

Spec == Init /\ [][Next]_vars

\* The engine runs the workflow and ends its activities, a prompt is answered
\* some time, and so is an advertised await, and time passes in a pause.
FairSpec ==
    /\ Spec
    /\ WF_vars(Workflow)
    /\ WF_vars(Answer)
    /\ WF_vars(pc = "paused" /\ Tick)
    /\ \A c \in Clients : WF_vars(Preflight(c)) /\ WF_vars(SignalResults(c))

-----------------------------------------------------------------------------

Prompts == [kind : Kinds \cup {"missing"}, turn : 0 .. MaxTurns, n : Nat]

\* The values of the variables; the run's caps are never negative.
TypeOK ==
    /\ policy \in Policies /\ plan.calls \in Nat
    /\ pc \in {"planning", "turn", "ready", "paused", "tools", "await", "gated", "recording", "missing",
               "finalizing", "closing", "done", "failed"}
    /\ turn \in 0 .. MaxTurns /\ outcomes \subseteq Outcomes /\ unknown \in BOOLEAN
    /\ ToSet(queue) \subseteq Prompts /\ (pc \in {"await", "gated", "recording"} => queue # <<>>)
    /\ head \in Prompts \cup {None} /\ consumed \subseteq Prompts
    /\ toolsLeft \in 0 .. MaxToolCalls /\ recoveriesLeft \in 0 .. MaxRecoveryTurns
    /\ shown \in {"running", "paused"}

\* The budgeted tool calls of a run, those that wait for an approval included, are
\* at most MaxToolCalls: a batch that is too large is refused as a whole
\* (toolCallBatchExceedsCaps), and what it may execute later is paid before
\* (handleToolTurnPostExecution).
ToolCapHolds == spent <= MaxToolCalls

\* After a call whose outcome is unknown the run is neither planned nor given tools
\* (calls of the same turn that the operator approves apart), and no terminal plan
\* is executed, through every queue and clarification in between.
UnknownIsFinal == unknown => pc \notin {"planning", "tools", "closing"}

\* A call that needs a confirmation is executed only on an approval that names it,
\* or on one that names no call; and one that names none lets at most one call be
\* executed, repeated ones counted as often as they are given.
GatedIsApproved == blanks >= 0

\* Results that passed the preflight never fail the run, whatever was submitted and
\* consumed between the query and the signal.
PreflightedIsAccepted == why # "results"

\* While the planner or the finalizer works, the run is not shown as paused.
PlannerSeesRunning == pc \in {"planning", "finalizing", "closing"} => shown = "running"

\* The grace that follows the budget is the finalizer's: no plan and no tool is
\* started in it, after an await and a late approval neither.
NoWorkInGrace == pc \in {"planning", "tools", "gated"} => since < budget

\* The time spent waiting for answers, recording them included, and no other moves
\* the end of the budget.
AwaitsAreFree == ~Waiting /\ ~Ended => budget = TimeBudget + waited

\* Every run ends: no queue of prompts is stuck once each prompt is answered, though
\* answers arrive in any order, twice, or for an await that has gone.
RunEnds == <>Ended
=============================================================================
