--------------------------- MODULE AgentRun_proofs ---------------------------
(***************************************************************************)
(* Proofs about AgentRun, for any plans, policies, results, clients, caps, *)
(* budgets and bounds.                                                     *)
(*                                                                         *)
(* What a turn or a queue of prompts decides about the run's future is     *)
(* first shown to be one of a few ends (Ends); deadlines, unknown outcomes *)
(* and the status are then shown of the ends, not of the policies that     *)
(* chose them (RunInv).  The caps rest on the order of the queued prompts  *)
(* (CapInv), approvals on the channel of confirmations (ApprovalInv), and  *)
(* the results that clients submit on the await they were shown (NameInv). *)
(***************************************************************************)
EXTENDS AgentRun, SequenceTheorems, FiniteSetTheorems, WellFoundedInduction, TLAPS

-----------------------------------------------------------------------------
(* How a step can end. *)

\* The run is over, or goes to the finalizer, or waits, or goes on: the latter only
\* before the deadline and while no outcome is unknown.
Ends(u, ends) ==
    /\ since' \in {since, now}
    /\ \/ pc' \in {"done", "failed"}
       \/ pc' = "finalizing" /\ shown' = "running"
       \/ pc' = "closing" /\ shown' = "running" /\ ~u
       \/ pc' \in {"missing", "await"} /\ since' = now
       \/ pc' = "planning" /\ shown' = "running" /\ ~u /\ now < ends /\ since' = now

\* The finalizer is an end, at any time.
LEMMA FinalizeEnds ==
    ASSUME NEW u, NEW ends, Finalize(u) PROVE Ends(u, ends)
BY DEF Finalize, Fail, Ends

\* The planner is resumed only before the deadline and without unknown outcomes.
LEMMA ResumeEnds ==
    ASSUME NEW u, NEW ends \in Int, now \in Int, ResumePlan(u, ends) PROVE Ends(u, ends)
<1>1. CASE now >= ends \/ u
  BY <1>1, FinalizeEnds DEF ResumePlan
<1>2. CASE ~(now >= ends \/ u)
  BY <1>2 DEF ResumePlan, Ends
<1>. QED
  BY <1>1, <1>2

\* Whatever the failure policy does is an end.
LEMMA PolicyEnds ==
    ASSUME NEW outs, NEW u, NEW ends \in Int, NEW finishes, now \in Int,
           ApplyFailurePolicy(outs, u, ends, finishes)
    PROVE  Ends(u, ends)
<1>1. CASE Finalize(u)
  BY <1>1, FinalizeEnds
<1>2. CASE pc' = "missing" /\ since' = now
  BY <1>2 DEF Ends
<1>3. CASE Finish \/ Fail("planner")
  BY <1>3 DEF Finish, Fail, Goto, Ends
<1>4. CASE ResumePlan(u, ends)
  BY <1>4, ResumeEnds
<1>. QED
  BY <1>1, <1>2, <1>3, <1>4 DEF ApplyFailurePolicy, Protect

\* After a prompt comes the next one, or the policy.
LEMMA NextPromptEnds ==
    ASSUME NEW rest, NEW outs, NEW u, NEW ends \in Int, now \in Int,
           NextPrompt(rest, outs, u, ends)
    PROVE  Ends(u, ends)
<1>1. CASE rest # <<>>
  BY <1>1 DEF NextPrompt, Begin, Goto, Ends
<1>2. CASE rest = <<>>
  BY <1>2, PolicyEnds DEF NextPrompt
<1>. QED
  BY <1>1, <1>2

\* A batch of tools ends in a queue of prompts or in the policy.
LEMMA BatchEnds ==
    ASSUME NEW outs, NEW pausing, budget \in Int, now \in Int, AfterBatch(outs, pausing)
    PROVE  Ends(Unknown(outs), budget)
<1>1. CASE Fail("tools")
  BY <1>1 DEF Fail, Ends
<1>2. CASE pc' = "await" /\ since' = now
  BY <1>2 DEF Ends
<1>3. CASE "unknown" \in outs /\ Finalize(TRUE)
  BY <1>3 DEF Unknown, Finalize, Fail, Ends
<1>4. CASE ApplyFailurePolicy(outs, Unknown(outs), budget, outs = {"noted"})
  BY <1>4, PolicyEnds
<1>. QED
  BY <1>1, <1>2, <1>3, <1>4 DEF AfterBatch, StartQueue

-----------------------------------------------------------------------------
(* The invariant. *)

TimeType == now \in Nat /\ budget \in Nat /\ since \in 0 .. now /\ waited \in Nat

\* While the run waits the deadline has still to be moved.
BudgetFollows ==
    /\ ~Waiting /\ ~Ended => budget = TimeBudget + waited
    /\ Waiting => budget + (now - since) = TimeBudget + waited

\* An unknown outcome is met only where the run waits or ends.
UnknownStops == unknown => pc \in {"await", "gated", "recording", "missing", "finalizing", "done", "failed"}

\* The run is shown as paused only where it waits.
ShownRunning == pc \in {"planning", "turn", "ready", "tools", "finalizing", "closing"} => shown = "running"

RunInv == TimeType /\ NoWorkInGrace /\ BudgetFollows /\ UnknownStops /\ ShownRunning

\* What every step between the waits keeps.
Keeps == UNCHANGED <<now, budget, waited>>

\* An end that leaves the deadline alone keeps the invariant, where the run does not wait.
LEMMA EndsKeep ==
    ASSUME RunInv, Keeps, ~Waiting, ~Ended, NEW u, Ends(u, budget), unknown' = u
    PROVE  RunInv'
<1>. USE DEF RunInv, TimeType, Keeps, Ends, Waiting, Ended
<1>1. TimeType' /\ NoWorkInGrace' 
  BY DEF NoWorkInGrace
<1>2. BudgetFollows'
  BY DEF BudgetFollows
<1>3. UnknownStops' /\ ShownRunning'
  BY DEF UnknownStops, ShownRunning
<1>. QED
  BY <1>1, <1>2, <1>3

\* An end after a wait moves the deadline by its length.
LEMMA WaitEndsKeep ==
    ASSUME RunInv, Waiting, budget' = PausedBudget, UNCHANGED <<now, waited>>,
           NEW u, Ends(u, budget'), unknown' = u
    PROVE  RunInv'
<1>. USE DEF RunInv, TimeType, Ends, Waiting, Ended, PausedBudget
<1>1. TimeType' /\ NoWorkInGrace'
  BY DEF NoWorkInGrace
<1>2. BudgetFollows'
  BY DEF BudgetFollows
<1>3. UnknownStops' /\ ShownRunning'
  BY DEF UnknownStops, ShownRunning
<1>. QED
  BY <1>1, <1>2, <1>3

\* The steps before a turn keep the invariant.
LEMMA PauseSteps ==
    ASSUME RunInv, TakePause \/ Resume \/ ResumeTimeout PROVE RunInv'
<1>. USE DEF RunInv, TimeType, Waiting, Ended, NoWorkInGrace, BudgetFollows, UnknownStops, ShownRunning,
             budgetExpired, times
<1>1. CASE TakePause
  BY <1>1 DEF TakePause
<1>2. CASE Resume
  BY <1>2 DEF Resume
<1>3. CASE ResumeTimeout
  BY <1>3 DEF ResumeTimeout
<1>. QED
  BY <1>1, <1>2, <1>3

\* A turn starts its tools only before the deadline.
LEMMA TurnStep == ASSUME RunInv, Turn PROVE RunInv'
<1>1. Keeps /\ unknown' = unknown /\ ~Waiting /\ ~Ended /\ ~unknown /\ shown = "running"
  BY DEF Turn, RunInv, UnknownStops, ShownRunning, Keeps, Waiting, Ended
<1>2. CASE Begin("tools") /\ ~budgetExpired
  BY <1>1, <1>2 DEF Begin, Goto, budgetExpired, Keeps, RunInv, TimeType, Waiting, Ended, NoWorkInGrace,
                    BudgetFollows, UnknownStops, ShownRunning
<1>3. CASE Ends(unknown, budget)
  BY <1>1, <1>3, EndsKeep
<1>4. (Begin("tools") /\ ~budgetExpired) \/ Ends(unknown, budget)
  <2>1. CASE Finalize(unknown)
    BY <2>1, FinalizeEnds
  <2>2. CASE Finish \/ Fail("completion") \/ Fail("planner")
    BY <2>2 DEF Finish, Fail, Goto, Ends
  <2>3. CASE StartQueue(awaitItems(plan))
    BY <2>3 DEF StartQueue, Ends
  <2>. QED
    BY <2>1, <2>2, <2>3 DEF Turn
<1>. QED
  BY <1>2, <1>3, <1>4

\* The end of a batch of tools.
LEMMA ToolsStep == ASSUME RunInv, ToolsDone PROVE RunInv'
<1>1. Keeps /\ ~Waiting /\ ~Ended /\ now \in Int /\ budget \in Int
  BY DEF ToolsDone, Keeps, Waiting, Ended, RunInv, TimeType
<1>2. PICK outs, pausing :
        /\ unknown' = Unknown(outs)
        /\ Fail("tools") \/ Finish \/ Finalize(Unknown(outs)) \/ AfterBatch(outs, pausing)
  BY DEF ToolsDone
<1>3. Ends(Unknown(outs), budget)
  <2>1. CASE Fail("tools") \/ Finish
    BY <2>1 DEF Finish, Fail, Goto, Ends
  <2>2. CASE Finalize(Unknown(outs))
    BY <2>2, FinalizeEnds
  <2>3. CASE AfterBatch(outs, pausing)
    BY <2>3, <1>1, BatchEnds
  <2>. QED
    BY <1>2, <2>1, <2>2, <2>3
<1>. QED
  BY <1>1, <1>2, <1>3, EndsKeep

\* A failed run needs nothing more.
LEMMA FailKeeps ==
    ASSUME RunInv, NEW reason, Fail(reason), UNCHANGED <<now, waited, unknown>>,
           budget' \in {budget, PausedBudget}
    PROVE  RunInv'
BY DEF Fail, RunInv, TimeType, PausedBudget, Waiting, Ended, NoWorkInGrace, BudgetFollows, UnknownStops,
       ShownRunning

\* A confirmation moves the deadline before the call it approves is executed.
LEMMA ConfirmationStep == ASSUME RunInv, TakeConfirmation PROVE RunInv'
<1>1. /\ Waiting /\ UNCHANGED <<now, waited, unknown>> /\ now \in Int
      /\ PausedBudget \in Int
  BY DEF TakeConfirmation, Waiting, RunInv, TimeType, PausedBudget
<1>2. CASE Fail("answer") /\ budget' = budget
  BY <1>1, <1>2, FailKeeps
<1>3. ASSUME NEW outs, budget' = PausedBudget, NextPrompt(Tail(queue), outs, unknown, budget') PROVE RunInv'
  BY <1>1, <1>3, NextPromptEnds, WaitEndsKeep
<1>4. CASE budget' = PausedBudget /\ Finalize(unknown)
  BY <1>1, <1>4, FinalizeEnds, WaitEndsKeep
<1>5. CASE budget' = PausedBudget /\ now < budget' /\ Begin("gated")
  BY <1>1, <1>5 DEF Begin, Goto, PausedBudget, RunInv, TimeType, Waiting, Ended, NoWorkInGrace, BudgetFollows,
                    UnknownStops, ShownRunning
<1>. QED
  BY <1>1, <1>2, <1>3, <1>4, <1>5 DEF TakeConfirmation

\* The end of a call that was approved.
LEMMA GatedStep == ASSUME RunInv, GatedDone PROVE RunInv'
<1>1. Keeps /\ ~Waiting /\ ~Ended /\ now \in Int /\ budget \in Int
  BY DEF GatedDone, Keeps, Waiting, Ended, RunInv, TimeType
<1>2. Ends(unknown', budget)
  <2>1. CASE Fail("tools") \/ Finish
    BY <2>1 DEF Finish, Fail, Goto, Ends
  <2>2. CASE Finalize(unknown')
    BY <2>2, FinalizeEnds
  <2>3. ASSUME NEW rest, NextPrompt(rest, outcomes', unknown', budget) PROVE Ends(unknown', budget)
    BY <2>3, <1>1, NextPromptEnds
  <2>. QED
    BY <2>1, <2>2, <2>3 DEF GatedDone
<1>. QED
  BY <1>1, <1>2, EndsKeep

\* Answers and results that are taken from their channels.
LEMMA AnswerSteps ==
    ASSUME RunInv, TakeAnswer \/ TakeResults \/ Recorded \/ TakeMissing PROVE RunInv'
<1>1. Waiting /\ UNCHANGED <<now, waited>> /\ now \in Int /\ PausedBudget \in Int
  BY DEF TakeAnswer, TakeResults, Recorded, TakeMissing, Waiting, RunInv, TimeType, PausedBudget
<1>2. CASE TakeAnswer
  <2>1. CASE Fail("answer") /\ budget' = budget
    BY <1>1, <1>2, <2>1, FailKeeps DEF TakeAnswer
  <2>2. CASE budget' = PausedBudget /\ NextPrompt(Tail(queue), outcomes, unknown, budget')
    BY <1>1, <1>2, <2>2, NextPromptEnds, WaitEndsKeep DEF TakeAnswer
  <2>. QED
    BY <1>2, <2>1, <2>2 DEF TakeAnswer
<1>3. CASE TakeResults
  <2>1. UNCHANGED <<budget, unknown>>
    BY <1>3 DEF TakeResults
  <2>2. CASE Fail("results")
    BY <1>1, <2>1, <2>2, FailKeeps
  <2>3. CASE pc' \in {pc, "recording"} /\ UNCHANGED since
    BY <1>1, <1>3, <2>1, <2>3 DEF TakeResults, RunInv, TimeType, Waiting, Ended, NoWorkInGrace, BudgetFollows,
                                  UnknownStops, ShownRunning
  <2>. QED
    BY <1>3, <2>2, <2>3 DEF TakeResults, Goto
<1>4. CASE Recorded
  <2>1. budget' = PausedBudget
    BY <1>4 DEF Recorded
  <2>2. Ends(unknown', budget')
    <3>1. CASE Fail("tools") \/ Finish
      BY <3>1 DEF Finish, Fail, Goto, Ends
    <3>2. CASE NextPrompt(Tail(queue), outcomes', unknown', budget')
      BY <3>2, <1>1, <2>1, NextPromptEnds
    <3>. QED
      BY <1>4, <3>1, <3>2 DEF Recorded
  <2>. QED
    BY <1>1, <2>1, <2>2, WaitEndsKeep
<1>5. CASE TakeMissing
  <2>0. unknown' = unknown
    BY <1>5 DEF TakeMissing
  <2>1. CASE Fail("answer") /\ budget' = budget
    BY <1>1, <2>0, <2>1, FailKeeps
  <2>2. CASE budget' = PausedBudget /\ Finalize(unknown)
    BY <1>1, <2>0, <2>2, FinalizeEnds, WaitEndsKeep
  <2>3. CASE budget' = PausedBudget /\ ResumePlan(unknown, budget')
    BY <1>1, <2>0, <2>3, ResumeEnds, WaitEndsKeep
  <2>. QED
    BY <1>5, <2>1, <2>2, <2>3 DEF TakeMissing, Protect
<1>. QED
  BY <1>2, <1>3, <1>4, <1>5

\* The planner's answers, and activities that fail.
LEMMA PlannerSteps ==
    ASSUME RunInv, PlanDone \/ PlanRecovers \/ PlanError \/ ActivityFails \/ FinalizePlanDone \/ ClosingDone
    PROVE  RunInv'
<1>1. CASE PlanDone
  BY <1>1 DEF PlanDone, Goto, times, RunInv, TimeType, Waiting, Ended, NoWorkInGrace, BudgetFollows,
              UnknownStops, ShownRunning
<1>2. CASE ActivityFails
  <2>1. Fail("engine") /\ UNCHANGED <<now, waited, unknown, budget>>
    BY <1>2 DEF ActivityFails
  <2>. QED
    BY <2>1, FailKeeps
<1>3. CASE PlanRecovers \/ PlanError \/ FinalizePlanDone \/ ClosingDone
  <2>1. Keeps /\ unknown' = unknown /\ ~Waiting /\ ~Ended /\ shown = "running"
    BY <1>3 DEF PlanRecovers, PlanError, FinalizePlanDone, ClosingDone, Keeps, Waiting, Ended, RunInv,
                ShownRunning
  <2>2. CASE Finalize(unknown)
    BY <2>1, <2>2, FinalizeEnds, EndsKeep
  <2>3. CASE Begin("planning") /\ ~budgetExpired /\ PlanRecovers
    BY <2>1, <2>3 DEF Begin, Goto, budgetExpired, PlanRecovers, Keeps, RunInv, TimeType, Waiting, Ended,
                      NoWorkInGrace, BudgetFollows, UnknownStops, ShownRunning
  <2>4. CASE Begin("closing") /\ ~unknown
    BY <2>1, <2>4 DEF Begin, Goto, Keeps, RunInv, TimeType, Waiting, Ended, NoWorkInGrace, BudgetFollows,
                      UnknownStops, ShownRunning
  <2>5. CASE Finish \/ Fail("engine") \/ Fail("planner") \/ Fail("tools")
    <3>1. Ends(unknown, budget)
      BY <2>5 DEF Finish, Fail, Goto, Ends
    <3>. QED
      BY <2>1, <3>1, EndsKeep
  <2>. QED
    BY <1>3, <2>2, <2>3, <2>4, <2>5 DEF PlanRecovers, PlanError, FinalizePlanDone, ClosingDone
<1>. QED
  BY <1>1, <1>2, <1>3

\* Operators and clients do not touch what the invariant is about; time does.
LEMMA OutsideSteps ==
    ASSUME RunInv, Pause \/ ResumeRun \/ Answer \/ AnswerAgain \/ Tick \/ UNCHANGED vars
                   \/ \E c \in Clients : Preflight(c) \/ SignalResults(c)
    PROVE  RunInv'
<1>. USE DEF RunInv, TimeType, Waiting, Ended, NoWorkInGrace, BudgetFollows, UnknownStops, ShownRunning, times
<1>0. TimeBudget \in Nat
  BY AgentAssumption DEF AgentAssumption
<1>1. CASE Tick
  BY <1>0, <1>1 DEF Tick
<1>2. CASE UNCHANGED <<pc, times, unknown, shown>>
  BY <1>2
<1>3. CASE UNCHANGED workflow
  BY <1>2, <1>3 DEF workflow
<1>4. CASE Pause \/ ResumeRun
  <2>1. UNCHANGED workflow
    BY <1>4, Zenon DEF Pause, ResumeRun
  <2>. QED
    BY <1>3, <2>1
<1>5. CASE Answer \/ AnswerAgain
  BY <1>3, <1>5 DEF Answer, AnswerAgain, Provide
<1>6. CASE \E c \in Clients : Preflight(c) \/ SignalResults(c)
  BY <1>3, <1>6 DEF Preflight, SignalResults
<1>7. CASE UNCHANGED vars
  BY <1>2, <1>7 DEF vars
<1>. QED
  BY <1>1, <1>4, <1>5, <1>6, <1>7

\* The invariant holds initially.
LEMMA RunInit == ASSUME Init PROVE RunInv
BY AgentAssumption DEF AgentAssumption, Init, RunInv, TimeType, Waiting, Ended, NoWorkInGrace, BudgetFollows,
                       UnknownStops, ShownRunning

\* Every step keeps it.
LEMMA RunStep == ASSUME RunInv, [Next]_vars PROVE RunInv'
BY PauseSteps, TurnStep, ToolsStep, ConfirmationStep, GatedStep, AnswerSteps, PlannerSteps, OutsideSteps
   DEF Next, Workflow

\* No plan and no tool is started once the budget is over, through any number of
\* awaits, approvals and recoveries (the grace of runDeadlines is the finalizer's).
THEOREM GraceIsForTheFinalizer == Spec => []NoWorkInGrace
<1>1. RunInv => NoWorkInGrace
  BY DEF RunInv
<1>. QED
  BY <1>1, RunInit, RunStep, PTL DEF Spec

\* Waits for answers move the deadline by exactly their length (runDeadlines.pause),
\* and nothing else moves it.
THEOREM WaitsCostNothing == Spec => []AwaitsAreFree
<1>1. RunInv => AwaitsAreFree
  BY DEF RunInv, BudgetFollows, AwaitsAreFree
<1>. QED
  BY <1>1, RunInit, RunStep, PTL DEF Spec

\* After an unknown outcome the run is neither planned nor given tools, and no
\* terminal plan is executed, whichever policy or prompt came in between.
THEOREM UnknownEndsWork == Spec => []UnknownIsFinal
<1>1. RunInv => UnknownIsFinal
  BY DEF RunInv, UnknownStops, UnknownIsFinal
<1>. QED
  BY <1>1, RunInit, RunStep, PTL DEF Spec

\* The planner and the finalizer never work for a run that is shown as paused.
THEOREM WorkIsShown == Spec => []PlannerSeesRunning
<1>1. RunInv => PlannerSeesRunning
  BY DEF RunInv, ShownRunning, PlannerSeesRunning
<1>. QED
  BY <1>1, RunInit, RunStep, PTL DEF Spec

-----------------------------------------------------------------------------
(* The queue of prompts: confirmations come first, in the order of their   *)
(* calls, so the first prompt tells how many calls may still be executed.  *)

AnyPrompt == [kind : Kinds \cup {"missing"}, turn : Nat, n : Nat]
AnyPlan == [calls : Nat, bookkeeping : BOOLEAN, terminal : BOOLEAN, completion : BOOLEAN,
            confirmations : Nat, items : Seq(Kinds \ {"confirmation"}), final : BOOLEAN]
Gate(p) == p.kind = "confirmation"

Ordered(q, p) ==
    \A i \in 1 .. Len(q) : Gate(q[i]) =>
        /\ q[i].n \in 1 .. p.confirmations
        /\ i > 1 => Gate(q[i - 1]) /\ q[i].n = q[i - 1].n + 1

Pending(q, p) == IF q # <<>> /\ Gate(q[1]) THEN p.confirmations - q[1].n + 1 ELSE 0

\* A function on 1 .. n is a sequence of length n.
LEMMA FunctionIsSeq ==
    ASSUME NEW S, NEW n \in Nat, NEW f \in [1 .. n -> S]
    PROVE  f \in Seq(S) /\ Len(f) = n
<1>1. f \in Seq(S)
  BY SeqDef
<1>2. 1 .. Len(f) = 1 .. n /\ Len(f) \in Nat
  BY <1>1, LenProperties
<1>. QED
  BY <1>1, <1>2

\* A prompt is a prompt.
LEMMA PromptType ==
    ASSUME turn \in Nat, NEW k \in Kinds \cup {"missing"}, NEW n \in Nat
    PROVE  Prompt(k, n) \in AnyPrompt /\ Prompt(k, n).kind = k /\ Prompt(k, n).n = n
BY DEF Prompt, AnyPrompt

\* The confirmations of a plan are numbered from one.
LEMMA ConfirmationsType ==
    ASSUME turn \in Nat, plan.confirmations \in Nat
    PROVE  LET c == confirmationAwaits(plan)
           IN  /\ c \in Seq(AnyPrompt) /\ Len(c) = plan.confirmations
               /\ \A i \in 1 .. Len(c) : Gate(c[i]) /\ c[i].n = i
<1> DEFINE c == confirmationAwaits(plan)
<1>1. \A i \in 1 .. plan.confirmations :
         Prompt("confirmation", i) \in AnyPrompt /\ Gate(Prompt("confirmation", i))
         /\ Prompt("confirmation", i).n = i
  BY PromptType DEF Kinds, Gate
<1>2. c \in [1 .. plan.confirmations -> AnyPrompt]
      /\ \A i \in 1 .. plan.confirmations : c[i] = Prompt("confirmation", i)
  BY <1>1 DEF confirmationAwaits
<1>. HIDE DEF c
<1>3. c \in Seq(AnyPrompt) /\ Len(c) = plan.confirmations
  BY <1>2, FunctionIsSeq
<1>. QED
  BY <1>1, <1>2, <1>3 DEF c

\* The planner's prompts are not confirmations.
LEMMA ItemsType ==
    ASSUME turn \in Nat, plan.confirmations \in Nat, plan.items \in Seq(Kinds \ {"confirmation"})
    PROVE  LET a == awaitItems(plan)
           IN  a \in Seq(AnyPrompt) /\ \A i \in 1 .. Len(a) : ~Gate(a[i])
<1> DEFINE a == awaitItems(plan)
           N == Len(plan.items)
<1>1. N \in Nat /\ \A i \in 1 .. N : plan.items[i] \in Kinds \ {"confirmation"}
  BY LenProperties
<1>. HIDE DEF N
<1>2. \A i \in 1 .. N : Prompt(plan.items[i], plan.confirmations + i) \in AnyPrompt
                        /\ ~Gate(Prompt(plan.items[i], plan.confirmations + i))
  <2>. TAKE i \in 1 .. N
  <2>1. plan.confirmations + i \in Nat /\ plan.items[i] \in Kinds \ {"confirmation"}
    BY <1>1
  <2>. QED
    BY <2>1, PromptType DEF Gate
<1>3. a \in [1 .. N -> AnyPrompt]
      /\ \A i \in 1 .. N : a[i] = Prompt(plan.items[i], plan.confirmations + i)
  BY <1>2 DEF awaitItems, N
<1>. HIDE DEF a
<1>4. a \in Seq(AnyPrompt) /\ Len(a) = N
  BY <1>1, <1>3, FunctionIsSeq
<1>. QED
  BY <1>2, <1>3, <1>4 DEF a

\* Nor is the clarification that a call asks for, and no results answer it.
LEMMA ClarificationType ==
    ASSUME turn \in Nat, NEW m \in Nat, NEW pausing \in BOOLEAN
    PROVE  LET t == toolPauseAwaitItems(m, pausing)
           IN  /\ t \in Seq(AnyPrompt)
               /\ \A i \in 1 .. Len(t) : ~Gate(t[i]) /\ t[i].kind # "results"
<1> DEFINE P == Prompt("clarification", m)
<1>1. P \in AnyPrompt /\ ~Gate(P) /\ P.kind # "results"
  BY PromptType DEF Kinds, Gate
<1>. HIDE DEF P
<1>2. <<P>> \in Seq(AnyPrompt) /\ Len(<<P>>) = 1 /\ <<P>>[1] = P
  BY <1>1
<1>3. <<>> \in Seq(AnyPrompt) /\ Len(<<>>) = 0
  OBVIOUS
<1>4. CASE pausing
  BY <1>4, <1>1, <1>2 DEF toolPauseAwaitItems, P
<1>5. CASE ~pausing
  BY <1>5, <1>3 DEF toolPauseAwaitItems
<1>. QED
  BY <1>4, <1>5

\* Prompts without confirmations may follow any queue in order.
LEMMA OrderedConcat ==
    ASSUME plan.confirmations \in Nat, NEW q \in Seq(AnyPrompt), NEW t \in Seq(AnyPrompt),
           Ordered(q, plan), \A i \in 1 .. Len(t) : ~Gate(t[i])
    PROVE  /\ q \o t \in Seq(AnyPrompt) /\ Ordered(q \o t, plan)
           /\ Pending(q \o t, plan) = Pending(q, plan)
<1> DEFINE r == q \o t
<1>1. /\ r \in Seq(AnyPrompt) /\ Len(r) = Len(q) + Len(t) /\ Len(q) \in Nat /\ Len(t) \in Nat
      /\ \A i \in 1 .. Len(q) + Len(t) : r[i] = IF i <= Len(q) THEN q[i] ELSE t[i - Len(q)]
  BY ConcatProperties, LenProperties
<1>. HIDE DEF r
<1>2. \A i \in 1 .. Len(r) : Gate(r[i]) => i <= Len(q)
  <2>. SUFFICES ASSUME NEW i \in 1 .. Len(r), Gate(r[i]), ~(i <= Len(q)) PROVE FALSE
    OBVIOUS
  <2>1. i - Len(q) \in 1 .. Len(t) /\ r[i] = t[i - Len(q)]
    BY <1>1
  <2>. QED
    BY <2>1
<1>3. Ordered(r, plan)
  <2>. SUFFICES ASSUME NEW i \in 1 .. Len(r), Gate(r[i])
                PROVE  /\ r[i].n \in 1 .. plan.confirmations
                       /\ i > 1 => Gate(r[i - 1]) /\ r[i].n = r[i - 1].n + 1
    BY DEF Ordered
  <2>1. i \in 1 .. Len(q) /\ r[i] = q[i]
    BY <1>1, <1>2
  <2>2. ASSUME i > 1 PROVE r[i - 1] = q[i - 1]
    <3>1. i - 1 \in 1 .. Len(q) + Len(t) /\ i - 1 <= Len(q)
      BY <1>1, <2>1, <2>2
    <3>. QED
      BY <1>1, <3>1
  <2>. QED
    BY <2>1, <2>2 DEF Ordered
<1>4. Pending(r, plan) = Pending(q, plan)
  <2>1. CASE q = <<>>
    <3>1. r # <<>> => ~Gate(r[1])
      BY <1>1, <1>2, <2>1
    <3>. QED
      BY <2>1, <3>1 DEF Pending
  <2>2. CASE q # <<>>
    <3>1. Len(q) > 0 /\ r # <<>> /\ r[1] = q[1]
      BY <2>2, <1>1
    <3>. QED
      BY <2>2, <3>1 DEF Pending
  <2>. QED
    BY <2>1, <2>2
<1>. QED
  BY <1>1, <1>3, <1>4 DEF r

\* A queue of confirmations alone is in order.
LEMMA ConfirmationsOrdered ==
    ASSUME plan.confirmations \in Nat, NEW c \in Seq(AnyPrompt), Len(c) = plan.confirmations,
           \A i \in 1 .. Len(c) : Gate(c[i]) /\ c[i].n = i
    PROVE  Ordered(c, plan) /\ Pending(c, plan) = plan.confirmations
<1>1. Ordered(c, plan)
  <2>. SUFFICES ASSUME NEW i \in 1 .. Len(c)
                PROVE  /\ c[i].n \in 1 .. plan.confirmations
                       /\ i > 1 => Gate(c[i - 1]) /\ c[i].n = c[i - 1].n + 1
    BY DEF Ordered
  <2>1. i > 1 => i - 1 \in 1 .. Len(c)
    OBVIOUS
  <2>. QED
    BY <2>1
<1>2. Pending(c, plan) = plan.confirmations
  <2>1. CASE c = <<>>
    BY <2>1 DEF Pending
  <2>2. CASE c # <<>>
    <3>1. 1 \in 1 .. Len(c)
      BY <2>2
    <3>2. Gate(c[1]) /\ c[1].n = 1
      BY <3>1
    <3>. QED
      BY <2>2, <3>2 DEF Pending
  <2>. QED
    BY <2>1, <2>2
<1>. QED
  BY <1>1, <1>2

\* What a turn asks for is in order, with all the confirmations of its plan.
LEMMA PlannedQueue ==
    ASSUME plan \in AnyPlan, turn \in Nat, NEW m \in Nat, NEW pausing \in BOOLEAN
    PROVE  LET q == confirmationAwaits(plan) \o awaitItems(plan) \o toolPauseAwaitItems(m, pausing)
           IN  /\ q \in Seq(AnyPrompt) /\ Ordered(q, plan)
               /\ Pending(q, plan) = plan.confirmations
<1> DEFINE c == confirmationAwaits(plan)
           a == awaitItems(plan)
           t == toolPauseAwaitItems(m, pausing)
<1>1. plan.confirmations \in Nat /\ plan.items \in Seq(Kinds \ {"confirmation"})
  BY DEF AnyPlan
<1>2. /\ c \in Seq(AnyPrompt) /\ Len(c) = plan.confirmations
      /\ \A i \in 1 .. Len(c) : Gate(c[i]) /\ c[i].n = i
  BY <1>1, ConfirmationsType
<1>3. a \in Seq(AnyPrompt) /\ \A i \in 1 .. Len(a) : ~Gate(a[i])
  BY <1>1, ItemsType
<1>4. t \in Seq(AnyPrompt) /\ \A i \in 1 .. Len(t) : ~Gate(t[i])
  BY ClarificationType
<1>. HIDE DEF c, a, t
<1>5. Ordered(c, plan) /\ Pending(c, plan) = plan.confirmations
  BY <1>1, <1>2, ConfirmationsOrdered
<1> DEFINE ca == c \o a
<1>6. ca \in Seq(AnyPrompt) /\ Ordered(ca, plan) /\ Pending(ca, plan) = plan.confirmations
  BY <1>1, <1>2, <1>3, <1>5, OrderedConcat
<1>. HIDE DEF ca
<1>7. ca \o t \in Seq(AnyPrompt) /\ Ordered(ca \o t, plan) /\ Pending(ca \o t, plan) = plan.confirmations
  BY <1>1, <1>4, <1>6, OrderedConcat
<1>. QED
  BY <1>7 DEF ca, c, a, t

\* Taking the first prompt keeps the order, and an approval pays for its call.
LEMMA RestOfQueue ==
    ASSUME plan.confirmations \in Nat, NEW q \in Seq(AnyPrompt), q # <<>>, Ordered(q, plan)
    PROVE  /\ Tail(q) \in Seq(AnyPrompt) /\ Ordered(Tail(q), plan)
           /\ Pending(Tail(q), plan) \in Nat /\ Pending(q, plan) \in Nat
           /\ IF Gate(q[1]) THEN Pending(Tail(q), plan) <= Pending(q, plan) - 1
                            ELSE Pending(Tail(q), plan) = 0
<1> DEFINE r == Tail(q)
<1>1. r \in Seq(AnyPrompt) /\ Len(r) = Len(q) - 1 /\ Len(q) \in Nat /\ Len(q) > 0
      /\ \A i \in 1 .. Len(r) : r[i] = q[i + 1]
  OBVIOUS
<1>. HIDE DEF r
<1>3. Ordered(r, plan)
  <2>. SUFFICES ASSUME NEW i \in 1 .. Len(r), Gate(r[i])
                PROVE  /\ r[i].n \in 1 .. plan.confirmations
                       /\ i > 1 => Gate(r[i - 1]) /\ r[i].n = r[i - 1].n + 1
    BY DEF Ordered
  <2>1. i + 1 \in 1 .. Len(q) /\ r[i] = q[i + 1] /\ i + 1 > 1 /\ (i + 1) - 1 = i
    BY <1>1
  <2>2. /\ q[i + 1].n \in 1 .. plan.confirmations
        /\ Gate(q[i]) /\ q[i + 1].n = q[i].n + 1
    BY <2>1 DEF Ordered
  <2>3. i > 1 => r[i - 1] = q[i]
    BY <1>1
  <2>. QED
    BY <2>1, <2>2, <2>3
<1>4. Pending(r, plan) \in Nat /\ Pending(q, plan) \in Nat
  <2>1. \A s \in Seq(AnyPrompt) : Ordered(s, plan) => Pending(s, plan) \in Nat
    <3>. SUFFICES ASSUME NEW s \in Seq(AnyPrompt), Ordered(s, plan), s # <<>>, Gate(s[1])
                  PROVE  plan.confirmations - s[1].n + 1 \in Nat
      BY DEF Pending
    <3>1. 1 \in 1 .. Len(s)
      OBVIOUS
    <3>2. s[1].n \in 1 .. plan.confirmations
      BY <3>1 DEF Ordered
    <3>. QED
      BY <3>2
  <2>. QED
    BY <2>1, <1>1, <1>3
<1>5. IF Gate(q[1]) THEN Pending(r, plan) <= Pending(q, plan) - 1 ELSE Pending(r, plan) = 0
  <2>0. 1 \in 1 .. Len(q)
    BY <1>1
  <2>1. Gate(q[1]) => q[1].n \in 1 .. plan.confirmations
    BY <2>0 DEF Ordered
  <2>2. CASE ~(r # <<>> /\ Gate(r[1]))
    BY <2>2, <2>1, <1>1 DEF Pending
  <2>3. CASE r # <<>> /\ Gate(r[1])
    <3>1. r[1] = q[2] /\ 2 \in 1 .. Len(q) /\ 2 > 1 /\ 2 - 1 = 1
      BY <2>3, <1>1
    <3>2. Gate(q[1]) /\ q[2].n = q[1].n + 1
      BY <2>3, <3>1 DEF Ordered
    <3>. QED
      BY <2>1, <2>3, <3>1, <3>2, <1>1 DEF Pending
  <2>. QED
    BY <2>2, <2>3
<1>. QED
  BY <1>1, <1>3, <1>4, <1>5 DEF r

-----------------------------------------------------------------------------
(* What was paid for, and what is still to be executed for it. *)

InQueue == {"await", "gated", "recording"}
AtRest == {"planning", "turn", "ready", "paused", "missing"}
Over == {"finalizing", "closing", "done", "failed"}
Direct(p) == IF p.bookkeeping THEN 0 ELSE p.calls

PromptInv ==
    /\ plan \in AnyPlan /\ turn \in Nat /\ queue \in Seq(AnyPrompt)
    /\ pc \in InQueue => queue # <<>> /\ Ordered(queue, plan)
    /\ pc = "gated" => Gate(queue[1])
    /\ pc = "recording" => ~Gate(queue[1])

\* Calls are paid for when their batch has ended; those that wait for an approval
\* are then still to be executed.
PaidInv ==
    /\ pc \in AtRest \cup InQueue \cup Over \cup {"tools"}
    /\ toolsLeft \in Nat /\ spent \in Nat /\ spent <= MaxToolCalls
    /\ pc \in AtRest => spent + toolsLeft <= MaxToolCalls
    /\ pc = "tools" => /\ Direct(plan) + plan.confirmations <= toolsLeft
                       /\ spent + toolsLeft - Direct(plan) <= MaxToolCalls
    /\ pc \in {"await", "recording"} => spent + toolsLeft + Pending(queue, plan) <= MaxToolCalls
    /\ pc = "gated" => spent + toolsLeft + Pending(queue, plan) - 1 <= MaxToolCalls

CapInv == PromptInv /\ PaidInv

\* The caps and the plan's numbers are numbers.
LEMMA Numbers ==
    ASSUME plan \in AnyPlan
    PROVE  /\ MaxToolCalls \in Nat /\ plan.confirmations \in Nat /\ plan.calls \in Nat
           /\ plan.items \in Seq(Kinds \ {"confirmation"}) /\ Len(plan.items) \in Nat
           /\ Direct(plan) \in Nat /\ plan.bookkeeping \in BOOLEAN
<1>1. /\ plan.confirmations \in Nat /\ plan.calls \in Nat /\ plan.bookkeeping \in BOOLEAN
      /\ plan.items \in Seq(Kinds \ {"confirmation"})
  BY DEF AnyPlan
<1>. QED
  BY <1>1, AgentAssumption, LenProperties DEF Direct

\* What a step that leaves the queue leads to.
LEMMA PlacesOfEnds ==
    ASSUME NEW u, NEW ends, NEW outs, NEW finishes
    PROVE  /\ Finalize(u) => pc' \in Over
           /\ ResumePlan(u, ends) => pc' \in Over \cup {"planning"}
           /\ ApplyFailurePolicy(outs, u, ends, finishes) => pc' \in Over \cup {"planning", "missing"}
<1>1. Finalize(u) => pc' \in Over
  BY DEF Finalize, Fail, Over
<1>2. ResumePlan(u, ends) => pc' \in Over \cup {"planning"}
  BY <1>1 DEF ResumePlan
<1>. QED
  BY <1>1, <1>2 DEF ApplyFailurePolicy, Protect, Finish, Fail, Goto, Over

\* A step out of the queue keeps what was paid for.
LEMMA RestKeepsCap ==
    ASSUME CapInv, pc' \in Over \cup AtRest, UNCHANGED <<plan, turn, spent>>,
           queue' \in Seq(AnyPrompt), toolsLeft' \in Nat,
           pc' \in AtRest => spent + toolsLeft' <= MaxToolCalls
    PROVE  CapInv'
<1>1. pc' \notin InQueue /\ pc' # "gated" /\ pc' # "recording" /\ pc' # "await" /\ pc' # "tools"
  BY DEF Over, AtRest, InQueue
<1>2. PromptInv'
  BY <1>1 DEF CapInv, PromptInv
<1>3. PaidInv'
  BY <1>1 DEF CapInv, PaidInv
<1>. QED
  BY <1>2, <1>3 DEF CapInv

\* A step to the next prompt keeps it too.
LEMMA QueueKeepsCap ==
    ASSUME CapInv, pc' = "await", UNCHANGED <<plan, turn, spent>>,
           queue' \in Seq(AnyPrompt), queue' # <<>>, Ordered(queue', plan), toolsLeft' \in Nat,
           spent + toolsLeft' + Pending(queue', plan) <= MaxToolCalls
    PROVE  CapInv'
<1>1. PromptInv'
  BY DEF CapInv, PromptInv, InQueue
<1>2. PaidInv'
  BY DEF CapInv, PaidInv, InQueue, AtRest
<1>. QED
  BY <1>1, <1>2 DEF CapInv

\* An empty queue or the next prompt, after one was taken.
LEMMA NextPromptKeepsCap ==
    ASSUME CapInv, UNCHANGED <<plan, turn, spent, toolsLeft>>,
           NEW outs, NEW u, NEW ends, NextPrompt(queue', outs, u, ends),
           queue' \in Seq(AnyPrompt), Ordered(queue', plan), Pending(queue', plan) \in Nat,
           spent + toolsLeft + Pending(queue', plan) <= MaxToolCalls
    PROVE  CapInv'
<1>0. spent \in Nat /\ toolsLeft \in Nat /\ MaxToolCalls \in Nat
  BY Numbers DEF CapInv, PaidInv, PromptInv
<1>1. CASE queue' # <<>>
  <2>1. pc' = "await"
    BY <1>1 DEF NextPrompt, Begin, Goto
  <2>. QED
    BY <1>0, <1>1, <2>1, QueueKeepsCap
<1>2. CASE queue' = <<>>
  <2>1. pc' \in Over \cup AtRest
    BY <1>2, PlacesOfEnds DEF NextPrompt, AtRest
  <2>. QED
    BY <1>0, <2>1, RestKeepsCap
<1>. QED
  BY <1>1, <1>2

\* Operators, clients and time keep the invariant.
LEMMA OutsideKeepsCap ==
    ASSUME CapInv, UNCHANGED <<pc, plan, turn, queue, toolsLeft, spent>> PROVE CapInv'
BY DEF CapInv, PromptInv, PaidInv

\* The guard of a turn keeps its batch within the cap.
LEMMA TurnKeepsCap == ASSUME CapInv, Turn PROVE CapInv'
<1>0. /\ plan \in AnyPlan /\ turn \in Nat /\ queue \in Seq(AnyPrompt) /\ spent \in Nat /\ toolsLeft \in Nat
      /\ spent + toolsLeft <= MaxToolCalls
  BY DEF CapInv, PromptInv, PaidInv, Turn, AtRest
<1>1. UNCHANGED <<plan, turn, toolsLeft>>
  BY DEF Turn, limits
<1>2. CASE pc' \in Over /\ UNCHANGED <<queue, spent>>
  BY <1>0, <1>1, <1>2, RestKeepsCap DEF AtRest, Over
<1>3. CASE ~HasCalls(plan) /\ plan.items # <<>> /\ StartQueue(awaitItems(plan)) /\ UNCHANGED spent
  <2>1. plan.confirmations = 0
    BY <1>0, <1>3, Numbers DEF HasCalls
  <2> DEFINE a == awaitItems(plan)
  <2>2. a \in Seq(AnyPrompt) /\ (\A i \in 1 .. Len(a) : ~Gate(a[i]))
    BY <1>0, Numbers, ItemsType
  <2>3. a # <<>>
    <3>1. 1 \in 1 .. Len(plan.items)
      BY <1>0, <1>3, Numbers
    <3>2. DOMAIN a = 1 .. Len(plan.items)
      BY DEF awaitItems
    <3>. QED
      BY <3>1, <3>2
  <2>4. queue' = a /\ pc' = "await"
    BY <1>3 DEF StartQueue
  <2>. HIDE DEF a
  <2>5. Ordered(a, plan) /\ Pending(a, plan) = 0
    <3>1. 1 \in 1 .. Len(a)
      BY <2>2, <2>3
    <3>. QED
      BY <2>2, <3>1 DEF Ordered, Pending
  <2>. QED
    BY <1>0, <1>1, <1>3, <2>2, <2>3, <2>4, <2>5, QueueKeepsCap
<1>4. CASE /\ budgetedToolCallCount(plan) <= toolsLeft
           /\ spent' = spent + Direct(plan) /\ pc' = "tools" /\ queue' = queue
  <2>1. Direct(plan) + plan.confirmations <= toolsLeft
    BY <1>4 DEF budgetedToolCallCount, Direct
  <2>2. /\ Direct(plan) \in Nat /\ plan.confirmations \in Nat /\ MaxToolCalls \in Nat
    BY <1>0, Numbers
  <2>3. PromptInv'
    BY <1>0, <1>1, <1>4 DEF PromptInv, InQueue
  <2>4. PaidInv'
    <3>1. spent' \in Nat /\ spent' <= MaxToolCalls /\ spent' + toolsLeft - Direct(plan) <= MaxToolCalls
      BY <1>0, <1>4, <2>1, <2>2
    <3>. QED
      BY <1>0, <1>1, <1>4, <2>1, <3>1 DEF PaidInv, AtRest
  <2>. QED
    BY <2>3, <2>4 DEF CapInv
<1>5. QED
  BY <1>2, <1>3, <1>4, PlacesOfEnds DEF Turn, Fail, Finish, Begin, Goto, Over, awaiting, Direct

\* Paying for a batch leaves as much as its gated calls may still spend.
LEMMA Payment ==
    ASSUME NEW s \in Nat, NEW left \in Nat, NEW direct \in Nat, NEW gated \in Nat, NEW cap \in Nat,
           direct + gated <= left, s + left - direct <= cap
    PROVE  LET r == decrementCap(left, direct + gated)
           IN  r \in Nat /\ s + r <= cap /\ s + r + gated <= cap
BY DEF decrementCap

\* A batch is paid for with the calls that its prompts may still release.
LEMMA ToolsKeepCap == ASSUME CapInv, ToolsDone PROVE CapInv'
<1>0. /\ plan \in AnyPlan /\ turn \in Nat /\ queue \in Seq(AnyPrompt) /\ spent \in Nat /\ toolsLeft \in Nat
      /\ Direct(plan) + plan.confirmations <= toolsLeft
      /\ spent + toolsLeft - Direct(plan) <= MaxToolCalls
  BY DEF CapInv, PromptInv, PaidInv, ToolsDone
<1>1. UNCHANGED <<plan, turn, spent>>
  BY DEF ToolsDone
<1>2. /\ Direct(plan) \in Nat /\ plan.confirmations \in Nat /\ MaxToolCalls \in Nat /\ Len(plan.items) \in Nat
  BY <1>0, Numbers
<1>3. CASE pc' \in Over /\ UNCHANGED <<queue, limits>>
  BY <1>0, <1>1, <1>3, RestKeepsCap DEF AtRest, Over, limits
<1>4. ASSUME NEW outs, NEW pausing \in BOOLEAN, AfterBatch(outs, pausing) PROVE CapInv'
  <2>1. /\ toolsLeft' \in Nat /\ spent + toolsLeft' <= MaxToolCalls
        /\ spent + toolsLeft' + plan.confirmations <= MaxToolCalls
    <3>1. toolsLeft' = decrementCap(toolsLeft, Direct(plan) + plan.confirmations)
      BY <1>4 DEF AfterBatch, budgetedToolCallCount, Direct
    <3>. QED
      BY <1>0, <1>2, <3>1, Payment
  <2>2. CASE pc' \in Over \cup AtRest /\ queue' = queue
    BY <1>0, <1>1, <2>1, <2>2, RestKeepsCap
  <2> DEFINE m == plan.confirmations + Len(plan.items) + 1
             q == confirmationAwaits(plan) \o awaitItems(plan) \o toolPauseAwaitItems(m, pausing)
  <2>3. CASE q # <<>> /\ StartQueue(q)
    <3>1. m \in Nat
      BY <1>2
    <3>. HIDE DEF m
    <3>2. q \in Seq(AnyPrompt) /\ Ordered(q, plan) /\ Pending(q, plan) = plan.confirmations
      BY <1>0, <3>1, PlannedQueue
    <3>3. queue' = q /\ pc' = "await"
      BY <2>3 DEF StartQueue
    <3>. HIDE DEF q
    <3>. QED
      BY <1>1, <2>1, <2>3, <3>2, <3>3, QueueKeepsCap
  <2>. QED
    BY <1>4, <2>2, <2>3, PlacesOfEnds DEF AfterBatch, Fail, awaiting, Over, AtRest
<1>. QED
  BY <1>3, <1>4, PlacesOfEnds DEF ToolsDone, Fail, Finish, Goto, awaiting, Over

\* An approval uses what was paid for its call.
LEMMA ConfirmationKeepsCap == ASSUME CapInv, TakeConfirmation PROVE CapInv'
<1>0. /\ plan \in AnyPlan /\ turn \in Nat /\ queue \in Seq(AnyPrompt) /\ queue # <<>>
      /\ Ordered(queue, plan) /\ Gate(queue[1]) /\ spent \in Nat /\ toolsLeft \in Nat
      /\ spent + toolsLeft + Pending(queue, plan) <= MaxToolCalls
  BY DEF CapInv, PromptInv, PaidInv, TakeConfirmation, InQueue, Current, Gate
<1>1. /\ UNCHANGED <<plan, turn, toolsLeft>>
      /\ plan.confirmations \in Nat /\ MaxToolCalls \in Nat
  BY <1>0, Numbers DEF TakeConfirmation
<1>2. /\ Tail(queue) \in Seq(AnyPrompt) /\ Ordered(Tail(queue), plan)
      /\ Pending(Tail(queue), plan) \in Nat /\ Pending(queue, plan) \in Nat
      /\ Pending(Tail(queue), plan) <= Pending(queue, plan) - 1
  BY <1>0, <1>1, RestOfQueue
<1>3. CASE pc' \in Over /\ UNCHANGED <<queue, spent>>
  BY <1>0, <1>1, <1>3, RestKeepsCap DEF AtRest, Over
<1>4. ASSUME NEW outs, NEW u, NEW ends, NextPrompt(Tail(queue), outs, u, ends),
             queue' = Tail(queue), spent' = spent
      PROVE  CapInv'
  BY <1>0, <1>1, <1>2, <1>4, NextPromptKeepsCap
<1>5. CASE pc' = "gated" /\ spent' = spent + 1 /\ queue' = queue
  <2>1. PromptInv'
    BY <1>0, <1>1, <1>5 DEF PromptInv, InQueue
  <2>2. PaidInv'
    BY <1>0, <1>1, <1>2, <1>5 DEF PaidInv, AtRest, InQueue
  <2>. QED
    BY <2>1, <2>2 DEF CapInv
<1>. QED
  BY <1>3, <1>4, <1>5, PlacesOfEnds DEF TakeConfirmation, Fail, Begin, Goto, awaiting, Over

\* After a gated call the rest of the queue is paid for.
LEMMA GatedKeepsCap == ASSUME CapInv, GatedDone PROVE CapInv'
<1>0. /\ plan \in AnyPlan /\ turn \in Nat /\ queue \in Seq(AnyPrompt) /\ queue # <<>>
      /\ Ordered(queue, plan) /\ Gate(queue[1]) /\ spent \in Nat /\ toolsLeft \in Nat
      /\ spent + toolsLeft + Pending(queue, plan) - 1 <= MaxToolCalls
  BY DEF CapInv, PromptInv, PaidInv, GatedDone, InQueue
<1>1. /\ UNCHANGED <<plan, turn, toolsLeft, spent>>
      /\ plan.confirmations \in Nat /\ MaxToolCalls \in Nat /\ Len(plan.items) \in Nat
  BY <1>0, Numbers DEF GatedDone
<1>2. /\ Tail(queue) \in Seq(AnyPrompt) /\ Ordered(Tail(queue), plan)
      /\ Pending(Tail(queue), plan) \in Nat /\ Pending(queue, plan) \in Nat
      /\ Pending(Tail(queue), plan) <= Pending(queue, plan) - 1
  BY <1>0, <1>1, RestOfQueue
<1>3. CASE pc' \in Over /\ UNCHANGED queue
  BY <1>0, <1>1, <1>3, RestKeepsCap DEF AtRest, Over
<1>4. ASSUME NEW pausing \in BOOLEAN, NEW outs, NEW u, NEW ends,
             queue' = Tail(queue) \o toolPauseAwaitItems(GatedPause, pausing),
             NextPrompt(Tail(queue) \o toolPauseAwaitItems(GatedPause, pausing), outs, u, ends)
      PROVE  CapInv'
  <2>1. GatedPause \in Nat
    <3>1. queue[1].n \in Nat
      <4>1. 1 \in 1 .. Len(queue)
        BY <1>0
      <4>. QED
        BY <1>0, <1>1, <4>1 DEF Ordered
    <3>. QED
      BY <1>1, <3>1 DEF GatedPause, Current
  <2> DEFINE t == toolPauseAwaitItems(GatedPause, pausing)
  <2>2. t \in Seq(AnyPrompt) /\ \A i \in 1 .. Len(t) : ~Gate(t[i])
    BY <1>0, <2>1, ClarificationType
  <2>. HIDE DEF t
  <2>3. queue' = Tail(queue) \o t
    BY <1>4 DEF t
  <2>4. /\ queue' \in Seq(AnyPrompt) /\ Ordered(queue', plan)
        /\ Pending(queue', plan) = Pending(Tail(queue), plan)
    BY <1>1, <1>2, <2>2, <2>3, OrderedConcat
  <2>. QED
    BY <1>0, <1>1, <1>2, <1>4, <2>4, NextPromptKeepsCap
<1>. QED
  <2>1. PICK pausing \in BOOLEAN :
           \/ pc' \in Over /\ UNCHANGED queue
           \/ /\ queue' = Tail(queue) \o toolPauseAwaitItems(GatedPause, pausing)
              /\ NextPrompt(Tail(queue) \o toolPauseAwaitItems(GatedPause, pausing), outcomes', unknown', budget)
    BY PlacesOfEnds DEF GatedDone, Fail, Finish, Goto, awaiting, Over
  <2>. QED
    BY <2>1, <1>3, <1>4

\* The prompts that are not confirmations have no calls behind them.
LEMMA AnswersKeepCap ==
    ASSUME CapInv, TakeAnswer \/ TakeResults \/ Recorded PROVE CapInv'
<1>0. /\ plan \in AnyPlan /\ turn \in Nat /\ queue \in Seq(AnyPrompt) /\ queue # <<>>
      /\ Ordered(queue, plan) /\ ~Gate(queue[1]) /\ spent \in Nat /\ toolsLeft \in Nat
      /\ spent + toolsLeft + Pending(queue, plan) <= MaxToolCalls
  BY DEF CapInv, PromptInv, PaidInv, TakeAnswer, TakeResults, Recorded, InQueue, Current, Gate
<1>1. /\ UNCHANGED <<plan, turn, toolsLeft, spent>>
      /\ plan.confirmations \in Nat /\ MaxToolCalls \in Nat
  BY <1>0, Numbers DEF TakeAnswer, TakeResults, Recorded, limits
<1>2. /\ Tail(queue) \in Seq(AnyPrompt) /\ Ordered(Tail(queue), plan)
      /\ Pending(Tail(queue), plan) = 0 /\ Pending(queue, plan) \in Nat
  BY <1>0, <1>1, RestOfQueue
<1>3. CASE pc' \in Over /\ queue' \in {queue, Tail(queue)}
  BY <1>0, <1>1, <1>2, <1>3, RestKeepsCap DEF AtRest, Over
<1>4. ASSUME NEW outs, NEW u, NEW ends, NextPrompt(Tail(queue), outs, u, ends), queue' = Tail(queue)
      PROVE  CapInv'
  BY <1>0, <1>1, <1>2, <1>4, NextPromptKeepsCap
<1>5. CASE pc' = pc /\ queue' = queue
  BY <1>1, <1>5, OutsideKeepsCap
<1>6. CASE pc' = "recording" /\ queue' = queue /\ pc = "await"
  <2>1. PromptInv'
    BY <1>0, <1>1, <1>6 DEF PromptInv, InQueue
  <2>2. PaidInv'
    BY <1>0, <1>1, <1>6 DEF CapInv, PaidInv, AtRest, InQueue
  <2>. QED
    BY <2>1, <2>2 DEF CapInv
<1>7. CASE TakeAnswer
  BY <1>7, <1>3, <1>4 DEF TakeAnswer, Fail, awaiting, Over
<1>8. CASE TakeResults
  BY <1>8, <1>3, <1>5, <1>6 DEF TakeResults, Fail, Goto, awaiting, Over
<1>9. CASE Recorded
  BY <1>9, <1>3, <1>4 DEF Recorded, Fail, Finish, Goto, Over
<1>. QED
  BY <1>7, <1>8, <1>9

\* The other steps of the workflow.
LEMMA OthersKeepCap ==
    ASSUME CapInv, \/ TakePause \/ Resume \/ ResumeTimeout \/ TakeMissing \/ PlanRecovers
                   \/ PlanError \/ ActivityFails \/ FinalizePlanDone \/ ClosingDone
    PROVE  CapInv'
<1>1. UNCHANGED <<plan, turn, spent, toolsLeft, queue>>
  BY DEF TakePause, Resume, ResumeTimeout, TakeMissing, PlanRecovers, PlanError, ActivityFails,
         FinalizePlanDone, ClosingDone, awaiting, limits
<1>2. pc' \in Over \cup AtRest /\ (pc' \in AtRest => pc \in AtRest)
  BY PlacesOfEnds DEF TakePause, Resume, ResumeTimeout, TakeMissing, PlanRecovers, PlanError, ActivityFails,
         FinalizePlanDone, ClosingDone, Protect, Fail, Finish, Begin, Goto, Over, AtRest
<1>. QED
  BY <1>1, <1>2, RestKeepsCap DEF CapInv, PromptInv, PaidInv

\* A new plan is of the type that the planner's plans have.
LEMMA PlanKeepsCap == ASSUME CapInv, PlanDone PROVE CapInv'
<1>1. plan' \in AnyPlan /\ turn' \in Nat
  BY AgentAssumption DEF PlanDone, CapInv, PromptInv, AnyPlan
<1>2. pc = "planning" /\ pc' = "turn" /\ UNCHANGED <<queue, spent, toolsLeft>>
  BY DEF PlanDone, Goto, awaiting, limits
<1>3. PromptInv'
  BY <1>1, <1>2 DEF CapInv, PromptInv, InQueue
<1>4. PaidInv'
  BY <1>2 DEF CapInv, PaidInv, AtRest
<1>. QED
  BY <1>3, <1>4 DEF CapInv

\* A run begins with its whole cap.
LEMMA CapInit == ASSUME Init PROVE CapInv
<1>1. plan \in AnyPlan /\ queue \in Seq(AnyPrompt)
  BY DEF Init, AnyPlan
<1>2. PromptInv
  BY <1>1 DEF Init, PromptInv, InQueue
<1>3. PaidInv
  BY AgentAssumption DEF Init, PaidInv, AtRest
<1>. QED
  BY <1>2, <1>3 DEF CapInv

\* Every step keeps the invariant.
LEMMA CapStep == ASSUME CapInv, [Next]_vars PROVE CapInv'
<1>1. CASE UNCHANGED <<pc, plan, turn, queue, toolsLeft, spent>>
  BY <1>1, OutsideKeepsCap
<1>2. CASE Workflow
  BY <1>2, TurnKeepsCap, ToolsKeepCap, ConfirmationKeepsCap, GatedKeepsCap, AnswersKeepCap, OthersKeepCap,
     PlanKeepsCap DEF Workflow
<1>. QED
  BY <1>1, <1>2 DEF Next, Pause, ResumeRun, Answer, AnswerAgain, Provide, Preflight, SignalResults, Tick,
     workflow, awaiting, limits, vars

\* The budgeted calls of a run, those that an operator approves later included, are
\* at most its cap: the guard of the turn, the payment after the batch and the
\* confirmations that are left add up in every queue.
THEOREM ToolCallsAreCapped == Spec => []ToolCapHolds
<1>1. CapInv => ToolCapHolds
  BY DEF CapInv, PaidInv, ToolCapHolds
<1>. QED
  BY <1>1, CapInit, CapStep, PTL DEF Spec

-----------------------------------------------------------------------------
(* The answers in the channel of confirmations. *)

Answers == [prompt : AnyPrompt \cup {None}, ok : BOOLEAN]
Confirmations == channel["confirmation"]
\* Prompts that are not answered with tool results.
DirectPrompts == {p \in AnyPrompt : p.kind # "results"}

\* Approvals that name no call.
Blank(e) == e.ok /\ e.prompt = None
Blanks(s) == {i \in 1 .. Len(s) : Blank(s[i])}

\* There are finitely many of them in a channel.
LEMMA BlanksCount ==
    ASSUME NEW s \in Seq(Answers) PROVE IsFiniteSet(Blanks(s)) /\ Cardinality(Blanks(s)) \in Nat
<1>1. IsFiniteSet(1 .. Len(s)) /\ Blanks(s) \in SUBSET (1 .. Len(s))
  BY FS_Interval, LenProperties DEF Blanks
<1>2. IsFiniteSet(Blanks(s))
  BY <1>1, FS_Subset
<1>. QED
  BY <1>2, FS_CardinalityType

\* An answer that is given is counted if it is one of them.
LEMMA BlanksGrow ==
    ASSUME NEW s \in Seq(Answers), NEW e \in Answers
    PROVE  Cardinality(Blanks(Append(s, e))) <= Cardinality(Blanks(s)) + (IF Blank(e) THEN 1 ELSE 0)
<1> DEFINE r == Append(s, e)
<1>1. /\ r \in Seq(Answers) /\ Len(r) = Len(s) + 1 /\ Len(s) \in Nat
      /\ \A i \in 1 .. Len(r) : r[i] = IF i <= Len(s) THEN s[i] ELSE e
  OBVIOUS
<1>. HIDE DEF r
<1>2. Blanks(r) = IF Blank(e) THEN Blanks(s) \cup {Len(s) + 1} ELSE Blanks(s)
  BY <1>1 DEF Blanks
<1>3. Len(s) + 1 \notin Blanks(s)
  BY <1>1 DEF Blanks
<1>4. Cardinality(Blanks(s) \cup {Len(s) + 1}) = Cardinality(Blanks(s)) + 1
  BY <1>3, BlanksCount, FS_AddElement
<1>5. Cardinality(Blanks(s)) \in Nat
  BY BlanksCount
<1>. QED
  BY <1>2, <1>4, <1>5 DEF r

\* The answer that is taken is not counted again.
LEMMA BlanksShrink ==
    ASSUME NEW s \in Seq(Answers), s # <<>>
    PROVE  Cardinality(Blanks(Tail(s))) + (IF Blank(s[1]) THEN 1 ELSE 0) <= Cardinality(Blanks(s))
<1> DEFINE B == Blanks(s)
           T == Blanks(Tail(s))
           f == [i \in T |-> i + 1]
<1>1. /\ Tail(s) \in Seq(Answers) /\ 1 \in 1 .. Len(s)
      /\ \A i \in 1 .. Len(Tail(s)) : i + 1 \in 1 .. Len(s) /\ Tail(s)[i] = s[i + 1] /\ i + 1 # 1
  OBVIOUS
<1>2. T \subseteq 1 .. Len(Tail(s)) /\ \A i \in T : i \in Nat /\ Blank(Tail(s)[i])
  BY DEF Blanks
<1>3. \A i \in T : i + 1 \in B \ {1}
  BY <1>1, <1>2 DEF Blanks
<1>4. \A i \in T, j \in T : i + 1 = j + 1 => i = j
  BY <1>2
<1>5. 1 \in B <=> Blank(s[1])
  BY <1>1 DEF Blanks
<1>6. IsFiniteSet(B) /\ Cardinality(B) \in Nat /\ Cardinality(T) \in Nat
  BY <1>1, BlanksCount
<1>. HIDE DEF B, T
<1>7. f \in Injection(T, B \ {1})
  BY <1>3, <1>4 DEF Injection, IsInjective
<1>8. IsFiniteSet(B \ {1}) /\ Cardinality(B \ {1}) = IF 1 \in B THEN Cardinality(B) - 1 ELSE Cardinality(B)
  BY <1>6, FS_RemoveElement
<1>9. Cardinality(T) <= Cardinality(B \ {1})
  BY <1>7, <1>8, FS_Injection
<1>. QED
  BY <1>5, <1>6, <1>8, <1>9 DEF B, T
\* Every approval under way is of a call that was approved by name, or it is counted
\* among those that name none.
ApprovalInv ==
    /\ channel = [k \in Kinds |-> channel[k]]
    /\ sent \subseteq DirectPrompts
    /\ Confirmations \in Seq(Answers)
    /\ \A i \in 1 .. Len(Confirmations) :
          Confirmations[i].ok => Confirmations[i].prompt \in approved \cup {None}
    /\ blanks \in Nat /\ Cardinality(Blanks(Confirmations)) <= blanks

\* A step that leaves the channel alone keeps the invariant.
LEMMA ApprovalsUntouched ==
    ASSUME ApprovalInv, UNCHANGED <<channel, sent, approved, blanks>>
    PROVE  ApprovalInv'
BY DEF ApprovalInv, Confirmations

\* So does one that takes from another channel.
LEMMA OtherChannel ==
    ASSUME ApprovalInv, NEW k \in Kinds \ {"confirmation"}, NEW s, channel' = [channel EXCEPT ![k] = s],
           sent' \subseteq DirectPrompts, UNCHANGED <<approved, blanks>>
    PROVE  ApprovalInv'
<1>1. channel' = [j \in Kinds |-> channel'[j]] /\ channel'["confirmation"] = channel["confirmation"]
  BY DEF ApprovalInv, Kinds
<1>. QED
  BY <1>1 DEF ApprovalInv, Confirmations

\* The prompt that waits is one that can be answered directly.
LEMMA WaitingPrompt ==
    ASSUME CapInv
    PROVE  /\ pc = "await" /\ queue[1].kind # "results" => queue[1] \in DirectPrompts
           /\ MissingPrompt \in DirectPrompts
<1>1. MissingPrompt \in AnyPrompt /\ MissingPrompt.kind = "missing"
  BY PromptType DEF MissingPrompt, CapInv, PromptInv, Prompt
<1>2. pc = "await" => queue[1] \in AnyPrompt
  BY DEF CapInv, PromptInv, InQueue
<1>. QED
  BY <1>1, <1>2 DEF DirectPrompts

\* A confirmation that is taken was given for the call in front, or for none.
LEMMA ConfirmationIsApproved == ASSUME CapInv, ApprovalInv, TakeConfirmation PROVE ApprovalInv'
<1> DEFINE s == channel["confirmation"]
<1>1. /\ s \in Seq(Answers) /\ s # <<>> /\ channel' = [channel EXCEPT !["confirmation"] = Tail(s)]
      /\ sent' = sent \cup {queue[1]} /\ UNCHANGED approved
      /\ \A i \in 1 .. Len(s) : s[i].ok => s[i].prompt \in approved \cup {None}
      /\ blanks \in Nat /\ Cardinality(Blanks(s)) <= blanks
  BY DEF ApprovalInv, Confirmations, TakeConfirmation, Receive, Channel, Current
<1>2. /\ channel' = [j \in Kinds |-> channel'[j]] /\ channel'["confirmation"] = Tail(s)
  BY <1>1 DEF ApprovalInv, Kinds
<1>3. sent' \subseteq DirectPrompts
  BY <1>1, WaitingPrompt DEF ApprovalInv, TakeConfirmation, Current
<1>4. \/ blanks' = blanks
      \/ blanks' = blanks - 1 /\ s[1].ok /\ s[1].prompt \in {None, queue[1]} /\ queue[1] \notin approved
  BY <1>1 DEF TakeConfirmation, Fits, Received, Channel, Current
<1>. HIDE DEF s
<1>5. /\ Tail(s) \in Seq(Answers) /\ 1 \in 1 .. Len(s)
      /\ \A i \in 1 .. Len(Tail(s)) : i + 1 \in 1 .. Len(s) /\ Tail(s)[i] = s[i + 1]
  BY <1>1
<1>6. \A i \in 1 .. Len(Tail(s)) : Tail(s)[i].ok => Tail(s)[i].prompt \in approved \cup {None}
  BY <1>1, <1>5
<1>7. blanks' \in Nat /\ Cardinality(Blanks(Tail(s))) <= blanks'
  <2>1. Cardinality(Blanks(Tail(s))) \in Nat /\ Cardinality(Blanks(s)) \in Nat
    BY <1>1, <1>5, BlanksCount
  <2>2. Cardinality(Blanks(Tail(s))) + (IF Blank(s[1]) THEN 1 ELSE 0) <= Cardinality(Blanks(s))
    BY <1>1, BlanksShrink
  <2>3. CASE blanks' = blanks
    BY <1>1, <2>1, <2>2, <2>3
  <2>4. CASE blanks' = blanks - 1 /\ s[1].ok /\ s[1].prompt \in {None, queue[1]} /\ queue[1] \notin approved
    <3>1. Blank(s[1])
      BY <1>1, <1>5, <2>4 DEF Blank
    <3>. QED
      BY <1>1, <2>1, <2>2, <2>4, <3>1
  <2>. QED
    BY <1>4, <2>3, <2>4
<1>. QED
  BY <1>1, <1>2, <1>3, <1>5, <1>6, <1>7 DEF ApprovalInv, Confirmations

\* An answer that is given is of a prompt; an approval approves the call it names, or
\* is counted.
LEMMA ProvideApproves ==
    ASSUME ApprovalInv, NEW p \in DirectPrompts, NEW named \in BOOLEAN, NEW ok \in BOOLEAN,
           Provide(p, named, ok)
    PROVE  ApprovalInv'
<1> DEFINE s == channel["confirmation"]
           e == [prompt |-> IF named THEN p ELSE None, ok |-> ok]
           k == Channel(p.kind)
<1>1. k \in Kinds /\ (k = "confirmation" <=> p.kind = "confirmation") /\ p \in AnyPrompt /\ p # None
  <2>1. p \in AnyPrompt /\ None \notin AnyPrompt
    BY AgentAssumption DEF DirectPrompts, AnyPrompt
  <2>. QED
    BY <2>1 DEF AnyPrompt, Channel, Kinds
<1>2. /\ channel' = [channel EXCEPT ![k] = Append(channel[k], e)]
      /\ sent' \subseteq DirectPrompts /\ approved \subseteq approved'
      /\ ok /\ named /\ p.kind = "confirmation" => p \in approved'
      /\ blanks' = blanks + (IF p.kind = "confirmation" /\ ok /\ ~named THEN 1 ELSE 0)
  BY DEF Provide, ApprovalInv
<1>3. e \in Answers /\ e.ok = ok /\ e.prompt = (IF named THEN p ELSE None)
  BY <1>1 DEF Answers
<1>4. /\ s \in Seq(Answers) /\ \A i \in 1 .. Len(s) : s[i].ok => s[i].prompt \in approved \cup {None}
      /\ blanks \in Nat /\ Cardinality(Blanks(s)) <= blanks
  BY DEF ApprovalInv, Confirmations
<1>5. channel' = [j \in Kinds |-> channel'[j]]
      /\ channel'["confirmation"] = IF k = "confirmation" THEN Append(s, e) ELSE s
  BY <1>1, <1>2 DEF ApprovalInv, Kinds
<1>. HIDE DEF e, k, s
<1>6. CASE k # "confirmation"
  <2>1. blanks' = blanks
    BY <1>1, <1>2, <1>4, <1>6
  <2>. QED
    BY <1>2, <1>4, <1>5, <1>6, <2>1 DEF ApprovalInv, Confirmations
<1>7. CASE k = "confirmation"
  <2> DEFINE r == Append(s, e)
  <2>1. /\ r \in Seq(Answers) /\ Len(r) = Len(s) + 1 /\ Len(s) \in Nat
        /\ \A i \in 1 .. Len(r) : r[i] = IF i <= Len(s) THEN s[i] ELSE e
    BY <1>3, <1>4
  <2>2. blanks' \in Nat /\ Cardinality(Blanks(r)) <= blanks'
    <3>1. blanks' = blanks + (IF Blank(e) THEN 1 ELSE 0)
      BY <1>1, <1>2, <1>3, <1>7 DEF Blank
    <3>2. Cardinality(Blanks(r)) <= Cardinality(Blanks(s)) + (IF Blank(e) THEN 1 ELSE 0)
      BY <1>3, <1>4, BlanksGrow
    <3>3. Cardinality(Blanks(r)) \in Nat /\ Cardinality(Blanks(s)) \in Nat
      BY <1>4, <2>1, BlanksCount
    <3>. HIDE DEF r
    <3>. QED
      BY <1>4, <3>1, <3>2, <3>3
  <2>. HIDE DEF r
  <2>3. \A i \in 1 .. Len(r) : r[i].ok => r[i].prompt \in approved' \cup {None}
    <3>. SUFFICES ASSUME NEW i \in 1 .. Len(r), r[i].ok PROVE r[i].prompt \in approved' \cup {None}
      OBVIOUS
    <3>1. CASE i <= Len(s)
      BY <3>1, <2>1, <1>2, <1>4
    <3>2. CASE ~(i <= Len(s))
      BY <3>2, <2>1, <1>1, <1>2, <1>3, <1>7
    <3>. QED
      BY <3>1, <3>2
  <2>4. channel'["confirmation"] = r
    BY <1>5, <1>7 DEF r
  <2>. QED
    BY <1>2, <1>5, <2>1, <2>2, <2>3, <2>4 DEF ApprovalInv, Confirmations
<1>. QED
  BY <1>6, <1>7

\* Every prompt that can be answered is a prompt.
LEMMA PublishedType == ASSUME PromptInv PROVE Published \subseteq AnyPrompt
<1>1. ToSet(queue) \subseteq AnyPrompt
  BY LenProperties DEF PromptInv, ToSet
<1>2. MissingPrompt \in AnyPrompt
  BY PromptType DEF MissingPrompt, PromptInv
<1>. QED
  BY <1>1, <1>2 DEF Published

\* No other step touches the confirmations.
LEMMA ApprovalStep == ASSUME CapInv, ApprovalInv, [Next]_vars PROVE ApprovalInv'
<1>1. CASE TakeConfirmation
  BY <1>1, ConfirmationIsApproved
<1>2. CASE Answer \/ AnswerAgain
  <2>1. Published \subseteq AnyPrompt
    BY PublishedType DEF CapInv
  <2>2. PICK p \in DirectPrompts, named \in BOOLEAN, ok \in BOOLEAN : Provide(p, named, ok)
    BY <1>2, <2>1 DEF Answer, AnswerAgain, ApprovalInv, DirectPrompts
  <2>. QED
    BY <2>2, ProvideApproves
<1>3. ASSUME NEW c \in Clients, SignalResults(c) PROVE ApprovalInv'
  BY <1>3, OtherChannel DEF SignalResults, approvals, ApprovalInv, Kinds
<1>4. CASE TakeAnswer \/ TakeMissing \/ TakeResults
  <2>1. UNCHANGED <<approved, blanks>>
    BY <1>4 DEF TakeAnswer, TakeResults, TakeMissing, approvals
  <2>2. sent' \subseteq DirectPrompts
    BY <1>4, WaitingPrompt DEF TakeAnswer, TakeResults, TakeMissing, Receive, Current, ApprovalInv
  <2>3. \E k \in Kinds \ {"confirmation"} : \E s : channel' = [channel EXCEPT ![k] = s]
    BY <1>4 DEF TakeAnswer, TakeResults, TakeMissing, Receive, Channel, Current, MissingPrompt, Prompt, Kinds
  <2>. QED
    BY <2>1, <2>2, <2>3, OtherChannel
<1>5. CASE \/ Turn \/ ToolsDone \/ GatedDone \/ Recorded \/ PlanDone \/ PlanRecovers \/ PlanError
           \/ ActivityFails \/ FinalizePlanDone \/ ClosingDone
  BY <1>5, ApprovalsUntouched DEF Turn, ToolsDone, GatedDone, Recorded, PlanDone, PlanRecovers, PlanError,
     ActivityFails, FinalizePlanDone, ClosingDone, signals, approvals
<1>6. CASE TakePause \/ Resume \/ ResumeTimeout
  BY <1>6, ApprovalsUntouched DEF TakePause, Resume, ResumeTimeout, signals, approvals
<1>7. CASE Pause \/ ResumeRun \/ Tick \/ (\E c \in Clients : Preflight(c)) \/ UNCHANGED vars
  BY <1>7, ApprovalsUntouched DEF Pause, ResumeRun, Tick, Preflight, signals, vars, approvals
<1>. QED
  BY <1>1, <1>2, <1>3, <1>4, <1>5, <1>6, <1>7 DEF Next, Workflow

\* At the start there are no answers.
LEMMA ApprovalInit == ASSUME Init PROVE ApprovalInv
<1>1. Confirmations = <<>> /\ blanks = 0 /\ sent = {} /\ channel = [k \in Kinds |-> channel[k]]
  BY DEF Init, Confirmations, Kinds
<1>2. Blanks(<<>>) = {}
  BY DEF Blanks
<1>3. Cardinality({}) = 0
  BY FS_EmptySet
<1>4. Cardinality(Blanks(Confirmations)) <= blanks /\ blanks \in Nat
  <2>1. Cardinality(Blanks(Confirmations)) = 0
    BY <1>1, <1>2, <1>3, Zenon
  <2>. QED
    BY <1>1, <2>1
<1>5. /\ Confirmations \in Seq(Answers)
      /\ \A i \in 1 .. Len(Confirmations) : Confirmations[i].ok => Confirmations[i].prompt \in approved \cup {None}
  BY <1>1
<1>. QED
  BY <1>1, <1>4, <1>5, Zenon DEF ApprovalInv

\* A gated call is executed only on an approval that names that very call, or on one
\* that names none and that no other call was executed on, however answers are
\* reordered, repeated or contradicted.
THEOREM GatedCallsAreApproved == Spec => []GatedIsApproved
<1>1. ApprovalInv => GatedIsApproved
  BY DEF ApprovalInv, GatedIsApproved
<1>. QED
  BY <1>1, ApprovalInit, ApprovalStep, CapInit, CapStep, PTL DEF Spec

-----------------------------------------------------------------------------
(* The await that clients are shown. *)

\* A set of naturals has a least element.
LEMMA LeastExists ==
    ASSUME NEW T, T \subseteq Nat, T # {} PROVE \E x \in T : \A y \in T : x <= y
<1> DEFINE R == OpToRel(<, Nat)
<1>1. IsWellFoundedOn(R, Nat)
  BY NatLessThanWellFounded
<1>2. \A x, y \in Nat : <<y, x>> \in R <=> y < x
  BY DEF OpToRel
<1>. HIDE DEF R
<1>3. PICK x \in T : \A y \in T : <<y, x>> \notin R
  BY <1>1, WFMin
<1>4. ASSUME NEW y \in T PROVE x <= y
  <2>1. x \in Nat /\ y \in Nat
    OBVIOUS
  <2>2. ~(y < x)
    BY <1>2, <1>3, <2>1
  <2>. QED
    BY <2>1, <2>2
<1>. QED
  BY <1>4

\* The index that the query uses is the first one.
FirstResults(q, i) ==
    /\ i \in 1 .. Len(q) /\ q[i].kind = "results"
    /\ \A j \in 1 .. Len(q) : q[j].kind = "results" => i <= j

\* ToolAwait is the first prompt that results answer, if there is one.
LEMMA ToolAwaitIsFirst ==
    ASSUME NEW q, Len(q) \in Nat
    PROVE  /\ \A i : FirstResults(q, i) => ToolAwait(q) = q[i]
           /\ (\A i : ~FirstResults(q, i)) => ToolAwait(q) = None
<1> DEFINE I == {i \in 1 .. Len(q) : q[i].kind = "results"}
<1>1. ToolAwait(q) = IF I # {} THEN (IF Min(I) = 0 THEN None ELSE q[Min(I)]) ELSE None
  BY DEF ToolAwait, SelectInSeq
<1>2. ASSUME I # {} PROVE FirstResults(q, Min(I))
  <2>1. I \subseteq Nat
    OBVIOUS
  <2>2. \E x \in I : \A y \in I : x <= y
    BY <1>2, <2>1, LeastExists
  <2>3. Min(I) \in I /\ \A y \in I : Min(I) <= y
    BY <2>2 DEF Min
  <2>. QED
    BY <2>3 DEF FirstResults
<1>3. \A i, j : FirstResults(q, i) /\ FirstResults(q, j) => i = j
  BY DEF FirstResults
<1>4. ASSUME NEW i, FirstResults(q, i) PROVE ToolAwait(q) = q[i]
  <2>1. I # {}
    BY <1>4 DEF FirstResults
  <2>2. Min(I) = i /\ Min(I) # 0
    BY <1>2, <1>3, <1>4, <2>1 DEF FirstResults
  <2>. QED
    BY <1>1, <2>1, <2>2
<1>5. ASSUME \A i : ~FirstResults(q, i) PROVE ToolAwait(q) = None
  BY <1>1, <1>2, <1>5
<1>. QED
  BY <1>4, <1>5

\* Results for the prompt in front are those that clients are asked for.
LEMMA AwaitInFront ==
    ASSUME NEW q \in Seq(AnyPrompt), q # <<>>, q[1].kind = "results" PROVE ToolAwait(q) = q[1]
<1>1. Len(q) \in Nat /\ 1 \in 1 .. Len(q)
  OBVIOUS
<1>2. FirstResults(q, 1)
  BY <1>1 DEF FirstResults
<1>. QED
  BY <1>1, <1>2, ToolAwaitIsFirst

\* Without prompts nothing is shown.
LEMMA AwaitOfNothing == ToolAwait(<<>>) = None
<1>1. Len(<<>>) = 0
  OBVIOUS
<1>2. \A i : ~FirstResults(<<>>, i)
  BY <1>1 DEF FirstResults
<1>. QED
  BY <1>1, <1>2, ToolAwaitIsFirst

\* What is shown is a prompt.
LEMMA AwaitType ==
    ASSUME NEW q \in Seq(AnyPrompt) PROVE ToolAwait(q) \in AnyPrompt \cup {None}
<1>1. Len(q) \in Nat /\ \A i \in 1 .. Len(q) : q[i] \in AnyPrompt
  OBVIOUS
<1>2. CASE \E i : FirstResults(q, i)
  BY <1>1, <1>2, ToolAwaitIsFirst DEF FirstResults
<1>3. CASE \A i : ~FirstResults(q, i)
  BY <1>1, <1>3, ToolAwaitIsFirst
<1>. QED
  BY <1>2, <1>3

\* Two queues with the same first results prompt show the same.
LEMMA SameFirst ==
    ASSUME NEW q, NEW r, Len(q) \in Nat, Len(r) \in Nat,
           \A i : FirstResults(q, i) => \E j : FirstResults(r, j) /\ r[j] = q[i],
           \A j : FirstResults(r, j) => \E i : FirstResults(q, i)
    PROVE  ToolAwait(q) = ToolAwait(r)
<1>1. CASE \E i : FirstResults(q, i)
  <2>1. PICK i : FirstResults(q, i)
    BY <1>1
  <2>2. PICK j : FirstResults(r, j) /\ r[j] = q[i]
    BY <2>1
  <2>. QED
    BY <2>1, <2>2, ToolAwaitIsFirst
<1>2. CASE \A i : ~FirstResults(q, i)
  BY <1>2, ToolAwaitIsFirst
<1>. QED
  BY <1>1, <1>2

\* Another prompt in front changes nothing.
LEMMA AwaitOfTail ==
    ASSUME NEW q \in Seq(AnyPrompt), q # <<>>, q[1].kind # "results"
    PROVE  ToolAwait(Tail(q)) = ToolAwait(q)
<1> DEFINE r == Tail(q)
<1>1. Len(q) \in Nat /\ Len(q) > 0 /\ Len(r) = Len(q) - 1 /\ Len(r) \in Nat
      /\ \A i \in 1 .. Len(r) : r[i] = q[i + 1]
  OBVIOUS
<1>. HIDE DEF r
<1>2. ASSUME NEW i \in Int, FirstResults(r, i) PROVE FirstResults(q, i + 1)
  <2>1. i \in 1 .. Len(r) /\ r[i] = q[i + 1] /\ r[i].kind = "results"
    BY <1>1, <1>2 DEF FirstResults
  <2>2. ASSUME NEW j \in 1 .. Len(q), q[j].kind = "results" PROVE i + 1 <= j
    <3>1. j # 1
      BY <2>2
    <3>2. j - 1 \in 1 .. Len(r) /\ r[j - 1] = q[j]
      BY <1>1, <3>1
    <3>3. i <= j - 1
      BY <1>2, <2>2, <3>2 DEF FirstResults
    <3>. QED
      BY <3>3
  <2>. QED
    BY <1>1, <2>1, <2>2 DEF FirstResults
<1>3. ASSUME NEW i \in Int, FirstResults(q, i + 1) PROVE FirstResults(r, i)
  <2>1. i + 1 \in 1 .. Len(q) /\ q[i + 1].kind = "results"
    BY <1>3 DEF FirstResults
  <2>2. i + 1 # 1
    BY <2>1
  <2>3. i \in 1 .. Len(r) /\ r[i].kind = "results"
    BY <1>1, <2>1, <2>2
  <2>4. ASSUME NEW j \in 1 .. Len(r), r[j].kind = "results" PROVE i <= j
    <3>1. j + 1 \in 1 .. Len(q) /\ q[j + 1].kind = "results"
      BY <1>1, <2>4
    <3>2. i + 1 <= j + 1
      BY <1>3, <3>1 DEF FirstResults
    <3>. QED
      BY <3>2
  <2>. QED
    BY <2>3, <2>4 DEF FirstResults
<1>4. \A i : FirstResults(r, i) => FirstResults(q, i + 1) /\ q[i + 1] = r[i]
  BY <1>1, <1>2 DEF FirstResults
<1>5. ASSUME NEW j, FirstResults(q, j) PROVE \E i : FirstResults(r, i)
  <2>1. j \in Int /\ j - 1 \in Int /\ (j - 1) + 1 = j
    BY <1>5 DEF FirstResults
  <2>. QED
    BY <1>3, <1>5, <2>1
<1>6. ToolAwait(r) = ToolAwait(q)
  BY <1>1, <1>4, <1>5, SameFirst
<1>. QED
  BY <1>6 DEF r

\* Nor do other prompts at the end.
LEMMA AwaitOfConcat ==
    ASSUME NEW q \in Seq(AnyPrompt), NEW t \in Seq(AnyPrompt),
           \A i \in 1 .. Len(t) : t[i].kind # "results"
    PROVE  ToolAwait(q \o t) = ToolAwait(q)
<1> DEFINE r == q \o t
<1>1. /\ Len(r) = Len(q) + Len(t) /\ Len(q) \in Nat /\ Len(t) \in Nat /\ Len(r) \in Nat
      /\ \A i \in 1 .. Len(q) + Len(t) : r[i] = IF i <= Len(q) THEN q[i] ELSE t[i - Len(q)]
  BY ConcatProperties, LenProperties
<1>. HIDE DEF r
<1>2. \A i \in 1 .. Len(r) : r[i].kind = "results" => i \in 1 .. Len(q)
  <2>. SUFFICES ASSUME NEW i \in 1 .. Len(r), r[i].kind = "results", ~(i <= Len(q)) PROVE FALSE
    BY <1>1
  <2>1. i - Len(q) \in 1 .. Len(t) /\ r[i] = t[i - Len(q)]
    BY <1>1
  <2>. QED
    BY <2>1
<1>3. \A i \in 1 .. Len(q) : i \in 1 .. Len(r) /\ r[i] = q[i]
  BY <1>1
<1>4. \A i : FirstResults(r, i) <=> FirstResults(q, i)
  BY <1>1, <1>2, <1>3 DEF FirstResults
<1>5. \A i : FirstResults(q, i) => r[i] = q[i]
  BY <1>3 DEF FirstResults
<1>6. ToolAwait(r) = ToolAwait(q)
  BY <1>1, <1>4, <1>5, SameFirst
<1>. QED
  BY <1>6 DEF r

-----------------------------------------------------------------------------
(* The awaits that results name. *)

\* An await that was answered, or the one that the query shows next.
Known(x) == x # None /\ x \in consumed \cup {ToolAwait(queue)}

Submitted == channel["results"]

NamesType ==
    /\ channel = [k \in Kinds |-> channel[k]] /\ Submitted \in Seq(Answers)
    /\ client \in [Clients -> AnyPrompt \cup {None}]
    /\ head \in AnyPrompt \cup {None}

NamesKnown ==
    /\ head # None => Known(head)
    /\ \A c \in Clients : client[c] # None => Known(client[c])
    /\ \A i \in 1 .. Len(Submitted) : Known(Submitted[i].prompt)

\* Between turns there are no prompts; results are recorded of an await that counts
\* as answered.
QueueEnds ==
    /\ pc \in AtRest \cup {"tools"} => queue = <<>>
    /\ pc = "recording" => queue[1].kind = "results" /\ queue[1] \in consumed

NameInv ==
    /\ NamesType /\ QueueEnds /\ PreflightedIsAccepted
    /\ pc \notin Over => NamesKnown

\* Why a step that leaves the queue may fail the run.
LEMMA WhyOfEnds ==
    ASSUME NEW u, NEW ends, NEW outs, NEW finishes, PreflightedIsAccepted
    PROVE  /\ Finalize(u) => PreflightedIsAccepted'
           /\ ResumePlan(u, ends) => PreflightedIsAccepted'
           /\ ApplyFailurePolicy(outs, u, ends, finishes) => PreflightedIsAccepted'
<1>1. Finalize(u) => PreflightedIsAccepted'
  BY DEF Finalize, Fail, PreflightedIsAccepted
<1>2. ResumePlan(u, ends) => PreflightedIsAccepted'
  BY <1>1 DEF ResumePlan, PreflightedIsAccepted
<1>. QED
  BY <1>1, <1>2 DEF ApplyFailurePolicy, Protect, Finish, Fail, Goto, PreflightedIsAccepted

\* The next prompt, or what follows the last one.
LEMMA NextPromptPlaces ==
    ASSUME NEW q, NEW outs, NEW u, NEW ends, NextPrompt(q, outs, u, ends), PreflightedIsAccepted
    PROVE  /\ pc' \in Over \cup {"await", "planning", "missing"}
           /\ pc' \in {"planning", "missing"} => q = <<>>
           /\ PreflightedIsAccepted'
<1>1. CASE q # <<>>
  BY <1>1 DEF NextPrompt, Begin, Goto, Over, PreflightedIsAccepted
<1>2. CASE q = <<>>
  BY <1>2, PlacesOfEnds, WhyOfEnds DEF NextPrompt
<1>. QED
  BY <1>1, <1>2

\* Names stay known while the await they name is neither skipped nor forgotten.
LEMMA NamesStay ==
    ASSUME NamesType, UNCHANGED client,
           channel' = [k \in Kinds |-> channel'[k]],
           Submitted' = Submitted \/ (Submitted # <<>> /\ Submitted' = Tail(Submitted)),
           head' \in AnyPrompt \cup {None}, head' \in {head, None, ToolAwait(queue')}
    PROVE  /\ NamesType'
           /\ NamesKnown /\ (\A x : Known(x) => x \in consumed' \cup {ToolAwait(queue')}) => NamesKnown'
<1>1. /\ Submitted' \in Seq(Answers)
      /\ \A i \in 1 .. Len(Submitted') : \E j \in 1 .. Len(Submitted) : Submitted'[i] = Submitted[j]
  <2> DEFINE s == Submitted
  <2>1. s \in Seq(Answers)
    BY DEF NamesType
  <2>. HIDE DEF s
  <2>2. CASE Submitted' = s
    BY <2>1, <2>2 DEF s
  <2>3. CASE s # <<>> /\ Submitted' = Tail(s)
    <3>1. /\ Tail(s) \in Seq(Answers)
          /\ \A i \in 1 .. Len(Tail(s)) : i + 1 \in 1 .. Len(s) /\ Tail(s)[i] = s[i + 1]
      BY <2>1, <2>3
    <3>. QED
      BY <2>3, <3>1 DEF s
  <2>. QED
    BY <2>2, <2>3 DEF s
<1>2. NamesType'
  BY <1>1 DEF NamesType, Submitted
<1>3. ASSUME NamesKnown, \A x : Known(x) => x \in consumed' \cup {ToolAwait(queue')}
      PROVE  NamesKnown'
  <2>1. \A x : Known(x) => Known(x)'
    BY <1>3 DEF Known
  <2>2. head' # None => Known(head)'
    BY <1>3, <2>1 DEF NamesKnown, Known
  <2>3. \A c \in Clients : client'[c] # None => Known(client[c])'
    BY <1>3, <2>1 DEF NamesKnown, Known
  <2>4. \A i \in 1 .. Len(Submitted') : Known(Submitted[i].prompt)'
    BY <1>1, <1>3, <2>1 DEF NamesKnown, Known
  <2>. QED
    BY <2>2, <2>3, <2>4 DEF NamesKnown
<1>. QED
  BY <1>2, <1>3

\* Steps that take no answer and leave the queue alone.
LEMMA QuietSteps ==
    ASSUME NameInv, UNCHANGED <<client, awaiting>>,
           channel' = [k \in Kinds |-> channel'[k]], Submitted' = Submitted,
           pc' \in Over \cup AtRest \cup {"tools", "gated"} \cup {pc},
           pc' \in AtRest \cup {"tools"} => pc \in AtRest \cup {"tools"},
           pc' \notin Over => pc \notin Over, PreflightedIsAccepted'
    PROVE  NameInv'
<1>1. head' = head /\ consumed' = consumed /\ queue' = queue
  BY DEF awaiting
<1>2. NamesType'
  BY <1>1, NamesStay DEF NameInv, NamesType
<1>3. pc' \notin Over => NamesKnown'
  BY <1>1, NamesStay DEF NameInv, NamesType, Known
<1>4. QueueEnds'
  BY <1>1 DEF NameInv, QueueEnds, Over, AtRest
<1>. QED
  BY <1>2, <1>3, <1>4 DEF NameInv

\* A queue that starts shows its first await.
LEMMA StartKeepsNames ==
    ASSUME NameInv, UNCHANGED <<client, channel>>, pc \in AtRest \cup {"tools"},
           NEW q \in Seq(AnyPrompt), StartQueue(q)
    PROVE  NameInv'
<1>1. queue = <<>> /\ queue' = q /\ head' = ToolAwait(q) /\ consumed' = consumed /\ pc' = "await" /\ why' = why
  BY DEF NameInv, QueueEnds, StartQueue
<1>2. \A x : Known(x) => x \in consumed' \cup {ToolAwait(queue')}
  BY <1>1, AwaitOfNothing DEF Known
<1>3. NamesType' /\ NamesKnown'
  <2>1. head' \in AnyPrompt \cup {None}
    BY <1>1, AwaitType
  <2>2. NamesKnown /\ channel' = [k \in Kinds |-> channel'[k]] /\ Submitted' = Submitted
    BY DEF NameInv, NamesType, Over, AtRest, Submitted
  <2>. QED
    BY <1>1, <1>2, <2>1, <2>2, NamesStay DEF NameInv
<1>. QED
  BY <1>1, <1>3 DEF NameInv, QueueEnds, PreflightedIsAccepted, AtRest

\* A prompt that is taken was not awaited by results, or its results were recorded.
LEMMA TakenKeepsNames ==
    ASSUME NameInv, UNCHANGED <<client, consumed>>, pc \in InQueue,
           channel' = [k \in Kinds |-> channel'[k]], Submitted' = Submitted,
           queue' \in Seq(AnyPrompt),
           ToolAwait(queue') = ToolAwait(queue) \/ ToolAwait(queue) \in consumed,
           head' \in {head, ToolAwait(queue')},
           pc' \in Over \cup {"await", "planning", "missing"},
           pc' \in {"planning", "missing"} => queue' = <<>>, PreflightedIsAccepted'
    PROVE  NameInv'
<1>1. \A x : Known(x) => x \in consumed' \cup {ToolAwait(queue')}
  BY DEF Known
<1>2. NamesKnown
  BY DEF NameInv, InQueue, Over
<1>3. head' \in AnyPrompt \cup {None}
  BY AwaitType DEF NameInv, NamesType
<1>4. NamesType' /\ NamesKnown'
  BY <1>1, <1>2, <1>3, NamesStay DEF NameInv
<1>5. QueueEnds'
  BY DEF QueueEnds, Over, AtRest
<1>. QED
  BY <1>4, <1>5 DEF NameInv

\* Turns and batches start queues from none.
LEMMA TurnKeepsNames == ASSUME CapInv, NameInv, Turn PROVE NameInv'
<1>1. /\ UNCHANGED <<client, channel>> /\ pc \in AtRest /\ pc \notin Over
      /\ channel' = [k \in Kinds |-> channel'[k]] /\ Submitted' = Submitted
  BY DEF Turn, signals, NameInv, NamesType, Submitted, AtRest, Over
<1>2. CASE pc' \in Over \cup {"tools"} /\ UNCHANGED awaiting /\ PreflightedIsAccepted'
  BY <1>1, <1>2, QuietSteps DEF Over, AtRest
<1>3. CASE StartQueue(awaitItems(plan))
  <2>1. awaitItems(plan) \in Seq(AnyPrompt)
    BY ItemsType, Numbers DEF CapInv, PromptInv
  <2>. QED
    BY <1>1, <1>3, <2>1, StartKeepsNames
<1>. QED
  BY <1>2, <1>3, PlacesOfEnds, WhyOfEnds
     DEF Turn, Fail, Finish, Begin, Goto, Over, NameInv, PreflightedIsAccepted

\* The results of a batch.
LEMMA ToolsKeepNames == ASSUME CapInv, NameInv, ToolsDone PROVE NameInv'
<1>1. /\ UNCHANGED <<client, channel>> /\ pc = "tools" /\ pc \notin Over
      /\ channel' = [k \in Kinds |-> channel'[k]] /\ Submitted' = Submitted
  BY DEF ToolsDone, signals, NameInv, NamesType, Submitted, Over
<1>2. CASE pc' \in Over \cup AtRest /\ UNCHANGED awaiting /\ PreflightedIsAccepted'
  BY <1>1, <1>2, QuietSteps DEF Over, AtRest
<1>3. ASSUME NEW outs, NEW pausing \in BOOLEAN, AfterBatch(outs, pausing) PROVE NameInv'
  <2> DEFINE m == plan.confirmations + Len(plan.items) + 1
             q == confirmationAwaits(plan) \o awaitItems(plan) \o toolPauseAwaitItems(m, pausing)
  <2>1. CASE StartQueue(q)
    <3>1. plan \in AnyPlan /\ turn \in Nat /\ m \in Nat
      BY Numbers DEF CapInv, PromptInv
    <3>. HIDE DEF m
    <3>2. q \in Seq(AnyPrompt)
      BY <3>1, PlannedQueue
    <3>. HIDE DEF q
    <3>. QED
      BY <1>1, <2>1, <3>2, StartKeepsNames
  <2>. QED
    BY <1>2, <1>3, <2>1, PlacesOfEnds, WhyOfEnds
       DEF AfterBatch, Fail, Over, AtRest, NameInv, PreflightedIsAccepted
<1>. QED
  BY <1>2, <1>3, PlacesOfEnds, WhyOfEnds
     DEF ToolsDone, Fail, Finish, Goto, Over, NameInv, PreflightedIsAccepted

\* Confirmations and their calls.
LEMMA GatedKeepNames == ASSUME CapInv, NameInv, TakeConfirmation \/ GatedDone PROVE NameInv'
<1>1. /\ UNCHANGED client /\ pc \in {"await", "gated"} /\ pc \notin Over /\ pc \in InQueue
      /\ channel' = [k \in Kinds |-> channel'[k]] /\ Submitted' = Submitted
  BY DEF TakeConfirmation, GatedDone, signals, Receive, Channel, NameInv, NamesType, Submitted, Over, InQueue, Kinds
<1>2. /\ queue \in Seq(AnyPrompt) /\ queue # <<>> /\ queue[1].kind # "results" /\ queue[1].n \in Nat
      /\ plan \in AnyPlan /\ turn \in Nat
  <2>1. /\ queue \in Seq(AnyPrompt) /\ queue # <<>> /\ queue[1].kind # "results"
        /\ plan \in AnyPlan /\ turn \in Nat
    BY <1>1 DEF CapInv, PromptInv, InQueue, TakeConfirmation, GatedDone, Current, Gate
  <2>2. queue[1] \in AnyPrompt
    BY <2>1
  <2>. QED
    BY <2>1, <2>2 DEF AnyPrompt
<1>3. Tail(queue) \in Seq(AnyPrompt) /\ ToolAwait(Tail(queue)) = ToolAwait(queue)
  BY <1>2, AwaitOfTail
<1>4. CASE pc' \in Over \cup {"gated"} /\ UNCHANGED awaiting /\ PreflightedIsAccepted'
  BY <1>1, <1>4, QuietSteps DEF Over, AtRest
<1>5. ASSUME NEW q \in Seq(AnyPrompt), ToolAwait(q) = ToolAwait(queue), queue' = q, UNCHANGED <<head, consumed>>,
             NEW outs, NEW u, NEW ends, NextPrompt(q, outs, u, ends)
      PROVE  NameInv'
  BY <1>1, <1>5, NextPromptPlaces, TakenKeepsNames DEF NameInv
<1>6. CASE TakeConfirmation
  BY <1>3, <1>4, <1>5, <1>6, PlacesOfEnds, WhyOfEnds
     DEF TakeConfirmation, Fail, Begin, Goto, Over, NameInv, PreflightedIsAccepted
<1>7. CASE GatedDone
  <2>1. PICK pausing \in BOOLEAN :
           \/ pc' \in Over /\ UNCHANGED awaiting /\ PreflightedIsAccepted'
           \/ /\ queue' = Tail(queue) \o toolPauseAwaitItems(GatedPause, pausing) /\ UNCHANGED <<head, consumed>>
              /\ NextPrompt(Tail(queue) \o toolPauseAwaitItems(GatedPause, pausing), outcomes', unknown', budget)
    BY <1>7, PlacesOfEnds, WhyOfEnds DEF GatedDone, Fail, Finish, Goto, Over, NameInv, PreflightedIsAccepted
  <2> DEFINE t == toolPauseAwaitItems(GatedPause, pausing)
  <2>2. t \in Seq(AnyPrompt) /\ \A i \in 1 .. Len(t) : t[i].kind # "results"
    <3>1. GatedPause \in Nat
      BY <1>2, Numbers DEF GatedPause, Current
    <3>. QED
      BY <1>2, <3>1, ClarificationType
  <2>. HIDE DEF t
  <2>3. Tail(queue) \o t \in Seq(AnyPrompt) /\ ToolAwait(Tail(queue) \o t) = ToolAwait(queue)
    BY <1>3, <2>2, AwaitOfConcat, ConcatProperties
  <2>4. CASE queue' = Tail(queue) \o t /\ UNCHANGED <<head, consumed>>
             /\ NextPrompt(Tail(queue) \o t, outcomes', unknown', budget)
    BY <1>5, <2>3, <2>4
  <2>. QED
    BY <1>4, <2>1, <2>4 DEF t
<1>. QED
  BY <1>6, <1>7

\* Clarifications and typed prompts.
LEMMA AnswerKeepsNames == ASSUME CapInv, NameInv, TakeAnswer PROVE NameInv'
<1>1. /\ UNCHANGED client /\ pc = "await" /\ pc \notin Over /\ pc \in InQueue
      /\ channel' = [k \in Kinds |-> channel'[k]] /\ Submitted' = Submitted
      /\ queue[1].kind # "results"
  BY DEF TakeAnswer, Receive, Channel, Current, NameInv, NamesType, Submitted, Over, InQueue, Kinds
<1>2. queue \in Seq(AnyPrompt) /\ queue # <<>>
  BY <1>1 DEF CapInv, PromptInv
<1>3. Tail(queue) \in Seq(AnyPrompt) /\ ToolAwait(Tail(queue)) = ToolAwait(queue)
  BY <1>1, <1>2, AwaitOfTail
<1>4. CASE pc' \in Over /\ UNCHANGED awaiting /\ PreflightedIsAccepted'
  BY <1>1, <1>4, QuietSteps DEF Over, AtRest
<1>5. ASSUME queue' = Tail(queue), head' = ToolAwait(Tail(queue)), consumed' = consumed,
             NEW outs, NEW u, NEW ends, NextPrompt(Tail(queue), outs, u, ends)
      PROVE  NameInv'
  BY <1>1, <1>3, <1>5, NextPromptPlaces, TakenKeepsNames DEF NameInv
<1>. QED
  BY <1>4, <1>5 DEF TakeAnswer, Fail, Over, PreflightedIsAccepted

\* Results in the channel are those that are waited for or were taken before: they
\* never fail the run.
LEMMA ResultsKeepNames == ASSUME CapInv, NameInv, TakeResults PROVE NameInv'
<1>1. /\ UNCHANGED client /\ pc = "await" /\ pc \notin Over /\ queue[1].kind = "results"
      /\ channel' = [k \in Kinds |-> channel'[k]]
      /\ Submitted # <<>> /\ Submitted' = Tail(Submitted) /\ Submitted \in Seq(Answers)
      /\ NamesKnown /\ NamesType
  BY DEF TakeResults, Receive, Channel, Current, NameInv, NamesType, Submitted, Over, Kinds
<1>2. queue \in Seq(AnyPrompt) /\ queue # <<>>
  BY <1>1 DEF CapInv, PromptInv, InQueue
<1>3. ToolAwait(queue) = queue[1]
  BY <1>1, <1>2, AwaitInFront
<1>4. Submitted[1].prompt \in consumed \cup {queue[1]}
  <2>1. 1 \in 1 .. Len(Submitted)
    BY <1>1
  <2>. QED
    BY <1>1, <1>3, <2>1 DEF NamesKnown, Known
<1>5. CASE UNCHANGED <<pc, why, awaiting>>
  <2>1. head' = head /\ consumed' = consumed /\ queue' = queue /\ head \in AnyPrompt \cup {None}
    BY <1>1, <1>5 DEF awaiting, NamesType
  <2>2. NamesType' /\ NamesKnown'
    BY <1>1, <2>1, NamesStay DEF Known
  <2>. QED
    BY <1>5, <2>1, <2>2 DEF NameInv, QueueEnds, PreflightedIsAccepted
<1>6. CASE /\ head' = None /\ consumed' = consumed \cup {queue[1]} /\ queue' = queue
           /\ pc' = "recording" /\ why' = why
  <2>1. NamesType' /\ NamesKnown'
    BY <1>1, <1>6, NamesStay DEF Known
  <2>2. QueueEnds' /\ PreflightedIsAccepted'
    BY <1>1, <1>6 DEF NameInv, QueueEnds, PreflightedIsAccepted, AtRest
  <2>. QED
    BY <2>1, <2>2 DEF NameInv
<1>. QED
  BY <1>4, <1>5, <1>6 DEF TakeResults, Received, Channel, Submitted, Current, Consumed, Goto

\* When results were recorded the next await is shown.
LEMMA RecordedKeepsNames == ASSUME CapInv, NameInv, Recorded PROVE NameInv'
<1>1. /\ UNCHANGED <<client, consumed>> /\ pc = "recording" /\ pc \in InQueue
      /\ channel' = [k \in Kinds |-> channel'[k]] /\ Submitted' = Submitted
      /\ queue[1].kind = "results" /\ queue[1] \in consumed
      /\ queue' = Tail(queue) /\ head' = ToolAwait(queue')
  BY DEF Recorded, NextHead, signals, NameInv, NamesType, QueueEnds, Submitted, InQueue
<1>2. queue \in Seq(AnyPrompt) /\ queue # <<>>
  BY <1>1 DEF CapInv, PromptInv
<1>3. Tail(queue) \in Seq(AnyPrompt) /\ ToolAwait(queue) \in consumed
  BY <1>1, <1>2, AwaitInFront
<1>4. CASE pc' \in Over /\ PreflightedIsAccepted'
  BY <1>1, <1>3, <1>4, TakenKeepsNames DEF Over
<1>5. ASSUME NEW outs, NEW u, NEW ends, NextPrompt(Tail(queue), outs, u, ends) PROVE NameInv'
  BY <1>1, <1>3, <1>5, NextPromptPlaces, TakenKeepsNames DEF NameInv
<1>. QED
  BY <1>4, <1>5 DEF Recorded, Fail, Finish, Goto, Over, NameInv, PreflightedIsAccepted

\* The other steps of the workflow.
LEMMA OthersKeepNames ==
    ASSUME NameInv, \/ TakePause \/ Resume \/ ResumeTimeout \/ TakeMissing \/ PlanDone \/ PlanRecovers
                    \/ PlanError \/ ActivityFails \/ FinalizePlanDone \/ ClosingDone
    PROVE  NameInv'
<1>1. /\ UNCHANGED <<client, awaiting>>
      /\ channel' = [k \in Kinds |-> channel'[k]] /\ Submitted' = Submitted
  BY DEF TakePause, Resume, ResumeTimeout, TakeMissing, PlanDone, PlanRecovers, PlanError, ActivityFails,
         FinalizePlanDone, ClosingDone, signals, Receive, Channel, MissingPrompt, Prompt, NameInv, NamesType,
         Submitted, Kinds
<1>2. /\ pc' \in Over \cup AtRest /\ (pc' \in AtRest => pc \in AtRest)
  BY PlacesOfEnds DEF TakePause, Resume, ResumeTimeout, TakeMissing, PlanDone, PlanRecovers, PlanError,
         ActivityFails, FinalizePlanDone, ClosingDone, Protect, Fail, Finish, Begin, Goto, Over, AtRest
<1>3. PreflightedIsAccepted'
  BY WhyOfEnds DEF TakePause, Resume, ResumeTimeout, TakeMissing, PlanDone, PlanRecovers, PlanError,
         ActivityFails, FinalizePlanDone, ClosingDone, Protect, Fail, Finish, Begin, Goto, NameInv,
         PreflightedIsAccepted
<1>. QED
  BY <1>1, <1>2, <1>3, QuietSteps DEF Over, AtRest

\* A prompt that is answered directly is not one of results.
LEMMA ProvideKeepsNames ==
    ASSUME NameInv, NEW p \in DirectPrompts, NEW named \in BOOLEAN, NEW ok \in BOOLEAN,
           Provide(p, named, ok)
    PROVE  NameInv'
<1>1. Channel(p.kind) \in Kinds \ {"results"}
  BY DEF DirectPrompts, AnyPrompt, Channel, Kinds
<1>2. /\ UNCHANGED <<client, head, consumed, queue, pc, why>>
      /\ channel' = [k \in Kinds |-> channel'[k]] /\ Submitted' = Submitted
  BY <1>1 DEF Provide, workflow, awaiting, NameInv, NamesType, Submitted, Kinds
<1>3. NamesType'
  BY <1>2 DEF NameInv, NamesType
<1>4. NamesKnown => NamesKnown'
  BY <1>2 DEF NamesKnown, Known
<1>. QED
  BY <1>2, <1>3, <1>4 DEF NameInv, QueueEnds, PreflightedIsAccepted

\* A client is told the await that is shown.
LEMMA PreflightKeepsNames == ASSUME NameInv, NEW c \in Clients, Preflight(c) PROVE NameInv'
<1>1. /\ UNCHANGED <<channel, head, consumed, queue, pc, why>>
      /\ client' = [client EXCEPT ![c] = head]
  BY DEF Preflight, workflow, awaiting
<1>2. NamesType'
  BY <1>1 DEF NameInv, NamesType, Submitted
<1>3. NamesKnown => NamesKnown'
  <2>. SUFFICES ASSUME NamesKnown PROVE NamesKnown'
    OBVIOUS
  <2>1. \A d \in Clients : client'[d] # None => Known(client'[d])
    BY <1>1 DEF NamesKnown, NameInv, NamesType
  <2>. QED
    BY <1>1, <2>1 DEF NamesKnown, Known, Submitted
<1>. QED
  BY <1>1, <1>2, <1>3 DEF NameInv, QueueEnds, PreflightedIsAccepted

\* It signals results of the await it was told.
LEMMA SignalKeepsNames == ASSUME NameInv, NEW c \in Clients, SignalResults(c) PROVE NameInv'
<1> DEFINE s == Submitted
           e == [prompt |-> client[c], ok |-> TRUE]
           r == Append(s, e)
<1>1. /\ UNCHANGED <<head, consumed, queue, pc, why>> /\ client[c] # None
      /\ client' = [client EXCEPT ![c] = None]
      /\ channel' = [k \in Kinds |-> channel'[k]] /\ Submitted' = r
  BY DEF SignalResults, workflow, awaiting, NameInv, NamesType, Submitted, Kinds
<1>2. s \in Seq(Answers) /\ e \in Answers /\ e.prompt = client[c]
  BY <1>1 DEF NameInv, NamesType, Answers
<1>. HIDE DEF s, e
<1>3. /\ r \in Seq(Answers) /\ Len(r) = Len(s) + 1 /\ Len(s) \in Nat
      /\ \A i \in 1 .. Len(r) : r[i] = IF i <= Len(s) THEN s[i] ELSE e
  BY <1>2
<1>. HIDE DEF r
<1>4. NamesType'
  BY <1>1, <1>3 DEF NameInv, NamesType
<1>5. ASSUME NamesKnown PROVE NamesKnown'
  <2>1. \A d \in Clients : client'[d] # None => Known(client'[d])
    BY <1>1, <1>5 DEF NamesKnown, NameInv, NamesType
  <2>2. \A i \in 1 .. Len(r) : Known(r[i].prompt)
    <3>. SUFFICES ASSUME NEW i \in 1 .. Len(r) PROVE Known(r[i].prompt)
      OBVIOUS
    <3>1. CASE i <= Len(s)
      BY <1>3, <1>5, <3>1 DEF NamesKnown, s
    <3>2. CASE ~(i <= Len(s))
      BY <1>1, <1>2, <1>3, <1>5, <3>2 DEF NamesKnown
    <3>. QED
      BY <3>1, <3>2
  <2>. QED
    BY <1>1, <1>5, <2>1, <2>2 DEF NamesKnown, Known
<1>. QED
  BY <1>1, <1>4, <1>5 DEF NameInv, QueueEnds, PreflightedIsAccepted

\* Every step keeps names known.
LEMMA NameStep == ASSUME CapInv, ApprovalInv, NameInv, [Next]_vars PROVE NameInv'
<1>1. CASE Workflow
  BY <1>1, TurnKeepsNames, ToolsKeepNames, GatedKeepNames, AnswerKeepsNames, ResultsKeepNames,
     RecordedKeepsNames, OthersKeepNames DEF Workflow
<1>2. CASE Answer \/ AnswerAgain
  <2>1. Published \subseteq AnyPrompt
    BY PublishedType DEF CapInv
  <2>2. PICK p \in DirectPrompts, named \in BOOLEAN, ok \in BOOLEAN : Provide(p, named, ok)
    BY <1>2, <2>1 DEF Answer, AnswerAgain, ApprovalInv, DirectPrompts
  <2>. QED
    BY <2>2, ProvideKeepsNames
<1>3. CASE Pause \/ ResumeRun \/ Tick \/ UNCHANGED vars
  <2>1. UNCHANGED <<client, channel, awaiting, pc, why>>
    BY <1>3 DEF Pause, ResumeRun, Tick, workflow, signals, vars
  <2>. QED
    BY <2>1, QuietSteps DEF NameInv, NamesType, Submitted, PreflightedIsAccepted
<1>. QED
  BY <1>1, <1>2, <1>3, PreflightKeepsNames, SignalKeepsNames DEF Next

\* At the start nothing is named.
LEMMA NameInit == ASSUME Init PROVE NameInv
<1>1. NamesType
  BY DEF Init, NamesType, Submitted, Kinds
<1>2. NamesKnown
  BY DEF Init, NamesKnown, Submitted, Kinds
<1>. QED
  BY <1>1, <1>2, AgentAssumption DEF Init, NameInv, QueueEnds, PreflightedIsAccepted

\* Results that passed the preflight never fail the run, whatever was submitted,
\* repeated or consumed between the query and the signal, for any number of clients.
THEOREM ResultsAreAccepted == Spec => []PreflightedIsAccepted
<1>1. NameInv => PreflightedIsAccepted
  BY DEF NameInv
<1>. QED
  BY <1>1, NameInit, NameStep, ApprovalInit, ApprovalStep, CapInit, CapStep, PTL DEF Spec

=============================================================================
