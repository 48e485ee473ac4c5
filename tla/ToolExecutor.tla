---------------------------- MODULE ToolExecutor ----------------------------
(***************************************************************************)
(* The agent-side executor of registry-routed tool calls                   *)
(* (runtime/toolregistry/executor), on top of what the registry promises   *)
(* about a call (ToolCall, implemented by RoutedCall).                     *)
(*                                                                         *)
(* An attempt is one run of Execute.  The attempts of one call share its   *)
(* identity and may overlap: the engine retries an activity whose first    *)
(* run it believes dead.  An attempt asks for the call, opens the result   *)
(* stream, reads it from its oldest event and tells the planner what       *)
(* became of the call.  Requests and replies may be lost, and a request    *)
(* that its attempt gave up on may still reach the registry.  The          *)
(* retention of a call is longer than its attempts, so the registry does   *)
(* not forget calls here.  The attempts of a call run in executors with    *)
(* the same tool specifications.                                           *)
(***************************************************************************)
EXTENDS ToolCall, Naturals, Sequences

CONSTANTS
    Attempts,
    CallOf,     \* the call an attempt is made for
    Routable,   \* calls of a tool with a specification that names its toolset
    MaxEvents   \* bound: overload retries are reported only below this stream length

ASSUME ExecutorAssumption ==
    /\ NoLease \notin Leases /\ Unknown \notin Leases /\ Stale \notin Leases
    /\ Unknown # NoLease /\ Stale # NoLease /\ Unknown # Stale
    /\ CallOf \in [Attempts -> Calls] /\ Routable \subseteq Calls
    /\ MaxEvents \in Nat

VARIABLES
    reply,    \* the code the worker of every call answered with
    stream,   \* the result stream of every call
    attempt,  \* where every attempt is, and how far it has read
    stray,    \* calls whose request is still under way although its attempt ended
    answer    \* what every attempt told the planner

vars == <<call, reply, stream, attempt, stray, answer>>

\* The codes of terminal events.  A worker answers with any of them: its result
\* or an error, whose code the registry passes on; the error of invalid
\* arguments may name fields that are missing.
Codes == {"ok", "invalid_arguments", "missing_fields", "service_unavailable", "rate_limited", "timeout",
          "stale_registration", "outcome_unknown", "application_failure"}

\* Events carry the registration token of their admission: a foreign one is
\* from an earlier admission under the same identity.
Event(kind, code) == [kind |-> kind, code |-> code, foreign |-> FALSE]
Leftover(code) == [kind |-> "terminal", code |-> code, foreign |-> TRUE]

Init ==
    /\ CallInit
    /\ reply = [c \in Calls |-> "none"]
    /\ stream \in [Calls -> {<<>>, <<Leftover("ok")>>, <<Leftover("stale_registration")>>}]
    /\ \A c \in Calls \ Routable : stream[c] = <<>>
    /\ attempt = [a \in Attempts |-> [pc |-> "idle", pos |-> 0]]
    /\ stray = {}
    /\ answer = [a \in Attempts |-> "none"]

-----------------------------------------------------------------------------
(* The registry. *)

Emit(c, e) == stream' = [stream EXCEPT ![c] = Append(@, e)]

\* The terminal event of a finished call: what its worker answered, or what the
\* registry says of a call that nobody answered.
Code(c) ==
    CASE call[c].outcome = Stale -> "stale_registration"
      [] call[c].outcome = Unknown -> "outcome_unknown"
      [] OTHER -> reply[c]

Terminal(c) == Event("terminal", Code(c))
HasTerminal(c) == \E i \in 1 .. Len(stream[c]) : stream[c][i] = Terminal(c)

\* CallTool: the call is decided, or the decision is there already.  A replay
\* of a finished call restores its terminal event.
Serve(c) ==
    \/ /\ \E stage \in {"refused", "admitted"} : Decide(c, stage)
       /\ UNCHANGED stream
    \/ /\ call[c] # Free
       /\ IF call[c].stage = "done" /\ ~HasTerminal(c) THEN Emit(c, Terminal(c)) ELSE UNCHANGED stream
       /\ UNCHANGED call

StrayArrives(c) ==
    /\ c \in stray /\ stray' = stray \ {c}
    /\ Serve(c)
    /\ UNCHANGED <<reply, attempt, answer>>

Execute(c, l) ==
    /\ Dispatch(c, l)
    /\ UNCHANGED <<reply, stream, attempt, stray, answer>>

Overload(c) ==
    /\ call[c].stage = "admitted" /\ Len(stream[c]) < MaxEvents
    /\ Emit(c, Event("retry", "none"))
    /\ UNCHANGED <<call, reply, attempt, stray, answer>>

Output(c) ==
    /\ call[c].stage = "executing" /\ Len(stream[c]) < MaxEvents
    /\ Emit(c, Event("delta", "none"))
    /\ UNCHANGED <<call, reply, attempt, stray, answer>>

Settle(c) ==
    /\ \/ GiveUp(c) /\ UNCHANGED reply
       \/ Finish(c, Unknown) /\ UNCHANGED reply
       \/ \E l \in Leases, code \in Codes : Finish(c, l) /\ reply' = [reply EXCEPT ![c] = code]
    /\ Emit(c, Event("terminal", Code(c)'))
    /\ UNCHANGED <<attempt, stray, answer>>

\* The stream is lost; a reader goes on with what comes next.
LoseStream(c) ==
    /\ stream[c] # <<>>
    /\ stream' = [stream EXCEPT ![c] = <<>>]
    /\ attempt' = [a \in Attempts |-> IF CallOf[a] = c THEN [attempt[a] EXCEPT !.pos = 0]
                                                       ELSE attempt[a]]
    /\ UNCHANGED <<call, reply, stray, answer>>

-----------------------------------------------------------------------------
(* Execute. *)

Goto(a, pc) == attempt' = [attempt EXCEPT ![a].pc = pc]
executorStep == UNCHANGED <<call, reply, stream, stray>>

\* The attempt is over.
Tell(a, what) ==
    /\ attempt' = [attempt EXCEPT ![a].pc = "done"]
    /\ answer' = [answer EXCEPT ![a] = what]

\* The tool is looked up.  Without a specification it is unavailable; without a
\* toolset to route it to, or in an executor that lacks a part, it fails.
Start(a) ==
    /\ attempt[a].pc = "idle"
    /\ IF CallOf[a] \in Routable THEN Goto(a, "asking") /\ UNCHANGED answer
                                ELSE Tell(a, "unavailable") \/ Tell(a, "failed")
    /\ executorStep

RequestArrives(a) ==
    /\ attempt[a].pc = "asking"
    /\ Serve(CallOf[a])
    /\ Goto(a, "decided")
    /\ UNCHANGED <<reply, stray, answer>>

\* An error that proves nothing leaves the outcome unknown.
outcomeUnknownResult(a) == Tell(a, "unknown")

\* No answer to the request, or one that says nothing about the admission.
CallToolFails(a) ==
    /\ attempt[a].pc \in {"asking", "decided"}
    /\ outcomeUnknownResult(a)
    /\ stray' \in {stray, IF attempt[a].pc = "asking" THEN stray \cup {CallOf[a]} ELSE stray}
    /\ UNCHANGED <<call, reply, stream>>

\* The registry replies that it has refused the call: the toolset or tool is
\* not there, or the request is invalid.
preAdmissionFailureResult(a) ==
    /\ attempt[a].pc = "decided" /\ call[CallOf[a]].stage = "refused"
    /\ Tell(a, "unavailable") \/ Tell(a, "rejected")
    /\ executorStep

\* The call is admitted: the stream and a reader are opened, or are not.
OpenStream(a) ==
    /\ attempt[a].pc = "decided" /\ call[CallOf[a]].stage # "refused"
    /\ \/ attempt' = [attempt EXCEPT ![a] = [pc |-> "waiting", pos |-> 0]] /\ UNCHANGED answer
       \/ outcomeUnknownResult(a)
    /\ executorStep

\* Mutant: events of another admission are not told apart.
Matching_AnyToken(e) == TRUE

\* Only events of this admission count.
Matching(e) == ~e.foreign

\* Mutant: every error comes with the advice to call again.
retryHintFromRegistryError_Always(code) ==
    IF code \in {"invalid_arguments", "missing_fields", "rate_limited", "timeout"} THEN code ELSE "unavailable"

\* The advice that comes with an error: correct the call, ask for the missing
\* fields, use another tool or call again later; or none.
retryHintFromRegistryError(code) ==
    CASE code \in {"stale_registration", "service_unavailable"} -> "unavailable"
      [] code \in {"invalid_arguments", "missing_fields", "rate_limited", "timeout"} -> code
      [] OTHER -> "none"

\* What the planner may be told of a terminal event: the result, which may not
\* match its schema, an error with advice, or an error without.
decodeToolResult(code) ==
    IF code = "ok" THEN {"result", "failed"}
    ELSE IF retryHintFromRegistryError(code) # "none" THEN {retryHintFromRegistryError(code)}
    ELSE {"failed"}

\* The next event of the stream: output and events of other admissions are
\* passed over, a retry is asked for, a terminal event is the answer.
Read(a) ==
    LET c == CallOf[a]
        e == stream[c][attempt[a].pos + 1]
    IN
    /\ attempt[a].pc = "waiting" /\ attempt[a].pos < Len(stream[c])
    /\ IF ~Matching(e) \/ e.kind = "delta"
       THEN attempt' = [attempt EXCEPT ![a].pos = @ + 1] /\ UNCHANGED answer
       ELSE IF e.kind = "retry"
       THEN attempt' = [attempt EXCEPT ![a] = [pc |-> "retrying", pos |-> @.pos + 1]] /\ UNCHANGED answer
       ELSE \E what \in decodeToolResult(e.code) : Tell(a, what)
    /\ executorStep

\* RetryTool returns the same call, or fails.
RetryTool(a) ==
    /\ attempt[a].pc = "retrying"
    /\ \/ Goto(a, "waiting") /\ UNCHANGED answer
       \/ outcomeUnknownResult(a)
    /\ executorStep

\* Mutant: the wait has no deadline of its own.
ExecutionDeadline_Never(a) ==
    /\ attempt[a].pc = "waiting" /\ call[CallOf[a]].stage = "done"
    /\ outcomeUnknownResult(a)
    /\ executorStep

\* The execution deadline passes, or the subscription closes; a terminal event
\* that is there to be read may lose against it.
ExecutionDeadline(a) ==
    /\ attempt[a].pc = "waiting"
    /\ outcomeUnknownResult(a)
    /\ executorStep

\* The caller's context ends, or a terminal event cannot be decoded: Execute
\* returns an error, and the planner is told nothing.
ExecuteError(a) ==
    /\ attempt[a].pc = "waiting"
    /\ Tell(a, "none")
    /\ executorStep

Finished == (\A a \in Attempts : attempt[a].pc = "done") /\ UNCHANGED vars

Next ==
    \/ \E c \in Calls :
          \/ StrayArrives(c) \/ Overload(c) \/ Output(c) \/ Settle(c) \/ LoseStream(c)
          \/ \E l \in Leases : Execute(c, l)
    \/ \E a \in Attempts :
          \/ Start(a) \/ RequestArrives(a) \/ CallToolFails(a) \/ preAdmissionFailureResult(a)
          \/ OpenStream(a) \/ Read(a) \/ RetryTool(a) \/ ExecutionDeadline(a) \/ ExecuteError(a)
    \/ Finished

Spec == Init /\ [][Next]_vars

\* Fairness: requests are answered or time out, and the execution deadline
\* comes.  Nothing is asked of the registry or of providers.
FairSpec ==
    /\ Spec
    /\ \A a \in Attempts :
          /\ WF_vars(CallToolFails(a) \/ preAdmissionFailureResult(a) \/ OpenStream(a))
          /\ WF_vars(RetryTool(a))
          /\ SF_vars(ExecutionDeadline(a))

-----------------------------------------------------------------------------
(* Properties. *)

\* What tells the planner that it may call again.
Invitations == {"unavailable", "invalid_arguments", "missing_fields", "rate_limited", "timeout", "rejected"}

Answers == Invitations \cup {"none", "result", "failed", "unknown"}

\* The attempts, streams and answers have their shapes.
TypeOK ==
    /\ call \in [Calls -> [stage : {"free", "refused", "admitted", "executing", "done"},
                           owner : Leases \cup {NoLease},
                           outcome : Leases \cup {NoLease, Unknown, Stale}]]
    /\ reply \in [Calls -> Codes \cup {"none"}]
    /\ stream \in [Calls -> Seq([kind : {"retry", "delta", "terminal"}, foreign : BOOLEAN,
                                  code : Codes \cup {"none"}])]
    /\ attempt \in [Attempts -> [pc : {"idle", "asking", "decided", "waiting", "retrying", "done"},
                                 pos : Nat]]
    /\ \A a \in Attempts : attempt[a].pos <= Len(stream[CallOf[a]])
    /\ stray \subseteq Calls
    /\ answer \in [Attempts -> Answers]

Executed(c) == call[c].owner # NoLease

\* The planner is invited to call again only if no provider has executed the
\* call and none will, not through another attempt and not through a request
\* that was thought lost; or if the provider that executed it has answered, and
\* with an error other than an unknown outcome.
InvitationIsSettled ==
    \A a \in Attempts : answer[a] \in Invitations =>
        \/ ~Executed(CallOf[a])
        \/ /\ call[CallOf[a]].outcome \in Leases /\ answer[a] # "rejected"
           /\ reply[CallOf[a]] \notin {"ok", "outcome_unknown"}

\* A result is what the provider that executed this call returned, never a
\* leftover of an earlier admission.
ResultIsOfThisCall ==
    \A a \in Attempts :
        answer[a] = "result" => call[CallOf[a]].outcome \in Leases /\ reply[CallOf[a]] = "ok"

\* A call whose outcome is unknown is never told as anything else: the planner
\* must not take it for an ordinary failure.
UnknownIsTold ==
    \A a \in Attempts :
        attempt[a].pc = "done" /\ call[CallOf[a]].outcome = Unknown
            => answer[a] \in {"unknown", "none"}

\* Every attempt that is started ends, whatever providers and registry do.
AttemptsEnd == \A a \in Attempts : (attempt[a].pc # "idle") ~> (attempt[a].pc = "done")
=============================================================================
