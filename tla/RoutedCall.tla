----------------------------- MODULE RoutedCall -----------------------------
(***************************************************************************)
(* The life of a routed tool call in the registry: the Redis call record   *)
(* and its Lua scripts (registry/call_decision.go, call_admission.go,      *)
(* bounded_publish.go), the service handlers that run several scripts in a *)
(* row (CallTool, RetryTool, ReleaseProvider in registry/service.go), the  *)
(* settlement scanner (registry/call_settlement.go) and the provider       *)
(* workers that claim and complete (runtime/toolregistry/provider).        *)
(*                                                                         *)
(* A script is one atomic step: it sees one record, one catalog record and *)
(* one clock.  Everything else interleaves: callers with the same tool-use *)
(* identity on several replicas, redelivered requests, late completions,   *)
(* lapsing leases, rollouts, settlement on several replicas, expiry of the *)
(* record, and callers that vanish between two scripts.                    *)
(*                                                                         *)
(* The catalog is AdmissionAuthority, which ToolsetCatalog implements.     *)
(***************************************************************************)
EXTENDS AdmissionAuthority, Sequences, FiniteSets

CONSTANTS
    Calls,             \* tool-use identities
    Callers,           \* concurrent CallTool / RetryTool handlers
    Scanners,          \* settlement trackers, one per replica
    Releasers,         \* concurrent ReleaseProvider handlers
    Digests,           \* immutable request identities
    NoLease,
    ExecutionTimeout,  \* admission to execution deadline
    RecordTTL,         \* admission to expiry of the record and result stream
    QueueBound,        \* unacknowledged requests at which publication stops
    MaxDeltas,         \* output fragments of one call
    LastAdmission,     \* bound: no call is begun for an absent record after this time
    MaxRequests,       \* bound: requests published to the toolset stream
    MaxEvents          \* bound: a stream with as many events is not lost any more

ASSUME CallAssumption ==
    /\ NoLease \notin Leases
    /\ {"outcome_unknown", "stale_registration"} \cap (Leases \cup {NoLease}) = {}
    /\ "none" \notin Digests
    /\ ExecutionTimeout \in Nat \ {0}
    /\ RecordTTL \in Nat
    /\ RecordTTL > ExecutionTimeout
    /\ QueueBound \in Nat \ {0}
    /\ MaxDeltas \in Nat
    /\ LastAdmission \in Nat
    /\ MaxRequests \in Nat
    /\ MaxEvents \in Nat

VARIABLES
    record,      \* the call record of every tool-use identity
    result,      \* every event appended to the result stream of an identity
    lost,        \* how many of those events the stream no longer holds
    requests,    \* the toolset request stream; an event's id is its position
    acked,       \* requests acknowledged by the consumer group
    settlement,  \* settlement index: call -> score, 0 when not a member
    leaseIndex,  \* the per-lease indexes: <<call, token, lease>>
    membership,  \* call -> the lease index it is in
    caller,      \* what every caller is doing
    settler,     \* what every tracker and every release is doing
    running,     \* claims granted to a worker that has not finished
    grants       \* history: executions granted under the current record

callVars == <<record, result, lost, requests, acked, settlement, leaseIndex, membership,
              caller, settler, running, grants>>
vars == <<authorityVars, callVars>>

-----------------------------------------------------------------------------
(* Call records. *)

NoIndex == <<NoToken, NoLease>>

NoRecord ==
    [decision |-> "none", digest |-> "none", token |-> NoToken, deadline |-> 0, expiresAt |-> 0,
     publication |-> 0, claims |-> {}, overload |-> 0, overloadEvent |-> 0, overloaded |-> {},
     cause |-> "none", payload |-> NoLease, terminalEvent |-> 0,
     dispatchLease |-> NoLease, dispatchRequest |-> 0, dispatchToken |-> NoToken, deltas |-> 0,
     firstEvent |-> 0]

Unknown == "outcome_unknown"
Stale == "stale_registration"

Admitted(c) == record[c].decision = "admitted"
Published(r) == r.publication # 0
Terminal(r) == r.cause # "none"
Dispatched(r) == r.dispatchLease # NoLease

\* firstEvent is history: the first result event of this admission.
NewAdmission(c, digest, token) ==
    [NoRecord EXCEPT !.decision = "admitted", !.digest = digest, !.token = token,
                     !.deadline = clock + ExecutionTimeout, !.expiresAt = clock + RecordTTL,
                     !.firstEvent = Len(result[c]) + 1]

NewRejection(digest) ==
    [NoRecord EXCEPT !.decision = "rejected", !.digest = digest, !.expiresAt = clock + RecordTTL]

(* The id of a result event is its position among all events ever appended *)
(* for the identity; the first lost[c] of them are gone from the stream.   *)
Emit(c, kind, payload) ==
    result' = [result EXCEPT ![c] = Append(@, [kind |-> kind, payload |-> payload])]
NextEvent(c) == Len(result[c]) + 1
Retained(c, event) == lost[c] < event

\* Mutant: the settlement index is forgotten.
Unindex_KeepsScore(c, index) ==
    /\ leaseIndex' = leaseIndex \ {<<c, index[1], index[2]>>}
    /\ membership' = [membership EXCEPT ![c] = NoIndex]
    /\ UNCHANGED settlement

Unindex(c, index) ==
    /\ settlement' = [settlement EXCEPT ![c] = 0]
    /\ leaseIndex' = leaseIndex \ {<<c, index[1], index[2]>>}
    /\ membership' = [membership EXCEPT ![c] = NoIndex]

\* The end of a call: the terminal event and the record of it in one script,
\* which also drops the call from the settlement indexes.
Terminate(c, cause, payload, index) ==
    /\ Emit(c, "terminal", payload)
    /\ record' = [record EXCEPT ![c].cause = cause, ![c].payload = payload,
                                ![c].terminalEvent = NextEvent(c)]
    /\ Unindex(c, index)

indexVars == <<settlement, leaseIndex, membership>>
streamVars == <<requests, acked>>

-----------------------------------------------------------------------------
(* Callers: CallTool and RetryTool.                                        *)

IdleCaller == [pc |-> "idle", call |-> NoLease, digest |-> "none", token |-> NoToken, overload |-> 0]

At(pc, c, d) == [IdleCaller EXCEPT !.pc = pc, !.call = c, !.digest = d]

Goto(k, pc) == caller' = [caller EXCEPT ![k].pc = pc]
Return(k) == caller' = [caller EXCEPT ![k] = IdleCaller]

\* A caller that found an admitted record: replay it, or go on to route it.
Follow(k, r, unpublished) ==
    IF Terminal(r) THEN Goto(k, "restore")
    ELSE IF Published(r) THEN Return(k)
    ELSE caller' = [caller EXCEPT ![k].pc = unpublished, ![k].token = r.token]

\* The records that admitted_state_error, in the attach script, does not refuse.
admitted_state_ok(r) ==
    /\ r.expiresAt > r.deadline
    /\ Published(r) => r.publication \in r.claims
    /\ Terminal(r) => Published(r) /\ r.terminalEvent # 0 /\ r.payload # NoLease
    /\ ~Terminal(r) => r.terminalEvent = 0 /\ r.payload = NoLease
    /\ ~Published(r) => r.overload = 0 /\ r.overloadEvent = 0 /\ ~Dispatched(r)
    /\ r.overload <= r.overloadEvent
    /\ Dispatched(r) => r.dispatchToken = r.token /\ r.dispatchRequest = r.publication
    /\ r.deltas <= MaxDeltas

Matches(c, d) == record[c].decision = "admitted" /\ record[c].digest = d
Attaches(c, d) == Matches(c, d) /\ admitted_state_ok(record[c])
Found(k) == Attaches(caller[k].call, caller[k].digest)

\* CallTool: attach to the decision that exists, if there is one.
CallTool(k, c, d) ==
    /\ caller[k].pc = "idle"
    /\ caller' = [caller EXCEPT ![k] =
          IF record[c].decision = "none"
          THEN At("resolve", c, d)
          ELSE IF ~Attaches(c, d) THEN IdleCaller
          ELSE IF Terminal(record[c]) THEN At("restore", c, d)
          ELSE IF Published(record[c]) THEN IdleCaller
          ELSE [At("resume", c, d) EXCEPT !.token = record[c].token]]
    /\ record[c].decision = "none" => clock <= LastAdmission
    /\ UNCHANGED <<authorityVars, record, result, lost, streamVars, indexVars, settler, running, grants>>

callerStep == UNCHANGED <<authorityVars, lost, streamVars, indexVars, settler, running, grants>>

\* The active registration is read and the request checked against it: the
\* tool, the payload schema and the health of the toolset may each refuse it.
ResolveRegistration(k) ==
    /\ caller[k].pc = "resolve"
    /\ \/ open /\ caller' = [caller EXCEPT ![k].pc = "ensure", ![k].token = current]
       \/ Goto(k, "reject")
    /\ callerStep /\ UNCHANGED <<record, result>>

\* Ensure: create the admitted record, or attach to what won the race.
Ensure(k) ==
    LET c == caller[k].call IN
    /\ caller[k].pc = "ensure"
    /\ IF record[c].decision = "none"
       THEN /\ record' = [record EXCEPT ![c] = NewAdmission(c, caller[k].digest, caller[k].token)]
            /\ Goto(k, "initialize")
       ELSE /\ IF Matches(c, caller[k].digest) THEN Goto(k, "ensured") ELSE Return(k)
            /\ UNCHANGED record
    /\ callerStep /\ UNCHANGED result

AttachEnsured(k) ==
    LET c == caller[k].call IN
    /\ caller[k].pc = "ensured"
    /\ IF ~Found(k) \/ (~Published(record[c]) /\ record[c].token # caller[k].token)
       THEN Return(k)
       ELSE Follow(k, record[c], "initialize")
    /\ callerStep /\ UNCHANGED <<record, result>>

\* Reject: store the typed rejection, or attach to the admission that won.
Reject(k) ==
    LET c == caller[k].call IN
    /\ caller[k].pc = "reject"
    /\ IF record[c].decision = "none"
       THEN record' = [record EXCEPT ![c] = NewRejection(caller[k].digest)] /\ Return(k)
       ELSE /\ IF Matches(c, caller[k].digest) THEN Goto(k, "rejected") ELSE Return(k)
            /\ UNCHANGED record
    /\ callerStep /\ UNCHANGED result

AttachRejected(k) ==
    LET c == caller[k].call IN
    /\ caller[k].pc = "rejected"
    /\ IF Found(k) THEN Follow(k, record[c], "resume") ELSE Return(k)
    /\ callerStep /\ UNCHANGED <<record, result>>

\* An admitted call that was never published is routed again only while its
\* own registration is the active one (and still accepts the request).
resumeUnpublishedToolCall(k) ==
    /\ caller[k].pc = "resume"
    /\ \/ open /\ current = caller[k].token /\ Goto(k, "initialize")
       \/ Return(k)
    /\ callerStep /\ UNCHANGED <<record, result>>

InitializeResultStream(k) ==
    LET c == caller[k].call IN
    /\ caller[k].pc = "initialize"
    /\ IF record[c].digest # caller[k].digest
       THEN Return(k) /\ UNCHANGED result
       ELSE IF Terminal(record[c]) \/ Published(record[c]) \/ Len(result[c]) > lost[c]
       THEN Goto(k, "publish") /\ UNCHANGED result
       ELSE IF Admitted(c)
       THEN Goto(k, "publish") /\ Emit(c, "init", NoLease)
       ELSE Return(k) /\ UNCHANGED result
    /\ callerStep /\ UNCHANGED record

\* Requests nobody has acknowledged: unread or pending in the consumer group.
Backlog == {i \in 1..Len(requests) : i \notin acked}

Routable == {l \in Live : l \notin draining}

\* Mutant: an overload retry is published although the call is dispatched.
NothingToPublish_IgnoresDispatch(r, overload) ==
    \/ Terminal(r)
    \/ overload = 0 /\ Published(r)
    \/ overload # 0 /\ r.overload = overload

\* The publication this caller asks for was made, or is not needed any more.
NothingToPublish(r, overload) ==
    \/ Terminal(r)
    \/ overload = 0 /\ Published(r)
    \/ overload # 0 /\ r.overload = overload
    \/ Dispatched(r)

\* Mutant: the bound is exceeded by one.
MayPublish_OffByOne(r, k) ==
    /\ r.digest = caller[k].digest /\ r.decision = "admitted"
    /\ ~NothingToPublish(r, caller[k].overload)
    /\ r.deadline > clock
    /\ open /\ current = caller[k].token /\ Routable # {}
    /\ Cardinality(Backlog) <= QueueBound

MayPublish(r, k) ==
    /\ r.digest = caller[k].digest /\ r.decision = "admitted"
    /\ ~NothingToPublish(r, caller[k].overload)
    /\ r.deadline > clock
    /\ open /\ current = caller[k].token /\ Routable # {}
    /\ Cardinality(Backlog) < QueueBound

\* The bounded publication script: the request is appended and the record
\* names it as the one that may be claimed, or nothing happens.
PublishAdmittedToolCall(k) ==
    LET c == caller[k].call
        id == Len(requests) + 1
    IN
    /\ caller[k].pc = "publish"
    /\ IF MayPublish(record[c], k)
       THEN /\ id <= MaxRequests
            /\ requests' = Append(requests, [call |-> c, token |-> caller[k].token,
                                             overload |-> caller[k].overload])
            /\ record' = [record EXCEPT ![c].publication = id, ![c].claims = @ \cup {id},
                                        ![c].overload = caller[k].overload]
       ELSE UNCHANGED <<requests, record>>
    /\ Return(k)
    /\ UNCHANGED <<authorityVars, result, lost, acked, indexVars, settler, running, grants>>

\* RestoreTerminal: the terminal event is appended again when the stream lost it.
RestoreTerminal(k) ==
    LET c == caller[k].call IN
    /\ caller[k].pc = "restore"
    /\ IF Terminal(record[c]) /\ ~Retained(c, record[c].terminalEvent)
       THEN /\ Emit(c, "terminal", record[c].payload)
            /\ record' = [record EXCEPT ![c].terminalEvent = NextEvent(c)]
       ELSE UNCHANGED <<record, result>>
    /\ Return(k)
    /\ callerStep

\* RetryTool, made by an executor that read a retry event of this call and
\* expects the registration the event names.
RetryTool(k, c, d) ==
    /\ caller[k].pc = "idle"
    /\ \E i \in 1..Len(result[c]) : result[c][i] = [kind |-> "retry", payload |-> record[c].token]
    /\ Attaches(c, d)
    /\ caller' = [caller EXCEPT ![k] =
          IF Terminal(record[c]) THEN At("restore", c, d)
          ELSE [At("reroute", c, d) EXCEPT !.token = record[c].token,
                                           !.overload = record[c].overloadEvent]]
    /\ callerStep /\ UNCHANGED <<record, result>>

\* The original registration still routes, and the overload delay passes;
\* otherwise a terminal that was committed meanwhile is looked up once more.
RouteRetry(k) ==
    /\ caller[k].pc = "reroute"
    /\ \/ /\ open /\ current = caller[k].token
          /\ IF caller[k].overload = 0 THEN Return(k) ELSE Goto(k, "initialize")
       \/ Goto(k, "unroutable")
    /\ callerStep /\ UNCHANGED <<record, result>>

retryTerminalOrError(k) ==
    LET c == caller[k].call IN
    /\ caller[k].pc = "unroutable"
    /\ IF Found(k) /\ Terminal(record[c]) THEN Goto(k, "restore") ELSE Return(k)
    /\ callerStep /\ UNCHANGED <<record, result>>

\* A caller vanishes between two scripts: its replica crashed, or the request
\* was cancelled.
Abandon(k) ==
    /\ caller[k].pc # "idle"
    /\ Return(k)
    /\ callerStep /\ UNCHANGED <<record, result>>

-----------------------------------------------------------------------------
(* Providers.  A worker acts with the token and the lease of its provider; *)
(* the scripts refuse one whose lease has no authority under the current   *)
(* admission, so a worker that gets anywhere acts for a lease in Live and  *)
(* for the token current.  Any unacknowledged request may be delivered to  *)
(* any provider, and delivered again.                                      *)

Ack(i) == acked' = acked \cup {i}

\* The acknowledgement follows the script; a provider that stops in between
\* leaves the request to be delivered again.
MayAck(i) == Ack(i) \/ UNCHANGED acked

\* The record is the one that published request i.
Owns(r, i) == r.token = requests[i].token /\ i \in r.claims

\* Mutant: a redelivered request is claimed again.
Settled_IgnoresDispatch(r, i) ==
    \/ r.decision = "none"
    \/ r.decision = "admitted" /\ (~Owns(r, i) \/ Terminal(r) \/ r.deadline <= clock)

\* A delivered request that is only to be acknowledged: its record is gone or
\* belongs to another admission, or the call is over or not dispatchable.
Settled(r, i) ==
    \/ r.decision = "none"
    \/ r.decision = "admitted" /\ (~Owns(r, i) \/ Terminal(r) \/ r.deadline <= clock \/ Dispatched(r))

Deliverable(l, i) ==
    /\ l \in Live
    /\ i \in Backlog
    \* A rejected record carries no tool-use id: the script fails and changes nothing.
    /\ record[requests[i].call].decision # "rejected"

ClaimVoid(l, i) ==
    LET r == record[requests[i].call] IN
    /\ Deliverable(l, i)
    /\ Settled(r, i) \/ r.publication # i
    /\ Ack(i)
    /\ UNCHANGED <<authorityVars, record, result, lost, requests, indexVars, caller, settler, running, grants>>

ClaimStale(l, i) ==
    LET c == requests[i].call IN
    /\ Deliverable(l, i)
    /\ ~Settled(record[c], i) /\ record[c].publication = i
    /\ requests[i].token # current
    /\ Terminate(c, "stale_admission", Stale, NoIndex)
    /\ MayAck(i)
    /\ UNCHANGED <<authorityVars, lost, requests, caller, settler, running, grants>>

\* Mutant: the lease alone says when the call is due.
SettlementDue_IgnoresDeadline(r, l) == expires[l]

\* A dispatched call is due when its lease lapses or its deadline comes.
SettlementDue(r, l) == IF r.deadline < expires[l] THEN r.deadline ELSE expires[l]

\* Dispatch ownership is granted, and indexed under the lease that holds it.
Claim(l, i) ==
    LET c == requests[i].call
        r == record[c]
    IN
    /\ Deliverable(l, i)
    /\ ~Settled(r, i) /\ r.publication = i
    /\ requests[i].token = current
    /\ record' = [record EXCEPT ![c].dispatchToken = current, ![c].dispatchLease = l,
                                ![c].dispatchRequest = i]
    /\ settlement' = [settlement EXCEPT ![c] = SettlementDue(r, l)]
    /\ leaseIndex' = leaseIndex \cup {<<c, current, l>>}
    /\ membership' = [membership EXCEPT ![c] = <<current, l>>]
    /\ running' = running \cup {[call |-> c, request |-> i, lease |-> l, token |-> current]}
    /\ grants' = [grants EXCEPT ![c] = @ + 1]
    /\ UNCHANGED <<authorityVars, result, lost, streamVars, caller, settler>>

\* The registry accepts what a worker says of a call: its provider still has
\* authority, and the call is dispatched to exactly this worker.
Authorized(w) ==
    LET r == record[w.call] IN
    /\ w.lease \in Live /\ current = w.token
    /\ Owns(r, w.request)
    /\ r.dispatchToken = w.token /\ r.dispatchLease = w.lease /\ r.dispatchRequest = w.request

\* A worker delivers its result, which is its own: the lease stands for it.
\* The reply may be lost, and the delivery is then repeated, or the worker
\* stops before it acknowledges the request.
Complete(w) ==
    LET r == record[w.call] IN
    /\ IF ~Authorized(w) \/ Terminal(r)
       THEN UNCHANGED <<record, result, indexVars>>
       ELSE IF r.deadline <= clock
       THEN Terminate(w.call, "execution_deadline", Unknown, <<w.token, w.lease>>)
       ELSE Terminate(w.call, "provider", w.lease, <<w.token, w.lease>>)
    /\ \/ running' = running \ {w} /\ UNCHANGED acked
       \/ /\ Authorized(w)
          /\ Terminal(r) => r.cause = "execution_deadline" \/ r.payload = w.lease
          /\ running' = running \ {w} /\ Ack(w.request)
       \/ UNCHANGED <<running, acked>>
    /\ UNCHANGED <<authorityVars, lost, requests, caller, settler, grants>>

\* Mutant: output is appended although the call is over.
PublishLiveEvent_AfterTerminal(w) ==
    LET r == record[w.call] IN
    /\ Authorized(w)
    /\ r.deadline > clock /\ r.deltas < MaxDeltas
    /\ Emit(w.call, "delta", w.lease)
    /\ record' = [record EXCEPT ![w.call].deltas = @ + 1]
    /\ UNCHANGED <<authorityVars, lost, streamVars, indexVars, caller, settler, running, grants>>

PublishLiveEvent(w) ==
    LET r == record[w.call] IN
    /\ Authorized(w)
    /\ ~Terminal(r) /\ r.deadline > clock /\ r.deltas < MaxDeltas
    /\ Emit(w.call, "delta", w.lease)
    /\ record' = [record EXCEPT ![w.call].deltas = @ + 1]
    /\ UNCHANGED <<authorityVars, lost, streamVars, indexVars, caller, settler, running, grants>>

\* A provider with a full queue reports a delivered request instead of
\* claiming it.  Whether the request was superseded is not asked.
OverloadVoid(r, i) == Settled(r, i) \/ i \in r.overloaded

ReportOverload(l, i) ==
    LET c == requests[i].call IN
    /\ Deliverable(l, i)
    /\ MayAck(i)
    /\ IF OverloadVoid(record[c], i)
       THEN UNCHANGED <<record, result, indexVars>>
       ELSE IF requests[i].token # current
       THEN Terminate(c, "stale_admission", Stale, NoIndex)
       ELSE /\ Emit(c, "retry", requests[i].token)
            /\ record' = [record EXCEPT ![c].overloadEvent = NextEvent(c),
                                        ![c].overloaded = @ \cup {i}]
            /\ UNCHANGED indexVars
    /\ UNCHANGED <<authorityVars, lost, requests, caller, settler, running, grants>>

\* The workers of a provider process die with it.
Crash(l) ==
    /\ \E w \in running : w.lease = l
    /\ running' = {w \in running : w.lease # l}
    /\ UNCHANGED <<authorityVars, record, result, lost, streamVars, indexVars, caller, settler, grants>>

-----------------------------------------------------------------------------
(* Settlement.  A tracker lists the calls that are due, a release the      *)
(* calls of the lease it withdrew; both then settle them one by one, and   *)
(* every call takes up to three Redis commands: the identity is read, the  *)
(* lease index is read, and a script runs with what was read.              *)

Settlers == Scanners \cup Releasers

IdleSettler == [pc |-> "idle", cause |-> "none", due |-> {}, call |-> NoLease,
                index |-> NoIndex, fallback |-> NoIndex]

settlerStep == UNCHANGED <<authorityVars, lost, streamVars, caller, running, grants>>

\* The batch goes on with the next call, or is over.
Continue(s) ==
    settler' = [settler EXCEPT ![s] =
        IF @.due = {} THEN IdleSettler ELSE [@ EXCEPT !.pc = "identity", !.index = NoIndex]]

SettleLostClaims(s) ==
    LET due == {c \in Calls : settlement[c] # 0 /\ settlement[c] <= clock} IN
    /\ s \in Scanners
    /\ settler[s].pc = "idle"
    /\ due # {}
    /\ settler' = [settler EXCEPT ![s] = [IdleSettler EXCEPT !.pc = "identity",
                      !.cause = "execution_deadline", !.due = due]]
    /\ settlerStep /\ UNCHANGED <<record, result, indexVars>>

\* The catalog gives up the lease if it belongs to the current admission.
ReleaseProvider(s, t, l) ==
    /\ s \in Releasers
    /\ settler[s].pc = "idle"
    /\ IF t = current THEN Withdraw(l) ELSE UNCHANGED authorityVars
    /\ settler' = [settler EXCEPT ![s] = [IdleSettler EXCEPT !.pc = "lease",
                      !.cause = "provider_lease_released", !.fallback = <<t, l>>]]
    /\ UNCHANGED <<lost, streamVars, caller, running, grants, record, result, indexVars>>

SettleLostClaimsForLease(s) ==
    LET due == {c \in Calls : <<c, settler[s].fallback[1], settler[s].fallback[2]>> \in leaseIndex} IN
    /\ settler[s].pc = "lease"
    /\ settler' = [settler EXCEPT ![s] =
          IF due = {} THEN IdleSettler ELSE [@ EXCEPT !.pc = "identity", !.due = due]]
    /\ settlerStep /\ UNCHANGED <<record, result, indexVars>>

ReadIdentity(s, c) ==
    /\ settler[s].pc = "identity"
    /\ c \in settler[s].due
    /\ settler' = [settler EXCEPT ![s].pc = IF Admitted(c) THEN "membership" ELSE "cleanup",
                                  ![s].call = c, ![s].due = @ \ {c}]
    /\ settlerStep /\ UNCHANGED <<record, result, indexVars>>

\* No membership is an error, which ends the whole batch.
ReadMembership(s) ==
    LET index == membership[settler[s].call] IN
    /\ settler[s].pc = "membership"
    /\ settler' = [settler EXCEPT ![s] =
          IF index = NoIndex THEN IdleSettler ELSE [@ EXCEPT !.pc = "settle", !.index = index]]
    /\ settlerStep /\ UNCHANGED <<record, result, indexVars>>

HoldsLease(r) == current = r.dispatchToken /\ r.dispatchLease \in Live

\* Mutants: a call that is over, or was not dispatched, is settled; a call
\* whose lease is lost is dropped.
Unsettled_IgnoresTerminal(r) == Dispatched(r)
Unsettled_IgnoresDispatch(r) == r.decision = "admitted" /\ ~Terminal(r)
Unsettled_DropsLostLease(r) == Dispatched(r) /\ ~Terminal(r) /\ HoldsLease(r)

Unsettled(r) == Dispatched(r) /\ ~Terminal(r)

settleLostClaim(s) ==
    LET c == settler[s].call
        r == record[c]
        index == settler[s].index
    IN
    /\ settler[s].pc = "settle"
    /\ Continue(s)
    /\ IF ~Unsettled(r)
       THEN Unindex(c, index) /\ UNCHANGED <<record, result>>
       ELSE IF clock >= r.deadline
       THEN Terminate(c, settler[s].cause, Unknown, index)
       ELSE IF ~HoldsLease(r)
       THEN Terminate(c, "provider_lease_lost", Unknown, index)
       ELSE /\ settlement' = [settlement EXCEPT ![c] = SettlementDue(r, r.dispatchLease)]
            /\ UNCHANGED <<record, result, leaseIndex, membership>>
    /\ settlerStep

\* The identity was missing when it was read; the indexes are cleared whatever
\* the record is by now.
cleanupSettlementMember(s) ==
    LET c == settler[s].call IN
    /\ settler[s].pc = "cleanup"
    /\ Unindex(c, IF membership[c] # NoIndex THEN membership[c] ELSE settler[s].fallback)
    /\ Continue(s)
    /\ settlerStep /\ UNCHANGED <<record, result>>

-----------------------------------------------------------------------------
(* The environment: time, the catalog, and the result stream. *)

Expired(c, now) == record[c].decision # "none" /\ record[c].expiresAt <= now

\* Time passes; Redis drops records and result streams at their expiry.
Time ==
    /\ Tick
    /\ record' = [c \in Calls |-> IF Expired(c, clock') THEN NoRecord ELSE record[c]]
    /\ lost' = [c \in Calls |-> IF Expired(c, clock') THEN Len(result[c]) ELSE lost[c]]
    /\ grants' = [c \in Calls |-> IF Expired(c, clock') THEN 0 ELSE grants[c]]
    /\ UNCHANGED <<result, streamVars, indexVars, caller, settler, running>>

\* Providers register, renew and drain; admissions are replaced and retired.
Catalog ==
    /\ \/ \E t \in Tokens, l \in Leases : Admit(t, l, clock + LeaseDuration)
       \/ \E l \in Leases : Renew(l, clock + LeaseDuration)
       \/ \E l \in Live :
             Drain(l, IF expires[l] > clock + DrainDuration THEN expires[l] ELSE clock + DrainDuration)
       \/ Retire
    /\ UNCHANGED callVars

\* The result stream is lost before its expiry (trimmed or evicted).
LoseStream(c) ==
    /\ lost[c] < Len(result[c])
    /\ Len(result[c]) < MaxEvents
    /\ lost' = [lost EXCEPT ![c] = Len(result[c])]
    /\ UNCHANGED <<authorityVars, record, result, streamVars, indexVars, caller, settler, running, grants>>

-----------------------------------------------------------------------------
Init ==
    /\ AuthorityInit
    /\ record = [c \in Calls |-> NoRecord]
    /\ result = [c \in Calls |-> <<>>]
    /\ lost = [c \in Calls |-> 0]
    /\ requests = <<>>
    /\ acked = {}
    /\ settlement = [c \in Calls |-> 0]
    /\ leaseIndex = {}
    /\ membership = [c \in Calls |-> NoIndex]
    /\ caller = [k \in Callers |-> IdleCaller]
    /\ settler = [s \in Settlers |-> IdleSettler]
    /\ running = {}
    /\ grants = [c \in Calls |-> 0]

CallerStep(k) ==
    \/ \E c \in Calls, d \in Digests : CallTool(k, c, d) \/ RetryTool(k, c, d)
    \/ ResolveRegistration(k) \/ Ensure(k) \/ AttachEnsured(k) \/ Reject(k) \/ AttachRejected(k)
    \/ resumeUnpublishedToolCall(k) \/ InitializeResultStream(k) \/ PublishAdmittedToolCall(k)
    \/ RestoreTerminal(k) \/ RouteRetry(k) \/ retryTerminalOrError(k) \/ Abandon(k)

ProviderStep ==
    \/ \E l \in Leases, i \in 1..Len(requests) :
          ClaimVoid(l, i) \/ ClaimStale(l, i) \/ Claim(l, i) \/ ReportOverload(l, i)
    \/ \E w \in running : Complete(w) \/ PublishLiveEvent(w)
    \/ \E l \in Leases : Crash(l)

SettlerStep(s) ==
    \/ SettleLostClaims(s)
    \/ SettleLostClaimsForLease(s)
    \/ \E c \in Calls : ReadIdentity(s, c)
    \/ ReadMembership(s) \/ settleLostClaim(s) \/ cleanupSettlementMember(s)

Next ==
    \/ Time
    \/ Catalog
    \/ \E c \in Calls : LoseStream(c)
    \/ \E k \in Callers : CallerStep(k)
    \/ ProviderStep
    \/ \E s \in Settlers : SettlerStep(s)
    \/ \E s \in Releasers, t \in Tokens, l \in Leases : ReleaseProvider(s, t, l)

Spec == Init /\ [][Next]_vars

\* Time goes on and every tracker keeps scanning; nothing else is assumed: no
\* caller, no provider and no release need ever take another step.
FairSpec == Spec /\ WF_vars(Time) /\ \A s \in Scanners : WF_vars(SettlerStep(s))

-----------------------------------------------------------------------------
(* Properties. *)

Causes == {"none", "provider", "execution_deadline", "stale_admission",
           "provider_lease_lost", "provider_lease_released"}
Payloads == Leases \cup {NoLease, Unknown, Stale}

Records ==
    [decision : {"none", "admitted", "rejected"}, digest : Digests \cup {"none"},
     token : Tokens \cup {NoToken}, deadline : Nat, expiresAt : Nat,
     publication : Nat, claims : SUBSET Nat, overload : Nat, overloadEvent : Nat,
     overloaded : SUBSET Nat, cause : Causes, payload : Payloads, terminalEvent : Nat,
     dispatchLease : Leases \cup {NoLease}, dispatchRequest : Nat,
     dispatchToken : Tokens \cup {NoToken}, deltas : Nat, firstEvent : Nat]

Events == [kind : {"init", "delta", "retry", "terminal"}, payload : Payloads \cup Tokens]

CallerStates ==
    [pc : {"idle", "resolve", "ensure", "ensured", "reject", "rejected", "resume", "initialize",
           "publish", "restore", "reroute", "unroutable"},
     call : Calls \cup {NoLease}, digest : Digests \cup {"none"},
     token : Tokens \cup {NoToken}, overload : Nat]

Indexes == (Tokens \cup {NoToken}) \X (Leases \cup {NoLease})

SettlerStates ==
    [pc : {"idle", "lease", "identity", "membership", "settle", "cleanup"}, cause : Causes,
     due : SUBSET Calls, call : Calls \cup {NoLease}, index : Indexes, fallback : Indexes]

\* Every variable has its type.
TypeOK ==
    /\ AuthorityTypeOK
    /\ \A c \in Calls : record[c] \in Records
    /\ \A c \in Calls : \A i \in 1..Len(result[c]) : result[c][i] \in Events
    /\ lost \in [Calls -> Nat]
    /\ \A i \in 1..Len(requests) :
          requests[i] \in [call : Calls, token : Tokens, overload : Nat]
    /\ acked \subseteq 1..Len(requests)
    /\ settlement \in [Calls -> Nat]
    /\ leaseIndex \subseteq Calls \X Tokens \X Leases
    /\ membership \in [Calls -> Indexes]
    /\ caller \in [Callers -> CallerStates]
    /\ settler \in [Settlers -> SettlerStates]
    /\ \A w \in running : w \in [call : Calls, request : Nat, lease : Leases, token : Tokens]
    /\ grants \in [Calls -> Nat]

\* Under one call record a tool is executed at most once, however often its
\* request is redelivered, superseded by an overload retry, or offered to
\* several providers.
AtMostOneExecution == \A c \in Calls : grants[c] <= 1

\* Until it expires, a decision keeps its request identity, registration and
\* deadlines, a dispatch its owner, and a terminal its cause and payload,
\* whatever settlement, completion and restoration race about it.
DecisionIsFinal ==
    [][\A c \in Calls :
         LET r == record[c] n == record'[c] IN
         r.decision # "none" /\ n # NoRecord =>
            /\ \A f \in {"decision", "digest", "token", "deadline", "expiresAt"} : n[f] = r[f]
            /\ Dispatched(r) => \A f \in {"dispatchLease", "dispatchRequest", "dispatchToken"} : n[f] = r[f]
            /\ Terminal(r) => n.cause = r.cause /\ n.payload = r.payload]_vars

\* Under one admission the first terminal event of the result stream ends it:
\* only that same terminal, restored, follows it.
ResultsEndAtTerminal ==
    \A c \in Calls : Admitted(c) =>
        \A i, j \in record[c].firstEvent..Len(result[c]) :
            i < j /\ result[c][i].kind = "terminal" => result[c][j] = result[c][i]

\* admitted_state_error refuses no record the scripts can build: an exact
\* retry can always attach to its call.
AttachAccepts == \A c \in Calls : Admitted(c) => admitted_state_ok(record[c])

\* A dispatched call that is not over is in every settlement index, under the
\* lease it is dispatched to, and due no later than its deadline: otherwise
\* nobody would ever end it if its worker does not.
DispatchedIsIndexed ==
    \A c \in Calls : LET r == record[c] IN Dispatched(r) /\ ~Terminal(r) =>
        /\ settlement[c] \in 1..r.deadline
        /\ membership[c] = <<r.dispatchToken, r.dispatchLease>>
        /\ <<c, r.dispatchToken, r.dispatchLease>> \in leaseIndex

\* A call in the settlement index has a membership: one without would abort
\* every batch at the same place for ever.
NoPoisonedIndex == \A c \in Calls : settlement[c] # 0 => membership[c] # NoIndex

\* A toolset queue never holds more unacknowledged requests than its bound.
QueueIsBounded == Cardinality(Backlog) <= QueueBound

\* "Exact retries return the original event ID without consuming another queue
\* slot or appending another request": one overload, one request.
OneRequestPerOverload ==
    \A i, j \in 1..Len(requests) :
        requests[i].overload # 0 /\ requests[i].overload = requests[j].overload
            /\ requests[i].call = requests[j].call => i = j

\* A queued request always meets a record that the claim script can answer:
\* none, or an admitted one.
ClaimsAreAnswered == \A i \in Backlog : record[requests[i].call].decision # "rejected"

\* A dispatched call comes to an end, whatever becomes of its worker and its
\* provider, if its deadline comes before the clock stops and its record is
\* not gone by then.
EveryDispatchEnds ==
    \A c \in Calls :
        Dispatched(record[c]) /\ record[c].deadline <= MaxTime
            ~> Terminal(record[c]) \/ record[c] = NoRecord

\* The call records implement the abstract tool call.
Stage(r) ==
    IF r.decision = "none" THEN "free"
    ELSE IF r.decision = "rejected" THEN "refused"
    ELSE IF Terminal(r) THEN "done"
    ELSE IF Dispatched(r) THEN "executing"
    ELSE "admitted"

Abstract == INSTANCE ToolCall WITH
    call <- [c \in Calls |-> [stage |-> Stage(record[c]), owner |-> record[c].dispatchLease,
                              outcome |-> record[c].payload]]

\* A tool-use identity is decided once, executed at most once and ends once,
\* with the result of the worker it was dispatched to or an unknown outcome,
\* although five scripts and several replicas write its record.
ImplementsToolCall == Abstract!CallSpec
=============================================================================
