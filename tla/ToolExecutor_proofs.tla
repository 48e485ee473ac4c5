------------------------ MODULE ToolExecutor_proofs ------------------------
(***************************************************************************)
(* Proofs about the agent-side executor.  What the planner is told is read *)
(* long after the registry decided it, by attempts that overlap and whose  *)
(* requests may arrive late.  The argument is that the facts an answer     *)
(* rests on are final: a refused call and a finished call never change     *)
(* again, and a terminal event of this admission says what the finished    *)
(* call says.                                                              *)
(***************************************************************************)
EXTENDS ToolExecutor, TLAPS

\* A call has an owner from its dispatch on, and an outcome once it is done;
\* a call given up as stale never had an owner.
CallShape ==
    \A c \in Calls :
        /\ call[c].stage \in {"free", "refused", "admitted"}
              => call[c].owner = NoLease /\ call[c].outcome = NoLease
        /\ call[c].stage = "executing" => call[c].owner \in Leases /\ call[c].outcome = NoLease
        /\ call[c].stage = "done" =>
              \/ call[c].owner = NoLease /\ call[c].outcome = Stale
              \/ call[c].owner \in Leases /\ call[c].outcome \in {call[c].owner, Unknown}

\* A terminal event of this admission is that of the finished call.
TerminalIsOutcome ==
    \A c \in Calls : \A i \in 1 .. Len(stream[c]) :
        stream[c][i].kind = "terminal" /\ ~stream[c][i].foreign
            => call[c].stage = "done" /\ stream[c][i].code = Code(c)

\* Nobody asks for a call whose tool is not known.
NeverAsked ==
    /\ \A c \in Calls \ Routable : call[c].stage = "free"
    /\ \A a \in Attempts : CallOf[a] \notin Routable => attempt[a].pc \in {"idle", "done"}
    /\ stray \subseteq Routable

\* What an answer says is what the call became.
Refused(c) == call[c].stage = "refused" \/ (call[c].stage = "done" /\ call[c].outcome = Stale)
Replied(c) == call[c].stage = "done" /\ call[c].outcome \in Leases
Earned(a, what) ==
    /\ what \in Invitations =>
          \/ CallOf[a] \notin Routable \/ Refused(CallOf[a])
          \/ Replied(CallOf[a]) /\ what # "rejected" /\ reply[CallOf[a]] \notin {"ok", "outcome_unknown"}
    /\ what = "result" => Replied(CallOf[a]) /\ reply[CallOf[a]] = "ok"
AnswerIsEarned == \A a \in Attempts : Earned(a, answer[a])

ExecutorInv == TypeOK /\ CallShape /\ TerminalIsOutcome /\ NeverAsked /\ AnswerIsEarned

\* What a step of the registry may do to the calls: a decision is taken, a
\* dispatch, an end; never anything after a refusal or an end.
Settled(c) == call[c].stage \in {"refused", "done"}
CallsMoveOn == \A c \in Calls : Settled(c) => call'[c] = call[c] /\ reply'[c] = reply[c]

Outcomes == Leases \cup {NoLease, Unknown, Stale}
CallRecord == [stage : {"free", "refused", "admitted", "executing", "done"},
               owner : Leases \cup {NoLease}, outcome : Outcomes]
EventRecord == [kind : {"retry", "delta", "terminal"}, foreign : BOOLEAN, code : Codes \cup {"none"}]
Places == [pc : {"idle", "asking", "decided", "waiting", "retrying", "done"}, pos : Nat]

-----------------------------------------------------------------------------
(* The calls. *)

\* A decision, a dispatch and an end keep the shape of the calls and leave
\* settled ones and other calls alone.
LEMMA CallAction ==
    ASSUME call \in [Calls -> CallRecord], CallShape, NEW c \in Calls,
           \/ \E stage \in {"refused", "admitted"} : Decide(c, stage)
           \/ \E l \in Leases : Dispatch(c, l)
           \/ \E outcome \in Leases \cup {Unknown} : Finish(c, outcome)
           \/ GiveUp(c)
    PROVE  /\ call' \in [Calls -> CallRecord] /\ CallShape'
           /\ ~Settled(c) /\ \A d \in Calls : d # c => call'[d] = call[d]
<1>1. CASE \E stage \in {"refused", "admitted"} : Decide(c, stage)
  BY <1>1 DEF Decide, Free, CallRecord, CallShape, Settled, Outcomes
<1>2. CASE \E l \in Leases : Dispatch(c, l)
  <2>1. PICK l \in Leases : Dispatch(c, l)
    BY <1>2
  <2>2. call[c].stage = "admitted" /\ call' \in [Calls -> CallRecord]
    BY <2>1 DEF Dispatch, CallRecord, Outcomes
  <2>3. call'[c].stage = "executing" /\ call'[c].owner = l /\ call'[c].outcome = call[c].outcome
    BY <2>1 DEF Dispatch, CallRecord, Outcomes
  <2>4. \A d \in Calls : d # c => call'[d] = call[d]
    BY <2>1 DEF Dispatch, CallRecord
  <2> QED BY <2>2, <2>3, <2>4 DEF CallShape, Settled
<1>3. CASE \E outcome \in Leases \cup {Unknown} : Finish(c, outcome)
  <2>1. PICK o \in Leases \cup {Unknown} : Finish(c, o)
    BY <1>3
  <2>2. call[c].stage = "executing" /\ o \in {call[c].owner, Unknown} /\ call' \in [Calls -> CallRecord]
    BY <2>1 DEF Finish, CallRecord, Outcomes
  <2>3. call'[c].stage = "done" /\ call'[c].owner = call[c].owner /\ call'[c].outcome = o
    BY <2>1 DEF Finish, CallRecord, Outcomes
  <2>4. \A d \in Calls : d # c => call'[d] = call[d]
    BY <2>1 DEF Finish, CallRecord
  <2> QED BY <2>2, <2>3, <2>4 DEF CallShape, Settled
<1>4. CASE GiveUp(c)
  BY <1>4 DEF GiveUp, CallRecord, CallShape, Settled, Outcomes
<1> QED BY <1>1, <1>2, <1>3, <1>4

\* The code of a finished call does not change.
LEMMA CodeKept ==
    ASSUME NEW c \in Calls, call'[c] = call[c], reply'[c] = reply[c]
    PROVE  Code(c)' = Code(c)
BY DEF Code

\* The code of a call is one.
LEMMA CodeType ==
    ASSUME NEW c \in Calls, reply[c] \in Codes \cup {"none"}
    PROVE  Code(c) \in Codes \cup {"none"}
BY DEF Code, Codes

\* Answers given keep their ground: nothing they rest on changes.
LEMMA AnswersKept ==
    ASSUME TypeOK, AnswerIsEarned, CallsMoveOn, UNCHANGED answer
    PROVE  AnswerIsEarned'
<1> USE ExecutorAssumption
<1> QED BY DEF TypeOK, AnswerIsEarned, Earned, Refused, Replied, CallsMoveOn, Settled

\* A step of the registry that emits at most one event to a stream, and that
\* a terminal event only for a finished call, keeps the terminal events true.
LEMMA EmitKeeps ==
    ASSUME TypeOK, TerminalIsOutcome, CallsMoveOn, NEW c \in Calls, NEW e \in EventRecord,
           Emit(c, e),
           e.kind = "terminal" => ~e.foreign /\ call'[c].stage = "done" /\ e.code = Code(c)'
    PROVE  /\ stream' \in [Calls -> Seq(EventRecord)]
           /\ \A a \in Attempts : attempt[a].pos <= Len(stream'[CallOf[a]])
           /\ TerminalIsOutcome'
<1> DEFINE s == stream[c]  t == stream'[c]
<1>1. stream \in [Calls -> Seq(EventRecord)]
  BY DEF TypeOK, EventRecord
<1>2. s \in Seq(EventRecord)
  BY <1>1
<1>3. t = Append(s, e) /\ \A d \in Calls \ {c} : stream'[d] = stream[d]
  BY <1>1 DEF Emit
<1>4. stream' \in [Calls -> Seq(EventRecord)]
  BY <1>1, <1>2 DEF Emit
<1>5. Len(t) = Len(s) + 1 /\ Len(s) \in Nat /\ t[Len(s) + 1] = e /\ \A i \in 1 .. Len(s) : t[i] = s[i]
  BY <1>2, <1>3
<1>6. \A a \in Attempts : attempt[a].pos <= Len(stream'[CallOf[a]])
  <2> SUFFICES ASSUME NEW a \in Attempts PROVE attempt[a].pos <= Len(stream'[CallOf[a]])
    OBVIOUS
  <2>1. CallOf[a] \in Calls /\ attempt[a].pos \in Nat /\ attempt[a].pos <= Len(stream[CallOf[a]])
    BY ExecutorAssumption DEF TypeOK
  <2>2. CASE CallOf[a] = c
    BY <1>5, <2>1, <2>2
  <2>3. CASE CallOf[a] # c
    BY <1>3, <2>1, <2>3
  <2> QED BY <2>2, <2>3
<1>7. ASSUME NEW d \in Calls, NEW i \in 1 .. Len(stream'[d]),
             stream'[d][i].kind = "terminal" /\ ~stream'[d][i].foreign
      PROVE  call'[d].stage = "done" /\ stream'[d][i].code = Code(d)'
  <2>1. CASE d # c
    BY <1>3, <1>7, <2>1, CodeKept DEF TerminalIsOutcome, CallsMoveOn, Settled
  <2>2. CASE d = c /\ i = Len(s) + 1
    BY <1>5, <1>7, <2>2
  <2>3. CASE d = c /\ i # Len(s) + 1
    <3>1. i \in 1 .. Len(s) /\ t[i] = s[i]
      BY <1>5, <2>3
    <3> QED BY <1>7, <2>3, <3>1, CodeKept DEF TerminalIsOutcome, CallsMoveOn, Settled
  <2> QED BY <2>1, <2>2, <2>3
<1>8. TerminalIsOutcome'
  BY <1>7 DEF TerminalIsOutcome
<1> QED BY <1>4, <1>6, <1>8

\* Without a new event the terminal events stay true.
LEMMA QuietKeeps ==
    ASSUME TypeOK, TerminalIsOutcome, CallsMoveOn, UNCHANGED stream
    PROVE  TerminalIsOutcome'
BY CodeKept DEF TypeOK, TerminalIsOutcome, CallsMoveOn, Settled

\* A request that reaches the registry, in time or late.
LEMMA ServeKeeps ==
    ASSUME ExecutorInv, NEW c \in Routable, Serve(c), UNCHANGED reply
    PROVE  /\ call' \in [Calls -> CallRecord] /\ CallShape' /\ CallsMoveOn
           /\ stream' \in [Calls -> Seq(EventRecord)]
           /\ \A a \in Attempts : attempt[a].pos <= Len(stream'[CallOf[a]])
           /\ TerminalIsOutcome'
           /\ \A d \in Calls \ Routable : call'[d].stage = "free"
<1>0. c \in Calls
  BY ExecutorAssumption
<1>1. call \in [Calls -> CallRecord] /\ stream \in [Calls -> Seq(EventRecord)]
  BY DEF ExecutorInv, TypeOK, CallRecord, EventRecord, Outcomes
<1>2. CASE (\E stage \in {"refused", "admitted"} : Decide(c, stage)) /\ UNCHANGED stream
  <2>1. /\ call' \in [Calls -> CallRecord] /\ CallShape'
        /\ ~Settled(c) /\ \A d \in Calls : d # c => call'[d] = call[d]
    BY <1>0, <1>1, <1>2, CallAction DEF ExecutorInv
  <2>2. CallsMoveOn
    BY <2>1 DEF CallsMoveOn
  <2>3. TerminalIsOutcome'
    BY <1>2, <2>2, QuietKeeps DEF ExecutorInv
  <2>4. \A d \in Calls \ Routable : call'[d].stage = "free"
    BY <2>1 DEF ExecutorInv, NeverAsked
  <2> QED BY <1>1, <1>2, <2>1, <2>2, <2>3, <2>4 DEF ExecutorInv, TypeOK
<1>3. CASE UNCHANGED <<call, stream>>
  BY <1>1, <1>3, QuietKeeps DEF ExecutorInv, TypeOK, CallShape, CallsMoveOn, NeverAsked
<1>4. CASE UNCHANGED call /\ call[c].stage = "done" /\ Emit(c, Terminal(c))
  <2>1. CallsMoveOn
    BY <1>4 DEF CallsMoveOn
  <2>2. Terminal(c) \in EventRecord
    <3>1. Code(c) \in Codes \cup {"none"}
      BY <1>0, CodeType DEF ExecutorInv, TypeOK
    <3> QED BY <3>1 DEF Terminal, Event, EventRecord
  <2>3. Terminal(c).kind = "terminal" /\ ~Terminal(c).foreign /\ Terminal(c).code = Code(c)'
    BY <1>0, <1>4, CodeKept DEF Terminal, Event
  <2>4. /\ stream' \in [Calls -> Seq(EventRecord)]
        /\ \A a \in Attempts : attempt[a].pos <= Len(stream'[CallOf[a]])
        /\ TerminalIsOutcome'
    BY <1>0, <1>4, <2>1, <2>2, <2>3, EmitKeeps DEF ExecutorInv
  <2> QED BY <1>1, <1>4, <2>1, <2>4 DEF ExecutorInv, CallShape, NeverAsked
<1> QED BY <1>2, <1>3, <1>4 DEF Serve

-----------------------------------------------------------------------------
(* The invariant. *)

\* The initial states: nothing but foreign leftovers in the streams.
LEMMA InitExecutorInv == Init => ExecutorInv
<1> SUFFICES ASSUME Init PROVE ExecutorInv
  OBVIOUS
<1> USE ExecutorAssumption
<1>1. \A c \in Calls : \/ stream[c] = <<>>
                       \/ \E p \in {"ok", "stale_registration"} : stream[c] = <<Leftover(p)>>
  BY DEF Init
<1>2. ASSUME NEW c \in Calls PROVE stream[c] \in Seq(EventRecord)
  <2>1. \A p \in {"ok", "stale_registration"} : Leftover(p) \in EventRecord
    BY DEF Leftover, EventRecord, Codes
  <2>2. CASE stream[c] = <<>>
    BY <2>2
  <2>3. CASE \E p \in {"ok", "stale_registration"} : stream[c] = <<Leftover(p)>>
    <3>1. PICK p \in {"ok", "stale_registration"} : stream[c] = <<Leftover(p)>>
      BY <2>3
    <3>2. PICK e \in EventRecord : e = Leftover(p)
      BY <2>1
    <3>3. <<e>> \in Seq(EventRecord)
      OBVIOUS
    <3> QED BY <3>1, <3>2, <3>3
  <2> QED BY <1>1, <2>2, <2>3
<1>3. DOMAIN stream = Calls /\ stream = [c \in Calls |-> stream[c]]
  BY DEF Init
<1>4. stream \in [Calls -> Seq(EventRecord)]
  BY <1>2, <1>3
<1>5. TypeOK
  <2>1. \A a \in Attempts : attempt[a].pos <= Len(stream[CallOf[a]])
    BY <1>2 DEF Init
  <2> QED BY <1>4, <2>1 DEF Init, CallInit, Free, TypeOK, EventRecord, Answers
<1>6. CallShape
  BY DEF Init, CallInit, Free, CallShape
<1>7. TerminalIsOutcome
  <2> SUFFICES ASSUME NEW c \in Calls, NEW i \in 1 .. Len(stream[c])
               PROVE  stream[c][i].foreign
    BY DEF TerminalIsOutcome
  <2>1. PICK p \in {"ok", "stale_registration"} : stream[c] = <<Leftover(p)>>
    BY <1>1
  <2> QED BY <2>1 DEF Leftover
<1>8. AnswerIsEarned
  BY DEF Init, AnswerIsEarned, Earned, Invitations
<1>9. NeverAsked
  BY DEF Init, CallInit, Free, NeverAsked
<1> QED BY <1>5, <1>6, <1>7, <1>8, <1>9 DEF ExecutorInv

\* A step of the registry: the calls move on, the attempts stay where they are.
LEMMA RegistryMoves ==
    ASSUME ExecutorInv, call' \in [Calls -> CallRecord], reply' \in [Calls -> Codes \cup {"none"}],
           CallShape', CallsMoveOn, stream' \in [Calls -> Seq(EventRecord)], TerminalIsOutcome',
           \A a \in Attempts : attempt[a].pos <= Len(stream'[CallOf[a]]),
           \A d \in Calls \ Routable : call'[d].stage = "free",
           stray' \subseteq stray, UNCHANGED <<attempt, answer>>
    PROVE  ExecutorInv'
<1>1. AnswerIsEarned'
  BY AnswersKept DEF ExecutorInv
<1>2. TypeOK'
  BY DEF ExecutorInv, TypeOK, CallRecord, EventRecord, Outcomes
<1>3. NeverAsked'
  BY DEF ExecutorInv, NeverAsked
<1> QED BY <1>1, <1>2, <1>3 DEF ExecutorInv

\* The worker's answer comes to a call that is not settled yet.
LEMMA SettledKept ==
    ASSUME NEW c \in Calls, ~Settled(c), \A d \in Calls : d # c => call'[d] = call[d],
           \A d \in Calls : d # c => reply'[d] = reply[d]
    PROVE  CallsMoveOn
BY DEF CallsMoveOn

\* The steps of the registry keep the invariant.
LEMMA RegistryStep ==
    ASSUME ExecutorInv, NEW c \in Calls,
           \/ StrayArrives(c) \/ Overload(c) \/ Output(c) \/ Settle(c)
           \/ \E l \in Leases : Execute(c, l)
    PROVE  ExecutorInv'
<1> USE ExecutorAssumption
<1>1. /\ call \in [Calls -> CallRecord] /\ stream \in [Calls -> Seq(EventRecord)]
      /\ reply \in [Calls -> Codes \cup {"none"}]
  BY DEF ExecutorInv, TypeOK, CallRecord, EventRecord, Outcomes
<1>2. \A d \in Calls \ Routable : call[d].stage = "free"
  BY DEF ExecutorInv, NeverAsked
<1>3. CASE StrayArrives(c)
  <2>1. Serve(c) /\ UNCHANGED <<reply, attempt, answer>> /\ stray' \subseteq stray /\ c \in Routable
    BY <1>3 DEF StrayArrives, ExecutorInv, NeverAsked
  <2>2. /\ call' \in [Calls -> CallRecord] /\ CallShape' /\ CallsMoveOn
        /\ stream' \in [Calls -> Seq(EventRecord)]
        /\ \A a \in Attempts : attempt[a].pos <= Len(stream'[CallOf[a]])
        /\ TerminalIsOutcome'
        /\ \A d \in Calls \ Routable : call'[d].stage = "free"
    BY <2>1, ServeKeeps
  <2> QED BY <1>1, <2>1, <2>2, RegistryMoves
<1>4. CASE \E l \in Leases : Execute(c, l)
  <2>1. UNCHANGED <<reply, stream, attempt, stray, answer>> /\ \E l \in Leases : Dispatch(c, l)
    BY <1>4 DEF Execute
  <2>2. /\ call' \in [Calls -> CallRecord] /\ CallShape'
        /\ ~Settled(c) /\ \A d \in Calls : d # c => call'[d] = call[d]
    BY <1>1, <2>1, CallAction DEF ExecutorInv
  <2>3. call[c].stage = "admitted"
    BY <2>1 DEF Dispatch
  <2>4. CallsMoveOn
    BY <2>1, <2>2, SettledKept
  <2>5. TerminalIsOutcome'
    BY <2>1, <2>4, QuietKeeps DEF ExecutorInv
  <2>6. \A d \in Calls \ Routable : call'[d].stage = "free"
    BY <1>2, <2>2, <2>3
  <2>7. \A a \in Attempts : attempt[a].pos <= Len(stream'[CallOf[a]])
    BY <2>1 DEF ExecutorInv, TypeOK
  <2> QED BY <1>1, <2>1, <2>2, <2>4, <2>5, <2>6, <2>7, RegistryMoves
<1>5. CASE Overload(c) \/ Output(c)
  <2>1. PICK e \in {Event("retry", "none"), Event("delta", "none")} : Emit(c, e)
    BY <1>5 DEF Overload, Output
  <2>2. UNCHANGED <<call, reply, attempt, stray, answer>>
    BY <1>5 DEF Overload, Output
  <2>3. e \in EventRecord /\ e.kind # "terminal"
    <3>1. ASSUME NEW k \in {"retry", "delta"}
          PROVE  Event(k, "none") \in EventRecord /\ Event(k, "none").kind # "terminal"
      BY DEF Event, EventRecord
    <3> QED BY <2>1, <3>1
  <2>4. CallsMoveOn /\ CallShape'
    BY <2>2 DEF CallsMoveOn, CallShape, ExecutorInv
  <2>5. /\ stream' \in [Calls -> Seq(EventRecord)]
        /\ \A a \in Attempts : attempt[a].pos <= Len(stream'[CallOf[a]])
        /\ TerminalIsOutcome'
    BY <2>1, <2>3, <2>4, EmitKeeps DEF ExecutorInv
  <2> QED BY <1>1, <1>2, <2>2, <2>4, <2>5, RegistryMoves
<1>6. CASE Settle(c)
  <2>1. /\ GiveUp(c) \/ \E outcome \in Leases \cup {Unknown} : Finish(c, outcome)
        /\ UNCHANGED reply \/ \E code \in Codes : reply' = [reply EXCEPT ![c] = code]
        /\ UNCHANGED <<attempt, stray, answer>> /\ Emit(c, Event("terminal", Code(c)'))
    BY <1>6 DEF Settle
  <2>2. /\ call' \in [Calls -> CallRecord] /\ CallShape'
        /\ ~Settled(c) /\ \A d \in Calls : d # c => call'[d] = call[d]
    BY <1>1, <2>1, CallAction DEF ExecutorInv
  <2>3. reply' \in [Calls -> Codes \cup {"none"}] /\ \A d \in Calls : d # c => reply'[d] = reply[d]
    <3>1. CASE UNCHANGED reply
      BY <1>1, <3>1
    <3>2. CASE \E code \in Codes : reply' = [reply EXCEPT ![c] = code]
      <4>1. PICK code \in Codes : reply' = [reply EXCEPT ![c] = code]
        BY <3>2
      <4> QED BY <1>1, <4>1
    <3> QED BY <2>1, <3>1, <3>2
  <2>4. CallsMoveOn
    BY <2>2, <2>3, SettledKept
  <2>5. call'[c].stage = "done" /\ call[c].stage # "free"
    BY <1>1, <2>1 DEF GiveUp, Finish, CallRecord
  <2>6. PICK code \in Codes \cup {"none"} : code = Code(c)'
    <3>1. reply'[c] \in Codes \cup {"none"}
      BY <2>3
    <3>2. Code(c)' \in Codes \cup {"none"}
      BY <3>1, CodeType DEF Code, Codes
    <3> QED BY <3>2
  <2>7. PICK e \in EventRecord : e = Event("terminal", code)
    BY DEF Event, EventRecord
  <2>8. Emit(c, e) /\ ~e.foreign /\ e.code = Code(c)'
    BY <2>1, <2>6, <2>7 DEF Event
  <2>9. /\ stream' \in [Calls -> Seq(EventRecord)]
        /\ \A a \in Attempts : attempt[a].pos <= Len(stream'[CallOf[a]])
        /\ TerminalIsOutcome'
    BY <2>4, <2>5, <2>8, EmitKeeps DEF ExecutorInv
  <2>10. \A d \in Calls \ Routable : call'[d].stage = "free"
    BY <1>2, <2>2, <2>5
  <2> QED BY <2>1, <2>2, <2>3, <2>4, <2>9, <2>10, RegistryMoves
<1> QED BY <1>3, <1>4, <1>5, <1>6

\* A lost stream takes its terminal event with it; the call stays finished.
LEMMA LoseStreamStep ==
    ASSUME ExecutorInv, NEW c \in Calls, LoseStream(c)
    PROVE  ExecutorInv'
<1> USE ExecutorAssumption
<1>1. \A a \in Attempts : /\ CallOf[a] = c => stream'[CallOf[a]] = <<>> /\ attempt'[a].pos = 0
                          /\ CallOf[a] # c => stream'[CallOf[a]] = stream[CallOf[a]] /\ attempt'[a] = attempt[a]
  BY DEF LoseStream, ExecutorInv, TypeOK
<1>2. TypeOK'
  <2>1. \A a \in Attempts : attempt'[a].pos <= Len(stream'[CallOf[a]])
    <3>1. TAKE a \in Attempts
    <3>2. attempt[a].pos <= Len(stream[CallOf[a]])
      BY DEF ExecutorInv, TypeOK
    <3>3. CASE CallOf[a] = c
      <4>1. stream'[CallOf[a]] = <<>> /\ attempt'[a].pos = 0
        BY <1>1, <3>3
      <4>2. Len(<<>>) = 0 /\ 0 <= 0
        OBVIOUS
      <4> QED BY <4>1, <4>2, Zenon
    <3>4. CASE CallOf[a] # c
      <4>1. stream'[CallOf[a]] = stream[CallOf[a]] /\ attempt'[a] = attempt[a]
        BY <1>1, <3>4
      <4> QED BY <3>2, <4>1, Zenon
    <3> QED BY <3>3, <3>4
  <2>2. attempt' \in [Attempts -> Places]
    <3>1. attempt \in [Attempts -> Places]
      BY DEF ExecutorInv, TypeOK, Places
    <3>2. \A p \in Places : [p EXCEPT !.pos = 0] \in Places
      BY DEF Places
    <3>3. attempt' = [a \in Attempts |-> IF CallOf[a] = c THEN [attempt[a] EXCEPT !.pos = 0] ELSE attempt[a]]
      BY DEF LoseStream
    <3> QED BY <3>1, <3>2, <3>3
  <2>3. stream' \in [Calls -> Seq(EventRecord)]
    <3>1. stream \in [Calls -> Seq(EventRecord)]
      BY DEF ExecutorInv, TypeOK, EventRecord
    <3>2. <<>> \in Seq(EventRecord)
      OBVIOUS
    <3> QED BY <3>1, <3>2 DEF LoseStream
  <2> QED BY <2>1, <2>2, <2>3 DEF LoseStream, ExecutorInv, TypeOK, EventRecord, Places
<1>3. TerminalIsOutcome'
  <2>1. \A d \in Calls : stream'[d] = <<>> \/ stream'[d] = stream[d]
    BY DEF LoseStream, ExecutorInv, TypeOK
  <2>2. \A d \in Calls : Code(d)' = Code(d) /\ call'[d] = call[d]
    BY CodeKept DEF LoseStream
  <2> QED BY <2>1, <2>2 DEF ExecutorInv, TerminalIsOutcome
<1>4. CallShape' /\ AnswerIsEarned'
  BY DEF LoseStream, ExecutorInv, CallShape, AnswerIsEarned, Earned, Refused, Replied
<1>5. NeverAsked'
  <2>1. \A a \in Attempts : attempt'[a].pc = attempt[a].pc
    <3>1. attempt \in [Attempts -> Places]
      BY DEF ExecutorInv, TypeOK, Places
    <3>2. \A p \in Places : [p EXCEPT !.pos = 0].pc = p.pc
      BY DEF Places
    <3> QED BY <3>1, <3>2 DEF LoseStream
  <2> QED BY <2>1 DEF LoseStream, ExecutorInv, NeverAsked
<1> QED BY <1>2, <1>3, <1>4, <1>5 DEF ExecutorInv

\* A request that arrives while its attempt waits for the reply.
LEMMA RequestArrivesStep ==
    ASSUME ExecutorInv, NEW a \in Attempts, RequestArrives(a)
    PROVE  ExecutorInv'
<1> USE ExecutorAssumption
<1>1. /\ Serve(CallOf[a]) /\ UNCHANGED <<reply, stray, answer>> /\ Goto(a, "decided")
      /\ CallOf[a] \in Routable
  BY DEF RequestArrives, ExecutorInv, NeverAsked
<1>2. /\ call' \in [Calls -> CallRecord] /\ CallShape' /\ CallsMoveOn
      /\ stream' \in [Calls -> Seq(EventRecord)]
      /\ \A b \in Attempts : attempt[b].pos <= Len(stream'[CallOf[b]])
      /\ TerminalIsOutcome'
      /\ \A d \in Calls \ Routable : call'[d].stage = "free"
  BY <1>1, ServeKeeps
<1>3. /\ attempt' \in [Attempts -> Places]
      /\ \A b \in Attempts : attempt'[b].pos = attempt[b].pos
      /\ \A b \in Attempts \ {a} : attempt'[b] = attempt[b]
  BY <1>1 DEF Goto, ExecutorInv, TypeOK, Places
<1>4. TypeOK'
  BY <1>1, <1>2, <1>3 DEF ExecutorInv, TypeOK, CallRecord, EventRecord, Outcomes, Places
<1>5. AnswerIsEarned'
  BY <1>1, <1>2, AnswersKept DEF ExecutorInv
<1>6. NeverAsked'
  BY <1>1, <1>2, <1>3 DEF ExecutorInv, NeverAsked
<1> QED BY <1>2, <1>4, <1>5, <1>6 DEF ExecutorInv

\* What an attempt tells rests on what it has seen.
LEMMA Told ==
    ASSUME ExecutorInv, NEW a \in Attempts, NEW what \in Answers, Earned(a, what),
           UNCHANGED <<call, reply>>, answer' = [answer EXCEPT ![a] = what]
    PROVE  answer' \in [Attempts -> Answers] /\ AnswerIsEarned'
<1>1. answer \in [Attempts -> Answers]
  BY DEF ExecutorInv, TypeOK
<1>2. answer' \in [Attempts -> Answers] /\ answer'[a] = what /\ \A b \in Attempts \ {a} : answer'[b] = answer[b]
  BY <1>1
<1>3. \A b \in Attempts : Earned(b, answer'[b]) => Earned(b, answer[b])'
  BY DEF Earned, Refused, Replied
<1>4. \A b \in Attempts : Earned(b, answer'[b])
  BY <1>2 DEF ExecutorInv, AnswerIsEarned
<1> QED BY <1>2, <1>3, <1>4 DEF AnswerIsEarned

\* What a step of an attempt leaves as it was.
LEMMA AttemptMoves ==
    ASSUME ExecutorInv, NEW a \in Attempts, UNCHANGED <<call, reply, stream>>, stray' \subseteq Routable,
           attempt' \in [Attempts -> Places], answer' \in [Attempts -> Answers], AnswerIsEarned',
           \A b \in Attempts \ {a} : attempt'[b] = attempt[b],
           attempt'[a].pos <= Len(stream[CallOf[a]]),
           CallOf[a] \notin Routable => attempt'[a].pc \in {"idle", "done"}
    PROVE  ExecutorInv'
<1> USE ExecutorAssumption
<1>1. \A b \in Attempts : attempt'[b].pos <= Len(stream'[CallOf[b]])
  BY DEF ExecutorInv, TypeOK
<1>2. TypeOK'
  BY <1>1 DEF ExecutorInv, TypeOK, Places
<1>3. NeverAsked'
  BY DEF ExecutorInv, NeverAsked
<1>4. CallShape'
  BY DEF ExecutorInv, CallShape
<1>5. TerminalIsOutcome'
  <2>1. \A c \in Calls : Code(c)' = Code(c)
    BY CodeKept
  <2> QED BY <2>1 DEF ExecutorInv, TerminalIsOutcome
<1> QED BY <1>2, <1>3, <1>4, <1>5 DEF ExecutorInv

\* The steps of an attempt other than reading tell nothing that needs a
\* ground, except the refusal they have seen and the tool they do not know.
LEMMA AttemptStep ==
    ASSUME ExecutorInv, NEW a \in Attempts,
           \/ Start(a) \/ CallToolFails(a) \/ preAdmissionFailureResult(a) \/ OpenStream(a)
           \/ RetryTool(a) \/ ExecutionDeadline(a) \/ ExecuteError(a)
    PROVE  ExecutorInv'
<1> USE ExecutorAssumption
<1>1. /\ UNCHANGED <<call, reply, stream>> /\ stray' \in {stray, stray \cup {CallOf[a]}}
      /\ stray' # stray => attempt[a].pc = "asking"
  BY DEF Start, CallToolFails, preAdmissionFailureResult, OpenStream, RetryTool, ExecutionDeadline,
         ExecuteError, executorStep
<1>2. stray' \subseteq Routable
  BY <1>1 DEF ExecutorInv, NeverAsked
<1>3. \/ UNCHANGED answer
      \/ \E what \in Answers : Earned(a, what) /\ answer' = [answer EXCEPT ![a] = what]
  <2>1. \A what \in {"unknown", "none", "failed"} : what \in Answers /\ Earned(a, what)
    BY DEF Answers, Earned, Invitations
  <2>2. \A what \in {"unavailable", "rejected"} :
           call[CallOf[a]].stage = "refused" \/ CallOf[a] \notin Routable => what \in Answers /\ Earned(a, what)
    BY DEF Answers, Earned, Invitations, Refused
  <2>3. \/ UNCHANGED answer
        \/ \E what \in {"unknown", "none", "failed"} : answer' = [answer EXCEPT ![a] = what]
        \/ /\ call[CallOf[a]].stage = "refused" \/ CallOf[a] \notin Routable
           /\ \E what \in {"unavailable", "rejected"} : answer' = [answer EXCEPT ![a] = what]
    BY DEF Start, CallToolFails, preAdmissionFailureResult, OpenStream, RetryTool, ExecutionDeadline,
           ExecuteError, executorStep, Tell, outcomeUnknownResult
  <2> QED BY <2>1, <2>2, <2>3
<1>4. answer' \in [Attempts -> Answers] /\ AnswerIsEarned'
  <2>1. CASE UNCHANGED answer
    BY <1>1, <2>1 DEF ExecutorInv, TypeOK, AnswerIsEarned, Earned, Refused, Replied
  <2>2. CASE \E what \in Answers : Earned(a, what) /\ answer' = [answer EXCEPT ![a] = what]
    BY <1>1, <2>2, Told
  <2> QED BY <1>3, <2>1, <2>2
<1>5. attempt \in [Attempts -> Places] /\ attempt[a].pos \in Nat /\ attempt[a].pos <= Len(stream[CallOf[a]])
  BY DEF ExecutorInv, TypeOK, Places
<1>6. /\ attempt' \in [Attempts -> Places] /\ \A b \in Attempts \ {a} : attempt'[b] = attempt[b]
      /\ attempt'[a].pos \in {0, attempt[a].pos}
      /\ CallOf[a] \notin Routable => attempt'[a].pc \in {"idle", "done"}
  <2>1. CallOf[a] \notin Routable => attempt[a].pc \in {"idle", "done"}
    BY DEF ExecutorInv, NeverAsked
  <2>2. \/ \E p \in {"asking", "decided", "waiting", "done"} :
              attempt' = [attempt EXCEPT ![a].pc = p] /\ (CallOf[a] \notin Routable => p = "done")
        \/ attempt' = [attempt EXCEPT ![a] = [pc |-> "waiting", pos |-> 0]] /\ CallOf[a] \in Routable
    BY <2>1 DEF Start, CallToolFails, preAdmissionFailureResult, OpenStream, RetryTool, ExecutionDeadline,
                ExecuteError, executorStep, Tell, outcomeUnknownResult, Goto
  <2>3. CASE \E p \in {"asking", "decided", "waiting", "done"} :
                attempt' = [attempt EXCEPT ![a].pc = p] /\ (CallOf[a] \notin Routable => p = "done")
    BY <1>5, <2>3 DEF Places
  <2>4. CASE attempt' = [attempt EXCEPT ![a] = [pc |-> "waiting", pos |-> 0]] /\ CallOf[a] \in Routable
    BY <1>5, <2>4 DEF Places
  <2> QED BY <2>2, <2>3, <2>4
<1>7. attempt'[a].pos <= Len(stream[CallOf[a]])
  <2>1. Len(stream[CallOf[a]]) \in Nat
    BY DEF ExecutorInv, TypeOK
  <2> QED BY <1>5, <1>6, <2>1
<1> QED BY <1>1, <1>2, <1>4, <1>6, <1>7, AttemptMoves

\* What a terminal event makes of an answer.
LEMMA Decoded ==
    ASSUME ExecutorInv, NEW a \in Attempts, call[CallOf[a]].stage = "done",
           NEW what \in decodeToolResult(Code(CallOf[a]))
    PROVE  what \in Answers /\ Earned(a, what)
<1> USE ExecutorAssumption
<1> DEFINE c == CallOf[a]
<1>1. /\ c \in Calls /\ call[c].outcome \in Leases \cup {Unknown, Stale} /\ reply[c] \in Codes \cup {"none"}
  BY DEF ExecutorInv, TypeOK, CallShape
<1>2. ASSUME NEW code \in Codes \cup {"none"}, NEW w \in decodeToolResult(code)
      PROVE  /\ w \in Answers /\ w # "rejected"
             /\ w = "result" => code = "ok"
             /\ w \in Invitations => code \notin {"ok", "outcome_unknown"}
  BY <1>2 DEF decodeToolResult, retryHintFromRegistryError, Answers, Invitations, Codes
<1>3. Code(c) \in Codes \cup {"none"}
  BY <1>1, CodeType
<1>4. /\ what \in Answers /\ what # "rejected"
      /\ what = "result" => Code(c) = "ok"
      /\ what \in Invitations => Code(c) \notin {"ok", "outcome_unknown"}
  BY <1>2, <1>3
<1>5. CASE call[c].outcome = Stale
  <2>1. Code(c) = "stale_registration"
    BY <1>5 DEF Code
  <2> QED BY <1>4, <1>5, <2>1 DEF Earned, Refused
<1>6. CASE call[c].outcome = Unknown
  <2>1. Code(c) = "outcome_unknown"
    BY <1>6 DEF Code
  <2> QED BY <1>4, <2>1 DEF Earned
<1>7. CASE call[c].outcome \in Leases
  <2>1. Code(c) = reply[c]
    BY <1>7 DEF Code
  <2> QED BY <1>4, <1>7, <2>1 DEF Earned, Replied
<1> QED BY <1>1, <1>5, <1>6, <1>7

\* The answer of a terminal event is the outcome of the finished call.
LEMMA ReadStep ==
    ASSUME ExecutorInv, NEW a \in Attempts, Read(a)
    PROVE  ExecutorInv'
<1> USE ExecutorAssumption
<1> DEFINE c == CallOf[a]
           e == stream[c][attempt[a].pos + 1]
<1>1. UNCHANGED <<call, reply, stream, stray>> /\ attempt[a].pc = "waiting"
  BY DEF Read, executorStep
<1>2. c \in Calls /\ attempt[a].pos \in Nat /\ attempt[a].pos < Len(stream[c]) /\ Len(stream[c]) \in Nat
  BY DEF Read, ExecutorInv, TypeOK
<1>3. attempt[a].pos + 1 \in 1 .. Len(stream[c]) /\ e \in EventRecord
  <2>1. stream[c] \in Seq(EventRecord)
    BY <1>2 DEF ExecutorInv, TypeOK, EventRecord
  <2> QED BY <1>2, <2>1
<1>4. \/ attempt' = [attempt EXCEPT ![a].pos = @ + 1] /\ UNCHANGED answer
      \/ attempt' = [attempt EXCEPT ![a] = [pc |-> "retrying", pos |-> @.pos + 1]] /\ UNCHANGED answer
      \/ /\ e.kind = "terminal" /\ ~e.foreign
         /\ \E what \in decodeToolResult(e.code) : Tell(a, what)
  BY <1>3 DEF Read, Matching, EventRecord
<1>5. ASSUME e.kind = "terminal" /\ ~e.foreign
      PROVE  call[c].stage = "done" /\ e.code = Code(c)
  BY <1>2, <1>3, <1>5 DEF ExecutorInv, TerminalIsOutcome
<1> HIDE DEF e
<1>6. \/ UNCHANGED answer
      \/ \E what \in Answers : Earned(a, what) /\ answer' = [answer EXCEPT ![a] = what]
  BY <1>4, <1>5, Decoded DEF Tell
<1>7. answer' \in [Attempts -> Answers] /\ AnswerIsEarned'
  <2>1. CASE UNCHANGED answer
    BY <1>1, <2>1 DEF ExecutorInv, TypeOK, AnswerIsEarned, Earned, Refused, Replied
  <2>2. CASE \E what \in Answers : Earned(a, what) /\ answer' = [answer EXCEPT ![a] = what]
    BY <1>1, <2>2, Told
  <2> QED BY <1>6, <2>1, <2>2
<1>8. /\ attempt' \in [Attempts -> Places]
      /\ \A b \in Attempts \ {a} : attempt'[b] = attempt[b]
      /\ attempt'[a].pos \in {attempt[a].pos, attempt[a].pos + 1}
  <2>0. attempt \in [Attempts -> Places]
    BY DEF ExecutorInv, TypeOK, Places
  <2>1. CASE attempt' = [attempt EXCEPT ![a].pos = @ + 1]
    BY <2>0, <2>1 DEF Places
  <2>2. CASE attempt' = [attempt EXCEPT ![a] = [pc |-> "retrying", pos |-> @.pos + 1]]
    BY <2>0, <2>2 DEF Places
  <2>3. CASE attempt' = [attempt EXCEPT ![a].pc = "done"]
    BY <2>0, <2>3 DEF Places
  <2> QED BY <1>4, <2>1, <2>2, <2>3 DEF Tell
<1>9. attempt'[a].pos <= Len(stream[c])
  BY <1>2, <1>8
<1>10. c \in Routable /\ stray' \subseteq Routable
  BY <1>1 DEF ExecutorInv, NeverAsked
<1> QED BY <1>1, <1>7, <1>8, <1>9, <1>10, AttemptMoves

\* Every reachable state has the invariant, whatever the number of calls,
\* attempts and leases.
THEOREM ExecutorInvariant == Spec => []ExecutorInv
<1>1. Init => ExecutorInv
  BY InitExecutorInv
<1>2. ExecutorInv /\ [Next]_vars => ExecutorInv'
  <2> SUFFICES ASSUME ExecutorInv, [Next]_vars PROVE ExecutorInv'
    OBVIOUS
  <2>1. ASSUME NEW c \in Calls,
               \/ StrayArrives(c) \/ Overload(c) \/ Output(c) \/ Settle(c)
               \/ \E l \in Leases : Execute(c, l)
        PROVE  ExecutorInv'
    BY <2>1, RegistryStep
  <2>2. ASSUME NEW c \in Calls, LoseStream(c) PROVE ExecutorInv'
    BY <2>2, LoseStreamStep
  <2>3. ASSUME NEW a \in Attempts, RequestArrives(a) PROVE ExecutorInv'
    BY <2>3, RequestArrivesStep
  <2>4. ASSUME NEW a \in Attempts, Read(a) PROVE ExecutorInv'
    BY <2>4, ReadStep
  <2>5. ASSUME NEW a \in Attempts,
               \/ Start(a) \/ CallToolFails(a) \/ preAdmissionFailureResult(a) \/ OpenStream(a)
               \/ RetryTool(a) \/ ExecutionDeadline(a) \/ ExecuteError(a)
        PROVE  ExecutorInv'
    BY <2>5, AttemptStep
  <2>6. CASE UNCHANGED vars
    <3>1. \A c \in Calls : Code(c)' = Code(c)
      BY <2>6, CodeKept DEF vars
    <3>2. TerminalIsOutcome'
      BY <2>6, <3>1 DEF vars, ExecutorInv, TerminalIsOutcome
    <3> QED BY <2>6, <3>2 DEF vars, ExecutorInv, TypeOK, CallShape, NeverAsked, AnswerIsEarned, Earned,
                              Refused, Replied
  <2> QED BY <2>1, <2>2, <2>3, <2>4, <2>5, <2>6 DEF Next, Finished
<1> QED BY <1>1, <1>2, PTL DEF Spec

\* The state of the executor keeps its shape.
THEOREM ExecutorTypeCorrect == Spec => []TypeOK
<1>1. ExecutorInv => TypeOK
  BY DEF ExecutorInv
<1> QED BY <1>1, ExecutorInvariant, PTL

\* A call the planner is invited to make again has not been executed, in that
\* state or any later one, or its provider has answered with an error that
\* is not an unknown outcome:
\* Execute's answer rests on a refusal, on the stale outcome or on the worker's
\* own answer, and all of them are final.
THEOREM InvitationIsSettledAlways == Spec => []InvitationIsSettled
<1>1. ExecutorInv => InvitationIsSettled
  <2> SUFFICES ASSUME ExecutorInv, NEW a \in Attempts, answer[a] \in Invitations
               PROVE  \/ call[CallOf[a]].owner = NoLease
                      \/ /\ call[CallOf[a]].outcome \in Leases /\ answer[a] # "rejected"
                         /\ reply[CallOf[a]] \notin {"ok", "outcome_unknown"}
    BY DEF InvitationIsSettled, Executed
  <2>1. CallOf[a] \in Calls
    BY ExecutorAssumption
  <2>2. \/ CallOf[a] \notin Routable \/ Refused(CallOf[a])
        \/ Replied(CallOf[a]) /\ answer[a] # "rejected" /\ reply[CallOf[a]] \notin {"ok", "outcome_unknown"}
    BY DEF ExecutorInv, AnswerIsEarned, Earned
  <2> QED BY <2>1, <2>2, ExecutorAssumption DEF ExecutorInv, CallShape, NeverAsked, Refused, Replied
<1> QED BY <1>1, ExecutorInvariant, PTL

\* A result comes from the provider that executed this call: Execute passes
\* over the events of other admissions.
THEOREM ResultIsOfThisCallAlways == Spec => []ResultIsOfThisCall
<1>1. ExecutorInv => ResultIsOfThisCall
  BY DEF ExecutorInv, AnswerIsEarned, Earned, Replied, ResultIsOfThisCall
<1> QED BY <1>1, ExecutorInvariant, PTL
=============================================================================
