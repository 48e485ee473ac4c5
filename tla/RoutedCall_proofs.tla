-------------------------- MODULE RoutedCall_proofs --------------------------
(***************************************************************************)
(* Proofs about routed calls, for any number of calls, callers, replicas,  *)
(* leases and tokens.                                                      *)
(*                                                                         *)
(* The record and the result stream of a call, with the history of grants, *)
(* are its core.  Fourteen actions write the core; each of their steps is  *)
(* one of nine kinds (CoreStep), and what the core promises follows from   *)
(* the kinds alone: at most one execution, final decisions, one end, and   *)
(* the abstract tool call.                                                 *)
(***************************************************************************)
EXTENDS RoutedCall, FiniteSetTheorems, TLAPS

\* What a call record looks like, whichever scripts wrote it.
RecordGood(r) ==
    /\ r.decision = "none" => r = NoRecord
    /\ r.decision = "admitted" => r.expiresAt > r.deadline
    /\ r.decision # "admitted" => ~Published(r) /\ ~Terminal(r)
    /\ Published(r) => r.publication \in r.claims
    /\ ~Published(r) =>
          r.claims = {} /\ r.overload = 0 /\ r.overloadEvent = 0 /\ ~Dispatched(r) /\ ~Terminal(r)
    /\ ~Terminal(r) => r.terminalEvent = 0 /\ r.payload = NoLease
    /\ Terminal(r) => /\ r.terminalEvent # 0
                      /\ IF Dispatched(r) THEN r.payload \in {r.dispatchLease, Unknown} ELSE r.payload = Stale
    /\ Dispatched(r) => r.dispatchToken = r.token /\ r.dispatchRequest = r.publication
    /\ r.deltas <= MaxDeltas

\* The events since the admission: a terminal event is that of the record, and
\* nothing but itself follows it.
ResultGood(c) ==
    Admitted(c) =>
        /\ record[c].firstEvent \in 1 .. Len(result[c]) + 1
        /\ \A i \in record[c].firstEvent .. Len(result[c]) :
              result[c][i].kind = "terminal" =>
                 /\ Terminal(record[c])
                 /\ result[c][i] = [kind |-> "terminal", payload |-> record[c].payload]
        /\ \A i, j \in record[c].firstEvent .. Len(result[c]) :
              i < j /\ result[c][i].kind = "terminal" => result[c][j] = result[c][i]

GrantsGood(c) == grants[c] = IF Dispatched(record[c]) THEN 1 ELSE 0

CoreInv ==
    /\ clock \in Nat
    /\ record \in [Calls -> Records]
    /\ result \in [Calls -> Seq(Events)]
    /\ grants \in [Calls -> Nat]
    /\ \A c \in Calls : RecordGood(record[c]) /\ ResultGood(c) /\ GrantsGood(c)

-----------------------------------------------------------------------------
(* The kinds of steps. *)

IsAdmitted(c) ==
    /\ record[c].decision = "none"
    /\ \E d \in Digests, t \in Tokens \cup {NoToken} :
          record' = [record EXCEPT ![c] = NewAdmission(c, d, t)]
    /\ UNCHANGED <<result, grants>>

IsRejected(c) ==
    /\ record[c].decision = "none"
    /\ \E d \in Digests : record' = [record EXCEPT ![c] = NewRejection(d)]
    /\ UNCHANGED <<result, grants>>

IsPublished(c) ==
    /\ Admitted(c) /\ ~Terminal(record[c]) /\ ~Dispatched(record[c])
    /\ \E id \in Nat \ {0}, overload \in Nat :
          /\ \E k \in Callers : /\ caller[k].pc # "idle" /\ caller[k].call = c
                                /\ caller[k].overload = overload
          /\ record' = [record EXCEPT ![c].publication = id, ![c].claims = @ \cup {id},
                                      ![c].overload = overload]
    /\ UNCHANGED <<result, grants>>

IsDispatched(c) ==
    /\ Admitted(c) /\ ~Terminal(record[c]) /\ ~Dispatched(record[c]) /\ Published(record[c])
    /\ \E l \in Leases :
          record' = [record EXCEPT ![c].dispatchToken = record[c].token, ![c].dispatchLease = l,
                                   ![c].dispatchRequest = record[c].publication]
    /\ grants' = [grants EXCEPT ![c] = @ + 1]
    /\ UNCHANGED result

IsEnded(c) ==
    /\ Admitted(c) /\ ~Terminal(record[c]) /\ Published(record[c])
    /\ \E cause \in Causes \ {"none"}, payload \in Leases \cup {Unknown, Stale} :
          /\ IF Dispatched(record[c]) THEN payload \in {record[c].dispatchLease, Unknown} ELSE payload = Stale
          /\ Emit(c, "terminal", payload)
          /\ record' = [record EXCEPT ![c].cause = cause, ![c].payload = payload,
                                      ![c].terminalEvent = NextEvent(c)]
    /\ UNCHANGED grants

IsRestored(c) ==
    /\ Terminal(record[c])
    /\ Emit(c, "terminal", record[c].payload)
    /\ record' = [record EXCEPT ![c].terminalEvent = NextEvent(c)]
    /\ UNCHANGED grants

\* An event that does not end the call, and what the record keeps of it.
IsReported(c) ==
    /\ Admitted(c) /\ ~Terminal(record[c])
    /\ \/ Emit(c, "init", NoLease) /\ UNCHANGED record
       \/ /\ \E l \in Leases : Emit(c, "delta", l)
          /\ record[c].deltas < MaxDeltas
          /\ record' = [record EXCEPT ![c].deltas = @ + 1]
       \/ /\ Published(record[c])
          /\ \E t \in Tokens : Emit(c, "retry", t)
          /\ \E i \in Nat : record' = [record EXCEPT ![c].overloadEvent = NextEvent(c),
                                                     ![c].overloaded = @ \cup {i}]
    /\ UNCHANGED grants

\* Retention ends, and leaves nothing of the record.
AreForgotten(gone) ==
    /\ record' = [c \in Calls |-> IF c \in gone THEN NoRecord ELSE record[c]]
    /\ grants' = [c \in Calls |-> IF c \in gone THEN 0 ELSE grants[c]]
    /\ UNCHANGED result

CoreStep ==
    \/ UNCHANGED <<record, result, grants>>
    \/ \E c \in Calls : \/ IsAdmitted(c) \/ IsRejected(c) \/ IsPublished(c) \/ IsDispatched(c)
                        \/ IsEnded(c) \/ IsRestored(c) \/ IsReported(c)
    \/ \E gone \in SUBSET Calls : AreForgotten(gone)

-----------------------------------------------------------------------------
(* Records. *)

\* The absent record, a fresh admission and a rejection.
LEMMA FreshRecords ==
    ASSUME clock \in Nat
    PROVE  /\ NoRecord \in Records /\ RecordGood(NoRecord) /\ ~Dispatched(NoRecord)
           /\ NoRecord.decision = "none"
           /\ \A d \in Digests : /\ NewRejection(d) \in Records /\ RecordGood(NewRejection(d))
                                 /\ ~Dispatched(NewRejection(d))
                                 /\ NewRejection(d).decision = "rejected"
<1> USE CallAssumption
<1>1. NoRecord \in Records
  BY DEF NoRecord, Records, Causes, Payloads
<1>2. RecordGood(NoRecord) /\ ~Dispatched(NoRecord) /\ NoRecord.decision = "none"
  BY DEF NoRecord, RecordGood, Published, Terminal, Dispatched
<1>3. ASSUME NEW d \in Digests
      PROVE  /\ NewRejection(d) \in Records /\ RecordGood(NewRejection(d))
             /\ ~Dispatched(NewRejection(d)) /\ NewRejection(d).decision = "rejected"
  <2>1. PICK e \in Nat : e = clock + RecordTTL
    OBVIOUS
  <2>2. NewRejection(d) = [NoRecord EXCEPT !.decision = "rejected", !.digest = d, !.expiresAt = e]
    BY <2>1 DEF NewRejection
  <2>3. NewRejection(d) \in Records
    BY <1>1, <2>2 DEF Records
  <2>4. /\ NewRejection(d).decision = "rejected" /\ NewRejection(d).publication = 0
        /\ NewRejection(d).claims = {} /\ NewRejection(d).overload = 0 /\ NewRejection(d).overloadEvent = 0
        /\ NewRejection(d).cause = "none" /\ NewRejection(d).payload = NoLease
        /\ NewRejection(d).terminalEvent = 0 /\ NewRejection(d).dispatchLease = NoLease
        /\ NewRejection(d).deltas = 0
    BY <2>2 DEF NoRecord
  <2> HIDE DEF NewRejection
  <2> QED BY <2>3, <2>4 DEF RecordGood, Published, Terminal, Dispatched
<1> QED BY <1>1, <1>2, <1>3

\* A fresh admission starts after every event there is.
LEMMA FreshAdmission ==
    ASSUME CoreInv, NEW c \in Calls, NEW d \in Digests, NEW t \in Tokens \cup {NoToken}
    PROVE  /\ NewAdmission(c, d, t) \in Records /\ RecordGood(NewAdmission(c, d, t))
           /\ ~Dispatched(NewAdmission(c, d, t)) /\ ~Terminal(NewAdmission(c, d, t))
           /\ ~Published(NewAdmission(c, d, t))
           /\ NewAdmission(c, d, t).decision = "admitted"
           /\ NewAdmission(c, d, t).payload = NoLease /\ NewAdmission(c, d, t).dispatchLease = NoLease
           /\ NewAdmission(c, d, t).firstEvent = Len(result[c]) + 1
<1> USE CallAssumption
<1>0. clock \in Nat /\ NoRecord \in Records
  BY FreshRecords DEF CoreInv
<1>1. PICK x \in Nat : x = clock + ExecutionTimeout
  BY <1>0
<1>2. PICK e \in Nat : e = clock + RecordTTL
  BY <1>0
<1>3. Len(result[c]) \in Nat
  BY DEF CoreInv
<1>4. PICK f \in Nat : f = Len(result[c]) + 1
  BY <1>3
<1> DEFINE n == NewAdmission(c, d, t)
<1>5. n = [NoRecord EXCEPT !.decision = "admitted", !.digest = d, !.token = t, !.deadline = x,
                           !.expiresAt = e, !.firstEvent = f]
  BY <1>1, <1>2, <1>4 DEF NewAdmission
<1>6. n \in Records
  <2> DEFINE m == [NoRecord EXCEPT !.decision = "admitted", !.digest = d, !.token = t]
  <2>1. m \in Records
    BY <1>0 DEF Records
  <2>2. n = [m EXCEPT !.deadline = x, !.expiresAt = e, !.firstEvent = f]
    BY <1>5
  <2> HIDE DEF m, n
  <2> QED BY <2>1, <2>2 DEF Records
<1>7. /\ n.decision = "admitted" /\ n.expiresAt = e /\ n.deadline = x /\ n.publication = 0
      /\ n.claims = {} /\ n.overload = 0 /\ n.overloadEvent = 0 /\ n.cause = "none" /\ n.payload = NoLease
      /\ n.terminalEvent = 0 /\ n.dispatchLease = NoLease /\ n.deltas = 0 /\ n.firstEvent = f
  BY <1>5 DEF NoRecord
<1>8. e > x
  BY <1>0, <1>1, <1>2
<1> HIDE DEF n
<1>9. RecordGood(n) /\ ~Dispatched(n) /\ ~Terminal(n) /\ ~Published(n)
  BY <1>7, <1>8 DEF RecordGood, Published, Terminal, Dispatched
<1> QED BY <1>4, <1>6, <1>7, <1>9 DEF n

-----------------------------------------------------------------------------
(* Result streams. *)

\* One more event at the end of one stream.
LEMMA EmitEffect ==
    ASSUME CoreInv, NEW c \in Calls, NEW kind \in {"init", "delta", "retry", "terminal"},
           NEW payload \in Payloads \cup Tokens, Emit(c, kind, payload)
    PROVE  /\ result' \in [Calls -> Seq(Events)]
           /\ Len(result'[c]) = Len(result[c]) + 1
           /\ result'[c][Len(result[c]) + 1] = [kind |-> kind, payload |-> payload]
           /\ \A i \in 1 .. Len(result[c]) : result'[c][i] = result[c][i]
           /\ \A d \in Calls : d # c => result'[d] = result[d]
<1> DEFINE e == [kind |-> kind, payload |-> payload]
<1>1. e \in Events
  BY DEF Events
<1>2. result \in [Calls -> Seq(Events)] /\ result' = [result EXCEPT ![c] = Append(@, e)]
  BY DEF CoreInv, Emit
<1> HIDE DEF e
<1>3. result[c] \in Seq(Events) /\ result'[c] = Append(result[c], e)
  BY <1>2
<1>4. result' \in [Calls -> Seq(Events)]
  BY <1>1, <1>2, <1>3
<1>5. /\ Len(result'[c]) = Len(result[c]) + 1
      /\ result'[c][Len(result[c]) + 1] = e
      /\ \A i \in 1 .. Len(result[c]) : result'[c][i] = result[c][i]
  BY <1>1, <1>3
<1> QED BY <1>2, <1>4, <1>5 DEF e

\* An event that does not end a call that is not over.
LEMMA OpenStreamGood ==
    ASSUME CoreInv, NEW c \in Calls, NEW kind \in {"init", "delta", "retry"},
           NEW payload \in Payloads \cup Tokens, Emit(c, kind, payload),
           ~Terminal(record[c]), record'[c].decision = record[c].decision,
           record'[c].firstEvent = record[c].firstEvent
    PROVE  ResultGood(c)'
<1> DEFINE f == record[c].firstEvent  n == Len(result[c])
<1> SUFFICES ASSUME Admitted(c)
             PROVE  /\ f \in 1 .. (n + 1) + 1
                    /\ \A i \in f .. n + 1 : result'[c][i].kind # "terminal"
  <2>1. Len(result'[c]) = n + 1
    <3>1. kind \in {"init", "delta", "retry", "terminal"}
      OBVIOUS
    <3> QED BY <3>1, EmitEffect
  <2> QED BY <2>1 DEF ResultGood, Admitted
<1>0. n \in Nat /\ ResultGood(c)
  BY DEF CoreInv
<1>1. /\ f \in 1 .. n + 1 /\ n \in Nat
      /\ \A i \in f .. n : result[c][i].kind # "terminal"
  BY <1>0 DEF ResultGood
<1>2. /\ result'[c][n + 1] = [kind |-> kind, payload |-> payload]
      /\ \A i \in 1 .. n : result'[c][i] = result[c][i]
  <2>1. kind \in {"init", "delta", "retry", "terminal"}
    OBVIOUS
  <2> QED BY <2>1, EmitEffect
<1>3. result'[c][n + 1].kind # "terminal"
  BY <1>2
<1>4. ASSUME NEW i \in f .. n + 1 PROVE result'[c][i].kind # "terminal"
  <2>1. CASE i = n + 1
    BY <1>3, <2>1
  <2>2. CASE i # n + 1
    <3>1. i \in f .. n /\ i \in 1 .. n
      BY <1>1, <2>2
    <3> QED BY <1>1, <1>2, <3>1
  <2> QED BY <2>1, <2>2
<1> QED BY <1>1, <1>4

\* The terminal event of a call that is over from now on, or again.
LEMMA ClosedStreamGood ==
    ASSUME CoreInv, NEW c \in Calls, NEW payload \in Payloads, Emit(c, "terminal", payload),
           Terminal(record[c]) => record[c].payload = payload,
           Terminal(record'[c]), record'[c].payload = payload,
           record'[c].decision = record[c].decision,
           record'[c].firstEvent = record[c].firstEvent
    PROVE  ResultGood(c)'
<1> DEFINE f == record[c].firstEvent  n == Len(result[c])
           e == [kind |-> "terminal", payload |-> payload]
<1>0. /\ Len(result'[c]) = n + 1 /\ result'[c][n + 1] = e
      /\ \A i \in 1 .. n : result'[c][i] = result[c][i]
  BY EmitEffect
<1> SUFFICES ASSUME Admitted(c)
             PROVE  /\ f \in 1 .. (n + 1) + 1
                    /\ \A i \in f .. n + 1 : result'[c][i].kind = "terminal" => result'[c][i] = e
                    /\ \A i, j \in f .. n + 1 :
                          i < j /\ result'[c][i].kind = "terminal" => result'[c][j] = result'[c][i]
  BY <1>0 DEF ResultGood, Admitted
<1>1. /\ f \in 1 .. n + 1 /\ n \in Nat
      /\ \A i \in f .. n : result[c][i].kind = "terminal" => result[c][i] = e
      /\ \A i, j \in f .. n : i < j /\ result[c][i].kind = "terminal" => result[c][j] = result[c][i]
  <2>1. n \in Nat /\ ResultGood(c)
    BY DEF CoreInv
  <2> QED BY <2>1 DEF ResultGood
<1> HIDE DEF e
<1>2. ASSUME NEW i \in f .. n + 1, result'[c][i].kind = "terminal" PROVE result'[c][i] = e
  <2>1. CASE i = n + 1
    BY <1>0, <2>1
  <2>2. CASE i # n + 1
    <3>1. i \in f .. n /\ i \in 1 .. n
      BY <1>1, <2>2
    <3> QED BY <1>0, <1>1, <1>2, <3>1
  <2> QED BY <2>1, <2>2
<1>3. ASSUME NEW i \in f .. n + 1, NEW j \in f .. n + 1, i < j, result'[c][i].kind = "terminal"
      PROVE  result'[c][j] = result'[c][i]
  <2>1. i \in f .. n /\ i \in 1 .. n
    BY <1>1, <1>3
  <2>2. result'[c][i] = e
    BY <1>2, <1>3
  <2>3. CASE j = n + 1
    BY <1>0, <2>2, <2>3
  <2>4. CASE j # n + 1
    <3>1. j \in f .. n /\ j \in 1 .. n
      BY <1>1, <2>4
    <3> QED BY <1>0, <1>1, <1>3, <2>1, <3>1
  <2> QED BY <2>3, <2>4
<1>4. f \in 1 .. (n + 1) + 1
  BY <1>1
<1> QED BY <1>2, <1>3, <1>4

-----------------------------------------------------------------------------
(* Every kind of step keeps the core. *)

\* A step that is about one call leaves the others as they are.
LEMMA OneCallStep ==
    ASSUME CoreInv, clock' \in Nat, NEW c \in Calls,
           record' \in [Calls -> Records], result' \in [Calls -> Seq(Events)], grants' \in [Calls -> Nat],
           \A d \in Calls : d # c => /\ record'[d] = record[d] /\ result'[d] = result[d]
                                     /\ grants'[d] = grants[d],
           RecordGood(record'[c]), ResultGood(c)', GrantsGood(c)'
    PROVE  CoreInv'
<1>1. ASSUME NEW d \in Calls, d # c PROVE RecordGood(record'[d]) /\ ResultGood(d)' /\ GrantsGood(d)'
  BY <1>1 DEF CoreInv, ResultGood, GrantsGood, Admitted
<1>2. \A d \in Calls : RecordGood(record[d])'
  BY <1>1 DEF RecordGood
<1> QED BY <1>1, <1>2 DEF CoreInv

\* Admissions and rejections.
LEMMA DecidedKeeps ==
    ASSUME CoreInv, clock' \in Nat, NEW c \in Calls, IsAdmitted(c) \/ IsRejected(c)
    PROVE  CoreInv'
<1> USE CallAssumption
<1>1. /\ record \in [Calls -> Records] /\ result \in [Calls -> Seq(Events)] /\ grants \in [Calls -> Nat]
      /\ record[c].decision = "none" /\ UNCHANGED <<result, grants>> /\ clock \in Nat
  BY DEF CoreInv, IsAdmitted, IsRejected
<1>2. grants[c] = 0
  <2>1. record[c] = NoRecord /\ GrantsGood(c)
    BY <1>1 DEF CoreInv, RecordGood
  <2>2. ~Dispatched(NoRecord)
    BY <1>1, FreshRecords
  <2> QED BY <2>1, <2>2 DEF GrantsGood
<1>3. ASSUME NEW n \in Records, record' = [record EXCEPT ![c] = n], RecordGood(n), ~Dispatched(n),
             n.decision = "admitted" => n.firstEvent = Len(result[c]) + 1
      PROVE  CoreInv'
  <2>1. /\ record' \in [Calls -> Records] /\ record'[c] = n
        /\ \A d \in Calls : d # c => record'[d] = record[d]
    BY <1>1, <1>3
  <2>2. ResultGood(c)'
    <3>1. Len(result[c]) \in Nat /\ result'[c] = result[c]
      BY <1>1
    <3>2. \A i \in Len(result[c]) + 1 .. Len(result[c]) : FALSE
      BY <3>1
    <3> QED BY <1>3, <2>1, <3>1, <3>2 DEF ResultGood, Admitted
  <2>3. GrantsGood(c)'
    BY <1>1, <1>2, <1>3, <2>1 DEF GrantsGood
  <2> QED BY <1>1, <1>3, <2>1, <2>2, <2>3, OneCallStep
<1>4. CASE IsAdmitted(c)
  <2>1. PICK d \in Digests, t \in Tokens \cup {NoToken} :
            record' = [record EXCEPT ![c] = NewAdmission(c, d, t)]
    BY <1>4 DEF IsAdmitted
  <2> QED BY <1>3, <2>1, FreshAdmission
<1>5. CASE IsRejected(c)
  <2>1. PICK d \in Digests : record' = [record EXCEPT ![c] = NewRejection(d)]
    BY <1>5 DEF IsRejected
  <2>2. NewRejection(d).decision # "admitted"
    BY <1>1, FreshRecords
  <2> QED BY <1>1, <1>3, <2>1, <2>2, FreshRecords
<1> QED BY <1>4, <1>5

\* A publication.
LEMMA PublishedKeeps ==
    ASSUME CoreInv, clock' \in Nat, NEW c \in Calls, IsPublished(c)
    PROVE  CoreInv'
<1> USE CallAssumption
<1>1. /\ record \in [Calls -> Records] /\ record[c] \in Records /\ RecordGood(record[c])
      /\ result \in [Calls -> Seq(Events)] /\ grants \in [Calls -> Nat]
      /\ Admitted(c) /\ ~Terminal(record[c]) /\ ~Dispatched(record[c]) /\ UNCHANGED <<result, grants>>
  BY DEF CoreInv, IsPublished
<1>2. PICK id \in Nat \ {0}, overload \in Nat :
          record' = [record EXCEPT ![c].publication = id, ![c].claims = @ \cup {id},
                                   ![c].overload = overload]
  BY DEF IsPublished
<1>3. /\ record' \in [Calls -> Records]
      /\ record'[c] = [record[c] EXCEPT !.publication = id, !.claims = @ \cup {id}, !.overload = overload]
      /\ \A d \in Calls : d # c => record'[d] = record[d]
  <2>1. PICK claims \in SUBSET Nat : claims = record[c].claims \cup {id}
    BY <1>1 DEF Records
  <2> DEFINE n == [record[c] EXCEPT !.publication = id, !.claims = claims, !.overload = overload]
  <2>2. n \in Records
    BY <1>1 DEF Records
  <2>3. record' = [record EXCEPT ![c] = n]
    BY <1>1, <1>2, <2>1 DEF Records
  <2>4. n = [record[c] EXCEPT !.publication = id, !.claims = @ \cup {id}, !.overload = overload]
    BY <1>1, <2>1
  <2> HIDE DEF n
  <2> QED BY <1>1, <2>2, <2>3, <2>4
<1>4. /\ record'[c].publication = id /\ record'[c].claims = record[c].claims \cup {id}
      /\ record'[c].decision = record[c].decision /\ record'[c].firstEvent = record[c].firstEvent
      /\ record'[c].expiresAt = record[c].expiresAt /\ record'[c].deadline = record[c].deadline
      /\ record'[c].cause = record[c].cause /\ record'[c].payload = record[c].payload
      /\ record'[c].terminalEvent = record[c].terminalEvent
      /\ record'[c].dispatchLease = record[c].dispatchLease /\ record'[c].deltas = record[c].deltas
  BY <1>1, <1>3 DEF Records
<1>5. RecordGood(record'[c])
  BY <1>1, <1>4 DEF RecordGood, Published, Terminal, Dispatched, Admitted
<1>6. ResultGood(c)' /\ GrantsGood(c)'
  BY <1>1, <1>4 DEF CoreInv, ResultGood, GrantsGood, Admitted, Terminal, Dispatched
<1> QED BY <1>1, <1>3, <1>5, <1>6, OneCallStep

\* A dispatch.
LEMMA DispatchedKeeps ==
    ASSUME CoreInv, clock' \in Nat, NEW c \in Calls, IsDispatched(c)
    PROVE  CoreInv'
<1> USE CallAssumption
<1>1. /\ record \in [Calls -> Records] /\ record[c] \in Records /\ RecordGood(record[c])
      /\ result \in [Calls -> Seq(Events)] /\ grants \in [Calls -> Nat]
      /\ Admitted(c) /\ ~Terminal(record[c]) /\ ~Dispatched(record[c]) /\ Published(record[c])
      /\ UNCHANGED result /\ grants' = [grants EXCEPT ![c] = @ + 1]
  BY DEF CoreInv, IsDispatched
<1>2. PICK l \in Leases :
          record' = [record EXCEPT ![c].dispatchToken = record[c].token, ![c].dispatchLease = l,
                                   ![c].dispatchRequest = record[c].publication]
  BY DEF IsDispatched
<1>3. /\ record' \in [Calls -> Records]
      /\ record'[c] = [record[c] EXCEPT !.dispatchToken = record[c].token, !.dispatchLease = l,
                                        !.dispatchRequest = record[c].publication]
      /\ \A d \in Calls : d # c => record'[d] = record[d]
  <2> DEFINE n == [record[c] EXCEPT !.dispatchToken = record[c].token, !.dispatchLease = l,
                                    !.dispatchRequest = record[c].publication]
  <2>1. n \in Records
    BY <1>1 DEF Records
  <2>2. record' = [record EXCEPT ![c] = n]
    BY <1>1, <1>2 DEF Records
  <2> HIDE DEF n
  <2>3. record' \in [Calls -> Records] /\ record'[c] = n /\ \A d \in Calls : d # c => record'[d] = record[d]
    BY <1>1, <2>1, <2>2
  <2> QED BY <2>3 DEF n
<1>4. /\ record'[c].dispatchLease = l /\ record'[c].dispatchToken = record[c].token
      /\ record'[c].dispatchRequest = record[c].publication /\ record'[c].token = record[c].token
      /\ record'[c].publication = record[c].publication /\ record'[c].claims = record[c].claims
      /\ record'[c].decision = record[c].decision /\ record'[c].firstEvent = record[c].firstEvent
      /\ record'[c].expiresAt = record[c].expiresAt /\ record'[c].deadline = record[c].deadline
      /\ record'[c].cause = record[c].cause /\ record'[c].payload = record[c].payload
      /\ record'[c].terminalEvent = record[c].terminalEvent /\ record'[c].deltas = record[c].deltas
  BY <1>1, <1>3 DEF Records
<1>5. RecordGood(record'[c]) /\ Dispatched(record'[c])
  BY <1>1, <1>2, <1>4 DEF RecordGood, Published, Terminal, Dispatched, Admitted
<1>6. ResultGood(c)'
  BY <1>1, <1>4 DEF CoreInv, ResultGood, Admitted, Terminal
<1>7. grants' \in [Calls -> Nat] /\ grants'[c] = grants[c] + 1 /\ \A d \in Calls : d # c => grants'[d] = grants[d]
  BY <1>1
<1>8. GrantsGood(c)'
  <2>1. grants[c] = 0
    BY <1>1 DEF CoreInv, GrantsGood
  <2> QED BY <1>5, <1>7, <2>1 DEF GrantsGood
<1> QED BY <1>1, <1>3, <1>5, <1>6, <1>7, <1>8, OneCallStep

\* What a step that writes the cause, the payload and the terminal event does
\* to the record.
LEMMA EndedRecord ==
    ASSUME CoreInv, NEW c \in Calls, NEW cause \in Causes, NEW payload \in Payloads,
           record' = [record EXCEPT ![c].cause = cause, ![c].payload = payload,
                                    ![c].terminalEvent = NextEvent(c)]
    PROVE  /\ record' \in [Calls -> Records]
           /\ record'[c] = [record[c] EXCEPT !.cause = cause, !.payload = payload,
                                             !.terminalEvent = NextEvent(c)]
           /\ \A d \in Calls : d # c => record'[d] = record[d]
<1>1. record \in [Calls -> Records] /\ record[c] \in Records
  BY DEF CoreInv
<1>2. PICK e \in Nat : e = NextEvent(c)
  <2>1. Len(result[c]) \in Nat
    BY DEF CoreInv
  <2> QED BY <2>1 DEF NextEvent
<1> DEFINE n == [record[c] EXCEPT !.cause = cause, !.payload = payload, !.terminalEvent = e]
<1>3. n \in Records
  BY <1>1 DEF Records
<1>4. record' = [record EXCEPT ![c] = n]
  BY <1>1, <1>2 DEF Records
<1> HIDE DEF n
<1>5. record' \in [Calls -> Records] /\ record'[c] = n /\ \A d \in Calls : d # c => record'[d] = record[d]
  BY <1>1, <1>3, <1>4
<1> QED BY <1>2, <1>5 DEF n

\* The end of a call.
LEMMA EndedKeeps ==
    ASSUME CoreInv, clock' \in Nat, NEW c \in Calls, IsEnded(c)
    PROVE  CoreInv'
<1> USE CallAssumption
<1>1. /\ record \in [Calls -> Records] /\ record[c] \in Records /\ RecordGood(record[c])
      /\ result \in [Calls -> Seq(Events)] /\ grants \in [Calls -> Nat]
      /\ Admitted(c) /\ ~Terminal(record[c]) /\ Published(record[c]) /\ UNCHANGED grants
  BY DEF CoreInv, IsEnded
<1>2. PICK cause \in Causes \ {"none"}, payload \in Leases \cup {Unknown, Stale} :
          /\ IF Dispatched(record[c]) THEN payload \in {record[c].dispatchLease, Unknown} ELSE payload = Stale
          /\ Emit(c, "terminal", payload)
          /\ record' = [record EXCEPT ![c].cause = cause, ![c].payload = payload,
                                      ![c].terminalEvent = NextEvent(c)]
  BY DEF IsEnded
<1>3. payload \in Payloads /\ cause \in Causes
  BY <1>2 DEF Payloads
<1>4. /\ record' \in [Calls -> Records]
      /\ record'[c] = [record[c] EXCEPT !.cause = cause, !.payload = payload,
                                        !.terminalEvent = NextEvent(c)]
      /\ \A d \in Calls : d # c => record'[d] = record[d]
  BY <1>2, <1>3, EndedRecord
<1>5. /\ record'[c].cause = cause /\ record'[c].payload = payload
      /\ record'[c].terminalEvent = NextEvent(c)
      /\ record'[c].dispatchLease = record[c].dispatchLease /\ record'[c].dispatchToken = record[c].dispatchToken
      /\ record'[c].dispatchRequest = record[c].dispatchRequest /\ record'[c].token = record[c].token
      /\ record'[c].publication = record[c].publication /\ record'[c].claims = record[c].claims
      /\ record'[c].decision = record[c].decision /\ record'[c].firstEvent = record[c].firstEvent
      /\ record'[c].expiresAt = record[c].expiresAt /\ record'[c].deadline = record[c].deadline
      /\ record'[c].deltas = record[c].deltas
  BY <1>1, <1>4 DEF Records
<1>6. NextEvent(c) # 0
  <2>1. Len(result[c]) \in Nat
    BY <1>1
  <2> QED BY <2>1 DEF NextEvent
<1>7. RecordGood(record'[c]) /\ Terminal(record'[c])
  BY <1>1, <1>2, <1>5, <1>6 DEF RecordGood, Published, Terminal, Dispatched, Admitted
<1>8. ResultGood(c)'
  BY <1>1, <1>2, <1>3, <1>5, <1>7, ClosedStreamGood
<1>9. GrantsGood(c)'
  BY <1>1, <1>5 DEF CoreInv, GrantsGood, Dispatched
<1>10. /\ result' \in [Calls -> Seq(Events)]
       /\ \A d \in Calls : d # c => result'[d] = result[d]
  <2>1. payload \in Payloads \cup Tokens /\ "terminal" \in {"init", "delta", "retry", "terminal"}
    BY <1>3
  <2> QED BY <1>2, <2>1, EmitEffect
<1> QED BY <1>1, <1>4, <1>7, <1>8, <1>9, <1>10, OneCallStep

\* A restored terminal event.
LEMMA RestoredKeeps ==
    ASSUME CoreInv, clock' \in Nat, NEW c \in Calls, IsRestored(c)
    PROVE  CoreInv'
<1> USE CallAssumption
<1>1. /\ record \in [Calls -> Records] /\ record[c] \in Records /\ RecordGood(record[c])
      /\ result \in [Calls -> Seq(Events)] /\ grants \in [Calls -> Nat]
      /\ Terminal(record[c]) /\ UNCHANGED grants /\ Emit(c, "terminal", record[c].payload)
  BY DEF CoreInv, IsRestored
<1>2. PICK e \in Nat : e = NextEvent(c) /\ e # 0
  <2>1. Len(result[c]) \in Nat
    BY <1>1
  <2> QED BY <2>1 DEF NextEvent
<1> DEFINE n == [record[c] EXCEPT !.terminalEvent = e]
<1>3. n \in Records
  BY <1>1 DEF Records
<1>4. record' = [record EXCEPT ![c] = n]
  BY <1>1, <1>2 DEF Records, IsRestored
<1>5. /\ n.cause = record[c].cause /\ n.payload = record[c].payload /\ n.terminalEvent = e
      /\ n.dispatchLease = record[c].dispatchLease /\ n.dispatchToken = record[c].dispatchToken
      /\ n.dispatchRequest = record[c].dispatchRequest /\ n.token = record[c].token
      /\ n.publication = record[c].publication /\ n.claims = record[c].claims
      /\ n.decision = record[c].decision /\ n.firstEvent = record[c].firstEvent
      /\ n.expiresAt = record[c].expiresAt /\ n.deadline = record[c].deadline
      /\ n.deltas = record[c].deltas
  BY <1>1 DEF Records
<1> HIDE DEF n
<1>6. record' \in [Calls -> Records] /\ record'[c] = n /\ \A d \in Calls : d # c => record'[d] = record[d]
  BY <1>1, <1>3, <1>4
<1>7. RecordGood(n) /\ Terminal(n)
  BY <1>1, <1>2, <1>5 DEF RecordGood, Published, Terminal, Dispatched
<1>8. record[c].payload \in Payloads
  BY <1>1 DEF Records
<1>9. ResultGood(c)'
  BY <1>1, <1>5, <1>6, <1>7, <1>8, ClosedStreamGood
<1>10. GrantsGood(c)'
  BY <1>1, <1>5, <1>6 DEF CoreInv, GrantsGood, Dispatched
<1>11. /\ result' \in [Calls -> Seq(Events)]
       /\ \A d \in Calls : d # c => result'[d] = result[d]
  <2>1. record[c].payload \in Payloads \cup Tokens /\ "terminal" \in {"init", "delta", "retry", "terminal"}
    BY <1>8
  <2> QED BY <1>1, <2>1, EmitEffect
<1> QED BY <1>1, <1>6, <1>7, <1>9, <1>10, <1>11, OneCallStep

\* Output, overload reports and the opening of the stream.
LEMMA ReportedKeeps ==
    ASSUME CoreInv, clock' \in Nat, NEW c \in Calls, IsReported(c)
    PROVE  CoreInv'
<1> USE CallAssumption
<1>1. /\ record \in [Calls -> Records] /\ record[c] \in Records /\ RecordGood(record[c])
      /\ result \in [Calls -> Seq(Events)] /\ grants \in [Calls -> Nat]
      /\ Admitted(c) /\ ~Terminal(record[c]) /\ UNCHANGED grants
  BY DEF CoreInv, IsReported
<1>2. ASSUME NEW n \in Records, record' = [record EXCEPT ![c] = n], RecordGood(n),
             n.decision = record[c].decision, n.firstEvent = record[c].firstEvent,
             n.dispatchLease = record[c].dispatchLease,
             NEW kind \in {"init", "delta", "retry"}, NEW payload \in Payloads \cup Tokens,
             Emit(c, kind, payload)
      PROVE  CoreInv'
  <2>1. record' \in [Calls -> Records] /\ record'[c] = n /\ \A d \in Calls : d # c => record'[d] = record[d]
    BY <1>1, <1>2
  <2>2. ResultGood(c)'
    BY <1>1, <1>2, <2>1, OpenStreamGood
  <2>3. GrantsGood(c)'
    BY <1>1, <1>2, <2>1 DEF CoreInv, GrantsGood, Dispatched
  <2>4. /\ result' \in [Calls -> Seq(Events)]
        /\ \A d \in Calls : d # c => result'[d] = result[d]
    <3>1. kind \in {"init", "delta", "retry", "terminal"}
      OBVIOUS
    <3>2. Emit(c, kind, payload) /\ payload \in Payloads \cup Tokens
      BY <1>2
    <3> QED BY <3>1, <3>2, EmitEffect
  <2> QED BY <1>1, <1>2, <2>1, <2>2, <2>3, <2>4, OneCallStep
<1>3. CASE Emit(c, "init", NoLease) /\ UNCHANGED record
  <2>1. record' = [record EXCEPT ![c] = record[c]]
    BY <1>1, <1>3
  <2>2. NoLease \in Payloads \cup Tokens
    BY DEF Payloads
  <2>3. Emit(c, "init", NoLease) /\ "init" \in {"init", "delta", "retry"}
    BY <1>3
  <2>4. record[c] \in Records /\ RecordGood(record[c])
    BY <1>1
  <2> HIDE DEF Emit
  <2> QED BY <1>2, <2>1, <2>2, <2>3, <2>4
<1>4. CASE /\ \E l \in Leases : Emit(c, "delta", l)
           /\ record[c].deltas < MaxDeltas
           /\ record' = [record EXCEPT ![c].deltas = @ + 1]
  <2>1. PICK l \in Leases : Emit(c, "delta", l)
    BY <1>4
  <2>2. l \in Payloads \cup Tokens
    BY DEF Payloads
  <2>3. PICK k \in Nat : k = record[c].deltas + 1
    BY <1>1 DEF Records
  <2> DEFINE n == [record[c] EXCEPT !.deltas = k]
  <2>4. n \in Records
    BY <1>1 DEF Records
  <2>5. record' = [record EXCEPT ![c] = n]
    BY <1>1, <1>4, <2>3 DEF Records
  <2>6. /\ n.cause = record[c].cause /\ n.payload = record[c].payload
        /\ n.terminalEvent = record[c].terminalEvent
        /\ n.dispatchLease = record[c].dispatchLease /\ n.dispatchToken = record[c].dispatchToken
        /\ n.dispatchRequest = record[c].dispatchRequest /\ n.token = record[c].token
        /\ n.publication = record[c].publication /\ n.claims = record[c].claims
        /\ n.decision = record[c].decision /\ n.firstEvent = record[c].firstEvent
        /\ n.expiresAt = record[c].expiresAt /\ n.deadline = record[c].deadline
        /\ n.overload = record[c].overload /\ n.overloadEvent = record[c].overloadEvent
        /\ n.deltas = k
    BY <1>1 DEF Records
  <2>7. k <= MaxDeltas
    BY <1>1, <1>4, <2>3 DEF Records
  <2> HIDE DEF n
  <2>8. RecordGood(n)
    BY <1>1, <2>6, <2>7 DEF RecordGood, Published, Terminal, Dispatched, Admitted
  <2> QED BY <1>2, <2>1, <2>2, <2>4, <2>5, <2>6, <2>8
<1>5. CASE /\ Published(record[c])
           /\ \E t \in Tokens : Emit(c, "retry", t)
           /\ \E i \in Nat : record' = [record EXCEPT ![c].overloadEvent = NextEvent(c),
                                                      ![c].overloaded = @ \cup {i}]
  <2>1. PICK t \in Tokens : Emit(c, "retry", t)
    BY <1>5
  <2>2. PICK i \in Nat : record' = [record EXCEPT ![c].overloadEvent = NextEvent(c),
                                                  ![c].overloaded = @ \cup {i}]
    BY <1>5
  <2>3. PICK e \in Nat : e = NextEvent(c)
    <3>1. Len(result[c]) \in Nat
      BY <1>1
    <3> QED BY <3>1 DEF NextEvent
  <2>4. PICK o \in SUBSET Nat : o = record[c].overloaded \cup {i}
    BY <1>1 DEF Records
  <2> DEFINE n == [record[c] EXCEPT !.overloadEvent = e, !.overloaded = o]
  <2>5. n \in Records
    BY <1>1 DEF Records
  <2>6. record' = [record EXCEPT ![c] = n]
    BY <1>1, <2>2, <2>3, <2>4 DEF Records
  <2>7. /\ n.cause = record[c].cause /\ n.payload = record[c].payload
        /\ n.terminalEvent = record[c].terminalEvent
        /\ n.dispatchLease = record[c].dispatchLease /\ n.dispatchToken = record[c].dispatchToken
        /\ n.dispatchRequest = record[c].dispatchRequest /\ n.token = record[c].token
        /\ n.publication = record[c].publication /\ n.claims = record[c].claims
        /\ n.decision = record[c].decision /\ n.firstEvent = record[c].firstEvent
        /\ n.expiresAt = record[c].expiresAt /\ n.deadline = record[c].deadline
        /\ n.deltas = record[c].deltas
    BY <1>1 DEF Records
  <2> HIDE DEF n
  <2>8. RecordGood(n)
    BY <1>1, <1>5, <2>7 DEF RecordGood, Published, Terminal, Dispatched, Admitted
  <2>9. t \in Payloads \cup Tokens
    OBVIOUS
  <2> QED BY <1>2, <2>1, <2>5, <2>6, <2>7, <2>8, <2>9
<1> QED BY <1>3, <1>4, <1>5 DEF IsReported

\* The end of the retention.
LEMMA ForgottenKeeps ==
    ASSUME CoreInv, clock' \in Nat, NEW gone \in SUBSET Calls, AreForgotten(gone)
    PROVE  CoreInv'
<1>1. clock \in Nat /\ record \in [Calls -> Records] /\ grants \in [Calls -> Nat] /\ UNCHANGED result
  BY DEF CoreInv, AreForgotten
<1>2. \A c \in Calls : IF c \in gone THEN record'[c] = NoRecord /\ grants'[c] = 0
                                     ELSE record'[c] = record[c] /\ grants'[c] = grants[c]
  BY <1>1 DEF AreForgotten
<1>3. NoRecord \in Records /\ RecordGood(NoRecord) /\ ~Dispatched(NoRecord) /\ NoRecord.decision = "none"
  BY <1>1, FreshRecords
<1>4. record' \in [Calls -> Records] /\ grants' \in [Calls -> Nat]
  BY <1>1, <1>3 DEF AreForgotten
<1>5. ASSUME NEW c \in Calls PROVE RecordGood(record'[c]) /\ ResultGood(c)' /\ GrantsGood(c)'
  <2>1. CASE c \in gone
    BY <1>2, <1>3, <2>1 DEF ResultGood, GrantsGood, Admitted
  <2>2. CASE c \notin gone
    BY <1>1, <1>2, <2>2 DEF CoreInv, ResultGood, GrantsGood, Admitted
  <2> QED BY <2>1, <2>2
<1>6. \A c \in Calls : RecordGood(record[c])'
  BY <1>5 DEF RecordGood
<1> QED BY <1>1, <1>4, <1>5, <1>6 DEF CoreInv

\* Every step of the core keeps it.
LEMMA CoreStepKeeps ==
    ASSUME CoreInv, clock' \in Nat, CoreStep
    PROVE  CoreInv'
<1>1. CASE UNCHANGED <<record, result, grants>>
  <2>1. \A c \in Calls : RecordGood(record[c])'
    BY <1>1 DEF CoreInv, RecordGood
  <2>2. \A c \in Calls : ResultGood(c)' /\ GrantsGood(c)'
    BY <1>1 DEF CoreInv, ResultGood, GrantsGood, Admitted
  <2> QED BY <1>1, <2>1, <2>2 DEF CoreInv
<1> QED BY <1>1, DecidedKeeps, PublishedKeeps, DispatchedKeeps, EndedKeeps, RestoredKeeps, ReportedKeeps,
           ForgottenKeeps DEF CoreStep

-----------------------------------------------------------------------------
(* What the kinds of steps do to a decision. *)

\* What may become of a record in one step of its call.
Progress(r, n) ==
    /\ n.decision = r.decision /\ n.digest = r.digest /\ n.token = r.token
    /\ n.deadline = r.deadline /\ n.expiresAt = r.expiresAt
    /\ \/ /\ n.cause = r.cause /\ n.payload = r.payload
          /\ n.dispatchLease = r.dispatchLease /\ n.dispatchRequest = r.dispatchRequest
          /\ n.dispatchToken = r.dispatchToken
       \/ /\ r.decision = "admitted" /\ ~Terminal(r) /\ ~Dispatched(r)
          /\ n.dispatchLease \in Leases /\ n.cause = r.cause /\ n.payload = r.payload
       \/ /\ r.decision = "admitted" /\ ~Terminal(r) /\ Terminal(n)
          /\ IF Dispatched(r) THEN n.payload \in {r.dispatchLease, Unknown} ELSE n.payload = Stale
          /\ n.dispatchLease = r.dispatchLease /\ n.dispatchRequest = r.dispatchRequest
          /\ n.dispatchToken = r.dispatchToken

\* A step of the core decides one free call, moves one call on, or forgets.
LEMMA CoreStepProgress ==
    ASSUME CoreInv, CoreStep
    PROVE  \/ UNCHANGED record
           \/ \E c \in Calls :
                 /\ \/ /\ record[c] = NoRecord
                       /\ record'[c].decision \in {"admitted", "rejected"} /\ ~Terminal(record'[c])
                       /\ record'[c].payload = NoLease /\ record'[c].dispatchLease = NoLease
                    \/ Progress(record[c], record'[c])
                 /\ \A d \in Calls : d # c => record'[d] = record[d]
           \/ \E gone \in SUBSET Calls :
                 record' = [c \in Calls |-> IF c \in gone THEN NoRecord ELSE record[c]]
<1> USE CallAssumption
<1>0. record \in [Calls -> Records] /\ clock \in Nat
  BY DEF CoreInv
<1>1. ASSUME NEW c \in Calls, IsAdmitted(c) \/ IsRejected(c)
      PROVE  /\ record[c] = NoRecord
             /\ record'[c].decision \in {"admitted", "rejected"} /\ ~Terminal(record'[c])
             /\ record'[c].payload = NoLease /\ record'[c].dispatchLease = NoLease
             /\ \A d \in Calls : d # c => record'[d] = record[d]
  <2>1. record[c] = NoRecord
    BY <1>1 DEF IsAdmitted, IsRejected, CoreInv, RecordGood
  <2>2. CASE IsAdmitted(c)
    <3>1. PICK d \in Digests, t \in Tokens \cup {NoToken} :
              record' = [record EXCEPT ![c] = NewAdmission(c, d, t)]
      BY <2>2 DEF IsAdmitted
    <3>2. record'[c] = NewAdmission(c, d, t) /\ \A e \in Calls : e # c => record'[e] = record[e]
      BY <1>0, <3>1
    <3> QED BY <2>1, <3>2, FreshAdmission
  <2>3. CASE IsRejected(c)
    <3>1. PICK d \in Digests : record' = [record EXCEPT ![c] = NewRejection(d)]
      BY <2>3 DEF IsRejected
    <3>2. record'[c] = NewRejection(d) /\ \A e \in Calls : e # c => record'[e] = record[e]
      BY <1>0, <3>1
    <3>3. RecordGood(NewRejection(d)) /\ ~Dispatched(NewRejection(d)) /\ NewRejection(d).decision = "rejected"
      BY <1>0, FreshRecords
    <3> QED BY <2>1, <3>2, <3>3 DEF RecordGood, Dispatched
  <2> QED BY <1>1, <2>2, <2>3
<1>2. ASSUME NEW c \in Calls, IsPublished(c)
      PROVE  Progress(record[c], record'[c]) /\ \A d \in Calls : d # c => record'[d] = record[d]
  BY <1>0, <1>2 DEF IsPublished, Records, Progress
<1>3. ASSUME NEW c \in Calls, IsDispatched(c)
      PROVE  Progress(record[c], record'[c]) /\ \A d \in Calls : d # c => record'[d] = record[d]
  BY <1>0, <1>3 DEF IsDispatched, Records, Progress, Admitted
<1>4. ASSUME NEW c \in Calls, IsEnded(c)
      PROVE  Progress(record[c], record'[c]) /\ \A d \in Calls : d # c => record'[d] = record[d]
  <2>1. PICK cause \in Causes \ {"none"}, payload \in Leases \cup {Unknown, Stale} :
          /\ IF Dispatched(record[c]) THEN payload \in {record[c].dispatchLease, Unknown} ELSE payload = Stale
          /\ record' = [record EXCEPT ![c].cause = cause, ![c].payload = payload,
                                      ![c].terminalEvent = NextEvent(c)]
    BY <1>4 DEF IsEnded
  <2>2. payload \in Payloads /\ cause \in Causes
    BY <2>1 DEF Payloads
  <2>3. /\ record'[c] = [record[c] EXCEPT !.cause = cause, !.payload = payload,
                                          !.terminalEvent = NextEvent(c)]
        /\ \A d \in Calls : d # c => record'[d] = record[d]
    BY <2>1, <2>2, EndedRecord
  <2>4. /\ record'[c].cause = cause /\ record'[c].payload = payload
        /\ record'[c].decision = record[c].decision /\ record'[c].digest = record[c].digest
        /\ record'[c].token = record[c].token
        /\ record'[c].deadline = record[c].deadline /\ record'[c].expiresAt = record[c].expiresAt
        /\ record'[c].dispatchLease = record[c].dispatchLease
        /\ record'[c].dispatchToken = record[c].dispatchToken
        /\ record'[c].dispatchRequest = record[c].dispatchRequest
    BY <1>0, <2>3 DEF Records
  <2>5. record[c].decision = "admitted" /\ ~Terminal(record[c]) /\ Terminal(record'[c])
    BY <1>4, <2>1, <2>4 DEF IsEnded, Admitted, Terminal
  <2> QED BY <2>1, <2>3, <2>4, <2>5 DEF Progress
<1>5. ASSUME NEW c \in Calls, IsRestored(c) \/ IsReported(c)
      PROVE  Progress(record[c], record'[c]) /\ \A d \in Calls : d # c => record'[d] = record[d]
  <2>1. CASE record' = [record EXCEPT ![c].terminalEvent = NextEvent(c)]
    BY <1>0, <2>1 DEF Records, Progress
  <2>2. CASE record' = [record EXCEPT ![c].deltas = @ + 1]
    BY <1>0, <2>2 DEF Records, Progress
  <2>3. CASE \E i \in Nat : record' = [record EXCEPT ![c].overloadEvent = NextEvent(c),
                                                     ![c].overloaded = @ \cup {i}]
    BY <1>0, <2>3 DEF Records, Progress
  <2>4. CASE UNCHANGED record
    BY <2>4 DEF Progress
  <2> QED BY <1>5, <2>1, <2>2, <2>3, <2>4 DEF IsRestored, IsReported
<1>6. ASSUME NEW gone \in SUBSET Calls, AreForgotten(gone)
      PROVE  record' = [c \in Calls |-> IF c \in gone THEN NoRecord ELSE record[c]]
  BY <1>6 DEF AreForgotten
<1> QED BY <1>1, <1>2, <1>3, <1>4, <1>5, <1>6 DEF CoreStep

\* A decision is final until it is forgotten.
LEMMA DecisionKept ==
    ASSUME CoreInv, CoreStep, NEW c \in Calls, record[c].decision # "none", record'[c] # NoRecord
    PROVE  /\ \A f \in {"decision", "digest", "token", "deadline", "expiresAt"} : record'[c][f] = record[c][f]
           /\ Dispatched(record[c]) =>
                 \A f \in {"dispatchLease", "dispatchRequest", "dispatchToken"} : record'[c][f] = record[c][f]
           /\ Terminal(record[c]) =>
                 record'[c].cause = record[c].cause /\ record'[c].payload = record[c].payload
<1>0. record \in [Calls -> Records] /\ NoRecord.decision = "none"
  BY FreshRecords DEF CoreInv
<1>1. CASE record'[c] = record[c]
  BY <1>1
<1>2. CASE Progress(record[c], record'[c])
  BY <1>2 DEF Progress
<1>3. record'[c] = record[c] \/ Progress(record[c], record'[c])
  <2>1. CASE UNCHANGED record
    BY <2>1
  <2>2. CASE \E e \in Calls :
               /\ record[e] = NoRecord \/ Progress(record[e], record'[e])
               /\ \A d \in Calls : d # e => record'[d] = record[d]
    BY <1>0, <2>2
  <2>3. CASE \E gone \in SUBSET Calls :
               record' = [e \in Calls |-> IF e \in gone THEN NoRecord ELSE record[e]]
    BY <2>3
  <2> QED BY <2>1, <2>2, <2>3, CoreStepProgress
<1> QED BY <1>1, <1>2, <1>3

-----------------------------------------------------------------------------
(* The abstract tool call. *)

\* The abstract call of a record, and of all of them.
View(r) == [stage |-> Stage(r), owner |-> r.dispatchLease, outcome |-> r.payload]
Views == [c \in Calls |-> View(record[c])]

\* The actions of the abstract tool call, on views.
LEMMA AbstractActions ==
    /\ Abstract!CallInit <=> Views = [c \in Calls |-> Abstract!Free]
    /\ Abstract!Free = [stage |-> "free", owner |-> NoLease, outcome |-> NoLease]
    /\ \A c, stage : Abstract!Decide(c, stage) <=>
          Views[c] = Abstract!Free /\ Views' = [Views EXCEPT ![c].stage = stage]
    /\ \A c, l : Abstract!Dispatch(c, l) <=>
          /\ Views[c].stage = "admitted"
          /\ Views' = [Views EXCEPT ![c].stage = "executing", ![c].owner = l]
    /\ \A c, outcome : Abstract!Finish(c, outcome) <=>
          /\ Views[c].stage = "executing" /\ outcome \in {Views[c].owner, Unknown}
          /\ Views' = [Views EXCEPT ![c].stage = "done", ![c].outcome = outcome]
    /\ \A c : Abstract!GiveUp(c) <=>
          /\ Views[c].stage = "admitted"
          /\ Views' = [Views EXCEPT ![c].stage = "done", ![c].outcome = Stale]
    /\ \A gone : Abstract!Forget(gone) <=>
          Views' = [c \in Calls |-> IF c \in gone THEN Abstract!Free ELSE Views[c]]
BY DEF Abstract!CallInit, Abstract!Free, Abstract!Decide, Abstract!Dispatch, Abstract!Finish,
       Abstract!GiveUp, Abstract!Forget, Views, View

\* A view is written by a dispatch and by the end of a call.
LEMMA WrittenView ==
    ASSUME NEW c \in Calls, NEW v
    PROVE  /\ [Views EXCEPT ![c].stage = "executing", ![c].owner = v]
                 = [Views EXCEPT ![c] = [stage |-> "executing", owner |-> v, outcome |-> record[c].payload]]
           /\ [Views EXCEPT ![c].stage = "done", ![c].outcome = v]
                 = [Views EXCEPT ![c] = [stage |-> "done", owner |-> record[c].dispatchLease, outcome |-> v]]
<1>1. Views \in [Calls -> {View(record[x]) : x \in Calls}] /\ Views[c] = View(record[c])
  BY DEF Views
<1>2. PICK a : a = Stage(record[c])
  OBVIOUS
<1>3. PICK b : b = record[c].dispatchLease
  OBVIOUS
<1>4. PICK e : e = record[c].payload
  OBVIOUS
<1>5. Views[c] = [stage |-> a, owner |-> b, outcome |-> e]
  BY <1>1, <1>2, <1>3, <1>4 DEF View
<1>6. [Views EXCEPT ![c].stage = "executing", ![c].owner = v]
        = [Views EXCEPT ![c] = [stage |-> "executing", owner |-> v, outcome |-> e]]
  <2>1. PICK o : o = [stage |-> "executing", owner |-> b, outcome |-> e]
    OBVIOUS
  <2>2. o = [Views[c] EXCEPT !.stage = "executing"]
    BY <1>5, <2>1
  <2>3. [Views EXCEPT ![c].stage = "executing"] = [Views EXCEPT ![c] = o]
    BY <1>1, <2>2
  <2>4. PICK n : n = [stage |-> "executing", owner |-> v, outcome |-> e]
    OBVIOUS
  <2>5. [o EXCEPT !.owner = v] = n
    BY <2>1, <2>4
  <2>6. [[Views EXCEPT ![c] = o] EXCEPT ![c].owner = v] = [Views EXCEPT ![c] = n]
    BY <1>1, <2>5
  <2> QED BY <2>3, <2>4, <2>6
<1>7. [Views EXCEPT ![c].stage = "done", ![c].outcome = v]
        = [Views EXCEPT ![c] = [stage |-> "done", owner |-> b, outcome |-> v]]
  <2>1. PICK o : o = [stage |-> "done", owner |-> b, outcome |-> e]
    OBVIOUS
  <2>2. o = [Views[c] EXCEPT !.stage = "done"]
    BY <1>5, <2>1
  <2>3. [Views EXCEPT ![c].stage = "done"] = [Views EXCEPT ![c] = o]
    BY <1>1, <2>2
  <2>4. PICK n : n = [stage |-> "done", owner |-> b, outcome |-> v]
    OBVIOUS
  <2>5. [o EXCEPT !.outcome = v] = n
    BY <2>1, <2>4
  <2>6. [[Views EXCEPT ![c] = o] EXCEPT ![c].outcome = v] = [Views EXCEPT ![c] = n]
    BY <1>1, <2>5
  <2> QED BY <2>3, <2>4, <2>6
<1> QED BY <1>3, <1>4, <1>6, <1>7

\* Every step of the core is a step of the abstract tool call, or none.
LEMMA CoreStepRefines ==
    ASSUME CoreInv, CoreStep
    PROVE  Abstract!CallNext \/ UNCHANGED Views
<1> USE CallAssumption
<1>0. record \in [Calls -> Records] /\ clock \in Nat /\ \A c \in Calls : RecordGood(record[c])
  BY DEF CoreInv
<1>1. Abstract!Free = View(NoRecord)
  BY AbstractActions DEF View, Stage, NoRecord
<1>2. ASSUME NEW c \in Calls, \A d \in Calls : d # c => record'[d] = record[d]
      PROVE  /\ Views[c] = View(record[c]) /\ Views'[c] = View(record'[c])
             /\ Views' = [Views EXCEPT ![c] = View(record'[c])]
             /\ View(record'[c]) = View(record[c]) => Views' = Views
  <2>1. Views' = [d \in Calls |-> View(record'[d])]
    BY DEF Views, View, Stage, Terminal, Dispatched
  <2>2. Views = [d \in Calls |-> View(record[d])]
    BY DEF Views
  <2> QED BY <1>2, <2>1, <2>2
<1>3. ASSUME NEW c \in Calls, \A d \in Calls : d # c => record'[d] = record[d],
             record[c] = NoRecord, record'[c].decision \in {"admitted", "rejected"},
             ~Terminal(record'[c]), record'[c].payload = NoLease, record'[c].dispatchLease = NoLease
      PROVE  Abstract!CallNext
  <2>1. PICK stage \in {"refused", "admitted"} : stage = Stage(record'[c])
    BY <1>3 DEF Stage, Dispatched
  <2>2. View(record'[c]) = [stage |-> stage, owner |-> NoLease, outcome |-> NoLease]
    BY <1>3, <2>1 DEF View
  <2>3. Views[c] = Abstract!Free
    BY <1>1, <1>2, <1>3
  <2>4. Views[c] = [stage |-> "free", owner |-> NoLease, outcome |-> NoLease]
    BY <2>3, AbstractActions
  <2>5. Views' = [Views EXCEPT ![c].stage = stage]
    BY <1>2, <1>3, <2>2, <2>4
  <2>6. Abstract!Decide(c, stage)
    BY <2>3, <2>5, AbstractActions
  <2> QED BY <2>6 DEF Abstract!CallNext
<1>4. ASSUME NEW c \in Calls, \A d \in Calls : d # c => record'[d] = record[d],
             Progress(record[c], record'[c])
      PROVE  Abstract!CallNext \/ UNCHANGED Views
  <2> DEFINE r == record[c]  n == record'[c]
  <2>0. r \in Records /\ RecordGood(r)
    BY <1>0
  <2>1. CASE /\ n.cause = r.cause /\ n.payload = r.payload /\ n.dispatchLease = r.dispatchLease
    <3>1. n.decision = r.decision
      BY <1>4 DEF Progress
    <3>2. View(n) = View(r)
      BY <2>1, <3>1 DEF View, Stage, Terminal, Dispatched
    <3> QED BY <1>2, <1>4, <3>2
  <2>2. CASE /\ r.decision = "admitted" /\ ~Terminal(r) /\ ~Dispatched(r)
             /\ n.dispatchLease \in Leases /\ n.cause = r.cause /\ n.payload = r.payload
    <3>0. PICK l \in Leases : l = n.dispatchLease
      BY <2>2
    <3>1. n.decision = "admitted"
      BY <1>4, <2>2 DEF Progress
    <3>2. View(r) = [stage |-> "admitted", owner |-> r.dispatchLease, outcome |-> r.payload]
      BY <2>2 DEF View, Stage
    <3>3. View(n) = [stage |-> "executing", owner |-> l, outcome |-> r.payload]
      BY <2>2, <3>0, <3>1 DEF View, Stage, Terminal, Dispatched
    <3>4. Views[c] = View(r) /\ Views' = [Views EXCEPT ![c] = View(n)]
      BY <1>2, <1>4
    <3>5. Views' = [Views EXCEPT ![c].stage = "executing", ![c].owner = l]
      <4>2. Views[c] = [stage |-> "admitted", owner |-> r.dispatchLease, outcome |-> r.payload]
        BY <3>2, <3>4
      <4>3. [Views EXCEPT ![c].stage = "executing", ![c].owner = l]
              = [Views EXCEPT ![c] = [stage |-> "executing", owner |-> l, outcome |-> r.payload]]
        BY WrittenView, Zenon
      <4> QED BY <3>3, <3>4, <4>3
    <3>6. Views[c].stage = "admitted"
      BY <3>2, <3>4
    <3>7. Abstract!Dispatch(c, l)
      BY <3>5, <3>6, AbstractActions
    <3> QED BY <3>7 DEF Abstract!CallNext
  <2>3. CASE /\ r.decision = "admitted" /\ ~Terminal(r) /\ Terminal(n)
             /\ IF Dispatched(r) THEN n.payload \in {r.dispatchLease, Unknown} ELSE n.payload = Stale
             /\ n.dispatchLease = r.dispatchLease
    <3>0. PICK o : o = n.payload
      OBVIOUS
    <3>1. n.decision = "admitted"
      BY <1>4, <2>3 DEF Progress
    <3>2. View(n) = [stage |-> "done", owner |-> r.dispatchLease, outcome |-> o]
      BY <2>3, <3>0, <3>1 DEF View, Stage
    <3>3. Views[c] = View(r) /\ Views' = [Views EXCEPT ![c] = View(n)]
      BY <1>2, <1>4
    <3>4. View(r) = [stage |-> Stage(r), owner |-> r.dispatchLease, outcome |-> r.payload]
      BY DEF View
    <3>5. Views' = [Views EXCEPT ![c].stage = "done", ![c].outcome = o]
      <4>2. Views[c] = [stage |-> Stage(r), owner |-> r.dispatchLease, outcome |-> r.payload]
        BY <3>3, <3>4
      <4>3. [Views EXCEPT ![c].stage = "done", ![c].outcome = o]
              = [Views EXCEPT ![c] = [stage |-> "done", owner |-> r.dispatchLease, outcome |-> o]]
        BY WrittenView, Zenon
      <4> QED BY <3>2, <3>3, <4>3
    <3>6. CASE Dispatched(r)
      <4>1. Views[c].stage = "executing" /\ Views[c].owner = r.dispatchLease
        BY <2>3, <3>3, <3>4, <3>6 DEF Stage
      <4>2. o \in {r.dispatchLease, Unknown} /\ r.dispatchLease \in Leases
        BY <2>0, <2>3, <3>0, <3>6 DEF Dispatched, Records
      <4>3. Abstract!Finish(c, o)
        BY <3>5, <4>1, <4>2, AbstractActions
      <4>4. o \in Leases \cup {Unknown}
        BY <4>2
      <4> QED BY <4>3, <4>4 DEF Abstract!CallNext
    <3>7. CASE ~Dispatched(r)
      <4>1. Views[c].stage = "admitted" /\ o = Stale
        BY <2>3, <3>0, <3>3, <3>4, <3>7 DEF Stage
      <4>2. Abstract!GiveUp(c)
        BY <3>5, <4>1, AbstractActions
      <4> QED BY <4>2 DEF Abstract!CallNext
    <3> QED BY <3>6, <3>7
  <2> QED BY <1>4, <2>1, <2>2, <2>3 DEF Progress
<1>5. ASSUME NEW gone \in SUBSET Calls,
             record' = [c \in Calls |-> IF c \in gone THEN NoRecord ELSE record[c]]
      PROVE  Abstract!CallNext
  <2>1. Views' = [c \in Calls |-> View(record'[c])]
    BY DEF Views, View, Stage, Terminal, Dispatched
  <2>2. \A c \in Calls : View(record'[c]) = IF c \in gone THEN Abstract!Free ELSE Views[c]
    <3>1. \A c \in Calls : record'[c] = IF c \in gone THEN NoRecord ELSE record[c]
      BY <1>5
    <3>2. \A c \in Calls : Views[c] = View(record[c])
      BY DEF Views
    <3> QED BY <1>1, <3>1, <3>2
  <2>3. Views' = [c \in Calls |-> IF c \in gone THEN Abstract!Free ELSE Views[c]]
    BY <2>1, <2>2
  <2>4. Abstract!Forget(gone)
    BY <2>3, AbstractActions
  <2> QED BY <2>4 DEF Abstract!CallNext
<1>6. CASE UNCHANGED record
  BY <1>6 DEF Views, View, Stage, Terminal, Dispatched
<1> QED BY <1>3, <1>4, <1>5, <1>6, CoreStepProgress

-----------------------------------------------------------------------------
(* Everything around the core: the catalog, the request stream, callers,   *)
(* workers, settlers and indexes.                                          *)

CallerPcs == {"idle", "resolve", "ensure", "ensured", "reject", "rejected", "resume", "initialize",
              "publish", "restore", "reroute", "unroutable"}

\* A caller that is under way has a call and a request.
CallerGood(n) ==
    /\ n \in CallerStates
    /\ n.pc # "idle" => n.call \in Calls /\ n.digest \in Digests

\* A settler that is under way has a reason, and a call from the time it read one.
SettlerGood(n) ==
    /\ n \in SettlerStates
    /\ n.pc # "idle" => n.cause # "none"
    /\ n.pc \in {"membership", "settle", "cleanup"} => n.call \in Calls

Requests == [call : Calls, token : Tokens, overload : Nat]
Claims == [call : Calls, request : Nat, lease : Leases, token : Tokens]

AuthorityInv == AuthorityTypeOK /\ (open => current \in Tokens)
StreamInv ==
    /\ requests \in Seq(Requests)
    /\ acked \subseteq 1 .. Len(requests)
    /\ running \subseteq Claims
    /\ \A w \in running : w.request \in 1 .. Len(requests)
ActorInv ==
    /\ caller \in [Callers -> CallerStates] /\ \A k \in Callers : CallerGood(caller[k])
    /\ settler \in [Settlers -> SettlerStates] /\ \A s \in Settlers : SettlerGood(settler[s])
IndexInv ==
    /\ settlement \in [Calls -> Nat]
    /\ leaseIndex \subseteq Calls \X Tokens \X Leases
    /\ membership \in [Calls -> Indexes]
LostInv == lost \in [Calls -> Nat]

EnvInv == AuthorityInv /\ StreamInv /\ ActorInv /\ IndexInv /\ LostInv

\* A caller remembers no overload, the one it had, or the last one of a call it attaches to.
Carries(k, n) ==
    \/ n.overload = 0
    \/ caller[k].pc # "idle" /\ n.call = caller[k].call /\ n.overload = caller[k].overload
    \/ UNCHANGED record /\ Admitted(n.call) /\ n.overload = record[n.call].overloadEvent

\* One caller, or one settler, moves on.
CallerMoves(k) ==
    \E n \in CallerStates : CallerGood(n) /\ Carries(k, n) /\ caller' = [caller EXCEPT ![k] = n]
SettlerMoves(s) == \E n \in SettlerStates : SettlerGood(n) /\ settler' = [settler EXCEPT ![s] = n]

-----------------------------------------------------------------------------
(* Callers. *)

\* The ways a caller's state is written.
LEMMA CallerWrites ==
    ASSUME ActorInv, NEW k \in Callers
    PROVE  /\ Return(k) => CallerMoves(k)
           /\ caller[k].pc # "idle" => \A pc \in CallerPcs : Goto(k, pc) => CallerMoves(k)
           /\ caller[k].pc # "idle" =>
                 \A pc \in CallerPcs, t \in Tokens \cup {NoToken} :
                    caller' = [caller EXCEPT ![k].pc = pc, ![k].token = t] => CallerMoves(k)
           /\ CallerGood(IdleCaller) /\ IdleCaller.overload = 0
<1>0. caller \in [Callers -> CallerStates] /\ CallerGood(caller[k])
  BY DEF ActorInv
<1>1. IdleCaller \in CallerStates /\ CallerGood(IdleCaller) /\ IdleCaller.overload = 0
  BY DEF IdleCaller, CallerStates, CallerGood
<1>2. Return(k) => CallerMoves(k)
  BY <1>1 DEF Return, CallerMoves, Carries
<1>3. ASSUME caller[k].pc # "idle", NEW pc \in CallerPcs, Goto(k, pc) PROVE CallerMoves(k)
  <2> DEFINE n == [caller[k] EXCEPT !.pc = pc]
  <2>1. /\ n \in CallerStates /\ n.call = caller[k].call /\ n.digest = caller[k].digest
        /\ n.overload = caller[k].overload
    BY <1>0 DEF CallerStates, CallerPcs
  <2>2. caller' = [caller EXCEPT ![k] = n]
    BY <1>0, <1>3 DEF Goto
  <2> HIDE DEF n
  <2> QED BY <1>0, <1>3, <2>1, <2>2 DEF CallerMoves, CallerGood, Carries
<1>4. ASSUME caller[k].pc # "idle", NEW pc \in CallerPcs, NEW t \in Tokens \cup {NoToken},
             caller' = [caller EXCEPT ![k].pc = pc, ![k].token = t]
      PROVE  CallerMoves(k)
  <2> DEFINE n == [caller[k] EXCEPT !.pc = pc, !.token = t]
  <2>1. /\ n \in CallerStates /\ n.call = caller[k].call /\ n.digest = caller[k].digest
        /\ n.overload = caller[k].overload
    BY <1>0 DEF CallerStates, CallerPcs
  <2>2. caller' = [caller EXCEPT ![k] = n]
    BY <1>0, <1>4 DEF CallerStates
  <2> HIDE DEF n
  <2> QED BY <1>0, <1>4, <2>1, <2>2 DEF CallerMoves, CallerGood, Carries
<1> QED BY <1>1, <1>2, <1>3, <1>4

\* What a step of a caller does to the rest of the system.
CallerEffect(k) ==
    /\ UNCHANGED <<authorityVars, lost, acked, indexVars, settler, running, grants>>
    /\ CallerMoves(k)
    /\ \/ UNCHANGED requests
       \/ \E q \in Requests : requests' = Append(requests, q) /\ Cardinality(Backlog) < QueueBound
    /\ CoreStep

\* A caller that found a call follows its record.
LEMMA CallerFollows ==
    ASSUME ActorInv, CoreInv, NEW k \in Callers, caller[k].pc # "idle", NEW pc \in CallerPcs,
           NEW c \in Calls, Follow(k, record[c], pc)
    PROVE  CallerMoves(k)
<1>1. "restore" \in CallerPcs /\ record[c].token \in Tokens \cup {NoToken}
  BY DEF CallerPcs, CoreInv, Records
<1> QED BY <1>1, CallerWrites DEF Follow

\* A caller starts with a call or with a retry of one.
LEMMA StartingCaller ==
    ASSUME ActorInv, CoreInv, NEW k \in Callers, NEW c \in Calls, NEW d \in Digests,
           CallTool(k, c, d) \/ RetryTool(k, c, d)
    PROVE  CallerMoves(k)
<1>1. PICK t \in Tokens \cup {NoToken}, o \in Nat : t = record[c].token /\ o = record[c].overloadEvent
  BY DEF CoreInv, Records
<1>2. PICK x, y, z, w : /\ x = At("resolve", c, d) /\ y = At("restore", c, d)
                        /\ z = At("resume", c, d) /\ w = At("reroute", c, d)
  OBVIOUS
<1>3. PICK zt, wt : zt = [z EXCEPT !.token = t] /\ wt = [w EXCEPT !.token = t, !.overload = o]
  OBVIOUS
<1>4. x \in CallerStates /\ x.call = c /\ x.digest = d /\ x.overload = 0
  BY <1>2 DEF At, IdleCaller, CallerStates
<1>5. y \in CallerStates /\ y.call = c /\ y.digest = d /\ y.overload = 0
  BY <1>2 DEF At, IdleCaller, CallerStates
<1>6. zt \in CallerStates /\ zt.call = c /\ zt.digest = d /\ zt.overload = 0
  <2>1. z \in CallerStates /\ z.call = c /\ z.digest = d /\ z.overload = 0
    BY <1>2 DEF At, IdleCaller, CallerStates
  <2> QED BY <1>3, <2>1 DEF CallerStates
<1>7. wt \in CallerStates /\ wt.call = c /\ wt.digest = d /\ wt.overload = o
  <2>1. w \in CallerStates /\ w.call = c /\ w.digest = d
    BY <1>2 DEF At, IdleCaller, CallerStates
  <2> QED BY <1>3, <2>1 DEF CallerStates
<1>8. CallerGood(IdleCaller) /\ IdleCaller.overload = 0
  BY CallerWrites
<1>9. CASE CallTool(k, c, d)
  <2>1. \/ caller' = [caller EXCEPT ![k] = IdleCaller] \/ caller' = [caller EXCEPT ![k] = x]
        \/ caller' = [caller EXCEPT ![k] = y] \/ caller' = [caller EXCEPT ![k] = zt]
    BY <1>1, <1>2, <1>3, <1>9 DEF CallTool
  <2> QED BY <1>4, <1>5, <1>6, <1>8, <2>1 DEF CallerMoves, CallerGood, Carries
<1>10. CASE RetryTool(k, c, d)
  <2>1. caller' = [caller EXCEPT ![k] = y] \/ caller' = [caller EXCEPT ![k] = wt]
    BY <1>1, <1>2, <1>3, <1>10 DEF RetryTool
  <2>2. Admitted(c) /\ UNCHANGED record
    BY <1>10 DEF RetryTool, Attaches, Matches, Admitted
  <2> QED BY <1>1, <1>5, <1>7, <2>1, <2>2 DEF CallerMoves, CallerGood, Carries
<1> QED BY <1>9, <1>10

\* Steps of a caller that read, and write nothing but their own state.
LEMMA ReadingCaller ==
    ASSUME EnvInv, CoreInv, NEW k \in Callers,
           \/ \E c \in Calls, d \in Digests : CallTool(k, c, d) \/ RetryTool(k, c, d)
           \/ ResolveRegistration(k) \/ AttachEnsured(k) \/ AttachRejected(k)
           \/ resumeUnpublishedToolCall(k) \/ RouteRetry(k) \/ retryTerminalOrError(k) \/ Abandon(k)
    PROVE  CallerEffect(k)
<1> USE CallerWrites
<1>0. ActorInv /\ AuthorityInv /\ \A c \in Calls : record[c] \in Records
  BY DEF EnvInv, CoreInv
<1>p. {"idle", "resolve", "ensure", "ensured", "reject", "rejected", "resume", "initialize",
              "publish", "restore", "reroute", "unroutable"} \subseteq CallerPcs
  BY DEF CallerPcs
<1>g. CallerGood(caller[k])
  BY <1>0 DEF ActorInv
<1>1. ASSUME NEW c \in Calls, NEW d \in Digests, CallTool(k, c, d) \/ RetryTool(k, c, d) PROVE CallerMoves(k)
  BY <1>0, <1>1, StartingCaller DEF CoreInv
<1>3. CASE ResolveRegistration(k)
  <2>1. open => current \in Tokens \cup {NoToken}
    BY <1>0 DEF AuthorityInv
  <2>2. CallerMoves(k)
    BY <1>0, <1>p, <1>3, <2>1 DEF ResolveRegistration
  <2> QED BY <1>3, <2>2 DEF ResolveRegistration, callerStep, CallerEffect, CoreStep, streamVars
<1>4. ASSUME caller[k].pc # "idle" PROVE caller[k].call \in Calls
  BY <1>g, <1>4 DEF CallerGood
<1>5. CASE AttachEnsured(k)
  <2>1. CallerMoves(k)
    BY <1>0, <1>p, <1>4, <1>5, CallerFollows DEF AttachEnsured
  <2> QED BY <1>5, <2>1 DEF AttachEnsured, callerStep, CallerEffect, CoreStep, streamVars
<1>6. CASE AttachRejected(k)
  <2>1. CallerMoves(k)
    BY <1>0, <1>p, <1>4, <1>6, CallerFollows DEF AttachRejected
  <2> QED BY <1>6, <2>1 DEF AttachRejected, callerStep, CallerEffect, CoreStep, streamVars
<1>7. CASE resumeUnpublishedToolCall(k)
  <2>1. CallerMoves(k)
    BY <1>0, <1>p, <1>7 DEF resumeUnpublishedToolCall
  <2> QED BY <1>7, <2>1 DEF resumeUnpublishedToolCall, callerStep, CallerEffect, CoreStep, streamVars
<1>8. CASE RouteRetry(k)
  <2>1. CallerMoves(k)
    BY <1>0, <1>p, <1>8 DEF RouteRetry
  <2> QED BY <1>8, <2>1 DEF RouteRetry, callerStep, CallerEffect, CoreStep, streamVars
<1>9. CASE retryTerminalOrError(k)
  <2>1. CallerMoves(k)
    BY <1>0, <1>p, <1>9 DEF retryTerminalOrError
  <2> QED BY <1>9, <2>1 DEF retryTerminalOrError, callerStep, CallerEffect, CoreStep, streamVars
<1>10. CASE Abandon(k)
  BY <1>0, <1>10 DEF Abandon, callerStep, CallerEffect, CoreStep, streamVars
<1>11. ASSUME NEW c \in Calls, NEW d \in Digests, CallTool(k, c, d) \/ RetryTool(k, c, d)
       PROVE  CallerEffect(k)
  BY <1>1, <1>11 DEF CallTool, RetryTool, callerStep, CallerEffect, CoreStep, streamVars
<1> QED BY <1>3, <1>5, <1>6, <1>7, <1>8, <1>9, <1>10, <1>11

\* Steps of a caller that write a record, a result stream or the request stream.
LEMMA WritingCaller ==
    ASSUME EnvInv, CoreInv, NEW k \in Callers,
           \/ Ensure(k) \/ Reject(k) \/ InitializeResultStream(k) \/ PublishAdmittedToolCall(k)
           \/ RestoreTerminal(k)
    PROVE  CallerEffect(k)
<1>l. \E id \in Nat \ {0} : id = Len(requests) + 1
  <2>1. requests \in Seq(Requests)
    BY DEF EnvInv, StreamInv
  <2>2. Len(requests) \in Nat
    BY <2>1
  <2> QED BY <2>2
<1> USE CallerWrites
<1>0. ActorInv /\ AuthorityInv /\ StreamInv /\ \A c \in Calls : record[c] \in Records
  BY DEF EnvInv, CoreInv
<1>p. {"idle", "resolve", "ensure", "ensured", "reject", "rejected", "resume", "initialize",
              "publish", "restore", "reroute", "unroutable"} \subseteq CallerPcs
  BY DEF CallerPcs
<1> DEFINE c == caller[k].call  d == caller[k].digest
<1>1. c \in Calls /\ d \in Digests /\ caller[k] \in CallerStates /\ caller[k].token \in Tokens \cup {NoToken}
      /\ caller[k].overload \in Nat
  BY <1>0 DEF ActorInv, CallerGood, CallerStates, Ensure, Reject, InitializeResultStream,
              PublishAdmittedToolCall, RestoreTerminal
<1>2. CASE Ensure(k)
  <2>1. CallerMoves(k)
    BY <1>0, <1>p, <1>2 DEF Ensure
  <2>2. UNCHANGED record \/ IsAdmitted(c)
    BY <1>1, <1>2 DEF Ensure, IsAdmitted, callerStep
  <2> QED BY <1>1, <1>2, <2>1, <2>2 DEF Ensure, callerStep, CallerEffect, CoreStep, streamVars
<1>3. CASE Reject(k)
  <2>1. CallerMoves(k)
    BY <1>0, <1>p, <1>3 DEF Reject
  <2>2. UNCHANGED record \/ IsRejected(c)
    BY <1>1, <1>3 DEF Reject, IsRejected, callerStep
  <2> QED BY <1>1, <1>3, <2>1, <2>2 DEF Reject, callerStep, CallerEffect, CoreStep, streamVars
<1>4. CASE InitializeResultStream(k)
  <2>1. CallerMoves(k)
    BY <1>0, <1>p, <1>4 DEF InitializeResultStream
  <2>2. UNCHANGED <<record, result>> \/ IsReported(c)
    BY <1>1, <1>4 DEF InitializeResultStream, IsReported, callerStep
  <2> QED BY <1>1, <1>4, <2>1, <2>2 DEF InitializeResultStream, callerStep, CallerEffect, CoreStep, streamVars
<1>5. CASE PublishAdmittedToolCall(k)
  <2>1. CallerMoves(k)
    BY <1>0, <1>5 DEF PublishAdmittedToolCall
  <2>2. CASE MayPublish(record[c], k)
    <3> DEFINE q == [call |-> c, token |-> caller[k].token, overload |-> caller[k].overload]
    <3>1. q \in Requests /\ Cardinality(Backlog) < QueueBound
      BY <1>0, <1>1, <2>2 DEF MayPublish, AuthorityInv, Requests
    <3>2. requests' = Append(requests, q)
      BY <1>5, <2>2 DEF PublishAdmittedToolCall
    <3>3. PICK id \in Nat \ {0} : id = Len(requests) + 1
      BY <1>l
    <3>4. PICK o \in Nat : o = caller[k].overload
      BY <1>1
    <3>5. record' = [record EXCEPT ![c].publication = id, ![c].claims = @ \cup {id}, ![c].overload = o]
      BY <1>5, <2>2, <3>3, <3>4 DEF PublishAdmittedToolCall
    <3>6. Admitted(c) /\ ~Terminal(record[c]) /\ ~Dispatched(record[c])
      BY <2>2 DEF MayPublish, NothingToPublish, Admitted
    <3>7. UNCHANGED <<authorityVars, result, lost, acked, indexVars, settler, running, grants>>
      BY <1>5 DEF PublishAdmittedToolCall
    <3> HIDE DEF q
    <3>8. IsPublished(c)
      <4>1. caller[k].pc # "idle"
        BY <1>5 DEF PublishAdmittedToolCall
      <4> QED BY <3>4, <3>5, <3>6, <3>7, <4>1 DEF IsPublished
    <3> QED BY <1>1, <2>1, <3>1, <3>2, <3>7, <3>8 DEF CallerEffect, CoreStep
  <2>3. CASE ~MayPublish(record[c], k)
    BY <1>5, <2>1, <2>3 DEF PublishAdmittedToolCall, CallerEffect, CoreStep
  <2> QED BY <2>2, <2>3
<1>6. CASE RestoreTerminal(k)
  <2>1. CallerMoves(k)
    BY <1>0, <1>6 DEF RestoreTerminal
  <2>2. UNCHANGED <<record, result>> \/ IsRestored(c)
    BY <1>1, <1>6 DEF RestoreTerminal, IsRestored, callerStep
  <2> QED BY <1>1, <1>6, <2>1, <2>2 DEF RestoreTerminal, callerStep, CallerEffect, CoreStep, streamVars
<1> QED BY <1>2, <1>3, <1>4, <1>5, <1>6

\* Every step of a caller.
LEMMA CallerStepEffect ==
    ASSUME EnvInv, CoreInv, NEW k \in Callers, CallerStep(k)
    PROVE  CallerEffect(k)
BY ReadingCaller, WritingCaller DEF CallerStep

-----------------------------------------------------------------------------
(* Providers and settlers. *)

\* The indexes are left alone, lose a call, get a call, or score it anew.
IndexStep ==
    \/ UNCHANGED indexVars
    \/ \E c \in Calls, index \in Indexes : Unindex(c, index)
    \/ \E c \in Calls, x \in Nat :
          /\ settlement' = [settlement EXCEPT ![c] = x]
          /\ \/ UNCHANGED <<leaseIndex, membership>>
             \/ \E t \in Tokens, l \in Leases : /\ leaseIndex' = leaseIndex \cup {<<c, t, l>>}
                                                /\ membership' = [membership EXCEPT ![c] = <<t, l>>]

\* The indexes keep their types.
LEMMA IndexStepKeeps ==
    ASSUME IndexInv, IndexStep
    PROVE  IndexInv'
<1>1. NoIndex \in Indexes
  BY DEF NoIndex, Indexes
<1>2. CASE UNCHANGED indexVars
  BY <1>2 DEF IndexInv, indexVars
<1>3. ASSUME NEW c \in Calls, NEW index \in Indexes, Unindex(c, index) PROVE IndexInv'
  BY <1>1, <1>3 DEF IndexInv, Unindex
<1>4. ASSUME NEW c \in Calls, NEW x \in Nat, settlement' = [settlement EXCEPT ![c] = x],
             UNCHANGED <<leaseIndex, membership>>
      PROVE  IndexInv'
  BY <1>4 DEF IndexInv
<1>5. ASSUME NEW c \in Calls, NEW x \in Nat, settlement' = [settlement EXCEPT ![c] = x],
             NEW t \in Tokens, NEW l \in Leases, leaseIndex' = leaseIndex \cup {<<c, t, l>>},
             membership' = [membership EXCEPT ![c] = <<t, l>>]
      PROVE  IndexInv'
  BY <1>5 DEF IndexInv, Indexes
<1> QED BY <1>2, <1>3, <1>4, <1>5 DEF IndexStep

\* The end of a dispatched or of an unclaimable call.
LEMMA TerminateEnds ==
    ASSUME NEW c \in Calls, CoreInv, UNCHANGED grants, NEW index \in Indexes,
           NEW cause \in Causes \ {"none"}, NEW payload \in Leases \cup {Unknown, Stale},
           Admitted(c), ~Terminal(record[c]), Published(record[c]),
           IF Dispatched(record[c]) THEN payload \in {record[c].dispatchLease, Unknown} ELSE payload = Stale,
           Terminate(c, cause, payload, index)
    PROVE  CoreStep /\ IndexStep
<1>1. IsEnded(c)
  BY DEF Terminate, IsEnded
<1>2. IndexStep
  BY DEF Terminate, IndexStep
<1> QED BY <1>1, <1>2 DEF CoreStep

\* What a step of a provider does to the rest of the system.
ProviderEffect ==
    /\ UNCHANGED <<authorityVars, lost, requests, caller, settler>>
    /\ UNCHANGED acked \/ \E i \in 1 .. Len(requests) : Ack(i)
    /\ running' \subseteq running \cup {w \in Claims : w.request \in 1 .. Len(requests)}
    /\ IndexStep
    /\ CoreStep

\* A delivered request that is neither settled nor rejected has a call to end or dispatch.
LEMMA DeliveredCall ==
    ASSUME EnvInv, CoreInv, NEW l \in Leases, NEW i \in 1 .. Len(requests), Deliverable(l, i)
    PROVE  /\ requests[i] \in Requests /\ requests[i].call \in Calls /\ requests[i].token \in Tokens
           /\ i \in Nat \ {0}
           /\ ~Settled(record[requests[i].call], i) =>
                 /\ Admitted(requests[i].call) /\ ~Terminal(record[requests[i].call])
                 /\ ~Dispatched(record[requests[i].call]) /\ Published(record[requests[i].call])
                 /\ record[requests[i].call].token = requests[i].token
<1>1. requests[i] \in Requests /\ requests[i].call \in Calls /\ requests[i].token \in Tokens /\ i \in Nat \ {0}
  <2>1. requests \in Seq(Requests)
    BY DEF EnvInv, StreamInv
  <2>2. requests[i] \in Requests /\ i \in Nat \ {0}
    BY <2>1
  <2> QED BY <2>2 DEF Requests
<1> DEFINE r == record[requests[i].call]
<1>2. r \in Records /\ RecordGood(r)
  BY <1>1 DEF CoreInv
<1>3. r.decision # "rejected"
  BY DEF Deliverable
<1>4. ASSUME ~Settled(r, i)
      PROVE  /\ r.decision = "admitted" /\ ~Terminal(r) /\ ~Dispatched(r) /\ r.token = requests[i].token
             /\ i \in r.claims
  BY <1>2, <1>3, <1>4 DEF Settled, Owns, Records
<1>5. i \in r.claims => Published(r)
  BY <1>2 DEF RecordGood
<1> QED BY <1>1, <1>4, <1>5 DEF Admitted

\* A worker the registry listens to holds the dispatch of its call.
LEMMA AuthorizedCall ==
    ASSUME EnvInv, CoreInv, NEW w \in running
    PROVE  /\ w \in Claims /\ w.call \in Calls /\ w.lease \in Leases /\ w.token \in Tokens
           /\ w.request \in 1 .. Len(requests)
           /\ Authorized(w) => /\ Admitted(w.call) /\ Published(record[w.call])
                               /\ Dispatched(record[w.call]) /\ record[w.call].dispatchLease = w.lease
                               /\ record[w.call].dispatchToken = w.token
<1> USE CallAssumption
<1>1. w \in Claims /\ w.call \in Calls /\ w.lease \in Leases /\ w.token \in Tokens
      /\ w.request \in 1 .. Len(requests)
  BY DEF EnvInv, StreamInv, Claims
<1>2. record[w.call] \in Records /\ RecordGood(record[w.call])
  BY <1>1 DEF CoreInv
<1>3. ASSUME Authorized(w)
      PROVE  /\ w.request \in record[w.call].claims /\ record[w.call].dispatchLease = w.lease
             /\ record[w.call].dispatchToken = w.token
  BY <1>3 DEF Authorized, Owns
<1> QED BY <1>1, <1>2, <1>3 DEF RecordGood, Admitted, Dispatched

\* Every step of a provider.
LEMMA ProviderStepEffect ==
    ASSUME EnvInv, CoreInv, ProviderStep
    PROVE  ProviderEffect
<1> USE CallAssumption
<1>0. AuthorityInv /\ record \in [Calls -> Records] /\ NoIndex \in Indexes
  BY DEF EnvInv, CoreInv, NoIndex, Indexes
<1>1. ASSUME NEW l \in Leases, NEW i \in 1 .. Len(requests), ClaimVoid(l, i) PROVE ProviderEffect
  BY <1>1 DEF ClaimVoid, ProviderEffect, IndexStep, CoreStep
<1>2. ASSUME NEW l \in Leases, NEW i \in 1 .. Len(requests), ClaimStale(l, i) PROVE ProviderEffect
  <2> DEFINE c == requests[i].call
  <2>1. /\ c \in Calls /\ Admitted(c) /\ ~Terminal(record[c]) /\ ~Dispatched(record[c])
        /\ Published(record[c])
    BY <1>2, DeliveredCall DEF ClaimStale
  <2>2. Terminate(c, "stale_admission", Stale, NoIndex) /\ UNCHANGED grants
    BY <1>2 DEF ClaimStale
  <2>3. CoreStep /\ IndexStep
    BY <1>0, <2>1, <2>2, TerminateEnds DEF Causes
  <2> QED BY <1>2, <2>3 DEF ClaimStale, ProviderEffect, MayAck
<1>3. ASSUME NEW l \in Leases, NEW i \in 1 .. Len(requests), Claim(l, i) PROVE ProviderEffect
  <2> DEFINE c == requests[i].call
  <2>1. /\ c \in Calls /\ Admitted(c) /\ ~Terminal(record[c]) /\ ~Dispatched(record[c])
        /\ Published(record[c]) /\ requests[i].token \in Tokens /\ record[c].token = requests[i].token
        /\ i \in Nat
    BY <1>3, DeliveredCall DEF Claim
  <2>2. current \in Tokens /\ record[c].token = current /\ i = record[c].publication
    BY <1>3, <2>1 DEF Claim
  <2>3. record' = [record EXCEPT ![c].dispatchToken = record[c].token, ![c].dispatchLease = l,
                                 ![c].dispatchRequest = record[c].publication]
        /\ grants' = [grants EXCEPT ![c] = @ + 1] /\ UNCHANGED result
    BY <1>3, <2>2 DEF Claim
  <2>4. IsDispatched(c)
    BY <2>1, <2>3 DEF IsDispatched
  <2>5. SettlementDue(record[c], l) \in Nat
    BY <1>0, <2>1 DEF SettlementDue, AuthorityInv, AuthorityTypeOK, Records
  <2>6. IndexStep
    BY <1>3, <2>1, <2>2, <2>5 DEF Claim, IndexStep
  <2> DEFINE w == [call |-> c, request |-> i, lease |-> l, token |-> current]
  <2>7. w \in Claims /\ w.request \in 1 .. Len(requests)
    BY <2>1, <2>2 DEF Claims
  <2>8. running' = running \cup {w}
    BY <1>3 DEF Claim
  <2> HIDE DEF w
  <2> QED BY <1>3, <2>1, <2>4, <2>6, <2>7, <2>8 DEF Claim, ProviderEffect, CoreStep, streamVars
<1>4. ASSUME NEW l \in Leases, NEW i \in 1 .. Len(requests), ReportOverload(l, i) PROVE ProviderEffect
  <2> DEFINE c == requests[i].call
  <2>0. c \in Calls /\ requests[i].token \in Tokens /\ i \in Nat
    BY <1>4, DeliveredCall DEF ReportOverload
  <2>1. CASE OverloadVoid(record[c], i)
    BY <1>4, <2>1 DEF ReportOverload, ProviderEffect, IndexStep, CoreStep, MayAck
  <2>2. CASE ~OverloadVoid(record[c], i)
    <3>1. /\ Admitted(c) /\ ~Terminal(record[c]) /\ ~Dispatched(record[c]) /\ Published(record[c])
      BY <1>4, <2>2, DeliveredCall DEF ReportOverload, OverloadVoid
    <3>2. CASE requests[i].token # current
      <4>1. Terminate(c, "stale_admission", Stale, NoIndex) /\ UNCHANGED grants
        BY <1>4, <2>2, <3>2 DEF ReportOverload
      <4>2. CoreStep /\ IndexStep
        BY <1>0, <2>0, <3>1, <4>1, TerminateEnds DEF Causes
      <4> QED BY <1>4, <4>2 DEF ReportOverload, ProviderEffect, MayAck
    <3>3. CASE requests[i].token = current
      <4>1. IsReported(c)
        BY <1>4, <2>0, <2>2, <3>1, <3>3 DEF ReportOverload, IsReported
      <4>2. UNCHANGED indexVars
        BY <1>4, <2>2, <3>3 DEF ReportOverload
      <4> QED BY <1>4, <2>0, <4>1, <4>2 DEF ReportOverload, ProviderEffect, MayAck, CoreStep, IndexStep
    <3> QED BY <3>2, <3>3
  <2> QED BY <2>1, <2>2
<1>5. ASSUME NEW w \in running, Complete(w) PROVE ProviderEffect
  <2> USE AuthorizedCall
  <2>0. <<w.token, w.lease>> \in Indexes /\ w.call \in Calls /\ w.lease \in Leases
    BY DEF Indexes
  <2>1. CASE ~Authorized(w) \/ Terminal(record[w.call])
    BY <1>5, <2>1 DEF Complete, ProviderEffect, IndexStep, CoreStep
  <2>2. CASE Authorized(w) /\ ~Terminal(record[w.call])
    <3>1. \E cause \in Causes \ {"none"}, payload \in {w.lease, Unknown} :
             Terminate(w.call, cause, payload, <<w.token, w.lease>>)
      BY <1>5, <2>2 DEF Complete, Causes
    <3>2. PICK cause \in Causes \ {"none"}, payload \in {w.lease, Unknown} :
             Terminate(w.call, cause, payload, <<w.token, w.lease>>)
      BY <3>1
    <3>3. CoreStep /\ IndexStep
      <4>1. payload \in Leases \cup {Unknown, Stale} /\ UNCHANGED grants
        BY <1>5, <2>0 DEF Complete
      <4>2. /\ Admitted(w.call) /\ Published(record[w.call]) /\ Dispatched(record[w.call])
            /\ record[w.call].dispatchLease = w.lease
        BY <2>2
      <4> QED BY <2>0, <2>2, <3>2, <4>1, <4>2, TerminateEnds
    <3> QED BY <1>5, <3>3 DEF Complete, ProviderEffect
  <2> QED BY <2>1, <2>2
<1>6. ASSUME NEW w \in running, PublishLiveEvent(w) PROVE ProviderEffect
  <2>1. w.call \in Calls /\ w.lease \in Leases /\ Admitted(w.call)
    BY <1>6, AuthorizedCall DEF PublishLiveEvent
  <2>2. IsReported(w.call)
    BY <1>6, <2>1 DEF PublishLiveEvent, IsReported
  <2> QED BY <1>6, <2>1, <2>2 DEF PublishLiveEvent, ProviderEffect, CoreStep, IndexStep, streamVars
<1>7. ASSUME NEW l \in Leases, Crash(l) PROVE ProviderEffect
  BY <1>7 DEF Crash, ProviderEffect, CoreStep, IndexStep, streamVars
<1> QED BY <1>1, <1>2, <1>3, <1>4, <1>5, <1>6, <1>7 DEF ProviderStep

\* What a step of a settler does to the rest of the system.
SettlerEffect(s) ==
    /\ UNCHANGED <<lost, streamVars, caller, running, grants>>
    /\ SettlerMoves(s)
    /\ IndexStep
    /\ CoreStep

\* The ways a settler's state is written.
LEMMA SettlerWrites ==
    ASSUME ActorInv, NEW s \in Settlers
    PROVE  /\ SettlerGood(IdleSettler)
           /\ settler[s].pc # "idle" /\ Continue(s) => SettlerMoves(s)
           /\ \A n : SettlerGood(n) /\ settler' = [settler EXCEPT ![s] = n] => SettlerMoves(s)
           /\ \A cause \in Causes \ {"none"}, due \in SUBSET Calls :
                 SettlerGood([IdleSettler EXCEPT !.pc = "identity", !.cause = cause, !.due = due])
           /\ \A cause \in Causes \ {"none"}, t \in Tokens, l \in Leases :
                 SettlerGood([IdleSettler EXCEPT !.pc = "lease", !.cause = cause, !.fallback = <<t, l>>])
<1>0. settler \in [Settlers -> SettlerStates] /\ SettlerGood(settler[s]) /\ settler[s] \in SettlerStates
  BY DEF ActorInv
<1>i. NoIndex \in Indexes /\ \A t \in Tokens, l \in Leases : <<t, l>> \in Indexes
  BY DEF NoIndex, Indexes
<1>1. SettlerGood(IdleSettler) /\ IdleSettler \in SettlerStates
  BY <1>i DEF SettlerGood, IdleSettler, SettlerStates, Causes
<1>2. \A n : SettlerGood(n) /\ settler' = [settler EXCEPT ![s] = n] => SettlerMoves(s)
  BY DEF SettlerMoves, SettlerGood
<1>3. ASSUME settler[s].pc # "idle", Continue(s) PROVE SettlerMoves(s)
  <2> DEFINE n == [settler[s] EXCEPT !.pc = "identity", !.index = NoIndex]
  <2>1. n \in SettlerStates
    BY <1>0, <1>i DEF SettlerStates
  <2>2. n.pc = "identity" /\ n.cause = settler[s].cause
    BY <1>0 DEF SettlerStates
  <2>3. settler' = [settler EXCEPT ![s] = IF settler[s].due = {} THEN IdleSettler ELSE n]
    BY <1>0, <1>3 DEF Continue
  <2> HIDE DEF n
  <2>4. SettlerGood(n)
    BY <1>0, <1>3, <2>1, <2>2 DEF SettlerGood
  <2> QED BY <1>1, <1>2, <2>3, <2>4
<1>4. ASSUME NEW cause \in Causes \ {"none"}, NEW due \in SUBSET Calls
      PROVE  SettlerGood([IdleSettler EXCEPT !.pc = "identity", !.cause = cause, !.due = due])
  <2> DEFINE n == [IdleSettler EXCEPT !.pc = "identity", !.cause = cause, !.due = due]
  <2>1. n \in SettlerStates
    BY <1>1 DEF SettlerStates
  <2>2. n.pc = "identity" /\ n.cause = cause
    BY DEF IdleSettler
  <2> HIDE DEF n
  <2>3. SettlerGood(n)
    BY <2>1, <2>2 DEF SettlerGood
  <2> QED BY <2>3 DEF n
<1>5. ASSUME NEW cause \in Causes \ {"none"}, NEW t \in Tokens, NEW l \in Leases
      PROVE  SettlerGood([IdleSettler EXCEPT !.pc = "lease", !.cause = cause, !.fallback = <<t, l>>])
  <2>0. PICK x \in Indexes : x = <<t, l>>
    BY <1>i
  <2> DEFINE n == [IdleSettler EXCEPT !.pc = "lease", !.cause = cause, !.fallback = x]
  <2>1. n \in SettlerStates
    BY <1>1 DEF SettlerStates
  <2>2. n.pc = "lease" /\ n.cause = cause
    BY DEF IdleSettler
  <2> HIDE DEF n
  <2>3. SettlerGood(n)
    BY <2>1, <2>2 DEF SettlerGood
  <2> QED BY <2>0, <2>3 DEF n
<1> QED BY <1>1, <1>2, <1>3, <1>4, <1>5

\* Every step of a settler.
LEMMA SettlerStepEffect ==
    ASSUME EnvInv, CoreInv, NEW s \in Settlers, SettlerStep(s)
    PROVE  SettlerEffect(s) /\ UNCHANGED authorityVars
<1> USE CallAssumption
<1>0. /\ ActorInv /\ IndexInv /\ AuthorityInv
      /\ settler \in [Settlers -> SettlerStates] /\ SettlerGood(settler[s]) /\ settler[s] \in SettlerStates
  BY DEF EnvInv, ActorInv
<1>c. Causes = {"none", "provider", "execution_deadline", "stale_admission",
                "provider_lease_lost", "provider_lease_released"}
  BY DEF Causes
<1>m. \A n : SettlerGood(n) /\ settler' = [settler EXCEPT ![s] = n] => SettlerMoves(s)
  BY <1>0, SettlerWrites
<1>1. CASE SettleLostClaims(s)
  <2> DEFINE due == {c \in Calls : settlement[c] # 0 /\ settlement[c] <= clock}
  <2>1. SettlerGood([IdleSettler EXCEPT !.pc = "identity", !.cause = "execution_deadline", !.due = due])
    <3>1. "execution_deadline" \in Causes \ {"none"} /\ due \in SUBSET Calls
      BY <1>c
    <3> HIDE DEF due
    <3> QED BY <1>0, <3>1, SettlerWrites
  <2>2. SettlerMoves(s)
    BY <1>1, <1>m, <2>1 DEF SettleLostClaims
  <2> QED BY <1>1, <2>2 DEF SettleLostClaims, settlerStep, SettlerEffect, IndexStep, CoreStep
<1>2. CASE SettleLostClaimsForLease(s)
  <2> DEFINE due == {c \in Calls : <<c, settler[s].fallback[1], settler[s].fallback[2]>> \in leaseIndex}
             n == [settler[s] EXCEPT !.pc = "identity", !.due = due]
  <2>1. due \in SUBSET Calls
    OBVIOUS
  <2>2. settler' = [settler EXCEPT ![s] = IF due = {} THEN IdleSettler ELSE n]
    BY <1>0, <1>2 DEF SettleLostClaimsForLease
  <2>3. settler[s].pc = "lease"
    BY <1>2 DEF SettleLostClaimsForLease
  <2> HIDE DEF due
  <2>4. n \in SettlerStates /\ n.pc = "identity" /\ n.cause = settler[s].cause
    BY <1>0, <2>1 DEF SettlerStates
  <2> HIDE DEF n
  <2>5. SettlerGood(n)
    BY <1>0, <2>3, <2>4 DEF SettlerGood
  <2>6. SettlerMoves(s)
    BY <1>0, <1>m, <2>2, <2>5, SettlerWrites
  <2> QED BY <1>2, <2>6 DEF SettleLostClaimsForLease, settlerStep, SettlerEffect, IndexStep, CoreStep
<1>3. ASSUME NEW c \in Calls, ReadIdentity(s, c) PROVE SettlerEffect(s) /\ UNCHANGED authorityVars
  <2>1. PICK pc \in {"membership", "cleanup"} : pc = IF Admitted(c) THEN "membership" ELSE "cleanup"
    OBVIOUS
  <2>2. PICK due \in SUBSET Calls : due = settler[s].due \ {c}
    BY <1>0 DEF SettlerStates
  <2> DEFINE n == [settler[s] EXCEPT !.pc = pc, !.call = c, !.due = due]
  <2>3. settler' = [settler EXCEPT ![s] = n]
    BY <1>0, <1>3, <2>1, <2>2 DEF ReadIdentity, SettlerStates
  <2>4. n \in SettlerStates
    BY <1>0 DEF SettlerStates
  <2>5. n.pc = pc /\ n.cause = settler[s].cause /\ n.call = c
    BY <1>0 DEF SettlerStates
  <2>6. settler[s].pc = "identity"
    BY <1>3 DEF ReadIdentity
  <2> HIDE DEF n
  <2>7. SettlerGood(n)
    BY <1>0, <2>4, <2>5, <2>6 DEF SettlerGood
  <2>8. SettlerMoves(s)
    BY <1>m, <2>3, <2>7
  <2> QED BY <1>3, <2>8 DEF ReadIdentity, settlerStep, SettlerEffect, IndexStep, CoreStep
<1>4. CASE ReadMembership(s)
  <2>0. settler[s].pc = "membership"
    BY <1>4 DEF ReadMembership
  <2>1. settler[s].call \in Calls
    BY <1>0, <2>0 DEF SettlerGood
  <2>2. PICK index \in Indexes : index = membership[settler[s].call]
    BY <1>0, <2>1 DEF IndexInv
  <2> DEFINE n == [settler[s] EXCEPT !.pc = "settle", !.index = index]
  <2>3. settler' = [settler EXCEPT ![s] = IF index = NoIndex THEN IdleSettler ELSE n]
    BY <1>0, <1>4, <2>2 DEF ReadMembership
  <2>4. n \in SettlerStates
    BY <1>0 DEF SettlerStates
  <2>5. n.pc = "settle" /\ n.cause = settler[s].cause /\ n.call = settler[s].call
    BY <1>0 DEF SettlerStates
  <2> HIDE DEF n
  <2>7. SettlerGood(n)
    BY <1>0, <2>0, <2>1, <2>4, <2>5 DEF SettlerGood
  <2>8. SettlerMoves(s)
    BY <1>0, <1>m, <2>3, <2>7, SettlerWrites
  <2> QED BY <1>4, <2>8 DEF ReadMembership, settlerStep, SettlerEffect, IndexStep, CoreStep
<1>5. CASE settleLostClaim(s)
  <2> DEFINE c == settler[s].call  r == record[c]  index == settler[s].index
  <2>0. settler[s].pc = "settle" /\ Continue(s)
    BY <1>5 DEF settleLostClaim
  <2>1. c \in Calls /\ index \in Indexes /\ settler[s].cause \in Causes \ {"none"}
    BY <1>0, <2>0 DEF SettlerGood, SettlerStates
  <2>2. SettlerMoves(s)
    BY <1>0, <2>0, SettlerWrites
  <2>3. r \in Records /\ RecordGood(r)
    BY <2>1 DEF CoreInv
  <2>4. CASE ~Unsettled(r)
    BY <1>5, <2>1, <2>2, <2>4 DEF settleLostClaim, settlerStep, SettlerEffect, IndexStep, CoreStep
  <2>5. CASE Unsettled(r)
    <3>1. Dispatched(r) /\ ~Terminal(r) /\ Published(r) /\ Admitted(c)
      BY <2>3, <2>5 DEF Unsettled, RecordGood, Admitted
    <3>2. UNCHANGED grants
      BY <1>5 DEF settleLostClaim, settlerStep
    <3>3. ASSUME NEW cause \in Causes \ {"none"}, Terminate(c, cause, Unknown, index)
          PROVE  CoreStep /\ IndexStep
      <4>1. Unknown \in Leases \cup {Unknown, Stale}
        OBVIOUS
      <4>2. IF Dispatched(r) THEN Unknown \in {r.dispatchLease, Unknown} ELSE Unknown = Stale
        BY <3>1
      <4> QED BY <2>1, <3>1, <3>2, <3>3, <4>1, <4>2, TerminateEnds
    <3>4. ASSUME settlement' = [settlement EXCEPT ![c] = SettlementDue(r, r.dispatchLease)],
                 UNCHANGED <<record, result, leaseIndex, membership>>
          PROVE  CoreStep /\ IndexStep
      <4>1. r.dispatchLease \in Leases /\ r.deadline \in Nat
        BY <2>3, <3>1 DEF Dispatched, Records
      <4>2. SettlementDue(r, r.dispatchLease) \in Nat
        BY <1>0, <4>1 DEF SettlementDue, AuthorityInv, AuthorityTypeOK
      <4>3. PICK x \in Nat : x = SettlementDue(r, r.dispatchLease)
        BY <4>2
      <4>4. settlement' = [settlement EXCEPT ![c] = x]
        BY <3>4, <4>3
      <4>5. CoreStep
        BY <3>2, <3>4 DEF CoreStep
      <4>6. IndexStep
        <5>1. UNCHANGED <<leaseIndex, membership>>
          BY <3>4
        <5>2. PICK e \in Calls : e = c
          BY <2>1
        <5>3. settlement' = [settlement EXCEPT ![e] = x]
          BY <4>4, <5>2
        <5> QED BY <5>1, <5>3 DEF IndexStep
      <4> QED BY <4>5, <4>6
    <3>5. CoreStep /\ IndexStep
      <4>1. "provider_lease_lost" \in Causes \ {"none"}
        BY <1>c
      <4>2. \/ Terminate(c, settler[s].cause, Unknown, index)
            \/ Terminate(c, "provider_lease_lost", Unknown, index)
            \/ /\ settlement' = [settlement EXCEPT ![c] = SettlementDue(r, r.dispatchLease)]
               /\ UNCHANGED <<record, result, leaseIndex, membership>>
        BY <1>5, <2>5 DEF settleLostClaim
      <4> HIDE DEF c, r, index
      <4> QED BY <2>1, <3>3, <3>4, <4>1, <4>2
    <3> QED BY <1>5, <2>2, <3>5 DEF settleLostClaim, settlerStep, SettlerEffect
  <2> QED BY <2>4, <2>5
<1>6. CASE cleanupSettlementMember(s)
  <2>0. settler[s].pc = "cleanup" /\ Continue(s)
    BY <1>6 DEF cleanupSettlementMember
  <2>1. settler[s].call \in Calls /\ settler[s].fallback \in Indexes
    BY <1>0, <2>0 DEF SettlerGood, SettlerStates
  <2>2. SettlerMoves(s)
    BY <1>0, <2>0, SettlerWrites
  <2>3. membership[settler[s].call] \in Indexes
    BY <1>0, <2>1 DEF IndexInv
  <2>4. PICK index \in Indexes : Unindex(settler[s].call, index)
    BY <1>6, <2>1, <2>3 DEF cleanupSettlementMember
  <2> QED BY <1>6, <2>1, <2>2, <2>4 DEF cleanupSettlementMember, settlerStep, SettlerEffect, IndexStep, CoreStep
<1> QED BY <1>1, <1>2, <1>3, <1>4, <1>5, <1>6 DEF SettlerStep

-----------------------------------------------------------------------------
(* The invariant. *)

\* The catalog keeps its types, and an open admission has a token.
LEMMA AuthorityKeeps ==
    ASSUME AuthorityInv,
           \/ Tick \/ Retire \/ UNCHANGED authorityVars
           \/ \E t \in Tokens, l \in Leases : Admit(t, l, clock + LeaseDuration)
           \/ \E l \in Leases : Renew(l, clock + LeaseDuration)
           \/ \E l \in Leases, x \in Nat : Drain(l, x)
           \/ \E l \in Leases : Withdraw(l)
    PROVE  AuthorityInv'
<1> USE AuthorityAssumption DEF AuthorityInv, AuthorityTypeOK
<1>0. /\ \A x \in Nat, y \in Nat : AtClock(x, y) \in Nat
      /\ clock + LeaseDuration \in Nat
  BY DEF AtClock
<1>1. CASE Tick
  <2>1. clock' \in Nat /\ UNCHANGED <<current, open, retired>>
    BY <1>1 DEF Tick
  <2>2. expires' \in [Leases -> Nat] /\ draining' \subseteq Leases
    BY <1>0, <1>1, <2>1 DEF Tick
  <2> QED BY <2>1, <2>2
<1>2. CASE Retire
  BY <1>2 DEF Retire
<1>3. CASE UNCHANGED authorityVars
  BY <1>3 DEF authorityVars
<1>4. ASSUME NEW t \in Tokens, NEW l \in Leases, Admit(t, l, clock + LeaseDuration) PROVE AuthorityInv'
  BY <1>0, <1>4 DEF Admit
<1>5. ASSUME NEW l \in Leases, NEW x \in Nat, Renew(l, x) PROVE AuthorityInv'
  BY <1>0, <1>5 DEF Renew
<1>6. ASSUME NEW l \in Leases, NEW x \in Nat, Drain(l, x) PROVE AuthorityInv'
  BY <1>0, <1>6 DEF Drain
<1>7. ASSUME NEW l \in Leases, Withdraw(l) PROVE AuthorityInv'
  BY <1>7 DEF Withdraw
<1> QED BY <1>0, <1>1, <1>2, <1>3, <1>4, <1>5, <1>6, <1>7

\* A request is appended.
LEMMA AppendKeeps ==
    ASSUME StreamInv, QueueIsBounded, NEW q \in Requests, requests' = Append(requests, q),
           UNCHANGED <<acked, running>>, Cardinality(Backlog) < QueueBound
    PROVE  StreamInv' /\ QueueIsBounded'
<1> USE CallAssumption
<1>1. requests \in Seq(Requests)
  BY DEF StreamInv
<1>2. requests' \in Seq(Requests) /\ Len(requests') = Len(requests) + 1 /\ Len(requests) \in Nat
  BY <1>1
<1>3. StreamInv'
  <2>1. 1 .. Len(requests) \subseteq 1 .. Len(requests')
    BY <1>2
  <2> QED BY <1>2, <2>1 DEF StreamInv
<1>4. IsFiniteSet(Backlog)
  <2>1. IsFiniteSet(1 .. Len(requests))
    BY <1>2, FS_Interval
  <2> QED BY <2>1, FS_Subset DEF Backlog
<1>5. Backlog' = Backlog \cup {Len(requests) + 1}
  <2>1. Len(requests) + 1 \notin acked
    BY <1>2 DEF StreamInv
  <2> QED BY <1>2, <2>1 DEF Backlog
<1>6. PICK b : b = Backlog
  OBVIOUS
<1>7. Cardinality(b) \in Nat /\ Cardinality(b \cup {Len(requests) + 1}) <= Cardinality(b) + 1
  <2>1. IsFiniteSet(b)
    BY <1>4, <1>6
  <2>2. Cardinality(b) \in Nat
    BY <2>1, FS_CardinalityType
  <2>3. \/ Cardinality(b \cup {Len(requests) + 1}) = Cardinality(b)
        \/ Cardinality(b \cup {Len(requests) + 1}) = Cardinality(b) + 1
    BY <2>1, FS_AddElement
  <2> QED BY <2>2, <2>3
<1>8. Cardinality(b \cup {Len(requests) + 1}) \in Nat
  <2>1. IsFiniteSet(b)
    BY <1>4, <1>6
  <2> QED BY <2>1, FS_AddElement, FS_CardinalityType
<1> QED BY <1>3, <1>5, <1>6, <1>7, <1>8 DEF QueueIsBounded

\* Requests are acknowledged, claims are granted and dropped.
LEMMA DeliveryKeeps ==
    ASSUME StreamInv, QueueIsBounded, UNCHANGED requests,
           UNCHANGED acked \/ \E i \in 1 .. Len(requests) : Ack(i),
           running' \subseteq running \cup {w \in Claims : w.request \in 1 .. Len(requests)}
    PROVE  StreamInv' /\ QueueIsBounded'
<1> USE CallAssumption
<1>1. requests \in Seq(Requests)
  BY DEF StreamInv
<1>2. Len(requests) \in Nat
  BY <1>1
<1>3. acked \subseteq acked' /\ acked' \subseteq 1 .. Len(requests)
  BY DEF StreamInv, Ack
<1>4. StreamInv'
  BY <1>3 DEF StreamInv
<1>5. PICK b : b = Backlog
  OBVIOUS
<1>6. IsFiniteSet(b)
  <2>1. IsFiniteSet(1 .. Len(requests))
    BY <1>2, FS_Interval
  <2> QED BY <1>5, <2>1, FS_Subset DEF Backlog
<1>7. Backlog' \subseteq b
  BY <1>3, <1>5 DEF Backlog
<1>8. PICK e : e = Backlog'
  OBVIOUS
<1>9. Cardinality(e) \in Nat /\ Cardinality(b) \in Nat /\ Cardinality(e) <= Cardinality(b)
  BY <1>6, <1>7, <1>8, FS_Subset, FS_CardinalityType
<1>10. Cardinality(b) <= QueueBound
  BY <1>5 DEF QueueIsBounded
<1> QED BY <1>4, <1>8, <1>9, <1>10 DEF QueueIsBounded

\* One caller, or one settler, that moves on leaves the others as they are.
LEMMA ActorsKeep ==
    ASSUME ActorInv,
           UNCHANGED caller \/ \E k \in Callers : CallerMoves(k),
           UNCHANGED settler \/ \E s \in Settlers : SettlerMoves(s)
    PROVE  ActorInv'
<1>1. caller' \in [Callers -> CallerStates] /\ \A k \in Callers : CallerGood(caller'[k])
  <2>1. CASE UNCHANGED caller
    BY <2>1 DEF ActorInv
  <2>2. ASSUME NEW k \in Callers, CallerMoves(k)
        PROVE  caller' \in [Callers -> CallerStates] /\ \A j \in Callers : CallerGood(caller'[j])
    BY <2>2 DEF ActorInv, CallerMoves
  <2> QED BY <2>1, <2>2
<1>2. settler' \in [Settlers -> SettlerStates] /\ \A s \in Settlers : SettlerGood(settler'[s])
  <2>1. CASE UNCHANGED settler
    BY <2>1 DEF ActorInv
  <2>2. ASSUME NEW s \in Settlers, SettlerMoves(s)
        PROVE  settler' \in [Settlers -> SettlerStates] /\ \A j \in Settlers : SettlerGood(settler'[j])
    BY <2>2 DEF ActorInv, SettlerMoves
  <2> QED BY <2>1, <2>2
<1> QED BY <1>1, <1>2 DEF ActorInv, CallerGood, SettlerGood

RoutedInv == CoreInv /\ EnvInv /\ QueueIsBounded

\* What holds before the first step.
LEMMA RoutedInit ==
    ASSUME Init
    PROVE  RoutedInv
<1> USE CallAssumption, AuthorityAssumption DEF Init, AuthorityInit
<1>0. NoRecord \in Records /\ RecordGood(NoRecord) /\ ~Dispatched(NoRecord) /\ NoRecord.decision = "none"
  BY FreshRecords
<1>1. CoreInv
  BY <1>0 DEF CoreInv, ResultGood, GrantsGood, Admitted
<1>2. AuthorityInv
  BY DEF AuthorityInv, AuthorityTypeOK
<1>3. StreamInv
  BY DEF StreamInv
<1>4. Backlog = {}
  BY DEF Backlog
<1>5. QueueIsBounded
  BY <1>4, FS_EmptySet DEF QueueIsBounded
<1>6. CallerGood(IdleCaller) /\ IdleCaller \in CallerStates
  BY DEF CallerGood, IdleCaller, CallerStates
<1>7. NoIndex \in Indexes
  BY DEF NoIndex, Indexes
<1>8. SettlerGood(IdleSettler) /\ IdleSettler \in SettlerStates
  BY <1>7 DEF SettlerGood, IdleSettler, SettlerStates, Causes
<1>9. ActorInv
  BY <1>6, <1>8 DEF ActorInv
<1>10. IndexInv /\ LostInv
  BY <1>7 DEF IndexInv, LostInv
<1> QED BY <1>1, <1>2, <1>3, <1>5, <1>9, <1>10 DEF RoutedInv, EnvInv

\* The expiry of records is a step of the core.
LEMMA TimeEffect ==
    ASSUME RoutedInv, Time
    PROVE  /\ CoreStep /\ LostInv'
           /\ Tick /\ UNCHANGED <<requests, acked, running, caller, settler, indexVars>>
<1>1. /\ Tick /\ UNCHANGED <<result, requests, acked, running, caller, settler, indexVars>>
      /\ lost' = [c \in Calls |-> IF Expired(c, clock') THEN Len(result[c]) ELSE lost[c]]
  BY DEF Time, streamVars
<1>2. PICK gone \in SUBSET Calls : gone = {c \in Calls : Expired(c, clock')}
  OBVIOUS
<1>3. /\ record' = [c \in Calls |-> IF c \in gone THEN NoRecord ELSE record[c]]
      /\ grants' = [c \in Calls |-> IF c \in gone THEN 0 ELSE grants[c]]
  BY <1>2 DEF Time
<1>4. AreForgotten(gone)
  BY <1>1, <1>3 DEF AreForgotten
<1>5. \A c \in Calls : Len(result[c]) \in Nat
  BY DEF RoutedInv, CoreInv
<1>6. LostInv'
  BY <1>1, <1>5 DEF RoutedInv, EnvInv, LostInv
<1> QED BY <1>1, <1>4, <1>6 DEF CoreStep

\* Every step is a step of the core, and keeps the invariant.
LEMMA RoutedStep ==
    ASSUME RoutedInv, [Next]_vars
    PROVE  CoreStep /\ RoutedInv'
<1> USE CallAssumption, AuthorityAssumption
<1>0. CoreInv /\ EnvInv /\ QueueIsBounded /\ AuthorityInv /\ StreamInv /\ ActorInv /\ IndexInv /\ LostInv
  BY DEF RoutedInv, EnvInv
<1>k. ASSUME CoreStep, AuthorityInv', StreamInv', QueueIsBounded', ActorInv', IndexInv', LostInv'
      PROVE  CoreStep /\ RoutedInv'
  <2>1. clock' \in Nat
    BY <1>k DEF AuthorityInv, AuthorityTypeOK
  <2>2. CoreInv'
    BY <1>0, <1>k, <2>1, CoreStepKeeps
  <2> QED BY <1>k, <2>2 DEF RoutedInv, EnvInv
<1>s. UNCHANGED <<requests, acked, running>> => StreamInv' /\ QueueIsBounded'
  BY <1>0 DEF StreamInv, QueueIsBounded, Backlog
<1>i. UNCHANGED indexVars => IndexInv'
  BY <1>0 DEF IndexInv, indexVars
<1>l. UNCHANGED lost => LostInv'
  BY <1>0 DEF LostInv
<1>1. CASE Time
  <2>1. AuthorityInv' /\ ActorInv'
    BY <1>0, <1>1, TimeEffect, AuthorityKeeps, ActorsKeep
  <2> QED BY <1>1, <1>k, <1>s, <1>i, <2>1, TimeEffect
<1>2. CASE Catalog
  <2>1. AuthorityInv'
    <3>1. ASSUME NEW l \in Live PROVE (IF expires[l] > clock + DrainDuration THEN expires[l]
                                         ELSE clock + DrainDuration) \in Nat /\ l \in Leases
      BY <1>0 DEF Live, AuthorityInv, AuthorityTypeOK
    <3> QED BY <1>0, <1>2, <3>1, AuthorityKeeps DEF Catalog
  <2>2. UNCHANGED callVars
    BY <1>2 DEF Catalog
  <2>3. ActorInv' /\ CoreStep /\ UNCHANGED <<requests, acked, running>> /\ UNCHANGED indexVars /\ UNCHANGED lost
    BY <1>0, <2>2, ActorsKeep DEF callVars, indexVars, CoreStep
  <2> QED BY <1>k, <1>s, <1>i, <1>l, <2>1, <2>3
<1>3. ASSUME NEW c \in Calls, LoseStream(c) PROVE CoreStep /\ RoutedInv'
  <2>1. Len(result[c]) \in Nat
    BY <1>0 DEF CoreInv
  <2>2. LostInv'
    BY <1>0, <1>3, <2>1 DEF LoseStream, LostInv
  <2>3. /\ UNCHANGED authorityVars /\ UNCHANGED <<requests, acked, running>> /\ UNCHANGED indexVars
        /\ UNCHANGED <<record, result, grants, caller, settler>>
    BY <1>3 DEF LoseStream, streamVars
  <2>4. ActorInv' /\ AuthorityInv' /\ CoreStep
    BY <1>0, <2>3, ActorsKeep, AuthorityKeeps DEF CoreStep
  <2> QED BY <1>k, <1>s, <1>i, <2>2, <2>3, <2>4
<1>4. ASSUME NEW k \in Callers, CallerStep(k) PROVE CoreStep /\ RoutedInv'
  <2>1. CallerEffect(k)
    BY <1>0, <1>4, CallerStepEffect
  <2>2. StreamInv' /\ QueueIsBounded'
    BY <1>0, <1>s, <2>1, AppendKeeps DEF CallerEffect
  <2>3. /\ UNCHANGED authorityVars /\ UNCHANGED indexVars /\ UNCHANGED lost /\ UNCHANGED settler
        /\ CallerMoves(k) /\ CoreStep
    BY <2>1 DEF CallerEffect
  <2>4. ActorInv' /\ AuthorityInv'
    BY <1>0, <2>3, ActorsKeep, AuthorityKeeps
  <2> QED BY <1>k, <1>i, <1>l, <2>2, <2>3, <2>4
<1>5. CASE ProviderStep
  <2>1. ProviderEffect
    BY <1>0, <1>5, ProviderStepEffect
  <2>2. StreamInv' /\ QueueIsBounded'
    BY <1>0, <2>1, DeliveryKeeps DEF ProviderEffect
  <2>3. UNCHANGED authorityVars /\ IndexStep /\ UNCHANGED lost /\ UNCHANGED <<caller, settler>> /\ CoreStep
    BY <2>1 DEF ProviderEffect
  <2>4. ActorInv' /\ AuthorityInv' /\ IndexInv'
    BY <1>0, <2>3, ActorsKeep, AuthorityKeeps, IndexStepKeeps
  <2> QED BY <1>k, <1>l, <2>2, <2>3, <2>4
<1>6. ASSUME NEW s \in Settlers, SettlerEffect(s), AuthorityInv' PROVE CoreStep /\ RoutedInv'
  <2>1. /\ UNCHANGED <<requests, acked, running>> /\ UNCHANGED lost /\ UNCHANGED caller /\ IndexStep
        /\ SettlerMoves(s) /\ CoreStep
    BY <1>6 DEF SettlerEffect, streamVars
  <2>2. ActorInv' /\ IndexInv'
    BY <1>0, <2>1, ActorsKeep, IndexStepKeeps
  <2> QED BY <1>6, <1>k, <1>s, <1>l, <2>1, <2>2
<1>7. ASSUME NEW s \in Settlers, SettlerStep(s) PROVE CoreStep /\ RoutedInv'
  BY <1>0, <1>6, <1>7, SettlerStepEffect, AuthorityKeeps
<1>8. ASSUME NEW s \in Releasers, NEW t \in Tokens, NEW l \in Leases, ReleaseProvider(s, t, l)
      PROVE  CoreStep /\ RoutedInv'
  <2>1. AuthorityInv'
    BY <1>0, <1>8, AuthorityKeeps DEF ReleaseProvider
  <2>2. s \in Settlers /\ "provider_lease_released" \in Causes \ {"none"}
    BY DEF Settlers, Causes
  <2>3. SettlerMoves(s)
    BY <1>0, <1>8, <2>2, SettlerWrites DEF ReleaseProvider
  <2>4. SettlerEffect(s)
    BY <1>8, <2>3 DEF ReleaseProvider, SettlerEffect, CoreStep, IndexStep
  <2> QED BY <1>6, <2>1, <2>2, <2>4
<1>9. CASE UNCHANGED vars
  <2>1. UNCHANGED authorityVars /\ UNCHANGED callVars
    BY <1>9 DEF vars
  <2>2. /\ ActorInv' /\ AuthorityInv' /\ CoreStep /\ UNCHANGED <<requests, acked, running>>
        /\ UNCHANGED indexVars /\ UNCHANGED lost
    BY <1>0, <2>1, ActorsKeep, AuthorityKeeps DEF callVars, indexVars, CoreStep
  <2> QED BY <1>k, <1>s, <1>i, <1>l, <2>2
<1> QED BY <1>1, <1>2, <1>3, <1>4, <1>5, <1>7, <1>8, <1>9 DEF Next

-----------------------------------------------------------------------------
(* Theorems. *)

\* The invariant holds of every behaviour: the scripts, the handlers that run
\* several of them, and everything that may come between keep it.
THEOREM RoutedInvariant == Spec => []RoutedInv
<1>1. Init => RoutedInv
  BY RoutedInit
<1>2. RoutedInv /\ [Next]_vars => RoutedInv'
  BY RoutedStep
<1> QED BY <1>1, <1>2, PTL DEF Spec

\* Every variable has its type.
THEOREM RoutedTypeCorrect == Spec => []TypeOK
<1>1. RoutedInv => TypeOK
  <2> SUFFICES ASSUME RoutedInv PROVE TypeOK
    OBVIOUS
  <2>1. AuthorityTypeOK /\ lost \in [Calls -> Nat] /\ grants \in [Calls -> Nat]
        /\ settlement \in [Calls -> Nat]
        /\ leaseIndex \subseteq Calls \X Tokens \X Leases
        /\ membership \in [Calls -> Indexes]
        /\ caller \in [Callers -> CallerStates]
        /\ settler \in [Settlers -> SettlerStates]
        /\ acked \subseteq 1 .. Len(requests)
    BY DEF RoutedInv, EnvInv, CoreInv, AuthorityInv, LostInv, IndexInv, ActorInv, StreamInv
  <2>2. \A c \in Calls : record[c] \in Records
    BY DEF RoutedInv, CoreInv
  <2>3. ASSUME NEW c \in Calls, NEW i \in 1 .. Len(result[c]) PROVE result[c][i] \in Events
    <3>1. result[c] \in Seq(Events)
      BY DEF RoutedInv, CoreInv
    <3> QED BY <3>1
  <2>4. ASSUME NEW i \in 1 .. Len(requests) PROVE requests[i] \in [call : Calls, token : Tokens, overload : Nat]
    <3>1. requests \in Seq(Requests)
      BY DEF RoutedInv, EnvInv, StreamInv
    <3>2. requests[i] \in Requests
      BY <3>1
    <3> QED BY <3>2 DEF Requests
  <2>5. \A w \in running : w \in [call : Calls, request : Nat, lease : Leases, token : Tokens]
    BY DEF RoutedInv, EnvInv, StreamInv, Claims
  <2> QED BY <2>1, <2>2, <2>3, <2>4, <2>5 DEF TypeOK
<1> QED BY <1>1, RoutedInvariant, PTL

\* Under one call record a tool is executed at most once, for any number of
\* providers, redeliveries, overload retries and settling replicas.
THEOREM AtMostOneExecutionAlways == Spec => []AtMostOneExecution
<1>1. RoutedInv => AtMostOneExecution
  BY DEF RoutedInv, CoreInv, GrantsGood, AtMostOneExecution
<1> QED BY <1>1, RoutedInvariant, PTL

\* Under one admission nothing but the same terminal follows a terminal event.
THEOREM ResultsEndAtTerminalAlways == Spec => []ResultsEndAtTerminal
<1>1. RoutedInv => ResultsEndAtTerminal
  BY DEF RoutedInv, CoreInv, ResultGood, ResultsEndAtTerminal
<1> QED BY <1>1, RoutedInvariant, PTL

\* The queue of unacknowledged requests keeps its bound although every caller
\* checks it in a script of its own.
THEOREM QueueIsBoundedAlways == Spec => []QueueIsBounded
<1>1. RoutedInv => QueueIsBounded
  BY DEF RoutedInv
<1> QED BY <1>1, RoutedInvariant, PTL

\* Until it expires, a decision keeps its request identity, registration and
\* deadlines, a dispatch its owner, and a terminal its cause and payload.
THEOREM DecisionIsFinalAlways == Spec => DecisionIsFinal
<1> DEFINE Final ==
        \A c \in Calls :
         LET r == record[c] n == record'[c] IN
         r.decision # "none" /\ n # NoRecord =>
            /\ \A f \in {"decision", "digest", "token", "deadline", "expiresAt"} : n[f] = r[f]
            /\ Dispatched(r) => \A f \in {"dispatchLease", "dispatchRequest", "dispatchToken"} : n[f] = r[f]
            /\ Terminal(r) => n.cause = r.cause /\ n.payload = r.payload
<1>1. RoutedInv /\ [Next]_vars => Final
  <2> SUFFICES ASSUME RoutedInv, [Next]_vars, NEW c \in Calls, record[c].decision # "none",
                      record'[c] # NoRecord
               PROVE  /\ \A f \in {"decision", "digest", "token", "deadline", "expiresAt"} :
                            record'[c][f] = record[c][f]
                      /\ Dispatched(record[c]) =>
                            \A f \in {"dispatchLease", "dispatchRequest", "dispatchToken"} :
                               record'[c][f] = record[c][f]
                      /\ Terminal(record[c]) =>
                            record'[c].cause = record[c].cause /\ record'[c].payload = record[c].payload
    OBVIOUS
  <2>1. CoreInv /\ CoreStep
    BY RoutedStep DEF RoutedInv
  <2> QED BY <2>1, DecisionKept
<1>2. RoutedInv /\ [Next]_vars => [Final]_vars
  BY <1>1
<1> HIDE DEF Final
<1>3. Spec => [][Final]_vars
  BY <1>2, RoutedInvariant, PTL DEF Spec
<1> QED BY <1>3 DEF DecisionIsFinal, Final

\* The call records implement the abstract tool call: a tool-use identity is
\* decided once, executed at most once by one lease, and ends once, with that
\* worker's result or an unknown outcome; a call given up as stale was never
\* executed.
THEOREM ImplementsToolCallAlways == Spec => ImplementsToolCall
<1>1. Init => Abstract!CallInit
  <2> SUFFICES ASSUME Init PROVE Views = [c \in Calls |-> Abstract!Free]
    BY AbstractActions
  <2>1. View(NoRecord) = Abstract!Free
    BY AbstractActions DEF View, Stage, NoRecord
  <2> QED BY <2>1 DEF Init, Views
<1>2. RoutedInv /\ [Next]_vars => Abstract!CallNext \/ UNCHANGED Views
  BY RoutedStep, CoreStepRefines DEF RoutedInv
<1>3. RoutedInv /\ [Next]_vars => [Abstract!CallNext]_Views
  BY <1>2
<1>4. Spec => Abstract!CallInit /\ [][Abstract!CallNext]_Views
  BY <1>1, <1>3, RoutedInvariant, PTL DEF Spec
<1> QED BY <1>4, PTL DEF ImplementsToolCall, Abstract!CallSpec, Views, View

-----------------------------------------------------------------------------
(* Attachment and settlement.  That a record accepts every exact retry and *)
(* that the indexes name every unsettled call can fail when a record       *)
(* expires under a handler that read it, and its identity is used again.   *)
(* Under the hypothesis that a record which expires is not in use they     *)
(* hold always, however often identities are used again.                   *)

\* No caller and no settler is under way with the call, and no index has it.
Unused(c) ==
    /\ \A k \in Callers : caller[k].pc # "idle" => caller[k].call # c
    /\ \A s \in Settlers : /\ c \notin settler[s].due
                           /\ settler[s].pc \in {"membership", "settle", "cleanup"} => settler[s].call # c
    /\ settlement[c] = 0
    /\ \A x \in leaseIndex : x[1] # c

\* A record that expires in this step is not in use.
ExpiresUnused ==
    \A c \in Calls : record[c].decision # "none" /\ record'[c].decision = "none" => Unused(c)

\* The overload a request was published for was reported before.
OverloadGood(c) ==
    /\ record[c].overload <= record[c].overloadEvent
    /\ record[c].overloadEvent <= Len(result[c])

\* The overload a caller retries is one of the record it would publish on.
CallerFresh(k) ==
    caller[k].pc # "idle" /\ caller[k].overload # 0 =>
        Admitted(caller[k].call) /\ caller[k].overload <= record[caller[k].call].overloadEvent

\* An indexed call is dispatched; one that is unsettled is indexed.
IndexFresh(c) ==
    /\ settlement[c] # 0 \/ (\E x \in leaseIndex : x[1] = c) => Dispatched(record[c])
    /\ Unsettled(record[c]) =>
          /\ settlement[c] \in 1 .. record[c].deadline
          /\ membership[c] = <<record[c].dispatchToken, record[c].dispatchLease>>
          /\ <<c, record[c].dispatchToken, record[c].dispatchLease>> \in leaseIndex
    /\ settlement[c] # 0 => membership[c] # NoIndex

\* What a settler is about to settle is dispatched.
SettlerFresh(s) ==
    /\ \A c \in settler[s].due : Dispatched(record[c])
    /\ settler[s].pc # "cleanup"
    /\ settler[s].pc \in {"membership", "settle"} => Dispatched(record[settler[s].call])

FreshInv ==
    /\ \A c \in Calls : OverloadGood(c) /\ IndexFresh(c)
    /\ \A k \in Callers : CallerFresh(k)
    /\ \A s \in Settlers : SettlerFresh(s)

\* What one step does to the overloads of a record.
LEMMA OverloadProgress ==
    ASSUME CoreInv, CoreStep, NEW c \in Calls
    PROVE  /\ Len(result'[c]) = Len(result[c]) \/ Len(result'[c]) = Len(result[c]) + 1
           /\ \/ record'[c].overload = 0 /\ record'[c].overloadEvent = 0
                 /\ (record[c].decision = "none" \/ record'[c] = NoRecord)
              \/ /\ record'[c].decision = record[c].decision
                 /\ \/ record'[c].overloadEvent = record[c].overloadEvent
                    \/ /\ record'[c].overloadEvent = Len(result[c]) + 1
                       /\ Len(result'[c]) = Len(result[c]) + 1
                 /\ \/ record'[c].overload = record[c].overload
                    \/ /\ \E k \in Callers : /\ caller[k].pc # "idle" /\ caller[k].call = c
                                             /\ caller[k].overload = record'[c].overload
                       /\ record'[c].overloadEvent = record[c].overloadEvent
<1> USE CallAssumption
<1>0. record \in [Calls -> Records] /\ clock \in Nat /\ result \in [Calls -> Seq(Events)]
  BY DEF CoreInv
<1> DEFINE Same(e) == record'[e] = record[e] /\ result'[e] = result[e]
           Goal(e) ==
             /\ Len(result'[e]) = Len(result[e]) \/ Len(result'[e]) = Len(result[e]) + 1
             /\ \/ record'[e].overload = 0 /\ record'[e].overloadEvent = 0
                   /\ (record[e].decision = "none" \/ record'[e] = NoRecord)
                \/ /\ record'[e].decision = record[e].decision
                   /\ \/ record'[e].overloadEvent = record[e].overloadEvent
                      \/ /\ record'[e].overloadEvent = Len(result[e]) + 1
                         /\ Len(result'[e]) = Len(result[e]) + 1
                   /\ \/ record'[e].overload = record[e].overload
                      \/ /\ \E k \in Callers : /\ caller[k].pc # "idle" /\ caller[k].call = e
                                               /\ caller[k].overload = record'[e].overload
                         /\ record'[e].overloadEvent = record[e].overloadEvent
<1>1. ASSUME NEW e \in Calls, Same(e) PROVE Goal(e)
  BY <1>1
<1>2. ASSUME NEW e \in Calls, IsAdmitted(e) PROVE Goal(e) /\ \A d \in Calls : d # e => Same(d)
  <2>1. PICK d \in Digests, t \in Tokens \cup {NoToken} :
            record' = [record EXCEPT ![e] = NewAdmission(e, d, t)]
    BY <1>2 DEF IsAdmitted
  <2>2. record'[e] = NewAdmission(e, d, t) /\ \A f \in Calls : f # e => record'[f] = record[f]
    BY <1>0, <2>1
  <2>3. NewAdmission(e, d, t).overload = 0 /\ NewAdmission(e, d, t).overloadEvent = 0
    BY FreshAdmission DEF RecordGood
  <2>4. record[e].decision = "none" /\ UNCHANGED result
    BY <1>2 DEF IsAdmitted
  <2> QED BY <2>2, <2>3, <2>4
<1>3. ASSUME NEW e \in Calls, IsRejected(e) PROVE Goal(e) /\ \A d \in Calls : d # e => Same(d)
  <2>1. PICK d \in Digests : record' = [record EXCEPT ![e] = NewRejection(d)]
    BY <1>3 DEF IsRejected
  <2>2. record'[e] = NewRejection(d) /\ \A f \in Calls : f # e => record'[f] = record[f]
    BY <1>0, <2>1
  <2>3. NewRejection(d).overload = 0 /\ NewRejection(d).overloadEvent = 0
    BY <1>0, FreshRecords DEF RecordGood
  <2>4. record[e].decision = "none" /\ UNCHANGED result
    BY <1>3 DEF IsRejected
  <2> QED BY <2>2, <2>3, <2>4
<1>4. ASSUME NEW e \in Calls, IsPublished(e) PROVE Goal(e) /\ \A d \in Calls : d # e => Same(d)
  <2>1. PICK id \in Nat \ {0}, overload \in Nat :
          /\ \E k \in Callers : /\ caller[k].pc # "idle" /\ caller[k].call = e
                                /\ caller[k].overload = overload
          /\ record' = [record EXCEPT ![e].publication = id, ![e].claims = @ \cup {id},
                                      ![e].overload = overload]
    BY <1>4 DEF IsPublished
  <2>2. /\ record'[e].overload = overload /\ record'[e].overloadEvent = record[e].overloadEvent
        /\ record'[e].decision = record[e].decision
        /\ \A d \in Calls : d # e => record'[d] = record[d]
    BY <1>0, <2>1 DEF Records
  <2>3. UNCHANGED result
    BY <1>4 DEF IsPublished
  <2> QED BY <2>1, <2>2, <2>3
<1>5. ASSUME NEW e \in Calls, IsDispatched(e) PROVE Goal(e) /\ \A d \in Calls : d # e => Same(d)
  <2>1. /\ record'[e].overload = record[e].overload /\ record'[e].overloadEvent = record[e].overloadEvent
        /\ record'[e].decision = record[e].decision
        /\ \A d \in Calls : d # e => record'[d] = record[d]
    BY <1>0, <1>5 DEF IsDispatched, Records
  <2>2. UNCHANGED result
    BY <1>5 DEF IsDispatched
  <2> QED BY <2>1, <2>2
<1>6. ASSUME NEW e \in Calls, IsEnded(e) PROVE Goal(e) /\ \A d \in Calls : d # e => Same(d)
  <2>1. PICK cause \in Causes \ {"none"}, payload \in Leases \cup {Unknown, Stale} :
          /\ Emit(e, "terminal", payload)
          /\ record' = [record EXCEPT ![e].cause = cause, ![e].payload = payload,
                                      ![e].terminalEvent = NextEvent(e)]
    BY <1>6 DEF IsEnded
  <2>2. payload \in Payloads /\ cause \in Causes /\ payload \in Payloads \cup Tokens
    BY <2>1 DEF Payloads
  <2>3. /\ record'[e] = [record[e] EXCEPT !.cause = cause, !.payload = payload,
                                          !.terminalEvent = NextEvent(e)]
        /\ \A d \in Calls : d # e => record'[d] = record[d]
    BY <2>1, <2>2, EndedRecord
  <2>4. /\ record'[e].overload = record[e].overload /\ record'[e].overloadEvent = record[e].overloadEvent
        /\ record'[e].decision = record[e].decision
    BY <1>0, <2>3 DEF Records
  <2>5. Len(result'[e]) = Len(result[e]) + 1 /\ \A d \in Calls : d # e => result'[d] = result[d]
    BY <2>1, <2>2, EmitEffect
  <2> QED BY <2>3, <2>4, <2>5
<1>7. ASSUME NEW e \in Calls, IsRestored(e) PROVE Goal(e) /\ \A d \in Calls : d # e => Same(d)
  <2>1. /\ Emit(e, "terminal", record[e].payload)
        /\ record' = [record EXCEPT ![e].terminalEvent = NextEvent(e)]
    BY <1>7 DEF IsRestored
  <2>2. record[e].payload \in Payloads \cup Tokens
    BY <1>0 DEF Records
  <2>3. /\ record'[e].overload = record[e].overload /\ record'[e].overloadEvent = record[e].overloadEvent
        /\ record'[e].decision = record[e].decision
        /\ \A d \in Calls : d # e => record'[d] = record[d]
    BY <1>0, <2>1 DEF Records
  <2>4. Len(result'[e]) = Len(result[e]) + 1 /\ \A d \in Calls : d # e => result'[d] = result[d]
    BY <2>1, <2>2, EmitEffect
  <2> QED BY <2>3, <2>4
<1>8. ASSUME NEW e \in Calls, IsReported(e) PROVE Goal(e) /\ \A d \in Calls : d # e => Same(d)
  <2>1. PICK kind \in {"init", "delta", "retry", "terminal"}, payload \in Payloads \cup Tokens :
            Emit(e, kind, payload)
    BY <1>8 DEF IsReported, Payloads
  <2>2. Len(result'[e]) = Len(result[e]) + 1 /\ \A d \in Calls : d # e => result'[d] = result[d]
    BY <2>1, EmitEffect
  <2>3. CASE UNCHANGED record
    BY <2>2, <2>3
  <2>4. CASE record' = [record EXCEPT ![e].deltas = @ + 1]
    <3>1. /\ record'[e].overload = record[e].overload /\ record'[e].overloadEvent = record[e].overloadEvent
          /\ record'[e].decision = record[e].decision
          /\ \A d \in Calls : d # e => record'[d] = record[d]
      BY <1>0, <2>4 DEF Records
    <3> QED BY <2>2, <3>1
  <2>5. CASE \E i \in Nat : record' = [record EXCEPT ![e].overloadEvent = NextEvent(e),
                                                     ![e].overloaded = @ \cup {i}]
    <3>1. /\ record'[e].overload = record[e].overload /\ record'[e].overloadEvent = NextEvent(e)
          /\ record'[e].decision = record[e].decision
          /\ \A d \in Calls : d # e => record'[d] = record[d]
      BY <1>0, <2>5 DEF Records
    <3> QED BY <2>2, <3>1 DEF NextEvent
  <2> QED BY <1>8, <2>3, <2>4, <2>5 DEF IsReported
<1>9. ASSUME NEW gone \in SUBSET Calls, AreForgotten(gone) PROVE Goal(c)
  <2>1. UNCHANGED result /\ record'[c] = IF c \in gone THEN NoRecord ELSE record[c]
    BY <1>9 DEF AreForgotten
  <2>2. NoRecord.overload = 0 /\ NoRecord.overloadEvent = 0
    BY DEF NoRecord
  <2> QED BY <2>1, <2>2
<1> HIDE DEF Same, Goal
<1>11. Goal(c)
  <2>1. ASSUME NEW e \in Calls, Goal(e) /\ \A d \in Calls : d # e => Same(d) PROVE Goal(c)
    BY <1>1, <2>1
  <2>2. CASE UNCHANGED <<record, result, grants>>
    BY <1>1, <2>2 DEF Same
  <2> QED BY <1>2, <1>3, <1>4, <1>5, <1>6, <1>7, <1>8, <1>9, <2>1, <2>2 DEF CoreStep
<1> QED BY <1>11 DEF Goal

\* A decided call, and a dispatched one, lasts until it expires unused.
LEMMA DecisionLasts ==
    ASSUME CoreInv, CoreStep, ExpiresUnused, NEW c \in Calls
    PROVE  /\ Admitted(c) => Admitted(c)' \/ Unused(c)
           /\ Dispatched(record[c]) =>
                 \/ Unused(c)
                 \/ /\ Dispatched(record'[c])
                    /\ record'[c].dispatchToken = record[c].dispatchToken
                    /\ record'[c].dispatchLease = record[c].dispatchLease
                    /\ record'[c].deadline = record[c].deadline
                    /\ Terminal(record[c]) => Terminal(record'[c])
<1>0. NoRecord.decision = "none" /\ RecordGood(record[c])
  BY FreshRecords DEF CoreInv
<1>1. CASE record'[c] = NoRecord
  <2>1. Dispatched(record[c]) => record[c].decision # "none"
    BY <1>0, FreshRecords DEF RecordGood, CoreInv
  <2>2. record[c].decision # "none" => Unused(c)
    BY <1>0, <1>1 DEF ExpiresUnused
  <2> QED BY <2>1, <2>2 DEF Admitted
<1>2. CASE record'[c] # NoRecord
  <2>1. Dispatched(record[c]) => record[c].decision # "none"
    BY <1>0, FreshRecords DEF RecordGood, CoreInv
  <2>2. ASSUME record[c].decision # "none"
        PROVE  /\ record'[c].decision = record[c].decision /\ record'[c].deadline = record[c].deadline
               /\ Dispatched(record[c]) => /\ record'[c].dispatchLease = record[c].dispatchLease
                                           /\ record'[c].dispatchToken = record[c].dispatchToken
               /\ Terminal(record[c]) => record'[c].cause = record[c].cause
    <3>1. /\ \A f \in {"decision", "digest", "token", "deadline", "expiresAt"} : record'[c][f] = record[c][f]
          /\ Dispatched(record[c]) =>
                \A f \in {"dispatchLease", "dispatchRequest", "dispatchToken"} : record'[c][f] = record[c][f]
          /\ Terminal(record[c]) =>
                record'[c].cause = record[c].cause /\ record'[c].payload = record[c].payload
      BY <1>2, <2>2, DecisionKept
    <3> QED BY <3>1
  <2> QED BY <2>1, <2>2 DEF Admitted, Dispatched, Terminal
<1> QED BY <1>1, <1>2

\* Without a grant nothing is dispatched that was not.
LEMMA NoNewDispatch ==
    ASSUME CoreInv, CoreInv', NEW c \in Calls, grants'[c] = grants[c]
    PROVE  Dispatched(record'[c]) <=> Dispatched(record[c])
<1>1. grants[c] = IF Dispatched(record[c]) THEN 1 ELSE 0
  BY DEF CoreInv, GrantsGood
<1>2. grants'[c] = IF Dispatched(record'[c]) THEN 1 ELSE 0
  BY DEF CoreInv, GrantsGood, Dispatched
<1> QED BY <1>1, <1>2

\* Overloads stay behind the events that reported them.
LEMMA OverloadsKeep ==
    ASSUME CoreInv, CoreInv', FreshInv, CoreStep, NEW c \in Calls
    PROVE  OverloadGood(c)'
<1>0. /\ record[c] \in Records /\ record'[c] \in Records
      /\ Len(result[c]) \in Nat /\ Len(result'[c]) \in Nat
      /\ NoRecord.overload = 0 /\ NoRecord.overloadEvent = 0
  BY DEF CoreInv, NoRecord
<1>1. /\ record[c].overload \in Nat /\ record[c].overloadEvent \in Nat
      /\ record'[c].overload \in Nat /\ record'[c].overloadEvent \in Nat
  BY <1>0 DEF Records
<1>2. record[c].overload <= record[c].overloadEvent /\ record[c].overloadEvent <= Len(result[c])
  BY DEF FreshInv, OverloadGood
<1>3. ASSUME NEW k \in Callers, caller[k].pc # "idle", caller[k].call = c,
             caller[k].overload = record'[c].overload
      PROVE  record'[c].overload = 0 \/ record'[c].overload <= record[c].overloadEvent
  BY <1>3 DEF FreshInv, CallerFresh
<1>4. record'[c].overload <= record'[c].overloadEvent /\ record'[c].overloadEvent <= Len(result'[c])
  <2>1. CASE record'[c].overload = 0 /\ record'[c].overloadEvent = 0
    BY <1>0, <2>1
  <2>2. CASE /\ \/ record'[c].overloadEvent = record[c].overloadEvent
                \/ /\ record'[c].overloadEvent = Len(result[c]) + 1
                   /\ Len(result'[c]) = Len(result[c]) + 1
             /\ record'[c].overload = record[c].overload
             /\ Len(result'[c]) = Len(result[c]) \/ Len(result'[c]) = Len(result[c]) + 1
    BY <1>0, <1>1, <1>2, <2>2
  <2>3. CASE /\ \E k \in Callers : /\ caller[k].pc # "idle" /\ caller[k].call = c
                                   /\ caller[k].overload = record'[c].overload
             /\ record'[c].overloadEvent = record[c].overloadEvent
             /\ Len(result'[c]) = Len(result[c]) \/ Len(result'[c]) = Len(result[c]) + 1
    <3>1. record'[c].overload = 0 \/ record'[c].overload <= record[c].overloadEvent
      BY <1>3, <2>3
    <3> QED BY <1>0, <1>1, <1>2, <2>3, <3>1
  <2> QED BY <2>1, <2>2, <2>3, OverloadProgress
<1> QED BY <1>4 DEF OverloadGood

\* A caller's overload stays one of the record.
LEMMA CallersKeep ==
    ASSUME CoreInv, CoreInv', ActorInv, FreshInv, CoreStep, ExpiresUnused, NEW k \in Callers,
           UNCHANGED caller \/ \E j \in Callers : CallerMoves(j)
    PROVE  CallerFresh(k)'
<1> DEFINE n == caller'[k]  c == n.call
<1> SUFFICES ASSUME n.pc # "idle", n.overload # 0
             PROVE  record'[c].decision = "admitted" /\ n.overload <= record'[c].overloadEvent
  BY DEF CallerFresh, Admitted
<1>1. caller \in [Callers -> CallerStates]
  BY DEF ActorInv
<1>2. n = caller[k] \/ (CallerGood(n) /\ Carries(k, n))
  BY <1>1 DEF CallerMoves
<1>3. c \in Calls
  BY <1>2 DEF ActorInv, CallerGood
<1>4. n.overload \in Nat
  BY <1>2 DEF ActorInv, CallerGood, CallerStates
<1>5. CASE caller[k].pc # "idle" /\ c = caller[k].call /\ n.overload = caller[k].overload
  <2>1. Admitted(c) /\ n.overload <= record[c].overloadEvent
    BY <1>5 DEF FreshInv, CallerFresh
  <2>2. ~Unused(c)
    BY <1>5 DEF Unused
  <2>3. record'[c].decision = "admitted"
    BY <1>3, <2>1, <2>2, DecisionLasts DEF Admitted
  <2>4. record[c].overloadEvent <= record'[c].overloadEvent
    <3>1. /\ record[c].overloadEvent \in Nat /\ Len(result[c]) \in Nat
          /\ NoRecord.decision = "none" /\ record[c].overloadEvent <= Len(result[c])
      <4>1. record[c] \in Records /\ result[c] \in Seq(Events) /\ clock \in Nat
        BY <1>3 DEF CoreInv
      <4>2. record[c].overloadEvent \in Nat
        BY <4>1 DEF Records
      <4>5. Len(result[c]) \in Nat
        BY <4>1
      <4>3. record[c].overloadEvent <= Len(result[c])
        BY <1>3 DEF FreshInv, OverloadGood
      <4>4. NoRecord.decision = "none"
        BY DEF NoRecord
      <4> QED BY <4>2, <4>3, <4>4, <4>5
    <3>2. record[c].decision # "none" /\ record'[c] # NoRecord
      BY <2>1, <2>3, <3>1 DEF Admitted
    <3>3. \/ record'[c].overloadEvent = record[c].overloadEvent
          \/ record'[c].overloadEvent = Len(result[c]) + 1
      BY <1>3, <3>2, OverloadProgress
    <3> QED BY <3>1, <3>3
  <2>5. record[c].overloadEvent \in Nat /\ record'[c].overloadEvent \in Nat
    BY <1>3 DEF CoreInv, Records
  <2> QED BY <1>4, <2>1, <2>3, <2>4, <2>5
<1>6. CASE UNCHANGED record /\ Admitted(c) /\ n.overload = record[c].overloadEvent
  BY <1>4, <1>6 DEF Admitted
<1> QED BY <1>2, <1>5, <1>6 DEF Carries

\* The indexes of a call that are left alone stay right without a new dispatch.
LEMMA IndexLeft ==
    ASSUME CoreInv, CoreInv', CoreStep, ExpiresUnused, NEW c \in Calls, IndexFresh(c),
           Dispatched(record'[c]) => Dispatched(record[c]),
           settlement'[c] = settlement[c], membership'[c] = membership[c],
           \A x : x[1] = c => (x \in leaseIndex' <=> x \in leaseIndex)
    PROVE  IndexFresh(c)'
<1>0. Dispatched(record[c]) =>
         \/ Unused(c)
         \/ /\ Dispatched(record'[c])
            /\ record'[c].dispatchToken = record[c].dispatchToken
            /\ record'[c].dispatchLease = record[c].dispatchLease
            /\ record'[c].deadline = record[c].deadline
            /\ Terminal(record[c]) => Terminal(record'[c])
  BY DecisionLasts
<1>1. CASE Unused(c)
  <2>1. settlement[c] = 0 /\ ~\E x \in leaseIndex : x[1] = c
    BY <1>1 DEF Unused
  <2>2. ~Unsettled(record[c])
    BY <2>1 DEF IndexFresh
  <2>3. Unsettled(record'[c]) => FALSE
    <3>1. CASE Dispatched(record[c])
      <4>1. record[c].decision # "none" /\ Terminal(record[c])
        BY <2>2, <3>1, FreshRecords DEF Unsettled, CoreInv, RecordGood
      <4>2. record'[c] = NoRecord \/ record'[c].cause = record[c].cause
        BY <4>1, DecisionKept
      <4>3. ~Dispatched(NoRecord)
        BY DEF NoRecord, Dispatched
      <4> QED BY <4>1, <4>2, <4>3 DEF Unsettled, Terminal
    <3>2. CASE ~Dispatched(record[c])
      BY <3>2 DEF Unsettled
    <3> QED BY <3>1, <3>2
  <2>4. ~\E x \in leaseIndex' : x[1] = c
    BY <2>1
  <2> QED BY <2>1, <2>3, <2>4 DEF IndexFresh, Unsettled, Dispatched, Terminal
<1>2. CASE ~Unused(c)
  <2>1. Dispatched(record[c]) <=> Dispatched(record'[c])
    BY <1>0, <1>2
  <2>2. settlement'[c] # 0 \/ (\E x \in leaseIndex' : x[1] = c) => Dispatched(record'[c])
    BY <2>1 DEF IndexFresh
  <2>3. ASSUME Dispatched(record'[c]), ~Terminal(record'[c])
        PROVE  /\ settlement'[c] \in 1 .. record'[c].deadline
               /\ membership'[c] = <<record'[c].dispatchToken, record'[c].dispatchLease>>
               /\ <<c, record'[c].dispatchToken, record'[c].dispatchLease>> \in leaseIndex'
    <3>1. /\ Unsettled(record[c]) /\ record'[c].dispatchToken = record[c].dispatchToken
          /\ record'[c].dispatchLease = record[c].dispatchLease
          /\ record'[c].deadline = record[c].deadline
      BY <1>0, <1>2, <2>1, <2>3 DEF Unsettled
    <3>2. /\ settlement[c] \in 1 .. record[c].deadline
          /\ membership[c] = <<record[c].dispatchToken, record[c].dispatchLease>>
          /\ <<c, record[c].dispatchToken, record[c].dispatchLease>> \in leaseIndex
      BY <3>1 DEF IndexFresh
    <3>3. <<c, record[c].dispatchToken, record[c].dispatchLease>>[1] = c
      OBVIOUS
    <3>4. <<c, record[c].dispatchToken, record[c].dispatchLease>> \in leaseIndex'
      BY <3>2, <3>3
    <3> QED BY <3>1, <3>2, <3>4
  <2>4. settlement'[c] # 0 => membership'[c] # NoIndex
    BY DEF IndexFresh
  <2> QED BY <2>2, <2>3, <2>4 DEF IndexFresh, Unsettled, Dispatched, Terminal
<1> QED BY <1>1, <1>2

\* The indexes drop a call that is not unsettled any more, and no other.
LEMMA IndexDropped ==
    ASSUME CoreInv, CoreInv', IndexInv, CoreStep, ExpiresUnused, FreshInv, NEW c \in Calls,
           NEW index, Unindex(c, index), ~Unsettled(record'[c]),
           Dispatched(record[c]) => Dispatched(record'[c]),
           UNCHANGED grants
    PROVE  \A d \in Calls : IndexFresh(d)'
<1>1. IndexFresh(c)'
  <2>1. settlement'[c] = 0 /\ leaseIndex' \subseteq leaseIndex
    BY DEF Unindex, IndexInv
  <2>2. (\E x \in leaseIndex' : x[1] = c) => Dispatched(record'[c])
    BY <2>1 DEF FreshInv, IndexFresh
  <2>3. ~(Dispatched(record'[c]) /\ ~Terminal(record'[c]))
    BY DEF Unsettled
  <2> QED BY <2>1, <2>2, <2>3 DEF IndexFresh, Unsettled, Dispatched, Terminal
<1>2. ASSUME NEW d \in Calls, d # c PROVE IndexFresh(d)'
  <2>1. settlement'[d] = settlement[d] /\ membership'[d] = membership[d]
    BY <1>2 DEF Unindex, IndexInv
  <2>2. ASSUME NEW x, x[1] = d PROVE x \in leaseIndex' <=> x \in leaseIndex
    <3>1. <<c, index[1], index[2]>>[1] = c
      OBVIOUS
    <3>2. x # <<c, index[1], index[2]>>
      BY <1>2, <2>2, <3>1
    <3> QED BY <3>2 DEF Unindex
  <2>3. Dispatched(record'[d]) => Dispatched(record[d])
    BY NoNewDispatch
  <2>4. IndexFresh(d)
    BY DEF FreshInv
  <2> QED BY <2>1, <2>2, <2>3, <2>4, IndexLeft
<1> QED BY <1>1, <1>2

\* The indexes are left alone altogether.
LEMMA IndexesLeft ==
    ASSUME CoreInv, CoreInv', CoreStep, ExpiresUnused, FreshInv, UNCHANGED indexVars,
           \A c \in Calls : Dispatched(record'[c]) => Dispatched(record[c])
    PROVE  \A c \in Calls : IndexFresh(c)'
<1>1. UNCHANGED settlement /\ UNCHANGED leaseIndex /\ UNCHANGED membership
  BY DEF indexVars
<1> SUFFICES ASSUME NEW c \in Calls PROVE IndexFresh(c)'
  BY DEF IndexFresh
<1>2. IndexFresh(c)
  BY DEF FreshInv
<1> QED BY <1>1, <1>2, IndexLeft

\* The end of a call drops it.
LEMMA TerminateDrops ==
    ASSUME CoreInv, CoreInv', IndexInv, CoreStep, ExpiresUnused, FreshInv, NEW c \in Calls,
           NEW cause \in Causes \ {"none"}, NEW payload \in Payloads, NEW index,
           Terminate(c, cause, payload, index), UNCHANGED grants
    PROVE  \A d \in Calls : IndexFresh(d)'
<1>1. record' = [record EXCEPT ![c].cause = cause, ![c].payload = payload, ![c].terminalEvent = NextEvent(c)]
      /\ Unindex(c, index)
  BY DEF Terminate
<1>2. record'[c] = [record[c] EXCEPT !.cause = cause, !.payload = payload, !.terminalEvent = NextEvent(c)]
  BY <1>1, EndedRecord
<1>3. record[c] \in Records
  BY DEF CoreInv
<1>4. record'[c].cause = cause
  BY <1>2, <1>3 DEF Records
<1>5. ~Unsettled(record'[c])
  BY <1>4 DEF Unsettled, Terminal
<1>6. Dispatched(record[c]) => Dispatched(record'[c])
  BY NoNewDispatch
<1> QED BY <1>1, <1>5, <1>6, IndexDropped

\* A dispatch is indexed as it is granted.
LEMMA ClaimIndexes ==
    ASSUME RoutedInv, RoutedInv', CoreStep, ExpiresUnused, FreshInv, NEW l \in Leases,
           NEW i \in 1 .. Len(requests), Claim(l, i)
    PROVE  \A d \in Calls : IndexFresh(d)'
<1> USE CallAssumption
<1>0. CoreInv /\ CoreInv' /\ EnvInv /\ IndexInv /\ AuthorityInv
  BY DEF RoutedInv, EnvInv
<1>c. PICK c \in Calls : c = requests[i].call
  BY <1>0, DeliveredCall DEF Claim
<1> DEFINE r == record[c]
<1>1. /\ c \in Calls /\ Admitted(c) /\ ~Terminal(r) /\ requests[i].token \in Tokens
  BY <1>0, <1>c, DeliveredCall DEF Claim
<1>2. r \in Records /\ record \in [Calls -> Records] /\ clock \in Nat
  BY <1>0, <1>1 DEF CoreInv
<1>3. expires[l] \in Nat /\ expires[l] > 0 /\ r.deadline \in Nat /\ r.deadline > clock /\ current \in Tokens
  <2>1. expires[l] \in Nat /\ expires[l] > 0
    BY <1>0 DEF Claim, Deliverable, Live, AuthorityInv, AuthorityTypeOK
  <2>2. r.deadline \in Nat
    BY <1>2 DEF Records
  <2>3. ~(r.deadline <= clock)
    BY <1>c, <1>1 DEF Claim, Settled, Admitted
  <2>4. current \in Tokens
    BY <1>1 DEF Claim
  <2> QED BY <1>2, <2>1, <2>2, <2>3, <2>4
<1>4. PICK x \in 1 .. r.deadline : x = SettlementDue(r, l)
  BY <1>2, <1>3 DEF SettlementDue
<1>5. /\ record' = [record EXCEPT ![c].dispatchToken = current, ![c].dispatchLease = l, ![c].dispatchRequest = i]
      /\ settlement' = [settlement EXCEPT ![c] = x]
      /\ leaseIndex' = leaseIndex \cup {<<c, current, l>>}
      /\ membership' = [membership EXCEPT ![c] = <<current, l>>]
      /\ grants' = [grants EXCEPT ![c] = @ + 1]
  BY <1>c, <1>4 DEF Claim
<1>6. /\ record'[c].dispatchToken = current /\ record'[c].dispatchLease = l /\ record'[c].deadline = r.deadline
      /\ \A d \in Calls : d # c => record'[d] = record[d]
  BY <1>1, <1>2, <1>5 DEF Records
<1>7. IndexFresh(c)'
  <2>1. /\ settlement'[c] = x /\ membership'[c] = <<current, l>> /\ <<c, current, l>> \in leaseIndex'
    BY <1>0, <1>1, <1>5 DEF IndexInv
  <2>2. membership'[c] # NoIndex
    <3>1. <<current, l>>[2] = l /\ NoIndex[2] = NoLease
      BY DEF NoIndex
    <3> QED BY <2>1, <3>1
  <2>3. Dispatched(record'[c])
    BY <1>6 DEF Dispatched
  <2> QED BY <1>4, <1>6, <2>1, <2>2, <2>3 DEF IndexFresh, Dispatched
<1>8. ASSUME NEW d \in Calls, d # c PROVE IndexFresh(d)'
  <2>1. settlement'[d] = settlement[d] /\ membership'[d] = membership[d]
    BY <1>0, <1>5, <1>8 DEF IndexInv
  <2>2. ASSUME NEW y, y[1] = d PROVE y \in leaseIndex' <=> y \in leaseIndex
    <3>1. <<c, current, l>>[1] = c
      OBVIOUS
    <3>2. y # <<c, current, l>>
      BY <1>8, <2>2, <3>1
    <3> QED BY <1>5, <3>2
  <2>3. Dispatched(record'[d]) => Dispatched(record[d])
    BY <1>6, <1>8
  <2>4. IndexFresh(d)
    BY DEF FreshInv
  <2> QED BY <1>0, <2>1, <2>2, <2>3, <2>4, IndexLeft
<1> QED BY <1>7, <1>8

\* Every step of a provider keeps the indexes right.
LEMMA ProviderIndexes ==
    ASSUME RoutedInv, RoutedInv', CoreStep, ExpiresUnused, FreshInv, ProviderStep
    PROVE  \A d \in Calls : IndexFresh(d)'
<1> USE CallAssumption
<1>0. CoreInv /\ CoreInv' /\ EnvInv /\ IndexInv
  BY DEF RoutedInv, EnvInv
<1>1. ASSUME UNCHANGED indexVars, UNCHANGED grants PROVE \A d \in Calls : IndexFresh(d)'
  <2>1. \A c \in Calls : Dispatched(record'[c]) => Dispatched(record[c])
    BY <1>0, <1>1, NoNewDispatch
  <2> QED BY <1>0, <1>1, <2>1, IndexesLeft
<1>2. ASSUME NEW c \in Calls, Terminate(c, "stale_admission", Stale, NoIndex), UNCHANGED grants
      PROVE  \A d \in Calls : IndexFresh(d)'
  <2>1. "stale_admission" \in Causes \ {"none"} /\ Stale \in Payloads
    BY DEF Causes, Payloads
  <2> QED BY <1>0, <1>2, <2>1, TerminateDrops
<1>3. ASSUME NEW l \in Leases, NEW i \in 1 .. Len(requests), ClaimVoid(l, i)
      PROVE  \A d \in Calls : IndexFresh(d)'
  BY <1>1, <1>3 DEF ClaimVoid
<1>4. ASSUME NEW l \in Leases, NEW i \in 1 .. Len(requests), ClaimStale(l, i)
      PROVE  \A d \in Calls : IndexFresh(d)'
  <2>1. requests[i].call \in Calls
    BY <1>0, <1>4, DeliveredCall DEF ClaimStale
  <2> QED BY <1>2, <1>4, <2>1 DEF ClaimStale
<1>5. ASSUME NEW l \in Leases, NEW i \in 1 .. Len(requests), ReportOverload(l, i)
      PROVE  \A d \in Calls : IndexFresh(d)'
  <2>1. requests[i].call \in Calls
    BY <1>0, <1>5, DeliveredCall DEF ReportOverload
  <2>2. /\ UNCHANGED grants
        /\ UNCHANGED indexVars \/ Terminate(requests[i].call, "stale_admission", Stale, NoIndex)
    BY <1>5 DEF ReportOverload
  <2> QED BY <1>1, <1>2, <2>1, <2>2
<1>6. ASSUME NEW w \in running, Complete(w) PROVE \A d \in Calls : IndexFresh(d)'
  <2>1. w.call \in Calls /\ w.lease \in Leases
    BY <1>0, AuthorizedCall
  <2>2. UNCHANGED grants
    BY <1>6 DEF Complete
  <2>3. \/ UNCHANGED indexVars
        \/ Terminate(w.call, "execution_deadline", Unknown, <<w.token, w.lease>>)
        \/ Terminate(w.call, "provider", w.lease, <<w.token, w.lease>>)
    BY <1>6 DEF Complete
  <2>4. /\ "execution_deadline" \in Causes \ {"none"} /\ "provider" \in Causes \ {"none"}
        /\ Unknown \in Payloads /\ w.lease \in Payloads
    BY <2>1 DEF Causes, Payloads
  <2>5. CASE Terminate(w.call, "execution_deadline", Unknown, <<w.token, w.lease>>)
    BY <1>0, <2>1, <2>2, <2>4, <2>5, TerminateDrops
  <2>6. CASE Terminate(w.call, "provider", w.lease, <<w.token, w.lease>>)
    BY <1>0, <2>1, <2>2, <2>4, <2>6, TerminateDrops
  <2> QED BY <1>1, <2>2, <2>3, <2>5, <2>6
<1>7. ASSUME NEW w \in running, PublishLiveEvent(w) PROVE \A d \in Calls : IndexFresh(d)'
  BY <1>1, <1>7 DEF PublishLiveEvent
<1>8. ASSUME NEW l \in Leases, Crash(l) PROVE \A d \in Calls : IndexFresh(d)'
  BY <1>1, <1>8 DEF Crash
<1> QED BY <1>3, <1>4, <1>5, <1>6, <1>7, <1>8, ClaimIndexes DEF ProviderStep

\* What a settler has before it stays dispatched while the settler has it.
LEMMA SettlerHolds ==
    ASSUME CoreInv, ActorInv, CoreStep, ExpiresUnused, NEW s \in Settlers, SettlerFresh(s)
    PROVE  /\ \A c \in settler[s].due : Dispatched(record'[c])
           /\ settler[s].pc \in {"membership", "settle"} => Dispatched(record'[settler[s].call])
<1>0. SettlerGood(settler[s])
  BY DEF ActorInv
<1>1. settler[s].due \subseteq Calls
  BY <1>0 DEF SettlerGood, SettlerStates
<1>2. ASSUME NEW c \in settler[s].due PROVE Dispatched(record'[c])
  <2>1. c \in Calls /\ Dispatched(record[c]) /\ ~Unused(c)
    BY <1>1 DEF SettlerFresh, Unused
  <2> QED BY <2>1, DecisionLasts
<1>3. ASSUME settler[s].pc \in {"membership", "settle"} PROVE Dispatched(record'[settler[s].call])
  <2>1. PICK c \in Calls : c = settler[s].call
    BY <1>0, <1>3 DEF SettlerGood
  <2>2. Dispatched(record[c]) /\ ~Unused(c)
    BY <1>3, <2>1 DEF SettlerFresh, Unused
  <2>3. Dispatched(record'[c])
    BY <2>2, DecisionLasts
  <2> QED BY <2>1, <2>3
<1> QED BY <1>2, <1>3

\* A settler that does not move.
LEMMA SettlerLeft ==
    ASSUME CoreInv, ActorInv, CoreStep, ExpiresUnused, NEW s \in Settlers, SettlerFresh(s),
           settler'[s] = settler[s]
    PROVE  SettlerFresh(s)'
<1>1. /\ \A c \in settler'[s].due : Dispatched(record'[c])
      /\ settler'[s].pc \in {"membership", "settle"} => Dispatched(record'[settler'[s].call])
  BY SettlerHolds
<1>2. settler'[s].pc # "cleanup"
  BY DEF SettlerFresh
<1> QED BY <1>1, <1>2 DEF SettlerFresh, Dispatched

\* A settler goes on with its batch.
LEMMA SettlerContinues ==
    ASSUME CoreInv, ActorInv, CoreStep, ExpiresUnused, NEW s \in Settlers, SettlerFresh(s), Continue(s)
    PROVE  SettlerFresh(s)'
<1>0. settler \in [Settlers -> SettlerStates] /\ settler[s] \in SettlerStates
  BY DEF ActorInv
<1>1. settler'[s] = IF settler[s].due = {} THEN IdleSettler
                    ELSE [settler[s] EXCEPT !.pc = "identity", !.index = NoIndex]
  BY <1>0 DEF Continue
<1>2. settler'[s].due \subseteq settler[s].due /\ settler'[s].pc \in {"idle", "identity"}
  <2>1. CASE settler[s].due = {}
    BY <1>1, <2>1 DEF IdleSettler
  <2>2. CASE settler[s].due # {}
    BY <1>0, <1>1, <2>2 DEF SettlerStates
  <2> QED BY <2>1, <2>2
<1>3. \A c \in settler'[s].due : Dispatched(record'[c])
  BY <1>2, SettlerHolds
<1> QED BY <1>2, <1>3 DEF SettlerFresh, Dispatched

\* A step of one settler keeps what it and the others have.
LEMMA SettlersKeep ==
    ASSUME RoutedInv, CoreStep, ExpiresUnused, FreshInv, NEW s \in Settlers, SettlerStep(s), NEW q \in Settlers
    PROVE  SettlerFresh(q)'
<1>0. CoreInv /\ ActorInv /\ SettlerFresh(s) /\ SettlerFresh(q)
  BY DEF RoutedInv, EnvInv, FreshInv
<1>1. settler \in [Settlers -> SettlerStates] /\ settler[s] \in SettlerStates
  BY <1>0 DEF ActorInv
<1>2. CASE q # s
  <2>1. settler'[q] = settler[q]
    BY <1>1, <1>2 DEF SettlerStep, SettleLostClaims, SettleLostClaimsForLease, ReadIdentity, ReadMembership,
                      settleLostClaim, cleanupSettlementMember, Continue
  <2> QED BY <1>0, <2>1, SettlerLeft
<1>3. ASSUME UNCHANGED record, settler'[s].pc # "cleanup",
             \A c \in settler'[s].due : Dispatched(record[c]),
             settler'[s].pc \in {"membership", "settle"} => Dispatched(record[settler'[s].call])
      PROVE  SettlerFresh(s)'
  BY <1>3 DEF SettlerFresh, Dispatched
<1>4. ASSUME SettleLostClaims(s) PROVE SettlerFresh(s)'
  <2> DEFINE due == {c \in Calls : settlement[c] # 0 /\ settlement[c] <= clock}
  <2>1. \A c \in due : Dispatched(record[c])
    BY DEF FreshInv, IndexFresh
  <2>2. settler'[s] = [IdleSettler EXCEPT !.pc = "identity", !.cause = "execution_deadline", !.due = due]
        /\ UNCHANGED record
    BY <1>1, <1>4 DEF SettleLostClaims
  <2> HIDE DEF due
  <2>3. settler'[s].pc = "identity" /\ settler'[s].due = due
    BY <2>2 DEF IdleSettler
  <2> QED BY <1>3, <2>1, <2>2, <2>3
<1>5. ASSUME SettleLostClaimsForLease(s) PROVE SettlerFresh(s)'
  <2> DEFINE due == {c \in Calls : <<c, settler[s].fallback[1], settler[s].fallback[2]>> \in leaseIndex}
  <2>1. ASSUME NEW c \in due PROVE Dispatched(record[c])
    <3>1. <<c, settler[s].fallback[1], settler[s].fallback[2]>>[1] = c
      OBVIOUS
    <3>2. c \in Calls /\ \E x \in leaseIndex : x[1] = c
      BY <3>1
    <3> QED BY <3>2 DEF FreshInv, IndexFresh
  <2>2. settler'[s] = IF due = {} THEN IdleSettler ELSE [settler[s] EXCEPT !.pc = "identity", !.due = due]
    BY <1>1, <1>5 DEF SettleLostClaimsForLease
  <2>3. UNCHANGED record
    BY <1>5 DEF SettleLostClaimsForLease
  <2> HIDE DEF due
  <2>4. settler'[s].pc \in {"idle", "identity"} /\ settler'[s].due = due
    <3>1. CASE due = {}
      BY <2>2, <3>1 DEF IdleSettler
    <3>2. CASE due # {}
      BY <1>1, <2>2, <3>2 DEF SettlerStates
    <3> QED BY <3>1, <3>2
  <2> QED BY <1>3, <2>1, <2>3, <2>4
<1>6. ASSUME NEW c \in Calls, ReadIdentity(s, c) PROVE SettlerFresh(s)'
  <2>1. Dispatched(record[c]) /\ UNCHANGED record
    BY <1>0, <1>6 DEF ReadIdentity, SettlerFresh
  <2>2. Admitted(c)
    BY <1>0, <2>1 DEF CoreInv, RecordGood, Admitted
  <2>3. settler' = [settler EXCEPT ![s].pc = "membership", ![s].call = c, ![s].due = @ \ {c}]
    BY <1>6, <2>2 DEF ReadIdentity
  <2>4. PICK due : due = settler[s].due \ {c}
    OBVIOUS
  <2>5. settler'[s] = [settler[s] EXCEPT !.pc = "membership", !.call = c, !.due = due]
    BY <1>1, <2>3, <2>4 DEF SettlerStates
  <2>6. settler'[s].pc = "membership" /\ settler'[s].call = c /\ settler'[s].due = due
    BY <1>1, <2>5 DEF SettlerStates
  <2>7. \A d \in due : Dispatched(record[d])
    BY <1>0, <2>4 DEF SettlerFresh
  <2> QED BY <1>3, <2>1, <2>6, <2>7
<1>7. ASSUME ReadMembership(s) PROVE SettlerFresh(s)'
  <2>1. settler[s].pc = "membership" /\ UNCHANGED record
    BY <1>7 DEF ReadMembership
  <2>2. PICK index : index = membership[settler[s].call]
    OBVIOUS
  <2>3. settler'[s] = IF index = NoIndex THEN IdleSettler
                      ELSE [settler[s] EXCEPT !.pc = "settle", !.index = index]
    BY <1>1, <1>7, <2>2 DEF ReadMembership
  <2>4. CASE index = NoIndex
    <3>1. settler'[s].pc = "idle" /\ settler'[s].due = {}
      BY <2>3, <2>4 DEF IdleSettler
    <3> QED BY <1>3, <2>1, <3>1
  <2>5. CASE index # NoIndex
    <3>1. /\ settler'[s].pc = "settle" /\ settler'[s].due = settler[s].due
          /\ settler'[s].call = settler[s].call
      BY <1>1, <2>3, <2>5 DEF SettlerStates
    <3>2. Dispatched(record[settler[s].call]) /\ \A c \in settler[s].due : Dispatched(record[c])
      BY <1>0, <2>1 DEF SettlerFresh
    <3> QED BY <1>3, <2>1, <3>1, <3>2
  <2> QED BY <2>4, <2>5
<1>8. ASSUME settleLostClaim(s) \/ cleanupSettlementMember(s) PROVE SettlerFresh(s)'
  <2>1. Continue(s)
    BY <1>8 DEF settleLostClaim, cleanupSettlementMember
  <2> QED BY <1>0, <2>1, SettlerContinues
<1>9. SettlerFresh(s)'
  BY <1>4, <1>5, <1>6, <1>7, <1>8 DEF SettlerStep
<1> QED BY <1>2, <1>9

\* Every step of a settler keeps the indexes right: it drops only calls that
\* are over, and scores a call that is not over within its deadline.
LEMMA SettlerIndexes ==
    ASSUME RoutedInv, RoutedInv', CoreStep, ExpiresUnused, FreshInv, NEW s \in Settlers, SettlerStep(s)
    PROVE  \A d \in Calls : IndexFresh(d)'
<1> USE CallAssumption
<1>0. CoreInv /\ CoreInv' /\ EnvInv /\ IndexInv /\ ActorInv /\ AuthorityInv
  BY DEF RoutedInv, EnvInv
<1>1. SettlerFresh(s) /\ SettlerGood(settler[s])
  BY <1>0 DEF FreshInv, ActorInv
<1>2. UNCHANGED grants
  BY DEF SettlerStep, SettleLostClaims, SettleLostClaimsForLease, ReadIdentity, ReadMembership,
         settleLostClaim, cleanupSettlementMember, settlerStep
<1>3. \A c \in Calls : Dispatched(record'[c]) <=> Dispatched(record[c])
  BY <1>0, <1>2, NoNewDispatch
<1>4. CASE UNCHANGED indexVars
  BY <1>0, <1>3, <1>4, IndexesLeft
<1>5. ASSUME settleLostClaim(s) PROVE \A d \in Calls : IndexFresh(d)'
  <2>1. settler[s].pc = "settle"
    BY <1>5 DEF settleLostClaim
  <2>2. PICK c \in Calls : c = settler[s].call
    BY <1>1, <2>1 DEF SettlerGood
  <2>3. PICK index : index = settler[s].index
    OBVIOUS
  <2>4. PICK cause \in Causes \ {"none"} : cause = settler[s].cause
    BY <1>1, <2>1 DEF SettlerGood, SettlerStates
  <2>5. \/ ~Unsettled(record[c]) /\ Unindex(c, index) /\ UNCHANGED record
        \/ Terminate(c, cause, Unknown, index)
        \/ Terminate(c, "provider_lease_lost", Unknown, index)
        \/ /\ Unsettled(record[c]) /\ ~(clock >= record[c].deadline) /\ HoldsLease(record[c])
           /\ settlement' = [settlement EXCEPT ![c] = SettlementDue(record[c], record[c].dispatchLease)]
           /\ UNCHANGED <<record, leaseIndex, membership>>
    BY <1>5, <2>2, <2>3, <2>4 DEF settleLostClaim
  <2>6. Unknown \in Payloads /\ "provider_lease_lost" \in Causes \ {"none"}
    BY DEF Payloads, Causes
  <2>7. CASE ~Unsettled(record[c]) /\ Unindex(c, index) /\ UNCHANGED record
    <3>1. ~Unsettled(record'[c])
      BY <2>7
    <3> QED BY <1>0, <1>2, <1>3, <2>7, <3>1, IndexDropped
  <2>8. CASE Terminate(c, cause, Unknown, index)
    BY <1>0, <1>2, <2>6, <2>8, TerminateDrops
  <2>9. CASE Terminate(c, "provider_lease_lost", Unknown, index)
    BY <1>0, <1>2, <2>6, <2>9, TerminateDrops
  <2>10. CASE /\ Unsettled(record[c]) /\ ~(clock >= record[c].deadline) /\ HoldsLease(record[c])
              /\ settlement' = [settlement EXCEPT ![c] = SettlementDue(record[c], record[c].dispatchLease)]
              /\ UNCHANGED <<record, leaseIndex, membership>>
    <3>1. record[c].deadline \in Nat /\ clock \in Nat
      BY <1>0 DEF CoreInv, Records
    <3>2. PICK l \in Leases : l = record[c].dispatchLease
      BY <2>10 DEF HoldsLease, Live
    <3>3. expires[l] \in Nat /\ expires[l] > 0
      BY <1>0, <2>10, <3>1, <3>2 DEF HoldsLease, Live, AuthorityInv, AuthorityTypeOK
    <3>4. PICK x \in 1 .. record[c].deadline : x = SettlementDue(record[c], record[c].dispatchLease)
      BY <2>10, <3>1, <3>2, <3>3 DEF SettlementDue
    <3>5. settlement' = [settlement EXCEPT ![c] = x] /\ settlement \in [Calls -> Nat]
      BY <1>0, <2>10, <3>4 DEF IndexInv
    <3>6. UNCHANGED record /\ UNCHANGED leaseIndex /\ UNCHANGED membership
      BY <2>10
    <3>7. IndexFresh(c)
      BY DEF FreshInv
    <3>8. Dispatched(record[c])
      BY <1>1, <2>1, <2>2 DEF SettlerFresh
    <3>9. settlement'[c] = x
      BY <3>5
    <3>10. ASSUME NEW d \in Calls, d # c PROVE IndexFresh(d)'
      <4>1. settlement'[d] = settlement[d] /\ membership'[d] = membership[d]
        BY <3>5, <3>6, <3>10
      <4>2. \A y : y[1] = d => (y \in leaseIndex' <=> y \in leaseIndex)
        BY <3>6
      <4>3. IndexFresh(d)
        BY DEF FreshInv
      <4> QED BY <1>0, <1>3, <4>1, <4>2, <4>3, IndexLeft
    <3>11. membership[c] # NoIndex
      <4>1. settlement[c] \in 1 .. record[c].deadline
        BY <2>10, <3>7 DEF IndexFresh
      <4> QED BY <3>1, <3>7, <4>1 DEF IndexFresh
    <3> QED BY <3>4, <3>6, <3>7, <3>8, <3>9, <3>10, <3>11 DEF IndexFresh, Unsettled, Dispatched, Terminal
  <2> QED BY <2>5, <2>7, <2>8, <2>9, <2>10
<1>6. ~cleanupSettlementMember(s)
  BY <1>1 DEF SettlerFresh, cleanupSettlementMember
<1>7. SettleLostClaims(s) \/ SettleLostClaimsForLease(s) \/ (\E c \in Calls : ReadIdentity(s, c))
         \/ ReadMembership(s) => UNCHANGED indexVars
  BY DEF SettleLostClaims, SettleLostClaimsForLease, ReadIdentity, ReadMembership
<1> QED BY <1>4, <1>5, <1>6, <1>7 DEF SettlerStep

\* It holds initially.
LEMMA FreshInit ==
    ASSUME Init
    PROVE  FreshInv
<1>1. ~Dispatched(NoRecord) /\ NoRecord.overload = 0 /\ NoRecord.overloadEvent = 0
  BY DEF NoRecord, Dispatched
<1>2. \A c \in Calls : OverloadGood(c)
  BY <1>1 DEF Init, OverloadGood
<1>3. \A c \in Calls : IndexFresh(c)
  BY <1>1 DEF Init, IndexFresh, Unsettled
<1>4. \A k \in Callers : CallerFresh(k)
  BY DEF Init, CallerFresh, IdleCaller
<1>5. \A s \in Settlers : SettlerFresh(s)
  BY DEF Init, SettlerFresh, IdleSettler
<1> QED BY <1>2, <1>3, <1>4, <1>5 DEF FreshInv

\* Every step keeps it, if what expires in the step is not in use.
LEMMA FreshStep ==
    ASSUME RoutedInv, FreshInv, ExpiresUnused, [Next]_vars
    PROVE  FreshInv'
<1>0. /\ RoutedInv' /\ CoreStep /\ CoreInv /\ CoreInv' /\ EnvInv /\ ActorInv /\ IndexInv
  <2>1. RoutedInv' /\ CoreStep
    BY RoutedStep
  <2> QED BY <2>1 DEF RoutedInv, EnvInv
<1>1. \A c \in Calls : OverloadGood(c)'
  BY <1>0, OverloadsKeep
<1>c. ASSUME UNCHANGED caller \/ \E j \in Callers : CallerMoves(j)
      PROVE  \A k \in Callers : CallerFresh(k)'
  BY <1>0, <1>c, CallersKeep
<1>i. ASSUME UNCHANGED indexVars, \A c \in Calls : Dispatched(record'[c]) => Dispatched(record[c])
      PROVE  \A c \in Calls : IndexFresh(c)'
  BY <1>0, <1>i, IndexesLeft
<1>s. ASSUME NEW s \in Settlers, settler'[s] = settler[s] PROVE SettlerFresh(s)'
  <2>1. SettlerFresh(s)
    BY DEF FreshInv
  <2> QED BY <1>0, <1>s, <2>1, SettlerLeft
<1>k. ASSUME \A k \in Callers : CallerFresh(k)', \A c \in Calls : IndexFresh(c)',
             \A s \in Settlers : SettlerFresh(s)'
      PROVE  FreshInv'
  BY <1>1, <1>k DEF FreshInv
<1>g. ASSUME UNCHANGED grants PROVE \A c \in Calls : Dispatched(record'[c]) => Dispatched(record[c])
  BY <1>0, <1>g, NoNewDispatch
<1>2. CASE Time
  <2>1. UNCHANGED caller /\ UNCHANGED settler /\ UNCHANGED indexVars
        /\ \A c \in Calls : record'[c] = NoRecord \/ record'[c] = record[c]
    BY <1>2 DEF Time
  <2>2. ~Dispatched(NoRecord)
    BY DEF NoRecord, Dispatched
  <2>3. \A c \in Calls : Dispatched(record'[c]) => Dispatched(record[c])
    BY <2>1, <2>2
  <2> QED BY <1>c, <1>i, <1>s, <1>k, <2>1, <2>3
<1>3. CASE UNCHANGED callVars
  <2>1. UNCHANGED caller /\ UNCHANGED settler /\ UNCHANGED indexVars /\ UNCHANGED grants
    BY <1>3 DEF callVars, indexVars
  <2> QED BY <1>c, <1>i, <1>s, <1>k, <1>g, <2>1
<1>4. ASSUME NEW c \in Calls, LoseStream(c) PROVE FreshInv'
  <2>1. UNCHANGED caller /\ UNCHANGED settler /\ UNCHANGED indexVars /\ UNCHANGED grants
    BY <1>4 DEF LoseStream
  <2> QED BY <1>c, <1>i, <1>s, <1>k, <1>g, <2>1
<1>5. ASSUME NEW j \in Callers, CallerStep(j) PROVE FreshInv'
  <2>1. CallerEffect(j)
    BY <1>0, <1>5, CallerStepEffect
  <2>2. UNCHANGED settler /\ UNCHANGED indexVars /\ UNCHANGED grants /\ CallerMoves(j)
    BY <2>1 DEF CallerEffect
  <2> QED BY <1>c, <1>i, <1>s, <1>k, <1>g, <2>2
<1>6. CASE ProviderStep
  <2>1. ProviderEffect
    BY <1>0, <1>6, ProviderStepEffect
  <2>2. UNCHANGED caller /\ UNCHANGED settler
    BY <2>1 DEF ProviderEffect
  <2>3. \A c \in Calls : IndexFresh(c)'
    BY <1>0, <1>6, ProviderIndexes
  <2> QED BY <1>c, <1>s, <1>k, <2>2, <2>3
<1>7. ASSUME NEW s \in Settlers, SettlerStep(s) PROVE FreshInv'
  <2>1. SettlerEffect(s)
    BY <1>0, <1>7, SettlerStepEffect
  <2>2. UNCHANGED caller
    BY <2>1 DEF SettlerEffect
  <2>3. \A c \in Calls : IndexFresh(c)'
    BY <1>0, <1>7, SettlerIndexes
  <2>4. \A q \in Settlers : SettlerFresh(q)'
    BY <1>0, <1>7, SettlersKeep
  <2> QED BY <1>c, <1>k, <2>2, <2>3, <2>4
<1>8. ASSUME NEW s \in Releasers, NEW t \in Tokens, NEW l \in Leases, ReleaseProvider(s, t, l)
      PROVE  FreshInv'
  <2>1. UNCHANGED caller /\ UNCHANGED indexVars /\ UNCHANGED grants
    BY <1>8 DEF ReleaseProvider
  <2>2. s \in Settlers /\ settler \in [Settlers -> SettlerStates]
    BY <1>0 DEF Settlers, ActorInv
  <2>3. settler' = [settler EXCEPT ![s] = [IdleSettler EXCEPT !.pc = "lease",
                       !.cause = "provider_lease_released", !.fallback = <<t, l>>]]
    BY <1>8 DEF ReleaseProvider
  <2>4. settler'[s].pc = "lease" /\ settler'[s].due = {}
    BY <2>2, <2>3 DEF IdleSettler
  <2>5. SettlerFresh(s)'
    BY <2>4 DEF SettlerFresh
  <2>6. ASSUME NEW q \in Settlers, q # s PROVE SettlerFresh(q)'
    <3>1. settler'[q] = settler[q]
      BY <2>2, <2>3, <2>6
    <3> QED BY <1>s, <3>1
  <2> QED BY <1>c, <1>i, <1>k, <1>g, <2>1, <2>5, <2>6
<1>9. UNCHANGED vars => UNCHANGED callVars
  BY DEF vars
<1>10. Catalog => UNCHANGED callVars
  BY DEF Catalog
<1> QED BY <1>2, <1>3, <1>4, <1>5, <1>6, <1>7, <1>8, <1>9, <1>10 DEF Next

\* What the invariant says holds while no record expires in use.
LEMMA FreshInvariant ==
    Spec /\ [][ExpiresUnused]_vars => [](RoutedInv /\ FreshInv)
<1>1. Init => RoutedInv /\ FreshInv
  BY RoutedInit, FreshInit
<1>2. ASSUME RoutedInv, FreshInv, [Next]_vars, [ExpiresUnused]_vars PROVE RoutedInv' /\ FreshInv'
  <2>1. UNCHANGED vars => ExpiresUnused
    BY DEF vars, callVars, ExpiresUnused
  <2>2. ExpiresUnused
    BY <1>2, <2>1
  <2> QED BY <1>2, <2>2, RoutedStep, FreshStep
<1> QED BY <1>1, <1>2, PTL DEF Spec

\* An exact retry can always attach to its call, for any number of callers,
\* providers and settlers, as long as a record does not expire while a caller
\* or a settler is between two scripts of the call or an index still has it.
THEOREM AttachAcceptsUnlessExpired ==
    Spec /\ [][ExpiresUnused]_vars => []AttachAccepts
<1>1. ASSUME RoutedInv, FreshInv, NEW c \in Calls, Admitted(c) PROVE admitted_state_ok(record[c])
  <2>1. RecordGood(record[c]) /\ record[c] \in Records
    BY <1>1 DEF RoutedInv, CoreInv
  <2>2. record[c].overload <= record[c].overloadEvent
    BY <1>1 DEF FreshInv, OverloadGood
  <2>3. Terminal(record[c]) => Published(record[c])
    BY <2>1 DEF RecordGood
  <2>4. Terminal(record[c]) => record[c].payload # NoLease
    <3>1. Unknown # NoLease /\ Stale # NoLease
      BY CallAssumption DEF Unknown, Stale
    <3> QED BY <2>1, <3>1 DEF RecordGood, Dispatched
  <2> QED BY <1>1, <2>1, <2>2, <2>3, <2>4 DEF admitted_state_ok, RecordGood, Admitted
<1>2. RoutedInv /\ FreshInv => AttachAccepts
  BY <1>1 DEF AttachAccepts
<1> QED BY <1>2, FreshInvariant, PTL

\* A dispatched call that is not over is in every settlement index, due by its
\* deadline, as long as no record expires in use.
THEOREM DispatchedIsIndexedUnlessExpired ==
    Spec /\ [][ExpiresUnused]_vars => []DispatchedIsIndexed
<1>1. FreshInv => DispatchedIsIndexed
  BY DEF FreshInv, IndexFresh, Unsettled, DispatchedIsIndexed
<1> QED BY <1>1, FreshInvariant, PTL

\* No call poisons the settlement batches, as long as no record expires in use.
THEOREM NoPoisonedIndexUnlessExpired ==
    Spec /\ [][ExpiresUnused]_vars => []NoPoisonedIndex
<1>1. FreshInv => NoPoisonedIndex
  BY DEF FreshInv, IndexFresh, NoPoisonedIndex
<1> QED BY <1>1, FreshInvariant, PTL
=============================================================================
