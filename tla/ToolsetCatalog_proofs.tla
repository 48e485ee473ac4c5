----------------------- MODULE ToolsetCatalog_proofs -----------------------
(***************************************************************************)
(* Theorems about ToolsetCatalog, for any number of tokens, leases and     *)
(* handlers and any durations and bounds.                                  *)
(***************************************************************************)
EXTENDS ToolsetCatalog, TLAPS

-----------------------------------------------------------------------------
(* What the operators on the record return.                                *)
(*                                                                         *)
(* Every write is one of four kinds of step: the admission is kept, with   *)
(* its health as it was or fenced; a pong is recorded; the admission is    *)
(* retired; or another one is admitted.  The invariants below need nothing *)
(* else of the operations.                                                 *)

\* A record the decoder accepts, or none.
Decoded(e) ==
    /\ e \in Entries
    /\ e.state = "absent"  => e = AbsentEntry
    /\ e.state = "active"  => e.token \in Tokens /\ e.token \notin e.retired
    /\ e.state = "retired" => e.token \in e.retired
    /\ e.state # "absent"  => e.epoch > 0

\* The admission stays what it is.
Same(e, n) == n.state = e.state /\ n.token = e.token /\ n.retired = e.retired

Kept(e, n) ==
    /\ Same(e, n)
    /\ \/ n.epoch = e.epoch /\ n.lastPong = e.lastPong
       \/ n.epoch > e.epoch /\ n.lastPong = 0

Ponged(e, n, req, now) ==
    /\ Same(e, n)
    /\ req.op = "pong" /\ e.token = req.token /\ e.epoch = req.epoch
    /\ n.epoch = e.epoch
    /\ n.lastPong = now \/ n.lastPong = e.lastPong

RetiredBy(e, n) ==
    /\ e.state = "active" /\ n.state = "retired"
    /\ n.token = e.token /\ n.retired = e.retired \cup {e.token}
    /\ n.epoch = e.epoch /\ n.lastPong = e.lastPong

AdmittedBy(e, n, now) ==
    /\ n.state = "active"
    /\ n.token \in Tokens /\ n.token \notin e.retired /\ n.token # e.token
    /\ n.epoch = 1 /\ n.lastPong = 0
    /\ \/ e.state = "absent" /\ n.retired = {}
       \/ /\ e.state # "absent" /\ n.retired = e.retired \cup {e.token}
          /\ \A l \in Leases : e.expires[l] <= now

CatalogStep(e, n, req, now) ==
    /\ n \in Entries
    /\ \/ e.state # "absent" /\ (Kept(e, n) \/ Ponged(e, n, req, now) \/ RetiredBy(e, n))
       \/ AdmittedBy(e, n, now)

\* What an operation decides: a step to write, or an answer.
Decides(d, e, req, now) ==
    IF d.swap THEN CatalogStep(e, d.next, req, now) ELSE d.next = e

\* Fencing bumps the epoch, clears the pong, and touches nothing else.
LEMMA Fenced ==
    ASSUME NEW e \in Entries
    PROVE  /\ FenceHealth(e) \in Entries
           /\ Same(e, FenceHealth(e))
           /\ FenceHealth(e).epoch > e.epoch /\ FenceHealth(e).lastPong = 0
<1>1. e.epoch \in Nat /\ e.epoch + 1 \in Nat /\ e.epoch + 1 > e.epoch
  BY DEF Entries
<1>. QED
  BY <1>1 DEF FenceHealth, Entries, Same

\* Removing leases keeps the admission and the leases that stay.
LEMMA Removed ==
    ASSUME NEW e \in Entries, NEW gone \in SUBSET Leases
    PROVE  /\ WithoutLeases(e, gone) \in Entries
           /\ Kept(e, WithoutLeases(e, gone))
           /\ \A l \in Leases : WithoutLeases(e, gone).expires[l] = IF l \in gone THEN 0 ELSE e.expires[l]
BY DEF WithoutLeases, Entries, Kept, Same

\* Keeping is transitive, and fencing keeps.
LEMMA KeptTransitive ==
    ASSUME NEW a \in Entries, NEW b \in Entries, NEW c \in Entries, Kept(a, b), Kept(b, c)
    PROVE  Kept(a, c)
<1>1. a.epoch \in Nat /\ b.epoch \in Nat /\ c.epoch \in Nat
  BY DEF Entries
<1>. QED
  BY <1>1 DEF Kept, Same

\* A record kept so far may be fenced as well.
LEMMA FenceKeeps ==
    ASSUME NEW a \in Entries, NEW b \in Entries, Kept(a, b)
    PROVE  FenceHealth(b) \in Entries /\ Kept(a, FenceHealth(b))
<1>1. Kept(b, FenceHealth(b))
  BY Fenced DEF Kept
<1>. QED
  BY <1>1, Fenced, KeptTransitive

\* Pruning keeps the admission, and leaves nothing but what has not lapsed.
LEMMA Pruned ==
    ASSUME NEW e \in Entries, NEW now \in Nat
    PROVE  LET p == pruneExpiredProviderLeases(e, now) IN
           /\ p \in Entries
           /\ Kept(e, p)
           /\ ProviderLeases(p) = {} => \A l \in Leases : e.expires[l] <= now
<1> DEFINE gone == {l \in Leases : e.expires[l] <= now}
           kept == WithoutLeases(e, gone)
           p == pruneExpiredProviderLeases(e, now)
<1>1. kept \in Entries /\ Kept(e, kept)
  BY Removed
<1>2. p = kept \/ p = FenceHealth(kept)
  BY DEF pruneExpiredProviderLeases
<1>3. p \in Entries /\ Kept(e, p)
  BY <1>1, <1>2, FenceKeeps
<1>4. \A l \in Leases : p.expires[l] = kept.expires[l]
  BY <1>1, <1>2 DEF FenceHealth, Entries
<1>5. \A l \in Leases : e.expires[l] \in Nat
  BY DEF Entries
<1>6. ASSUME ProviderLeases(p) = {}, NEW l \in Leases
      PROVE  e.expires[l] <= now
  <2>1. ~(p.expires[l] > 0)
    BY <1>6 DEF ProviderLeases
  <2>2. kept.expires[l] = IF l \in gone THEN 0 ELSE e.expires[l]
    BY Removed
  <2>. QED
    BY <2>1, <2>2, <1>4, <1>5
<1>. QED
  BY <1>3, <1>6

\* What newCatalogEntry writes: one lease, the tombstones it is given, epoch
\* one.
LEMMA NewEntry ==
    ASSUME NEW t \in Tokens, NEW l \in Leases, NEW d \in Nat, NEW r \in SUBSET Tokens
    PROVE  LET n == newCatalogEntry(t, l, d, r) IN
           /\ n \in Entries /\ n.state = "active" /\ n.token = t /\ n.retired = r
           /\ n.epoch = 1 /\ n.lastPong = 0
BY DEF newCatalogEntry, Entries

-----------------------------------------------------------------------------
(* What every operation decides. *)

ProviderRequests == [op : {"register", "drain", "release"}, token : Tokens, lease : Leases]

\* Register answers from the record, keeps its admission, or admits a token
\* without tombstone once no lease is left.
LEMMA RegisterDecides ==
    ASSUME CatalogAssumption, NEW e, Decoded(e), NEW now \in Nat, NEW req \in ProviderRequests
    PROVE  Decides(Register(e, req, now), e, req, now)
<1> DEFINE p == pruneExpiredProviderLeases(e, now)
           deadline == now + LeaseDuration
           renewed == [p EXCEPT !.expires[req.lease] = deadline,
                                !.draining = @ \ {req.lease}]
           first == newCatalogEntry(req.token, req.lease, deadline, {})
           second == newCatalogEntry(req.token, req.lease, deadline, e.retired \cup {e.token})
<1>0. e \in Entries
  BY DEF Decoded
<1>1. deadline \in Nat /\ req.token \in Tokens /\ req.lease \in Leases
  BY DEF CatalogAssumption, ProviderRequests
<1>2. p \in Entries /\ Kept(e, p)
  BY <1>0, Pruned
<1>3. renewed \in Entries /\ Kept(p, renewed)
  BY <1>1, <1>2 DEF Entries, Kept, Same
<1>4. Kept(e, renewed)
  BY <1>0, <1>2, <1>3, KeptTransitive
<1>5. FenceHealth(renewed) \in Entries /\ Kept(e, FenceHealth(renewed))
  BY <1>0, <1>3, <1>4, FenceKeeps
<1>6. e.state = "absent" => CatalogStep(e, first, req, now)
  <2>1. ASSUME e.state = "absent" PROVE e.token = NoToken /\ e.retired = {}
    BY <2>1 DEF Decoded, AbsentEntry
  <2>2. first \in Entries /\ first.state = "active" /\ first.token = req.token
        /\ first.retired = {} /\ first.epoch = 1 /\ first.lastPong = 0
    BY <1>1, NewEntry
  <2>. QED
    BY <2>1, <2>2, <1>1 DEF CatalogStep, AdmittedBy, CatalogAssumption
<1>7. e.state # "absent" /\ req.token \notin e.retired /\ req.token # e.token /\ ProviderLeases(p) = {}
      => CatalogStep(e, second, req, now)
  <2>. SUFFICES ASSUME e.state # "absent", req.token \notin e.retired, req.token # e.token,
                       ProviderLeases(p) = {}
                PROVE  CatalogStep(e, second, req, now)
    OBVIOUS
  <2>1. e.retired \cup {e.token} \in SUBSET Tokens
    BY <1>0 DEF Decoded, Entries
  <2>2. second \in Entries /\ second.state = "active" /\ second.token = req.token
        /\ second.retired = e.retired \cup {e.token} /\ second.epoch = 1 /\ second.lastPong = 0
    BY <2>1, <1>1, NewEntry
  <2>3. \A l \in Leases : e.expires[l] <= now
    BY <1>0, Pruned
  <2>. QED
    BY <2>2, <2>3, <1>1 DEF CatalogStep, AdmittedBy
<1>. HIDE DEF p, deadline, renewed, first, second
<1>8. Register(e, req, now) =
        CASE e.state = "absent" -> Swap(first, "admitted")
          [] e.state # "absent" /\ req.token \in e.retired -> Answer(e, "retired")
          [] e.state # "absent" /\ req.token \notin e.retired /\ req.token = e.token ->
                Swap(IF routable(p, now) = {} THEN FenceHealth(renewed) ELSE renewed, "admitted")
          [] e.state # "absent" /\ req.token \notin e.retired /\ req.token # e.token
             /\ ProviderLeases(p) # {} ->
                IF pruned(e, now) THEN Swap(p, "blocked") ELSE Answer(e, "blocked")
          [] OTHER -> Swap(second, "admitted")
  BY DEF Register, p, deadline, renewed, first, second
<1>9. e.state # "absent" => /\ CatalogStep(e, p, req, now) /\ CatalogStep(e, renewed, req, now)
                            /\ CatalogStep(e, FenceHealth(renewed), req, now)
  BY <1>2, <1>3, <1>4, <1>5 DEF CatalogStep
<1>. QED
  BY <1>6, <1>7, <1>8, <1>9 DEF Swap, Answer, Decides

\* DrainProvider keeps the admission, with its health as it was or fenced.
LEMMA DrainDecides ==
    ASSUME CatalogAssumption, NEW e, Decoded(e), NEW now \in Nat, NEW req \in ProviderRequests
    PROVE  Decides(DrainProvider(e, req, now), e, req, now)
<1> DEFINE p == pruneExpiredProviderLeases(e, now)
           deadline == now + DrainDuration
           old == e.expires[req.lease]
           drained == [e EXCEPT !.draining = @ \cup {req.lease},
                                !.expires[req.lease] = IF old > deadline THEN old ELSE deadline]
<1>0. e \in Entries
  BY DEF Decoded
<1>1. deadline \in Nat /\ req.token \in Tokens /\ req.lease \in Leases /\ old \in Nat
  BY <1>0 DEF CatalogAssumption, ProviderRequests, Entries
<1>2. p \in Entries /\ Kept(e, p)
  BY <1>0, Pruned
<1>3. drained \in Entries /\ Kept(e, drained)
  BY <1>0, <1>1 DEF Entries, Kept, Same
<1>4. FenceHealth(drained) \in Entries /\ Kept(e, FenceHealth(drained))
  BY <1>0, <1>3, FenceKeeps
<1>5. e.token = req.token => e.state # "absent"
  BY <1>1 DEF Decoded, AbsentEntry, CatalogAssumption
<1>. HIDE DEF p, deadline, drained, old
<1>6. DrainProvider(e, req, now) =
        CASE e.token # req.token \/ old = 0 -> Answer(e, "done")
          [] e.token = req.token /\ old > 0 /\ old <= now -> Swap(p, "done")
          [] OTHER -> Swap(IF routable(e, now) # {} /\ routable(drained, now) = {}
                           THEN FenceHealth(drained) ELSE drained, "done")
  BY DEF DrainProvider, p, deadline, drained, old
<1>7. e.token = req.token => /\ CatalogStep(e, p, req, now) /\ CatalogStep(e, drained, req, now)
                             /\ CatalogStep(e, FenceHealth(drained), req, now)
  BY <1>2, <1>3, <1>4, <1>5 DEF CatalogStep
<1>. QED
  BY <1>6, <1>7 DEF Swap, Answer, Decides

\* So does ReleaseProvider.
LEMMA ReleaseDecides ==
    ASSUME CatalogAssumption, NEW e, Decoded(e), NEW now \in Nat, NEW req \in ProviderRequests
    PROVE  Decides(ReleaseProvider(e, req, now), e, req, now)
<1> DEFINE p == pruneExpiredProviderLeases(e, now)
           left == WithoutLeases(p, {req.lease})
<1>0. e \in Entries /\ req.token \in Tokens /\ {req.lease} \in SUBSET Leases
  BY DEF Decoded, ProviderRequests
<1>1. p \in Entries /\ Kept(e, p)
  BY <1>0, Pruned
<1>2. left \in Entries /\ Kept(p, left)
  BY <1>0, <1>1, Removed
<1>3. Kept(e, left)
  BY <1>0, <1>1, <1>2, KeptTransitive
<1>4. FenceHealth(left) \in Entries /\ Kept(e, FenceHealth(left))
  BY <1>0, <1>2, <1>3, FenceKeeps
<1>5. e.token = req.token => e.state # "absent"
  BY <1>0 DEF Decoded, AbsentEntry, CatalogAssumption
<1>. HIDE DEF p, left
<1>6. ReleaseProvider(e, req, now) =
        CASE e.token # req.token -> Answer(e, "done")
          [] e.token = req.token /\ p.expires[req.lease] = 0 ->
                IF pruned(e, now) THEN Swap(p, "done") ELSE Answer(e, "done")
          [] OTHER -> Swap(IF routable(p, now) # {} /\ routable(left, now) = {}
                           THEN FenceHealth(left) ELSE left, "done")
  BY DEF ReleaseProvider, p, left
<1>7. e.token = req.token => /\ CatalogStep(e, p, req, now) /\ CatalogStep(e, left, req, now)
                             /\ CatalogStep(e, FenceHealth(left), req, now)
  BY <1>1, <1>2, <1>3, <1>4, <1>5 DEF CatalogStep
<1>. QED
  BY <1>6, <1>7 DEF Swap, Answer, Decides

\* Retire leaves a tombstone of the token it retires.
LEMMA RetireDecides ==
    ASSUME NEW e, Decoded(e), NEW now \in Nat, NEW req
    PROVE  Decides(Retire(e, req, now), e, req, now)
<1> DEFINE n == [e EXCEPT !.state = "retired", !.retired = @ \cup {e.token}]
<1>1. e \in Entries /\ e.state \in {"absent", "active", "retired"}
  BY DEF Decoded, Entries
<1>2. e.state = "active" => n \in Entries /\ RetiredBy(e, n)
  BY <1>1 DEF Decoded, Entries, RetiredBy
<1>. HIDE DEF n
<1>3. Retire(e, req, now) =
        CASE e.state = "absent" -> Answer(e, "done")
          [] e.state # "absent" /\ e.token # req.token -> Answer(e, "conflict")
          [] e.state = "retired" /\ e.token = req.token -> Answer(e, "done")
          [] OTHER -> Swap(n, "done")
  BY DEF Retire, n
<1>. QED
  BY <1>1, <1>2, <1>3 DEF Swap, Answer, Decides, CatalogStep

\* healthEntry writes nothing but the pruned record.
LEMMA HealthDecides ==
    ASSUME NEW e, Decoded(e), NEW now \in Nat, NEW req
    PROVE  /\ Decides(healthEntry(e, req, now), e, req, now)
           /\ healthEntry(e, req, now).reply = "health" => e.state = "active"
<1>1. e \in Entries
  BY DEF Decoded
<1>2. pruneExpiredProviderLeases(e, now) \in Entries /\ Kept(e, pruneExpiredProviderLeases(e, now))
  BY <1>1, Pruned
<1>. QED
  BY <1>2 DEF healthEntry, Swap, Answer, Decides, CatalogStep

\* RecordPong prunes, or records a pong of the token and epoch it names.
LEMMA PongDecides ==
    ASSUME NEW e, Decoded(e), NEW now \in Nat, NEW req, req.op = "pong"
    PROVE  Decides(RecordPong(e, req, now), e, req, now)
<1> DEFINE p == pruneExpiredProviderLeases(e, now)
           n == [e EXCEPT !.lastPong = IF now > @ THEN now ELSE @]
           counts == /\ e.state = "active" /\ e.token = req.token /\ e.epoch = req.epoch
                     /\ e.expires[req.lease] > now /\ req.lease \notin e.draining
<1>0. e \in Entries
  BY DEF Decoded
<1>1. p \in Entries /\ Kept(e, p)
  BY <1>0, Pruned
<1>2. counts => n \in Entries /\ Ponged(e, n, req, now)
  BY <1>0 DEF Entries, Ponged, Same
<1>3. counts => e.state = "active" 
  OBVIOUS
<1>. HIDE DEF p, n, counts
<1>4. RecordPong(e, req, now) =
        CASE e.state # "absent" /\ pruned(e, now) ->
                Swap(p, IF ProviderLeases(p) = {} THEN "done" ELSE "again")
          [] e.state # "absent" /\ ~pruned(e, now) /\ counts -> Swap(n, "done")
          [] OTHER -> Answer(e, "done")
  BY DEF RecordPong, p, n, counts
<1>. QED
  BY <1>1, <1>2, <1>3, <1>4 DEF Swap, Answer, Decides, CatalogStep

\* Every request is of one of the kinds the operations are written for.
LEMMA RequestKinds ==
    ASSUME NEW req \in Requests
    PROVE  /\ req.op \in {"register", "drain", "release", "retire", "ping", "none", "pong"}
           /\ req.op \in {"register", "drain", "release"} => req \in ProviderRequests
           /\ req.op = "pong" => req.token \in Tokens /\ req.epoch \in Nat
BY DEF Requests, ProviderRequests

\* Nobody is answered "health" but the ping scheduler, for an active record.
LEMMA OutcomeDecides ==
    ASSUME CatalogAssumption, NEW e, Decoded(e), NEW now \in Nat, NEW req \in Requests, req.op # "none"
    PROVE  /\ Decides(Outcome(e, req, now), e, req, now)
           /\ Outcome(e, req, now).reply = "health" => e.state = "active" /\ req.op = "ping"
<1>1. CASE req.op = "register"
  <2>1. Outcome(e, req, now) = Register(e, req, now)
    BY <1>1 DEF Outcome
  <2>2. Register(e, req, now).reply # "health"
    BY DEF Register, Swap, Answer
  <2>. QED
    BY <2>1, <2>2, <1>1, RequestKinds, RegisterDecides
<1>2. CASE req.op = "drain"
  <2>1. Outcome(e, req, now) = DrainProvider(e, req, now)
    BY <1>2 DEF Outcome
  <2>2. DrainProvider(e, req, now).reply # "health"
    BY DEF DrainProvider, Swap, Answer
  <2>. QED
    BY <2>1, <2>2, <1>2, RequestKinds, DrainDecides
<1>3. CASE req.op = "release"
  <2>1. Outcome(e, req, now) = ReleaseProvider(e, req, now)
    BY <1>3 DEF Outcome
  <2>2. ReleaseProvider(e, req, now).reply # "health"
    BY DEF ReleaseProvider, Swap, Answer
  <2>. QED
    BY <2>1, <2>2, <1>3, RequestKinds, ReleaseDecides
<1>4. CASE req.op = "retire"
  <2>1. Outcome(e, req, now) = Retire(e, req, now)
    BY <1>4 DEF Outcome
  <2>2. Retire(e, req, now).reply # "health"
    BY DEF Retire, Swap, Answer
  <2>. QED
    BY <2>1, <2>2, RetireDecides
<1>5. CASE req.op = "ping"
  <2>1. Outcome(e, req, now) = healthEntry(e, req, now)
    BY <1>5 DEF Outcome
  <2>. QED
    BY <2>1, <1>5, HealthDecides
<1>6. CASE req.op = "pong"
  <2>1. Outcome(e, req, now) = RecordPong(e, req, now)
    BY <1>6 DEF Outcome
  <2>2. RecordPong(e, req, now).reply # "health"
    BY DEF RecordPong, Swap, Answer
  <2>. QED
    BY <2>1, <2>2, <1>6, PongDecides
<1>. QED
  BY <1>1, <1>2, <1>3, <1>4, <1>5, <1>6, RequestKinds

\* A write of a step leaves a record the decoder accepts.
LEMMA StepDecoded ==
    ASSUME NEW e, Decoded(e), NEW n, NEW req, NEW now \in Nat, CatalogStep(e, n, req, now)
    PROVE  Decoded(n) /\ n.state # "absent" /\ n.token \in Tokens
<1>0. e \in Entries /\ n \in Entries /\ e.epoch \in Nat /\ n.epoch \in Nat
      /\ e.state \in {"absent", "active", "retired"} /\ e.retired \subseteq Tokens
  BY DEF Decoded, CatalogStep, Entries
<1>1. CASE e.state # "absent" /\ Kept(e, n)
  BY <1>0, <1>1 DEF Decoded, Kept, Same
<1>2. CASE e.state # "absent" /\ Ponged(e, n, req, now)
  BY <1>0, <1>2 DEF Decoded, Ponged, Same
<1>3. CASE e.state # "absent" /\ RetiredBy(e, n)
  BY <1>0, <1>3 DEF Decoded, RetiredBy
<1>4. CASE AdmittedBy(e, n, now)
  BY <1>0, <1>4 DEF Decoded, AdmittedBy
<1>. QED
  BY <1>1, <1>2, <1>3, <1>4 DEF CatalogStep

-----------------------------------------------------------------------------
(* Type correctness.  The types alone are not inductive: a replacement     *)
(* tombstones the token it replaces, which is a token only if no handler   *)
(* ever holds or writes a half-absent record.                              *)

Working(h) == handler[h].pc # "idle"

CatalogInv ==
    /\ TypeOK
    /\ Decoded(entry)
    /\ \A h \in Handlers :
          /\ Decoded(handler[h].raw)
          /\ Working(h) => handler[h].req.op # "none"
          /\ handler[h].now <= clock
    /\ born <= clock

\* What the handler decides, from the record it read and a clock.
LEMMA DecisionDecides ==
    ASSUME CatalogAssumption, CatalogInv, NEW h \in Handlers, NEW now \in Nat, Working(h)
    PROVE  /\ Decides(Decision(h, now), handler[h].raw, handler[h].req, now)
           /\ Decision(h, now).reply = "health" => handler[h].raw.state = "active"
<1>1. handler[h].req \in Requests /\ Decoded(handler[h].raw) /\ handler[h].req.op # "none"
  BY DEF CatalogInv, TypeOK, HandlerStates
<1>. QED
  BY <1>1, OutcomeDecides DEF Decision

\* The invariant holds initially.
LEMMA CatalogInit ==
    ASSUME CatalogAssumption, Init
    PROVE  CatalogInv
<1>1. AbsentEntry \in Entries /\ AbsentEntry.state = "absent"
  BY DEF AbsentEntry, Entries
<1>2. Decoded(AbsentEntry)
  BY <1>1 DEF Decoded
<1>3. [op |-> "none"] \in Requests
  BY DEF Requests
<1>4. Idle \in HandlerStates /\ Idle.raw = AbsentEntry /\ Idle.now = 0 /\ Idle.pc = "idle"
  BY <1>1, <1>3 DEF Idle, HandlerStates
<1>5. TypeOK
  BY <1>1, <1>4 DEF Init, TypeOK
<1>6. \A h \in Handlers : handler[h] = Idle
  BY DEF Init
<1>7. entry = AbsentEntry /\ clock = 1 /\ born = 1
  BY DEF Init
<1>. QED
  BY <1>2, <1>4, <1>5, <1>6, <1>7 DEF CatalogInv, Working

\* The invariant of one handler; a step changes one handler, or all of them
\* stay and the clock goes on.
HandlerOK(s, now) ==
    /\ s \in HandlerStates
    /\ Decoded(s.raw)
    /\ s.pc # "idle" => s.req.op # "none"
    /\ s.now <= now

\* An idle handler is a handler in order.
LEMMA IdleOK ==
    ASSUME NEW now \in Nat
    PROVE  HandlerOK(Idle, now)
<1>1. AbsentEntry \in Entries /\ AbsentEntry.state = "absent"
  BY DEF AbsentEntry, Entries
<1>2. Decoded(AbsentEntry)
  BY <1>1 DEF Decoded
<1>3. [op |-> "none"] \in Requests
  BY DEF Requests
<1>. QED
  BY <1>1, <1>2, <1>3 DEF Idle, HandlerStates, HandlerOK

\* The invariant says so of every handler.
LEMMA HandlersOK ==
    ASSUME CatalogInv, NEW h \in Handlers
    PROVE  HandlerOK(handler[h], clock)
BY DEF CatalogInv, TypeOK, HandlerOK, Working

\* A step that leaves the record alone and one handler in order keeps the
\* invariant.
LEMMA OneHandler ==
    ASSUME CatalogInv, NEW h \in Handlers, NEW s, HandlerOK(s, clock),
           handler' = [handler EXCEPT ![h] = s], clock' = clock,
           entry' \in Entries, Decoded(entry'), pings' \subseteq Tokens \X Nat,
           born' \in Nat, born' <= clock, past' \subseteq Tokens \X Nat, gap' \in BOOLEAN
    PROVE  CatalogInv'
<1>1. handler' \in [Handlers -> HandlerStates] /\ clock \in Nat
  BY DEF CatalogInv, TypeOK, HandlerOK
<1>2. ASSUME NEW g \in Handlers PROVE HandlerOK(handler'[g], clock)
  BY HandlersOK DEF CatalogInv, TypeOK
<1>3. TypeOK'
  BY <1>1 DEF TypeOK
<1>. QED
  BY <1>2, <1>3 DEF CatalogInv, HandlerOK, Working

\* Starting a request keeps the invariant.
LEMMA StartOK ==
    ASSUME CatalogInv, NEW h \in Handlers, NEW req \in Requests, req.op # "none", Start(h, req)
    PROVE  CatalogInv'
<1> DEFINE s == [pc |-> "clock", req |-> req, raw |-> entry, now |-> 0]
<1>1. HandlerOK(s, clock)
  BY DEF CatalogInv, TypeOK, HandlerOK, HandlerStates
<1>. QED
  BY <1>1, OneHandler DEF Start, CatalogInv, TypeOK, history

\* So does every request that can arrive.
LEMMA ArriveOK ==
    ASSUME CatalogAssumption, CatalogInv, NEW h \in Handlers, Arrive(h)
    PROVE  CatalogInv'
<1>1. ASSUME NEW op \in {"register", "drain", "release"}, NEW q \in Providers
      PROVE  [op |-> op, token |-> q[1], lease |-> q[2]] \in Requests
  BY DEF CatalogAssumption, Requests
<1>2. ASSUME NEW t \in Tokens PROVE [op |-> "retire", token |-> t] \in Requests
  BY DEF Requests
<1>3. [op |-> "ping"] \in Requests
  BY DEF Requests
<1>4. ASSUME NEW ping \in pings, NEW l \in Leases
      PROVE  [op |-> "pong", token |-> ping[1], lease |-> l, epoch |-> ping[2]] \in Requests
  BY DEF CatalogInv, TypeOK, Requests
<1>. QED
  BY <1>1, <1>2, <1>3, <1>4, StartOK DEF Arrive

\* The passing of time keeps the invariant.
LEMMA TickOK ==
    ASSUME CatalogInv, Tick
    PROVE  CatalogInv'
<1>1. clock \in Nat /\ clock' = clock + 1 /\ born \in Nat
      /\ handler \in [Handlers -> HandlerStates]
  BY DEF Tick, CatalogInv, TypeOK
<1>2. \A h \in Handlers : handler[h].now \in Nat
  BY <1>1 DEF HandlerStates
<1>3. gap' \in BOOLEAN
  BY DEF Tick, CatalogInv, TypeOK
<1>4. TypeOK'
  BY <1>1, <1>3 DEF Tick, CatalogInv, TypeOK
<1>. QED
  BY <1>1, <1>2, <1>4 DEF Tick, CatalogInv, Working

\* Reading the clock keeps the invariant: the clock that was read is not
\* ahead.
LEMMA ReadClockOK ==
    ASSUME CatalogInv, NEW h \in Handlers, ReadClock(h)
    PROVE  CatalogInv'
<1> DEFINE s == [handler[h] EXCEPT !.pc = "swap", !.now = clock]
<1>1. HandlerOK(handler[h], clock) /\ handler[h].pc = "clock" /\ clock \in Nat
  BY HandlersOK DEF ReadClock, CatalogInv, TypeOK
<1>2. HandlerOK(s, clock)
  <2>1. s \in HandlerStates /\ s.raw = handler[h].raw /\ s.req = handler[h].req /\ s.now = clock
    BY <1>1 DEF HandlerOK, HandlerStates
  <2>. QED
    BY <2>1, <1>1 DEF HandlerOK
<1>3. handler' = [handler EXCEPT ![h] = s]
  BY DEF ReadClock, CatalogInv, TypeOK, HandlerStates
<1>. HIDE DEF s
<1>. QED
  BY <1>2, <1>3, OneHandler DEF ReadClock, CatalogInv, TypeOK, history

\* A ping carries the identity of a record that is, or was, active.
LEMMA PingType ==
    ASSUME CatalogAssumption, CatalogInv, NEW h \in Handlers, NEW now \in Nat, Working(h),
           sendPing(Decision(h, now), now)
    PROVE  /\ pings' \subseteq Tokens \X Nat
           /\ pings' = pings \/ pings' = pings \cup {Identity(Decision(h, now).next)}
           /\ pings' # pings => Decision(h, now).next.state # "absent"
<1>1. Decides(Decision(h, now), handler[h].raw, handler[h].req, now)
      /\ (Decision(h, now).reply = "health" => handler[h].raw.state = "active")
  BY DecisionDecides
<1>2. Decoded(handler[h].raw)
  BY DEF CatalogInv
<1>3. Decision(h, now).reply = "health" =>
        Decoded(Decision(h, now).next) /\ Decision(h, now).next.state # "absent"
        /\ Decision(h, now).next.token \in Tokens
  <2>1. CASE Decision(h, now).swap
    BY <2>1, <1>1, <1>2, StepDecoded DEF Decides
  <2>2. CASE ~Decision(h, now).swap
    BY <2>2, <1>1, <1>2 DEF Decides, Decoded
  <2>. QED
    BY <2>1, <2>2
<1>4. Decision(h, now).reply = "health" => Identity(Decision(h, now).next) \in Tokens \X Nat
  BY <1>3 DEF Decoded, Entries, Identity
<1>. QED
  BY <1>3, <1>4 DEF sendPing, CatalogInv, TypeOK

\* An answer keeps the invariant.
LEMMA ReplyOK ==
    ASSUME CatalogAssumption, CatalogInv, NEW h \in Handlers, Reply(h)
    PROVE  CatalogInv'
<1>1. pings' \subseteq Tokens \X Nat
  BY PingType DEF Reply, Working, CatalogInv, TypeOK
<1>2. HandlerOK(Idle, clock)
  BY IdleOK DEF CatalogInv, TypeOK
<1>. QED
  BY <1>1, <1>2, OneHandler DEF Reply, CatalogInv, TypeOK, history

\* A swap writes a step from the record that was read, which is the record.
LEMMA CommitStep ==
    ASSUME CatalogAssumption, CatalogInv, NEW h \in Handlers, Commit(h),
           Decision(h, handler[h].now).swap
    PROVE  CatalogStep(entry, entry', handler[h].req, handler[h].now)
<1>1. handler[h].now \in Nat /\ Working(h)
  BY DEF CatalogInv, TypeOK, HandlerStates, Commit, Working
<1>2. Decides(Decision(h, handler[h].now), entry, handler[h].req, handler[h].now)
  BY <1>1, DecisionDecides DEF Commit
<1>. QED
  BY <1>2 DEF Decides, Commit

\* A swap that commits keeps the invariant.
LEMMA CommitOK ==
    ASSUME CatalogAssumption, CatalogInv, NEW h \in Handlers, Commit(h)
    PROVE  CatalogInv'
<1> DEFINE now == handler[h].now
           d == Decision(h, now)
           s == PongAfterPrune(handler[h], d)
<1>1. now \in Nat /\ Working(h) /\ clock \in Nat /\ entry = handler[h].raw /\ Decoded(entry)
      /\ HandlerOK(handler[h], clock) /\ handler[h] \in HandlerStates
  BY HandlersOK DEF CatalogInv, TypeOK, HandlerStates, Commit, Working
<1>2. Decides(d, entry, handler[h].req, now)
  BY <1>1, DecisionDecides
<1>3. Decoded(entry') /\ entry' = d.next
  <2>1. entry' = d.next
    BY DEF Commit
  <2>2. CASE d.swap
    BY <2>1, <2>2, <1>1, <1>2, StepDecoded DEF Decides
  <2>3. CASE ~d.swap
    BY <2>1, <2>3, <1>1, <1>2 DEF Decides
  <2>. QED
    BY <2>1, <2>2, <2>3
<1>4. entry' \in Entries
  BY <1>3 DEF Decoded
<1>5. HandlerOK(s, clock)
  <2>1. HandlerOK([handler[h] EXCEPT !.raw = entry'], clock)
    BY <1>1, <1>3, <1>4 DEF HandlerOK, HandlerStates, Working
  <2>. QED
    BY <2>1, <1>1, <1>3, IdleOK DEF PongAfterPrune
<1>6. handler' = [handler EXCEPT ![h] = s] /\ clock' = clock
  BY DEF Commit, CatalogInv, TypeOK
<1>7. pings' \subseteq Tokens \X Nat
  BY <1>1, PingType DEF Commit
<1>8. past' \subseteq Tokens \X Nat /\ born' \in Nat /\ born' <= clock /\ gap' \in BOOLEAN
  <2>1. entry.state # "absent" => Identity(entry) \in Tokens \X Nat
    BY <1>1 DEF Decoded, Entries, Identity
  <2>2. Remember(entry')
    BY DEF Commit
  <2>3. past' \subseteq Tokens \X Nat
    BY <2>1, <2>2 DEF Remember, CatalogInv, TypeOK
  <2>4. born' \in Nat /\ born' <= clock
    BY <2>2, <1>1 DEF Remember, CatalogInv, TypeOK
  <2>5. gap' \in BOOLEAN
    BY <2>2 DEF Remember, CatalogInv, TypeOK
  <2>. QED
    BY <2>3, <2>4, <2>5
<1>. HIDE DEF s
<1>. QED
  BY <1>3, <1>4, <1>5, <1>6, <1>7, <1>8, OneHandler

\* So does a swap that fails.
LEMMA ConflictOK ==
    ASSUME CatalogInv, NEW h \in Handlers, Conflict(h)
    PROVE  CatalogInv'
<1> DEFINE s == [pc |-> "read", req |-> handler[h].req, raw |-> AbsentEntry, now |-> 0]
<1>1. HandlerOK(handler[h], clock) /\ handler[h].pc = "swap" /\ clock \in Nat
  BY HandlersOK DEF Conflict, CatalogInv, TypeOK
<1>2. HandlerOK(Idle, clock) /\ Idle.raw = AbsentEntry /\ Idle.now = 0
  BY <1>1, IdleOK DEF Idle
<1>3. HandlerOK(s, clock)
  BY <1>1, <1>2 DEF HandlerOK, HandlerStates
<1>4. handler' = [handler EXCEPT ![h] = s]
  BY DEF Conflict, CatalogInv, TypeOK
<1>. HIDE DEF s
<1>. QED
  BY <1>3, <1>4, OneHandler DEF Conflict, CatalogInv, TypeOK, history

\* So does reading the record again.
LEMMA RereadOK ==
    ASSUME CatalogInv, NEW h \in Handlers, Reread(h)
    PROVE  CatalogInv'
<1> DEFINE s == [handler[h] EXCEPT !.pc = "clock", !.raw = entry]
<1>1. HandlerOK(handler[h], clock) /\ handler[h].pc = "read" /\ Decoded(entry) /\ entry \in Entries
  BY HandlersOK DEF Reread, CatalogInv, TypeOK
<1>2. HandlerOK(s, clock)
  BY <1>1 DEF HandlerOK, HandlerStates
<1>3. handler' = [handler EXCEPT ![h] = s]
  BY DEF Reread, CatalogInv, TypeOK, HandlerStates
<1>. HIDE DEF s
<1>. QED
  BY <1>2, <1>3, OneHandler DEF Reread, CatalogInv, TypeOK, history

\* Every step keeps the invariant.
LEMMA CatalogNext ==
    ASSUME CatalogAssumption, CatalogInv, [Next]_vars
    PROVE  CatalogInv'
<1>1. CASE Tick
  BY <1>1, TickOK
<1>2. CASE \E h \in Handlers : Arrive(h)
  BY <1>2, ArriveOK
<1>3. CASE \E h \in Handlers : ReadClock(h)
  BY <1>3, ReadClockOK
<1>4. CASE \E h \in Handlers : Reply(h)
  BY <1>4, ReplyOK
<1>5. CASE \E h \in Handlers : Commit(h)
  BY <1>5, CommitOK
<1>7. CASE \E h \in Handlers : Conflict(h)
  BY <1>7, ConflictOK
<1>8. CASE \E h \in Handlers : Reread(h)
  BY <1>8, RereadOK
<1>9. CASE UNCHANGED vars
  BY <1>9 DEF vars, history, CatalogInv, TypeOK, Working
<1>. QED
  BY <1>1, <1>2, <1>3, <1>4, <1>5, <1>7, <1>8, <1>9 DEF Next

\* The invariant holds of every behaviour of the catalog.
THEOREM CatalogInvariant == Spec => []CatalogInv
<1>1. Init => CatalogInv
  BY CatalogAssumption, CatalogInit
<1>2. CatalogInv /\ [Next]_vars => CatalogInv'
  BY CatalogAssumption, CatalogNext
<1>. QED
  BY <1>1, <1>2, PTL DEF Spec

\* Every variable of the catalog, the record of every handler and every
\* ping keep their type, for any tokens, leases and handlers.
THEOREM TypeCorrect == Spec => []TypeOK
<1>1. CatalogInv => TypeOK
  BY DEF CatalogInv
<1>. QED
  BY <1>1, CatalogInvariant, PTL

\* A record the decoder refuses is never written: an admission that is
\* active has no tombstone, one that is retired has.
THEOREM DecoderAcceptsAll == Spec => []DecoderAccepts
<1>1. CatalogInv => DecoderAccepts
  BY DEF CatalogInv, Decoded, DecoderAccepts, parseCatalogEntry
<1>. QED
  BY <1>1, CatalogInvariant, PTL

-----------------------------------------------------------------------------
(* What a write may do.  A step that changes the record is the commit of   *)
(* some handler, which read the clock earlier.                             *)

\* A step that changes the record is the commit of a decided step.
LEMMA EntryChanges ==
    ASSUME CatalogInv, [Next]_vars, entry' # entry
    PROVE  \E h \in Handlers : CatalogStep(entry, entry', handler[h].req, handler[h].now)
                             /\ handler[h].now \in Nat /\ handler[h].now <= clock /\ clock \in Nat
<1>1. PICK h \in Handlers : Commit(h)
  BY DEF Next, vars, Tick, Arrive, Start, ReadClock, Reply, Conflict, Reread
<1>2. handler[h].now \in Nat /\ handler[h].now <= clock /\ clock \in Nat /\ Working(h)
  BY <1>1 DEF CatalogInv, TypeOK, HandlerStates, Commit, Working
<1>3. Decides(Decision(h, handler[h].now), handler[h].raw, handler[h].req, handler[h].now)
  BY <1>2, CatalogAssumption, DecisionDecides
<1>4. Decision(h, handler[h].now).swap
  BY <1>1, <1>3 DEF Commit, Decides
<1>. QED
  BY <1>1, <1>2, <1>4, CatalogAssumption, CommitStep

\* A replacement happens only when no lease of the admission it replaces has
\* authority at the instant of the write, although the replacing handler
\* decided with an older clock.
THEOREM ReplacementFenced == Spec => ReplacementIsFenced
<1>1. CatalogInv /\ [Next]_vars =>
        [entry.state # "absent" /\ entry'.token # entry.token
            => \A l \in Leases : entry.expires[l] <= clock]_vars
  <2>. SUFFICES ASSUME CatalogInv, [Next]_vars, entry.state # "absent", entry'.token # entry.token,
                       NEW l \in Leases
                PROVE  entry.expires[l] <= clock
    OBVIOUS
  <2>1. PICK h \in Handlers : CatalogStep(entry, entry', handler[h].req, handler[h].now)
                             /\ handler[h].now \in Nat /\ handler[h].now <= clock /\ clock \in Nat
    BY EntryChanges
  <2>2. AdmittedBy(entry, entry', handler[h].now)
    BY <2>1 DEF CatalogStep, Kept, Ponged, RetiredBy, Same
  <2>3. entry.expires[l] <= handler[h].now /\ entry.expires[l] \in Nat
    BY <2>2 DEF AdmittedBy, CatalogInv, TypeOK, Entries
  <2>. QED
    BY <2>1, <2>3
<1>. QED
  BY <1>1, CatalogInvariant, PTL DEF Spec, ReplacementIsFenced

\* Tombstones are never removed, a replaced admission has one, and a retired
\* admission is not revived.
THEOREM RetirementPermanent == Spec => RetirementIsPermanent
<1>1. CatalogInv /\ [Next]_vars =>
        [/\ entry.retired \subseteq entry'.retired
         /\ entry.state # "absent" /\ entry'.token # entry.token => entry.token \in entry'.retired
         /\ entry.state = "retired" /\ entry'.token = entry.token => entry'.state = "retired"]_vars
  <2>. SUFFICES ASSUME CatalogInv, [Next]_vars, entry' # entry
                PROVE  /\ entry.retired \subseteq entry'.retired
                       /\ entry.state # "absent" /\ entry'.token # entry.token => entry.token \in entry'.retired
                       /\ entry.state = "retired" /\ entry'.token = entry.token => entry'.state = "retired"
    OBVIOUS
  <2>1. PICK h \in Handlers : CatalogStep(entry, entry', handler[h].req, handler[h].now)
    BY EntryChanges
  <2>2. entry.state = "absent" => entry.retired = {}
    BY DEF CatalogInv, Decoded, AbsentEntry
  <2>. QED
    BY <2>1, <2>2 DEF CatalogStep, Kept, Ponged, RetiredBy, AdmittedBy, Same
<1>. QED
  BY <1>1, CatalogInvariant, PTL DEF Spec, RetirementIsPermanent

-----------------------------------------------------------------------------
(* Health.  The identities of past memberships are never used again, so a  *)
(* handler that still sees the identity it read knows that the membership  *)
(* did not change since it read the record, hence not since it read the    *)
(* clock either.                                                           *)

Known(x) == x \in past \/ x = Identity(entry)

\* Past identities belong to earlier epochs of the token, or to tombstones.
PastInv ==
    \A x \in past : IF x[1] = entry.token THEN x[2] < entry.epoch ELSE x[1] \in entry.retired

Asked(req) == <<req.token, req.epoch>>

HandlerInv(h) ==
    /\ handler[h].raw.state # "absent" => Known(Identity(handler[h].raw))
    /\ handler[h].req.op = "pong" => Asked(handler[h].req) \in pings
    /\ /\ handler[h].pc = "swap" /\ handler[h].req.op = "pong"
       /\ Identity(handler[h].raw) = Identity(entry)
       /\ Asked(handler[h].req) = Identity(entry)
       => born <= handler[h].now

HealthInv ==
    /\ CatalogInv
    /\ PastInv
    /\ \A x \in pings : Known(x)
    /\ \A h \in Handlers : HandlerInv(h)
    /\ PongOfThisMembership

\* The ordering of past identities makes them different from the current one.
LEMMA PastGivesNever ==
    ASSUME CatalogInv, PastInv
    PROVE  IdentityNeverReused
BY DEF PastInv, IdentityNeverReused, Identity, CatalogInv, TypeOK, Entries

\* What the commit of a step does to the identities.
LEMMA StepIdentity ==
    ASSUME CatalogInv, PastInv, NEW req, NEW now \in Nat, CatalogStep(entry, entry', req, now),
           Remember(entry')
    PROVE  /\ PastInv'
           /\ Identity(entry') # Identity(entry) => ~Known(Identity(entry'))
           /\ \A x \in Tokens \X Nat : Known(x) => Known(x)'
<1> DEFINE moved == Identity(entry) # Identity(entry')
<1>0. /\ entry \in Entries /\ entry' \in Entries /\ Decoded(entry)
      /\ past \subseteq Tokens \X Nat /\ entry.epoch \in Nat /\ entry'.epoch \in Nat
  BY DEF CatalogInv, TypeOK, CatalogStep, Entries
<1>1. past' = IF moved /\ entry.state # "absent" THEN past \cup {Identity(entry)} ELSE past
  BY DEF Remember
<1>2. entry.state = "absent" => entry.token = NoToken /\ entry.retired = {}
  BY <1>0 DEF Decoded, AbsentEntry
<1>3. entry.state = "absent" => past = {}
  BY <1>0, <1>2, CatalogAssumption DEF PastInv, CatalogAssumption
<1>4. \/ /\ entry'.token = entry.token /\ entry.retired \subseteq entry'.retired
         /\ entry'.epoch >= entry.epoch /\ entry.state # "absent"
      \/ /\ entry'.token \in Tokens /\ entry'.token # entry.token /\ entry'.token \notin entry.retired
         /\ entry.state # "absent" => entry'.retired = entry.retired \cup {entry.token}
  BY <1>0 DEF CatalogStep, Kept, Ponged, RetiredBy, AdmittedBy, Same
<1>5. moved => ~Known(Identity(entry'))
  BY <1>0, <1>4 DEF Known, Identity, PastInv
<1>6. PastInv'
  <2>1. ASSUME NEW x \in past PROVE IF x[1] = entry'.token THEN x[2] < entry'.epoch ELSE x[1] \in entry'.retired
    <3>1. x \in Tokens \X Nat /\ x[2] \in Nat /\ entry.state # "absent"
      BY <1>0, <1>3
    <3>. QED
      BY <3>1, <1>0, <1>4 DEF PastInv
  <2>2. moved /\ entry.state # "absent" =>
          IF entry.token = entry'.token THEN entry.epoch < entry'.epoch ELSE entry.token \in entry'.retired
    BY <1>0, <1>4 DEF Identity
  <2>. QED
    BY <2>1, <2>2, <1>1 DEF PastInv, Identity
<1>7. ASSUME NEW x \in Tokens \X Nat, Known(x) PROVE Known(x)'
  <2>1. x = Identity(entry) => entry.state # "absent"
    BY <1>2, CatalogAssumption DEF Identity, CatalogAssumption
  <2>. QED
    BY <2>1, <1>1, <1>7 DEF Known
<1>. QED
  BY <1>5, <1>6, <1>7

\* A step of one handler that does not write the record.
LEMMA QuietStep ==
    ASSUME HealthInv, CatalogInv', NEW h \in Handlers, NEW s,
           handler' = [handler EXCEPT ![h] = s], HandlerInv(h)',
           UNCHANGED <<clock, entry, born, past>>,
           pings \subseteq pings', \A x \in pings' : x \in pings \/ Known(x)
    PROVE  HealthInv'
<1>1. PastInv' /\ \A x \in pings' : Known(x)'
  BY DEF HealthInv, PastInv, Known
<1>2. PongOfThisMembership'
  BY DEF HealthInv, PongOfThisMembership
<1>3. ASSUME NEW g \in Handlers, g # h PROVE HandlerInv(g)'
  <2>1. handler'[g] = handler[g] /\ HandlerInv(g)
    BY <1>3 DEF HealthInv, CatalogInv, TypeOK
  <2>. QED
    BY <2>1 DEF HandlerInv, Known
<1>. QED
  BY <1>1, <1>2, <1>3 DEF HealthInv

\* The state of a handler after a step that sets it.
LEMMA HandlerIs ==
    ASSUME CatalogInv, NEW h \in Handlers, NEW s, handler' = [handler EXCEPT ![h] = s]
    PROVE  handler'[h] = s
BY DEF CatalogInv, TypeOK

\* Starting a request keeps the health invariant.
LEMMA HealthStart ==
    ASSUME HealthInv, CatalogInv', NEW h \in Handlers, NEW req, Start(h, req),
           req.op = "pong" => Asked(req) \in pings
    PROVE  HealthInv'
<1> DEFINE s == [pc |-> "clock", req |-> req, raw |-> entry, now |-> 0]
<1>1. handler' = [handler EXCEPT ![h] = s] /\ UNCHANGED <<clock, entry, born, past, pings>>
  BY DEF Start, history
<1>2. handler'[h] = s
  BY <1>1, HandlerIs DEF HealthInv
<1>3. HandlerInv(h)'
  BY <1>1, <1>2 DEF HandlerInv, Known
<1>. HIDE DEF s
<1>. QED
  BY <1>1, <1>3, QuietStep

\* So does every request that can arrive: a pong answers a ping that is
\* known.
LEMMA HealthArrive ==
    ASSUME HealthInv, CatalogInv', NEW h \in Handlers, Arrive(h)
    PROVE  HealthInv'
<1>1. ASSUME NEW ping \in pings, NEW l \in Leases,
             Start(h, [op |-> "pong", token |-> ping[1], lease |-> l, epoch |-> ping[2]])
      PROVE  HealthInv'
  <2>1. <<ping[1], ping[2]>> = ping
    BY DEF HealthInv, CatalogInv, TypeOK
  <2>. QED
    BY <1>1, <2>1, HealthStart DEF Asked
<1>2. ASSUME NEW op \in {"register", "drain", "release"}, NEW q \in Providers,
             Start(h, [op |-> op, token |-> q[1], lease |-> q[2]])
      PROVE  HealthInv'
  BY <1>2, HealthStart
<1>3. ASSUME NEW t \in Tokens, Start(h, [op |-> "retire", token |-> t]) PROVE HealthInv'
  BY <1>3, HealthStart
<1>4. ASSUME Start(h, [op |-> "ping"]) PROVE HealthInv'
  BY <1>4, HealthStart
<1>. QED
  BY <1>1, <1>2, <1>3, <1>4 DEF Arrive

\* The passing of time keeps the health invariant.
LEMMA HealthTick ==
    ASSUME HealthInv, CatalogInv', Tick
    PROVE  HealthInv'
<1>1. UNCHANGED <<entry, handler, pings, born, past>> /\ clock' = clock + 1
  BY DEF Tick
<1>2. entry.lastPong \in Nat /\ clock \in Nat
  BY DEF HealthInv, CatalogInv, TypeOK, Entries
<1>3. PongOfThisMembership'
  BY <1>1, <1>2 DEF HealthInv, PongOfThisMembership
<1>4. \A h \in Handlers : HandlerInv(h)'
  BY <1>1 DEF HealthInv, HandlerInv, Known
<1>. QED
  BY <1>1, <1>3, <1>4 DEF HealthInv, PastInv, Known

\* Reading the clock does: the membership the handler saw began before it.
LEMMA HealthReadClock ==
    ASSUME HealthInv, CatalogInv', NEW h \in Handlers, ReadClock(h)
    PROVE  HealthInv'
<1> DEFINE s == [handler[h] EXCEPT !.pc = "swap", !.now = clock]
<1>1. handler' = [handler EXCEPT ![h] = s] /\ UNCHANGED <<clock, entry, born, past, pings>>
  BY DEF ReadClock, history, HealthInv, CatalogInv, TypeOK, HandlerStates
<1>2. s.raw = handler[h].raw /\ s.req = handler[h].req /\ s.now = clock
  BY DEF HealthInv, CatalogInv, TypeOK, HandlerStates
<1>3. handler'[h] = s
  BY <1>1, HandlerIs DEF HealthInv
<1>. HIDE DEF s
<1>4. HandlerInv(h) /\ born <= clock
  BY DEF HealthInv, CatalogInv
<1>5. HandlerInv(h)'
  BY <1>1, <1>2, <1>3, <1>4 DEF HandlerInv, Known
<1>. QED
  BY <1>1, <1>5, QuietStep

\* An answer does: the ping it publishes is of the membership, or of an
\* earlier one.
LEMMA HealthReply ==
    ASSUME HealthInv, CatalogInv', NEW h \in Handlers, Reply(h)
    PROVE  HealthInv'
<1>1. /\ handler' = [handler EXCEPT ![h] = Idle] /\ UNCHANGED <<clock, entry, born, past>>
      /\ sendPing(Decision(h, clock), clock) /\ ~Decision(h, clock).swap /\ Working(h) /\ clock \in Nat
  BY DEF Reply, history, Working, HealthInv, CatalogInv, TypeOK
<1>2. handler'[h] = Idle
  BY <1>1, HandlerIs DEF HealthInv
<1>3. HandlerInv(h)'
  BY <1>2 DEF HandlerInv, Idle, AbsentEntry
<1>4. Decision(h, clock).next = handler[h].raw
  BY <1>1, CatalogAssumption, DecisionDecides DEF HealthInv, Decides
<1>5. \/ pings' = pings
      \/ pings' = pings \cup {Identity(handler[h].raw)} /\ handler[h].raw.state # "absent"
  BY <1>1, <1>4, CatalogAssumption, PingType DEF HealthInv
<1>6. \A x \in pings' : x \in pings \/ Known(x)
  BY <1>5 DEF HealthInv, HandlerInv
<1>7. pings \subseteq pings'
  BY <1>5
<1>. QED
  BY <1>1, <1>3, <1>6, <1>7, QuietStep

\* A swap that fails does.
LEMMA HealthConflict ==
    ASSUME HealthInv, CatalogInv', NEW h \in Handlers, Conflict(h)
    PROVE  HealthInv'
<1> DEFINE s == [pc |-> "read", req |-> handler[h].req, raw |-> AbsentEntry, now |-> 0]
<1>1. handler' = [handler EXCEPT ![h] = s] /\ UNCHANGED <<clock, entry, born, past, pings>>
  BY DEF Conflict, history, HealthInv, CatalogInv, TypeOK
<1>2. handler'[h] = s
  BY <1>1, HandlerIs DEF HealthInv
<1>3. HandlerInv(h)'
  BY <1>1, <1>2 DEF HealthInv, HandlerInv, AbsentEntry
<1>. HIDE DEF s
<1>. QED
  BY <1>1, <1>3, QuietStep

\* Reading the record again does.
LEMMA HealthReread ==
    ASSUME HealthInv, CatalogInv', NEW h \in Handlers, Reread(h)
    PROVE  HealthInv'
<1> DEFINE s == [handler[h] EXCEPT !.pc = "clock", !.raw = entry]
<1>1. handler' = [handler EXCEPT ![h] = s] /\ UNCHANGED <<clock, entry, born, past, pings>>
  BY DEF Reread, history, HealthInv, CatalogInv, TypeOK, HandlerStates
<1>2. s.raw = entry /\ s.req = handler[h].req /\ s.pc = "clock"
  BY DEF HealthInv, CatalogInv, TypeOK, HandlerStates
<1>3. handler'[h] = s
  BY <1>1, HandlerIs DEF HealthInv
<1>. HIDE DEF s
<1>4. HandlerInv(h)'
  BY <1>1, <1>2, <1>3 DEF HealthInv, HandlerInv, Known
<1>. QED
  BY <1>1, <1>4, QuietStep

\* A swap that commits does: the record it was computed from is the current
\* one.
LEMMA HealthCommit ==
    ASSUME HealthInv, CatalogInv', NEW h \in Handlers, Commit(h)
    PROVE  HealthInv'
<1> DEFINE now == handler[h].now
           req == handler[h].req
           d == Decision(h, now)
           again == [handler[h] EXCEPT !.raw = entry']
           s == PongAfterPrune(handler[h], d)
           moved == Identity(entry) # Identity(entry')
<1>1. /\ now \in Nat /\ now <= clock /\ clock \in Nat /\ Working(h) /\ entry = handler[h].raw
      /\ entry' = d.next /\ Remember(entry') /\ clock' = clock /\ sendPing(d, now)
      /\ handler[h].pc = "swap" /\ handler' = [handler EXCEPT ![h] = s]
  BY DEF HealthInv, CatalogInv, TypeOK, HandlerStates, Commit, Working
<1>2. Decides(d, entry, req, now)
  BY <1>1, CatalogAssumption, DecisionDecides DEF HealthInv
<1>3. entry' = entry \/ CatalogStep(entry, entry', req, now)
  BY <1>1, <1>2 DEF Decides
<1>4. born' = (IF moved THEN clock ELSE born) /\ (~moved => past' = past)
  BY <1>1 DEF Remember
<1>5. /\ PastInv'
      /\ moved => ~Known(Identity(entry'))
      /\ \A x \in Tokens \X Nat : Known(x) => Known(x)'
  <2>1. CASE entry' = entry
    BY <2>1, <1>4 DEF HealthInv, PastInv, Known
  <2>2. CASE CatalogStep(entry, entry', req, now)
    BY <2>2, <1>1, StepIdentity DEF HealthInv
  <2>. QED
    BY <1>3, <2>1, <2>2
<1>6. pings' = pings \/ pings' = pings \cup {Identity(entry')}
  BY <1>1, CatalogAssumption, PingType DEF HealthInv
<1>7. pings \subseteq pings' /\ pings \subseteq Tokens \X Nat /\ \A x \in pings : Known(x)
  BY <1>6 DEF HealthInv, CatalogInv, TypeOK
<1>8. \A x \in pings' : Known(x)'
  BY <1>5, <1>6, <1>7 DEF Known
<1>9. ASSUME NEW g \in Handlers, g # h PROVE HandlerInv(g)'
  <2>1. handler'[g] = handler[g] /\ HandlerInv(g) /\ Decoded(handler[g].raw)
    BY <1>1, <1>9 DEF HealthInv, CatalogInv, TypeOK
  <2>2. handler[g].raw.state # "absent" => Identity(handler[g].raw) \in Tokens \X Nat
    BY <2>1 DEF Decoded, Entries, Identity
  <2>3. handler[g].raw.state # "absent" => Known(Identity(handler[g].raw))'
    BY <2>1, <2>2, <1>5 DEF HandlerInv
  <2>4. handler[g].req.op = "pong" => Known(Asked(handler[g].req)) /\ Asked(handler[g].req) \in pings'
    BY <2>1, <1>7 DEF HandlerInv
  <2>. QED
    BY <2>1, <2>3, <2>4, <1>4, <1>5 DEF HandlerInv
<1>10. HandlerInv(h) /\ (req.op = "pong" => Known(Asked(req)) /\ Asked(req) \in pings')
  BY <1>7 DEF HealthInv, HandlerInv
<1>11. HandlerInv(h)'
  <2>1. again.raw = entry' /\ again.req = req /\ again.now = now
    BY DEF HealthInv, CatalogInv, TypeOK, HandlerStates
  <2>2. Idle.raw.state = "absent" /\ Idle.req.op = "none" /\ Idle.pc = "idle"
    BY DEF Idle, AbsentEntry
  <2>3. handler'[h] = s
    BY <1>1, HandlerIs DEF HealthInv
  <2>6. s = again \/ s = Idle
    BY <1>1 DEF PongAfterPrune
  <2>. HIDE DEF again, s
  <2>4. CASE s = again
    BY <2>1, <2>3, <2>4, <1>1, <1>4, <1>5, <1>10 DEF HandlerInv, Known
  <2>5. CASE s = Idle
    BY <2>2, <2>3, <2>5 DEF HandlerInv
  <2>. QED
    BY <2>4, <2>5, <2>6
<1>12. PongOfThisMembership'
  <2>0. PongOfThisMembership /\ entry \in Entries
    BY DEF HealthInv, CatalogInv, TypeOK
  <2>1. CASE ~moved /\ entry'.lastPong = entry.lastPong
    BY <2>0, <2>1, <1>1, <1>4, <1>7 DEF PongOfThisMembership
  <2>2. CASE entry'.lastPong = 0
    BY <2>2 DEF PongOfThisMembership
  <2>3. CASE Ponged(entry, entry', req, now) /\ entry'.lastPong = now
    <3>1. ~moved /\ Identity(entry) = Asked(req) /\ req.op = "pong"
      BY <2>3 DEF Ponged, Same, Identity, Asked
    <3>2. born <= now
      BY <3>1, <1>1, <1>10 DEF HandlerInv
    <3>. QED
      BY <2>3, <3>1, <3>2, <1>1, <1>4, <1>10 DEF PongOfThisMembership
  <2>4. \/ ~moved /\ entry'.lastPong = entry.lastPong
        \/ entry'.lastPong = 0
        \/ Ponged(entry, entry', req, now) /\ entry'.lastPong = now
    BY <1>3 DEF CatalogStep, Kept, Ponged, RetiredBy, AdmittedBy, Same, Identity
  <2>. QED
    BY <2>1, <2>2, <2>3, <2>4
<1>. QED
  BY <1>5, <1>8, <1>9, <1>11, <1>12 DEF HealthInv

\* Every step keeps the health invariant.
LEMMA HealthNext ==
    ASSUME HealthInv, CatalogInv', [Next]_vars
    PROVE  HealthInv'
<1>1. CASE Tick
  BY <1>1, HealthTick
<1>2. CASE \E h \in Handlers : Arrive(h)
  BY <1>2, HealthArrive
<1>3. CASE \E h \in Handlers : ReadClock(h)
  BY <1>3, HealthReadClock
<1>4. CASE \E h \in Handlers : Reply(h)
  BY <1>4, HealthReply
<1>5. CASE \E h \in Handlers : Commit(h)
  BY <1>5, HealthCommit
<1>7. CASE \E h \in Handlers : Conflict(h)
  BY <1>7, HealthConflict
<1>8. CASE \E h \in Handlers : Reread(h)
  BY <1>8, HealthReread
<1>9. CASE UNCHANGED vars
  <2>1. UNCHANGED <<clock, entry, handler, pings, born, past>>
    BY <1>9 DEF vars, history
  <2>. QED
    BY <2>1 DEF HealthInv, PastInv, Known, HandlerInv, PongOfThisMembership
<1>. QED
  BY <1>1, <1>2, <1>3, <1>4, <1>5, <1>7, <1>8, <1>9 DEF Next

\* The health invariant holds initially.
LEMMA HealthInit ==
    ASSUME Init
    PROVE  HealthInv
<1>1. CatalogInv
  BY CatalogAssumption, CatalogInit
<1>2. \A h \in Handlers : handler[h] = Idle
  BY DEF Init
<1>3. Idle.raw.state = "absent" /\ Idle.req.op = "none"
  BY DEF Idle, AbsentEntry
<1>4. entry.lastPong = 0 /\ past = {} /\ pings = {}
  BY DEF Init, AbsentEntry
<1>. QED
  BY <1>1, <1>2, <1>3, <1>4 DEF HealthInv, PastInv, HandlerInv, PongOfThisMembership

\* The health invariant holds of every behaviour: identities are used once,
\* pings name memberships that exist or existed, and pongs belong to this one.
THEOREM HealthInvariant == Spec => []HealthInv
<1>1. Init => HealthInv
  BY HealthInit
<1>2. HealthInv /\ CatalogInv' /\ [Next]_vars => HealthInv'
  BY HealthNext
<1>. QED
  BY <1>1, <1>2, CatalogInvariant, PTL DEF Spec

\* The pair of token and epoch that a ping carries is never used for a second
\* membership.
THEOREM IdentityUnique == Spec => []IdentityNeverReused
<1>1. HealthInv => IdentityNeverReused
  BY PastGivesNever DEF HealthInv
<1>. QED
  BY <1>1, HealthInvariant, PTL

\* A recorded pong answered a ping of the current membership and was recorded
\* after that membership began, however pongs are delayed or duplicated.
THEOREM PongOfMembership == Spec => []PongOfThisMembership
<1>1. HealthInv => PongOfThisMembership
  BY DEF HealthInv
<1>. QED
  BY <1>1, HealthInvariant, PTL

-----------------------------------------------------------------------------
(* The abstract authority.  A handler decides with a clock that may be     *)
(* older than the instant c at which its write commits.  Leases it pruned  *)
(* had lapsed by its clock and so have lapsed at c: the prune is not seen. *)
(* A deadline it wrote may have passed at c: then its lease never gets the *)
(* authority.  What is left of a write is one abstract action.             *)

\* What the abstract authority sees of a record.
ViewExpires(e, c) == [l \in Leases |-> IF e.expires[l] > c THEN e.expires[l] ELSE 0]
ViewDraining(e, c) == {l \in e.draining : e.expires[l] > c}

Quiet(e, n, c) ==
    Same(e, n) /\ ViewExpires(n, c) = ViewExpires(e, c) /\ ViewDraining(n, c) = ViewDraining(e, c)

Sets(e, n, c, l, x) ==
    Same(e, n) /\ ViewExpires(n, c) = [ViewExpires(e, c) EXCEPT ![l] = IF x > c THEN x ELSE 0]

Renews(e, n, c) ==
    e.state = "active" /\ \E l \in Leases, x \in 1..(c + LeaseDuration) :
        Sets(e, n, c, l, x) /\ ViewDraining(n, c) = ViewDraining(e, c) \ {l}

Drains(e, n, c) ==
    e.token # NoToken /\ \E l \in Leases, x \in 1..(c + LeaseDuration + DrainDuration) :
        /\ Sets(e, n, c, l, x) /\ x >= ViewExpires(e, c)[l]
        /\ ViewDraining(n, c) = IF x > c THEN ViewDraining(e, c) \cup {l} ELSE ViewDraining(e, c)

Withdraws(e, n, c) ==
    \E l \in Leases : Sets(e, n, c, l, 0) /\ ViewDraining(n, c) = ViewDraining(e, c) \ {l}

Retires(e, n, c) ==
    RetiredBy(e, n) /\ ViewExpires(n, c) = ViewExpires(e, c) /\ ViewDraining(n, c) = ViewDraining(e, c)

Admits(e, n, c) ==
    \E t \in Tokens, l \in Leases, x \in 1..(c + LeaseDuration) :
        /\ t # e.token /\ t \notin e.retired /\ \A m \in Leases : ~(e.expires[m] > c)
        /\ n.token = t /\ n.state = "active"
        /\ n.retired = IF e.token = NoToken THEN e.retired ELSE e.retired \cup {e.token}
        /\ ViewExpires(n, c) = [m \in Leases |-> IF m = l THEN (IF x > c THEN x ELSE 0) ELSE 0]
        /\ ViewDraining(n, c) = {}

\* No deadline is further away than a registration and a drain can put it.
Bounded(e, c) == \A l \in Leases : e.expires[l] <= c + LeaseDuration + DrainDuration

Effect(e, n, c) ==
    /\ Bounded(n, c)
    /\ \/ Quiet(e, n, c) \/ Renews(e, n, c) \/ Drains(e, n, c) \/ Withdraws(e, n, c)
       \/ Retires(e, n, c) \/ Admits(e, n, c)

\* Fencing is not seen.
LEMMA FenceUnseen ==
    ASSUME NEW e \in Entries
    PROVE  /\ FenceHealth(e).expires = e.expires /\ FenceHealth(e).draining = e.draining
           /\ Same(e, FenceHealth(e)) /\ FenceHealth(e) \in Entries
<1>1. FenceHealth(e).expires = e.expires /\ FenceHealth(e).draining = e.draining
  BY DEF FenceHealth, Entries
<1> QED BY <1>1, Fenced

\* What an effect says of the leases depends on nothing else of the record.
LEMMA FencedEffect ==
    ASSUME NEW e \in Entries, NEW n \in Entries, NEW c, Effect(e, n, c)
    PROVE  Effect(e, FenceHealth(n), c) \/ Retires(e, n, c)
<1>1. /\ FenceHealth(n).expires = n.expires /\ FenceHealth(n).draining = n.draining
      /\ Same(n, FenceHealth(n))
  BY FenceUnseen
<1>2. ViewExpires(FenceHealth(n), c) = ViewExpires(n, c) /\ ViewDraining(FenceHealth(n), c) = ViewDraining(n, c)
  BY <1>1 DEF ViewExpires, ViewDraining
<1>3. Bounded(FenceHealth(n), c)
  BY <1>1 DEF Effect, Bounded
<1>4. \A l, x : Sets(e, n, c, l, x) => Sets(e, FenceHealth(n), c, l, x)
  BY <1>1, <1>2 DEF Sets, Same
<1>5. CASE Quiet(e, n, c)
  BY <1>1, <1>2, <1>3, <1>5 DEF Effect, Quiet, Same
<1>6. CASE Renews(e, n, c)
  BY <1>2, <1>3, <1>4, <1>6 DEF Effect, Renews
<1>7. CASE Drains(e, n, c)
  BY <1>2, <1>3, <1>4, <1>7 DEF Effect, Drains
<1>8. CASE Withdraws(e, n, c)
  BY <1>2, <1>3, <1>4, <1>8 DEF Effect, Withdraws
<1>9. CASE Admits(e, n, c)
  <2>1. Admits(e, FenceHealth(n), c)
    BY <1>1, <1>2, <1>9 DEF Admits, Same
  <2> QED BY <1>3, <2>1 DEF Effect
<1> QED BY <1>5, <1>6, <1>7, <1>8, <1>9 DEF Effect

\* A prune is not seen by a clock that is no older.
LEMMA PruneUnseen ==
    ASSUME NEW e \in Entries, NEW now \in Nat, NEW c \in Nat, now <= c
    PROVE  LET p == pruneExpiredProviderLeases(e, now) IN
           /\ p \in Entries /\ Same(e, p)
           /\ \A l \in Leases : p.expires[l] = IF e.expires[l] <= now THEN 0 ELSE e.expires[l]
           /\ p.draining = e.draining \ {l \in Leases : e.expires[l] <= now}
           /\ ViewExpires(p, c) = ViewExpires(e, c) /\ ViewDraining(p, c) = ViewDraining(e, c)
           /\ Bounded(e, c) => Bounded(p, c)
<1> DEFINE gone == {l \in Leases : e.expires[l] <= now}
           kept == WithoutLeases(e, gone)
           p == pruneExpiredProviderLeases(e, now)
<1>1. kept \in Entries
  BY Removed
<1>2. p = kept \/ p = FenceHealth(kept)
  BY DEF pruneExpiredProviderLeases
<1>3. p \in Entries /\ Same(e, p)
  BY Pruned DEF Kept
<1>4. kept.draining = e.draining \ gone /\ \A l \in Leases : kept.expires[l] = IF l \in gone THEN 0 ELSE e.expires[l]
  BY DEF WithoutLeases, Entries
<1>5. p.expires = kept.expires /\ p.draining = kept.draining
  BY <1>1, <1>2, FenceUnseen
<1> HIDE DEF p, kept
<1>6. \A l \in Leases : p.expires[l] = IF e.expires[l] <= now THEN 0 ELSE e.expires[l]
  BY <1>4, <1>5
<1>7. p.draining = e.draining \ gone
  BY <1>4, <1>5
<1>8. e.draining \subseteq Leases /\ \A l \in Leases : e.expires[l] \in Nat
  BY DEF Entries
<1>9. ASSUME NEW l \in Leases
      PROVE  /\ (p.expires[l] > c <=> e.expires[l] > c) /\ (e.expires[l] > c => p.expires[l] = e.expires[l])
             /\ e.expires[l] > c => ~(e.expires[l] <= now)
  BY <1>6, <1>8
<1>10. ViewExpires(p, c) = ViewExpires(e, c)
  BY <1>9 DEF ViewExpires
<1>11. ViewDraining(p, c) = ViewDraining(e, c)
  BY <1>7, <1>8, <1>9 DEF ViewDraining
<1>12. ASSUME Bounded(e, c) PROVE Bounded(p, c)
  BY <1>6, <1>8, <1>12, CatalogAssumption DEF Bounded
<1> QED BY <1>3, <1>6, <1>7, <1>10, <1>11, <1>12 DEF p

\* Writing the deadline x of one lease is seen as that deadline, if it has not
\* passed.
LEMMA WriteSeen ==
    ASSUME NEW e \in Entries, NEW p \in Entries, NEW n \in Entries, NEW c \in Nat,
           NEW l \in Leases, NEW x \in Nat, Same(e, p), Same(p, n),
           ViewExpires(p, c) = ViewExpires(e, c), Bounded(p, c),
           x <= c + LeaseDuration + DrainDuration,
           \A m \in Leases : n.expires[m] = IF m = l THEN x ELSE p.expires[m]
    PROVE  Sets(e, n, c, l, x) /\ Bounded(n, c)
<1>1. Same(e, n)
  BY DEF Same
<1>2. ViewExpires(n, c) = [ViewExpires(p, c) EXCEPT ![l] = IF x > c THEN x ELSE 0]
  BY DEF ViewExpires
<1>3. Bounded(n, c)
  BY DEF Bounded
<1> QED BY <1>1, <1>2, <1>3 DEF Sets

\* An effect on the leases alone is an effect with the health fenced too.
LEMMA EitherHealth ==
    ASSUME NEW e \in Entries, NEW n \in Entries, NEW c, Effect(e, n, c), Same(e, n)
    PROVE  Effect(e, FenceHealth(n), c)
<1>1. ~Retires(e, n, c)
  BY DEF Retires, RetiredBy, Same
<1> QED BY <1>1, FencedEffect

\* A prune that is written has no effect.
LEMMA PruneEffect ==
    ASSUME NEW e \in Entries, NEW now \in Nat, NEW c \in Nat, now <= c, Bounded(e, c)
    PROVE  Effect(e, pruneExpiredProviderLeases(e, now), c)
BY PruneUnseen DEF Effect, Quiet

\* A new admission has the effect of one, when no lease has authority.
LEMMA AdmitEffect ==
    ASSUME NEW e, Decoded(e), NEW now \in Nat, NEW c \in Nat, now <= c,
           NEW t \in Tokens, NEW l \in Leases, NEW r \in SUBSET Tokens, t # e.token, t \notin e.retired,
           \A m \in Leases : e.expires[m] <= now,
           r = IF e.token = NoToken THEN e.retired ELSE e.retired \cup {e.token}
    PROVE  Effect(e, newCatalogEntry(t, l, now + LeaseDuration, r), c)
<1>0. LeaseDuration \in Nat \ {0} /\ DrainDuration \in Nat /\ e \in Entries /\ \A m \in Leases : e.expires[m] \in Nat
  BY CatalogAssumption DEF CatalogAssumption, Decoded, Entries
<1>1. PICK x \in Nat : x = now + LeaseDuration
  BY <1>0
<1>2. x \in 1 .. (c + LeaseDuration) /\ x <= c + LeaseDuration + DrainDuration /\ c + LeaseDuration + DrainDuration \in Nat
  BY <1>0, <1>1
<1> DEFINE n == newCatalogEntry(t, l, x, r)
<1>3. /\ n.state = "active" /\ n.token = t /\ n.retired = r /\ n.draining = {}
      /\ n.expires = [m \in Leases |-> IF m = l THEN x ELSE 0]
  BY DEF newCatalogEntry
<1> HIDE DEF n
<1>4. ViewExpires(n, c) = [m \in Leases |-> IF m = l THEN (IF x > c THEN x ELSE 0) ELSE 0]
  BY <1>3 DEF ViewExpires
<1>5. ViewDraining(n, c) = {}
  BY <1>3 DEF ViewDraining
<1>6. Bounded(n, c)
  BY <1>2, <1>3 DEF Bounded
<1>7. \A m \in Leases : ~(e.expires[m] > c)
  BY <1>0
<1>8. Admits(e, n, c)
  BY <1>2, <1>3, <1>4, <1>5, <1>7 DEF Admits
<1> QED BY <1>1, <1>6, <1>8 DEF Effect, n

\* What Register writes is seen as a prune, a renewal or an admission.
LEMMA RegisterEffect ==
    ASSUME NEW e, Decoded(e), NEW now \in Nat, NEW c \in Nat, now <= c, Bounded(e, c),
           NEW req \in ProviderRequests, Register(e, req, now).swap
    PROVE  Effect(e, Register(e, req, now).next, c)
<1> DEFINE p == pruneExpiredProviderLeases(e, now)
           deadline == now + LeaseDuration
           renewed == [p EXCEPT !.expires[req.lease] = deadline,
                                !.draining = @ \ {req.lease}]
           first == newCatalogEntry(req.token, req.lease, deadline, {})
           second == newCatalogEntry(req.token, req.lease, deadline, e.retired \cup {e.token})
<1>0. /\ e \in Entries /\ req.token \in Tokens /\ req.lease \in Leases
      /\ LeaseDuration \in Nat \ {0} /\ DrainDuration \in Nat
  BY CatalogAssumption DEF Decoded, ProviderRequests, CatalogAssumption
<1>1. PICK x \in Nat : x = deadline
  BY <1>0
<1>2. x \in 1 .. (c + LeaseDuration) /\ x <= c + LeaseDuration + DrainDuration
  BY <1>0, <1>1
<1>3. /\ p \in Entries /\ Same(e, p) /\ Bounded(p, c)
      /\ ViewExpires(p, c) = ViewExpires(e, c) /\ ViewDraining(p, c) = ViewDraining(e, c)
  BY <1>0, PruneUnseen
<1>4. Effect(e, p, c)
  BY <1>0, PruneEffect
<1>5. ASSUME e.state # "absent", req.token \notin e.retired, req.token = e.token
      PROVE  Effect(e, renewed, c) /\ Effect(e, FenceHealth(renewed), c)
  <2> HIDE DEF p
  <2>1. /\ renewed \in Entries /\ Same(p, renewed) /\ renewed.draining = p.draining \ {req.lease}
        /\ \A m \in Leases : renewed.expires[m] = IF m = req.lease THEN x ELSE p.expires[m]
    BY <1>0, <1>1, <1>3 DEF Entries, Same
  <2> HIDE DEF renewed
  <2>2. Sets(e, renewed, c, req.lease, x) /\ Bounded(renewed, c)
    <3>1. PICK l \in Leases : l = req.lease
      BY <1>0
    <3>2. \A m \in Leases : renewed.expires[m] = IF m = l THEN x ELSE p.expires[m]
      BY <2>1, <3>1
    <3>3. Sets(e, renewed, c, l, x) /\ Bounded(renewed, c)
      BY <1>0, <1>2, <1>3, <2>1, <3>2, WriteSeen
    <3> QED BY <3>1, <3>3
  <2>3. ViewDraining(renewed, c) = ViewDraining(p, c) \ {req.lease}
    <3>1. p.draining \subseteq Leases
      BY <1>3 DEF Entries
    <3> QED BY <2>1, <3>1 DEF ViewDraining
  <2>4. e.state = "active"
    BY <1>5 DEF Decoded, Entries
  <2>5. Renews(e, renewed, c)
    BY <1>0, <1>2, <1>3, <2>2, <2>3, <2>4 DEF Renews
  <2>6. Effect(e, renewed, c) /\ Same(e, renewed)
    BY <2>2, <2>5 DEF Effect, Sets
  <2> QED BY <1>0, <2>1, <2>6, EitherHealth
<1>6. ASSUME e.state = "absent" PROVE Effect(e, first, c)
  <2>1. e.token = NoToken /\ e.retired = {} /\ \A m \in Leases : e.expires[m] = 0
    BY <1>6 DEF Decoded, AbsentEntry
  <2>2. req.token # e.token
    BY <1>0, <2>1, CatalogAssumption DEF CatalogAssumption
  <2>3. {} \in SUBSET Tokens /\ {} = IF e.token = NoToken THEN e.retired ELSE e.retired \cup {e.token}
    BY <2>1
  <2>4. req.token \notin e.retired /\ \A m \in Leases : e.expires[m] <= now
    BY <2>1
  <2> HIDE DEF first
  <2>5. Effect(e, newCatalogEntry(req.token, req.lease, now + LeaseDuration, {}), c)
    BY <1>0, <2>2, <2>3, <2>4, AdmitEffect
  <2> QED BY <2>5 DEF first
<1>7. ASSUME e.state # "absent", req.token \notin e.retired, req.token # e.token, ProviderLeases(p) = {}
      PROVE  Effect(e, second, c)
  <2>1. e.token \in Tokens /\ e.retired \cup {e.token} \in SUBSET Tokens
    BY <1>0, <1>7 DEF Decoded, Entries
  <2>2. e.token # NoToken
    BY <2>1, CatalogAssumption DEF CatalogAssumption
  <2>3. \A m \in Leases : e.expires[m] <= now
    BY <1>0, <1>7, Pruned
  <2> QED BY <1>0, <1>7, <2>1, <2>2, <2>3, AdmitEffect
<1> HIDE DEF p, deadline, renewed, first, second
<1>8. Register(e, req, now) =
        CASE e.state = "absent" -> Swap(first, "admitted")
          [] e.state # "absent" /\ req.token \in e.retired -> Answer(e, "retired")
          [] e.state # "absent" /\ req.token \notin e.retired /\ req.token = e.token ->
                Swap(IF routable(p, now) = {} THEN FenceHealth(renewed) ELSE renewed, "admitted")
          [] e.state # "absent" /\ req.token \notin e.retired /\ req.token # e.token
             /\ ProviderLeases(p) # {} ->
                IF pruned(e, now) THEN Swap(p, "blocked") ELSE Answer(e, "blocked")
          [] OTHER -> Swap(second, "admitted")
  BY DEF Register, p, deadline, renewed, first, second
<1> QED BY <1>4, <1>5, <1>6, <1>7, <1>8 DEF Swap, Answer

\* What DrainProvider writes is seen as a prune or a drain.
LEMMA DrainEffect ==
    ASSUME NEW e, Decoded(e), NEW now \in Nat, NEW c \in Nat, now <= c, Bounded(e, c),
           NEW req \in ProviderRequests, DrainProvider(e, req, now).swap
    PROVE  Effect(e, DrainProvider(e, req, now).next, c)
<1> DEFINE p == pruneExpiredProviderLeases(e, now)
           deadline == now + DrainDuration
           l == req.lease
           old == e.expires[l]
           drained == [e EXCEPT !.draining = @ \cup {l},
                                !.expires[l] = IF old > deadline THEN old ELSE deadline]
<1>0. /\ e \in Entries /\ req.token \in Tokens /\ l \in Leases /\ old \in Nat
      /\ LeaseDuration \in Nat /\ DrainDuration \in Nat \ {0}
  BY CatalogAssumption DEF Decoded, ProviderRequests, CatalogAssumption, Entries
<1>1. PICK x \in Nat : x = IF old > deadline THEN old ELSE deadline
  BY <1>0
<1>2. old <= c + LeaseDuration + DrainDuration
  BY <1>0 DEF Bounded
<1>3. x \in 1 .. (c + LeaseDuration + DrainDuration) /\ x <= c + LeaseDuration + DrainDuration /\ x >= old
  BY <1>0, <1>1, <1>2
<1>4. Effect(e, p, c)
  BY <1>0, PruneEffect
<1>5. ASSUME req.token = e.token
      PROVE  Effect(e, drained, c) /\ Effect(e, FenceHealth(drained), c)
  <2>1. /\ drained \in Entries /\ Same(e, drained) /\ drained.draining = e.draining \cup {l}
        /\ \A m \in Leases : drained.expires[m] = IF m = l THEN x ELSE e.expires[m]
    BY <1>0, <1>1 DEF Entries, Same
  <2> HIDE DEF drained, l, old, deadline
  <2>2. Sets(e, drained, c, l, x) /\ Bounded(drained, c)
    BY <1>0, <1>3, <2>1, WriteSeen DEF Same
  <2>3. /\ e.draining \subseteq Leases /\ \A m \in Leases : e.expires[m] \in Nat
    BY <1>0 DEF Entries
  <2>4. ViewExpires(e, c)[l] <= x /\ (x > c \/ ~(e.expires[l] > c))
    BY <1>0, <1>3, <2>3 DEF ViewExpires, old
  <2>5. ViewDraining(drained, c) = IF x > c THEN ViewDraining(e, c) \cup {l} ELSE ViewDraining(e, c)
    <3>1. CASE x > c
      BY <1>0, <2>1, <2>3, <3>1 DEF ViewDraining
    <3>2. CASE ~(x > c)
      BY <1>0, <2>1, <2>3, <2>4, <3>2 DEF ViewDraining
    <3> QED BY <3>1, <3>2
  <2>6. e.token # NoToken
    BY <1>0, <1>5, CatalogAssumption DEF CatalogAssumption
  <2>7. x >= ViewExpires(e, c)[l]
    BY <1>0, <1>3, <2>3 DEF ViewExpires, old
  <2>8. Drains(e, drained, c)
    BY <1>0, <1>3, <2>2, <2>5, <2>6, <2>7 DEF Drains
  <2>9. Effect(e, drained, c) /\ Same(e, drained)
    BY <2>2, <2>8 DEF Effect, Sets
  <2> QED BY <1>0, <2>1, <2>9, EitherHealth
<1> HIDE DEF p, deadline, drained, old, l
<1>6. DrainProvider(e, req, now) =
        CASE e.token # req.token \/ old = 0 -> Answer(e, "done")
          [] e.token = req.token /\ old > 0 /\ old <= now -> Swap(p, "done")
          [] OTHER -> Swap(IF routable(e, now) # {} /\ routable(drained, now) = {}
                           THEN FenceHealth(drained) ELSE drained, "done")
  BY DEF DrainProvider, p, deadline, drained, old, l
<1> QED BY <1>4, <1>5, <1>6 DEF Swap, Answer

\* What ReleaseProvider writes is seen as a prune or a withdrawal.
LEMMA ReleaseEffect ==
    ASSUME NEW e, Decoded(e), NEW now \in Nat, NEW c \in Nat, now <= c, Bounded(e, c),
           NEW req \in ProviderRequests, ReleaseProvider(e, req, now).swap
    PROVE  Effect(e, ReleaseProvider(e, req, now).next, c)
<1> DEFINE p == pruneExpiredProviderLeases(e, now)
           left == WithoutLeases(p, {req.lease})
<1>0. /\ e \in Entries /\ req.token \in Tokens /\ req.lease \in Leases
      /\ LeaseDuration \in Nat /\ DrainDuration \in Nat
  BY CatalogAssumption DEF Decoded, ProviderRequests, CatalogAssumption
<1>1. /\ p \in Entries /\ Same(e, p) /\ Bounded(p, c)
      /\ ViewExpires(p, c) = ViewExpires(e, c) /\ ViewDraining(p, c) = ViewDraining(e, c)
  BY <1>0, PruneUnseen
<1>2. Effect(e, p, c)
  BY <1>0, PruneEffect
<1> HIDE DEF p
<1>3. /\ left \in Entries /\ Same(p, left)
      /\ \A m \in Leases : left.expires[m] = IF m = req.lease THEN 0 ELSE p.expires[m]
  BY <1>0, <1>1, Removed DEF Kept
<1>4. left.draining = p.draining \ {req.lease}
  BY <1>1 DEF WithoutLeases, Entries
<1> HIDE DEF left
<1>5. 0 \in Nat /\ 0 <= c + LeaseDuration + DrainDuration
  BY <1>0
<1>6. Sets(e, left, c, req.lease, 0) /\ Bounded(left, c)
  <2>1. PICK l \in Leases : l = req.lease
    BY <1>0
  <2>2. PICK x \in Nat : x = 0
    OBVIOUS
  <2>3. \A m \in Leases : left.expires[m] = IF m = l THEN x ELSE p.expires[m]
    BY <1>3, <2>1, <2>2
  <2>4. Sets(e, left, c, l, x) /\ Bounded(left, c)
    BY <1>0, <1>1, <1>3, <1>5, <2>2, <2>3, WriteSeen
  <2> QED BY <2>1, <2>2, <2>4
<1>7. ViewDraining(left, c) = ViewDraining(p, c) \ {req.lease}
  <2>1. p.draining \subseteq Leases
    BY <1>1 DEF Entries
  <2> QED BY <1>3, <1>4, <2>1 DEF ViewDraining
<1>8. Withdraws(e, left, c)
  BY <1>0, <1>1, <1>6, <1>7 DEF Withdraws
<1>9. Effect(e, left, c) /\ Same(e, left)
  BY <1>6, <1>8 DEF Effect, Sets
<1>10. Effect(e, FenceHealth(left), c)
  BY <1>0, <1>3, <1>9, EitherHealth
<1>11. ReleaseProvider(e, req, now) =
        CASE e.token # req.token -> Answer(e, "done")
          [] e.token = req.token /\ p.expires[req.lease] = 0 ->
                IF pruned(e, now) THEN Swap(p, "done") ELSE Answer(e, "done")
          [] OTHER -> Swap(IF routable(p, now) # {} /\ routable(left, now) = {}
                           THEN FenceHealth(left) ELSE left, "done")
  BY DEF ReleaseProvider, p, left
<1> QED BY <1>2, <1>9, <1>10, <1>11 DEF Swap, Answer

\* What Retire writes is seen as a retirement.
LEMMA RetireEffect ==
    ASSUME NEW e, Decoded(e), NEW now \in Nat, NEW c \in Nat, Bounded(e, c), NEW req,
           Retire(e, req, now).swap
    PROVE  Effect(e, Retire(e, req, now).next, c)
<1> DEFINE n == [e EXCEPT !.state = "retired", !.retired = @ \cup {e.token}]
<1>1. e \in Entries /\ e.state \in {"absent", "active", "retired"}
  BY DEF Decoded, Entries
<1>2. e.state = "active" => RetiredBy(e, n) /\ n.expires = e.expires /\ n.draining = e.draining
  BY <1>1 DEF Entries, RetiredBy
<1> HIDE DEF n
<1>3. e.state = "active" => Effect(e, n, c)
  BY <1>2 DEF Effect, Retires, ViewExpires, ViewDraining, Bounded
<1>4. Retire(e, req, now) =
        CASE e.state = "absent" -> Answer(e, "done")
          [] e.state # "absent" /\ e.token # req.token -> Answer(e, "conflict")
          [] e.state = "retired" /\ e.token = req.token -> Answer(e, "done")
          [] OTHER -> Swap(n, "done")
  BY DEF Retire, n
<1> QED BY <1>1, <1>3, <1>4 DEF Swap, Answer

\* healthEntry has no effect on the authority.
LEMMA HealthEffect ==
    ASSUME NEW e, Decoded(e), NEW now \in Nat, NEW c \in Nat, now <= c, Bounded(e, c), NEW req,
           healthEntry(e, req, now).swap
    PROVE  Effect(e, healthEntry(e, req, now).next, c)
<1>1. Effect(e, pruneExpiredProviderLeases(e, now), c)
  BY PruneEffect DEF Decoded
<1> QED BY <1>1 DEF healthEntry, Swap, Answer

\* Neither has RecordPong.
LEMMA PongEffect ==
    ASSUME NEW e, Decoded(e), NEW now \in Nat, NEW c \in Nat, now <= c, Bounded(e, c), NEW req,
           RecordPong(e, req, now).swap
    PROVE  Effect(e, RecordPong(e, req, now).next, c)
<1> DEFINE p == pruneExpiredProviderLeases(e, now)
           n == [e EXCEPT !.lastPong = IF now > @ THEN now ELSE @]
           counts == /\ e.state = "active" /\ e.token = req.token /\ e.epoch = req.epoch
                     /\ e.expires[req.lease] > now /\ req.lease \notin e.draining
<1>0. e \in Entries
  BY DEF Decoded
<1>1. Effect(e, p, c)
  BY <1>0, PruneEffect
<1>2. Same(e, n) /\ n.expires = e.expires /\ n.draining = e.draining
  BY <1>0 DEF Entries, Same
<1> HIDE DEF p, n, counts
<1>3. Effect(e, n, c)
  BY <1>2 DEF Effect, Quiet, ViewExpires, ViewDraining, Bounded
<1>4. RecordPong(e, req, now) =
        CASE e.state # "absent" /\ pruned(e, now) ->
                Swap(p, IF ProviderLeases(p) = {} THEN "done" ELSE "again")
          [] e.state # "absent" /\ ~pruned(e, now) /\ counts -> Swap(n, "done")
          [] OTHER -> Answer(e, "done")
  BY DEF RecordPong, p, n, counts
<1> QED BY <1>1, <1>3, <1>4 DEF Swap, Answer

\* Whatever a handler writes is seen as one abstract action, or not at all.
LEMMA OutcomeEffect ==
    ASSUME NEW e, Decoded(e), NEW now \in Nat, NEW c \in Nat, now <= c, Bounded(e, c),
           NEW req \in Requests, req.op # "none"
    PROVE  Outcome(e, req, now).swap => Effect(e, Outcome(e, req, now).next, c)
<1>1. CASE req.op = "register"
  BY <1>1, RequestKinds, RegisterEffect DEF Outcome
<1>2. CASE req.op = "drain"
  BY <1>2, RequestKinds, DrainEffect DEF Outcome
<1>3. CASE req.op = "release"
  BY <1>3, RequestKinds, ReleaseEffect DEF Outcome
<1>4. CASE req.op = "retire"
  BY <1>4, RetireEffect DEF Outcome
<1>5. CASE req.op = "ping"
  BY <1>5, HealthEffect DEF Outcome
<1>6. CASE req.op = "pong"
  BY <1>6, PongEffect DEF Outcome
<1> QED BY <1>1, <1>2, <1>3, <1>4, <1>5, <1>6, RequestKinds

\* No deadline in the record is further away than one registration and one
\* drain put it, however often a lease is renewed and drained.
DeadlinesBounded == Bounded(entry, clock)

\* A step leaves the record, lets time pass, or is seen as one abstract action.
LEMMA StepEffect ==
    ASSUME CatalogInv, DeadlinesBounded, [Next]_vars
    PROVE  \/ clock' = clock /\ entry' = entry
           \/ clock < MaxTime /\ clock' = clock + 1 /\ entry' = entry
           \/ clock' = clock /\ Effect(entry, entry', clock)
<1>1. ASSUME NEW h \in Handlers, Commit(h)
      PROVE  clock' = clock /\ (entry' = entry \/ Effect(entry, entry', clock))
  <2>1. PICK now \in Nat : now = handler[h].now /\ now <= clock
    BY DEF CatalogInv, TypeOK, HandlerStates
  <2>2. PICK req \in Requests : req = handler[h].req /\ req.op # "none"
    BY <1>1 DEF CatalogInv, TypeOK, HandlerStates, Commit, Working
  <2>3. /\ clock \in Nat /\ Decoded(entry) /\ entry = handler[h].raw /\ clock' = clock
        /\ entry' = Decision(h, now).next /\ Working(h)
    BY <1>1, <2>1 DEF CatalogInv, TypeOK, Commit, Working
  <2>4. Decision(h, now) = Outcome(entry, req, now)
    BY <2>2, <2>3 DEF Decision
  <2>5. Decision(h, now).swap \/ entry' = entry
    BY <2>3, <2>1, CatalogAssumption, DecisionDecides DEF Decides
  <2>6. Outcome(entry, req, now).swap => Effect(entry, Outcome(entry, req, now).next, clock)
    BY <2>1, <2>2, <2>3, OutcomeEffect DEF DeadlinesBounded
  <2> QED BY <2>3, <2>4, <2>5, <2>6
<1>2. CASE Tick
  BY <1>2 DEF Tick
<1>3. ASSUME NEW h \in Handlers, Arrive(h) PROVE UNCHANGED <<clock, entry>>
  BY <1>3 DEF Arrive, Start
<1>4. ASSUME NEW h \in Handlers, ReadClock(h) \/ Reply(h) \/ Conflict(h) \/ Reread(h)
      PROVE  UNCHANGED <<clock, entry>>
  BY <1>4 DEF ReadClock, Reply, Conflict, Reread
<1>5. CASE UNCHANGED vars
  BY <1>5 DEF vars
<1> QED BY <1>1, <1>2, <1>3, <1>4, <1>5 DEF Next

\* Every step keeps the deadlines bounded.
LEMMA DeadlinesNext ==
    ASSUME CatalogInv, DeadlinesBounded, [Next]_vars
    PROVE  DeadlinesBounded'
<1>1. CASE clock' = clock /\ entry' = entry
  BY <1>1 DEF DeadlinesBounded
<1>2. CASE clock' = clock + 1 /\ entry' = entry
  <2>1. clock \in Nat /\ entry \in Entries /\ LeaseDuration \in Nat /\ DrainDuration \in Nat
    BY CatalogAssumption DEF CatalogInv, TypeOK, CatalogAssumption
  <2>2. \A l \in Leases : entry.expires[l] \in Nat
    BY <2>1 DEF Entries
  <2> QED BY <1>2, <2>1, <2>2 DEF DeadlinesBounded, Bounded
<1>3. CASE clock' = clock /\ Effect(entry, entry', clock)
  BY <1>3 DEF DeadlinesBounded, Effect
<1> QED BY <1>1, <1>2, <1>3, StepEffect

\* The actions of the abstract authority, said of what it sees.
LEMMA AuthorityActions ==
    /\ Authority!Tick <=>
          /\ clock < MaxTime /\ clock' = clock + 1
          /\ ViewExpires(entry', clock') = [l \in Leases |->
                IF ViewExpires(entry, clock)[l] > clock' THEN ViewExpires(entry, clock)[l] ELSE 0]
          /\ ViewDraining(entry', clock') =
                {l \in ViewDraining(entry, clock) : ViewExpires(entry', clock')[l] > 0}
          /\ entry'.token = entry.token /\ entry'.retired = entry.retired
          /\ (entry'.state = "active") = (entry.state = "active")
    /\ Authority!Retire <=>
          /\ entry.state = "active" /\ (entry'.state = "active") = FALSE
          /\ entry'.retired = entry.retired \cup {entry.token} /\ entry'.token = entry.token
          /\ clock' = clock
          /\ ViewExpires(entry', clock') = ViewExpires(entry, clock)
          /\ ViewDraining(entry', clock') = ViewDraining(entry, clock)
    /\ \A t, l, x : Authority!Admit(t, l, x) <=>
          /\ t # entry.token /\ t \notin entry.retired
          /\ {m \in Leases : ViewExpires(entry, clock)[m] > 0} = {}
          /\ entry'.token = t /\ (entry'.state = "active") = TRUE
          /\ entry'.retired = IF entry.token = NoToken THEN entry.retired ELSE entry.retired \cup {entry.token}
          /\ ViewExpires(entry', clock') =
                [m \in Leases |-> IF m = l THEN (IF x > clock THEN x ELSE 0) ELSE 0]
          /\ ViewDraining(entry', clock') = {} /\ clock' = clock
    /\ \A l, x : Authority!Renew(l, x) <=>
          /\ entry.state = "active"
          /\ ViewExpires(entry', clock') = [ViewExpires(entry, clock) EXCEPT ![l] = IF x > clock THEN x ELSE 0]
          /\ ViewDraining(entry', clock') = ViewDraining(entry, clock) \ {l}
          /\ clock' = clock /\ entry'.token = entry.token /\ entry'.retired = entry.retired
          /\ (entry'.state = "active") = (entry.state = "active")
    /\ \A l, x : Authority!Drain(l, x) <=>
          /\ entry.token # NoToken /\ x >= ViewExpires(entry, clock)[l]
          /\ ViewExpires(entry', clock') = [ViewExpires(entry, clock) EXCEPT ![l] = IF x > clock THEN x ELSE 0]
          /\ ViewDraining(entry', clock') = IF (IF x > clock THEN x ELSE 0) > 0
                THEN ViewDraining(entry, clock) \cup {l} ELSE ViewDraining(entry, clock)
          /\ clock' = clock /\ entry'.token = entry.token /\ entry'.retired = entry.retired
          /\ (entry'.state = "active") = (entry.state = "active")
    /\ \A l : Authority!Withdraw(l) <=>
          /\ ViewExpires(entry', clock') = [ViewExpires(entry, clock) EXCEPT ![l] = 0]
          /\ ViewDraining(entry', clock') = ViewDraining(entry, clock) \ {l}
          /\ clock' = clock /\ entry'.token = entry.token /\ entry'.retired = entry.retired
          /\ (entry'.state = "active") = (entry.state = "active")
BY DEF Authority!Tick, Authority!Retire, Authority!Admit, Authority!Renew, Authority!Drain,
       Authority!Withdraw, Authority!Live, Authority!AtClock, ViewExpires, ViewDraining

\* What the abstract authority sees.
View ==
    <<clock, entry.token, entry.state = "active", entry.retired,
      ViewExpires(entry, clock), ViewDraining(entry, clock)>>

\* Every step is a step of the abstract authority, or one it does not see.
LEMMA StepRefines ==
    ASSUME CatalogInv, DeadlinesBounded, [Next]_vars
    PROVE  Authority!AuthorityNext \/ UNCHANGED View
<1>0. /\ clock \in Nat /\ entry \in Entries /\ entry.draining \subseteq Leases
      /\ \A l \in Leases : entry.expires[l] \in Nat
  BY DEF CatalogInv, TypeOK, Entries
<1>t. CASE clock' = clock /\ entry' = entry
  BY <1>t DEF View
<1>u. CASE clock < MaxTime /\ clock' = clock + 1 /\ entry' = entry
  <2>1. PICK c \in Nat : c = clock
    BY <1>0
  <2>2. PICK d \in Nat : d = clock' /\ d = c + 1
    BY <1>u, <2>1
  <2>3. PICK e \in Entries : e = entry /\ e = entry'
    BY <1>0, <1>u
  <2>4. e.draining \subseteq Leases /\ \A l \in Leases : e.expires[l] \in Nat
    BY <1>0, <2>3
  <2>5. ViewExpires(e, d) = [l \in Leases |-> IF ViewExpires(e, c)[l] > d THEN ViewExpires(e, c)[l] ELSE 0]
    BY <2>2, <2>4 DEF ViewExpires
  <2>6. ViewDraining(e, d) = {l \in ViewDraining(e, c) : ViewExpires(e, d)[l] > 0}
    BY <2>2, <2>4 DEF ViewExpires, ViewDraining
  <2>7. Authority!Tick
    BY <1>u, <2>1, <2>2, <2>3, <2>5, <2>6, AuthorityActions
  <2> QED BY <2>7 DEF Authority!AuthorityNext
<1>e. ASSUME clock' = clock, Effect(entry, entry', clock) PROVE Authority!AuthorityNext \/ UNCHANGED View
  <2>1. CASE Quiet(entry, entry', clock)
    BY <1>e, <2>1 DEF Quiet, Same, View
  <2>2. CASE Renews(entry, entry', clock)
    <3>1. PICK l \in Leases, x \in 1 .. (clock + LeaseDuration) :
             /\ entry.state = "active" /\ Sets(entry, entry', clock, l, x)
             /\ ViewDraining(entry', clock) = ViewDraining(entry, clock) \ {l}
      BY <2>2 DEF Renews
    <3>2. Authority!Renew(l, x)
      BY <1>e, <3>1, AuthorityActions DEF Sets, Same
    <3> QED BY <3>2 DEF Authority!AuthorityNext, Authority!LeaseDeadlines
  <2>3. CASE Drains(entry, entry', clock)
    <3>1. PICK l \in Leases, x \in 1 .. (clock + LeaseDuration + DrainDuration) :
             /\ entry.token # NoToken /\ Sets(entry, entry', clock, l, x) /\ x >= ViewExpires(entry, clock)[l]
             /\ ViewDraining(entry', clock) = IF x > clock THEN ViewDraining(entry, clock) \cup {l}
                                              ELSE ViewDraining(entry, clock)
      BY <2>3 DEF Drains
    <3>2. (IF x > clock THEN x ELSE 0) > 0 <=> x > clock
      BY <1>0, <3>1
    <3>3. Authority!Drain(l, x)
      BY <1>e, <3>1, <3>2, AuthorityActions DEF Sets, Same
    <3> QED BY <3>3 DEF Authority!AuthorityNext, Authority!DrainDeadlines
  <2>4. CASE Withdraws(entry, entry', clock)
    <3>1. PICK l \in Leases : /\ Sets(entry, entry', clock, l, 0)
                              /\ ViewDraining(entry', clock) = ViewDraining(entry, clock) \ {l}
      BY <2>4 DEF Withdraws
    <3>2. (IF 0 > clock THEN 0 ELSE 0) = 0
      OBVIOUS
    <3>3. Authority!Withdraw(l)
      BY <1>e, <3>1, <3>2, AuthorityActions DEF Sets, Same
    <3> QED BY <3>3 DEF Authority!AuthorityNext
  <2>5. CASE Retires(entry, entry', clock)
    <3>1. Authority!Retire
      BY <1>e, <2>5, AuthorityActions DEF Retires, RetiredBy
    <3> QED BY <3>1 DEF Authority!AuthorityNext
  <2>6. CASE Admits(entry, entry', clock)
    <3>1. PICK t \in Tokens, l \in Leases, x \in 1 .. (clock + LeaseDuration) :
             /\ t # entry.token /\ t \notin entry.retired /\ \A m \in Leases : ~(entry.expires[m] > clock)
             /\ entry'.token = t /\ entry'.state = "active"
             /\ entry'.retired = IF entry.token = NoToken THEN entry.retired ELSE entry.retired \cup {entry.token}
             /\ ViewExpires(entry', clock) = [m \in Leases |-> IF m = l THEN (IF x > clock THEN x ELSE 0) ELSE 0]
             /\ ViewDraining(entry', clock) = {}
      BY <2>6 DEF Admits
    <3>2. {m \in Leases : ViewExpires(entry, clock)[m] > 0} = {}
      BY <3>1 DEF ViewExpires
    <3>3. Authority!Admit(t, l, x)
      BY <1>e, <3>1, <3>2, AuthorityActions
    <3> QED BY <3>3 DEF Authority!AuthorityNext, Authority!LeaseDeadlines
  <2> QED BY <1>e, <2>1, <2>2, <2>3, <2>4, <2>5, <2>6 DEF Effect
<1> QED BY <1>t, <1>u, <1>e, StepEffect

\* The catalog implements the abstract admission authority, for any number of
\* replicas that read the record, read the clock and swap in separate steps:
\* every write is seen as one admission, renewal, drain, withdrawal or
\* retirement at the instant it commits, or not at all.
THEOREM ImplementsAuthorityAlways == Spec => ImplementsAuthority
<1>1. Init => Authority!AuthorityInit /\ DeadlinesBounded
  <2> SUFFICES ASSUME Init PROVE Authority!AuthorityInit /\ DeadlinesBounded
    OBVIOUS
  <2>1. /\ clock = 1 /\ entry.token = NoToken /\ entry.state = "absent" /\ entry.retired = {}
        /\ entry.draining = {} /\ \A l \in Leases : entry.expires[l] = 0
    BY DEF Init, AbsentEntry
  <2>2. DeadlinesBounded
    BY <2>1, CatalogAssumption DEF DeadlinesBounded, Bounded, CatalogAssumption
  <2>3. Authority!AuthorityInit
    BY <2>1 DEF Authority!AuthorityInit
  <2> QED BY <2>2, <2>3
<1>2. CatalogInv /\ DeadlinesBounded /\ [Next]_vars => DeadlinesBounded'
  BY DeadlinesNext
<1>3. CatalogInv /\ DeadlinesBounded /\ [Next]_vars => [Authority!AuthorityNext]_View
  BY StepRefines
<1>4. Spec => Authority!AuthorityInit /\ [][Authority!AuthorityNext]_View
  BY <1>1, <1>2, <1>3, CatalogInvariant, PTL DEF Spec
<1> QED BY <1>4, PTL DEF ImplementsAuthority, Authority!AuthoritySpec, Authority!authorityVars, View,
                         ViewExpires, ViewDraining
=============================================================================
