--------------------------- MODULE ToolsetCatalog ---------------------------
(***************************************************************************)
(* The registry's toolset catalog and the provider health kept in it       *)
(* (registry/catalog.go, registry/health_tracker.go), for one toolset.     *)
(*                                                                         *)
(* The whole admission is one value of a replicated map.  Every operation  *)
(* is a loop run by some registry replica: read the value, read the Redis  *)
(* clock, compute the next value, and compare-and-swap it.  Handlers of    *)
(* any replica interleave between those steps, so a swap may be computed   *)
(* from a clock that is older than the instant at which it commits.        *)
(*                                                                         *)
(* A registration token stands for the hash of a toolset's schema,         *)
(* admission revision and wire protocol; a lease stands for a provider id  *)
(* and incarnation id.  An absent lease is one with deadline 0, which the  *)
(* catalog's decoder refuses as a deadline.                                *)
(***************************************************************************)
EXTENDS Integers

CONSTANTS
    Tokens, Leases, NoToken,
    LeaseDuration,       \* lifetime granted by a registration
    DrainDuration,       \* settlement time asked for by a drain
    StalenessThreshold,  \* age at which a recorded pong no longer counts
    Handlers,            \* concurrent operations, over all replicas
    Operations,          \* the operations that requests are made for
    Providers,           \* the <<token, lease>> pairs that make requests
    MaxTime,             \* bound of the clock
    MaxEpoch             \* registrations and pongs start only below this health epoch

ASSUME CatalogAssumption ==
    /\ NoToken \notin Tokens
    /\ Providers \subseteq Tokens \X Leases
    /\ LeaseDuration \in Nat \ {0}
    /\ DrainDuration \in Nat \ {0}
    /\ StalenessThreshold \in Nat
    /\ MaxTime \in Nat
    /\ MaxEpoch \in Nat

VARIABLES
    clock,    \* Redis TIME
    entry,    \* the catalog record
    handler,  \* what every handler is doing
    pings,    \* ping identities published so far; any may be answered, late or twice
    born,     \* history: when the current token and health epoch were written
    past,     \* history: the token and health epoch pairs that were replaced
    gap       \* history: since the last pong, no lease was routable for a while

history == <<born, past, gap>>
vars == <<clock, entry, handler, pings, history>>

-----------------------------------------------------------------------------
(* The record. *)

Entries == [state : {"absent", "active", "retired"},
            token : Tokens \cup {NoToken},
            expires : [Leases -> Nat],
            draining : SUBSET Leases,
            retired : SUBSET Tokens,
            epoch : Nat,
            lastPong : Nat]

AbsentEntry == [state |-> "absent", token |-> NoToken,
                expires |-> [l \in Leases |-> 0], draining |-> {},
                retired |-> {}, epoch |-> 0, lastPong |-> 0]

\* Mutant: a replacement forgets the tombstones.
newCatalogEntry_NoTombstones(token, lease, deadline, retiredTokens) ==
    [state |-> "active", token |-> token,
     expires |-> [l \in Leases |-> IF l = lease THEN deadline ELSE 0],
     draining |-> {}, retired |-> {}, epoch |-> 1, lastPong |-> 0]

newCatalogEntry(token, lease, deadline, retiredTokens) ==
    [state |-> "active", token |-> token,
     expires |-> [l \in Leases |-> IF l = lease THEN deadline ELSE 0],
     draining |-> {}, retired |-> retiredTokens, epoch |-> 1, lastPong |-> 0]

ProviderLeases(e) == {l \in Leases : e.expires[l] > 0}

nonDraining(e) == ProviderLeases(e) \ e.draining

routable(e, now) == {l \in nonDraining(e) : e.expires[l] > now}

Healthy(e, now) ==
    /\ routable(e, now) # {}
    /\ e.lastPong # 0
    /\ now - e.lastPong <= StalenessThreshold

\* Starting a new membership epoch: pings of the old one no longer count.
FenceHealth(e) == [e EXCEPT !.epoch = @ + 1, !.lastPong = 0]

WithoutLeases(e, gone) ==
    [e EXCEPT !.expires = [l \in Leases |-> IF l \in gone THEN 0 ELSE e.expires[l]],
              !.draining = @ \ gone]

\* Mutant: a lease is removed one instant early.
pruneExpiredProviderLeases_Early(e, now) ==
    LET kept == WithoutLeases(e, {l \in Leases : e.expires[l] <= now + 1})
    IN  IF nonDraining(e) # {} /\ routable(kept, now) = {}
        THEN FenceHealth(kept)
        ELSE kept

pruneExpiredProviderLeases(e, now) ==
    LET kept == WithoutLeases(e, {l \in Leases : e.expires[l] <= now})
    IN  IF nonDraining(e) # {} /\ routable(kept, now) = {}
        THEN FenceHealth(kept)
        ELSE kept

\* The records the decoder accepts: an active token has no tombstone, a
\* retired one has, and the epoch is not zero.
parseCatalogEntry(e) ==
    /\ e.state = "active" => e.token \in Tokens \ e.retired
    /\ e.state = "retired" => e.token \in e.retired
    /\ e.epoch > 0

pruned(e, now) == \E l \in ProviderLeases(e) : e.expires[l] <= now

-----------------------------------------------------------------------------
(* The operations: what a handler does with the value and the clock it     *)
(* read.  swap says whether it tries to write, and then next is written;   *)
(* reply is what it answers once it has written, or at once.               *)

Swap(e, reply) == [swap |-> TRUE, next |-> e, reply |-> reply]
Answer(e, reply) == [swap |-> FALSE, next |-> e, reply |-> reply]

Register(e, req, now) ==
    LET p == pruneExpiredProviderLeases(e, now)
        deadline == now + LeaseDuration
        renewed == [p EXCEPT !.expires[req.lease] = deadline,
                             !.draining = @ \ {req.lease}]
    IN  CASE e.state = "absent" ->
                Swap(newCatalogEntry(req.token, req.lease, deadline, {}), "admitted")
          [] e.state # "absent" /\ req.token \in e.retired ->
                Answer(e, "retired")
          [] e.state # "absent" /\ req.token \notin e.retired /\ req.token = e.token ->
                Swap(IF routable(p, now) = {} THEN FenceHealth(renewed) ELSE renewed,
                     "admitted")
          [] e.state # "absent" /\ req.token \notin e.retired /\ req.token # e.token
             /\ ProviderLeases(p) # {} ->
                IF pruned(e, now) THEN Swap(p, "blocked") ELSE Answer(e, "blocked")
          [] OTHER ->
                Swap(newCatalogEntry(req.token, req.lease, deadline, e.retired \cup {e.token}),
                     "admitted")

DrainProvider(e, req, now) ==
    LET deadline == now + DrainDuration
        old == e.expires[req.lease]
        drained == [e EXCEPT !.draining = @ \cup {req.lease},
                             !.expires[req.lease] = IF old > deadline THEN old ELSE deadline]
    IN  CASE e.token # req.token \/ old = 0 -> Answer(e, "done")
          [] e.token = req.token /\ old > 0 /\ old <= now ->
                Swap(pruneExpiredProviderLeases(e, now), "done")
          [] OTHER ->
                Swap(IF routable(e, now) # {} /\ routable(drained, now) = {}
                     THEN FenceHealth(drained) ELSE drained, "done")

ReleaseProvider(e, req, now) ==
    LET p == pruneExpiredProviderLeases(e, now)
        left == WithoutLeases(p, {req.lease})
    IN  CASE e.token # req.token -> Answer(e, "done")
          [] e.token = req.token /\ p.expires[req.lease] = 0 ->
                IF pruned(e, now) THEN Swap(p, "done") ELSE Answer(e, "done")
          [] OTHER ->
                Swap(IF routable(p, now) # {} /\ routable(left, now) = {}
                     THEN FenceHealth(left) ELSE left, "done")

\* Mutants: an absent admission is retired; no tombstone is left; the leases
\* of a retired admission are dropped.
Retire_Absent(e, req, now) ==
    IF e.state = "active" /\ e.token # req.token THEN Answer(e, "conflict")
    ELSE Swap([e EXCEPT !.state = "retired", !.retired = @ \cup {e.token}], "done")
Retire_NoTombstone(e, req, now) ==
    IF e.state # "active" \/ e.token # req.token THEN Answer(e, "done")
    ELSE Swap([e EXCEPT !.state = "retired"], "done")
Retire_DropsLeases(e, req, now) ==
    IF e.state # "active" \/ e.token # req.token THEN Answer(e, "done")
    ELSE Swap([WithoutLeases(e, Leases) EXCEPT !.state = "retired", !.retired = @ \cup {e.token}], "done")

Retire(e, req, now) ==
    CASE e.state = "absent" -> Answer(e, "done")
      [] e.state # "absent" /\ e.token # req.token -> Answer(e, "conflict")
      [] e.state = "retired" /\ e.token = req.token -> Answer(e, "done")
      [] OTHER -> Swap([e EXCEPT !.state = "retired", !.retired = @ \cup {e.token}], "done")

healthEntry(e, req, now) ==
    CASE e.state # "active" -> Answer(e, "not_found")
      [] e.state = "active" /\ pruned(e, now) ->
            Swap(pruneExpiredProviderLeases(e, now), "health")
      [] OTHER -> Answer(e, "health")

\* Mutant: a pong of an earlier health epoch counts.
RecordPong_AnyEpoch(e, req, now) ==
    LET p == pruneExpiredProviderLeases(e, now)
        mine == e.expires[req.lease]
        counts == /\ e.state = "active" /\ e.token = req.token
                  /\ mine > now /\ req.lease \notin e.draining
    IN  CASE e.state # "absent" /\ pruned(e, now) ->
                Swap(p, IF ProviderLeases(p) = {} THEN "done" ELSE "again")
          [] e.state # "absent" /\ ~pruned(e, now) /\ counts ->
                Swap([e EXCEPT !.lastPong = IF now > @ THEN now ELSE @], "done")
          [] OTHER -> Answer(e, "done")

\* A pong that finds lapsed leases writes them out first and goes on with
\* the pruned record and the same clock ("again").
RecordPong(e, req, now) ==
    LET p == pruneExpiredProviderLeases(e, now)
        mine == e.expires[req.lease]
        counts == /\ e.state = "active" /\ e.token = req.token /\ e.epoch = req.epoch
                  /\ mine > now /\ req.lease \notin e.draining
    IN  CASE e.state # "absent" /\ pruned(e, now) ->
                Swap(p, IF ProviderLeases(p) = {} THEN "done" ELSE "again")
          [] e.state # "absent" /\ ~pruned(e, now) /\ counts ->
                Swap([e EXCEPT !.lastPong = IF now > @ THEN now ELSE @], "done")
          [] OTHER -> Answer(e, "done")

Outcome(e, req, now) ==
    CASE req.op = "register" -> Register(e, req, now)
      [] req.op = "drain"    -> DrainProvider(e, req, now)
      [] req.op = "release"  -> ReleaseProvider(e, req, now)
      [] req.op = "retire"   -> Retire(e, req, now)
      [] req.op = "ping"     -> healthEntry(e, req, now)
      [] OTHER               -> RecordPong(e, req, now)

Requests ==
    [op : {"register", "drain", "release"}, token : Tokens, lease : Leases]
        \cup [op : {"retire"}, token : Tokens]
        \cup [op : {"ping", "none"}]
        \cup [op : {"pong"}, token : Tokens, lease : Leases, epoch : Nat]

-----------------------------------------------------------------------------
(* The handlers. *)

Identity(e) == <<e.token, e.epoch>>

Idle == [pc |-> "idle", req |-> [op |-> "none"], raw |-> AbsentEntry, now |-> 0]

Init ==
    /\ clock = 1
    /\ entry = AbsentEntry
    /\ handler = [h \in Handlers |-> Idle]
    /\ pings = {}
    /\ born = 1
    /\ past = {}
    /\ gap = FALSE

Tick ==
    /\ clock < MaxTime
    /\ clock' = clock + 1
    /\ gap' = (gap \/ routable(entry, clock') = {})
    /\ UNCHANGED <<entry, handler, pings, born, past>>

\* A request arrives and the handler reads the record (exactRaw).
Start(h, req) ==
    /\ handler[h].pc = "idle"
    /\ req.op \in Operations
    /\ req.op \in {"register", "pong"} => entry.epoch < MaxEpoch
    /\ handler' = [handler EXCEPT ![h] = [pc |-> "clock", req |-> req, raw |-> entry, now |-> 0]]
    /\ UNCHANGED <<clock, entry, pings, history>>

\* The handler reads the Redis clock, after the record, and decides.
Decision(h, now) == Outcome(handler[h].raw, handler[h].req, now)

\* A decision to write is a swap that is still to be tried.
ReadClock(h) ==
    /\ handler[h].pc = "clock"
    /\ Decision(h, clock).swap
    /\ handler' = [handler EXCEPT ![h].pc = "swap", ![h].now = clock]
    /\ UNCHANGED <<clock, entry, pings, history>>

\* The scheduler publishes a ping for the identity it was answered; the
\* publication of a ping checks nothing.
sendPing(decision, now) ==
    pings' = IF decision.reply = "health" /\ routable(decision.next, now) # {}
             THEN pings \cup {Identity(decision.next)} ELSE pings

\* Any other decision is an answer, given from what was read.
Reply(h) ==
    /\ handler[h].pc = "clock"
    /\ ~Decision(h, clock).swap
    /\ handler' = [handler EXCEPT ![h] = Idle]
    /\ sendPing(Decision(h, clock), clock)
    /\ UNCHANGED <<clock, entry, history>>

Remember(e) ==
    LET moved == Identity(entry) # Identity(e)
    IN  /\ born' = IF moved THEN clock ELSE born
        /\ past' = IF moved /\ entry.state # "absent" THEN past \cup {Identity(entry)} ELSE past
        /\ gap' = IF e.lastPong # entry.lastPong /\ e.lastPong # 0
                  THEN FALSE ELSE gap \/ routable(e, clock) = {}

\* RecordPong goes on with the pruned record and the clock it had read.
PongAfterPrune(state, decision) ==
    IF decision.reply = "again" /\ Outcome(decision.next, state.req, state.now).swap
    THEN [state EXCEPT !.raw = decision.next] ELSE Idle

\* The record is still the one that was read: the swap commits.
Commit(h) ==
    LET decision == Decision(h, handler[h].now)
    IN  /\ handler[h].pc = "swap"
        /\ entry = handler[h].raw
        /\ entry' = decision.next
        /\ handler' = [handler EXCEPT ![h] = PongAfterPrune(@, decision)]
        /\ sendPing(decision, handler[h].now)
        /\ Remember(entry')
        /\ UNCHANGED clock

\* The record changed since it was read: the loop starts over.
Conflict(h) ==
    /\ handler[h].pc = "swap"
    /\ entry # handler[h].raw
    /\ handler' = [handler EXCEPT ![h] = [pc |-> "read", req |-> @.req, raw |-> AbsentEntry, now |-> 0]]
    /\ UNCHANGED <<clock, entry, pings, history>>

Reread(h) ==
    /\ handler[h].pc = "read"
    /\ handler' = [handler EXCEPT ![h].pc = "clock", ![h].raw = entry]
    /\ UNCHANGED <<clock, entry, pings, history>>

Arrive(h) ==
    \/ \E op \in {"register", "drain", "release"}, p \in Providers :
           Start(h, [op |-> op, token |-> p[1], lease |-> p[2]])
    \/ \E t \in Tokens : Start(h, [op |-> "retire", token |-> t])
    \/ Start(h, [op |-> "ping"])
    \* A pong answers a ping that was published, however long ago.
    \/ \E ping \in pings, l \in Leases :
           Start(h, [op |-> "pong", token |-> ping[1], lease |-> l, epoch |-> ping[2]])

Next ==
    \/ Tick
    \/ \E h \in Handlers :
           Arrive(h) \/ ReadClock(h) \/ Reply(h) \/ Commit(h) \/ Conflict(h) \/ Reread(h)

Spec == Init /\ [][Next]_vars

-----------------------------------------------------------------------------
(* Properties. *)

HandlerStates == [pc : {"idle", "read", "clock", "swap"}, req : Requests, raw : Entries, now : Nat]

\* Every variable has its type.
TypeOK ==
    /\ clock \in Nat
    /\ entry \in Entries
    /\ handler \in [Handlers -> HandlerStates]
    /\ pings \subseteq Tokens \X Nat
    /\ born \in Nat
    /\ past \subseteq Tokens \X Nat
    /\ gap \in BOOLEAN

\* parseCatalogEntry accepts every record some handler can write.  A record it
\* refuses would wedge every later operation, on every replica.
DecoderAccepts == entry.state # "absent" => parseCatalogEntry(entry)

\* A recorded pong answered a ping of the membership that is current, and it
\* was recorded after that membership began: a late, duplicated or raced
\* pong of an earlier token or epoch never makes the toolset healthy.
PongOfThisMembership ==
    entry.lastPong # 0 =>
        /\ Identity(entry) \in pings
        /\ born <= entry.lastPong
        /\ entry.lastPong <= clock

\* The pair of token and health epoch that pings carry is never used for a
\* second membership, although a replacement restarts the epoch at one.
IdentityNeverReused == Identity(entry) \notin past

\* A different admission replaces the current one only when no lease of the
\* current one has authority at the instant of the write, whatever clock the
\* replacing handler had read.
ReplacementIsFenced ==
    [][entry.state # "absent" /\ entry'.token # entry.token
        => \A l \in Leases : entry.expires[l] <= clock]_vars

\* An admission that was retired or replaced stays tombstoned.
RetirementIsPermanent ==
    [][/\ entry.retired \subseteq entry'.retired
       /\ entry.state # "absent" /\ entry'.token # entry.token => entry.token \in entry'.retired
       /\ entry.state = "retired" /\ entry'.token = entry.token => entry'.state = "retired"]_vars

\* "fences pongs from the prior non-empty membership epoch when the last lease
\* expires": once all leases have lapsed, a pong recorded before counts no more.
GapIsFenced == Healthy(entry, clock) => ~gap

\* The catalog implements the abstract admission authority.
Authority == INSTANCE AdmissionAuthority WITH
    current  <- entry.token,
    open     <- entry.state = "active",
    retired  <- entry.retired,
    expires  <- [l \in Leases |-> IF entry.expires[l] > clock THEN entry.expires[l] ELSE 0],
    draining <- {l \in entry.draining : entry.expires[l] > clock}

ImplementsAuthority == Authority!AuthoritySpec
=============================================================================
