------------------------- MODULE AdmissionAuthority -------------------------
(***************************************************************************)
(* What the toolset catalog promises to the rest of the registry about one *)
(* toolset: which admission (registration token) is current, which tokens  *)
(* can never be current again, and which provider leases carry authority   *)
(* at this instant of Redis time.                                          *)
(*                                                                         *)
(* This is the abstract specification.  ToolsetCatalog, where replicas     *)
(* read the record, read the Redis clock and compare-and-swap in separate  *)
(* steps, is shown to implement it; RoutedCall, whose Redis scripts        *)
(* read the catalog record and the clock atomically, is built on it.       *)
(* Lapsed leases are not visible: a lease loses authority when the clock   *)
(* reaches its deadline, whether or not somebody has pruned it.            *)
(***************************************************************************)
EXTENDS Naturals

CONSTANTS
    Tokens,         \* registration tokens (one per admission identity)
    Leases,         \* provider lease keys (provider id, incarnation id)
    NoToken,        \* no admission was ever recorded
    LeaseDuration,  \* a registration's lease lifetime
    DrainDuration,  \* settlement time a drain asks for
    MaxTime         \* bound of the clock

ASSUME AuthorityAssumption ==
    /\ NoToken \notin Tokens
    /\ LeaseDuration \in Nat \ {0}
    /\ DrainDuration \in Nat \ {0}
    /\ MaxTime \in Nat

VARIABLES
    clock,      \* Redis TIME
    current,    \* the token of the recorded admission, or NoToken
    open,       \* the admission is active: neither absent nor retired
    retired,    \* tokens that are tombstoned
    expires,    \* deadline of every lease with authority, 0 for the others
    draining    \* leases with authority that may no longer be routed to

authorityVars == <<clock, current, open, retired, expires, draining>>

Live == {l \in Leases : expires[l] > 0}

\* A lease record loses its authority at its deadline.
AtClock(x, now) == IF x > now THEN x ELSE 0

AuthorityTypeOK ==
    /\ clock \in Nat
    /\ current \in Tokens \cup {NoToken}
    /\ open \in BOOLEAN
    /\ retired \subseteq Tokens
    /\ expires \in [Leases -> Nat]
    /\ draining \subseteq Leases

AuthorityInit ==
    /\ clock = 1
    /\ current = NoToken
    /\ open = FALSE
    /\ retired = {}
    /\ expires = [l \in Leases |-> 0]
    /\ draining = {}

\* Time passes and leases whose deadline is reached lose their authority.
Tick ==
    /\ clock < MaxTime
    /\ clock' = clock + 1
    /\ expires' = [l \in Leases |-> AtClock(expires[l], clock')]
    /\ draining' = {l \in draining : expires'[l] > 0}
    /\ UNCHANGED <<current, open, retired>>

\* A first admission, or a replacement.  A replacement tombstones the token
\* it replaces and needs every lease of that token to have lost authority.
Admit(t, l, x) ==
    /\ t # current
    /\ t \notin retired
    /\ Live = {}
    /\ current' = t
    /\ open' = TRUE
    /\ retired' = IF current = NoToken THEN retired ELSE retired \cup {current}
    /\ expires' = [m \in Leases |-> IF m = l THEN AtClock(x, clock) ELSE 0]
    /\ draining' = {}
    /\ UNCHANGED clock

\* The current admission is registered again for one lease; the lease is
\* routable again, whatever it was before.
Renew(l, x) ==
    /\ open
    /\ expires' = [expires EXCEPT ![l] = AtClock(x, clock)]
    /\ draining' = draining \ {l}
    /\ UNCHANGED <<clock, current, open, retired>>

\* One lease stops being routable; it keeps, or extends, its authority.
Drain(l, x) ==
    /\ current # NoToken
    /\ x >= expires[l]
    /\ expires' = [expires EXCEPT ![l] = AtClock(x, clock)]
    /\ draining' = IF AtClock(x, clock) > 0 THEN draining \cup {l} ELSE draining
    /\ UNCHANGED <<clock, current, open, retired>>

\* One lease is given up.
Withdraw(l) ==
    /\ expires' = [expires EXCEPT ![l] = 0]
    /\ draining' = draining \ {l}
    /\ UNCHANGED <<clock, current, open, retired>>

\* The current admission is retired; its leases keep their authority.
Retire ==
    /\ open
    /\ open' = FALSE
    /\ retired' = retired \cup {current}
    /\ UNCHANGED <<clock, current, expires, draining>>

\* Deadlines a registration, or a drain, of this instant can be given.  The
\* clock that was read may be older than the instant of the write.
LeaseDeadlines == 1..(clock + LeaseDuration)
DrainDeadlines == 1..(clock + LeaseDuration + DrainDuration)

AuthorityNext ==
    \/ Tick
    \/ \E t \in Tokens, l \in Leases, x \in LeaseDeadlines : Admit(t, l, x)
    \/ \E l \in Leases, x \in LeaseDeadlines : Renew(l, x)
    \/ \E l \in Leases, x \in DrainDeadlines : Drain(l, x)
    \/ \E l \in Leases : Withdraw(l)
    \/ Retire

AuthoritySpec == AuthorityInit /\ [][AuthorityNext]_authorityVars
=============================================================================
