------------------------------ MODULE Transfer ------------------------------
(***************************************************************************)
(* InMemoryTransport in crates/inferfabric-transfer/src/lib.rs: the hand-  *)
(* over of a request's state from prefill to decode under a lease of the   *)
(* decode pool.  Callers keep every lease they ever got and may use it     *)
(* again at any time: messages are repeated, late or out of order.         *)
(* given, accepted and landed are not in the code: the leases callers      *)
(* hold, the payload first accepted under each lease, and the leases whose *)
(* transfer was reported complete.                                         *)
(***************************************************************************)
EXTENDS ResourcePool

CONSTANTS
    Requests, Epochs, TokenCounts,  \* arguments of reserve and ensure
    Keys, Key,                      \* artifact keys, and this transport's
    States,                         \* states a manifest may carry: consumed and a payload
    MaxLeases                   \* bound on leases ever issued

ASSUME TransferAssumption ==
    /\ Key \in Keys /\ TokenCounts \subseteq Nat /\ MaxLeases \in 0 .. Generations - 1
    /\ \A s \in States : s.consumed \in Nat

VARIABLES pool, handovers, given, accepted, landed

transferVars == <<pool, handovers, given, accepted, landed>>

NoManifest == [lease |-> "none"]

TransferInit ==
    pool = NewPool /\ handovers = << >> /\ given = {} /\ accepted = << >> /\ landed = {}

SetStatus(request, status) == handovers' = [handovers EXCEPT ![request].status = status]

Reserve(request, epoch, tokens) ==
    LET lease == NewLease(pool, request, epoch, tokens)
    IN  /\ pool.generation < MaxLeases
        /\ ~Owns(pool, request) /\ HasRoom(pool, tokens)
        /\ pool' = PoolReserve(pool, lease)
        /\ handovers' = [r \in DOMAIN handovers \cup {request} |->
                          IF r = request
                          THEN [lease |-> lease, status |-> "Reserved", manifest |-> NoManifest]
                          ELSE handovers[r]]
        /\ given' = given \cup {lease}
        /\ UNCHANGED <<accepted, landed>>

\* entry: the lease is current in the pool and in the table.
Current(lease) ==
    /\ Check(pool, lease)
    /\ lease.request \in DOMAIN handovers
    /\ handovers[lease.request].lease.epoch = lease.epoch
    /\ handovers[lease.request].lease.generation = lease.generation

WellFormedManifest(m) ==
    m.model_key = Key /\ m.state.consumed <= Cardinality(m.lease.pages) * PageTokens

\* Mutant of Accepts: a later transfer replaces the payload until it is committed.
AcceptsAgain(m) ==
    handovers[m.lease.request].status \in {"Reserved", "InFlight"}

Accepts(m) ==
    /\ handovers[m.lease.request].status = "Reserved"
    /\ m.lease = handovers[m.lease.request].lease

\* transfer; a repeated manifest is accepted without effect.
Transfer(m) ==
    /\ WellFormedManifest(m) /\ Current(m.lease) /\ Accepts(m)
    /\ handovers' = [handovers EXCEPT ![m.lease.request].manifest = m,
                                  ![m.lease.request].status = "InFlight"]
    /\ accepted' = IF m.lease.generation \in DOMAIN accepted THEN accepted
                   ELSE [g \in DOMAIN accepted \cup {m.lease.generation} |->
                            IF g = m.lease.generation THEN m ELSE accepted[g]]
    /\ UNCHANGED <<pool, given, landed>>

\* complete; later states are left alone.
Complete(lease) ==
    /\ Current(lease) /\ handovers[lease.request].status = "InFlight"
    /\ SetStatus(lease.request, "Complete")
    /\ landed' = landed \cup {lease.generation}
    /\ UNCHANGED <<pool, given, accepted>>

Committable(status) == status \in {"Complete", "Committed", "Acknowledged"}

\* commit returns the payload every time it is called.
Commit(lease) ==
    LET e == handovers[lease.request]
    IN  /\ Current(lease) /\ Committable(e.status)
        /\ SetStatus(lease.request, IF e.status = "Acknowledged" THEN e.status ELSE "Committed")
        /\ UNCHANGED <<pool, given, accepted, landed>>

Acknowledge(lease) ==
    /\ Current(lease) /\ handovers[lease.request].status \in {"Committed", "Acknowledged"}
    /\ SetStatus(lease.request, "Acknowledged")
    /\ UNCHANGED <<pool, given, accepted, landed>>

\* finish, and abort, which is the same.
Finish(lease) ==
    /\ Check(pool, lease)
    /\ handovers' = [r \in DOMAIN handovers \ {lease.request} |-> handovers[r]]
    /\ pool' = Retire(pool, lease)
    /\ UNCHANGED <<given, accepted, landed>>

\* ensure on the transport's pool: decode growth.
Ensure(lease, tokens) ==
    /\ Check(pool, lease) /\ CanGrow(pool, lease, tokens)
    /\ pool' = Grown(pool, lease, tokens)
    /\ given' = given \cup {pool'.active[lease.request]}
    /\ UNCHANGED <<handovers, accepted, landed>>

CompletionFence == pool' = Fence(pool) /\ UNCHANGED <<handovers, given, accepted, landed>>

TransferNext ==
    \/ \E r \in Requests, e \in Epochs, n \in TokenCounts : Reserve(r, e, n)
    \/ \E l \in given, k \in Keys, s \in States :
          Transfer([lease |-> l, model_key |-> k, state |-> s])
    \/ \E l \in given : Complete(l) \/ Commit(l) \/ Acknowledge(l) \/ Finish(l)
    \/ \E l \in given, n \in TokenCounts : Ensure(l, n)
    \/ CompletionFence

TransferSpec == TransferInit /\ [][TransferNext]_transferVars

----------------------------------------------------------------------------
(* Properties.                                                             *)

\* Every page and slot has one owner, retired leases keep theirs until a fence, and
\* the table names exactly the requests that hold an active lease, under that lease.
LeasesExact ==
    /\ Conserved(pool)
    /\ DOMAIN handovers = DOMAIN pool.active
    /\ \A r \in DOMAIN handovers :
          /\ handovers[r].lease.generation = pool.active[r].generation
          /\ handovers[r].lease.pages \subseteq pool.active[r].pages

\* Whoever may commit gets the one payload that was first accepted under that very
\* lease, once its own transfer completed, and the lease has pages for it.
CommitsOwnPayload ==
    \A l \in given : Current(l) /\ Committable(handovers[l.request].status) =>
        LET m == handovers[l.request].manifest
        IN  /\ l.generation \in landed /\ l.generation \in DOMAIN accepted
            /\ m = accepted[l.generation]
            /\ m.state.consumed <= Cardinality(pool.active[l.request].pages) * PageTokens

\* "Duplicate manifests/ACKs are idempotent; late completions with stale epochs
\* cannot activate reused slots": whatever is repeated, late or out of order, pages
\* and slots are conserved and a commit returns what its own lease was given.
HandoversExact == LeasesExact /\ CommitsOwnPayload
=============================================================================
