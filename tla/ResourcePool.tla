---------------------------- MODULE ResourcePool ----------------------------
(***************************************************************************)
(* ResourcePool and the lease of crates/inferfabric-transfer/src/lib.rs:   *)
(* the pages and slots of one side of the prefill/decode split.  A pool is *)
(* a value; each operation maps a pool to the next one.  The pages of a    *)
(* lease are a set, since only their number and identity matter here, and  *)
(* so is the list of retired leases, which is only ever drained whole.     *)
(***************************************************************************)
EXTENDS Naturals, FiniteSets

CONSTANTS
    NumPages, NumSlots,  \* pages and slots of a pool
    PageTokens,          \* tokens in a page
    Generations          \* the generation counter wraps here, at 2^64 in the code

ASSUME ResourceAssumption ==
    /\ NumPages \in Nat \ {0} /\ NumSlots \in Nat \ {0}
    /\ PageTokens \in Nat \ {0} /\ Generations \in Nat \ {0}

PageIds == 0 .. NumPages - 1
SlotIds == 0 .. NumSlots - 1

NewPool ==
    [free_pages |-> PageIds, free_slots |-> SlotIds, active |-> << >>, retired |-> {},
     generation |-> 0]

PagesFor(tokens) == (tokens + PageTokens - 1) \div PageTokens

\* The lowest count members of a set of numbers: BTreeSet hands out in order.
Lowest(set, count) ==
    CHOOSE low \in SUBSET set :
        Cardinality(low) = count /\ \A a \in low, b \in set \ low : a < b

Owns(pool, request) ==
    request \in DOMAIN pool.active \/ \E l \in pool.retired : l.request = request

HasRoom(pool, tokens) ==
    PagesFor(tokens) <= Cardinality(pool.free_pages) /\ pool.free_slots # {}

\* The lease reserve returns when it succeeds.
NewLease(pool, request, epoch, tokens) ==
    [request |-> request, epoch |-> epoch, generation |-> (pool.generation + 1) % Generations,
     slot |-> CHOOSE s \in pool.free_slots : \A o \in pool.free_slots : s <= o,
     pages |-> Lowest(pool.free_pages, PagesFor(tokens))]

\* reserve, when the request owns nothing and there is room.
PoolReserve(pool, lease) ==
    [pool EXCEPT !.free_pages = @ \ lease.pages, !.free_slots = @ \ {lease.slot},
                 !.generation = lease.generation,
                 !.active = [r \in DOMAIN @ \cup {lease.request} |->
                                IF r = lease.request THEN lease ELSE @[r]]]

\* check: the lease is the request's current one.
Check(pool, lease) ==
    /\ lease.request \in DOMAIN pool.active
    /\ LET current == pool.active[lease.request]
       IN  /\ current.epoch = lease.epoch /\ current.generation = lease.generation
           /\ current.slot = lease.slot

\* Pages ensure has to add; none when the lease is long enough.
Missing(pool, lease, tokens) ==
    LET owned == Cardinality(pool.active[lease.request].pages)
    IN  IF PagesFor(tokens) > owned THEN PagesFor(tokens) - owned ELSE 0

CanGrow(pool, lease, tokens) == Missing(pool, lease, tokens) <= Cardinality(pool.free_pages)

\* ensure, for a current lease that can grow.
Grown(pool, lease, tokens) ==
    LET more == Lowest(pool.free_pages, Missing(pool, lease, tokens))
    IN  [pool EXCEPT !.free_pages = @ \ more, !.active[lease.request].pages = @ \cup more]

\* Mutant of Retire: the lease the caller holds is retired, not the current one.
RetireGiven(pool, lease) ==
    [pool EXCEPT !.active = [r \in DOMAIN @ \ {lease.request} |-> @[r]], !.retired = @ \cup {lease}]

\* retire, for a current lease.
Retire(pool, lease) ==
    [pool EXCEPT !.active = [r \in DOMAIN @ \ {lease.request} |-> @[r]],
                 !.retired = @ \cup {pool.active[lease.request]}]

\* completion_fence: only here do pages and slots become free again.
Fence(pool) ==
    [pool EXCEPT !.free_pages = @ \cup UNION {l.pages : l \in pool.retired},
                 !.free_slots = @ \cup {l.slot : l \in pool.retired},
                 !.retired = {}]

Leases(pool) == pool.retired \cup {pool.active[r] : r \in DOMAIN pool.active}

\* Every page and slot is free or belongs to exactly one lease, active or retired.
Conserved(pool) ==
    /\ pool.free_pages \cup UNION {l.pages : l \in Leases(pool)} = PageIds
    /\ pool.free_slots \cup {l.slot : l \in Leases(pool)} = SlotIds
    /\ \A l \in Leases(pool) :
          /\ l.pages \cap pool.free_pages = {} /\ l.slot \notin pool.free_slots
          /\ \A m \in Leases(pool) \ {l} : l.pages \cap m.pages = {} /\ l.slot # m.slot
=============================================================================
