----------------------------- MODULE StatePool -----------------------------
(***************************************************************************)
(* Host ownership of preallocated device state: StatePool in               *)
(* crates/inferfabric-runtime/src/state_pool.rs.                            *)
(*                                                                         *)
(* A pool is one (component, rank) pair with Capacity units, each a page   *)
(* or a slot.  A lease owns units of every pool; readers pin a lease with  *)
(* a borrow, rank work pins it with a ticket until every rank completed.   *)
(* Leases, borrows and tickets draw their identities from one serial.      *)
(*                                                                         *)
(* Every call that returns an error leaves the state alone, so an error is *)
(* a disabled action.  Handles of another pool, and calls with another     *)
(* engine epoch, always get an error and are not enumerated.               *)
(***************************************************************************)
EXTENDS Integers, FiniteSets

CONSTANTS
    Pools,       \* the (component, rank) keys
    RankOf,      \* the rank of a pool
    Capacity,    \* units budgeted for a pool
    PageTokens,  \* tokens per page of a pool, 0 for a slot pool
    MaxTokens,   \* capacity_tokens of the pool's state
    Full,        \* whether the pool retains the whole prefix
    MaxContext,  \* longest executable context
    Requests,    \* request identities
    MaxSerial    \* where checked_add fails (u64::MAX in the code)

\* What Manifest::validate and StatePool::new establish: positive capacities,
\* page-aligned retention, and sliding retention only for paged state.
ASSUME PoolsAssumption ==
    /\ Pools # {}
    /\ Capacity \in [Pools -> Nat \ {0}]
    /\ PageTokens \in [Pools -> Nat]
    /\ MaxTokens \in [Pools -> Nat \ {0}]
    /\ Full \in [Pools -> BOOLEAN]
    /\ MaxContext \in Nat \ {0}
    /\ MaxSerial \in Nat
    /\ DOMAIN RankOf = Pools
    /\ \A p \in Pools : PageTokens[p] # 0 => MaxTokens[p] % PageTokens[p] = 0
    /\ \A p \in Pools : ~Full[p] => PageTokens[p] # 0

VARIABLES
    free,         \* pool -> its unowned units
    next,         \* the last serial handed out
    allocations,  \* lease -> Allocation
    borrowers,    \* borrow -> the lease it pins
    flights,      \* ticket -> Flight
    poisoned

vars == <<free, next, allocations, borrowers, flights, poisoned>>

Ranks == {RankOf[p] : p \in Pools}
Units(p) == 0 .. Capacity[p] - 1
Serials == 1 .. MaxSerial

Allocation ==
    [request : Requests, token_limit : 1 .. MaxContext,
     bindings : [Pools -> SUBSET Nat], retired : BOOLEAN, sealed : BOOLEAN,
     borrowers : SUBSET Serials, pending : SUBSET Serials]

\* "writes" is an auxiliary copy of submit's first argument; no guard reads it.
Flight ==
    [remaining_ranks : SUBSET Ranks, leases : SUBSET Serials,
     writes : SUBSET Serials]

----------------------------------------------------------------------------
(* Maps with a changing domain, as BTreeMap::insert and ::remove.          *)

MapInsert(f, k, v) == [x \in DOMAIN f \cup {k} |-> IF x = k THEN v ELSE f[x]]
MapRemove(f, k) == [x \in DOMAIN f \ {k} |-> f[x]]

----------------------------------------------------------------------------
(* Reservation arithmetic.                                                 *)

Least(a, b) == IF a <= b THEN a ELSE b

Retained(p, tokens) == IF Full[p] THEN tokens ELSE Least(tokens, MaxTokens[p])

\* Mutant of Count: rounds down instead of up.
CountRoundsDown(p, tokens) ==
    IF PageTokens[p] = 0 THEN 1 ELSE Retained(p, tokens) \div PageTokens[p]

\* Units a reservation needs: one slot, or div_ceil(retained, page_tokens).
Count(p, tokens) ==
    IF PageTokens[p] = 0 THEN 1
    ELSE (Retained(p, tokens) + PageTokens[p] - 1) \div PageTokens[p]

\* The first n members in the order of BTreeSet::iter.
Lowest(S, n) == {u \in S : Cardinality({v \in S : v < u}) < n}

\* The Vec of a binding is in ascending order: its element at an index.
UnitAt(S, index) == CHOOSE u \in S : Cardinality({v \in S : v < u}) = index

\* page_address: the page and the row that hold a token position of a paged pool.
\* A sliding pool reuses its pages as a ring of MaxTokens rows.
LogicalPage(p, position) ==
    IF Full[p] THEN position \div PageTokens[p]
    ELSE (position \div PageTokens[p]) % (MaxTokens[p] \div PageTokens[p])

PageAddress(lease, p, position) ==
    [physical_page |-> UnitAt(allocations[lease].bindings[p], LogicalPage(p, position)),
     row_in_page |-> position % PageTokens[p]]

----------------------------------------------------------------------------
Init ==
    /\ free = [p \in Pools |-> Units(p)]
    /\ next = 0
    /\ allocations = [l \in {} |-> {}]
    /\ borrowers = [b \in {} |-> {}]
    /\ flights = [t \in {} |-> {}]
    /\ poisoned = FALSE

\* Mutant of SerialLeft: a serial counter that does not check for its limit.
SerialUnchecked == TRUE

\* live(), and serial() not overflowing, for the calls that need a serial.
Live == ~poisoned
SerialLeft == next < MaxSerial

\* bindings(): the leases a caller may still use directly.
Usable == {l \in DOMAIN allocations : ~allocations[l].retired}

\* reserve_inner up to its last error: every pool is checked before any free
\* list changes.  chosen[p] is the units pool p would give.
Reservable(request, tokens, chosen) ==
    /\ Live
    /\ \A l \in DOMAIN allocations : allocations[l].request # request
    /\ \A p \in Pools : Full[p] => tokens <= MaxTokens[p]
    /\ \A p \in Pools : Count(p, tokens) <= Cardinality(free[p])
    /\ \A p \in Pools : chosen[p] \subseteq free[p]
    /\ SerialLeft

\* Mutant of TakeUnits: the generation counts live leases instead of serials.
TakeUnitsByCount(request, tokens, chosen) ==
    /\ next' = next + 1
    /\ free' = [p \in Pools |-> free[p] \ chosen[p]]
    /\ allocations' = MapInsert(allocations, Cardinality(DOMAIN allocations) + 1,
          [request |-> request, token_limit |-> tokens, bindings |-> chosen,
           retired |-> FALSE, sealed |-> FALSE,
           borrowers |-> {}, pending |-> {}])
    /\ UNCHANGED <<borrowers, flights, poisoned>>

\* The commit half of reserve_inner.
TakeUnits(request, tokens, chosen) ==
    /\ next' = next + 1
    /\ free' = [p \in Pools |-> free[p] \ chosen[p]]
    /\ allocations' = MapInsert(allocations, next + 1,
          [request |-> request, token_limit |-> tokens, bindings |-> chosen,
           retired |-> FALSE, sealed |-> FALSE,
           borrowers |-> {}, pending |-> {}])
    /\ UNCHANGED <<borrowers, flights, poisoned>>

\* tokens = 0 and tokens > max_context are errors: tokens \in 1 .. MaxContext.
Reserve(request, tokens) ==
    LET chosen == [p \in Pools |-> Lowest(free[p], Count(p, tokens))]
    IN  /\ Reservable(request, tokens, chosen)
        /\ TakeUnits(request, tokens, chosen)

\* Slot pools are pinned to the resident's slot, page pools are shared.
ReserveAtSlot(request, tokens, slot) ==
    LET chosen == [p \in Pools |-> IF PageTokens[p] = 0 THEN {slot}
                                   ELSE Lowest(free[p], Count(p, tokens))]
    IN  /\ Reservable(request, tokens, chosen)
        /\ TakeUnits(request, tokens, chosen)

\* pin(): a reader's hold on an allocation that the caller has looked up.
Pin(lease) ==
    /\ SerialLeft
    /\ next' = next + 1
    /\ allocations' = [allocations EXCEPT ![lease].borrowers = @ \cup {next + 1}]
    /\ borrowers' = MapInsert(borrowers, next + 1, lease)
    /\ UNCHANGED <<free, flights, poisoned>>

Borrow(lease) ==
    /\ Live
    /\ lease \in Usable
    /\ Pin(lease)

\* The cache's readers may pin a retired lease as long as it still exists.
BorrowSealed(lease) ==
    /\ Live
    /\ lease \in DOMAIN allocations
    /\ allocations[lease].sealed
    /\ Pin(lease)

\* check_idle(): no reader and no incomplete rank work.
Idle(lease) ==
    /\ allocations[lease].borrowers = {}
    /\ allocations[lease].pending = {}

\* Mutant of Seal: seals under incomplete rank work.
SealEarly(lease) ==
    /\ Live
    /\ lease \in Usable
    /\ allocations' = [allocations EXCEPT ![lease].sealed = TRUE]
    /\ UNCHANGED <<free, next, borrowers, flights, poisoned>>

Seal(lease) ==
    /\ Live
    /\ lease \in Usable
    /\ allocations[lease].pending = {}
    /\ allocations' = [allocations EXCEPT ![lease].sealed = TRUE]
    /\ UNCHANGED <<free, next, borrowers, flights, poisoned>>

\* Mutant of Ready: retirement forgets rank work.
ReadyIgnoresWork(allocs) ==
    {l \in DOMAIN allocs : allocs[l].retired /\ allocs[l].borrowers = {}}

\* reclaim(), run on the map that its caller just updated.
Ready(allocs) ==
    {l \in DOMAIN allocs : /\ allocs[l].retired
                           /\ allocs[l].borrowers = {}
                           /\ allocs[l].pending = {}}

\* Mutant of Reclaim: drops the lease without returning its units.
ReclaimLosesUnits(allocs) ==
    /\ allocations' = [l \in DOMAIN allocs \ Ready(allocs) |-> allocs[l]]
    /\ UNCHANGED free

Reclaim(allocs) ==
    /\ allocations' = [l \in DOMAIN allocs \ Ready(allocs) |-> allocs[l]]
    /\ free' = [p \in Pools |->
                  free[p] \cup UNION {allocs[l].bindings[p] : l \in Ready(allocs)}]

\* Mutant of Release: the last reader leaves without running reclaim().
ReleaseOnly(borrowed) ==
    /\ Live
    /\ borrowed \in DOMAIN borrowers
    /\ borrowers' = MapRemove(borrowers, borrowed)
    /\ allocations' = [allocations EXCEPT ![borrowers[borrowed]].borrowers = @ \ {borrowed}]
    /\ UNCHANGED <<free, next, flights, poisoned>>

Release(borrowed) ==
    /\ Live
    /\ borrowed \in DOMAIN borrowers
    /\ borrowers' = MapRemove(borrowers, borrowed)
    /\ Reclaim([allocations EXCEPT ![borrowers[borrowed]].borrowers = @ \ {borrowed}])
    /\ UNCHANGED <<next, flights, poisoned>>

\* leases are written, the leases behind reads are read; all are held.
Submit(leases, reads) ==
    LET all == leases \cup {borrowers[r] : r \in reads}
    IN  /\ Live
        /\ leases \subseteq Usable
        /\ \A l \in leases : ~allocations[l].sealed
        /\ reads \subseteq DOMAIN borrowers
        /\ all # {}
        /\ SerialLeft
        /\ next' = next + 1
        /\ allocations' = [l \in DOMAIN allocations |->
              IF l \in all THEN [allocations[l] EXCEPT !.pending = @ \cup {next + 1}]
              ELSE allocations[l]]
        /\ flights' = MapInsert(flights, next + 1,
              [remaining_ranks |-> Ranks, leases |-> all, writes |-> leases])
        /\ UNCHANGED <<free, borrowers, poisoned>>

\* The rank's event; the last one ends the flight and may free its leases.
Complete(ticket, rank) ==
    /\ Live
    /\ ticket \in DOMAIN flights
    /\ rank \in flights[ticket].remaining_ranks
    /\ IF flights[ticket].remaining_ranks = {rank}
       THEN /\ flights' = MapRemove(flights, ticket)
            /\ Reclaim([l \in DOMAIN allocations |->
                  IF l \in flights[ticket].leases
                  THEN [allocations[l] EXCEPT !.pending = @ \ {ticket}]
                  ELSE allocations[l]])
       ELSE /\ flights' = [flights EXCEPT ![ticket].remaining_ranks = @ \ {rank}]
            /\ UNCHANGED <<free, allocations>>
    /\ UNCHANGED <<next, borrowers, poisoned>>

\* Mutants of Retire: works on a poisoned pool, or resets the lease's flags.
RetirePoisoned(lease) ==
    /\ lease \in Usable
    /\ Reclaim([allocations EXCEPT ![lease].retired = TRUE])
    /\ UNCHANGED <<next, borrowers, flights, poisoned>>
RetireUnseals(lease) ==
    /\ Live
    /\ lease \in Usable
    /\ Reclaim([allocations EXCEPT ![lease].retired = TRUE, ![lease].sealed = FALSE])
    /\ UNCHANGED <<next, borrowers, flights, poisoned>>

Retire(lease) ==
    /\ Live
    /\ lease \in Usable
    /\ Reclaim([allocations EXCEPT ![lease].retired = TRUE])
    /\ UNCHANGED <<next, borrowers, flights, poisoned>>

\* A failed or partly submitted rank group; poison() itself never fails.
Poison ==
    /\ poisoned' = TRUE
    /\ UNCHANGED <<free, next, allocations, borrowers, flights>>

Next ==
    \/ \E request \in Requests, tokens \in 1 .. MaxContext : Reserve(request, tokens)
    \/ \E request \in Requests, tokens \in 1 .. MaxContext,
          slot \in UNION {Units(p) : p \in Pools} : ReserveAtSlot(request, tokens, slot)
    \/ \E lease \in DOMAIN allocations : \/ Borrow(lease)
                                         \/ BorrowSealed(lease)
                                         \/ Seal(lease)
                                         \/ Retire(lease)
    \/ \E borrowed \in DOMAIN borrowers : Release(borrowed)
    \/ \E leases \in SUBSET DOMAIN allocations, reads \in SUBSET DOMAIN borrowers :
          Submit(leases, reads)
    \/ \E ticket \in DOMAIN flights, rank \in Ranks : Complete(ticket, rank)
    \/ Poison

Spec == Init /\ [][Next]_vars

----------------------------------------------------------------------------
(* Properties.                                                             *)

\* The state has the shape of the Rust structs, and no handle was forged.
TypeOK ==
    /\ free \in [Pools -> SUBSET Nat]
    /\ next \in 0 .. MaxSerial
    /\ DOMAIN allocations \subseteq 1 .. next
    /\ allocations \in [DOMAIN allocations -> Allocation]
    /\ DOMAIN borrowers \subseteq 1 .. next
    /\ borrowers \in [DOMAIN borrowers -> Serials]
    /\ DOMAIN flights \subseteq 1 .. next
    /\ flights \in [DOMAIN flights -> Flight]
    /\ poisoned \in BOOLEAN

\* A physical unit is free or belongs to a lease: reserve_inner and reclaim lose none.
NoUnitLost ==
    \A p \in Pools : \A u \in Units(p) :
        \/ u \in free[p]
        \/ \E l \in DOMAIN allocations : u \in allocations[l].bindings[p]

\* No unit is free and bound, or bound twice: no two leases share storage.
NoUnitShared ==
    \A p \in Pools :
        /\ free[p] \subseteq Units(p)
        /\ \A l \in DOMAIN allocations :
              /\ allocations[l].bindings[p] \subseteq Units(p)
              /\ free[p] \cap allocations[l].bindings[p] = {}
              /\ \A m \in DOMAIN allocations \ {l} :
                    allocations[l].bindings[p] \cap allocations[m].bindings[p] = {}

\* Storage is conserved: reserve_inner and reclaim, in any order of calls and even
\* when a reservation fails half way, leave every unit with exactly one owner.
UnitsPartitioned == NoUnitLost /\ NoUnitShared

\* Rank work holds what it touches: until its last rank completed, a ticket's
\* leases exist and list the ticket, whatever was retired meanwhile (the unwraps
\* of complete() cannot panic, the units cannot be handed out again).
FlightsHoldLeases ==
    /\ \A t \in DOMAIN flights :
          /\ flights[t].remaining_ranks # {}
          /\ \A l \in flights[t].leases :
                /\ l \in DOMAIN allocations
                /\ t \in allocations[l].pending
    /\ \A l \in DOMAIN allocations : \A t \in allocations[l].pending :
          /\ t \in DOMAIN flights
          /\ l \in flights[t].leases

\* A borrow keeps its lease: borrowed_bindings() never indexes a missing lease,
\* and no allocation waits for a borrow that does not exist.
BorrowsHoldLeases ==
    /\ \A b \in DOMAIN borrowers :
          /\ borrowers[b] \in DOMAIN allocations
          /\ b \in allocations[borrowers[b]].borrowers
    /\ \A l \in DOMAIN allocations : \A b \in allocations[l].borrowers :
          /\ b \in DOMAIN borrowers
          /\ borrowers[b] = l

\* Nothing is taken from under rank work or a reader.
HoldersHoldLeases == FlightsHoldLeases /\ BorrowsHoldLeases

\* A sealed continuation is never the target of a write that is still running,
\* in whatever order seal, submit and the rank completions were called.
SealedNotWritten ==
    \A t \in DOMAIN flights : \A l \in flights[t].writes :
        l \in DOMAIN allocations => ~allocations[l].sealed

\* Nothing is stranded: a retired lease that remains has a reader or a ticket
\* whose end will run reclaim() for it.
NoStrandedLease == Ready(allocations) = {}

\* A lease exists exactly as long as someone may use it, and no writer of a sealed
\* one is left, in whatever order retire, release, seal, submit and the rank
\* completions were called.
LeasesGuarded == HoldersHoldLeases /\ SealedNotWritten /\ NoStrandedLease

\* page_address succeeds below the reservation's token limit, and two positions
\* share a row only on one sliding lease and a whole ring apart.
RowsDisjoint ==
    \A p \in {q \in Pools : PageTokens[q] # 0} : \A l, m \in Usable :
        \A i \in 0 .. allocations[l].token_limit - 1,
           j \in 0 .. allocations[m].token_limit - 1 :
            /\ LogicalPage(p, i) < Cardinality(allocations[l].bindings[p])
            /\ PageAddress(l, p, i) = PageAddress(m, p, j) =>
                  /\ l = m
                  /\ i = j \/ (~Full[p] /\ (i - j) % MaxTokens[p] = 0)

\* No identity is ever issued twice, so a stale handle never names a newer object.
FreshHandles ==
    [][/\ DOMAIN allocations' \ DOMAIN allocations \subseteq {next + 1}
       /\ DOMAIN borrowers' \ DOMAIN borrowers \subseteq {next + 1}
       /\ DOMAIN flights' \ DOMAIN flights \subseteq {next + 1}
       /\ next' >= next]_vars

\* A lease keeps its units, and a sealed one stays sealed, until it disappears;
\* there is no unseal and no call moves the pages of a live lease.
LeasesStable ==
    [][\A l \in DOMAIN allocations \cap DOMAIN allocations' :
          /\ allocations'[l].bindings = allocations[l].bindings
          /\ allocations[l].sealed => allocations'[l].sealed
          /\ allocations[l].retired => allocations'[l].retired]_vars

\* Only a lease nobody uses disappears, and never once a rank failed: no step
\* drops an allocation that a ticket or another borrow still holds.
OnlyIdleLeasesFreed ==
    [][\A l \in DOMAIN allocations \ DOMAIN allocations' :
          /\ ~poisoned
          /\ \A t \in DOMAIN flights' : l \notin flights'[t].leases
          /\ \A b \in DOMAIN borrowers' : borrowers'[b] # l]_vars

\* A lease lasts: it does not change while it exists, and it ends only when idle.
LeasesLast == LeasesStable /\ OnlyIdleLeasesFreed
=============================================================================
