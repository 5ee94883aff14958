------------------------ MODULE ResourcePool_proofs ------------------------
(***************************************************************************)
(* What the operations of a resource pool do to its pages and slots, for   *)
(* pools of every size: a reservation takes exactly the pages its tokens   *)
(* need, and no operation loses a page or gives it to two leases.  The     *)
(* transport's and the live scheduler's proofs rest on these lemmas.       *)
(***************************************************************************)
EXTENDS ResourcePool, NumberLemmas, TLAPS

\* The leases and pools that requests R in epochs E give rise to.
LeaseSet(R, E) ==
    [request : R, epoch : E, generation : Nat, slot : SlotIds, pages : SUBSET PageIds]

ActiveSet(R, E) == UNION {[D -> LeaseSet(R, E)] : D \in SUBSET R}

PoolSet(R, E) ==
    [free_pages : SUBSET PageIds, free_slots : SUBSET SlotIds, active : ActiveSet(R, E),
     retired : SUBSET LeaseSet(R, E), generation : Nat]

\* A lease is a retired one or the active one of a request.
LEMMA LeaseOf ==
    ASSUME NEW pool, NEW l
    PROVE  l \in Leases(pool) <=>
              l \in pool.retired \/ \E r \in DOMAIN pool.active : l = pool.active[r]
BY DEF Leases

\* The active leases are a function on some of the requests.
LEMMA ActiveIs ==
    ASSUME NEW R, NEW E, NEW active
    PROVE  active \in ActiveSet(R, E) <=>
              DOMAIN active \subseteq R /\ active \in [DOMAIN active -> LeaseSet(R, E)]
BY DEF ActiveSet

\* What every operation keeps: the ledger is exact and filed by request.
Exact(pool, R, E) ==
    /\ pool \in PoolSet(R, E)
    /\ \A r \in DOMAIN pool.active : pool.active[r].request = r
    /\ \A l \in pool.retired : l.request \notin DOMAIN pool.active
    /\ Conserved(pool)

\* Pages and slots are finitely many naturals, and so is what a set of tokens needs.
LEMMA PoolNumbers ==
    /\ PageIds \subseteq Nat /\ \A S \in SUBSET PageIds : IsFiniteSet(S) /\ Cardinality(S) \in Nat
    /\ SlotIds \subseteq Nat /\ \A S \in SUBSET SlotIds : IsFiniteSet(S)
    /\ \A tokens \in Nat : PagesFor(tokens) \in Nat
<1>1. NumPages - 1 \in Int /\ NumSlots - 1 \in Int /\ 0 \in Int
  BY ResourceAssumption
<1>2. IsFiniteSet(PageIds) /\ IsFiniteSet(SlotIds)
  BY <1>1, FS_Interval DEF PageIds, SlotIds
<1>3. PageIds \subseteq Nat /\ SlotIds \subseteq Nat
  BY DEF PageIds, SlotIds
<1>4. \A tokens \in Nat : PagesFor(tokens) \in Nat
  BY ResourceAssumption, PagesHold DEF PagesFor
<1> QED
  BY <1>2, <1>3, <1>4, FS_Subset, FS_CardinalityType

\* The lowest members of a set of numbers are as many as asked for.
LEMMA LowestOf ==
    ASSUME NEW S \in SUBSET Nat, IsFiniteSet(S), NEW n \in Nat, n <= Cardinality(S)
    PROVE  Lowest(S, n) \subseteq S /\ Cardinality(Lowest(S, n)) = n
<1>1. First(S, n) \in SUBSET S
      /\ Cardinality(First(S, n)) = n /\ \A a \in First(S, n), b \in S \ First(S, n) : a < b
  BY FirstMembers
<1>2. \E low \in SUBSET S : Cardinality(low) = n /\ \A a \in low, b \in S \ low : a < b
  BY <1>1
<1> QED
  BY <1>2 DEF Lowest

\* So are the first members of a free list.
LEMMA LowestMembers ==
    ASSUME NEW S \in SUBSET PageIds, NEW n \in Nat, n <= Cardinality(S)
    PROVE  Lowest(S, n) \subseteq S /\ Cardinality(Lowest(S, n)) = n
<1>1. S \in SUBSET Nat /\ IsFiniteSet(S)
  BY PoolNumbers
<1> QED
  BY <1>1, LowestOf

\* reserve hands out free pages, as many as the tokens need, and a free slot.
LEMMA NewLeaseFits ==
    ASSUME NEW R, NEW E, NEW pool, Exact(pool, R, E), NEW request \in R, NEW epoch \in E,
           NEW tokens \in Nat, HasRoom(pool, tokens)
    PROVE  LET lease == NewLease(pool, request, epoch, tokens)
           IN  /\ lease \in LeaseSet(R, E)
               /\ lease.pages \subseteq pool.free_pages /\ lease.slot \in pool.free_slots
               /\ Cardinality(lease.pages) = PagesFor(tokens)
<1> DEFINE lease == NewLease(pool, request, epoch, tokens)
<1>0. /\ pool.free_pages \in SUBSET PageIds /\ pool.free_slots \in SUBSET SlotIds
      /\ pool.generation \in Nat
  BY DEF Exact, PoolSet
<1>1. PagesFor(tokens) \in Nat
  BY PoolNumbers
<1>2. /\ Lowest(pool.free_pages, PagesFor(tokens)) \subseteq pool.free_pages
      /\ Cardinality(Lowest(pool.free_pages, PagesFor(tokens))) = PagesFor(tokens)
  BY <1>0, <1>1, LowestMembers DEF HasRoom
<1>3. \E s \in pool.free_slots : \A o \in pool.free_slots : s <= o
  BY <1>0, PoolNumbers, LeastMember DEF HasRoom
<1>4. (CHOOSE s \in pool.free_slots : \A o \in pool.free_slots : s <= o) \in pool.free_slots
  BY <1>3
<1>5. (pool.generation + 1) % Generations \in Nat
  <2>1. pool.generation + 1 \in Nat /\ Generations \in Nat \ {0}
    BY <1>0, ResourceAssumption
  <2> QED
    BY <2>1, Division
<1> QED
  BY <1>0, <1>2, <1>4, <1>5 DEF NewLease, LeaseSet

\* reserve: the pages and the slot move from the free lists to the new lease.
LEMMA ReserveExact ==
    ASSUME NEW R, NEW E, NEW pool, Exact(pool, R, E), NEW lease \in LeaseSet(R, E),
           lease.pages \subseteq pool.free_pages, lease.slot \in pool.free_slots,
           ~Owns(pool, lease.request)
    PROVE  /\ Exact(PoolReserve(pool, lease), R, E)
           /\ PoolReserve(pool, lease).active
                = [r \in DOMAIN pool.active \cup {lease.request} |->
                      IF r = lease.request THEN lease ELSE pool.active[r]]
           /\ PoolReserve(pool, lease).retired = pool.retired
           /\ PoolReserve(pool, lease).generation = lease.generation
<1> DEFINE next == PoolReserve(pool, lease)
           r == lease.request
<1>0. /\ pool.free_pages \in SUBSET PageIds /\ pool.free_slots \in SUBSET SlotIds
      /\ pool.active \in [DOMAIN pool.active -> LeaseSet(R, E)] /\ DOMAIN pool.active \subseteq R
      /\ pool.retired \in SUBSET LeaseSet(R, E) /\ pool.generation \in Nat
  BY ActiveIs DEF Exact, PoolSet
<1>1. lease.request \in R /\ lease.generation \in Nat
  BY DEF LeaseSet
<1>2. /\ next.free_pages = pool.free_pages \ lease.pages
      /\ next.free_slots = pool.free_slots \ {lease.slot}
      /\ next.active = [q \in DOMAIN pool.active \cup {r} |-> IF q = r THEN lease ELSE pool.active[q]]
      /\ next.retired = pool.retired
      /\ next.generation = lease.generation
  BY DEF PoolReserve, Exact, PoolSet
<1>3. next \in PoolSet(R, E)
  <2> DEFINE act == [q \in DOMAIN pool.active \cup {r} |-> IF q = r THEN lease ELSE pool.active[q]]
  <2>1. act \in ActiveSet(R, E)
    <3>1. DOMAIN act \subseteq R /\ act \in [DOMAIN act -> LeaseSet(R, E)]
      BY <1>0, <1>1
    <3> HIDE DEF act
    <3> QED
      BY <3>1, ActiveIs
  <2>2. next = [pool EXCEPT !.free_pages = @ \ lease.pages, !.free_slots = @ \ {lease.slot},
                            !.generation = lease.generation, !.active = act]
    BY DEF PoolReserve
  <2> HIDE DEF act, next
  <2> QED
    BY <1>0, <1>1, <2>1, <2>2 DEF PoolSet, Exact
<1> HIDE DEF next
<1>4. r \notin DOMAIN pool.active /\ \A l \in pool.retired : l.request # r
  BY DEF Owns
<1>5. Leases(next) = Leases(pool) \cup {lease} /\ lease \notin Leases(pool)
  <2>1. DOMAIN next.active = DOMAIN pool.active \cup {r}
    BY <1>2
  <2>2. next.active[r] = lease /\ \A q \in DOMAIN pool.active : next.active[q] = pool.active[q]
    BY <1>2, <1>4
  <2>3. \A l \in Leases(pool) : l.request # r
    BY <1>4, LeaseOf DEF Exact
  <2>4. \A l : l \in Leases(next) <=> l \in Leases(pool) \/ l = lease
    <3>1. lease \in Leases(next) /\ \A l \in Leases(pool) : l \in Leases(next)
      <4>1. r \in DOMAIN next.active /\ lease \in Leases(next)
        BY <2>1, <2>2 DEF Leases
      <4>2. ASSUME NEW q \in DOMAIN pool.active
            PROVE  pool.active[q] \in Leases(next)
        <5>1. q \in DOMAIN next.active /\ next.active[q] = pool.active[q]
          BY <2>1, <2>2
        <5> QED
          BY <5>1 DEF Leases
      <4>3. ASSUME NEW l \in pool.retired
            PROVE  l \in Leases(next)
        BY <1>2, <4>3 DEF Leases
      <4> QED
        BY <4>1, <4>2, <4>3 DEF Leases
    <3>2. ASSUME NEW l \in Leases(next), l # lease
          PROVE  l \in Leases(pool)
      <4>1. CASE l \in next.retired
        BY <1>2, <4>1 DEF Leases
      <4>2. ASSUME NEW q \in DOMAIN next.active, l = next.active[q]
            PROVE  l \in Leases(pool)
        BY <2>1, <2>2, <3>2, <4>2 DEF Leases
      <4> QED
        BY <4>1, <4>2, LeaseOf
    <3> QED
      BY <3>1, <3>2
  <2> QED
    BY <2>3, <2>4
<1>6. /\ \A q \in DOMAIN next.active : next.active[q].request = q
      /\ \A l \in next.retired : l.request \notin DOMAIN next.active
  BY <1>2, <1>4 DEF Exact
<1>7. Conserved(next)
  <2>1. next.free_pages \cup UNION {l.pages : l \in Leases(next)} = PageIds
    BY <1>2, <1>5 DEF Exact, Conserved
  <2>2. next.free_slots \cup {l.slot : l \in Leases(next)} = SlotIds
    BY <1>2, <1>5 DEF Exact, Conserved
  <2>3. ASSUME NEW l \in Leases(next)
        PROVE  /\ l.pages \cap next.free_pages = {} /\ l.slot \notin next.free_slots
               /\ \A m \in Leases(next) \ {l} : l.pages \cap m.pages = {} /\ l.slot # m.slot
    <3>1. \A k \in Leases(pool) :
              /\ k.pages \cap pool.free_pages = {} /\ k.slot \notin pool.free_slots
              /\ \A m \in Leases(pool) \ {k} : k.pages \cap m.pages = {} /\ k.slot # m.slot
      BY DEF Exact, Conserved
    <3> QED
      BY <1>2, <1>5, <3>1
  <2> QED
    BY <2>1, <2>2, <2>3 DEF Conserved
<1> QED
  BY <1>2, <1>3, <1>6, <1>7 DEF Exact, next

\* ensure: the current lease grows by free pages to what the tokens need.
LEMMA GrowExact ==
    ASSUME NEW R, NEW E, NEW pool, Exact(pool, R, E), NEW lease,
           lease.request \in DOMAIN pool.active,
           NEW tokens \in Nat, CanGrow(pool, lease, tokens)
    PROVE  LET next == Grown(pool, lease, tokens)
               r == lease.request
           IN  /\ Exact(next, R, E)
               /\ DOMAIN next.active = DOMAIN pool.active
               /\ \A q \in DOMAIN pool.active : q # r => next.active[q] = pool.active[q]
               /\ next.active[r].epoch = pool.active[r].epoch
               /\ next.active[r].generation = pool.active[r].generation
               /\ next.active[r].slot = pool.active[r].slot
               /\ pool.active[r].pages \subseteq next.active[r].pages
               /\ PagesFor(tokens) <= Cardinality(next.active[r].pages)
               /\ next.retired = pool.retired /\ next.generation = pool.generation
<1> DEFINE next == Grown(pool, lease, tokens)
           r == lease.request
           more == Lowest(pool.free_pages, Missing(pool, lease, tokens))
           old == pool.active[r]
           new == [old EXCEPT !.pages = @ \cup more]
<1>0. /\ pool.free_pages \in SUBSET PageIds /\ pool.free_slots \in SUBSET SlotIds
      /\ pool.active \in [DOMAIN pool.active -> LeaseSet(R, E)] /\ DOMAIN pool.active \subseteq R
      /\ pool.retired \in SUBSET LeaseSet(R, E) /\ pool.generation \in Nat
  BY ActiveIs DEF Exact, PoolSet
<1>1. old \in LeaseSet(R, E) /\ old.request = r /\ old.pages \in SUBSET PageIds
  BY <1>0 DEF Exact, LeaseSet
<1>2. /\ IsFiniteSet(old.pages) /\ Cardinality(old.pages) \in Nat /\ PagesFor(tokens) \in Nat
      /\ IsFiniteSet(pool.free_pages)
  BY <1>0, <1>1, PoolNumbers
<1>3. /\ Missing(pool, lease, tokens) \in Nat
      /\ Missing(pool, lease, tokens) + Cardinality(old.pages) >= PagesFor(tokens)
      /\ Missing(pool, lease, tokens) <= Cardinality(pool.free_pages)
  BY <1>2 DEF Missing, CanGrow
<1>4. more \subseteq pool.free_pages /\ Cardinality(more) = Missing(pool, lease, tokens)
  BY <1>0, <1>3, LowestMembers
<1>5. /\ next.free_pages = pool.free_pages \ more
      /\ next.free_slots = pool.free_slots
      /\ next.active = [pool.active EXCEPT ![r].pages = @ \cup more]
      /\ next.retired = pool.retired
      /\ next.generation = pool.generation
  <2> HIDE DEF more
  <2>1. next = [pool EXCEPT !.free_pages = @ \ more, !.active[r].pages = @ \cup more]
    BY DEF Grown, more
  <2> HIDE DEF next
  <2> QED
    BY <2>1 DEF Exact, PoolSet
<1> HIDE DEF more
<1>6. /\ DOMAIN next.active = DOMAIN pool.active
      /\ next.active[r] = new /\ new.pages = old.pages \cup more
      /\ new \in LeaseSet(R, E) /\ new.request = r /\ new.slot = old.slot
      /\ new.epoch = old.epoch /\ new.generation = old.generation
      /\ \A q \in DOMAIN pool.active : q # r => next.active[q] = pool.active[q]
  <2> HIDE DEF next
  <2> QED
    BY <1>0, <1>1, <1>4, <1>5 DEF LeaseSet
<1>7. next \in PoolSet(R, E)
  <2>1. next.active \in ActiveSet(R, E)
    <3>1. next.active \in [DOMAIN next.active -> LeaseSet(R, E)]
      <4> HIDE DEF new, next
      <4>1. \A q \in DOMAIN pool.active : next.active[q] \in LeaseSet(R, E)
        BY <1>0, <1>6
      <4>2. next.active = [q \in DOMAIN pool.active |-> next.active[q]]
        BY <1>5
      <4> QED
        BY <1>6, <4>1, <4>2
    <3> HIDE DEF next
    <3> QED
      BY <1>0, <1>6, <3>1, ActiveIs
  <2>2. next = [free_pages |-> next.free_pages, free_slots |-> next.free_slots,
                active |-> next.active, retired |-> next.retired, generation |-> next.generation]
    <3>1. next = [pool EXCEPT !.free_pages = @ \ more, !.active[r].pages = @ \cup more]
      BY DEF Grown, more
    <3> HIDE DEF next
    <3> QED
      BY <3>1 DEF Exact, PoolSet
  <2> HIDE DEF next
  <2>3. next.free_pages \in SUBSET PageIds
    BY <1>0, <1>5
  <2> QED
    BY <1>0, <1>5, <2>1, <2>2, <2>3 DEF PoolSet
<1> HIDE DEF next, new, old
<1>8. /\ \A l : l \in Leases(next) <=> l \in Leases(pool) \ {old} \/ l = new
      /\ old \in Leases(pool)
  <2>1. old \in Leases(pool) /\ new \in Leases(next)
    BY <1>6 DEF Leases, old
  <2>2. ASSUME NEW l \in Leases(pool), l # old PROVE l \in Leases(next)
    <3>1. CASE l \in pool.retired
      BY <1>5, <3>1 DEF Leases
    <3>2. ASSUME NEW q \in DOMAIN pool.active, l = pool.active[q]
          PROVE  l \in Leases(next)
      <4>1. q # r
        BY <2>2, <3>2 DEF old
      <4> QED
        BY <1>6, <3>2, <4>1 DEF Leases
    <3> QED
      BY <3>1, <3>2, LeaseOf
  <2>3. ASSUME NEW l \in Leases(next), l # new PROVE l \in Leases(pool) /\ l # old
    <3>1. CASE l \in next.retired
      <4>1. l \in pool.retired
        BY <1>5, <3>1
      <4>2. l.request # r
        BY <4>1 DEF Exact
      <4> QED
        BY <1>1, <4>1, <4>2 DEF Leases
    <3>2. ASSUME NEW q \in DOMAIN next.active, l = next.active[q]
          PROVE  l \in Leases(pool) /\ l # old
      <4>1. q # r /\ q \in DOMAIN pool.active
        BY <1>6, <2>3, <3>2
      <4>2. l = pool.active[q] /\ l.request = q
        BY <1>6, <3>2, <4>1 DEF Exact
      <4> QED
        BY <1>1, <4>1, <4>2 DEF Leases
    <3> QED
      BY <3>1, <3>2, LeaseOf
  <2> QED
    BY <2>1, <2>2, <2>3
<1>9. /\ old.pages \cap pool.free_pages = {} /\ old.slot \notin pool.free_slots
      /\ pool.free_pages \cup UNION {l.pages : l \in Leases(pool)} = PageIds
      /\ pool.free_slots \cup {l.slot : l \in Leases(pool)} = SlotIds
      /\ \A l \in Leases(pool) :
            /\ l.pages \cap pool.free_pages = {} /\ l.slot \notin pool.free_slots
            /\ \A m \in Leases(pool) \ {l} : l.pages \cap m.pages = {} /\ l.slot # m.slot
  BY <1>8 DEF Exact, Conserved
<1>10. Conserved(next)
  <2>1. next.free_pages \cup UNION {l.pages : l \in Leases(next)} = PageIds
    <3>1. \A x : (\E l \in Leases(next) : x \in l.pages) <=>
                  x \in more \/ \E l \in Leases(pool) : x \in l.pages
      BY <1>6, <1>8
    <3> QED
      BY <1>4, <1>5, <1>9, <3>1
  <2>2. next.free_slots \cup {l.slot : l \in Leases(next)} = SlotIds
    <3>1. \A x : (\E l \in Leases(next) : x = l.slot) <=> \E l \in Leases(pool) : x = l.slot
      BY <1>6, <1>8
    <3> QED
      BY <1>5, <1>9, <3>1
  <2>3. ASSUME NEW l \in Leases(next)
        PROVE  l.pages \cap next.free_pages = {} /\ l.slot \notin next.free_slots
    BY <1>5, <1>6, <1>8, <1>9
  <2>4. ASSUME NEW l \in Leases(next), NEW m \in Leases(next) \ {l}
        PROVE  l.pages \cap m.pages = {} /\ l.slot # m.slot
    BY <1>4, <1>6, <1>8, <1>9
  <2> QED
    BY <2>1, <2>2, <2>3, <2>4 DEF Conserved
<1>11. Exact(next, R, E)
  <2>1. \A q \in DOMAIN next.active : next.active[q].request = q
    BY <1>6 DEF Exact
  <2>2. \A l \in next.retired : l.request \notin DOMAIN next.active
    BY <1>5, <1>6 DEF Exact
  <2> QED
    BY <1>7, <1>10, <2>1, <2>2 DEF Exact
<1>12. PagesFor(tokens) <= Cardinality(new.pages)
  <2>1. old.pages \cap more = {} /\ IsFiniteSet(more)
    BY <1>2, <1>4, <1>9, FS_Subset
  <2>2. Cardinality(new.pages) = Cardinality(old.pages) + Cardinality(more)
    BY <1>2, <1>6, <2>1, DisjointSum
  <2> QED
    BY <1>2, <1>3, <1>4, <2>2
<1>13. /\ DOMAIN next.active = DOMAIN pool.active
       /\ next.active[r].epoch = old.epoch /\ next.active[r].generation = old.generation
       /\ next.active[r].slot = old.slot
       /\ \A q \in DOMAIN pool.active : q # r => next.active[q] = pool.active[q]
       /\ old.pages \subseteq next.active[r].pages
       /\ PagesFor(tokens) <= Cardinality(next.active[r].pages)
  BY <1>6, <1>12
<1> QED
  BY <1>5, <1>11, <1>13, Zenon DEF next, old

\* retire: a lease that is no longer active keeps its pages and its slot.
LEMMA RetireExact ==
    ASSUME NEW R, NEW E, NEW pool, Exact(pool, R, E), NEW lease,
           lease.request \in DOMAIN pool.active
    PROVE  LET next == Retire(pool, lease)
               r == lease.request
           IN  /\ Exact(next, R, E)
               /\ DOMAIN next.active = DOMAIN pool.active \ {r}
               /\ \A q \in DOMAIN next.active : next.active[q] = pool.active[q]
               /\ next.retired = pool.retired \cup {pool.active[r]}
               /\ next.generation = pool.generation
<1> DEFINE next == Retire(pool, lease)
           r == lease.request
           act == [q \in DOMAIN pool.active \ {r} |-> pool.active[q]]
<1>0. /\ pool.free_pages \in SUBSET PageIds /\ pool.free_slots \in SUBSET SlotIds
      /\ pool.active \in [DOMAIN pool.active -> LeaseSet(R, E)] /\ DOMAIN pool.active \subseteq R
      /\ pool.retired \in SUBSET LeaseSet(R, E) /\ pool.generation \in Nat
  BY ActiveIs DEF Exact, PoolSet
<1>1. next = [pool EXCEPT !.active = act, !.retired = @ \cup {pool.active[r]}]
  BY DEF Retire
<1>2. act \in ActiveSet(R, E)
  <2>1. DOMAIN act \subseteq R /\ act \in [DOMAIN act -> LeaseSet(R, E)]
    BY <1>0
  <2> HIDE DEF act
  <2> QED
    BY <2>1, ActiveIs
<1>3. /\ DOMAIN act = DOMAIN pool.active \ {r}
      /\ \A q \in DOMAIN pool.active \ {r} : act[q] = pool.active[q]
  OBVIOUS
<1> HIDE DEF act, next
<1>4. /\ next.free_pages = pool.free_pages /\ next.free_slots = pool.free_slots
      /\ next.active = act /\ next.retired = pool.retired \cup {pool.active[r]}
      /\ next.generation = pool.generation
  BY <1>1 DEF Exact, PoolSet
<1>5. next \in PoolSet(R, E)
  <2>1. pool.retired \cup {pool.active[r]} \in SUBSET LeaseSet(R, E)
    BY <1>0
  <2>2. next.retired \in SUBSET LeaseSet(R, E)
    BY <1>4, <2>1
  <2>3. next = [free_pages |-> next.free_pages, free_slots |-> next.free_slots,
                active |-> next.active, retired |-> next.retired, generation |-> next.generation]
    BY <1>1 DEF Exact, PoolSet
  <2> QED
    BY <1>0, <1>2, <1>4, <2>2, <2>3 DEF PoolSet
<1>6. Leases(next) = Leases(pool)
  <2>1. ASSUME NEW l \in Leases(pool) PROVE l \in Leases(next)
    <3>1. CASE l \in pool.retired
      BY <1>4, <3>1 DEF Leases
    <3>2. ASSUME NEW q \in DOMAIN pool.active, l = pool.active[q] PROVE l \in Leases(next)
      BY <1>3, <1>4, <3>2 DEF Leases
    <3> QED
      BY <3>1, <3>2, LeaseOf
  <2>2. ASSUME NEW l \in Leases(next) PROVE l \in Leases(pool)
    <3>1. CASE l \in next.retired
      BY <1>4, <3>1 DEF Leases
    <3>2. ASSUME NEW q \in DOMAIN next.active, l = next.active[q] PROVE l \in Leases(pool)
      BY <1>3, <1>4, <3>2 DEF Leases
    <3> QED
      BY <3>1, <3>2, LeaseOf
  <2> QED
    BY <2>1, <2>2
<1>7. Conserved(next)
  BY <1>4, <1>6 DEF Exact, Conserved
<1>8. /\ \A q \in DOMAIN next.active : next.active[q].request = q
      /\ \A l \in next.retired : l.request \notin DOMAIN next.active
  BY <1>3, <1>4 DEF Exact
<1> QED
  BY <1>3, <1>4, <1>5, <1>7, <1>8 DEF Exact, next

\* completion_fence: what retired leases held is free again.
LEMMA FenceExact ==
    ASSUME NEW R, NEW E, NEW pool, Exact(pool, R, E)
    PROVE  /\ Exact(Fence(pool), R, E)
           /\ Fence(pool).active = pool.active /\ Fence(pool).retired = {}
           /\ Fence(pool).generation = pool.generation
<1> DEFINE next == Fence(pool)
<1>0. /\ pool.free_pages \in SUBSET PageIds /\ pool.free_slots \in SUBSET SlotIds
      /\ pool.active \in [DOMAIN pool.active -> LeaseSet(R, E)] /\ DOMAIN pool.active \subseteq R
      /\ pool.retired \in SUBSET LeaseSet(R, E) /\ pool.generation \in Nat
  BY ActiveIs DEF Exact, PoolSet
<1>1. /\ next.free_pages = pool.free_pages \cup UNION {l.pages : l \in pool.retired}
      /\ next.free_slots = pool.free_slots \cup {l.slot : l \in pool.retired}
      /\ next.active = pool.active /\ next.retired = {} /\ next.generation = pool.generation
  BY DEF Fence, Exact, PoolSet
<1>2. next \in PoolSet(R, E)
  <2>1. pool.free_pages \cup UNION {l.pages : l \in pool.retired} \in SUBSET PageIds
    BY <1>0 DEF LeaseSet
  <2>2. pool.free_slots \cup {l.slot : l \in pool.retired} \in SUBSET SlotIds
    BY <1>0 DEF LeaseSet
  <2> QED
    BY <2>1, <2>2 DEF Fence, Exact, PoolSet
<1> HIDE DEF next
<1>3. /\ \A l : l \in Leases(next) <=> \E q \in DOMAIN pool.active : l = pool.active[q]
      /\ \A l \in Leases(next) : l \in Leases(pool) /\ l \notin pool.retired
  <2>1. \A l : l \in Leases(next) <=> \E q \in DOMAIN pool.active : l = pool.active[q]
    BY <1>1, LeaseOf
  <2>2. ASSUME NEW q \in DOMAIN pool.active
        PROVE  pool.active[q] \in Leases(pool) /\ pool.active[q] \notin pool.retired
    BY DEF Leases, Exact
  <2> QED
    BY <2>1, <2>2
<1>4. \A l : l \in Leases(pool) <=> l \in Leases(next) \/ l \in pool.retired
  BY <1>3, LeaseOf
<1>5. /\ pool.free_pages \cup UNION {l.pages : l \in Leases(pool)} = PageIds
      /\ pool.free_slots \cup {l.slot : l \in Leases(pool)} = SlotIds
      /\ \A l \in Leases(pool) :
            /\ l.pages \cap pool.free_pages = {} /\ l.slot \notin pool.free_slots
            /\ \A m \in Leases(pool) \ {l} : l.pages \cap m.pages = {} /\ l.slot # m.slot
  BY DEF Exact, Conserved
<1>6. Conserved(next)
  <2>1. next.free_pages \cup UNION {l.pages : l \in Leases(next)} = PageIds
    BY <1>1, <1>4, <1>5
  <2>2. next.free_slots \cup {l.slot : l \in Leases(next)} = SlotIds
    BY <1>1, <1>4, <1>5
  <2>3. ASSUME NEW l \in Leases(next)
        PROVE  l.pages \cap next.free_pages = {} /\ l.slot \notin next.free_slots
    BY <1>1, <1>3, <1>4, <1>5
  <2>4. \A l \in Leases(next) : \A m \in Leases(next) \ {l} :
            l.pages \cap m.pages = {} /\ l.slot # m.slot
    BY <1>4, <1>5
  <2> QED
    BY <2>1, <2>2, <2>3, <2>4 DEF Conserved
<1> QED
  BY <1>1, <1>2, <1>6 DEF Exact, next
=============================================================================
