-------------------------- MODULE Transfer_proofs --------------------------
(***************************************************************************)
(* The hand-over protocol of InMemoryTransport for every number of         *)
(* requests, epochs, pages and slots: whatever callers repeat, delay or    *)
(* reorder, nothing is lost and a commit returns its own lease's payload.  *)
(***************************************************************************)
EXTENDS Transfer, ResourcePool_proofs

Manifest == [lease : LeaseSet(Requests, Epochs), model_key : Keys, state : States]

Handover ==
    [lease : LeaseSet(Requests, Epochs),
     status : {"Reserved", "InFlight", "Complete", "Committed", "Acknowledged"},
     manifest : Manifest \cup {NoManifest}]

\* The table's entry of a request is that of the lease the pool has for it, which
\* may have grown meanwhile.
Tabled ==
    /\ DOMAIN handovers = DOMAIN pool.active
    /\ handovers \in [DOMAIN handovers -> Handover]
    /\ \A r \in DOMAIN handovers :
          /\ handovers[r].lease.generation = pool.active[r].generation
          /\ handovers[r].lease.pages \subseteq pool.active[r].pages

\* Generations tell leases apart: none is issued twice and the counter, which is
\* below its limit, never wraps.
Numbered ==
    /\ pool.generation \in 0 .. MaxLeases
    /\ \A r \in DOMAIN pool.active :
          /\ pool.active[r].generation \in 1 .. pool.generation
          /\ \A q \in DOMAIN pool.active \ {r} :
                pool.active[q].generation # pool.active[r].generation
    /\ DOMAIN accepted \subseteq 1 .. pool.generation

\* An entry past Reserved has the payload first accepted under its generation, no
\* larger than the lease was then; before that no payload was accepted.
Told ==
    \A r \in DOMAIN handovers :
        LET e == handovers[r]
            g == e.lease.generation
        IN  /\ e.status = "Reserved" <=> g \notin DOMAIN accepted
            /\ e.status # "Reserved" =>
                  /\ e.manifest = accepted[g] /\ e.manifest \in Manifest
                  /\ e.manifest.state.consumed <= Cardinality(e.lease.pages) * PageTokens
            /\ Committable(e.status) => g \in landed

\* The inductive invariant.
TransferInv ==
    /\ Exact(pool, Requests, Epochs)
    /\ given \in SUBSET LeaseSet(Requests, Epochs)
    /\ Tabled /\ Numbered /\ Told

\* A new pool is exact and the table is empty.
LEMMA InitInv == TransferInit => TransferInv
<1> SUFFICES ASSUME TransferInit PROVE TransferInv
  OBVIOUS
<1>1. /\ pool.free_pages = PageIds /\ pool.free_slots = SlotIds /\ pool.retired = {}
      /\ DOMAIN pool.active = {} /\ pool.generation = 0
  BY DEF TransferInit, NewPool
<1>2. pool \in PoolSet(Requests, Epochs)
  <2>1. << >> \in ActiveSet(Requests, Epochs)
    <3>1. DOMAIN << >> \subseteq Requests /\ << >> \in [DOMAIN << >> -> LeaseSet(Requests, Epochs)]
      OBVIOUS
    <3> QED
      BY <3>1, ActiveIs
  <2> QED
    BY <2>1 DEF TransferInit, NewPool, PoolSet
<1>3. Leases(pool) = {}
  BY <1>1 DEF Leases
<1>4. Conserved(pool)
  BY <1>1, <1>3 DEF Conserved
<1>5. Exact(pool, Requests, Epochs)
  BY <1>1, <1>2, <1>4 DEF Exact
<1>6. DOMAIN handovers = {} /\ DOMAIN accepted = {} /\ given = {}
  BY DEF TransferInit
<1>7. Tabled
  BY <1>1, <1>6 DEF Tabled
<1>8. Numbered
  BY <1>1, <1>6, TransferAssumption DEF Numbered
<1>9. Told
  BY <1>6 DEF Told
<1> QED
  BY <1>5, <1>6, <1>7, <1>8, <1>9 DEF TransferInv

\* What a state of the invariant gives each step.
LEMMA Shapes ==
    ASSUME TransferInv
    PROVE  /\ pool.generation \in Nat
           /\ pool.active \in [DOMAIN pool.active -> LeaseSet(Requests, Epochs)]
           /\ DOMAIN pool.active \subseteq Requests
           /\ handovers \in [DOMAIN handovers -> Handover]
           /\ DOMAIN handovers = DOMAIN pool.active
BY ActiveIs DEF TransferInv, Exact, PoolSet, Tabled

\* reserve: a lease of a generation that was never issued, with an entry of its own.
LEMMA ReserveInv ==
    ASSUME TransferInv, NEW r \in Requests, NEW e \in Epochs, NEW n \in TokenCounts,
           Reserve(r, e, n)
    PROVE  TransferInv'
<1> DEFINE lease == NewLease(pool, r, e, n)
           entry == [lease |-> lease, status |-> "Reserved", manifest |-> NoManifest]
<1>0. /\ Exact(pool, Requests, Epochs) /\ pool.generation \in Nat
      /\ pool.generation < MaxLeases /\ ~Owns(pool, r) /\ HasRoom(pool, n) /\ n \in Nat
      /\ MaxLeases \in 0 .. Generations - 1 /\ Generations \in Nat \ {0}
  BY Shapes, TransferAssumption, ResourceAssumption DEF Reserve, TransferInv
<1>1. /\ lease \in LeaseSet(Requests, Epochs)
      /\ lease.pages \subseteq pool.free_pages /\ lease.slot \in pool.free_slots
  BY <1>0, NewLeaseFits
<1>2. lease.request = r /\ lease.generation = pool.generation + 1
  <2>1. pool.generation + 1 = (Generations * 0) + (pool.generation + 1)
        /\ pool.generation + 1 \in 0 .. Generations - 1 /\ pool.generation + 1 \in Int
    BY <1>0
  <2>2. (pool.generation + 1) % Generations = pool.generation + 1
    BY <1>0, <2>1, DivisionUnique
  <2> QED
    BY <2>2 DEF NewLease
<1>3. /\ pool' = PoolReserve(pool, lease)
      /\ handovers' = [q \in DOMAIN handovers \cup {r} |-> IF q = r THEN entry ELSE handovers[q]]
      /\ given' = given \cup {lease} /\ UNCHANGED <<accepted, landed>>
  BY DEF Reserve
<1> HIDE DEF lease
<1>4. /\ Exact(pool', Requests, Epochs)
      /\ pool'.active = [q \in DOMAIN pool.active \cup {r} |-> IF q = r THEN lease ELSE pool.active[q]]
      /\ pool'.generation = pool.generation + 1
  BY <1>0, <1>1, <1>2, <1>3, ReserveExact
<1>5. /\ DOMAIN pool'.active = DOMAIN pool.active \cup {r} /\ r \notin DOMAIN pool.active
      /\ pool'.active[r] = lease /\ \A q \in DOMAIN pool.active : pool'.active[q] = pool.active[q]
  BY <1>0, <1>4 DEF Owns
<1>6. entry \in Handover
  BY <1>1 DEF Handover
<1>7. /\ entry.lease = lease /\ entry.status = "Reserved"
  OBVIOUS
<1> HIDE DEF entry
<1>8. /\ DOMAIN handovers' = DOMAIN handovers \cup {r} /\ handovers'[r] = entry
      /\ \A q \in DOMAIN handovers : handovers'[q] = handovers[q]
      /\ handovers' \in [DOMAIN handovers' -> Handover]
  <2>1. r \notin DOMAIN handovers
    BY <1>5, Shapes
  <2>2. \A q \in DOMAIN handovers \cup {r} :
            (IF q = r THEN entry ELSE handovers[q]) \in Handover
    BY <1>6, Shapes
  <2> QED
    BY <1>3, <2>1, <2>2
<1>9. Tabled'
  BY <1>5, <1>7, <1>8 DEF TransferInv, Tabled
<1>10. /\ pool.generation + 1 \notin DOMAIN accepted
       /\ \A q \in DOMAIN pool.active : pool.active[q].generation \in 1 .. pool.generation
  BY <1>0 DEF TransferInv, Numbered
<1>11. Numbered'
  <2>1. pool'.generation \in 0 .. MaxLeases
    BY <1>0, <1>4
  <2>2. DOMAIN accepted' \subseteq 1 .. pool'.generation
    BY <1>0, <1>3, <1>4 DEF TransferInv, Numbered
  <2>3. ASSUME NEW q \in DOMAIN pool'.active
        PROVE  /\ pool'.active[q].generation \in 1 .. pool'.generation
               /\ \A p \in DOMAIN pool'.active \ {q} :
                     pool'.active[p].generation # pool'.active[q].generation
    BY <1>0, <1>2, <1>4, <1>5, <1>10 DEF TransferInv, Numbered
  <2> QED
    BY <2>1, <2>2, <2>3 DEF Numbered
<1>12. Told'
  <2>1. ~Committable("Reserved")
    BY DEF Committable
  <2>2. \A q \in DOMAIN handovers : handovers[q].lease.generation = pool.active[q].generation
    BY DEF TransferInv, Tabled
  <2> QED
    BY <1>2, <1>3, <1>7, <1>8, <1>10, <2>1 DEF TransferInv, Told, Committable
<1>13. given' \in SUBSET LeaseSet(Requests, Epochs)
  BY <1>1, <1>3 DEF TransferInv
<1> QED
  BY <1>4, <1>9, <1>11, <1>12, <1>13 DEF TransferInv

\* transfer: the first payload under a generation, and only the first.
LEMMA TransferStepInv ==
    ASSUME TransferInv, NEW l \in given, NEW k \in Keys, NEW s \in States,
           Transfer([lease |-> l, model_key |-> k, state |-> s])
    PROVE  TransferInv'
<1> DEFINE m == [lease |-> l, model_key |-> k, state |-> s]
           r == l.request
           g == l.generation
<1>1. /\ l \in LeaseSet(Requests, Epochs) /\ m \in Manifest
  BY DEF TransferInv, Manifest
<1>2. /\ r \in DOMAIN handovers /\ handovers[r].status = "Reserved" /\ l = handovers[r].lease
      /\ r \in DOMAIN pool.active
      /\ m.state.consumed <= Cardinality(l.pages) * PageTokens
      /\ m.lease = l
  BY DEF Transfer, Current, Accepts, WellFormedManifest, Check
<1>3. g \notin DOMAIN accepted
  BY <1>2 DEF TransferInv, Told
<1>4. /\ handovers' = [handovers EXCEPT ![r].manifest = m, ![r].status = "InFlight"]
      /\ accepted' = [h \in DOMAIN accepted \cup {g} |-> IF h = g THEN m ELSE accepted[h]]
      /\ UNCHANGED <<pool, given, landed>>
  BY <1>3 DEF Transfer
<1> HIDE DEF m
<1>5. /\ DOMAIN handovers' = DOMAIN handovers
      /\ \A q \in DOMAIN handovers : q # r => handovers'[q] = handovers[q]
      /\ handovers'[r].lease = l /\ handovers'[r].status = "InFlight"
      /\ handovers'[r].manifest = m
      /\ handovers'[r] \in Handover
      /\ handovers' \in [DOMAIN handovers' -> Handover]
  <2>1. handovers \in [DOMAIN handovers -> Handover]
    BY Shapes
  <2>2. DOMAIN handovers' = DOMAIN handovers
        /\ \A q \in DOMAIN handovers : q # r => handovers'[q] = handovers[q]
    BY <1>4
  <2>3. handovers'[r] = [[handovers[r] EXCEPT !.manifest = m] EXCEPT !.status = "InFlight"]
    BY <1>2, <1>4
  <2>4. /\ handovers'[r] \in Handover /\ handovers'[r].lease = l
        /\ handovers'[r].status = "InFlight" /\ handovers'[r].manifest = m
    BY <1>1, <1>2, <2>1, <2>3 DEF Handover
  <2>5. \A q \in DOMAIN handovers : handovers'[q] \in Handover
    BY <2>1, <2>2, <2>4
  <2>6. handovers' = [q \in DOMAIN handovers |-> handovers'[q]]
    BY <1>4
  <2> QED
    BY <2>2, <2>4, <2>5, <2>6
<1>6. Tabled'
  BY <1>2, <1>4, <1>5 DEF TransferInv, Tabled
<1>7. /\ DOMAIN accepted' = DOMAIN accepted \cup {g} /\ accepted'[g] = m
      /\ \A h \in DOMAIN accepted : accepted'[h] = accepted[h]
  BY <1>3, <1>4
<1>8. /\ pool.active[r].generation = g
      /\ \A q \in DOMAIN handovers : handovers[q].lease.generation = pool.active[q].generation
      /\ \A q \in DOMAIN handovers \ {r} : handovers[q].lease.generation # g
  BY <1>2 DEF TransferInv, Tabled, Numbered
<1>9. Numbered'
  BY <1>2, <1>4, <1>7, <1>8 DEF TransferInv, Numbered
<1>10. Told'
  <2>1. ~Committable("InFlight")
    BY DEF Committable
  <2>2. ASSUME NEW q \in DOMAIN handovers, q # r
        PROVE  LET e == handovers'[q]
                   h == e.lease.generation
               IN  /\ e.status = "Reserved" <=> h \notin DOMAIN accepted'
                   /\ e.status # "Reserved" =>
                         /\ e.manifest = accepted'[h] /\ e.manifest \in Manifest
                         /\ e.manifest.state.consumed <= Cardinality(e.lease.pages) * PageTokens
                   /\ Committable(e.status) => h \in landed'
    <3>1. handovers'[q] = handovers[q] /\ handovers[q].lease.generation # g /\ landed' = landed
      BY <1>4, <1>5, <1>8, <2>2
    <3>2. \A h \in DOMAIN accepted : h # g /\ accepted'[h] = accepted[h]
      BY <1>3, <1>7
    <3> QED
      BY <1>7, <2>2, <3>1, <3>2 DEF TransferInv, Told
  <2>3. LET e == handovers'[r]
            h == e.lease.generation
        IN  /\ e.status = "Reserved" <=> h \notin DOMAIN accepted'
            /\ e.status # "Reserved" =>
                  /\ e.manifest = accepted'[h] /\ e.manifest \in Manifest
                  /\ e.manifest.state.consumed <= Cardinality(e.lease.pages) * PageTokens
            /\ Committable(e.status) => h \in landed'
    BY <1>1, <1>2, <1>5, <1>7, <2>1
  <2> QED
    BY <1>5, <2>2, <2>3, Zenon DEF Told
<1> QED
  BY <1>4, <1>6, <1>9, <1>10 DEF TransferInv

\* complete, commit and acknowledge advance an entry that was accepted.
LEMMA SettleInv ==
    ASSUME TransferInv, NEW l \in given, NEW status \in {"Complete", "Committed", "Acknowledged"},
           Current(l), handovers[l.request].status # "Reserved", SetStatus(l.request, status),
           UNCHANGED <<pool, given, accepted>>, landed \subseteq landed',
           l.generation \in landed'
    PROVE  TransferInv'
<1> DEFINE r == l.request
<1>1. /\ r \in DOMAIN handovers /\ r \in DOMAIN pool.active
      /\ handovers[r].lease.generation = l.generation
  BY DEF Current, Check
<1>2. /\ DOMAIN handovers' = DOMAIN handovers
      /\ \A q \in DOMAIN handovers : q # r => handovers'[q] = handovers[q]
      /\ handovers'[r] = [handovers[r] EXCEPT !.status = status]
      /\ handovers' = [q \in DOMAIN handovers |-> handovers'[q]]
  BY <1>1 DEF SetStatus
<1>3. handovers \in [DOMAIN handovers -> Handover]
  BY Shapes
<1>4. /\ handovers'[r] \in Handover /\ handovers'[r].lease = handovers[r].lease
      /\ handovers'[r].status = status /\ handovers'[r].manifest = handovers[r].manifest
  BY <1>1, <1>2, <1>3 DEF Handover
<1>5. handovers' \in [DOMAIN handovers' -> Handover]
  <2>1. \A q \in DOMAIN handovers : handovers'[q] \in Handover
    BY <1>2, <1>3, <1>4
  <2> QED
    BY <1>2, <2>1
<1>6. Tabled'
  <2>1. DOMAIN handovers' = DOMAIN pool'.active
    BY <1>2 DEF TransferInv, Tabled
  <2>2. ASSUME NEW q \in DOMAIN handovers'
        PROVE  /\ handovers'[q].lease.generation = pool'.active[q].generation
               /\ handovers'[q].lease.pages \subseteq pool'.active[q].pages
    <3>1. handovers'[q].lease = handovers[q].lease /\ q \in DOMAIN handovers
      BY <1>2, <1>4, <2>2
    <3> QED
      BY <3>1 DEF TransferInv, Tabled
  <2> QED
    BY <1>5, <2>1, <2>2 DEF Tabled
<1>7. Numbered'
  BY DEF TransferInv, Numbered
<1>8. Told'
  <2>1. ASSUME NEW q \in DOMAIN handovers, q # r
        PROVE  LET e == handovers'[q]
                   h == e.lease.generation
               IN  /\ e.status = "Reserved" <=> h \notin DOMAIN accepted'
                   /\ e.status # "Reserved" =>
                         /\ e.manifest = accepted'[h] /\ e.manifest \in Manifest
                         /\ e.manifest.state.consumed <= Cardinality(e.lease.pages) * PageTokens
                   /\ Committable(e.status) => h \in landed'
    BY <1>2, <2>1 DEF TransferInv, Told
  <2>2. LET e == handovers'[r]
            h == e.lease.generation
        IN  /\ e.status = "Reserved" <=> h \notin DOMAIN accepted'
            /\ e.status # "Reserved" =>
                  /\ e.manifest = accepted'[h] /\ e.manifest \in Manifest
                  /\ e.manifest.state.consumed <= Cardinality(e.lease.pages) * PageTokens
            /\ Committable(e.status) => h \in landed'
    BY <1>1, <1>4 DEF TransferInv, Told
  <2> QED
    BY <1>2, <2>1, <2>2, Zenon DEF Told
<1> QED
  BY <1>6, <1>7, <1>8 DEF TransferInv

\* finish and abort: the entry goes with the lease.
LEMMA FinishInv ==
    ASSUME TransferInv, NEW l \in given, Finish(l)
    PROVE  TransferInv'
<1> DEFINE r == l.request
<1>1. r \in DOMAIN pool.active /\ Exact(pool, Requests, Epochs)
  BY DEF Finish, Check, TransferInv
<1>2. pool' = Retire(pool, l) /\ UNCHANGED <<given, accepted, landed>>
  BY DEF Finish
<1>3. /\ Exact(pool', Requests, Epochs)
      /\ DOMAIN pool'.active = DOMAIN pool.active \ {r}
      /\ \A q \in DOMAIN pool'.active : pool'.active[q] = pool.active[q]
      /\ pool'.generation = pool.generation
  BY <1>1, <1>2, RetireExact
<1>4. handovers' = [q \in DOMAIN handovers \ {r} |-> handovers[q]]
  BY DEF Finish
<1>5. /\ DOMAIN handovers' = DOMAIN handovers \ {r}
      /\ \A q \in DOMAIN handovers' : handovers'[q] = handovers[q]
      /\ handovers' \in [DOMAIN handovers' -> Handover]
  <2>1. \A q \in DOMAIN handovers \ {r} : handovers[q] \in Handover
    BY Shapes
  <2> QED
    BY <1>4, <2>1
<1>6. Tabled'
  BY <1>3, <1>5 DEF TransferInv, Tabled
<1>7. Numbered'
  BY <1>2, <1>3 DEF TransferInv, Numbered
<1>8. Told'
  BY <1>2, <1>5 DEF TransferInv, Told
<1> QED
  BY <1>2, <1>3, <1>6, <1>7, <1>8 DEF TransferInv

\* ensure: the lease grows, the entry keeps what was reserved.
LEMMA EnsureInv ==
    ASSUME TransferInv, NEW l \in given, NEW n \in TokenCounts, Ensure(l, n)
    PROVE  TransferInv'
<1> DEFINE r == l.request
<1>1. /\ r \in DOMAIN pool.active /\ Exact(pool, Requests, Epochs)
      /\ CanGrow(pool, l, n) /\ n \in Nat
  BY TransferAssumption DEF Ensure, Check, TransferInv
<1>2. /\ pool' = Grown(pool, l, n) /\ UNCHANGED <<handovers, accepted, landed>>
      /\ given' = given \cup {pool'.active[r]}
  BY DEF Ensure
<1>3. /\ Exact(pool', Requests, Epochs)
      /\ DOMAIN pool'.active = DOMAIN pool.active
      /\ \A q \in DOMAIN pool.active : q # r => pool'.active[q] = pool.active[q]
      /\ pool'.active[r].generation = pool.active[r].generation
      /\ pool.active[r].pages \subseteq pool'.active[r].pages
      /\ pool'.generation = pool.generation
  <2>1. /\ Exact(Grown(pool, l, n), Requests, Epochs)
        /\ DOMAIN Grown(pool, l, n).active = DOMAIN pool.active
        /\ \A q \in DOMAIN pool.active : q # r => Grown(pool, l, n).active[q] = pool.active[q]
        /\ Grown(pool, l, n).active[r].generation = pool.active[r].generation
        /\ pool.active[r].pages \subseteq Grown(pool, l, n).active[r].pages
        /\ Grown(pool, l, n).generation = pool.generation
    <3> DEFINE next == Grown(pool, l, n)
    <3>1. /\ Exact(next, Requests, Epochs)
          /\ DOMAIN next.active = DOMAIN pool.active
          /\ \A q \in DOMAIN pool.active : q # l.request => next.active[q] = pool.active[q]
          /\ next.active[l.request].epoch = pool.active[l.request].epoch
          /\ next.active[l.request].generation = pool.active[l.request].generation
          /\ next.active[l.request].slot = pool.active[l.request].slot
          /\ pool.active[l.request].pages \subseteq next.active[l.request].pages
          /\ PagesFor(n) <= Cardinality(next.active[l.request].pages)
          /\ next.retired = pool.retired /\ next.generation = pool.generation
      BY <1>1, GrowExact
    <3> QED
      BY <3>1, Zenon
  <2> QED
    BY <1>2, <2>1, Zenon
<1>4. pool.active[r] \in LeaseSet(Requests, Epochs) /\ pool'.active[r] \in LeaseSet(Requests, Epochs)
  <2>1. pool'.active \in [DOMAIN pool'.active -> LeaseSet(Requests, Epochs)]
    BY <1>3, ActiveIs DEF Exact, PoolSet
  <2> QED
    BY <1>1, <1>3, <2>1, Shapes
<1>5. Tabled'
  BY <1>2, <1>3 DEF TransferInv, Tabled
<1>6. Numbered'
  <2>1. \A q \in DOMAIN pool.active : pool'.active[q].generation = pool.active[q].generation
    BY <1>3
  <2> QED
    BY <1>2, <1>3, <2>1 DEF TransferInv, Numbered
<1>7. Told'
  BY <1>2 DEF TransferInv, Told
<1> QED
  BY <1>2, <1>3, <1>4, <1>5, <1>6, <1>7 DEF TransferInv

\* Every call of the transport keeps the invariant.
LEMMA NextInv == TransferInv /\ [TransferNext]_transferVars => TransferInv'
<1> SUFFICES ASSUME TransferInv, [TransferNext]_transferVars PROVE TransferInv'
  OBVIOUS
<1>1. ASSUME NEW r \in Requests, NEW e \in Epochs, NEW n \in TokenCounts, Reserve(r, e, n)
      PROVE  TransferInv'
  BY <1>1, ReserveInv
<1>2. ASSUME NEW l \in given, NEW k \in Keys, NEW s \in States,
             Transfer([lease |-> l, model_key |-> k, state |-> s])
      PROVE  TransferInv'
  BY <1>2, TransferStepInv
<1>3. ASSUME NEW l \in given, Complete(l) PROVE TransferInv'
  <2>1. /\ Current(l) /\ handovers[l.request].status # "Reserved"
        /\ SetStatus(l.request, "Complete") /\ UNCHANGED <<pool, given, accepted>>
        /\ landed' = landed \cup {l.generation}
    BY <1>3 DEF Complete
  <2> QED
    BY <2>1, SettleInv
<1>4. ASSUME NEW l \in given, Commit(l) \/ Acknowledge(l) PROVE TransferInv'
  <2>1. /\ Current(l) /\ Committable(handovers[l.request].status)
        /\ SetStatus(l.request, "Committed") \/ SetStatus(l.request, "Acknowledged")
        /\ UNCHANGED <<pool, given, accepted, landed>>
    BY <1>4 DEF Commit, Acknowledge, Committable
  <2>2. handovers[l.request].status # "Reserved" /\ l.generation \in landed
    BY <2>1 DEF Current, Committable, TransferInv, Told
  <2> QED
    BY <2>1, <2>2, SettleInv
<1>5. ASSUME NEW l \in given, Finish(l) PROVE TransferInv'
  BY <1>5, FinishInv
<1>6. ASSUME NEW l \in given, NEW n \in TokenCounts, Ensure(l, n) PROVE TransferInv'
  BY <1>6, EnsureInv
<1>7. CASE CompletionFence
  <2>1. /\ Exact(pool', Requests, Epochs) /\ pool'.active = pool.active
        /\ pool'.generation = pool.generation
    BY <1>7, FenceExact DEF CompletionFence, TransferInv
  <2> QED
    BY <1>7, <2>1 DEF CompletionFence, TransferInv, Tabled, Numbered, Told
<1>8. CASE UNCHANGED transferVars
  BY <1>8 DEF transferVars, TransferInv, Tabled, Numbered, Told
<1> QED
  BY <1>1, <1>2, <1>3, <1>4, <1>5, <1>6, <1>7, <1>8, Zenon DEF TransferNext

\* The invariant is what HandoversExact says, and more.
LEMMA InvSuffices == TransferInv => HandoversExact
<1> SUFFICES ASSUME TransferInv PROVE HandoversExact
  OBVIOUS
<1>1. LeasesExact
  BY DEF TransferInv, Exact, Tabled, LeasesExact
<1>2. CommitsOwnPayload
  <2> SUFFICES ASSUME NEW l \in given, Current(l), Committable(handovers[l.request].status)
               PROVE  LET m == handovers[l.request].manifest
                      IN  /\ l.generation \in landed /\ l.generation \in DOMAIN accepted
                          /\ m = accepted[l.generation]
                          /\ m.state.consumed
                                <= Cardinality(pool.active[l.request].pages) * PageTokens
    BY DEF CommitsOwnPayload
  <2> DEFINE r == l.request
             e == handovers[r]
             m == e.manifest
  <2>1. /\ r \in DOMAIN handovers /\ r \in DOMAIN pool.active
        /\ e.lease.generation = l.generation
        /\ e.status # "Reserved"
    BY DEF Current, Check, Committable
  <2>2. /\ l.generation \in landed /\ l.generation \in DOMAIN accepted
        /\ m = accepted[l.generation] /\ m \in Manifest
        /\ m.state.consumed <= Cardinality(e.lease.pages) * PageTokens
    BY <2>1 DEF TransferInv, Told
  <2>3. e.lease.pages \subseteq pool.active[r].pages /\ pool.active[r].pages \in SUBSET PageIds
    BY <2>1, Shapes DEF TransferInv, Tabled, LeaseSet
  <2>4. m.state.consumed \in Nat /\ PageTokens \in Nat
    BY <2>2, TransferAssumption, ResourceAssumption DEF Manifest
  <2> HIDE DEF r, e, m
  <2>5. /\ IsFiniteSet(pool.active[r].pages) /\ Cardinality(pool.active[r].pages) \in Nat
        /\ Cardinality(e.lease.pages) \in Nat
        /\ Cardinality(e.lease.pages) <= Cardinality(pool.active[r].pages)
    BY <2>3, PoolNumbers, FS_Subset
  <2>6. Cardinality(e.lease.pages) * PageTokens <= Cardinality(pool.active[r].pages) * PageTokens
    BY <2>4, <2>5
  <2>7. m.state.consumed <= Cardinality(pool.active[r].pages) * PageTokens
    BY <2>2, <2>4, <2>5, <2>6
  <2> QED
    BY <2>2, <2>7 DEF m, e, r
<1> QED
  BY <1>1, <1>2 DEF HandoversExact

\* Late, repeated and reordered calls of InMemoryTransport lose no page and no slot,
\* and commit returns the payload that its own lease accepted, once it landed.
THEOREM HandoversAreExact == TransferSpec => []HandoversExact
BY InitInv, NextInv, InvSuffices, PTL DEF TransferSpec
=============================================================================
