----------------------- MODULE ProgramEngine_proofs -----------------------
(***************************************************************************)
(* The state pool's ownership invariants for every set of pools, requests  *)
(* and capacities and every serial limit; and that the engine and its      *)
(* prefix cache use the pool only through its calls: every behaviour of    *)
(* the engine is one of the pool, for every set of prompts and residents.  *)
(* The pool's theorems then hold of the running engine, across failures,   *)
(* evictions and restores.                                                 *)
(***************************************************************************)
EXTENDS ProgramEngine, NumberLemmas, TLAPS

\* What a ticket writes is among the leases it holds.
WritesAreHeld == \A t \in DOMAIN flights : flights[t].writes \subseteq flights[t].leases

\* The inductive invariant: the checked invariants, which are inductive only
\* together (a unit is not freed under rank work because tickets and leases
\* mirror each other, and that mirror needs handles never to be reissued).
IInv ==
    /\ TypeOK
    /\ NoUnitLost
    /\ NoUnitShared
    /\ FlightsHoldLeases
    /\ BorrowsHoldLeases
    /\ SealedNotWritten
    /\ NoStrandedLease
    /\ WritesAreHeld

\* Serials are naturals, so a serial that was never issued is in no map.
LEMMA NextIsFresh ==
    ASSUME TypeOK
    PROVE  /\ next + 1 \notin DOMAIN allocations
           /\ next + 1 \notin DOMAIN borrowers
           /\ next + 1 \notin DOMAIN flights
           /\ next \in Nat
           /\ SerialLeft => next + 1 \in Serials /\ next + 1 \in 0 .. MaxSerial
BY PoolsAssumption DEF TypeOK, Serials, SerialLeft

\* The pool starts with every unit free and no handle.
LEMMA InitInv == Init => IInv
<1> SUFFICES ASSUME Init PROVE IInv
  OBVIOUS
<1>1. TypeOK
  <2>1. free \in [Pools -> SUBSET Nat]
    BY PoolsAssumption DEF Init, Units
  <2>2. next \in 0 .. MaxSerial
    BY PoolsAssumption, SMT DEF Init
  <2>4. poisoned \in BOOLEAN
    BY Zenon DEF Init
  <2>3. /\ DOMAIN allocations = {} /\ allocations \in [DOMAIN allocations -> Allocation]
        /\ DOMAIN borrowers = {} /\ borrowers \in [DOMAIN borrowers -> Serials]
        /\ DOMAIN flights = {} /\ flights \in [DOMAIN flights -> Flight]
    BY DEF Init
  <2> QED
    BY <2>1, <2>2, <2>3, <2>4 DEF TypeOK
<1>2. NoUnitLost /\ NoUnitShared
  BY DEF Init, NoUnitLost, NoUnitShared
<1>3. FlightsHoldLeases /\ BorrowsHoldLeases /\ SealedNotWritten /\ WritesAreHeld
  BY DEF Init, FlightsHoldLeases, BorrowsHoldLeases, SealedNotWritten, WritesAreHeld
<1>4. NoStrandedLease
  BY DEF Init, NoStrandedLease, Ready
<1> QED
  BY <1>1, <1>2, <1>3, <1>4 DEF IInv

\* reserve_inner: units move from the free lists to a lease that is new.
LEMMA TakeUnitsInv ==
    ASSUME IInv, NEW req \in Requests, NEW tokens \in 1 .. MaxContext,
           NEW chosen, chosen = [p \in Pools |-> chosen[p]],
           Reservable(req, tokens, chosen),
           TakeUnits(req, tokens, chosen)
    PROVE  IInv'
<1> DEFINE new == next + 1
           rec == [request |-> req, token_limit |-> tokens, bindings |-> chosen,
                   retired |-> FALSE, sealed |-> FALSE,
                   borrowers |-> {}, pending |-> {}]
<1>1. /\ new \notin DOMAIN allocations /\ new \in Serials /\ new \in 0 .. MaxSerial
      /\ next \in Nat
  BY NextIsFresh DEF IInv, Reservable
<1>2. \A p \in Pools : chosen[p] \subseteq free[p]
  BY DEF Reservable
<1>3. rec \in Allocation
  BY <1>2 DEF IInv, TypeOK, Allocation
<1>4. /\ DOMAIN allocations' = DOMAIN allocations \cup {new}
      /\ allocations'[new] = rec
      /\ \A l \in DOMAIN allocations : allocations'[l] = allocations[l]
  BY <1>1 DEF TakeUnits, MapInsert
<1>5. /\ free' = [p \in Pools |-> free[p] \ chosen[p]]
      /\ next' = new
      /\ UNCHANGED <<borrowers, flights, poisoned>>
  BY DEF TakeUnits
<1> HIDE DEF new, rec
<1>6. TypeOK'
  <2>1. allocations' \in [DOMAIN allocations' -> Allocation]
    <3>1. \A l \in DOMAIN allocations' : allocations'[l] \in Allocation
      BY <1>3, <1>4 DEF IInv, TypeOK
    <3> QED
      BY <3>1 DEF TakeUnits, MapInsert
  <2>2. DOMAIN allocations' \subseteq 1 .. next'
    BY <1>1, <1>4, <1>5 DEF IInv, TypeOK, new
  <2>3. DOMAIN borrowers' \subseteq 1 .. next' /\ DOMAIN flights' \subseteq 1 .. next'
    BY <1>1, <1>5 DEF IInv, TypeOK, new
  <2>4. free' \in [Pools -> SUBSET Nat]
    BY <1>5 DEF IInv, TypeOK
  <2> QED
    BY <1>1, <1>5, <2>1, <2>2, <2>3, <2>4 DEF IInv, TypeOK
<1>7. rec.bindings = chosen /\ rec.pending = {} /\ rec.borrowers = {} /\ ~rec.retired
      /\ ~rec.sealed
  BY DEF rec
<1>8. NoUnitLost'
  BY <1>2, <1>4, <1>5, <1>7 DEF IInv, NoUnitLost
<1>9. NoUnitShared'
  BY <1>1, <1>2, <1>4, <1>5, <1>7 DEF IInv, NoUnitShared
<1>10. FlightsHoldLeases' /\ BorrowsHoldLeases'
  BY <1>1, <1>4, <1>5, <1>7 DEF IInv, FlightsHoldLeases, BorrowsHoldLeases
<1>11. SealedNotWritten' /\ WritesAreHeld'
  BY <1>1, <1>4, <1>5, <1>7 DEF IInv, SealedNotWritten, WritesAreHeld
<1>12. NoStrandedLease'
  BY <1>1, <1>4, <1>7 DEF IInv, NoStrandedLease, Ready
<1> QED
  BY <1>6, <1>8, <1>9, <1>10, <1>11, <1>12 DEF IInv

\* pin(): a fresh borrow is recorded on both sides.
LEMMA PinInv ==
    ASSUME IInv, NEW lease \in DOMAIN allocations, Pin(lease),
           lease \in Usable \/ allocations[lease].sealed
    PROVE  IInv'
<1> DEFINE new == next + 1
           rec == [allocations[lease] EXCEPT !.borrowers = @ \cup {new}]
<1>1. /\ new \notin DOMAIN borrowers /\ new \in Serials /\ new \in 0 .. MaxSerial
      /\ next \in Nat
  BY NextIsFresh DEF IInv, Pin
<1>2. allocations[lease] \in Allocation
  BY DEF IInv, TypeOK
<1>3. /\ rec \in Allocation
      /\ rec.borrowers = allocations[lease].borrowers \cup {new}
      /\ rec.pending = allocations[lease].pending
      /\ rec.bindings = allocations[lease].bindings
      /\ rec.retired = allocations[lease].retired
      /\ rec.sealed = allocations[lease].sealed
  BY <1>1, <1>2 DEF Allocation
<1>4. allocations' = [allocations EXCEPT ![lease] = rec]
  BY <1>2 DEF Pin, IInv, TypeOK
<1>5. /\ DOMAIN borrowers' = DOMAIN borrowers \cup {new}
      /\ borrowers'[new] = lease
      /\ \A b \in DOMAIN borrowers : borrowers'[b] = borrowers[b]
  BY <1>1 DEF Pin, MapInsert
<1>6. next' = new /\ UNCHANGED <<free, flights, poisoned>>
  BY DEF Pin
<1> HIDE DEF new, rec
<1>7. TypeOK'
  <2>1. borrowers' \in [DOMAIN borrowers' -> Serials]
    <3>1. lease \in Serials
      BY <1>1, PoolsAssumption DEF IInv, TypeOK, Serials
    <3>2. \A b \in DOMAIN borrowers' : borrowers'[b] \in Serials
      BY <1>5, <3>1 DEF IInv, TypeOK
    <3> QED
      BY <3>2 DEF Pin, MapInsert
  <2>2. allocations' \in [DOMAIN allocations' -> Allocation]
    BY <1>3, <1>4 DEF IInv, TypeOK
  <2>3. /\ DOMAIN borrowers' \subseteq 1 .. next' /\ DOMAIN flights' \subseteq 1 .. next'
        /\ DOMAIN allocations' \subseteq 1 .. next'
    BY <1>1, <1>4, <1>5, <1>6 DEF IInv, TypeOK, new
  <2> QED
    BY <1>1, <1>6, <2>1, <2>2, <2>3 DEF IInv, TypeOK
<1>8. NoUnitLost' /\ NoUnitShared'
  BY <1>3, <1>4, <1>6 DEF IInv, NoUnitLost, NoUnitShared, Units, TypeOK
<1>9. FlightsHoldLeases' /\ SealedNotWritten' /\ WritesAreHeld'
  BY <1>3, <1>4, <1>6 DEF IInv, FlightsHoldLeases, SealedNotWritten, WritesAreHeld, TypeOK
<1>10. BorrowsHoldLeases'
  BY <1>1, <1>3, <1>4, <1>5 DEF IInv, BorrowsHoldLeases, TypeOK
<1>11. NoStrandedLease'
  BY <1>3, <1>4 DEF IInv, NoStrandedLease, Ready, TypeOK
<1> QED
  BY <1>7, <1>8, <1>9, <1>10, <1>11 DEF IInv

\* seal(): refused while rank work is incomplete, so no writer is running.
LEMMA SealInv ==
    ASSUME IInv, NEW lease \in DOMAIN allocations, Seal(lease)
    PROVE  IInv'
<1> DEFINE rec == [allocations[lease] EXCEPT !.sealed = TRUE]
<1>1. allocations[lease] \in Allocation
  BY DEF IInv, TypeOK
<1>2. /\ rec \in Allocation
      /\ rec.borrowers = allocations[lease].borrowers
      /\ rec.pending = allocations[lease].pending
      /\ rec.bindings = allocations[lease].bindings
      /\ rec.retired = allocations[lease].retired
  BY <1>1 DEF Allocation
<1>3. /\ allocations' = [allocations EXCEPT ![lease] = rec]
      /\ allocations[lease].pending = {}
      /\ UNCHANGED <<free, next, borrowers, flights, poisoned>>
  BY <1>1 DEF Seal, IInv, TypeOK
<1> HIDE DEF rec
<1>4. TypeOK'
  BY <1>2, <1>3 DEF IInv, TypeOK
<1>5. NoUnitLost' /\ NoUnitShared'
  BY <1>2, <1>3 DEF IInv, NoUnitLost, NoUnitShared, Units, TypeOK
<1>6. FlightsHoldLeases' /\ BorrowsHoldLeases' /\ WritesAreHeld'
  BY <1>2, <1>3 DEF IInv, FlightsHoldLeases, BorrowsHoldLeases, WritesAreHeld, TypeOK
<1>7. SealedNotWritten'
  <2>1. \A t \in DOMAIN flights : lease \notin flights[t].writes
    BY <1>3 DEF IInv, FlightsHoldLeases, WritesAreHeld
  <2> QED
    BY <1>2, <1>3, <2>1 DEF IInv, SealedNotWritten, TypeOK
<1>8. NoStrandedLease'
  BY <1>2, <1>3 DEF IInv, NoStrandedLease, Ready, TypeOK
<1> QED
  BY <1>4, <1>5, <1>6, <1>7, <1>8 DEF IInv

\* reclaim(), on a map that differs from the current one in flags and holders
\* only: units are conserved and no idle retired lease remains.
LEMMA ReclaimInv ==
    ASSUME IInv, NEW allocs, allocs \in [DOMAIN allocations -> Allocation],
           \A l \in DOMAIN allocations : allocs[l].bindings = allocations[l].bindings,
           Reclaim(allocs)
    PROVE  /\ free' \in [Pools -> SUBSET Nat]
           /\ allocations' \in [DOMAIN allocations' -> Allocation]
           /\ DOMAIN allocations' = DOMAIN allocations \ Ready(allocs)
           /\ \A l \in DOMAIN allocations' : allocations'[l] = allocs[l]
           /\ NoUnitLost'
           /\ NoUnitShared'
           /\ NoStrandedLease'
<1>1. /\ DOMAIN allocs = DOMAIN allocations
      /\ DOMAIN allocations' = DOMAIN allocations \ Ready(allocs)
      /\ \A l \in DOMAIN allocations' : allocations'[l] = allocs[l]
  BY DEF Reclaim
<1>2. allocations' \in [DOMAIN allocations' -> Allocation]
  BY <1>1 DEF Reclaim
<1>3. \A p \in Pools : \A u : u \in free'[p] <=>
         u \in free[p] \/ \E l \in Ready(allocs) : u \in allocations[l].bindings[p]
  BY DEF Reclaim, Ready
<1>4. Ready(allocs) \subseteq DOMAIN allocations
  BY <1>1 DEF Ready
<1>5. free' \in [Pools -> SUBSET Nat]
  <2>1. \A p \in Pools : free'[p] \subseteq Nat
    <3> SUFFICES ASSUME NEW p \in Pools, NEW u \in free'[p] PROVE u \in Nat
      OBVIOUS
    <3>1. \A l \in DOMAIN allocations : allocations[l].bindings[p] \subseteq Nat
      BY DEF IInv, TypeOK, Allocation
    <3> QED
      BY <1>3, <1>4, <3>1 DEF IInv, TypeOK
  <2> QED
    BY <2>1 DEF Reclaim
<1>6. \A l \in DOMAIN allocations' : allocations'[l].bindings = allocations[l].bindings
  BY <1>1
<1>7. NoUnitLost'
  BY <1>1, <1>3, <1>4, <1>6 DEF IInv, NoUnitLost, Units
<1>8. NoUnitShared'
  <2> SUFFICES ASSUME NEW p \in Pools
               PROVE  /\ free'[p] \subseteq Units(p)
                      /\ \A l \in DOMAIN allocations' :
                           /\ allocations'[l].bindings[p] \subseteq Units(p)
                           /\ free'[p] \cap allocations'[l].bindings[p] = {}
                           /\ \A m \in DOMAIN allocations' \ {l} :
                                allocations'[l].bindings[p]
                                  \cap allocations'[m].bindings[p] = {}
    BY DEF NoUnitShared, Units
  <2> QED
    BY <1>1, <1>3, <1>4, <1>6 DEF IInv, NoUnitShared
<1>9. NoStrandedLease'
  BY <1>1 DEF NoStrandedLease, Ready
<1> QED
  BY <1>1, <1>2, <1>5, <1>7, <1>8, <1>9

\* release(): the borrow leaves both maps, then reclaim() runs.
LEMMA ReleaseInv ==
    ASSUME IInv, NEW borrowed \in DOMAIN borrowers, Release(borrowed)
    PROVE  IInv'
<1> DEFINE lease == borrowers[borrowed]
           rec == [allocations[lease] EXCEPT !.borrowers = @ \ {borrowed}]
           allocs == [allocations EXCEPT ![lease] = rec]
<1>1. lease \in DOMAIN allocations /\ allocations[lease] \in Allocation
  BY DEF IInv, BorrowsHoldLeases, TypeOK
<1>2. /\ rec \in Allocation
      /\ rec.borrowers = allocations[lease].borrowers \ {borrowed}
      /\ rec.pending = allocations[lease].pending
      /\ rec.bindings = allocations[lease].bindings
      /\ rec.sealed = allocations[lease].sealed
  BY <1>1 DEF Allocation
<1>3. Reclaim(allocs)
  BY <1>1 DEF Release, IInv, TypeOK
<1>4. /\ DOMAIN borrowers' = DOMAIN borrowers \ {borrowed}
      /\ \A b \in DOMAIN borrowers' : borrowers'[b] = borrowers[b]
      /\ borrowers' \in [DOMAIN borrowers' -> Serials]
      /\ UNCHANGED <<next, flights, poisoned>>
  BY DEF Release, MapRemove, IInv, TypeOK
<1> HIDE DEF rec
<1>5. /\ allocs \in [DOMAIN allocations -> Allocation]
      /\ \A l \in DOMAIN allocations : allocs[l].bindings = allocations[l].bindings
      /\ allocs[lease] = rec
      /\ \A l \in DOMAIN allocations \ {lease} : allocs[l] = allocations[l]
  BY <1>1, <1>2 DEF IInv, TypeOK
<1> HIDE DEF allocs, lease
<1>6. /\ free' \in [Pools -> SUBSET Nat]
      /\ allocations' \in [DOMAIN allocations' -> Allocation]
      /\ DOMAIN allocations' = DOMAIN allocations \ Ready(allocs)
      /\ \A l \in DOMAIN allocations' : allocations'[l] = allocs[l]
      /\ NoUnitLost' /\ NoUnitShared' /\ NoStrandedLease'
  BY <1>3, <1>5, ReclaimInv
<1>7. TypeOK'
  BY <1>4, <1>6 DEF IInv, TypeOK
<1>8. \A l \in DOMAIN allocations :
        /\ allocs[l].pending = allocations[l].pending
        /\ allocs[l].sealed = allocations[l].sealed
        /\ allocs[l].borrowers = allocations[l].borrowers \ {borrowed}
  BY <1>1, <1>2, <1>5 DEF IInv, BorrowsHoldLeases, lease
<1>9. FlightsHoldLeases' /\ WritesAreHeld' /\ SealedNotWritten'
  <2>1. \A t \in DOMAIN flights : \A l \in flights[t].leases : l \in DOMAIN allocations'
    BY <1>5, <1>6, <1>8 DEF IInv, FlightsHoldLeases, Ready
  <2> QED
    BY <1>4, <1>6, <1>8, <2>1
       DEF IInv, FlightsHoldLeases, WritesAreHeld, SealedNotWritten
<1>10. BorrowsHoldLeases'
  <2>1. \A b \in DOMAIN borrowers' : borrowers[b] \in DOMAIN allocations'
    BY <1>4, <1>5, <1>6, <1>8 DEF IInv, BorrowsHoldLeases, Ready
  <2> QED
    BY <1>4, <1>6, <1>8, <2>1 DEF IInv, BorrowsHoldLeases
<1> QED
  BY <1>6, <1>7, <1>9, <1>10 DEF IInv

\* retire(): the lease is marked, then reclaim() runs.
LEMMA RetireInv ==
    ASSUME IInv, NEW lease \in DOMAIN allocations, Retire(lease)
    PROVE  IInv'
<1> DEFINE rec == [allocations[lease] EXCEPT !.retired = TRUE]
           allocs == [allocations EXCEPT ![lease] = rec]
<1>1. allocations[lease] \in Allocation
  BY DEF IInv, TypeOK
<1>2. /\ rec \in Allocation
      /\ rec.borrowers = allocations[lease].borrowers
      /\ rec.pending = allocations[lease].pending
      /\ rec.bindings = allocations[lease].bindings
      /\ rec.sealed = allocations[lease].sealed
  BY <1>1 DEF Allocation
<1>3. Reclaim(allocs) /\ UNCHANGED <<next, borrowers, flights, poisoned>>
  BY <1>1 DEF Retire, IInv, TypeOK
<1> HIDE DEF rec
<1>4. /\ allocs \in [DOMAIN allocations -> Allocation]
      /\ \A l \in DOMAIN allocations :
           /\ allocs[l].bindings = allocations[l].bindings
           /\ allocs[l].borrowers = allocations[l].borrowers
           /\ allocs[l].pending = allocations[l].pending
           /\ allocs[l].sealed = allocations[l].sealed
  BY <1>1, <1>2 DEF IInv, TypeOK
<1> HIDE DEF allocs
<1>5. /\ free' \in [Pools -> SUBSET Nat]
      /\ allocations' \in [DOMAIN allocations' -> Allocation]
      /\ DOMAIN allocations' = DOMAIN allocations \ Ready(allocs)
      /\ \A l \in DOMAIN allocations' : allocations'[l] = allocs[l]
      /\ NoUnitLost' /\ NoUnitShared' /\ NoStrandedLease'
  BY <1>3, <1>4, ReclaimInv
<1>6. TypeOK'
  BY <1>3, <1>5 DEF IInv, TypeOK
<1>7. FlightsHoldLeases' /\ WritesAreHeld' /\ SealedNotWritten'
  <2>1. \A t \in DOMAIN flights : \A l \in flights[t].leases : l \in DOMAIN allocations'
    BY <1>4, <1>5 DEF IInv, FlightsHoldLeases, Ready
  <2> QED
    BY <1>3, <1>4, <1>5, <2>1
       DEF IInv, FlightsHoldLeases, WritesAreHeld, SealedNotWritten
<1>8. BorrowsHoldLeases'
  <2>1. \A b \in DOMAIN borrowers : borrowers[b] \in DOMAIN allocations'
    BY <1>4, <1>5 DEF IInv, BorrowsHoldLeases, Ready
  <2> QED
    BY <1>3, <1>4, <1>5, <2>1 DEF IInv, BorrowsHoldLeases
<1> QED
  BY <1>5, <1>6, <1>7, <1>8 DEF IInv

\* submit(): the ticket is recorded on every lease it reads or writes.
LEMMA SubmitInv ==
    ASSUME IInv, NEW held \in SUBSET DOMAIN allocations,
           NEW reads \in SUBSET DOMAIN borrowers, Submit(held, reads)
    PROVE  IInv'
<1> DEFINE new == next + 1
           all == held \cup {borrowers[r] : r \in reads}
           flight == [remaining_ranks |-> Ranks, leases |-> all, writes |-> held]
<1>1. /\ new \notin DOMAIN flights /\ new \in Serials /\ new \in 0 .. MaxSerial
      /\ next \in Nat
  BY NextIsFresh DEF IInv, Submit
<1>2. all \subseteq DOMAIN allocations /\ DOMAIN allocations \subseteq Serials
  BY PoolsAssumption DEF IInv, BorrowsHoldLeases, TypeOK, Serials
<1>3. Ranks # {}
  <2>1. PICK p \in Pools : TRUE
    BY PoolsAssumption
  <2> QED
    BY <2>1 DEF Ranks
<1>4. /\ flight \in Flight
      /\ flight.leases = all /\ flight.writes = held /\ flight.remaining_ranks = Ranks
  BY <1>2 DEF Flight
<1>5. /\ DOMAIN flights' = DOMAIN flights \cup {new}
      /\ flights'[new] = flight
      /\ \A t \in DOMAIN flights : flights'[t] = flights[t]
      /\ next' = new
      /\ UNCHANGED <<free, borrowers, poisoned>>
  BY <1>1 DEF Submit, MapInsert
<1>6. \A l \in held : ~allocations[l].sealed
  BY DEF Submit
<1>7. /\ DOMAIN allocations' = DOMAIN allocations
      /\ \A l \in DOMAIN allocations : allocations'[l] =
           IF l \in all THEN [allocations[l] EXCEPT !.pending = @ \cup {new}]
           ELSE allocations[l]
      /\ allocations' = [l \in DOMAIN allocations |-> allocations'[l]]
  BY DEF Submit
<1> HIDE DEF new, all, flight
<1>8. \A l \in DOMAIN allocations :
        /\ allocations'[l] \in Allocation
        /\ allocations'[l].bindings = allocations[l].bindings
        /\ allocations'[l].borrowers = allocations[l].borrowers
        /\ allocations'[l].sealed = allocations[l].sealed
        /\ allocations'[l].retired = allocations[l].retired
        /\ l \in all => allocations'[l].pending = allocations[l].pending \cup {new}
        /\ l \notin all => allocations'[l].pending = allocations[l].pending
  <2> SUFFICES ASSUME NEW l \in DOMAIN allocations
               PROVE  /\ allocations'[l] \in Allocation
                      /\ allocations'[l].bindings = allocations[l].bindings
                      /\ allocations'[l].borrowers = allocations[l].borrowers
                      /\ allocations'[l].sealed = allocations[l].sealed
                      /\ allocations'[l].retired = allocations[l].retired
                      /\ l \in all => allocations'[l].pending
                                        = allocations[l].pending \cup {new}
                      /\ l \notin all => allocations'[l].pending = allocations[l].pending
    OBVIOUS
  <2>1. allocations[l] \in Allocation
    BY DEF IInv, TypeOK
  <2>2. CASE l \in all
    <3>1. allocations'[l] = [allocations[l] EXCEPT !.pending = @ \cup {new}]
      BY <1>7, <2>2
    <3> QED
      BY <1>1, <2>1, <2>2, <3>1 DEF Allocation
  <2>3. CASE l \notin all
    BY <1>7, <2>1, <2>3
  <2> QED
    BY <2>2, <2>3
<1>9. TypeOK'
  <2>1. flights' \in [DOMAIN flights' -> Flight]
    <3>1. \A t \in DOMAIN flights' : flights'[t] \in Flight
      BY <1>4, <1>5 DEF IInv, TypeOK
    <3> QED
      BY <3>1 DEF Submit, MapInsert
  <2>2. allocations' \in [DOMAIN allocations' -> Allocation]
    BY <1>7, <1>8
  <2>3. /\ DOMAIN borrowers' \subseteq 1 .. next' /\ DOMAIN flights' \subseteq 1 .. next'
        /\ DOMAIN allocations' \subseteq 1 .. next'
    BY <1>1, <1>5, <1>7 DEF IInv, TypeOK, new
  <2> QED
    BY <1>1, <1>5, <2>1, <2>2, <2>3 DEF IInv, TypeOK
<1>10. NoUnitLost' /\ NoUnitShared'
  BY <1>5, <1>7, <1>8 DEF IInv, NoUnitLost, NoUnitShared, Units
<1>11. FlightsHoldLeases'
  <2>1. \A t \in DOMAIN flights' :
          /\ flights'[t].remaining_ranks # {}
          /\ \A l \in flights'[t].leases :
                l \in DOMAIN allocations' /\ t \in allocations'[l].pending
    BY <1>2, <1>3, <1>4, <1>5, <1>7, <1>8 DEF IInv, FlightsHoldLeases
  <2>2. \A l \in DOMAIN allocations' : \A t \in allocations'[l].pending :
          t \in DOMAIN flights' /\ l \in flights'[t].leases
    BY <1>1, <1>4, <1>5, <1>7, <1>8 DEF IInv, FlightsHoldLeases
  <2> QED
    BY <2>1, <2>2 DEF FlightsHoldLeases
<1>12. BorrowsHoldLeases'
  BY <1>5, <1>7, <1>8 DEF IInv, BorrowsHoldLeases
<1>13. SealedNotWritten' /\ WritesAreHeld'
  BY <1>4, <1>5, <1>6, <1>7, <1>8 DEF IInv, SealedNotWritten, WritesAreHeld, all
<1>14. NoStrandedLease'
  BY <1>7, <1>8 DEF IInv, NoStrandedLease, Ready
<1> QED
  BY <1>9, <1>10, <1>11, <1>12, <1>13, <1>14 DEF IInv

\* complete(), not the last rank: only the flight's remaining ranks change.
LEMMA CompleteSomeInv ==
    ASSUME IInv, NEW tick \in DOMAIN flights, NEW rank \in Ranks,
           Complete(tick, rank), flights[tick].remaining_ranks # {rank}
    PROVE  IInv'
<1> DEFINE flight == [flights[tick] EXCEPT !.remaining_ranks = @ \ {rank}]
<1>1. flights[tick] \in Flight
  BY DEF IInv, TypeOK
<1>2. rank \in flights[tick].remaining_ranks
  BY DEF Complete
<1>3. /\ flight \in Flight
      /\ flight.remaining_ranks = flights[tick].remaining_ranks \ {rank}
      /\ flight.leases = flights[tick].leases
      /\ flight.writes = flights[tick].writes
  BY <1>1 DEF Flight
<1>4. /\ flights' = [flights EXCEPT ![tick] = flight]
      /\ UNCHANGED <<free, next, allocations, borrowers, poisoned>>
  BY <1>1 DEF Complete, IInv, TypeOK
<1>5. flight.remaining_ranks # {}
  BY <1>2, <1>3
<1> HIDE DEF flight
<1>6. TypeOK'
  BY <1>3, <1>4 DEF IInv, TypeOK
<1>7. NoUnitLost' /\ NoUnitShared' /\ BorrowsHoldLeases' /\ NoStrandedLease'
  BY <1>4 DEF IInv, NoUnitLost, NoUnitShared, BorrowsHoldLeases, NoStrandedLease,
              Ready, Units
<1>8. FlightsHoldLeases' /\ SealedNotWritten' /\ WritesAreHeld'
  BY <1>3, <1>4, <1>5 DEF IInv, TypeOK, FlightsHoldLeases, SealedNotWritten, WritesAreHeld
<1> QED
  BY <1>6, <1>7, <1>8 DEF IInv

\* complete(), the last rank: the ticket leaves both maps, then reclaim() runs.
LEMMA CompleteLastInv ==
    ASSUME IInv, NEW tick \in DOMAIN flights, NEW rank \in Ranks,
           Complete(tick, rank), flights[tick].remaining_ranks = {rank}
    PROVE  IInv'
<1> DEFINE held == flights[tick].leases
           allocs == [l \in DOMAIN allocations |->
                        IF l \in held
                        THEN [allocations[l] EXCEPT !.pending = @ \ {tick}]
                        ELSE allocations[l]]
<1>1. /\ Reclaim(allocs)
      /\ UNCHANGED <<next, borrowers, poisoned>>
  BY DEF Complete
<1>2. /\ DOMAIN flights' = DOMAIN flights \ {tick}
      /\ \A t \in DOMAIN flights' : flights'[t] = flights[t]
      /\ flights' \in [DOMAIN flights' -> Flight]
  BY DEF Complete, MapRemove, IInv, TypeOK
<1>3. \A l \in DOMAIN allocations :
        /\ allocs[l] \in Allocation
        /\ allocs[l].bindings = allocations[l].bindings
        /\ allocs[l].borrowers = allocations[l].borrowers
        /\ allocs[l].sealed = allocations[l].sealed
        /\ allocs[l].pending = allocations[l].pending \ {tick}
  <2> SUFFICES ASSUME NEW l \in DOMAIN allocations
               PROVE  /\ allocs[l] \in Allocation
                      /\ allocs[l].bindings = allocations[l].bindings
                      /\ allocs[l].borrowers = allocations[l].borrowers
                      /\ allocs[l].sealed = allocations[l].sealed
                      /\ allocs[l].pending = allocations[l].pending \ {tick}
    OBVIOUS
  <2>1. allocations[l] \in Allocation
    BY DEF IInv, TypeOK
  <2>2. CASE l \in held
    <3>1. allocs[l] = [allocations[l] EXCEPT !.pending = @ \ {tick}]
      BY <2>2
    <3> QED
      BY <2>1, <3>1 DEF Allocation
  <2>3. CASE l \notin held
    <3>1. tick \notin allocations[l].pending
      BY <2>3 DEF IInv, FlightsHoldLeases
    <3> QED
      BY <2>1, <2>3, <3>1
  <2> QED
    BY <2>2, <2>3
<1>4. allocs \in [DOMAIN allocations -> Allocation]
  BY <1>3
<1> HIDE DEF allocs, held
<1>5. /\ free' \in [Pools -> SUBSET Nat]
      /\ allocations' \in [DOMAIN allocations' -> Allocation]
      /\ DOMAIN allocations' = DOMAIN allocations \ Ready(allocs)
      /\ \A l \in DOMAIN allocations' : allocations'[l] = allocs[l]
      /\ NoUnitLost' /\ NoUnitShared' /\ NoStrandedLease'
  BY <1>1, <1>3, <1>4, ReclaimInv
<1>6. TypeOK'
  BY <1>1, <1>2, <1>5 DEF IInv, TypeOK
<1>7. FlightsHoldLeases' /\ WritesAreHeld' /\ SealedNotWritten'
  <2>1. \A t \in DOMAIN flights' : \A l \in flights[t].leases :
          l \in DOMAIN allocations' /\ t \in allocations'[l].pending
    BY <1>2, <1>3, <1>5 DEF IInv, FlightsHoldLeases, Ready
  <2>2. \A l \in DOMAIN allocations' : \A t \in allocations'[l].pending :
          t \in DOMAIN flights' /\ l \in flights'[t].leases
    BY <1>2, <1>3, <1>5 DEF IInv, FlightsHoldLeases
  <2>3. FlightsHoldLeases'
    BY <1>2, <2>1, <2>2 DEF IInv, FlightsHoldLeases
  <2> QED
    BY <1>2, <1>3, <1>5, <2>3 DEF IInv, WritesAreHeld, SealedNotWritten
<1>8. BorrowsHoldLeases'
  <2>1. \A b \in DOMAIN borrowers : borrowers[b] \in DOMAIN allocations'
    BY <1>3, <1>5 DEF IInv, BorrowsHoldLeases, Ready
  <2> QED
    BY <1>1, <1>3, <1>5, <2>1 DEF IInv, BorrowsHoldLeases
<1> QED
  BY <1>5, <1>6, <1>7, <1>8 DEF IInv

\* Every call of the pool, and a stuttering step, preserves the invariant.
LEMMA NextInv == IInv /\ [Next]_vars => IInv'
<1> SUFFICES ASSUME IInv, [Next]_vars PROVE IInv'
  OBVIOUS
<1>1. ASSUME NEW req \in Requests, NEW tokens \in 1 .. MaxContext,
             Reserve(req, tokens)
      PROVE  IInv'
  <2> DEFINE chosen == [p \in Pools |-> Lowest(free[p], Count(p, tokens))]
  <2>1. chosen = [p \in Pools |-> chosen[p]]
    OBVIOUS
  <2>2. Reservable(req, tokens, chosen) /\ TakeUnits(req, tokens, chosen)
    BY <1>1 DEF Reserve
  <2> HIDE DEF chosen
  <2> QED
    BY <2>1, <2>2, TakeUnitsInv
<1>2. ASSUME NEW req \in Requests, NEW tokens \in 1 .. MaxContext, NEW slot,
             ReserveAtSlot(req, tokens, slot)
      PROVE  IInv'
  <2> DEFINE chosen == [p \in Pools |-> IF PageTokens[p] = 0 THEN {slot}
                                        ELSE Lowest(free[p], Count(p, tokens))]
  <2>1. chosen = [p \in Pools |-> chosen[p]]
    OBVIOUS
  <2>2. Reservable(req, tokens, chosen) /\ TakeUnits(req, tokens, chosen)
    BY <1>2 DEF ReserveAtSlot
  <2> HIDE DEF chosen
  <2> QED
    BY <2>1, <2>2, TakeUnitsInv
<1>3. ASSUME NEW lease \in DOMAIN allocations,
             \/ Borrow(lease) \/ BorrowSealed(lease)
      PROVE  IInv'
  BY <1>3, PinInv DEF Borrow, BorrowSealed
<1>4. ASSUME NEW lease \in DOMAIN allocations, Seal(lease) PROVE IInv'
  BY <1>4, SealInv
<1>5. ASSUME NEW lease \in DOMAIN allocations, Retire(lease) PROVE IInv'
  BY <1>5, RetireInv
<1>6. ASSUME NEW borrowed \in DOMAIN borrowers, Release(borrowed) PROVE IInv'
  BY <1>6, ReleaseInv
<1>7. ASSUME NEW held \in SUBSET DOMAIN allocations,
             NEW reads \in SUBSET DOMAIN borrowers, Submit(held, reads)
      PROVE  IInv'
  BY <1>7, SubmitInv
<1>8. ASSUME NEW tick \in DOMAIN flights, NEW rank \in Ranks, Complete(tick, rank)
      PROVE  IInv'
  BY <1>8, CompleteSomeInv, CompleteLastInv
<1>9. CASE Poison
  <2>1. UNCHANGED <<free, next, allocations, borrowers, flights>> /\ poisoned' \in BOOLEAN
    BY <1>9, Zenon DEF Poison
  <2> QED
    BY <2>1 DEF IInv, TypeOK, NoUnitLost, NoUnitShared, FlightsHoldLeases,
                BorrowsHoldLeases, SealedNotWritten, NoStrandedLease, WritesAreHeld,
                Ready, Units
<1>10. CASE UNCHANGED vars
  BY <1>10 DEF vars, IInv, TypeOK, NoUnitLost, NoUnitShared, FlightsHoldLeases,
               BorrowsHoldLeases, SealedNotWritten, NoStrandedLease, WritesAreHeld,
               Ready, Units
<1> QED
  BY <1>1, <1>2, <1>3, <1>4, <1>5, <1>6, <1>7, <1>8, <1>9, <1>10 DEF Next

\* The state of StatePool keeps its types and its handles were all issued.
THEOREM TypeCorrect == Spec => []TypeOK
<1>1. IInv => TypeOK
  BY DEF IInv
<1> QED
  BY <1>1, InitInv, NextInv, PTL DEF Spec

\* Storage ownership: every unit has exactly one owner, free list or lease.
THEOREM UnitsConserved == Spec => []UnitsPartitioned
<1>1. IInv => UnitsPartitioned
  BY DEF IInv, UnitsPartitioned
<1> QED
  BY <1>1, InitInv, NextInv, PTL DEF Spec

\* Tickets and borrows hold their leases, sealed state has no running writer,
\* and no idle retired lease is stranded.
THEOREM HoldersSafe == Spec => []LeasesGuarded
<1>1. IInv => LeasesGuarded
  BY DEF IInv, LeasesGuarded, HoldersHoldLeases
<1> QED
  BY <1>1, InitInv, NextInv, PTL DEF Spec

----------------------------------------------------------------------------
(* Action properties.                                                      *)

\* What one call of the pool may do to the three maps.
StepShape ==
    /\ DOMAIN allocations' \ DOMAIN allocations \subseteq {next + 1}
    /\ DOMAIN borrowers' \ DOMAIN borrowers \subseteq {next + 1}
    /\ DOMAIN flights' \ DOMAIN flights \subseteq {next + 1}
    /\ next' >= next
KeepsLeases ==
    \A l \in DOMAIN allocations \cap DOMAIN allocations' :
        /\ allocations'[l].bindings = allocations[l].bindings
        /\ allocations[l].sealed => allocations'[l].sealed
        /\ allocations[l].retired => allocations'[l].retired
FreesIdle ==
    \A l \in DOMAIN allocations \ DOMAIN allocations' :
        /\ ~poisoned
        /\ \A t \in DOMAIN flights' : l \notin flights'[t].leases
        /\ \A b \in DOMAIN borrowers' : borrowers'[b] # l

\* The calls that hand out a serial add one key and drop none.
LEMMA AddingSteps ==
    ASSUME IInv,
           \/ \E req, tokens, chosen : TakeUnits(req, tokens, chosen)
           \/ \E lease : Pin(lease)
           \/ \E held, reads : Submit(held, reads)
    PROVE  StepShape /\ KeepsLeases /\ FreesIdle
<1>0. /\ next \in Nat /\ allocations \in [DOMAIN allocations -> Allocation]
      /\ next + 1 \notin DOMAIN allocations
  BY NextIsFresh DEF IInv, TypeOK
<1>1. ASSUME NEW req, NEW tokens, NEW chosen, TakeUnits(req, tokens, chosen)
      PROVE  StepShape /\ KeepsLeases /\ FreesIdle
  <2>1. \A l \in DOMAIN allocations : l \in DOMAIN allocations' /\ allocations'[l] = allocations[l]
    BY <1>0, <1>1 DEF TakeUnits, MapInsert
  <2>2. DOMAIN allocations' = DOMAIN allocations \cup {next + 1}
    BY <1>1 DEF TakeUnits, MapInsert
  <2>3. /\ borrowers' = borrowers /\ flights' = flights /\ next' = next + 1
    BY <1>1 DEF TakeUnits
  <2>4. StepShape
    BY <1>0, <2>2, <2>3 DEF StepShape
  <2>5. KeepsLeases
    BY <2>1 DEF KeepsLeases
  <2>6. FreesIdle
    BY <2>1 DEF FreesIdle
  <2> QED
    BY <2>4, <2>5, <2>6
<1>2. ASSUME NEW lease, Pin(lease)
      PROVE  StepShape /\ KeepsLeases /\ FreesIdle
  <2>1. DOMAIN allocations' = DOMAIN allocations
    BY <1>2 DEF Pin
  <2>2. DOMAIN borrowers' = DOMAIN borrowers \cup {next + 1}
    BY <1>2 DEF Pin, MapInsert
  <2>3. KeepsLeases
    BY <1>0, <1>2 DEF Pin, KeepsLeases, Allocation
  <2> QED
    BY <1>0, <1>2, <2>1, <2>2, <2>3 DEF Pin, StepShape, FreesIdle
<1>3. ASSUME NEW held, NEW reads, Submit(held, reads)
      PROVE  StepShape /\ KeepsLeases /\ FreesIdle
  <2>1. DOMAIN allocations' = DOMAIN allocations
    BY <1>3 DEF Submit
  <2>2. DOMAIN flights' = DOMAIN flights \cup {next + 1}
    BY <1>3 DEF Submit, MapInsert
  <2>3. KeepsLeases
    BY <1>0, <1>3 DEF Submit, KeepsLeases, Allocation
  <2>4. borrowers' = borrowers /\ next' = next + 1
    BY <1>3 DEF Submit
  <2>5. StepShape
    BY <1>0, <2>1, <2>2, <2>4 DEF StepShape
  <2>6. FreesIdle
    BY <2>1 DEF FreesIdle
  <2> QED
    BY <2>3, <2>5, <2>6
<1> QED
  BY <1>1, <1>2, <1>3

\* The calls that give something back run reclaim() on the updated map.
LEMMA ReclaimingSteps ==
    ASSUME IInv, ~poisoned, NEW allocs,
           DOMAIN allocs = DOMAIN allocations,
           \A l \in DOMAIN allocs :
               /\ allocs[l].bindings = allocations[l].bindings
               /\ allocs[l].sealed = allocations[l].sealed
               /\ allocations[l].retired => allocs[l].retired,
           Reclaim(allocs), next' = next,
           DOMAIN borrowers' \subseteq DOMAIN borrowers,
           DOMAIN flights' \subseteq DOMAIN flights,
           \A b \in DOMAIN borrowers' :
               /\ borrowers'[b] = borrowers[b]
               /\ b \in allocs[borrowers[b]].borrowers,
           \A t \in DOMAIN flights' :
               /\ flights'[t].leases = flights[t].leases
               /\ \A l \in flights[t].leases : t \in allocs[l].pending
    PROVE  StepShape /\ KeepsLeases /\ FreesIdle
<1>1. /\ DOMAIN allocations' = DOMAIN allocations \ Ready(allocs)
      /\ \A l \in DOMAIN allocations' : allocations'[l] = allocs[l]
  BY DEF Reclaim
<1>2. StepShape
  <2>1. next' >= next
    BY DEF IInv, TypeOK
  <2> QED
    BY <1>1, <2>1 DEF StepShape
<1>3. KeepsLeases
  BY <1>1 DEF KeepsLeases
<1>4. FreesIdle
  <2> SUFFICES ASSUME NEW l \in DOMAIN allocations \ DOMAIN allocations'
               PROVE  /\ \A t \in DOMAIN flights' : l \notin flights'[t].leases
                      /\ \A b \in DOMAIN borrowers' : borrowers'[b] # l
    BY DEF FreesIdle
  <2>1. allocs[l].borrowers = {} /\ allocs[l].pending = {}
    BY <1>1 DEF Ready
  <2> QED
    BY <2>1
<1> QED
  BY <1>2, <1>3, <1>4

\* Every call of the pool has the three step properties.
LEMMA StepProperties == IInv /\ Next => StepShape /\ KeepsLeases /\ FreesIdle
<1> SUFFICES ASSUME IInv, Next PROVE StepShape /\ KeepsLeases /\ FreesIdle
  OBVIOUS
<1>t. /\ allocations \in [DOMAIN allocations -> Allocation]
      /\ flights \in [DOMAIN flights -> Flight]
      /\ next \in Nat
  BY NextIsFresh DEF IInv, TypeOK
<1>1. CASE \/ \E req \in Requests, tokens \in 1 .. MaxContext : Reserve(req, tokens)
           \/ \E req \in Requests, tokens \in 1 .. MaxContext,
                 slot \in UNION {Units(p) : p \in Pools} : ReserveAtSlot(req, tokens, slot)
           \/ \E lease \in DOMAIN allocations : Borrow(lease) \/ BorrowSealed(lease)
           \/ \E held \in SUBSET DOMAIN allocations, reads \in SUBSET DOMAIN borrowers :
                 Submit(held, reads)
  <2>1. \/ \E req, tokens, chosen : TakeUnits(req, tokens, chosen)
        \/ \E lease : Pin(lease)
        \/ \E held, reads : Submit(held, reads)
    BY <1>1, Zenon DEF Reserve, ReserveAtSlot, Borrow, BorrowSealed
  <2> QED
    BY <2>1, AddingSteps
<1>2. ASSUME NEW lease \in DOMAIN allocations, Seal(lease)
      PROVE  StepShape /\ KeepsLeases /\ FreesIdle
  <2>1. DOMAIN allocations' = DOMAIN allocations
    BY <1>2 DEF Seal
  <2>2. KeepsLeases
    BY <1>t, <1>2 DEF Seal, KeepsLeases, Allocation
  <2> QED
    BY <1>t, <1>2, <2>1, <2>2 DEF Seal, StepShape, FreesIdle
<1>3. ASSUME NEW lease \in DOMAIN allocations, Retire(lease)
      PROVE  StepShape /\ KeepsLeases /\ FreesIdle
  <2> DEFINE allocs == [allocations EXCEPT ![lease].retired = TRUE]
  <2>1. \A l \in DOMAIN allocs :
            /\ allocs[l].bindings = allocations[l].bindings
            /\ allocs[l].sealed = allocations[l].sealed
            /\ allocations[l].retired => allocs[l].retired
            /\ allocs[l].borrowers = allocations[l].borrowers
            /\ allocs[l].pending = allocations[l].pending
    BY <1>t DEF Allocation
  <2>2. DOMAIN allocs = DOMAIN allocations
    OBVIOUS
  <2>3. /\ Reclaim(allocs) /\ ~poisoned /\ next' = next
        /\ borrowers' = borrowers /\ flights' = flights
    BY <1>3 DEF Retire, Live
  <2>4. /\ \A b \in DOMAIN borrowers : borrowers[b] \in DOMAIN allocations
                                        /\ b \in allocations[borrowers[b]].borrowers
        /\ \A t \in DOMAIN flights : \A l \in flights[t].leases :
              l \in DOMAIN allocations /\ t \in allocations[l].pending
    BY DEF IInv, FlightsHoldLeases, BorrowsHoldLeases
  <2> HIDE DEF allocs
  <2>5. /\ \A b \in DOMAIN borrowers' : b \in allocs[borrowers[b]].borrowers
        /\ \A t \in DOMAIN flights' : \A l \in flights[t].leases : t \in allocs[l].pending
    BY <2>1, <2>2, <2>3, <2>4
  <2> QED
    BY <2>1, <2>2, <2>3, <2>5, ReclaimingSteps
<1>4. ASSUME NEW borrowed \in DOMAIN borrowers, Release(borrowed)
      PROVE  StepShape /\ KeepsLeases /\ FreesIdle
  <2> DEFINE allocs == [allocations EXCEPT ![borrowers[borrowed]].borrowers = @ \ {borrowed}]
  <2>0. /\ \A b \in DOMAIN borrowers : borrowers[b] \in DOMAIN allocations
                                        /\ b \in allocations[borrowers[b]].borrowers
        /\ \A t \in DOMAIN flights : \A l \in flights[t].leases :
              l \in DOMAIN allocations /\ t \in allocations[l].pending
    BY DEF IInv, FlightsHoldLeases, BorrowsHoldLeases
  <2>1. \A l \in DOMAIN allocs :
            /\ allocs[l].bindings = allocations[l].bindings
            /\ allocs[l].sealed = allocations[l].sealed
            /\ allocations[l].retired => allocs[l].retired
            /\ allocations[l].borrowers \ {borrowed} \subseteq allocs[l].borrowers
            /\ allocs[l].pending = allocations[l].pending
    BY <1>t DEF Allocation
  <2>2. DOMAIN allocs = DOMAIN allocations
    OBVIOUS
  <2>3. /\ Reclaim(allocs) /\ ~poisoned /\ next' = next
        /\ borrowers' = MapRemove(borrowers, borrowed) /\ flights' = flights
    BY <1>4 DEF Release, Live
  <2> HIDE DEF allocs
  <2>4. /\ DOMAIN borrowers' = DOMAIN borrowers \ {borrowed}
        /\ \A b \in DOMAIN borrowers' : borrowers'[b] = borrowers[b]
    BY <2>3 DEF MapRemove
  <2>5. /\ \A b \in DOMAIN borrowers' : b \in allocs[borrowers[b]].borrowers
        /\ \A t \in DOMAIN flights' : \A l \in flights[t].leases : t \in allocs[l].pending
    BY <2>0, <2>1, <2>2, <2>3, <2>4
  <2> QED
    BY <2>1, <2>2, <2>3, <2>4, <2>5, ReclaimingSteps
<1>5. ASSUME NEW tick \in DOMAIN flights, NEW rank \in Ranks, Complete(tick, rank)
      PROVE  StepShape /\ KeepsLeases /\ FreesIdle
  <2>1. CASE flights[tick].remaining_ranks # {rank}
    <3>1. /\ UNCHANGED <<allocations, borrowers, next>>
          /\ DOMAIN flights' = DOMAIN flights
      BY <1>5, <2>1 DEF Complete
    <3> QED
      BY <1>t, <3>1 DEF StepShape, KeepsLeases, FreesIdle
  <2>2. CASE flights[tick].remaining_ranks = {rank}
    <3> DEFINE allocs == [l \in DOMAIN allocations |->
                  IF l \in flights[tick].leases
                  THEN [allocations[l] EXCEPT !.pending = @ \ {tick}]
                  ELSE allocations[l]]
    <3>0. /\ \A b \in DOMAIN borrowers : borrowers[b] \in DOMAIN allocations
                                          /\ b \in allocations[borrowers[b]].borrowers
          /\ \A t \in DOMAIN flights : \A l \in flights[t].leases :
                l \in DOMAIN allocations /\ t \in allocations[l].pending
      BY DEF IInv, FlightsHoldLeases, BorrowsHoldLeases
    <3>1. \A l \in DOMAIN allocs :
              /\ allocs[l].bindings = allocations[l].bindings
              /\ allocs[l].sealed = allocations[l].sealed
              /\ allocations[l].retired => allocs[l].retired
              /\ allocs[l].borrowers = allocations[l].borrowers
              /\ allocations[l].pending \ {tick} \subseteq allocs[l].pending
      BY <1>t DEF Allocation
    <3>2. DOMAIN allocs = DOMAIN allocations
      OBVIOUS
    <3>3. /\ Reclaim(allocs) /\ ~poisoned /\ next' = next
          /\ borrowers' = borrowers /\ flights' = MapRemove(flights, tick)
      BY <1>5, <2>2 DEF Complete, Live
    <3> HIDE DEF allocs
    <3>4. /\ DOMAIN flights' = DOMAIN flights \ {tick}
          /\ \A t \in DOMAIN flights' : flights'[t] = flights[t]
      BY <3>3 DEF MapRemove
    <3>5. /\ \A b \in DOMAIN borrowers' : b \in allocs[borrowers[b]].borrowers
          /\ \A t \in DOMAIN flights' : \A l \in flights[t].leases : t \in allocs[l].pending
      BY <3>0, <3>1, <3>2, <3>3, <3>4
    <3> QED
      BY <3>1, <3>2, <3>3, <3>4, <3>5, ReclaimingSteps
  <2> QED
    BY <2>1, <2>2
<1>6. CASE Poison
  BY <1>t, <1>6 DEF Poison, StepShape, KeepsLeases, FreesIdle
<1> QED
  BY <1>1, <1>2, <1>3, <1>4, <1>5, <1>6, Zenon DEF Next

\* No lease, borrow or ticket identity is issued twice by StatePool::serial.
THEOREM HandlesAreFresh == Spec => FreshHandles
<1>1. IInv /\ [Next]_vars => [StepShape]_vars
  BY StepProperties
<1> QED
  BY <1>1, InitInv, NextInv, PTL DEF Spec, FreshHandles, StepShape

\* A lease keeps its units and its flags until reclaim() drops it; reclaim() drops
\* only leases that no ticket and no other borrow holds, and none once the pool is
\* poisoned.
THEOREM LeasesAreStable == Spec => LeasesLast
<1>1. IInv /\ [Next]_vars => [KeepsLeases]_vars
  BY StepProperties
<1>2. IInv /\ [Next]_vars => [FreesIdle]_vars
  BY StepProperties
<1> QED
  BY <1>1, <1>2, InitInv, NextInv, PTL
  DEF Spec, LeasesLast, LeasesStable, KeepsLeases, OnlyIdleLeasesFreed, FreesIdle

----------------------------------------------------------------------------
(* Rows.                                                                   *)

\* A lease has the units that its token limit asks for, and a limit that a pool
\* with full retention can hold: what page_address relies on.
BindingsFit ==
    \A l \in DOMAIN allocations : \A p \in Pools : PageTokens[p] # 0 =>
        /\ Cardinality(allocations[l].bindings[p]) = Count(p, allocations[l].token_limit)
        /\ Full[p] => allocations[l].token_limit <= MaxTokens[p]

\* The tokens that Count rounds up, and the number it returns.
LEMMA CountCovers ==
    ASSUME NEW p \in Pools, PageTokens[p] # 0, NEW tokens \in Nat
    PROVE  /\ PageTokens[p] \in Nat \ {0} /\ MaxTokens[p] \in Nat \ {0}
           /\ Retained(p, tokens) \in Nat
           /\ Count(p, tokens) = (Retained(p, tokens) + PageTokens[p] - 1) \div PageTokens[p]
           /\ Count(p, tokens) \in Nat
<1>1. PageTokens[p] \in Nat \ {0} /\ MaxTokens[p] \in Nat \ {0}
  BY PoolsAssumption
<1>2. Retained(p, tokens) \in Nat
  BY <1>1 DEF Retained, Least
<1>3. Count(p, tokens) = (Retained(p, tokens) + PageTokens[p] - 1) \div PageTokens[p]
  BY DEF Count
<1>4. (Retained(p, tokens) + PageTokens[p] - 1) \div PageTokens[p] \in Nat
  BY <1>1, <1>2, PagesHold
<1> QED
  BY <1>1, <1>2, <1>3, <1>4

\* BTreeSet::iter().take(n) gives n units of a free list that has them.
LEMMA LowestCount ==
    ASSUME TypeOK, NoUnitShared, NEW p \in Pools, NEW n \in Nat, n <= Cardinality(free[p])
    PROVE  Cardinality(Lowest(free[p], n)) = n
<1>1. IsFiniteSet(Units(p)) /\ Units(p) \subseteq Nat
  <2>1. Capacity[p] - 1 \in Int /\ 0 \in Int
    BY PoolsAssumption
  <2>2. IsFiniteSet(0 .. Capacity[p] - 1)
    BY <2>1, FS_Interval
  <2> QED
    BY <2>2 DEF Units
<1>2. free[p] \in SUBSET Nat /\ IsFiniteSet(free[p])
  BY <1>1, FS_Subset DEF NoUnitShared
<1>3. Cardinality(First(free[p], n)) = n
  BY <1>2, FirstMembers
<1>4. First(free[p], n) = Lowest(free[p], n)
  BY DEF First, Position, Lowest
<1> QED
  BY <1>3, <1>4

\* reserve_inner takes what the limit asks for.
LEMMA TakeUnitsFits ==
    ASSUME IInv, BindingsFit, NEW req, NEW tokens \in 1 .. MaxContext, NEW chosen,
           Reservable(req, tokens, chosen), TakeUnits(req, tokens, chosen),
           \A p \in Pools : PageTokens[p] # 0 => chosen[p] = Lowest(free[p], Count(p, tokens))
    PROVE  BindingsFit'
<1>0. tokens \in Nat
  BY PoolsAssumption
<1>1. /\ DOMAIN allocations' = DOMAIN allocations \cup {next + 1}
      /\ allocations'[next + 1].bindings = chosen
      /\ allocations'[next + 1].token_limit = tokens
      /\ \A l \in DOMAIN allocations : l # next + 1 => allocations'[l] = allocations[l]
  BY DEF TakeUnits, MapInsert
<1>2. ASSUME NEW p \in Pools, PageTokens[p] # 0
      PROVE  /\ Cardinality(chosen[p]) = Count(p, tokens)
             /\ Full[p] => tokens <= MaxTokens[p]
  <2>1. Count(p, tokens) \in Nat /\ Count(p, tokens) <= Cardinality(free[p])
    BY <1>0, <1>2, CountCovers DEF Reservable
  <2>2. Cardinality(Lowest(free[p], Count(p, tokens))) = Count(p, tokens)
    BY <2>1, LowestCount DEF IInv
  <2> QED
    BY <1>2, <2>2 DEF Reservable
<1>3. \A p \in Pools : Count(p, tokens) = Count(p, tokens)'
  BY DEF Count, Retained
<1> QED
  BY <1>1, <1>2 DEF BindingsFit

\* The other calls leave the units and the limit of a lease alone.
LEMMA LimitsKept ==
    ASSUME IInv,
           \/ \E lease \in DOMAIN allocations :
                 Borrow(lease) \/ BorrowSealed(lease) \/ Seal(lease) \/ Retire(lease)
           \/ \E borrowed \in DOMAIN borrowers : Release(borrowed)
           \/ \E held, reads : Submit(held, reads)
           \/ \E tick, rank : Complete(tick, rank)
           \/ Poison
    PROVE  /\ DOMAIN allocations' \subseteq DOMAIN allocations
           /\ \A l \in DOMAIN allocations' :
                 /\ allocations'[l].bindings = allocations[l].bindings
                 /\ allocations'[l].token_limit = allocations[l].token_limit
<1> DEFINE Kept == /\ DOMAIN allocations' \subseteq DOMAIN allocations
                   /\ \A l \in DOMAIN allocations' :
                         /\ allocations'[l].bindings = allocations[l].bindings
                         /\ allocations'[l].token_limit = allocations[l].token_limit
<1>t. allocations \in [DOMAIN allocations -> Allocation]
  BY DEF IInv, TypeOK
<1>r. ASSUME NEW allocs, Reclaim(allocs), DOMAIN allocs = DOMAIN allocations,
             \A l \in DOMAIN allocs : /\ allocs[l].bindings = allocations[l].bindings
                                       /\ allocs[l].token_limit = allocations[l].token_limit
      PROVE  Kept
  BY <1>r DEF Reclaim
<1>1. ASSUME NEW lease \in DOMAIN allocations, Borrow(lease) \/ BorrowSealed(lease)
      PROVE  Kept
  BY <1>t, <1>1 DEF Borrow, BorrowSealed, Pin, Allocation
<1>2. ASSUME NEW lease \in DOMAIN allocations, Seal(lease) PROVE Kept
  BY <1>t, <1>2 DEF Seal, Allocation
<1>3. ASSUME NEW lease \in DOMAIN allocations, Retire(lease) PROVE Kept
  <2> DEFINE allocs == [allocations EXCEPT ![lease].retired = TRUE]
  <2>1. /\ DOMAIN allocs = DOMAIN allocations
        /\ \A l \in DOMAIN allocs : /\ allocs[l].bindings = allocations[l].bindings
                                     /\ allocs[l].token_limit = allocations[l].token_limit
    BY <1>t DEF Allocation
  <2>2. Reclaim(allocs)
    BY <1>3 DEF Retire
  <2> HIDE DEF allocs
  <2> QED
    BY <1>r, <2>1, <2>2
<1>4. ASSUME NEW borrowed \in DOMAIN borrowers, Release(borrowed) PROVE Kept
  <2> DEFINE allocs == [allocations EXCEPT ![borrowers[borrowed]].borrowers = @ \ {borrowed}]
  <2>1. /\ DOMAIN allocs = DOMAIN allocations
        /\ \A l \in DOMAIN allocs : /\ allocs[l].bindings = allocations[l].bindings
                                     /\ allocs[l].token_limit = allocations[l].token_limit
    BY <1>t DEF Allocation
  <2>2. Reclaim(allocs)
    BY <1>4 DEF Release
  <2> HIDE DEF allocs
  <2> QED
    BY <1>r, <2>1, <2>2
<1>5. ASSUME NEW held, NEW reads, Submit(held, reads) PROVE Kept
  BY <1>t, <1>5 DEF Submit, Allocation
<1>6. ASSUME NEW tick, NEW rank, Complete(tick, rank) PROVE Kept
  <2> DEFINE allocs == [l \in DOMAIN allocations |->
                  IF l \in flights[tick].leases
                  THEN [allocations[l] EXCEPT !.pending = @ \ {tick}]
                  ELSE allocations[l]]
  <2>1. /\ DOMAIN allocs = DOMAIN allocations
        /\ \A l \in DOMAIN allocs : /\ allocs[l].bindings = allocations[l].bindings
                                     /\ allocs[l].token_limit = allocations[l].token_limit
    BY <1>t DEF Allocation
  <2>2. Reclaim(allocs) \/ allocations' = allocations
    BY <1>6 DEF Complete
  <2> HIDE DEF allocs
  <2> QED
    BY <1>r, <2>1, <2>2
<1>7. CASE Poison
  BY <1>7 DEF Poison
<1> QED
  BY <1>1, <1>2, <1>3, <1>4, <1>5, <1>6, <1>7, Zenon

\* Every call of the pool leaves leases with the units their limits ask for.
LEMMA BindingsFitInv == IInv /\ BindingsFit /\ [Next]_vars => BindingsFit'
<1> SUFFICES ASSUME IInv, BindingsFit, [Next]_vars PROVE BindingsFit'
  OBVIOUS
<1>1. CASE UNCHANGED vars
  BY <1>1 DEF vars, BindingsFit
<1>2. ASSUME NEW req \in Requests, NEW tokens \in 1 .. MaxContext, Reserve(req, tokens)
      PROVE  BindingsFit'
  <2> DEFINE chosen == [p \in Pools |-> Lowest(free[p], Count(p, tokens))]
  <2>1. Reservable(req, tokens, chosen) /\ TakeUnits(req, tokens, chosen)
    BY <1>2, Zenon DEF Reserve
  <2>2. \A p \in Pools : chosen[p] = Lowest(free[p], Count(p, tokens))
    OBVIOUS
  <2> HIDE DEF chosen
  <2> QED
    BY <2>1, <2>2, TakeUnitsFits
<1>3. ASSUME NEW req \in Requests, NEW tokens \in 1 .. MaxContext, NEW slot,
             ReserveAtSlot(req, tokens, slot)
      PROVE  BindingsFit'
  <2> DEFINE chosen == [p \in Pools |-> IF PageTokens[p] = 0 THEN {slot}
                                        ELSE Lowest(free[p], Count(p, tokens))]
  <2>1. Reservable(req, tokens, chosen) /\ TakeUnits(req, tokens, chosen)
    BY <1>3, Zenon DEF ReserveAtSlot
  <2>2. \A p \in Pools : PageTokens[p] # 0 => chosen[p] = Lowest(free[p], Count(p, tokens))
    OBVIOUS
  <2> HIDE DEF chosen
  <2> QED
    BY <2>1, <2>2, TakeUnitsFits
<1>4. CASE \/ \E lease \in DOMAIN allocations :
                 Borrow(lease) \/ BorrowSealed(lease) \/ Seal(lease) \/ Retire(lease)
           \/ \E borrowed \in DOMAIN borrowers : Release(borrowed)
           \/ \E held, reads : Submit(held, reads)
           \/ \E tick, rank : Complete(tick, rank)
           \/ Poison
  <2>1. /\ DOMAIN allocations' \subseteq DOMAIN allocations
        /\ \A l \in DOMAIN allocations' :
              /\ allocations'[l].bindings = allocations[l].bindings
              /\ allocations'[l].token_limit = allocations[l].token_limit
    BY <1>4, LimitsKept, Zenon
  <2>2. ASSUME NEW l \in DOMAIN allocations', NEW p \in Pools, PageTokens[p] # 0
        PROVE  /\ Cardinality(allocations'[l].bindings[p]) = Count(p, allocations'[l].token_limit)
               /\ Full[p] => allocations'[l].token_limit <= MaxTokens[p]
    BY <2>1, <2>2 DEF BindingsFit
  <2> QED
    BY <2>2 DEF BindingsFit
<1> QED
  BY <1>1, <1>2, <1>3, <1>4, Zenon DEF Next

\* page_address indexes the binding below its length.
LEMMA LogicalPageBelow ==
    ASSUME NEW p \in Pools, PageTokens[p] # 0, NEW tokens \in Nat, NEW i \in 0 .. tokens - 1
    PROVE  LogicalPage(p, i) \in Nat /\ LogicalPage(p, i) < Count(p, tokens)
<1> DEFINE P == PageTokens[p]
           M == MaxTokens[p]
           R == Retained(p, tokens)
           q == i \div P
           k == M \div P
<1>1. /\ P \in Nat \ {0} /\ M \in Nat \ {0} /\ R \in Nat
      /\ Count(p, tokens) = (R + P - 1) \div P /\ Count(p, tokens) \in Nat
  BY CountCovers
<1>2. i \in Nat /\ q \in Nat
  <2>1. i \in Nat
    OBVIOUS
  <2> QED
    BY <1>1, <2>1, Division
<1>3. CASE Full[p]
  <2>1. R = tokens /\ LogicalPage(p, i) = q
    BY <1>3 DEF Retained, LogicalPage
  <2>2. q < (tokens + P - 1) \div P
    BY <1>1, PagesCover
  <2> QED
    BY <1>1, <1>2, <2>1, <2>2
<1>4. CASE ~Full[p]
  <2>1. M % P = 0 /\ M = P * k /\ k \in Nat
    <3>1. M % P = 0
      BY PoolsAssumption
    <3>2. M = (P * (M \div P)) + (M % P) /\ M \div P \in Nat
      BY <1>1, Division
    <3> QED
      BY <1>1, <3>1, <3>2
  <2>2. LogicalPage(p, i) = q % k
    BY <1>4 DEF LogicalPage
  <2> HIDE DEF q, k, P, M
  <2>3. k # 0
    BY <1>1, <2>1
  <2>4. q = (k * (q \div k)) + (q % k) /\ q % k \in 0 .. k - 1 /\ q \div k \in Nat
    BY <1>2, <2>1, <2>3, Division
  <2>5. q % k <= q
    <3>1. k * (q \div k) \in Nat
      BY <2>1, <2>4
    <3> QED
      BY <1>2, <2>4, <3>1
  <2>6. CASE tokens <= M
    <3>1. R = tokens
      BY <1>4, <2>6 DEF Retained, Least, M
    <3>2. q < (tokens + P - 1) \div P
      BY <1>1, PagesCover DEF q
    <3> QED
      BY <1>1, <1>2, <2>2, <2>4, <2>5, <3>1, <3>2
  <2>7. CASE ~(tokens <= M)
    <3>1. R = M
      BY <1>4, <2>7 DEF Retained, Least, M
    <3>2. (M + P - 1) \div P = k
      <4> DEFINE x == M + P - 1
                 r == P - 1
      <4>1. x = (P * k) + r /\ r \in 0 .. P - 1 /\ x \in Int /\ k \in Int
        BY <1>1, <2>1
      <4> HIDE DEF x, r
      <4>2. x \div P = k
        BY <1>1, <4>1, DivisionUnique
      <4> QED
        BY <4>2 DEF x
    <3> QED
      BY <1>1, <2>2, <2>4, <3>1, <3>2
  <2> QED
    BY <2>6, <2>7, <1>1
<1> QED
  BY <1>3, <1>4

\* The same page and row, in one binding, are the same position or a whole ring apart.
LEMMA SamePlace ==
    ASSUME NEW p \in Pools, PageTokens[p] # 0, NEW i \in Nat, NEW j \in Nat,
           LogicalPage(p, i) = LogicalPage(p, j),
           i % PageTokens[p] = j % PageTokens[p]
    PROVE  i = j \/ (~Full[p] /\ (i - j) % MaxTokens[p] = 0)
<1> DEFINE P == PageTokens[p]
           M == MaxTokens[p]
           q == i \div P
           r == j \div P
<1>1. P \in Nat \ {0} /\ M \in Nat \ {0}
  BY CountCovers
<1>2. /\ i = (P * q) + (i % P) /\ q \in Nat
      /\ j = (P * r) + (j % P) /\ r \in Nat
      /\ i % P \in 0 .. P - 1 /\ j % P \in 0 .. P - 1
  BY <1>1, Division
<1>3. CASE Full[p]
  <2>1. q = r
    BY <1>3 DEF LogicalPage
  <2> QED
    BY <1>2, <2>1
<1>4. CASE ~Full[p]
  <2> DEFINE k == M \div P
  <2>1. M = P * k /\ k \in Nat
    <3>1. M % P = 0
      BY PoolsAssumption
    <3>2. M = (P * (M \div P)) + (M % P) /\ M \div P \in Nat
      BY <1>1, Division
    <3> QED
      BY <1>1, <3>1, <3>2
  <2>2. q % k = r % k /\ i % P = j % P
    BY <1>4 DEF LogicalPage
  <2> HIDE DEF q, r, k, P, M
  <2>3. k \in Nat \ {0}
    BY <1>1, <2>1
  <2> DEFINE a == q \div k
             b == r \div k
  <2>4. q = (k * a) + (q % k) /\ r = (k * b) + (r % k) /\ a \in Nat /\ b \in Nat
        /\ q % k \in Nat /\ r % k \in Nat
    <3>1. ASSUME NEW x \in Nat
          PROVE  x = (k * (x \div k)) + (x % k) /\ x \div k \in Nat /\ x % k \in Nat
      BY <2>3, Division
    <3> QED
      BY <1>2, <3>1
  <2> HIDE DEF a, b
  <2>5. i - j = (P * q) - (P * r)
    BY <1>1, <1>2, <2>2
  <2>6. q - r = k * (a - b)
    BY <2>1, <2>2, <2>4
  <2>7. i - j = P * (q - r)
    BY <1>1, <1>2, <2>5
  <2>8. i - j = (P * k) * (a - b)
    BY <1>1, <2>1, <2>4, <2>6, <2>7
  <2>9. i - j = (M * (a - b)) + 0 /\ a - b \in Int /\ 0 \in 0 .. M - 1 /\ i - j \in Int
    BY <1>1, <2>1, <2>4, <2>8
  <2>10. (i - j) % M = 0
    BY <1>1, <2>9, DivisionUnique
  <2> QED
    BY <1>4, <2>10 DEF M
<1> QED
  BY <1>3, <1>4

\* The unit at an index is one of the binding and has that position.
LEMMA UnitAtPosition ==
    ASSUME NEW S \in SUBSET Nat, IsFiniteSet(S), NEW i \in Nat, i < Cardinality(S)
    PROVE  UnitAt(S, i) \in S /\ Position(S, UnitAt(S, i)) = i
<1>1. Cardinality(S) \in Nat
  BY FS_CardinalityType
<1>2. \E u \in S : Position(S, u) = i
  BY <1>1, PositionBijective
<1>3. \E u \in S : Cardinality({v \in S : v < u}) = i
  BY <1>2 DEF Position
<1> QED
  BY <1>3 DEF UnitAt, Position

\* Ownership and size of the bindings make rows disjoint.
LEMMA RowsApart ==
    ASSUME IInv, BindingsFit
    PROVE  RowsDisjoint
<1> SUFFICES ASSUME NEW p \in Pools, PageTokens[p] # 0, NEW l \in Usable, NEW m \in Usable,
                    NEW i \in 0 .. allocations[l].token_limit - 1,
                    NEW j \in 0 .. allocations[m].token_limit - 1
             PROVE  /\ LogicalPage(p, i) < Cardinality(allocations[l].bindings[p])
                    /\ PageAddress(l, p, i) = PageAddress(m, p, j) =>
                          /\ l = m
                          /\ i = j \/ (~Full[p] /\ (i - j) % MaxTokens[p] = 0)
  BY DEF RowsDisjoint
<1> DEFINE S(x) == allocations[x].bindings[p]
<1>1. l \in DOMAIN allocations /\ m \in DOMAIN allocations
  BY DEF Usable
<1>2. IsFiniteSet(Units(p)) /\ Units(p) \subseteq Nat
  <2>1. Capacity[p] - 1 \in Int /\ 0 \in Int
    BY PoolsAssumption
  <2>2. IsFiniteSet(0 .. Capacity[p] - 1)
    BY <2>1, FS_Interval
  <2> QED
    BY <2>2 DEF Units
<1>3. ASSUME NEW x \in DOMAIN allocations, NEW y \in 0 .. allocations[x].token_limit - 1
      PROVE  /\ S(x) \in SUBSET Nat /\ IsFiniteSet(S(x)) /\ y \in Nat
             /\ LogicalPage(p, y) \in Nat /\ LogicalPage(p, y) < Cardinality(S(x))
  <2>1. allocations[x].token_limit \in Nat
    BY PoolsAssumption DEF IInv, TypeOK, Allocation
  <2>2. S(x) \subseteq Units(p)
    BY DEF IInv, NoUnitShared
  <2>3. S(x) \in SUBSET Nat /\ IsFiniteSet(S(x))
    BY <1>2, <2>2, FS_Subset
  <2>4. Cardinality(S(x)) = Count(p, allocations[x].token_limit)
    BY DEF BindingsFit
  <2>5. LogicalPage(p, y) \in Nat /\ LogicalPage(p, y) < Count(p, allocations[x].token_limit)
    BY <2>1, LogicalPageBelow
  <2> QED
    BY <2>1, <2>3, <2>4, <2>5
<1>4. LogicalPage(p, i) < Cardinality(allocations[l].bindings[p])
  BY <1>1, <1>3
<1>5. ASSUME PageAddress(l, p, i) = PageAddress(m, p, j)
      PROVE  /\ l = m
             /\ i = j \/ (~Full[p] /\ (i - j) % MaxTokens[p] = 0)
  <2> DEFINE u == UnitAt(S(l), LogicalPage(p, i))
             v == UnitAt(S(m), LogicalPage(p, j))
  <2>1. u = v /\ i % PageTokens[p] = j % PageTokens[p]
    BY <1>5 DEF PageAddress
  <2>2. /\ u \in S(l) /\ Position(S(l), u) = LogicalPage(p, i)
        /\ v \in S(m) /\ Position(S(m), v) = LogicalPage(p, j)
    BY <1>1, <1>3, UnitAtPosition
  <2> HIDE DEF u, v
  <2>3. l = m
    BY <1>1, <2>1, <2>2 DEF IInv, NoUnitShared
  <2>4. LogicalPage(p, i) = LogicalPage(p, j)
    BY <2>1, <2>2, <2>3
  <2>5. i \in Nat /\ j \in Nat
    BY <1>1, <1>3
  <2> QED
    BY <2>1, <2>3, <2>4, <2>5, SamePlace
<1> QED
  BY <1>4, <1>5

\* page_address never fails below a lease's token limit and never gives two token
\* positions one row, but for positions of one sliding lease a whole ring apart.
THEOREM RowsNeverShared == Spec => []RowsDisjoint
<1>1. Init => BindingsFit
  BY DEF Init, BindingsFit
<1> QED
  BY <1>1, InitInv, NextInv, BindingsFitInv, RowsApart, PTL DEF Spec

----------------------------------------------------------------------------
(* The engine.                                                             *)

\* The resident's slot is a unit of some pool, or no pool looks at it.
LEMMA SlotIsUnit ==
    ASSUME IInv, NEW r \in Requests, NEW tokens \in 1 .. MaxContext, NEW s,
           ReserveAtSlot(r, tokens, s)
    PROVE  \E slot \in UNION {Units(p) : p \in Pools} : ReserveAtSlot(r, tokens, slot)
<1>1. CASE \E p \in Pools : PageTokens[p] = 0
  <2>1. PICK p \in Pools : PageTokens[p] = 0
    BY <1>1
  <2>2. s \in free[p]
    BY <2>1 DEF ReserveAtSlot, Reservable
  <2>3. s \in Units(p)
    BY <2>2 DEF IInv, NoUnitShared
  <2> QED
    BY <2>3
<1>2. CASE \A p \in Pools : PageTokens[p] # 0
  <2>1. PICK p \in Pools : 0 \in Units(p)
    BY PoolsAssumption, SMT DEF Units
  <2>2. [q \in Pools |-> IF PageTokens[q] = 0 THEN {s} ELSE Lowest(free[q], Count(q, tokens))]
        = [q \in Pools |-> IF PageTokens[q] = 0 THEN {0} ELSE Lowest(free[q], Count(q, tokens))]
    BY <1>2
  <2>3. ReserveAtSlot(r, tokens, 0)
    BY <2>2 DEF ReserveAtSlot
  <2> QED
    BY <2>1, <2>3
<1> QED
  BY <1>1, <1>2

\* A step of the engine makes at most one call of the pool.
LEMMA EngineStepIsPoolStep == IInv /\ [EngineNext]_engineVars => [Next]_vars
<1> SUFFICES ASSUME IInv, [EngineNext]_engineVars PROVE [Next]_vars
  OBVIOUS
<1> USE DEF Usable
<1>1. CASE CheckReset \/ Select \/ CheckRun \/ FailStep \/ Import \/ AppendCompleted
           \/ Unseal \/ Retired \/ Restore \/ Touch \/ Publish \/ Index \/ Unindex
  BY <1>1, Zenon DEF CheckReset, Select, CheckRun, FailStep, Import, AppendCompleted, Unseal,
                     Retired, Restore, Touch, Publish, Index, Unindex
<1>2. CASE NativeReset \/ Bind \/ NativeRun \/ NativeCopy \/ CheckCount \/ Reseal
  BY <1>2, Zenon DEF NativeReset, Bind, NativeRun, NativeCopy, CheckCount, Reseal, Next
<1>3. CASE Forget
  <2>1. UNCHANGED vars \/ Retire(leases[Head(todo).slot])
    BY <1>3, Zenon DEF Forget
  <2>2. Retire(leases[Head(todo).slot]) => leases[Head(todo).slot] \in DOMAIN allocations
    BY DEF Retire
  <2> QED
    BY <2>1, <2>2, Zenon DEF Next
<1>4. CASE ReserveStep
  <2>1. \/ UNCHANGED vars
        \/ /\ next_request + 1 \in Requests
           /\ Head(todo).tokens \in 1 .. MaxContext
           /\ ReserveAtSlot(next_request + 1, Head(todo).tokens, Head(todo).slot)
    BY <1>4, Zenon DEF ReserveStep
  <2> QED
    BY <2>1, SlotIsUnit, Zenon DEF Next
<1>5. CASE BorrowSource
  <2>1. UNCHANGED vars \/ Borrow(leases[Head(todo).from])
    BY <1>5, Zenon DEF BorrowSource
  <2>2. Borrow(leases[Head(todo).from]) => leases[Head(todo).from] \in DOMAIN allocations
    BY DEF Borrow
  <2> QED
    BY <2>1, <2>2, Zenon DEF Next
<1>6. CASE SubmitStep
  <2> DEFINE members == {leases[s] : s \in Head(todo).slots}
             reads == IF read = 0 THEN {} ELSE {read}
  <2>1. UNCHANGED vars \/ Submit(members, reads)
    BY <1>6, Zenon DEF SubmitStep
  <2> HIDE DEF members, reads
  <2>2. Submit(members, reads) =>
            members \in SUBSET DOMAIN allocations /\ reads \in SUBSET DOMAIN borrowers
    BY DEF Submit
  <2> QED
    BY <2>1, <2>2, Zenon DEF Next
<1>7. CASE CompleteStep
  <2>1. UNCHANGED vars \/ Complete(ticket, Head(todo).rank)
    BY <1>7, Zenon DEF CompleteStep
  <2>2. Complete(ticket, Head(todo).rank) => ticket \in DOMAIN flights /\ Head(todo).rank \in Ranks
    BY DEF Complete, IInv, TypeOK, Flight
  <2> QED
    BY <2>1, <2>2, Zenon DEF Next
<1>8. CASE ReleaseStep
  <2>1. UNCHANGED vars \/ (read \in DOMAIN borrowers /\ Release(read))
    BY <1>8, Zenon DEF ReleaseStep
  <2> QED
    BY <2>1, Zenon DEF Next
<1>9. CASE SealStep
  <2>1. UNCHANGED vars \/ Seal(leases[Head(todo).slot])
    BY <1>9, Zenon DEF SealStep
  <2>2. Seal(leases[Head(todo).slot]) => leases[Head(todo).slot] \in DOMAIN allocations
    BY DEF Seal
  <2> QED
    BY <2>1, <2>2, Zenon DEF Next
<1>10. CASE \/ \E s \in Active : (\E kind \in Kinds : Admit(s, kind)) \/ ReleaseResident(s)
            \/ \E members \in SUBSET Active, first \in Active : Invoke(members, first)
            \/ ClearCache
  BY <1>10, Zenon DEF Admit, ReleaseResident, Invoke, ClearCache
<1>11. CASE UNCHANGED engineVars
  BY <1>11, Zenon DEF engineVars
<1> QED
  BY <1>1, <1>2, <1>3, <1>4, <1>5, <1>6, <1>7, <1>8, <1>9, <1>10, <1>11, Zenon
  DEF EngineNext, Engine

\* The pool's invariant holds of the engine.
LEMMA EngineKeepsPoolInv == EngineSpec => []IInv
<1>1. EngineInit => IInv
  BY InitInv DEF EngineInit
<1>2. IInv /\ [EngineNext]_engineVars => IInv'
  BY EngineStepIsPoolStep, NextInv
<1> QED
  BY <1>1, <1>2, PTL DEF EngineSpec

\* Engine and PrefixCache implement the pool's protocol: reset, prepare, copy,
\* seal, retire and the invocations are sequences of legal calls of StatePool.
THEOREM EngineUsesPool == EngineSpec => Spec
<1>1. EngineInit => Init
  BY DEF EngineInit
<1> QED
  BY <1>1, EngineStepIsPoolStep, EngineKeepsPoolInv, PTL DEF EngineSpec, Spec

\* No storage is shared or lost while requests, snapshots and evictions come and
\* go in prepare_resident, copy_resident and retire_snapshot.
THEOREM EngineConservesUnits == EngineSpec => []UnitsPartitioned
BY EngineUsesPool, UnitsConserved, PTL

\* A snapshot is never written while it is sealed, and rank work and readers hold
\* their leases, whatever order the engine's methods are called in.
THEOREM EngineHoldersSafe == EngineSpec => []LeasesGuarded
BY EngineUsesPool, HoldersSafe, PTL

\* No lease changes under the engine, and none disappears while a resident, a
\* snapshot copy or a rank still uses it.
THEOREM EngineLeasesLast == EngineSpec => LeasesLast
BY EngineUsesPool, LeasesAreStable, PTL DEF LeasesLast, LeasesStable, OnlyIdleLeasesFreed

\* The rows that the native calls of the engine address are disjoint: no token of a
\* resident, snapshot or copy ever lands in a row of another one.
THEOREM EngineRowsNeverShared == EngineSpec => []RowsDisjoint
BY EngineUsesPool, RowsNeverShared, PTL
=============================================================================
