----------------------------- MODULE Mock_proofs -----------------------------
(***************************************************************************)
(* The mock engine: its scheduler and its serving thread.  The pools, the  *)
(* queue and the jobs of the live scheduler tell one story, for pools,     *)
(* batches and budgets of every size and any requests.  And for every      *)
(* number of calls, aborts and shutdowns and channels of every size, a     *)
(* client's stream has each token once, in place, and ends with one final  *)
(* message.                                                                *)
(***************************************************************************)
EXTENDS MockServing, LiveScheduler, ResourcePool_proofs, SequenceTheorems

----------------------------------------------------------------------------
(* The live scheduler.                                                     *)

JobIds == {r.id : r \in Requests}

\* The one epoch the model's leases have.
OnlyEpoch == {0}

Leased == LeaseSet(JobIds, OnlyEpoch)

Job ==
    [prompt : Nat \ {0}, max_new : Nat \ {0}, consumed : Nat, generated : Nat,
     prefill : SUBSET Leased, decode : SUBSET Leased]

PoolOk(pool) == Exact(pool, JobIds, OnlyEpoch) /\ pool.retired = {}

\* A job in prefill holds a lease of one pool for its whole prompt, a decoding job one
\* of the other, and there are no other leases.
Holds(job, j, p, d) ==
    /\ job \in Job /\ job.prompt + job.max_new <= MaxContext
    /\ \/ /\ j \in DOMAIN p.active /\ j \notin DOMAIN d.active
          /\ job.prefill = {p.active[j]} /\ job.decode = {}
          /\ PagesFor(job.prompt) <= Cardinality(p.active[j].pages)
       \/ /\ j \in DOMAIN d.active /\ j \notin DOMAIN p.active
          /\ job.decode = {d.active[j]} /\ job.prefill = {}

Held(p, d, js) ==
    /\ PoolOk(p) /\ PoolOk(d)
    /\ js = [j \in DOMAIN js |-> js[j]] /\ IsFiniteSet(DOMAIN js) /\ DOMAIN js \subseteq JobIds
    /\ DOMAIN p.active \cup DOMAIN d.active \subseteq DOMAIN js
    /\ \A j \in DOMAIN js : Holds(js[j], j, p, d)

\* The tokens a job consumed and generated.
Counted(job) ==
    /\ job.prefill # {} => job.consumed <= job.prompt /\ job.generated = 0
    /\ job.prefill = {} =>
          /\ job.generated \in 1 .. job.max_new - 1
          /\ job.consumed = job.prompt + job.generated - 1

\* A queue has each member of a set once.
Lists(q, S) ==
    /\ q \in Seq(JobIds)
    /\ \A i, k \in DOMAIN q : q[i] = q[k] => i = k
    /\ \A i \in DOMAIN q : q[i] \in S
    /\ \A j \in S : \E i \in DOMAIN q : q[i] = j

\* What a loop gathered is one binding for each job, the one its pool has now.
OneEach == \A i, k \in inputs : i.id = k.id => i = k

DecodeInputs ==
    /\ OneEach
    /\ \A i \in inputs :
          /\ i.id \in DOMAIN d_pool.active /\ i.id \notin todo
          /\ i.lease = d_pool.active[i.id] /\ i.upto = jobs[i.id].consumed + 1
          /\ PagesFor(i.upto) <= Cardinality(i.lease.pages)

\* Those gathered are behind those the queue's turns have still to come to.
PrefillInputs ==
    /\ OneEach
    /\ turns \in 0 .. Len(queue) /\ budget \in Nat
    /\ \A i \in inputs :
          /\ i.id \in DOMAIN p_pool.active /\ i.lease = p_pool.active[i.id]
          /\ i.upto \in 0 .. jobs[i.id].prompt
          /\ \A k \in 1 .. turns : queue[k] # i.id

InPhase ==
    /\ phase \in {"idle", "ensure", "emit", "prefill", "hand_over"}
    /\ phase \in {"ensure", "emit"} => todo \subseteq DOMAIN d_pool.active
    /\ phase = "ensure" => DecodeInputs
    /\ phase = "emit" => inputs = {}
    /\ phase = "prefill" => PrefillInputs
    /\ phase = "hand_over" =>
          \A j \in todo : j \in DOMAIN p_pool.active /\ jobs[j].consumed = jobs[j].prompt

Agree ==
    /\ ok /\ Held(p_pool, d_pool, jobs)
    /\ \A j \in DOMAIN jobs : Counted(jobs[j])
    /\ Lists(queue, DOMAIN p_pool.active)

LiveInv == Agree /\ InPhase

----------------------------------------------------------------------------
(* Leases and the queue.                                                   *)

LEMMA Numbers ==
    /\ JobIds \subseteq Nat
    /\ \A r \in Requests : r.id \in JobIds /\ r.prompt \in Nat \ {0} /\ r.max_new \in Nat \ {0}
                           /\ r.prompt + r.max_new <= MaxContext
    /\ Batch \in Nat \ {0} /\ TokenBudget \in Nat \ {0} /\ MaxSubmits \in Nat \ {0}
    /\ MaxContext \in Nat
BY SchedulerAssumption DEF JobIds

\* The lease a pool has for a request is current.
LEMMA CurrentLease ==
    ASSUME NEW p, PoolOk(p), NEW j \in DOMAIN p.active
    PROVE  /\ The({p.active[j]}) = p.active[j]
           /\ p.active[j] \in Leased /\ p.active[j].request = j
           /\ Check(p, p.active[j]) /\ ~Stale(p, {p.active[j]})
           /\ j \in JobIds /\ p.active[j].slot \in SlotIds /\ p.active[j].pages \subseteq PageIds
<1>1. The({p.active[j]}) = p.active[j]
  BY DEF The
<1>2. DOMAIN p.active \subseteq JobIds /\ p.active \in [DOMAIN p.active -> Leased]
  <2>1. p.active \in ActiveSet(JobIds, OnlyEpoch)
    BY DEF PoolOk, Exact, PoolSet
  <2> QED
    BY <2>1, ActiveIs DEF Leased
<1>3. p.active[j] \in Leased /\ p.active[j].request = j
  BY <1>2 DEF PoolOk, Exact
<1>4. Check(p, p.active[j])
  BY <1>3 DEF Check
<1> QED
  BY <1>1, <1>2, <1>3, <1>4 DEF Stale, Leased, LeaseSet

\* No two leases of a pool share a page or a slot.
LEMMA LeasesApart ==
    ASSUME NEW p, PoolOk(p), NEW j \in DOMAIN p.active, NEW k \in DOMAIN p.active, j # k
    PROVE  /\ p.active[j].slot # p.active[k].slot
           /\ p.active[j].pages \cap p.active[k].pages = {}
<1>1. p.active[j] \in Leases(p) /\ p.active[k] \in Leases(p)
  BY DEF Leases
<1>2. p.active[j] # p.active[k]
  BY DEF PoolOk, Exact
<1> QED
  BY <1>1, <1>2 DEF PoolOk, Exact, Conserved

\* Fences with nothing to wait for change nothing that shows.
LEMMA EmptyFence ==
    ASSUME NEW p, PoolOk(p)
    PROVE  PoolOk(Fence(p)) /\ Fence(p).active = p.active
BY FenceExact DEF PoolOk

\* A pool that lost the lease of one request, if it had one, and no other.
Less(next, p, j) ==
    /\ PoolOk(next) /\ DOMAIN next.active = DOMAIN p.active \ {j}
    /\ \A k \in DOMAIN p.active \ {j} : next.active[k] = p.active[k]

\* A lease that is retired and fenced is gone, and no other.
LEMMA Returned ==
    ASSUME NEW p, PoolOk(p), NEW j \in DOMAIN p.active
    PROVE  Less(Fence(Retired(p, {p.active[j]})), p, j)
<1>1. PICK l : l = p.active[j]
  OBVIOUS
<1>2. l.request = j /\ The({l}) = l
  BY <1>1, CurrentLease
<1>3. PICK mid : mid = Retire(p, l)
  OBVIOUS
<1>4. /\ Exact(mid, JobIds, OnlyEpoch)
      /\ DOMAIN mid.active = DOMAIN p.active \ {j}
      /\ \A k \in DOMAIN mid.active : mid.active[k] = p.active[k]
  <2>1. Exact(p, JobIds, OnlyEpoch)
    BY DEF PoolOk
  <2> QED
    BY <1>2, <1>3, <2>1, RetireExact
<1>5. Exact(Fence(mid), JobIds, OnlyEpoch) /\ Fence(mid).active = mid.active /\ Fence(mid).retired = {}
  <2>1. Exact(mid, JobIds, OnlyEpoch)
    BY <1>4
  <2> QED
    BY <2>1, FenceExact
<1>6. Less(Fence(mid), p, j)
  BY <1>4, <1>5 DEF PoolOk, Less
<1> QED
  BY <1>1, <1>2, <1>3, <1>6 DEF Retired

\* So it is when a job gives back the lease it may have.
LEMMA GivenBack ==
    ASSUME NEW p, PoolOk(p), NEW j, NEW option,
           \/ option = {} /\ j \notin DOMAIN p.active
           \/ j \in DOMAIN p.active /\ option = {p.active[j]}
    PROVE  ~Stale(p, option) /\ Less(Fence(Retired(p, option)), p, j)
<1>1. CASE option = {} /\ j \notin DOMAIN p.active
  <2>1. Retired(p, option) = p /\ ~Stale(p, option)
    BY <1>1 DEF Retired, Stale
  <2>2. PoolOk(Fence(p)) /\ Fence(p).active = p.active
    BY EmptyFence
  <2> QED
    BY <1>1, <2>1, <2>2 DEF Less
<1>2. CASE j \in DOMAIN p.active /\ option = {p.active[j]}
  BY <1>2, CurrentLease, Returned
<1> QED
  BY <1>1, <1>2

\* A queue without one of its ids.
LEMMA DequeuedLists ==
    ASSUME NEW S, Lists(queue, S), NEW j
    PROVE  Lists(Dequeued(j), S \ {j})
<1> DEFINE kept == {i \in DOMAIN queue : queue[i] # j}
           n == Cardinality(kept)
           at(k) == CHOOSE i \in kept : Position(kept, i) = k - 1
           rest == [k \in 1 .. n |-> queue[at(k)]]
<1>1. /\ queue \in Seq(JobIds) /\ DOMAIN queue = 1 .. Len(queue) /\ Len(queue) \in Nat
      /\ \A i \in DOMAIN queue : queue[i] \in JobIds
  BY LenProperties, ElementOfSeq DEF Lists
<1>2. kept \in SUBSET Nat /\ IsFiniteSet(kept) /\ n \in Nat
  <2>1. IsFiniteSet(1 .. Len(queue))
    BY <1>1, FS_Interval
  <2> QED
    BY <1>1, <2>1, FS_Subset, FS_CardinalityType
<1>3. Dequeued(j) = rest
  BY DEF Dequeued, Position
<1> HIDE DEF kept, n
<1>4. ASSUME NEW k \in 1 .. n PROVE at(k) \in kept /\ Position(kept, at(k)) = k - 1
  <2>1. k - 1 \in 0 .. n - 1
    BY <1>2
  <2>2. \E i \in kept : Position(kept, i) = k - 1
    BY <1>2, <2>1, PositionBijective DEF n
  <2> QED
    BY <2>2
<1>5. ASSUME NEW i \in kept PROVE \E k \in 1 .. n : at(k) = i
  <2>1. Position(kept, i) \in Nat /\ Position(kept, i) < n
    BY <1>2, PositionGrows DEF n
  <2>2. PICK k \in 1 .. n : k - 1 = Position(kept, i)
    <3>1. Position(kept, i) + 1 \in 1 .. n /\ (Position(kept, i) + 1) - 1 = Position(kept, i)
      BY <1>2, <2>1
    <3> QED
      BY <3>1
  <2>3. at(k) \in kept /\ Position(kept, at(k)) = Position(kept, i)
    BY <1>4, <2>2
  <2>4. at(k) = i
    BY <1>2, <2>3, PositionBijective
  <2> QED
    BY <2>4
<1>6. ASSUME NEW i PROVE i \in kept <=> i \in DOMAIN queue /\ queue[i] # j
  BY DEF kept
<1> HIDE DEF at
<1>7. DOMAIN rest = 1 .. n /\ \A k \in 1 .. n : rest[k] = queue[at(k)]
  OBVIOUS
<1>8. rest \in Seq(JobIds)
  <2>1. \A k \in 1 .. n : rest[k] \in JobIds
    BY <1>1, <1>4, <1>6, <1>7
  <2> QED
    BY <1>2, <2>1
<1> HIDE DEF rest
<1>9. ASSUME NEW i \in 1 .. n, NEW k \in 1 .. n, rest[i] = rest[k] PROVE i = k
  <2>1. at(i) \in DOMAIN queue /\ at(k) \in DOMAIN queue /\ queue[at(i)] = queue[at(k)]
    BY <1>4, <1>6, <1>7, <1>9
  <2>2. at(i) = at(k)
    BY <2>1 DEF Lists
  <2>3. i - 1 = k - 1
    BY <1>4, <2>2
  <2> QED
    BY <1>2, <2>3
<1>10. ASSUME NEW i \in 1 .. n PROVE rest[i] \in S \ {j}
  BY <1>4, <1>6, <1>7 DEF Lists
<1>11. ASSUME NEW h \in S \ {j} PROVE \E i \in 1 .. n : rest[i] = h
  <2>1. PICK i \in DOMAIN queue : queue[i] = h
    BY DEF Lists
  <2>2. i \in kept
    BY <1>6, <2>1
  <2>3. PICK k \in 1 .. n : at(k) = i
    BY <1>5, <2>2
  <2> QED
    BY <1>7, <2>1, <2>3
<1>12. Lists(rest, S \ {j})
  BY <1>7, <1>8, <1>9, <1>10, <1>11 DEF Lists
<1> QED
  BY <1>3, <1>12

\* One more id at the end, or the first one moved there.
LEMMA QueueGrows ==
    ASSUME NEW q, NEW S, Lists(q, S), NEW j \in JobIds, j \notin S
    PROVE  Lists(Append(q, j), S \cup {j})
<1>1. /\ q \in Seq(JobIds) /\ DOMAIN q = 1 .. Len(q) /\ Len(q) \in Nat
  BY LenProperties DEF Lists
<1>2. PICK more : more = Append(q, j)
  OBVIOUS
<1>3. /\ more \in Seq(JobIds) /\ Len(more) = Len(q) + 1
      /\ \A i \in 1 .. Len(q) : more[i] = q[i]
      /\ more[Len(q) + 1] = j
  BY <1>1, <1>2, AppendProperties
<1>4. DOMAIN more = 1 .. Len(q) + 1
  BY <1>3, LenProperties
<1>5. ASSUME NEW i \in 1 .. Len(q) + 1, i # Len(q) + 1 PROVE i \in DOMAIN q /\ more[i] = q[i]
  BY <1>1, <1>3, <1>5
<1>6. \A i \in DOMAIN q : q[i] \in S
  BY DEF Lists
<1>7. ASSUME NEW i \in DOMAIN more, NEW k \in DOMAIN more, more[i] = more[k] PROVE i = k
  <2>1. CASE i = Len(q) + 1 \/ k = Len(q) + 1
    BY <1>3, <1>4, <1>5, <1>6, <1>7, <2>1
  <2>2. CASE i # Len(q) + 1 /\ k # Len(q) + 1
    BY <1>4, <1>5, <1>7, <2>2 DEF Lists
  <2> QED
    BY <2>1, <2>2
<1>8. ASSUME NEW i \in DOMAIN more PROVE more[i] \in S \cup {j}
  BY <1>3, <1>4, <1>5, <1>6
<1>9. ASSUME NEW h \in S \cup {j} PROVE \E i \in DOMAIN more : more[i] = h
  <2>1. CASE h = j
    <3>1. Len(q) + 1 \in DOMAIN more
      BY <1>1, <1>4
    <3> QED
      BY <1>3, <2>1, <3>1
  <2>2. CASE h \in S
    <3>1. PICK i \in DOMAIN q : q[i] = h
      BY <2>2 DEF Lists
    <3>2. i \in DOMAIN more /\ more[i] = q[i]
      BY <1>1, <1>3, <1>4
    <3> QED
      BY <3>1, <3>2
  <2> QED
    BY <2>1, <2>2
<1> QED
  BY <1>2, <1>3, <1>7, <1>8, <1>9 DEF Lists

LEMMA QueueTurns ==
    ASSUME NEW q, NEW S, Lists(q, S), q # << >>
    PROVE  /\ Head(q) \in S
           /\ Lists(Append(Tail(q), Head(q)), S)
           /\ Len(q) \in Nat \ {0} /\ Head(q) = q[1] /\ Len(Append(Tail(q), Head(q))) = Len(q)
           /\ \A k \in 1 .. Len(q) - 1 :
                 Append(Tail(q), Head(q))[k] = q[k + 1] /\ q[k + 1] # Head(q)
<1>1. /\ q \in Seq(JobIds) /\ DOMAIN q = 1 .. Len(q) /\ Len(q) \in Nat \ {0}
  BY LenProperties, EmptySeq DEF Lists
<1>2. /\ Head(q) \in JobIds /\ Tail(q) \in Seq(JobIds) /\ Len(Tail(q)) = Len(q) - 1
      /\ \A i \in 1 .. Len(Tail(q)) : Tail(q)[i] = q[i + 1]
  BY <1>1, HeadTailProperties
<1>3. DOMAIN Tail(q) = 1 .. Len(q) - 1
  BY <1>2, LenProperties
<1>4. Head(q) = q[1] /\ 1 \in DOMAIN q
  BY <1>1
<1>5. Head(q) \in S
  BY <1>4 DEF Lists
<1>6. \A i, k \in DOMAIN q : q[i] = q[k] => i = k
  BY DEF Lists
<1>7. ASSUME NEW i \in 1 .. Len(q) - 1 PROVE Tail(q)[i] = q[i + 1] /\ i + 1 \in DOMAIN q /\ q[i + 1] # Head(q)
  <2>1. Tail(q)[i] = q[i + 1]
    BY <1>2
  <2>2. i + 1 \in DOMAIN q /\ i + 1 # 1
    BY <1>1
  <2> QED
    BY <1>4, <1>6, <2>1, <2>2
<1>8. Lists(Tail(q), S \ {Head(q)})
  <2>1. ASSUME NEW i \in DOMAIN Tail(q), NEW k \in DOMAIN Tail(q), Tail(q)[i] = Tail(q)[k]
        PROVE  i = k
    <3>1. i + 1 = k + 1
      BY <1>3, <1>6, <1>7, <2>1
    <3> QED
      BY <1>1, <1>3, <3>1
  <2>2. ASSUME NEW i \in DOMAIN Tail(q) PROVE Tail(q)[i] \in S \ {Head(q)}
    BY <1>3, <1>7 DEF Lists
  <2>3. ASSUME NEW h \in S \ {Head(q)} PROVE \E i \in DOMAIN Tail(q) : Tail(q)[i] = h
    <3>1. PICK i \in DOMAIN q : q[i] = h
      BY DEF Lists
    <3>2. i - 1 \in 1 .. Len(q) - 1 /\ (i - 1) + 1 = i
      BY <1>1, <1>4, <3>1
    <3>3. i - 1 \in DOMAIN Tail(q) /\ Tail(q)[i - 1] = q[i]
      BY <1>3, <1>7, <3>2
    <3> QED
      BY <3>1, <3>3
  <2> QED
    BY <1>2, <2>1, <2>2, <2>3, Zenon DEF Lists
<1>9. Lists(Append(Tail(q), Head(q)), (S \ {Head(q)}) \cup {Head(q)})
  BY <1>2, <1>8, QueueGrows
<1>10. (S \ {Head(q)}) \cup {Head(q)} = S
  BY <1>5
<1>11. /\ Len(Append(Tail(q), Head(q))) = Len(q)
       /\ \A k \in 1 .. Len(q) - 1 : Append(Tail(q), Head(q))[k] = Tail(q)[k]
  BY <1>1, <1>2, AppendProperties
<1> QED
  BY <1>1, <1>4, <1>5, <1>7, <1>9, <1>10, <1>11

----------------------------------------------------------------------------
(* The end of a job and its tokens.                                        *)

\* What a job holds depends on its own leases only.
LEMMA HoldsAlone ==
    ASSUME NEW j, NEW job, NEW p, NEW d, NEW p2, NEW d2, Holds(job, j, p, d),
           j \in DOMAIN p2.active <=> j \in DOMAIN p.active,
           j \in DOMAIN d2.active <=> j \in DOMAIN d.active,
           j \in DOMAIN p.active => p2.active[j] = p.active[j],
           j \in DOMAIN d.active => d2.active[j] = d.active[j]
    PROVE  Holds(job, j, p2, d2)
BY DEF Holds

\* remove ends one job, with both its leases.
LEMMA HeldRemove ==
    ASSUME NEW p, NEW d, NEW js, Held(p, d, js), NEW j \in DOMAIN js, Remove(j, p, d, js)
    PROVE  /\ ok' = ok /\ queue' = Dequeued(j)
           /\ Held(p_pool', d_pool', jobs')
           /\ DOMAIN jobs' = DOMAIN js \ {j} /\ \A k \in DOMAIN js \ {j} : jobs'[k] = js[k]
           /\ Less(p_pool', p, j) /\ Less(d_pool', d, j)
<1>1. PoolOk(p) /\ PoolOk(d) /\ Holds(js[j], j, p, d)
  BY DEF Held
<1>2. ~Stale(p, js[j].prefill) /\ Less(Fence(Retired(p, js[j].prefill)), p, j)
  BY <1>1, GivenBack DEF Holds
<1>3. ~Stale(d, js[j].decode) /\ Less(Fence(Retired(d, js[j].decode)), d, j)
  BY <1>1, GivenBack DEF Holds
<1>4. /\ p_pool' = Fence(Retired(p, js[j].prefill)) /\ d_pool' = Fence(Retired(d, js[j].decode))
      /\ jobs' = [i \in DOMAIN js \ {j} |-> js[i]] /\ queue' = Dequeued(j) /\ ok' = ok
  BY <1>2, <1>3 DEF Remove
<1>5. PICK p2, d2, js2 : p2 = p_pool' /\ d2 = d_pool' /\ js2 = jobs'
  OBVIOUS
<1>6. /\ Less(p2, p, j) /\ Less(d2, d, j) /\ js2 = [i \in DOMAIN js \ {j} |-> js[i]]
  BY <1>2, <1>3, <1>4, <1>5
<1>7. /\ DOMAIN js2 = DOMAIN js \ {j} /\ \A k \in DOMAIN js \ {j} : js2[k] = js[k]
      /\ js2 = [k \in DOMAIN js2 |-> js2[k]]
  BY <1>6
<1>8. Held(p2, d2, js2)
  <2>1. ASSUME NEW k \in DOMAIN js2 PROVE Holds(js2[k], k, p2, d2)
    <3>1. k \in DOMAIN js /\ k # j /\ js2[k] = js[k] /\ Holds(js[k], k, p, d)
      BY <1>7 DEF Held
    <3>2. Holds(js[k], k, p2, d2)
      BY <1>6, <3>1, HoldsAlone DEF Less
    <3> QED
      BY <3>1, <3>2
  <2>2. IsFiniteSet(DOMAIN js2) /\ DOMAIN js2 \subseteq JobIds
    BY <1>7, FS_Subset DEF Held
  <2>3. DOMAIN p2.active \cup DOMAIN d2.active \subseteq DOMAIN js2
    BY <1>6, <1>7 DEF Held, Less
  <2> QED
    BY <1>6, <1>7, <2>1, <2>2, <2>3 DEF Held, Less
<1> QED
  BY <1>4, <1>5, <1>6, <1>7, <1>8

\* A job whose next token is due: it consumed all it generated before.
Due(job) ==
    job.generated \in 0 .. job.max_new - 1 /\ job.consumed = job.prompt + job.generated

AllCounted(js) == \A k \in DOMAIN js : Counted(js[k])

OthersCounted(js, j) == \A k \in DOMAIN js : k # j => Counted(js[k])

\* The state after a token of one job, from the pools and jobs of the moment.
Emitted(j, p, d, js) ==
    /\ ok' = ok /\ Held(p_pool', d_pool', jobs') /\ AllCounted(jobs')
    /\ Lists(queue', DOMAIN p_pool'.active)
    /\ DOMAIN p_pool'.active = DOMAIN p.active
    /\ DOMAIN d.active \ {j} \subseteq DOMAIN d_pool'.active
    /\ DOMAIN p.active \subseteq DOMAIN jobs'
    /\ \A k \in DOMAIN jobs' : k # j => jobs'[k] = js[k]

\* A token of a decoding job that consumed all it generated before leaves every job
\* counted, and the queue and the prefill leases as they were.
LEMMA EmitCounts ==
    ASSUME NEW p, NEW d, NEW js, Held(p, d, js), NEW q, NEW j \in DOMAIN d.active,
           \E ends \in BOOLEAN : Emit(j, ends, p, d, js, q),
           Lists(q, DOMAIN p.active), Lists(Dequeued(j), DOMAIN p.active),
           Due(js[j]), OthersCounted(js, j)
    PROVE  Emitted(j, p, d, js)
<1>1. PICK js2 : js2 = [js EXCEPT ![j].generated = @ + 1]
  OBVIOUS
<1>2. /\ j \in DOMAIN js /\ Holds(js[j], j, p, d) /\ js[j] \in Job
      /\ js = [k \in DOMAIN js |-> js[k]]
      /\ j \notin DOMAIN p.active /\ js[j].prefill = {} /\ js[j].decode = {d.active[j]}
  BY DEF Held, Holds
<1>3. /\ DOMAIN js2 = DOMAIN js /\ \A k \in DOMAIN js : k # j => js2[k] = js[k]
      /\ js2[j] = [js[j] EXCEPT !.generated = @ + 1]
      /\ js2 = [k \in DOMAIN js2 |-> js2[k]]
  BY <1>1, <1>2
<1>4. /\ js2[j] \in Job /\ js2[j].generated = js[j].generated + 1
      /\ js2[j].consumed = js[j].consumed /\ js2[j].prompt = js[j].prompt
      /\ js2[j].max_new = js[j].max_new /\ js2[j].prefill = {} /\ js2[j].decode = {d.active[j]}
  BY <1>2, <1>3 DEF Job
<1>5. Held(p, d, js2)
  <2>1. Holds(js2[j], j, p, d)
    BY <1>2, <1>4 DEF Holds
  <2> QED
    BY <1>3, <2>1 DEF Held
<1>6. /\ js[j].prompt \in Nat /\ js[j].max_new \in Nat \ {0} /\ js[j].generated \in Nat
      /\ js[j].generated \in 0 .. js[j].max_new - 1
      /\ js[j].consumed = js[j].prompt + js[j].generated
  BY <1>2 DEF Job, Due
<1> PICK ends \in BOOLEAN : Emit(j, ends, p, d, js, q)
  OBVIOUS
<1>7. CASE ends \/ js2[j].generated = js2[j].max_new
  <2>1. Remove(j, p, d, js2)
    BY <1>1, <1>7 DEF Emit
  <2>2. /\ ok' = ok /\ queue' = Dequeued(j) /\ Held(p_pool', d_pool', jobs')
        /\ DOMAIN jobs' = DOMAIN js2 \ {j} /\ \A k \in DOMAIN js2 \ {j} : jobs'[k] = js2[k]
        /\ Less(p_pool', p, j) /\ Less(d_pool', d, j)
    <3>1. j \in DOMAIN js2
      BY <1>2, <1>3
    <3> QED
      BY <1>5, <2>1, <3>1, HeldRemove
  <2>3. /\ \A k \in DOMAIN jobs' : k \in DOMAIN js \ {j} /\ jobs'[k] = js[k]
        /\ DOMAIN p_pool'.active = DOMAIN p.active
        /\ DOMAIN d_pool'.active = DOMAIN d.active \ {j}
    BY <1>2, <1>3, <2>2 DEF Less
  <2>4. DOMAIN p.active \subseteq DOMAIN jobs'
    BY <1>2, <1>3, <2>2 DEF Held
  <2> QED
    BY <2>2, <2>3, <2>4 DEF AllCounted, OthersCounted, Emitted
<1>8. CASE ~(ends \/ js2[j].generated = js2[j].max_new)
  <2>1. p_pool' = p /\ d_pool' = d /\ jobs' = js2 /\ queue' = q /\ ok' = ok
    BY <1>1, <1>8 DEF Emit
  <2>2. Counted(js2[j])
    <3>1. /\ js2[j].generated \in 1 .. js2[j].max_new - 1
          /\ js2[j].consumed = js2[j].prompt + js2[j].generated - 1
      BY <1>4, <1>6, <1>8
    <3> QED
      BY <1>4, <3>1 DEF Counted
  <2>3. AllCounted(js2)
    BY <1>3, <2>2 DEF AllCounted, OthersCounted
  <2>4. DOMAIN p.active \subseteq DOMAIN js2
    BY <1>3 DEF Held
  <2> QED
    BY <1>3, <1>5, <2>1, <2>3, <2>4 DEF Emitted
<1> QED
  BY <1>7, <1>8

----------------------------------------------------------------------------
(* Admission, cancellation and the decode half of a step.                  *)

LEMMA InitLive == LiveInit => LiveInv
<1> SUFFICES ASSUME LiveInit PROVE LiveInv
  OBVIOUS
<1>1. ASSUME NEW p, p = NewPool PROVE PoolOk(p) /\ DOMAIN p.active = {}
  <2>1. /\ p.free_pages = PageIds /\ p.free_slots = SlotIds /\ p.retired = {}
        /\ DOMAIN p.active = {} /\ p.generation = 0
    BY <1>1 DEF NewPool
  <2>2. p \in PoolSet(JobIds, OnlyEpoch)
    <3>1. p.active \in ActiveSet(JobIds, OnlyEpoch)
      <4>1. p.active \in [{} -> LeaseSet(JobIds, OnlyEpoch)]
        BY <1>1 DEF NewPool
      <4> QED
        BY <2>1, <4>1, ActiveIs
    <3> QED
      BY <1>1, <3>1 DEF NewPool, PoolSet
  <2>3. Leases(p) = {}
    BY <2>1 DEF Leases
  <2>4. Conserved(p)
    BY <2>1, <2>3 DEF Conserved
  <2> QED
    BY <2>1, <2>2, <2>4 DEF PoolOk, Exact
<1>2. /\ PoolOk(p_pool) /\ PoolOk(d_pool) /\ DOMAIN p_pool.active = {} /\ DOMAIN d_pool.active = {}
  BY <1>1 DEF LiveInit
<1>3. jobs = << >> /\ queue = << >> /\ phase = "idle" /\ ok
  BY DEF LiveInit
<1>4. DOMAIN jobs = {} /\ jobs = [j \in DOMAIN jobs |-> jobs[j]]
  BY <1>3
<1>5. Held(p_pool, d_pool, jobs) /\ \A j \in DOMAIN jobs : Counted(jobs[j])
  BY <1>2, <1>4, FS_EmptySet DEF Held
<1>6. Lists(queue, DOMAIN p_pool.active)
  <2>1. queue \in Seq(JobIds) /\ DOMAIN queue = {}
    BY <1>3
  <2> QED
    BY <1>2, <2>1 DEF Lists
<1> QED
  BY <1>3, <1>5, <1>6 DEF LiveInv, Agree, InPhase

\* A reservation adds one lease to a pool, long enough for its tokens.
LEMMA Reserved ==
    ASSUME NEW p, PoolOk(p), NEW j \in JobIds, j \notin DOMAIN p.active,
           NEW tokens \in Nat, HasRoom(p, tokens), NEW lease, lease = NewLease(p, j, 0, tokens)
    PROVE  /\ PoolOk(PoolReserve(p, lease)) /\ lease \in Leased
           /\ DOMAIN PoolReserve(p, lease).active = DOMAIN p.active \cup {j}
           /\ PoolReserve(p, lease).active[j] = lease
           /\ \A k \in DOMAIN p.active : PoolReserve(p, lease).active[k] = p.active[k]
           /\ Cardinality(lease.pages) = PagesFor(tokens)
<1>1. Exact(p, JobIds, OnlyEpoch) /\ p.retired = {} /\ 0 \in OnlyEpoch
  BY DEF PoolOk, OnlyEpoch
<1>2. /\ lease \in LeaseSet(JobIds, OnlyEpoch)
      /\ lease.pages \subseteq p.free_pages /\ lease.slot \in p.free_slots
      /\ Cardinality(lease.pages) = PagesFor(tokens)
  BY <1>1, NewLeaseFits
<1>3. lease.request = j
  BY DEF NewLease
<1>4. ~Owns(p, lease.request)
  BY <1>1, <1>3 DEF Owns
<1>5. /\ Exact(PoolReserve(p, lease), JobIds, OnlyEpoch)
      /\ PoolReserve(p, lease).active
           = [r \in DOMAIN p.active \cup {j} |-> IF r = j THEN lease ELSE p.active[r]]
      /\ PoolReserve(p, lease).retired = {}
  BY <1>1, <1>2, <1>3, <1>4, ReserveExact
<1>6. PICK next : next = PoolReserve(p, lease)
  OBVIOUS
<1>7. /\ DOMAIN next.active = DOMAIN p.active \cup {j} /\ next.active[j] = lease
      /\ \A k \in DOMAIN p.active : next.active[k] = p.active[k]
  BY <1>5, <1>6
<1> QED
  BY <1>2, <1>5, <1>6, <1>7 DEF PoolOk, Leased

\* Which jobs prefill and which decode shows in the pools.
LEMMA Sides ==
    ASSUME Held(p_pool, d_pool, jobs)
    PROVE  /\ \A j \in DOMAIN jobs : (jobs[j].prefill # {}) <=> (j \in DOMAIN p_pool.active)
           /\ \A j \in DOMAIN jobs : (jobs[j].prefill = {}) <=> (j \in DOMAIN d_pool.active)
           /\ \A j \in DOMAIN jobs : (jobs[j].decode # {}) <=> (j \in DOMAIN d_pool.active)
           /\ \A j \in DOMAIN p_pool.active :
                 /\ j \in DOMAIN jobs /\ j \notin DOMAIN d_pool.active
                 /\ jobs[j].prefill = {p_pool.active[j]} /\ jobs[j].decode = {}
           /\ \A j \in DOMAIN d_pool.active :
                 /\ j \in DOMAIN jobs /\ j \notin DOMAIN p_pool.active
                 /\ jobs[j].decode = {d_pool.active[j]} /\ jobs[j].prefill = {}
           /\ Decoding = DOMAIN d_pool.active /\ DOMAIN jobs \subseteq Nat
           /\ \A S \in SUBSET DOMAIN jobs : IsFiniteSet(S)
           /\ \A j \in DOMAIN jobs : jobs[j] \in Job
<1>1. \A j \in DOMAIN jobs : Holds(jobs[j], j, p_pool, d_pool)
  BY DEF Held
<1>2. DOMAIN p_pool.active \subseteq DOMAIN jobs /\ DOMAIN d_pool.active \subseteq DOMAIN jobs
  BY DEF Held
<1>3. \A j \in DOMAIN jobs : jobs[j] \in Job
  BY <1>1 DEF Holds
<1>4. /\ \A j \in DOMAIN p_pool.active :
            /\ j \in DOMAIN jobs /\ j \notin DOMAIN d_pool.active
            /\ jobs[j].prefill = {p_pool.active[j]} /\ jobs[j].decode = {}
      /\ \A j \in DOMAIN d_pool.active :
            /\ j \in DOMAIN jobs /\ j \notin DOMAIN p_pool.active
            /\ jobs[j].decode = {d_pool.active[j]} /\ jobs[j].prefill = {}
  BY <1>1, <1>2 DEF Holds
<1>5. \A j \in DOMAIN jobs : j \in DOMAIN p_pool.active \/ j \in DOMAIN d_pool.active
  BY <1>1 DEF Holds
<1>6. Decoding = DOMAIN d_pool.active
  BY <1>4, <1>5 DEF Decoding
<1>7. DOMAIN jobs \subseteq Nat /\ \A S \in SUBSET DOMAIN jobs : IsFiniteSet(S)
  BY Numbers, FS_Subset DEF Held
<1> QED
  BY <1>3, <1>4, <1>5, <1>6, <1>7

LEMMA SubmitKeeps ==
    ASSUME LiveInv, NEW r \in Requests, Submit(r)
    PROVE  LiveInv'
<1>1. PICK j : j = r.id
  OBVIOUS
<1>2. PICK lease : lease = NewLease(p_pool, j, 0, r.prompt)
  OBVIOUS
<1>3. PICK job : job = [prompt |-> r.prompt, max_new |-> r.max_new, consumed |-> 0,
                        generated |-> 0, prefill |-> {lease}, decode |-> {}]
  OBVIOUS
<1>4. PICK js : js = [i \in DOMAIN jobs \cup {j} |-> IF i = j THEN job ELSE jobs[i]]
  OBVIOUS
<1>5. PICK p : p = PoolReserve(p_pool, lease)
  OBVIOUS
<1>6. /\ p_pool' = p /\ jobs' = js /\ queue' = Append(queue, j)
      /\ d_pool' = d_pool /\ ok' = ok /\ phase' = "idle"
      /\ j \notin DOMAIN jobs /\ HasRoom(p_pool, r.prompt)
  BY <1>1, <1>2, <1>3, <1>4, <1>5 DEF Submit
<1>7. /\ j \in JobIds /\ r.prompt \in Nat \ {0} /\ r.max_new \in Nat \ {0}
      /\ r.prompt + r.max_new <= MaxContext
  BY <1>1, Numbers
<1>8. /\ ok /\ Held(p_pool, d_pool, jobs) /\ Lists(queue, DOMAIN p_pool.active)
      /\ \A k \in DOMAIN jobs : Counted(jobs[k])
  BY DEF LiveInv, Agree
<1>9. j \notin DOMAIN p_pool.active /\ j \notin DOMAIN d_pool.active /\ PoolOk(p_pool)
  BY <1>6, <1>8 DEF Held
<1>10. /\ PoolOk(p) /\ lease \in Leased
       /\ DOMAIN p.active = DOMAIN p_pool.active \cup {j} /\ p.active[j] = lease
       /\ \A k \in DOMAIN p_pool.active : p.active[k] = p_pool.active[k]
       /\ Cardinality(lease.pages) = PagesFor(r.prompt)
  BY <1>2, <1>5, <1>6, <1>7, <1>9, Reserved
<1>11. /\ DOMAIN js = DOMAIN jobs \cup {j} /\ js[j] = job
       /\ \A k \in DOMAIN jobs : js[k] = jobs[k]
       /\ js = [k \in DOMAIN js |-> js[k]]
  BY <1>4, <1>6
<1>12. Holds(job, j, p, d_pool) /\ Counted(job)
  <2>1. job \in Job
    BY <1>3, <1>7, <1>10 DEF Job
  <2>2. PagesFor(r.prompt) <= PagesFor(r.prompt)
    BY <1>7, PoolNumbers
  <2> QED
    BY <1>3, <1>7, <1>9, <1>10, <2>1, <2>2 DEF Holds, Counted
<1>13. \A k \in DOMAIN jobs : Holds(jobs[k], k, p, d_pool)
  <2> SUFFICES ASSUME NEW k \in DOMAIN jobs PROVE Holds(jobs[k], k, p, d_pool)
    OBVIOUS
  <2>1. Holds(jobs[k], k, p_pool, d_pool) /\ k # j
    BY <1>6, <1>8 DEF Held
  <2> QED
    BY <1>10, <2>1, HoldsAlone
<1>14. Held(p, d_pool, js)
  <2>1. IsFiniteSet(DOMAIN js) /\ DOMAIN js \subseteq JobIds
    BY <1>7, <1>8, <1>11, FS_AddElement DEF Held
  <2> QED
    BY <1>8, <1>10, <1>11, <1>12, <1>13, <2>1 DEF Held
<1>15. Lists(Append(queue, j), DOMAIN p.active)
  BY <1>7, <1>8, <1>9, <1>10, QueueGrows
<1>16. \A k \in DOMAIN js : Counted(js[k])
  BY <1>8, <1>11, <1>12
<1>17. Agree'
  BY <1>6, <1>8, <1>14, <1>15, <1>16 DEF Agree
<1> QED
  BY <1>6, <1>17 DEF LiveInv, InPhase

LEMMA CancelKeeps ==
    ASSUME LiveInv, NEW r \in Requests, Cancel(r.id)
    PROVE  LiveInv'
<1>1. PICK j : j = r.id
  OBVIOUS
<1>2. /\ ok /\ Held(p_pool, d_pool, jobs) /\ Lists(queue, DOMAIN p_pool.active)
      /\ \A k \in DOMAIN jobs : Counted(jobs[k])
  BY DEF LiveInv, Agree
<1>3. Lists(Dequeued(j), DOMAIN p_pool.active \ {j})
  BY <1>2, DequeuedLists
<1>4. ASSUME j \in DOMAIN jobs PROVE Agree'
  <2>1. Remove(j, p_pool, d_pool, jobs)
    BY <1>1, <1>4 DEF Cancel
  <2>2. /\ ok' = ok /\ queue' = Dequeued(j) /\ Held(p_pool', d_pool', jobs')
        /\ DOMAIN jobs' = DOMAIN jobs \ {j} /\ \A k \in DOMAIN jobs \ {j} : jobs'[k] = jobs[k]
        /\ Less(p_pool', p_pool, j)
    BY <1>2, <1>4, <2>1, HeldRemove
  <2>3. \A k \in DOMAIN jobs' : Counted(jobs'[k])
    BY <1>2, <2>2
  <2> QED
    BY <1>2, <1>3, <2>2, <2>3 DEF Less, Agree
<1>5. ASSUME j \notin DOMAIN jobs PROVE Agree'
  <2>1. /\ p_pool' = Fence(p_pool) /\ d_pool' = Fence(d_pool) /\ queue' = Dequeued(j)
        /\ jobs' = jobs /\ ok' = ok
    BY <1>1, <1>5 DEF Cancel
  <2>2. /\ PoolOk(p_pool') /\ p_pool'.active = p_pool.active
        /\ PoolOk(d_pool') /\ d_pool'.active = d_pool.active
    BY <1>2, <2>1, EmptyFence DEF Held
  <2>3. \A k \in DOMAIN jobs : Holds(jobs[k], k, p_pool', d_pool')
    <3> SUFFICES ASSUME NEW k \in DOMAIN jobs PROVE Holds(jobs[k], k, p_pool', d_pool')
      OBVIOUS
    <3>1. Holds(jobs[k], k, p_pool, d_pool)
      BY <1>2 DEF Held
    <3> QED
      BY <2>2, <3>1 DEF Holds
  <2>4. Held(p_pool', d_pool', jobs)
    BY <1>2, <2>2, <2>3 DEF Held
  <2>5. DOMAIN p_pool'.active = DOMAIN p_pool.active \ {j}
    BY <1>2, <1>5, <2>2 DEF Held
  <2> QED
    BY <1>2, <1>3, <2>1, <2>4, <2>5 DEF Agree
<1>6. phase' = "idle"
  BY DEF Cancel
<1> QED
  BY <1>4, <1>5, <1>6 DEF LiveInv, InPhase

LEMMA BeginStepKeeps ==
    ASSUME LiveInv, BeginStep
    PROVE  LiveInv'
<1>1. /\ ok /\ Held(p_pool, d_pool, jobs)
  BY DEF LiveInv, Agree
<1>2. /\ Decoding = DOMAIN d_pool.active /\ Decoding \in SUBSET Nat /\ IsFiniteSet(Decoding)
  <2>1. Decoding \subseteq DOMAIN jobs
    BY DEF Decoding
  <2> QED
    BY <1>1, <2>1, Sides
<1>3. PICK n : n = Smaller(Batch, Cardinality(Decoding))
  OBVIOUS
<1>4. n \in Nat /\ n <= Cardinality(Decoding)
  BY <1>2, <1>3, Numbers, FS_CardinalityType DEF Smaller
<1>5. Lowest(Decoding, n) \subseteq Decoding
  BY <1>2, <1>4, LowestOf
<1>6. /\ phase' = "ensure" /\ inputs' = {} /\ todo' = Lowest(Decoding, n)
      /\ p_pool' = p_pool /\ d_pool' = d_pool /\ jobs' = jobs /\ queue' = queue /\ ok' = ok
  BY <1>3 DEF BeginStep
<1>7. Agree'
  BY <1>6 DEF LiveInv, Agree
<1>8. InPhase'
  BY <1>2, <1>5, <1>6 DEF InPhase, DecodeInputs, OneEach
<1> QED
  BY <1>7, <1>8 DEF LiveInv

\* The lowest id still to visit is one of them.
LEMMA LeastTodo ==
    ASSUME NEW S \in SUBSET Nat, IsFiniteSet(S), S # {}
    PROVE  Least(S) \in S
<1>1. \E j \in S : \A other \in S : j <= other
  BY LeastMember
<1> QED
  BY <1>1 DEF Least

\* The loop that gives each decoding job its next page or ends it.
LEMMA EnsureNextKeeps ==
    ASSUME LiveInv, EnsureNext
    PROVE  LiveInv'
<1>1. /\ ok /\ Held(p_pool, d_pool, jobs) /\ Lists(queue, DOMAIN p_pool.active)
      /\ \A k \in DOMAIN jobs : Counted(jobs[k])
      /\ phase = "ensure" /\ todo \subseteq DOMAIN d_pool.active /\ DecodeInputs
  BY DEF LiveInv, Agree, InPhase, EnsureNext
<1>2. PICK j : j = Least(todo)
  OBVIOUS
<1>3. j \in todo /\ j \in DOMAIN d_pool.active
  <2>1. todo # {}
    BY DEF EnsureNext
  <2>2. todo \in SUBSET DOMAIN jobs /\ todo \in SUBSET Nat
    BY <1>1, Sides
  <2> QED
    BY <1>1, <1>2, <2>1, <2>2, Sides, LeastTodo
<1>4. /\ j \in DOMAIN jobs /\ j \notin DOMAIN p_pool.active /\ jobs[j] \in Job
      /\ jobs[j].decode = {d_pool.active[j]} /\ jobs[j].prefill = {}
  BY <1>1, <1>3, Sides
<1>5. PICK lease : lease = d_pool.active[j]
  OBVIOUS
<1>6. /\ The(jobs[j].decode) = lease /\ Check(d_pool, lease) /\ lease.request = j
      /\ PoolOk(d_pool)
  BY <1>1, <1>3, <1>4, <1>5, CurrentLease DEF Held
<1>7. PICK upto : upto = jobs[j].consumed + 1
  OBVIOUS
<1>8. upto \in Nat
  BY <1>4, <1>7 DEF Job
<1>9. /\ todo' = todo \ {j} /\ phase' = "ensure"
  BY <1>1, <1>2 DEF EnsureNext
<1>10. ASSUME CanGrow(d_pool, lease, upto) PROVE LiveInv'
  <2>1. PICK grown : grown = Grown(d_pool, lease, upto)
    OBVIOUS
  <2>2. PICK js : js = [jobs EXCEPT ![j].decode = {grown.active[j]}]
    OBVIOUS
  <2>3. /\ d_pool' = grown /\ jobs' = js /\ p_pool' = p_pool /\ queue' = queue /\ ok' = ok
        /\ inputs' = inputs \cup {[id |-> j, lease |-> grown.active[j], upto |-> upto]}
    BY <1>2, <1>5, <1>6, <1>7, <1>10, <2>1, <2>2, Zenon DEF EnsureNext
  <2>4. /\ PoolOk(grown) /\ DOMAIN grown.active = DOMAIN d_pool.active
        /\ \A k \in DOMAIN d_pool.active : k # j => grown.active[k] = d_pool.active[k]
        /\ PagesFor(upto) <= Cardinality(grown.active[j].pages)
    <3>1. Exact(d_pool, JobIds, OnlyEpoch) /\ d_pool.retired = {} /\ lease.request \in DOMAIN d_pool.active
      BY <1>3, <1>6 DEF PoolOk
    <3>2. /\ Exact(grown, JobIds, OnlyEpoch) /\ DOMAIN grown.active = DOMAIN d_pool.active
          /\ \A k \in DOMAIN d_pool.active : k # j => grown.active[k] = d_pool.active[k]
          /\ PagesFor(upto) <= Cardinality(grown.active[j].pages)
          /\ grown.retired = d_pool.retired
      BY <1>6, <1>8, <1>10, <2>1, <3>1, GrowExact
    <3> QED
      BY <3>1, <3>2 DEF PoolOk
  <2>5. /\ DOMAIN js = DOMAIN jobs /\ \A k \in DOMAIN jobs : k # j => js[k] = jobs[k]
        /\ js[j] = [jobs[j] EXCEPT !.decode = {grown.active[j]}]
        /\ js = [k \in DOMAIN js |-> js[k]]
    BY <1>1, <1>4, <2>2 DEF Held
  <2>6. grown.active[j] \in Leased
    BY <1>3, <2>4, CurrentLease
  <2>7. /\ js[j] \in Job /\ js[j].decode = {grown.active[j]} /\ js[j].prefill = {}
        /\ js[j].consumed = jobs[j].consumed /\ js[j].generated = jobs[j].generated
        /\ js[j].prompt = jobs[j].prompt /\ js[j].max_new = jobs[j].max_new
    BY <1>4, <2>5, <2>6 DEF Job
  <2>8. Held(p_pool, grown, js)
    <3>1. ASSUME NEW k \in DOMAIN js, k # j PROVE Holds(js[k], k, p_pool, grown)
      <4>1. Holds(js[k], k, p_pool, d_pool)
        BY <1>1, <2>5, <3>1 DEF Held
      <4> QED
        BY <2>4, <3>1, <4>1, HoldsAlone
    <3>2. Holds(js[j], j, p_pool, grown)
      <4>1. js[j].prompt + js[j].max_new <= MaxContext
        BY <1>1, <1>4, <2>7 DEF Held, Holds
      <4> QED
        BY <1>3, <1>4, <2>4, <2>7, <4>1 DEF Holds
    <3> QED
      BY <1>1, <2>4, <2>5, <3>1, <3>2 DEF Held
  <2>9. \A k \in DOMAIN js : Counted(js[k])
    <3>1. Counted(js[j])
      BY <1>1, <1>4, <2>7 DEF Counted
    <3> QED
      BY <1>1, <2>5, <3>1
  <2>10. Agree'
    BY <1>1, <2>3, <2>8, <2>9 DEF Agree
  <2>11. DecodeInputs'
    <3>1. PICK new : new = [id |-> j, lease |-> grown.active[j], upto |-> upto]
      OBVIOUS
    <3>2. new.id = j /\ new.lease = grown.active[j] /\ new.upto = upto
      BY <3>1
    <3>3. \A i : i \in inputs' <=> i \in inputs \/ i = new
      BY <2>3, <3>1
    <3>4. ASSUME NEW i \in inputs
          PROVE  /\ i.id \in DOMAIN d_pool.active /\ i.id \notin todo /\ i.id # j
                 /\ i.lease = d_pool.active[i.id] /\ i.upto = jobs[i.id].consumed + 1
                 /\ PagesFor(i.upto) <= Cardinality(i.lease.pages)
      BY <1>1, <1>3 DEF DecodeInputs
    <3>5. ASSUME NEW i \in inputs
          PROVE  /\ i.id \in DOMAIN grown.active /\ i.id \notin todo \ {j}
                 /\ i.lease = grown.active[i.id] /\ i.upto = js[i.id].consumed + 1
                 /\ PagesFor(i.upto) <= Cardinality(i.lease.pages)
      <4>1. i.id \in DOMAIN jobs
        BY <1>1, <3>4, Sides
      <4> QED
        BY <2>4, <2>5, <3>4, <4>1
    <3>6. /\ new.id \in DOMAIN grown.active /\ new.id \notin todo \ {j}
          /\ new.lease = grown.active[new.id] /\ new.upto = js[new.id].consumed + 1
          /\ PagesFor(new.upto) <= Cardinality(new.lease.pages)
      BY <1>3, <1>7, <2>4, <2>7, <3>2
    <3>7. \A i, k \in inputs' : i.id = k.id => i = k
      BY <1>1, <3>2, <3>3, <3>4 DEF DecodeInputs, OneEach
    <3>8. \A i \in inputs' :
             /\ i.id \in DOMAIN grown.active /\ i.id \notin todo \ {j}
             /\ i.lease = grown.active[i.id] /\ i.upto = js[i.id].consumed + 1
             /\ PagesFor(i.upto) <= Cardinality(i.lease.pages)
      BY <3>3, <3>5, <3>6
    <3> QED
      BY <1>9, <2>3, <3>7, <3>8 DEF DecodeInputs, OneEach
  <2>12. InPhase'
    BY <1>1, <1>9, <2>3, <2>4, <2>11 DEF InPhase
  <2> QED
    BY <2>10, <2>12 DEF LiveInv
<1>11. ASSUME ~CanGrow(d_pool, lease, upto) PROVE LiveInv'
  <2>1. Remove(j, p_pool, d_pool, jobs) /\ inputs' = inputs
    BY <1>2, <1>6, <1>7, <1>11, Zenon DEF EnsureNext
  <2>2. /\ ok' = ok /\ queue' = Dequeued(j) /\ Held(p_pool', d_pool', jobs')
        /\ DOMAIN jobs' = DOMAIN jobs \ {j} /\ \A k \in DOMAIN jobs \ {j} : jobs'[k] = jobs[k]
        /\ Less(p_pool', p_pool, j) /\ Less(d_pool', d_pool, j)
    <3>1. Held(p_pool, d_pool, jobs) /\ j \in DOMAIN jobs
      BY <1>1, <1>4
    <3> QED
      BY <2>1, <3>1, HeldRemove
  <2>3. Lists(queue', DOMAIN p_pool'.active)
    <3>1. Lists(Dequeued(j), DOMAIN p_pool.active \ {j})
      BY <1>1, DequeuedLists
    <3> QED
      BY <2>2, <3>1 DEF Less
  <2>4. Agree'
    BY <1>1, <2>2, <2>3 DEF Agree
  <2>5. DecodeInputs'
    <3>1. ASSUME NEW i \in inputs
          PROVE  /\ i.id \in DOMAIN d_pool' .active /\ i.id \notin todo \ {j}
                 /\ i.lease = d_pool'.active[i.id] /\ i.upto = jobs'[i.id].consumed + 1
                 /\ PagesFor(i.upto) <= Cardinality(i.lease.pages)
      <4>1. /\ i.id \in DOMAIN d_pool.active /\ i.id \notin todo /\ i.id # j
            /\ i.lease = d_pool.active[i.id] /\ i.upto = jobs[i.id].consumed + 1
            /\ PagesFor(i.upto) <= Cardinality(i.lease.pages)
        BY <1>1, <1>3 DEF DecodeInputs
      <4>2. i.id \in DOMAIN jobs
        BY <1>1, <4>1, Sides
      <4> QED
        BY <2>2, <4>1, <4>2 DEF Less
    <3> QED
      BY <1>1, <1>9, <2>1, <3>1 DEF DecodeInputs, OneEach
  <2>6. InPhase'
    BY <1>1, <1>3, <1>9, <2>2, <2>5 DEF InPhase, Less
  <2> QED
    BY <2>4, <2>6 DEF LiveInv
<1> QED
  BY <1>10, <1>11

\* No decode binding is refused: leases of a pool do not overlap.
LEMMA DecodeRunKeeps ==
    ASSUME LiveInv, DecodeRun
    PROVE  LiveInv'
<1>1. /\ ok /\ Held(p_pool, d_pool, jobs) /\ DecodeInputs
      /\ \A k \in DOMAIN jobs : Counted(jobs[k])
  BY DEF LiveInv, Agree, InPhase, DecodeRun
<1>2. ASSUME NEW i \in inputs
      PROVE  /\ Cardinality(i.lease.pages) >= PagesFor(i.upto) /\ i.upto <= MaxContext
             /\ i.id \in DOMAIN d_pool.active /\ i.lease = d_pool.active[i.id]
  <2>1. /\ i.id \in DOMAIN d_pool.active /\ i.lease = d_pool.active[i.id]
        /\ i.upto = jobs[i.id].consumed + 1 /\ PagesFor(i.upto) <= Cardinality(i.lease.pages)
    BY <1>1 DEF DecodeInputs
  <2>2. PICK job : job = jobs[i.id]
    OBVIOUS
  <2>3. job \in Job /\ job.prefill = {} /\ Counted(job) /\ job.prompt + job.max_new <= MaxContext
    BY <1>1, <2>1, <2>2, Sides DEF Held, Holds
  <2>4. /\ job.prompt \in Nat /\ job.max_new \in Nat /\ job.generated \in 1 .. job.max_new - 1
        /\ job.consumed = job.prompt + job.generated - 1
    BY <2>3 DEF Job, Counted
  <2>5. i.upto \in Nat /\ i.upto <= MaxContext
    BY <2>1, <2>2, <2>3, <2>4, Numbers
  <2>6. Cardinality(i.lease.pages) \in Nat /\ PagesFor(i.upto) \in Nat
    <3>1. PoolOk(d_pool)
      BY <1>1 DEF Held
    <3>2. i.lease.pages \subseteq PageIds
      BY <2>1, <3>1, CurrentLease
    <3> QED
      BY <2>5, <3>2, PoolNumbers
  <2> QED
    BY <2>1, <2>5, <2>6
<1>3. ASSUME NEW i \in inputs, NEW k \in inputs \ {i}
      PROVE  i.lease.slot # k.lease.slot /\ i.lease.pages \cap k.lease.pages = {}
  <2>1. i.id # k.id
    BY <1>1 DEF DecodeInputs, OneEach
  <2> QED
    BY <1>1, <1>2, <2>1, LeasesApart DEF Held
<1>4. Admissible(inputs)
  BY <1>2, <1>3 DEF Admissible
<1>5. /\ ok' /\ p_pool' = p_pool /\ d_pool' = d_pool /\ jobs' = jobs /\ queue' = queue
      /\ phase' = "emit" /\ inputs' = {}
  BY <1>4 DEF DecodeRun
<1>6. todo' \subseteq DOMAIN d_pool.active
  BY <1>2 DEF DecodeRun
<1>7. Agree' /\ InPhase'
  BY <1>5, <1>6 DEF LiveInv, Agree, InPhase
<1> QED
  BY <1>7 DEF LiveInv

LEMMA EmitNextKeeps ==
    ASSUME LiveInv, EmitNext
    PROVE  LiveInv'
<1>1. /\ ok /\ Held(p_pool, d_pool, jobs) /\ Lists(queue, DOMAIN p_pool.active)
      /\ \A k \in DOMAIN jobs : Counted(jobs[k])
      /\ phase = "emit" /\ todo \subseteq DOMAIN d_pool.active /\ inputs = {}
  BY DEF LiveInv, Agree, InPhase, EmitNext
<1>2. PICK j : j = Least(todo)
  OBVIOUS
<1>3. j \in todo /\ j \in DOMAIN d_pool.active
  <2>1. todo # {}
    BY DEF EmitNext
  <2>2. todo \in SUBSET DOMAIN jobs /\ todo \in SUBSET Nat
    BY <1>1, Sides
  <2> QED
    BY <1>1, <1>2, <2>1, <2>2, Sides, LeastTodo
<1>4. /\ j \in DOMAIN jobs /\ j \notin DOMAIN p_pool.active /\ jobs[j] \in Job
      /\ jobs[j].decode = {d_pool.active[j]} /\ jobs[j].prefill = {}
  BY <1>1, <1>3, Sides
<1>5. PICK js : js = [jobs EXCEPT ![j].consumed = @ + 1]
  OBVIOUS
<1>6. \E ends \in BOOLEAN : Emit(j, ends, p_pool, d_pool, js, queue)
  BY <1>2, <1>5 DEF EmitNext
<1>7. /\ DOMAIN js = DOMAIN jobs /\ \A k \in DOMAIN jobs : k # j => js[k] = jobs[k]
      /\ js[j] = [jobs[j] EXCEPT !.consumed = @ + 1]
      /\ js = [k \in DOMAIN js |-> js[k]]
  BY <1>1, <1>4, <1>5 DEF Held
<1>8. /\ js[j] \in Job /\ js[j].consumed = jobs[j].consumed + 1
      /\ js[j].generated = jobs[j].generated /\ js[j].prompt = jobs[j].prompt
      /\ js[j].max_new = jobs[j].max_new /\ js[j].prefill = {}
      /\ js[j].decode = {d_pool.active[j]}
  BY <1>4, <1>7 DEF Job
<1>9. Held(p_pool, d_pool, js)
  <2>1. Holds(js[j], j, p_pool, d_pool)
    <3>1. js[j].prompt + js[j].max_new <= MaxContext
      BY <1>1, <1>4, <1>8 DEF Held, Holds
    <3> QED
      BY <1>3, <1>4, <1>8, <3>1 DEF Holds
  <2> QED
    BY <1>1, <1>7, <2>1 DEF Held
<1>10. Due(js[j])
  <2>1. /\ jobs[j].generated \in 1 .. jobs[j].max_new - 1
        /\ jobs[j].consumed = jobs[j].prompt + jobs[j].generated - 1
        /\ jobs[j].prompt \in Nat /\ jobs[j].max_new \in Nat
    BY <1>1, <1>4 DEF Counted, Job
  <2> QED
    BY <1>8, <2>1 DEF Due
<1>11. OthersCounted(js, j)
  BY <1>1, <1>7 DEF OthersCounted, AllCounted
<1>12. Lists(Dequeued(j), DOMAIN p_pool.active)
  <2>1. Lists(Dequeued(j), DOMAIN p_pool.active \ {j})
    BY <1>1, DequeuedLists
  <2>2. DOMAIN p_pool.active \ {j} = DOMAIN p_pool.active
    BY <1>4
  <2> QED
    BY <2>1, <2>2
<1>13. Emitted(j, p_pool, d_pool, js)
  <2>1. Lists(queue, DOMAIN p_pool.active)
    BY <1>1
  <2> QED
    BY <1>3, <1>6, <1>9, <1>10, <1>11, <1>12, <2>1, EmitCounts
<1>14. todo' = todo \ {j} /\ phase' = "emit" /\ inputs' = {}
  BY <1>1, <1>2 DEF EmitNext
<1>15. Agree'
  BY <1>1, <1>13 DEF Agree, AllCounted, Emitted
<1>16. InPhase'
  BY <1>1, <1>13, <1>14 DEF InPhase, Emitted
<1> QED
  BY <1>15, <1>16 DEF LiveInv

----------------------------------------------------------------------------
(* The prefill half of a step.                                             *)

LEMMA BeginPrefillKeeps ==
    ASSUME LiveInv, BeginPrefill
    PROVE  LiveInv'
<1>1. /\ p_pool' = p_pool /\ d_pool' = d_pool /\ jobs' = jobs /\ queue' = queue /\ ok' = ok
      /\ phase = "emit" /\ phase' = "prefill" /\ turns' = Len(queue) /\ budget' = TokenBudget
      /\ inputs' = inputs
  BY DEF BeginPrefill
<1>2. inputs = {} /\ Len(queue) \in Nat
  BY <1>1, LenProperties DEF LiveInv, InPhase, Agree, Lists
<1>3. Agree'
  BY <1>1 DEF LiveInv, Agree
<1>4. PrefillInputs'
  BY <1>1, <1>2, Numbers DEF PrefillInputs, OneEach
<1> QED
  BY <1>1, <1>3, <1>4 DEF LiveInv, InPhase

\* The turn of the queue's first job gives it at most one chunk, and the jobs whose
\* turn has still to come have none.
LEMMA PrefillTurnKeeps ==
    ASSUME LiveInv, PrefillTurn
    PROVE  LiveInv'
<1>1. /\ ok /\ Held(p_pool, d_pool, jobs) /\ Lists(queue, DOMAIN p_pool.active)
      /\ \A k \in DOMAIN jobs : Counted(jobs[k])
      /\ phase = "prefill" /\ PrefillInputs /\ turns > 0 /\ budget > 0
  BY DEF LiveInv, Agree, InPhase, PrefillTurn
<1>2. /\ turns \in 1 .. Len(queue) /\ budget \in Nat /\ Len(queue) \in Nat
  BY <1>1, LenProperties DEF PrefillInputs, Lists
<1>3. queue # << >>
  BY <1>2
<1>4. PICK j : j = Head(queue)
  OBVIOUS
<1>5. PICK q : q = Append(Tail(queue), Head(queue))
  OBVIOUS
<1>6. /\ j \in DOMAIN p_pool.active /\ Lists(q, DOMAIN p_pool.active)
      /\ j = queue[1] /\ Len(q) = Len(queue)
      /\ \A k \in 1 .. Len(queue) - 1 : q[k] = queue[k + 1] /\ queue[k + 1] # j
  BY <1>1, <1>3, <1>4, <1>5, QueueTurns
<1>7. PICK job : job = jobs[j]
  OBVIOUS
<1>8. /\ j \in DOMAIN jobs /\ job \in Job /\ job.prefill = {p_pool.active[j]}
      /\ job.consumed <= job.prompt
  <2>1. j \in DOMAIN jobs /\ job \in Job /\ job.prefill = {p_pool.active[j]}
    BY <1>1, <1>6, <1>7, Sides
  <2> QED
    BY <1>1, <1>7, <2>1 DEF Counted
<1>9. PICK chunk : chunk = Smaller(job.prompt - job.consumed, budget)
  OBVIOUS
<1>10. /\ job.prompt \in Nat /\ job.consumed \in Nat
       /\ chunk \in 0 .. budget /\ job.consumed + chunk \in 0 .. job.prompt
  BY <1>2, <1>8, <1>9 DEF Job, Smaller
<1>11. PICK new : new = [id |-> j, lease |-> p_pool.active[j], upto |-> job.consumed + chunk]
  OBVIOUS
<1>12. The(job.prefill) = p_pool.active[j]
  BY <1>1, <1>6, <1>8, CurrentLease DEF Held
<1>13. job.prefill # {}
  BY <1>8
<1>14. /\ p_pool' = p_pool /\ d_pool' = d_pool /\ jobs' = jobs /\ queue' = q /\ ok' = ok
       /\ phase' = "prefill" /\ turns' = turns - 1 /\ budget' = budget - chunk
       /\ inputs' = inputs \cup (IF chunk > 0 THEN {new} ELSE {})
  <2>1. Rotated(job, chunk) = q
    BY <1>5, <1>13 DEF Rotated
  <2>2. (IF job.prefill = {} THEN 0 ELSE Smaller(job.prompt - job.consumed, budget)) = chunk
    BY <1>9, <1>13
  <2> QED
    BY <1>1, <1>4, <1>7, <1>8, <1>11, <1>12, <2>1, <2>2, Zenon DEF PrefillTurn
<1>15. \A i : i \in inputs' => i \in inputs \/ i = new
  BY <1>14
<1>16. /\ new.id = j /\ new.lease = p_pool.active[j] /\ new.upto \in 0 .. job.prompt
  BY <1>10, <1>11
<1>17. ASSUME NEW i \in inputs
       PROVE  /\ i.id \in DOMAIN p_pool.active /\ i.lease = p_pool.active[i.id]
              /\ i.upto \in 0 .. jobs[i.id].prompt
              /\ i.id # j
              /\ \A k \in 1 .. turns - 1 : q[k] # i.id
  <2>1. /\ i.id \in DOMAIN p_pool.active /\ i.lease = p_pool.active[i.id]
        /\ i.upto \in 0 .. jobs[i.id].prompt
        /\ \A k \in 1 .. turns : queue[k] # i.id
    BY <1>1 DEF PrefillInputs
  <2>2. 1 \in 1 .. turns /\ \A k \in 1 .. turns - 1 : k + 1 \in 1 .. turns /\ k \in 1 .. Len(queue) - 1
    BY <1>2
  <2> QED
    BY <1>6, <2>1, <2>2
<1>18. \A k \in 1 .. turns - 1 : q[k] # j
  BY <1>2, <1>6
<1>19. \A i, k \in inputs' : i.id = k.id => i = k
  BY <1>1, <1>15, <1>16, <1>17 DEF PrefillInputs, OneEach
<1>20. \A i \in inputs' :
          /\ i.id \in DOMAIN p_pool.active /\ i.lease = p_pool.active[i.id]
          /\ i.upto \in 0 .. jobs[i.id].prompt
          /\ \A k \in 1 .. turns - 1 : q[k] # i.id
  BY <1>6, <1>7, <1>15, <1>16, <1>17, <1>18
<1>21. turns - 1 \in 0 .. Len(q) /\ budget - chunk \in Nat
  BY <1>2, <1>6, <1>10
<1>22. PrefillInputs'
  BY <1>14, <1>19, <1>20, <1>21 DEF PrefillInputs, OneEach
<1>23. Agree'
  BY <1>1, <1>6, <1>14 DEF Agree
<1> QED
  BY <1>14, <1>22, <1>23 DEF LiveInv, InPhase

\* No prefill binding is refused, and no prompt is consumed beyond its end.
LEMMA PrefillRunKeeps ==
    ASSUME LiveInv, PrefillRun
    PROVE  LiveInv'
<1>1. /\ ok /\ Held(p_pool, d_pool, jobs) /\ Lists(queue, DOMAIN p_pool.active)
      /\ \A k \in DOMAIN jobs : Counted(jobs[k])
      /\ PrefillInputs
  BY DEF LiveInv, Agree, InPhase, PrefillRun
<1>2. ASSUME NEW i \in inputs
      PROVE  /\ i.id \in DOMAIN p_pool.active /\ i.lease = p_pool.active[i.id]
             /\ i.upto \in 0 .. jobs[i.id].prompt
             /\ Cardinality(i.lease.pages) >= PagesFor(i.upto) /\ i.upto <= MaxContext
  <2>1. /\ i.id \in DOMAIN p_pool.active /\ i.lease = p_pool.active[i.id]
        /\ i.upto \in 0 .. jobs[i.id].prompt
    BY <1>1 DEF PrefillInputs
  <2>2. PICK job : job = jobs[i.id]
    OBVIOUS
  <2>3. /\ job \in Job /\ job.prompt + job.max_new <= MaxContext
        /\ PagesFor(job.prompt) <= Cardinality(i.lease.pages)
    BY <1>1, <2>1, <2>2, Sides DEF Held, Holds
  <2>4. job.prompt \in Nat /\ job.max_new \in Nat /\ i.upto \in Nat /\ i.upto <= job.prompt
    BY <2>1, <2>2, <2>3 DEF Job
  <2>5. i.upto <= MaxContext
    BY <2>3, <2>4, Numbers
  <2>6. /\ PagesFor(i.upto) \in Nat /\ PagesFor(job.prompt) \in Nat
        /\ PagesFor(i.upto) <= PagesFor(job.prompt)
    BY <2>4, PagesMonotone, ResourceAssumption DEF PagesFor
  <2>7. Cardinality(i.lease.pages) \in Nat
    <3>1. PoolOk(p_pool)
      BY <1>1 DEF Held
    <3>2. i.lease.pages \subseteq PageIds
      BY <2>1, <3>1, CurrentLease
    <3> QED
      BY <3>2, PoolNumbers
  <2> QED
    BY <2>1, <2>3, <2>5, <2>6, <2>7
<1>3. ASSUME NEW i \in inputs, NEW k \in inputs \ {i}
      PROVE  i.lease.slot # k.lease.slot /\ i.lease.pages \cap k.lease.pages = {}
  <2>1. i.id # k.id
    BY <1>1 DEF PrefillInputs, OneEach
  <2> QED
    BY <1>1, <1>2, <2>1, LeasesApart DEF Held
<1>4. Admissible(inputs)
  BY <1>2, <1>3 DEF Admissible
<1>5. PICK ran : ran = [k \in DOMAIN jobs |->
                    [jobs[k] EXCEPT !.consumed =
                        IF \E i \in inputs : i.id = k
                        THEN (CHOOSE i \in inputs : i.id = k).upto ELSE @]]
  OBVIOUS
<1>6. /\ ok' /\ p_pool' = p_pool /\ d_pool' = d_pool /\ jobs' = ran /\ queue' = queue
      /\ phase' = "hand_over" /\ todo' = Ready(ran)
  BY <1>4, <1>5 DEF PrefillRun
<1>7. DOMAIN ran = DOMAIN jobs /\ ran = [k \in DOMAIN ran |-> ran[k]]
  BY <1>5
<1>8. ASSUME NEW k \in DOMAIN jobs
      PROVE  /\ ran[k] \in Job /\ ran[k].prompt = jobs[k].prompt
             /\ ran[k].max_new = jobs[k].max_new /\ ran[k].generated = jobs[k].generated
             /\ ran[k].prefill = jobs[k].prefill /\ ran[k].decode = jobs[k].decode
             /\ \/ ran[k].consumed = jobs[k].consumed
                \/ k \in DOMAIN p_pool.active /\ ran[k].consumed \in 0 .. jobs[k].prompt
  <2>1. jobs[k] \in Job
    BY <1>1, Sides
  <2>2. CASE \E i \in inputs : i.id = k
    <3>1. PICK i : i = CHOOSE b \in inputs : b.id = k
      OBVIOUS
    <3>2. i \in inputs /\ i.id = k
      BY <2>2, <3>1
    <3>3. k \in DOMAIN p_pool.active /\ i.upto \in 0 .. jobs[k].prompt
      BY <1>2, <3>2
    <3>4. ran[k] = [jobs[k] EXCEPT !.consumed = i.upto]
      BY <1>5, <2>2, <3>1
    <3> QED
      BY <2>1, <3>3, <3>4 DEF Job
  <2>3. CASE ~\E i \in inputs : i.id = k
    <3>1. ran[k] = [jobs[k] EXCEPT !.consumed = @]
      BY <1>5, <2>3
    <3> QED
      BY <2>1, <3>1 DEF Job
  <2> QED
    BY <2>2, <2>3
<1>9. ASSUME NEW k \in DOMAIN jobs PROVE Holds(ran[k], k, p_pool, d_pool) /\ Counted(ran[k])
  <2>1. Holds(jobs[k], k, p_pool, d_pool) /\ Counted(jobs[k])
    BY <1>1 DEF Held
  <2>2. Holds(ran[k], k, p_pool, d_pool)
    BY <1>8, <2>1 DEF Holds
  <2>3. k \in DOMAIN p_pool.active => ran[k].prefill # {}
    BY <1>1, <1>8, Sides
  <2>4. Counted(ran[k])
    <3>1. jobs[k].prompt \in Nat
      BY <2>1 DEF Holds, Job
    <3> QED
      BY <1>8, <2>1, <2>3, <3>1 DEF Counted
  <2> QED
    BY <2>2, <2>4
<1>10. Held(p_pool, d_pool, ran)
  BY <1>1, <1>7, <1>9 DEF Held
<1>11. Agree'
  BY <1>1, <1>6, <1>7, <1>9, <1>10 DEF Agree
<1>12. \A j \in Ready(ran) : j \in DOMAIN p_pool.active /\ ran[j].consumed = ran[j].prompt
  <2> SUFFICES ASSUME NEW j \in Ready(ran)
               PROVE  j \in DOMAIN p_pool.active /\ ran[j].consumed = ran[j].prompt
    OBVIOUS
  <2>1. j \in DOMAIN jobs /\ ran[j].prefill # {} /\ ran[j].consumed = ran[j].prompt
    BY <1>7 DEF Ready
  <2>2. jobs[j].prefill # {}
    BY <1>8, <2>1
  <2> QED
    BY <1>1, <2>1, <2>2, Sides
<1> QED
  BY <1>6, <1>11, <1>12 DEF LiveInv, InPhase

\* A finished prompt moves to a lease of the decode pool that holds all of it, or waits.
LEMMA HandOverKeeps ==
    ASSUME LiveInv, HandOver
    PROVE  LiveInv'
<1>1. /\ ok /\ Held(p_pool, d_pool, jobs) /\ Lists(queue, DOMAIN p_pool.active)
      /\ \A k \in DOMAIN jobs : Counted(jobs[k])
      /\ phase = "hand_over"
      /\ \A k \in todo : k \in DOMAIN p_pool.active /\ jobs[k].consumed = jobs[k].prompt
  BY DEF LiveInv, Agree, InPhase, HandOver
<1>2. PICK j : j = Least(todo)
  OBVIOUS
<1>3. j \in todo
  <2>1. todo # {}
    BY DEF HandOver
  <2>2. todo \in SUBSET DOMAIN jobs /\ todo \in SUBSET Nat
    BY <1>1, Sides
  <2> QED
    BY <1>1, <1>2, <2>1, <2>2, Sides, LeastTodo
<1>4. /\ j \in DOMAIN p_pool.active /\ j \notin DOMAIN d_pool.active /\ j \in DOMAIN jobs
      /\ j \in JobIds /\ jobs[j] \in Job /\ jobs[j].consumed = jobs[j].prompt
      /\ jobs[j].prefill = {p_pool.active[j]} /\ jobs[j].decode = {} /\ jobs[j].generated = 0
      /\ PoolOk(p_pool) /\ PoolOk(d_pool)
  <2>1. j \in DOMAIN p_pool.active /\ jobs[j].consumed = jobs[j].prompt
    BY <1>1, <1>3
  <2>2. /\ j \notin DOMAIN d_pool.active /\ j \in DOMAIN jobs /\ jobs[j] \in Job
        /\ jobs[j].prefill = {p_pool.active[j]} /\ jobs[j].decode = {}
    BY <1>1, <2>1, Sides
  <2>3. jobs[j].generated = 0
    BY <1>1, <2>2 DEF Counted
  <2> QED
    BY <1>1, <2>1, <2>2, <2>3 DEF Held
<1>5. PICK job : job = jobs[j]
  OBVIOUS
<1>6. PICK lease : lease = NewLease(d_pool, j, 0, job.consumed)
  OBVIOUS
<1>7. /\ job.consumed \in Nat /\ job.max_new \in Nat \ {0} /\ job.consumed = job.prompt
  BY <1>4, <1>5 DEF Job
<1>8. ~Owns(d_pool, j)
  BY <1>4 DEF Owns, PoolOk
<1>9. /\ todo' = todo \ {j} /\ phase' = "hand_over"
  BY <1>1, <1>2 DEF HandOver
<1>10. ASSUME ~HasRoom(d_pool, job.consumed) PROVE LiveInv'
  <2>1. UNCHANGED <<p_pool, d_pool, jobs, queue, ok>>
    BY <1>2, <1>5, <1>8, <1>10, Zenon DEF HandOver
  <2> QED
    BY <1>1, <1>9, <2>1 DEF LiveInv, Agree, InPhase
<1>11. ASSUME HasRoom(d_pool, job.consumed) PROVE LiveInv'
  <2>1. PICK d : d = PoolReserve(d_pool, lease)
    OBVIOUS
  <2>2. /\ PoolOk(d) /\ lease \in Leased
        /\ DOMAIN d.active = DOMAIN d_pool.active \cup {j} /\ d.active[j] = lease
        /\ \A k \in DOMAIN d_pool.active : d.active[k] = d_pool.active[k]
        /\ Cardinality(lease.pages) = PagesFor(job.consumed)
    BY <1>4, <1>6, <1>7, <1>11, <2>1, Reserved
  <2>3. PICK p : p = SourceReturned(job)
    OBVIOUS
  <2>4. ~Stale(p_pool, job.prefill) /\ Less(p, p_pool, j)
    BY <1>4, <1>5, <2>3, GivenBack DEF SourceReturned
  <2>5. ~(job.consumed > Cardinality(lease.pages) * PageTokens)
    <3>1. PageTokens \in Nat \ {0}
      BY ResourceAssumption
    <3>2. PICK n : n = PagesFor(job.consumed)
      OBVIOUS
    <3>3. n \in Nat /\ job.consumed <= n * PageTokens
      BY <1>7, <3>1, <3>2, PagesHold DEF PagesFor
    <3>4. n * PageTokens \in Nat
      BY <3>1, <3>3
    <3> QED
      BY <1>7, <2>2, <3>2, <3>3, <3>4
  <2>6. PICK js : js = [jobs EXCEPT ![j].decode = {lease}, ![j].prefill = {}]
    OBVIOUS
  <2>7. \E ends \in BOOLEAN : Emit(j, ends, p, d, js, Dequeued(j))
    BY <1>2, <1>5, <1>6, <1>8, <1>11, <2>1, <2>3, <2>4, <2>5, <2>6, Zenon DEF HandOver
  <2>8. /\ DOMAIN js = DOMAIN jobs /\ \A k \in DOMAIN jobs : k # j => js[k] = jobs[k]
        /\ js[j] = [job EXCEPT !.decode = {lease}, !.prefill = {}]
        /\ js = [k \in DOMAIN js |-> js[k]]
    BY <1>1, <1>4, <1>5, <2>6 DEF Held
  <2>9. /\ js[j] \in Job /\ js[j].decode = {lease} /\ js[j].prefill = {}
        /\ js[j].consumed = job.consumed /\ js[j].generated = 0
        /\ js[j].prompt = job.prompt /\ js[j].max_new = job.max_new
    <3>1. job \in Job /\ job.generated = 0 /\ {lease} \in SUBSET Leased /\ {} \in SUBSET Leased
      BY <1>4, <1>5, <2>2
    <3>2. PICK held : held = {lease}
      OBVIOUS
    <3>3. js[j] = [[job EXCEPT !.decode = held] EXCEPT !.prefill = {}]
      BY <2>8, <3>2
    <3> QED
      BY <3>1, <3>2, <3>3 DEF Job
  <2>10. Held(p, d, js)
    <3>1. ASSUME NEW k \in DOMAIN js, k # j PROVE Holds(js[k], k, p, d)
      <4>1. Holds(js[k], k, p_pool, d_pool)
        BY <1>1, <2>8, <3>1 DEF Held
      <4> QED
        BY <2>2, <2>4, <3>1, <4>1, HoldsAlone DEF Less
    <3>2. Holds(js[j], j, p, d)
      <4>1. js[j].prompt + js[j].max_new <= MaxContext
        BY <1>1, <1>4, <1>5, <2>9 DEF Held, Holds
      <4> QED
        BY <2>2, <2>4, <2>9, <4>1 DEF Holds, Less
    <3>3. DOMAIN p.active \cup DOMAIN d.active \subseteq DOMAIN js
      BY <1>1, <1>4, <2>2, <2>4, <2>8 DEF Held, Less
    <3> QED
      BY <1>1, <2>2, <2>4, <2>8, <3>1, <3>2, <3>3 DEF Held, Less
  <2>11. Lists(Dequeued(j), DOMAIN p.active)
    <3>1. Lists(Dequeued(j), DOMAIN p_pool.active \ {j})
      BY <1>1, DequeuedLists
    <3> QED
      BY <2>4, <3>1 DEF Less
  <2>12. Due(js[j])
    BY <1>7, <2>9 DEF Due
  <2>13. OthersCounted(js, j)
    BY <1>1, <2>8 DEF OthersCounted
  <2>14. j \in DOMAIN d.active
    BY <2>2
  <2>15. Emitted(j, p, d, js)
    <3>1. PICK q : q = Dequeued(j)
      OBVIOUS
    <3>2. \E ends \in BOOLEAN : Emit(j, ends, p, d, js, q)
      BY <2>7, <3>1
    <3>3. Lists(q, DOMAIN p.active)
      BY <2>11, <3>1
    <3> QED
      BY <2>10, <2>11, <2>12, <2>13, <2>14, <3>2, <3>3, EmitCounts
  <2>16. Agree'
    BY <1>1, <2>15 DEF Agree, AllCounted, Emitted
  <2>17. \A k \in todo \ {j} : k \in DOMAIN p_pool'.active /\ jobs'[k].consumed = jobs'[k].prompt
    <3> SUFFICES ASSUME NEW k \in todo \ {j}
                 PROVE  k \in DOMAIN p_pool'.active /\ jobs'[k].consumed = jobs'[k].prompt
      OBVIOUS
    <3>1. k \in DOMAIN p_pool.active /\ jobs[k].consumed = jobs[k].prompt /\ k # j
      BY <1>1
    <3>2. k \in DOMAIN p.active
      BY <2>4, <3>1 DEF Less
    <3>3. k \in DOMAIN jobs' /\ jobs'[k] = js[k]
      BY <2>15, <3>1, <3>2 DEF Emitted
    <3>4. js[k] = jobs[k]
      BY <1>1, <2>8, <3>1, Sides
    <3> QED
      BY <2>15, <3>1, <3>2, <3>3, <3>4 DEF Emitted
  <2> QED
    BY <1>9, <2>16, <2>17 DEF LiveInv, InPhase
<1> QED
  BY <1>10, <1>11

LEMMA EndStepKeeps ==
    ASSUME LiveInv, EndStep
    PROVE  LiveInv'
BY DEF LiveInv, Agree, InPhase, EndStep

\* What the ledgers say follows, the length of the queue included.
LEMMA LedgersFollow ==
    ASSUME LiveInv
    PROVE  LedgersAgree
<1>1. /\ ok /\ Held(p_pool, d_pool, jobs) /\ Lists(queue, DOMAIN p_pool.active)
      /\ \A k \in DOMAIN jobs : Counted(jobs[k])
  BY DEF LiveInv, Agree
<1>2. PICK prefilling : prefilling = {j \in DOMAIN jobs : jobs[j].prefill # {}}
  OBVIOUS
<1>3. prefilling = DOMAIN p_pool.active /\ Decoding = DOMAIN d_pool.active
  BY <1>1, <1>2, Sides
<1>4. prefilling \cap Decoding = {} /\ prefilling \cup Decoding = DOMAIN jobs
  BY <1>1, <1>3, Sides
<1>5. /\ queue \in Seq(JobIds) /\ DOMAIN queue = 1 .. Len(queue) /\ Len(queue) \in Nat
      /\ \A i, k \in DOMAIN queue : queue[i] = queue[k] => i = k
      /\ \A i \in DOMAIN queue : queue[i] \in prefilling
      /\ \A j \in prefilling : \E i \in DOMAIN queue : queue[i] = j
  BY <1>1, <1>3, LenProperties DEF Lists
<1>6. {queue[i] : i \in DOMAIN queue} = prefilling
  BY <1>5
<1>7. Len(queue) = Cardinality(prefilling)
  <2>1. PICK f : f = [i \in 1 .. Len(queue) |-> queue[i]]
    OBVIOUS
  <2>2. f \in Bijection(1 .. Len(queue), prefilling)
    BY <1>5, <2>1 DEF Bijection, Injection, Surjection, IsInjective
  <2>3. IsFiniteSet(1 .. Len(queue)) /\ Cardinality(1 .. Len(queue)) = Len(queue)
    <3>1. PICK n \in Nat : n = Len(queue)
      BY <1>5
    <3>2. IsFiniteSet(1 .. n) /\ Cardinality(1 .. n) = n
      BY FS_Interval
    <3> QED
      BY <3>1, <3>2
  <2>4. Cardinality(prefilling) = Cardinality(1 .. Len(queue))
    BY <2>2, <2>3, FS_Bijection DEF ExistsBijection
  <2> QED
    BY <2>3, <2>4
<1>8. /\ Conserved(p_pool) /\ Conserved(d_pool) /\ p_pool.retired = {} /\ d_pool.retired = {}
  BY <1>1 DEF Held, PoolOk, Exact
<1>9. ASSUME NEW j \in prefilling
      PROVE  /\ jobs[j].prefill = {p_pool.active[j]}
             /\ jobs[j].consumed <= jobs[j].prompt /\ jobs[j].generated = 0
  BY <1>1, <1>3, Sides DEF Counted
<1>10. ASSUME NEW j \in Decoding
       PROVE  /\ jobs[j].decode = {d_pool.active[j]}
              /\ jobs[j].generated \in 1 .. jobs[j].max_new - 1
              /\ jobs[j].consumed = jobs[j].prompt + jobs[j].generated - 1
  BY <1>1, <1>3, Sides DEF Counted
<1> QED
  BY <1>1, <1>2, <1>3, <1>4, <1>6, <1>7, <1>8, <1>9, <1>10 DEF LedgersAgree

\* The pools, the queue and the jobs of the live scheduler tell one story in every
\* state, and no call runs into its own checks.
THEOREM LedgersAlwaysAgree == LiveSpec => []LedgersAgree
<1>1. LiveInit => LiveInv
  BY InitLive
<1>2. LiveInv /\ [LiveNext]_liveVars => LiveInv'
  <2> SUFFICES ASSUME LiveInv, [LiveNext]_liveVars PROVE LiveInv'
    OBVIOUS
  <2>1. ASSUME NEW r \in Requests, Submit(r) PROVE LiveInv'
    BY <2>1, SubmitKeeps
  <2>2. ASSUME NEW r \in Requests, Cancel(r.id) PROVE LiveInv'
    BY <2>2, CancelKeeps
  <2>3. CASE BeginStep
    BY <2>3, BeginStepKeeps
  <2>4. CASE EnsureNext
    BY <2>4, EnsureNextKeeps
  <2>5. CASE DecodeRun
    BY <2>5, DecodeRunKeeps
  <2>6. CASE EmitNext
    BY <2>6, EmitNextKeeps
  <2>7. CASE BeginPrefill
    BY <2>7, BeginPrefillKeeps
  <2>8. CASE PrefillTurn
    BY <2>8, PrefillTurnKeeps
  <2>9. CASE PrefillRun
    BY <2>9, PrefillRunKeeps
  <2>10. CASE HandOver
    BY <2>10, HandOverKeeps
  <2>11. CASE EndStep
    BY <2>11, EndStepKeeps
  <2>12. CASE UNCHANGED liveVars
    BY <2>12 DEF liveVars, LiveInv, Agree, InPhase, DecodeInputs, PrefillInputs, OneEach
  <2> QED
    BY <2>1, <2>2, <2>3, <2>4, <2>5, <2>6, <2>7, <2>8, <2>9, <2>10, <2>11, <2>12
       DEF LiveNext, Step
<1>3. LiveInv => LedgersAgree
  BY LedgersFollow
<1> QED
  BY <1>1, <1>2, <1>3, PTL DEF LiveSpec

----------------------------------------------------------------------------
(* The serving thread and its callers.                                     *)

Messages == [token : Nat, last : BOOLEAN, prompt : BOOLEAN, failed : BOOLEAN]

Commands ==
    [kind : {"Submit"}, by : Calls] \cup [kind : {"Abort"}, by : Aborts]
        \cup [kind : {"Shutdown"}, by : Shutters]

Phases == {"new", "checked", "waiting", "streaming", "over"}

ServeTyped ==
    /\ loop \in {"recv", "commands", "act", "events", "ended"}
    /\ inbox \in Seq(Commands) /\ batch \in Seq(Commands)
    /\ outputs \subseteq Calls
    /\ emitted \in [DOMAIN emitted -> Nat]
    /\ events \in [DOMAIN events -> [token : Nat, last : BOOLEAN]]
    /\ outbox \in [Calls -> Seq(Messages)] /\ received \in [Calls -> Seq(Messages)]
    /\ call \in [Calls -> Phases]

\* The submissions of c among the commands of a sequence.
Submits(s, c) == {i \in DOMAIN s : s[i].kind = "Submit" /\ s[i].by = c}

\* No call is submitted twice, in the channel and the commands taken from it.
SubmitOnce(s, t) ==
    \A c \in Calls :
        /\ \A i, j \in Submits(s, c) : i = j
        /\ \A i, j \in Submits(t, c) : i = j
        /\ Submits(s, c) = {} \/ Submits(t, c) = {}

Pending(c) == Submits(inbox, c) # {} \/ Submits(batch, c) # {}

Untold(c) == c \notin outputs /\ received[c] = << >> /\ outbox[c] = << >>

\* Before its submission is taken a call has neither an output nor a message.
Queued ==
    \A c \in Calls :
        /\ Pending(c) => call[c] \notin {"new", "checked"} /\ Untold(c)
        /\ call[c] \in {"new", "checked"} => Untold(c)

\* Where the scheduler's count of a request stands: at what its client was told, or
\* one ahead while an event is still to deliver.  The scheduler forgets a request
\* with its last event, the thread when it has delivered it.
Ledger ==
    /\ DOMAIN events \subseteq outputs /\ DOMAIN emitted \subseteq outputs
    /\ loop # "events" => DOMAIN events = {}
    /\ \A c \in outputs \ DOMAIN events :
          c \in DOMAIN emitted /\ (call[c] # "over" => Len(Told(c)) = emitted[c])
    /\ \A c \in DOMAIN events :
          /\ events[c].last <=> c \notin DOMAIN emitted
          /\ ~events[c].last => emitted[c] = events[c].token /\ events[c].token # 0
          /\ call[c] # "over" =>
                events[c].token = Len(Told(c)) + 1 \/ (events[c].token = 0 /\ events[c].last)

IdsApart == \A c, o \in outputs : id[c] = id[o] => c = o

\* A stream so far, of a request that may go on.
Fits(told, open) ==
    \A i \in DOMAIN told :
        /\ told[i].prompt = (i = 1 /\ ~told[i].failed)
        /\ told[i].token \in {i, 0}
        /\ told[i].token = 0 => told[i].last
        /\ told[i].last => i = Len(told) /\ ~open

Streams == \A c \in Calls : call[c] # "over" => Fits(Told(c), c \in outputs)

ServeInv == ServeTyped /\ SubmitOnce(inbox, batch) /\ Queued /\ Ledger /\ IdsApart /\ Streams

----------------------------------------------------------------------------
(* Streams and queues.                                                     *)

\* A message put into the channel lengthens what was told; a read only moves it.
LEMMA ToldMoves ==
    ASSUME NEW r \in Seq(Messages), NEW o \in Seq(Messages)
    PROVE  /\ r \o o \in Seq(Messages)
           /\ r \o o = << >> <=> r = << >> /\ o = << >>
           /\ \A m \in Messages : r \o Append(o, m) = Append(r \o o, m)
           /\ o # << >> => Append(r, Head(o)) \o Tail(o) = r \o o
<1>1. r \o o \in Seq(Messages) /\ (r \o o = << >> <=> r = << >> /\ o = << >>)
  BY ConcatProperties, ConcatEqualIffEmpty
<1>2. ASSUME NEW m \in Messages PROVE r \o Append(o, m) = Append(r \o o, m)
  <2>1. <<m>> \in Seq(Messages)
    OBVIOUS
  <2>2. r \o Append(o, m) = r \o (o \o <<m>>)
    BY AppendIsConcat
  <2>3. @ = (r \o o) \o <<m>>
    BY <2>1, ConcatAssociative
  <2>4. @ = Append(r \o o, m)
    BY <1>1, AppendIsConcat
  <2> QED
    BY <2>2, <2>3, <2>4
<1>3. ASSUME o # << >> PROVE Append(r, Head(o)) \o Tail(o) = r \o o
  <2>1. Head(o) \in Messages /\ Tail(o) \in Seq(Messages)
    BY <1>3, HeadTailProperties
  <2>2. <<Head(o)>> \in Seq(Messages)
    BY <2>1
  <2>3. o = <<Head(o)>> \o Tail(o)
    <3>1. Len(o) \in Nat \ {0}
      BY <1>3, EmptySeq
    <3>2. Len(<<Head(o)>>) = 1 /\ <<Head(o)>>[1] = Head(o) /\ Head(o) = o[1]
      BY <1>3
    <3>3. Len(Tail(o)) = Len(o) - 1 /\ \A i \in 1 .. Len(Tail(o)) : Tail(o)[i] = o[i + 1]
      BY <1>3, HeadTailProperties
    <3> DEFINE s == <<Head(o)>> \o Tail(o)
    <3>4. s \in Seq(Messages) /\ Len(s) = 1 + Len(Tail(o))
      BY <2>1, <2>2, <3>2, ConcatProperties
    <3>5. \A i \in 1 .. 1 + Len(Tail(o)) :
             s[i] = IF i <= 1 THEN <<Head(o)>>[i] ELSE Tail(o)[i - 1]
      BY <2>1, <2>2, <3>2, ConcatProperties
    <3> HIDE DEF s
    <3>6. Len(s) = Len(o)
      BY <3>1, <3>3, <3>4
    <3>7. ASSUME NEW i \in 1 .. Len(s) PROVE s[i] = o[i]
      BY <3>1, <3>2, <3>3, <3>5, <3>6
    <3>8. s = o
      BY <3>4, <3>6, <3>7, SeqEqual
    <3> QED
      BY <3>8 DEF s
  <2>4. Append(r, Head(o)) = r \o <<Head(o)>>
    BY <2>1, AppendIsConcat
  <2>5. (r \o <<Head(o)>>) \o Tail(o) = r \o (<<Head(o)>> \o Tail(o))
    BY <2>1, <2>2, ConcatAssociative
  <2> QED
    BY <2>3, <2>4, <2>5
<1> QED
  BY <1>1, <1>2, <1>3

\* One more message in its place, told to a client whose stream goes on.
LEMMA FitsMore ==
    ASSUME NEW told \in Seq(Messages), Fits(told, TRUE), NEW m \in Messages, NEW open,
           m.prompt <=> told = << >> /\ ~m.failed, m.token = Len(told) + 1 \/ m.token = 0,
           m.token = 0 => m.last, m.last => ~open
    PROVE  Fits(Append(told, m), open)
<1> DEFINE more == Append(told, m)
<1>1. /\ Len(told) \in Nat /\ DOMAIN told = 1 .. Len(told)
      /\ more \in Seq(Messages) /\ Len(more) = Len(told) + 1
      /\ \A i \in 1 .. Len(told) : more[i] = told[i]
      /\ more[Len(told) + 1] = m
  BY AppendProperties, LenProperties
<1>2. DOMAIN more = 1 .. Len(told) + 1
  BY <1>1, LenProperties
<1>3. told = << >> <=> Len(told) = 0
  BY EmptySeq
<1> HIDE DEF more
<1> SUFFICES ASSUME NEW i \in 1 .. Len(told) + 1
             PROVE  /\ more[i].prompt = (i = 1 /\ ~more[i].failed)
                    /\ more[i].token \in {i, 0}
                    /\ more[i].token = 0 => more[i].last
                    /\ more[i].last => i = Len(more) /\ ~open
  BY <1>2, Zenon DEF Fits, more
<1>4. CASE i \in 1 .. Len(told)
  <2>1. more[i] = told[i] /\ i \in DOMAIN told
    BY <1>1, <1>4
  <2>2. /\ told[i].prompt = (i = 1 /\ ~told[i].failed)
        /\ told[i].token \in {i, 0}
        /\ told[i].token = 0 => told[i].last
        /\ ~told[i].last
    BY <2>1, Zenon DEF Fits
  <2> QED
    BY <2>1, <2>2, Zenon
<1>5. CASE i = Len(told) + 1
  <2>1. more[i] = m /\ i = Len(more)
    BY <1>1, <1>5
  <2>2. i = 1 <=> told = << >>
    BY <1>1, <1>3, <1>5
  <2>3. m.prompt \in BOOLEAN /\ m.last \in BOOLEAN /\ m.failed \in BOOLEAN
    BY DEF Messages
  <2>4. m.prompt = (i = 1 /\ ~m.failed)
    BY <2>2, <2>3, Zenon
  <2> QED
    BY <2>1, <2>4, <1>5, Zenon
<1> QED
  BY <1>1, <1>4, <1>5, SMT

LEMMA FitsNothing == ASSUME NEW open PROVE Fits(<< >>, open)
BY EmptySeq DEF Fits

\* Taking the head of a sequence, or adding to its end, moves no other submission.
LEMMA SubmitsMove ==
    ASSUME NEW s \in Seq(Commands), NEW c \in Calls
    PROVE  /\ s # << >> =>
                 /\ \A i \in Submits(Tail(s), c) : i \in Nat /\ i + 1 \in Submits(s, c) /\ i + 1 # 1
                 /\ Head(s).kind = "Submit" /\ Head(s).by = c => 1 \in Submits(s, c)
           /\ \A m \in Commands : \A i \in Submits(Append(s, m), c) :
                 i \in Submits(s, c) \/ (i = Len(s) + 1 /\ m.kind = "Submit" /\ m.by = c)
           /\ Submits(<< >>, c) = {}
<1>1. DOMAIN s = 1 .. Len(s) /\ Len(s) \in Nat
  BY LenProperties
<1>2. ASSUME s # << >>
      PROVE  /\ \A i \in Submits(Tail(s), c) : i \in Nat /\ i + 1 \in Submits(s, c) /\ i + 1 # 1
             /\ Head(s).kind = "Submit" /\ Head(s).by = c => 1 \in Submits(s, c)
  <2>1. /\ Tail(s) \in Seq(Commands) /\ Len(Tail(s)) = Len(s) - 1
        /\ \A i \in 1 .. Len(Tail(s)) : Tail(s)[i] = s[i + 1]
    BY <1>2, HeadTailProperties
  <2>2. DOMAIN Tail(s) = 1 .. Len(s) - 1
    BY <2>1, LenProperties
  <2>3. Head(s) = s[1] /\ 1 \in DOMAIN s
    BY <1>1, <1>2, EmptySeq
  <2>4. ASSUME NEW i \in Submits(Tail(s), c)
        PROVE  i \in Nat /\ i + 1 \in Submits(s, c) /\ i + 1 # 1
    <3>1. i \in 1 .. Len(s) - 1 /\ Tail(s)[i].kind = "Submit" /\ Tail(s)[i].by = c
      BY <2>2, Zenon DEF Submits
    <3>2. Tail(s)[i] = s[i + 1] /\ i + 1 \in DOMAIN s /\ i \in Nat /\ i + 1 # 1
      BY <1>1, <2>1, <3>1
    <3> QED
      BY <3>1, <3>2, Zenon DEF Submits
  <2> QED
    BY <2>3, <2>4, Zenon DEF Submits
<1>3. ASSUME NEW m \in Commands, NEW i \in Submits(Append(s, m), c)
      PROVE  i \in Submits(s, c) \/ (i = Len(s) + 1 /\ m.kind = "Submit" /\ m.by = c)
  <2>1. /\ Append(s, m) \in Seq(Commands) /\ Len(Append(s, m)) = Len(s) + 1
        /\ \A j \in 1 .. Len(s) : Append(s, m)[j] = s[j]
        /\ Append(s, m)[Len(s) + 1] = m
    BY AppendProperties
  <2>2. i \in DOMAIN Append(s, m) /\ Append(s, m)[i].kind = "Submit" /\ Append(s, m)[i].by = c
    BY Zenon DEF Submits
  <2>3. i \in 1 .. Len(s) + 1
    BY <2>1, <2>2, LenProperties
  <2>4. CASE i \in DOMAIN s
    BY <1>1, <2>1, <2>2, <2>4, Zenon DEF Submits
  <2>5. CASE i = Len(s) + 1
    BY <2>1, <2>2, <2>5, Zenon
  <2> QED
    BY <1>1, <2>3, <2>4, <2>5
<1>4. Submits(<< >>, c) = {}
  BY EmptySeq DEF Submits
<1> QED
  BY <1>2, <1>3, <1>4

LEMMA OnceTail ==
    ASSUME NEW s \in Seq(Commands), NEW t \in Seq(Commands), t # << >>, SubmitOnce(s, t)
    PROVE  /\ Tail(t) \in Seq(Commands) /\ Head(t) \in Commands
           /\ SubmitOnce(s, Tail(t))
           /\ \A c \in Calls : Submits(Tail(t), c) # {} => Submits(t, c) # {}
           /\ Head(t).kind = "Submit" =>
                 LET c == Head(t).by
                 IN  /\ c \in Calls /\ Submits(t, c) # {}
                     /\ Submits(s, c) = {} /\ Submits(Tail(t), c) = {}
<1>1. Tail(t) \in Seq(Commands) /\ Head(t) \in Commands
  BY HeadTailProperties
<1>2. ASSUME NEW c \in Calls
      PROVE  /\ \A i \in Submits(Tail(t), c) : i \in Nat /\ i + 1 \in Submits(t, c) /\ i + 1 # 1
             /\ Head(t).kind = "Submit" /\ Head(t).by = c => 1 \in Submits(t, c)
  BY SubmitsMove
<1>3. ASSUME NEW c \in Calls
      PROVE  /\ \A i, j \in Submits(s, c) : i = j
             /\ \A i, j \in Submits(t, c) : i = j
             /\ Submits(s, c) = {} \/ Submits(t, c) = {}
  BY Zenon DEF SubmitOnce
<1>4. ASSUME NEW c \in Calls, NEW i \in Submits(Tail(t), c), NEW j \in Submits(Tail(t), c)
      PROVE  i = j
  <2>1. i \in Nat /\ j \in Nat /\ i + 1 \in Submits(t, c) /\ j + 1 \in Submits(t, c)
    BY <1>2
  <2>2. i + 1 = j + 1
    BY <1>3, <2>1, Zenon
  <2> QED
    BY <2>1, <2>2
<1>5. ASSUME NEW c \in Calls, Submits(Tail(t), c) # {} PROVE Submits(t, c) # {}
  BY <1>2, <1>5
<1>6. SubmitOnce(s, Tail(t))
  BY <1>3, <1>4, <1>5, Zenon DEF SubmitOnce
<1>7. ASSUME Head(t).kind = "Submit"
      PROVE  /\ Head(t).by \in Calls /\ 1 \in Submits(t, Head(t).by)
             /\ Submits(s, Head(t).by) = {} /\ Submits(Tail(t), Head(t).by) = {}
  <2>1. Head(t).by \in Calls
    BY <1>1, <1>7 DEF Commands
  <2>2. 1 \in Submits(t, Head(t).by)
    BY <1>2, <1>7, <2>1, Zenon
  <2>3. Submits(s, Head(t).by) = {}
    BY <1>3, <2>1, <2>2, Zenon
  <2>4. ASSUME NEW i \in Submits(Tail(t), Head(t).by) PROVE FALSE
    <3>1. i + 1 \in Submits(t, Head(t).by) /\ i + 1 # 1
      BY <1>2, <2>1, <2>4, Zenon
    <3> QED
      BY <1>3, <2>1, <2>2, <3>1, Zenon
  <2> QED
    BY <2>1, <2>2, <2>3, <2>4, Zenon
<1> QED
  BY <1>1, <1>5, <1>6, <1>7, Zenon

LEMMA OnceAppend ==
    ASSUME NEW s \in Seq(Commands), NEW t \in Seq(Commands), SubmitOnce(s, t),
           NEW m \in Commands,
           \A c \in Calls : m.kind = "Submit" /\ m.by = c =>
               Submits(s, c) = {} /\ Submits(t, c) = {}
    PROVE  /\ Append(s, m) \in Seq(Commands)
           /\ SubmitOnce(Append(s, m), t)
           /\ \A c \in Calls : Submits(Append(s, m), c) # {} =>
                 Submits(s, c) # {} \/ (m.kind = "Submit" /\ m.by = c)
<1>1. Append(s, m) \in Seq(Commands)
  BY AppendProperties
<1>2. ASSUME NEW c \in Calls, NEW i \in Submits(Append(s, m), c)
      PROVE  i \in Submits(s, c) \/ (i = Len(s) + 1 /\ m.kind = "Submit" /\ m.by = c)
  BY SubmitsMove
<1>3. ASSUME NEW c \in Calls
      PROVE  /\ \A i, j \in Submits(s, c) : i = j
             /\ \A i, j \in Submits(t, c) : i = j
             /\ Submits(s, c) = {} \/ Submits(t, c) = {}
  BY Zenon DEF SubmitOnce
<1>4. ASSUME NEW c \in Calls
      PROVE  /\ \A i, j \in Submits(Append(s, m), c) : i = j
             /\ Submits(Append(s, m), c) = {} \/ Submits(t, c) = {}
  <2>1. CASE m.kind = "Submit" /\ m.by = c
    <3>1. Submits(s, c) = {} /\ Submits(t, c) = {}
      BY <2>1
    <3> QED
      BY <1>2, <3>1
  <2>2. CASE ~(m.kind = "Submit" /\ m.by = c)
    <3>1. Submits(Append(s, m), c) \subseteq Submits(s, c)
      BY <1>2, <2>2
    <3> QED
      BY <1>3, <3>1
  <2> QED
    BY <2>1, <2>2
<1>5. SubmitOnce(Append(s, m), t)
  BY <1>3, <1>4, Zenon DEF SubmitOnce
<1>6. ASSUME NEW c \in Calls, Submits(Append(s, m), c) # {}
      PROVE  Submits(s, c) # {} \/ (m.kind = "Submit" /\ m.by = c)
  BY <1>2, <1>6, Zenon
<1> QED
  BY <1>1, <1>5, <1>6, Zenon

----------------------------------------------------------------------------
(* Steps that tell nobody anything.                                        *)

LEMMA InitServeInv == ServeInit => ServeInv
<1> SUFFICES ASSUME ServeInit PROVE ServeInv
  OBVIOUS
<1> USE DEF ServeInit
<1>1. DOMAIN emitted = {} /\ DOMAIN events = {}
  BY EmptySeq
<1>2. << >> \in Seq(Commands) /\ << >> \in Seq(Messages)
  BY EmptySeq
<1>3. ServeTyped
  <2>1. emitted \in [DOMAIN emitted -> Nat]
        /\ events \in [DOMAIN events -> [token : Nat, last : BOOLEAN]]
    BY <1>1
  <2>2. outbox \in [Calls -> Seq(Messages)] /\ received \in [Calls -> Seq(Messages)]
    BY <1>2
  <2> QED
    BY <1>2, <2>1, <2>2, Zenon DEF ServeTyped, Phases
<1>4. \A c \in Calls : Submits(inbox, c) = {} /\ Submits(batch, c) = {}
  BY <1>2, SubmitsMove
<1>5. SubmitOnce(inbox, batch)
  BY <1>4, Zenon DEF SubmitOnce
<1>6. Queued
  BY <1>4 DEF Queued, Pending, Untold
<1>7. Ledger /\ IdsApart
  BY <1>1 DEF Ledger, IdsApart
<1>8. Streams
  <2>1. ASSUME NEW c \in Calls PROVE Fits(Told(c), c \in outputs)
    <3>1. Told(c) = << >>
      BY <1>2, ConcatEmptySeq DEF Told
    <3> QED
      BY <3>1, FitsNothing
  <2> QED
    BY <2>1, Zenon DEF Streams
<1> QED
  BY <1>3, <1>5, <1>6, <1>7, <1>8 DEF ServeInv

\* What the thread and the clients hold stays as it is, and no call comes back.
LEMMA StreamsKept ==
    ASSUME ServeInv, UNCHANGED <<id, outputs, emitted, events, outbox, received>>,
           \A c \in Calls : call[c] = "over" => call'[c] = "over",
           loop' # "events" => DOMAIN events = {}
    PROVE  /\ Ledger' /\ IdsApart' /\ Streams'
           /\ \A c \in Calls : Untold(c)' <=> Untold(c)
<1>1. \A c : Told(c)' = Told(c)
  BY DEF Told
<1>2. Ledger /\ IdsApart /\ Streams /\ outputs \subseteq Calls
  BY DEF ServeInv, ServeTyped
<1>3. Ledger'
  <2>1. DOMAIN events \subseteq outputs /\ DOMAIN emitted \subseteq outputs
    BY <1>2 DEF Ledger
  <2>2. ASSUME NEW c \in outputs \ DOMAIN events
        PROVE  c \in DOMAIN emitted /\ (call'[c] # "over" => Len(Told(c)) = emitted[c])
    BY <1>2 DEF Ledger
  <2>3. ASSUME NEW c \in DOMAIN events
        PROVE  /\ events[c].last <=> c \notin DOMAIN emitted
               /\ ~events[c].last => emitted[c] = events[c].token /\ events[c].token # 0
               /\ call'[c] # "over" =>
                     events[c].token = Len(Told(c)) + 1 \/ (events[c].token = 0 /\ events[c].last)
    BY <1>2, <2>1, Zenon DEF Ledger
  <2> QED
    BY <1>1, <2>1, <2>2, <2>3 DEF Ledger
<1>4. IdsApart'
  BY <1>2 DEF IdsApart
<1>5. Streams'
  BY <1>1, <1>2 DEF Streams
<1>6. \A c \in Calls : Untold(c)' <=> Untold(c)
  BY DEF Untold
<1> QED
  BY <1>3, <1>4, <1>5, <1>6

\* A caller goes on, or gives up.
LEMMA CallStep ==
    ASSUME ServeInv, UNCHANGED <<id, loop, inbox, batch, outputs, emitted, events, outbox, received>>,
           NEW c \in Calls, NEW p \in Phases, call' = [call EXCEPT ![c] = p],
           call[c] # "over", p = "checked" => call[c] = "new", p # "new"
    PROVE  ServeInv'
<1>1. ServeTyped /\ SubmitOnce(inbox, batch) /\ Queued /\ Ledger
  BY DEF ServeInv
<1>2. call' \in [Calls -> Phases]
  BY <1>1 DEF ServeTyped
<1>3. \A d \in Calls : call[d] = "over" => call'[d] = "over"
  BY <1>1 DEF ServeTyped
<1>4. loop' # "events" => DOMAIN events = {}
  BY <1>1 DEF Ledger
<1>5. /\ Ledger' /\ IdsApart' /\ Streams'
      /\ \A d \in Calls : Untold(d)' <=> Untold(d)
  BY <1>3, <1>4, StreamsKept, Zenon
<1>6. ServeTyped'
  BY <1>1, <1>2, Zenon DEF ServeTyped
<1>7. Queued'
  <2>1. \A d \in Calls : Pending(d)' <=> Pending(d)
    BY DEF Pending
  <2>2. \A d \in Calls : call'[d] \in {"new", "checked"} => call[d] \in {"new", "checked"}
    BY <1>1 DEF ServeTyped
  <2> QED
    BY <1>1, <1>5, <2>1, <2>2, Zenon DEF Queued
<1>8. SubmitOnce(inbox, batch)'
  BY <1>1, Zenon DEF SubmitOnce
<1> QED
  BY <1>5, <1>6, <1>7, <1>8 DEF ServeInv

\* Commands go into the channel, are taken from it, answered or dropped; none of
\* them is a new submission.
LEMMA CommandStep ==
    ASSUME ServeInv, UNCHANGED <<id, call, outputs, emitted, events, outbox, received>>,
           inbox' \in Seq(Commands), batch' \in Seq(Commands), SubmitOnce(inbox', batch'),
           \A c \in Calls : Pending(c)' => Pending(c),
           loop' \in {"recv", "commands", "act", "events", "ended"},
           loop' # "events" => DOMAIN events = {}
    PROVE  ServeInv'
<1>1. ServeTyped /\ Queued
  BY DEF ServeInv
<1>2. /\ Ledger' /\ IdsApart' /\ Streams'
      /\ \A c \in Calls : Untold(c)' <=> Untold(c)
  BY StreamsKept, Zenon
<1>3. ServeTyped'
  BY <1>1, Zenon DEF ServeTyped
<1>4. Queued'
  BY <1>1, <1>2, Zenon DEF Queued
<1> QED
  BY <1>2, <1>3, <1>4 DEF ServeInv

LEMMA CallersKeepInv ==
    ASSUME ServeInv, NEW c \in Calls, CheckHealth(c) \/ SendSubmit(c) \/ Answered(c) \/ GiveUp(c)
    PROVE  ServeInv'
<1>1. ServeTyped /\ SubmitOnce(inbox, batch) /\ Queued /\ Ledger
  BY DEF ServeInv
<1>2. CASE CheckHealth(c)
  <2>1. PICK p \in {"checked", "over"} : call' = [call EXCEPT ![c] = p]
    BY <1>2 DEF CheckHealth
  <2> QED
    BY <1>2, <2>1, CallStep DEF CheckHealth, threadVars, Phases
<1>3. CASE Answered(c)
  <2>1. PICK p \in {"streaming", "over"} : call' = [call EXCEPT ![c] = p]
    BY <1>3 DEF Answered
  <2> QED
    BY <1>3, <2>1, CallStep DEF Answered, threadVars, Phases
<1>4. CASE GiveUp(c)
  BY <1>4, CallStep DEF GiveUp, threadVars, Phases
<1>5. CASE SendSubmit(c) /\ UNCHANGED inbox
  <2>1. PICK p \in {"waiting", "over"} : call' = [call EXCEPT ![c] = p]
    BY <1>5 DEF SendSubmit
  <2> QED
    BY <1>5, <2>1, CallStep DEF SendSubmit, threadVars, Phases
<1>6. CASE SendSubmit(c) /\ inbox' # inbox
  <2> DEFINE m == [kind |-> "Submit", by |-> c]
  <2>1. /\ call[c] = "checked" /\ call' = [call EXCEPT ![c] = "waiting"]
        /\ inbox' = Append(inbox, m)
        /\ UNCHANGED <<id, loop, batch, outputs, emitted, events, outbox, received>>
    BY <1>6 DEF SendSubmit, threadVars
  <2>2. m \in Commands /\ m.kind = "Submit" /\ m.by = c
    BY DEF Commands
  <2> HIDE DEF m
  <2>3. Untold(c) /\ ~Pending(c)
    BY <1>1, <2>1, Zenon DEF Queued
  <2>4. Submits(inbox, c) = {} /\ Submits(batch, c) = {}
    BY <2>3 DEF Pending
  <2>5. inbox \in Seq(Commands) /\ batch \in Seq(Commands)
    BY <1>1 DEF ServeTyped
  <2>6. \A d \in Calls : m.kind = "Submit" /\ m.by = d =>
            Submits(inbox, d) = {} /\ Submits(batch, d) = {}
    BY <2>2, <2>4
  <2>7. /\ inbox' \in Seq(Commands) /\ SubmitOnce(inbox', batch)
        /\ \A d \in Calls : Submits(inbox', d) # {} => Submits(inbox, d) # {} \/ d = c
    BY <1>1, <2>1, <2>2, <2>5, <2>6, OnceAppend
  <2>8. \A d \in Calls : Pending(d)' => Pending(d) \/ d = c
    BY <2>1, <2>7 DEF Pending
  <2>9. /\ call' \in [Calls -> Phases] /\ call'[c] = "waiting"
        /\ \A d \in Calls : d # c => call'[d] = call[d]
    BY <1>1, <2>1 DEF ServeTyped, Phases
  <2>10. /\ Ledger' /\ IdsApart' /\ Streams'
         /\ \A d \in Calls : Untold(d)' <=> Untold(d)
    <3>1. \A d \in Calls : call[d] = "over" => call'[d] = "over"
      BY <2>1, <2>9
    <3>2. loop' # "events" => DOMAIN events = {}
      BY <1>1, <2>1 DEF Ledger
    <3> QED
      BY <2>1, <3>1, <3>2, StreamsKept, Zenon
  <2>11. ServeTyped'
    BY <1>1, <2>1, <2>7, <2>9, Zenon DEF ServeTyped
  <2>12. Queued'
    <3>1. ASSUME NEW d \in Calls
          PROVE  /\ Pending(d)' => call'[d] \notin {"new", "checked"} /\ Untold(d)'
                 /\ call'[d] \in {"new", "checked"} => Untold(d)'
      BY <1>1, <2>3, <2>8, <2>9, <2>10 DEF Queued
    <3> QED
      BY <3>1, Zenon DEF Queued
  <2>13. SubmitOnce(inbox, batch)'
    BY <2>1, <2>7 DEF SubmitOnce
  <2> QED
    BY <2>10, <2>11, <2>12, <2>13 DEF ServeInv
<1> QED
  BY <1>2, <1>3, <1>4, <1>5, <1>6

LEMMA AskInv ==
    ASSUME ServeInv, NEW x, NEW kind,
           (kind = "Abort" /\ x \in Aborts) \/ (kind = "Shutdown" /\ x \in Shutters), Ask(x, kind)
    PROVE  ServeInv'
<1>1. ServeTyped /\ SubmitOnce(inbox, batch) /\ Ledger
  BY DEF ServeInv
<1>2. inbox \in Seq(Commands) /\ batch \in Seq(Commands) /\ loop \in {"recv", "commands", "act", "events", "ended"}
  BY <1>1 DEF ServeTyped
<1>3. /\ UNCHANGED <<id, loop, batch, call, outputs, emitted, events, outbox, received>>
      /\ inbox' = inbox \/ inbox' = Append(inbox, [kind |-> kind, by |-> x])
  BY DEF Ask, threadVars, clientVars
<1>4. /\ inbox' \in Seq(Commands) /\ SubmitOnce(inbox', batch)
      /\ \A c \in Calls : Submits(inbox', c) # {} => Submits(inbox, c) # {}
  <2>1. CASE inbox' = inbox
    BY <1>1, <1>2, <2>1
  <2>2. CASE inbox' = Append(inbox, [kind |-> kind, by |-> x])
    <3> DEFINE m == [kind |-> kind, by |-> x]
    <3>1. m \in Commands /\ m.kind # "Submit"
      BY DEF Commands
    <3> HIDE DEF m
    <3>2. inbox' = Append(inbox, m)
      BY <2>2 DEF m
    <3> QED
      BY <1>1, <1>2, <3>1, <3>2, OnceAppend
  <2> QED
    BY <1>3, <2>1, <2>2
<1>5. \A c \in Calls : Pending(c)' => Pending(c)
  BY <1>3, <1>4 DEF Pending
<1>6. loop' # "events" => DOMAIN events = {}
  BY <1>1, <1>3 DEF Ledger
<1> QED
  BY <1>2, <1>3, <1>4, <1>5, <1>6, CommandStep

\* The thread takes commands, answers an abort, ends a round, or sleeps.
LEMMA RoundInv ==
    ASSUME ServeInv,
           Receive \/ TakeShutdown \/ TakeAbort \/ NoStep \/ EndEvents \/ DropBackend
    PROVE  ServeInv'
<1>1. ServeTyped /\ SubmitOnce(inbox, batch) /\ Ledger
  BY DEF ServeInv
<1>2. inbox \in Seq(Commands) /\ batch \in Seq(Commands) /\ loop \in {"recv", "commands", "act", "events", "ended"}
  BY <1>1 DEF ServeTyped
<1>3. << >> \in Seq(Commands) /\ \A c \in Calls : Submits(<< >>, c) = {}
  BY <1>2, EmptySeq, SubmitsMove
<1>4. UNCHANGED <<id, call, outputs, emitted, events, outbox, received>>
  BY DEF Receive, TakeShutdown, TakeAbort, NoStep, EndEvents, DropBackend, threadVars, clientVars
<1>5. CASE Receive
  <2>1. inbox' = << >> /\ batch' = inbox /\ loop' = "commands" /\ loop = "recv"
    BY <1>5 DEF Receive
  <2>2. SubmitOnce(inbox', batch')
    BY <1>1, <1>3, <2>1 DEF SubmitOnce
  <2>3. \A c \in Calls : Pending(c)' => Pending(c)
    BY <1>3, <2>1 DEF Pending
  <2>4. DOMAIN events = {}
    BY <1>1, <2>1 DEF Ledger
  <2> QED
    BY <1>2, <1>3, <1>4, <2>1, <2>2, <2>3, <2>4, CommandStep
<1>6. CASE TakeShutdown
  <2>1. inbox' = inbox /\ batch' = << >> /\ loop' = "commands" /\ loop = "commands"
    BY <1>6 DEF TakeShutdown
  <2>2. SubmitOnce(inbox', batch')
    BY <1>1, <1>3, <2>1 DEF SubmitOnce
  <2>3. \A c \in Calls : Pending(c)' => Pending(c)
    BY <1>3, <2>1 DEF Pending
  <2>4. DOMAIN events = {}
    BY <1>1, <2>1 DEF Ledger
  <2> QED
    BY <1>2, <1>3, <1>4, <2>1, <2>2, <2>3, <2>4, CommandStep
<1>7. CASE TakeAbort
  <2>1. inbox' = inbox /\ batch' = Tail(batch) /\ loop' = "commands" /\ loop = "commands"
        /\ batch # << >>
    BY <1>7 DEF TakeAbort
  <2>2. /\ batch' \in Seq(Commands) /\ SubmitOnce(inbox', batch')
        /\ \A c \in Calls : Submits(batch', c) # {} => Submits(batch, c) # {}
    BY <1>1, <1>2, <2>1, OnceTail
  <2>3. \A c \in Calls : Pending(c)' => Pending(c)
    BY <2>1, <2>2 DEF Pending
  <2>4. DOMAIN events = {}
    BY <1>1, <2>1 DEF Ledger
  <2> QED
    BY <1>2, <1>4, <2>1, <2>2, <2>3, <2>4, CommandStep
<1>8. CASE NoStep \/ EndEvents \/ DropBackend
  <2>1. inbox' = inbox /\ batch' = batch
    BY <1>8 DEF NoStep, EndEvents, DropBackend, threadVars
  <2>2. (DOMAIN events = {} /\ loop' = "recv") \/ loop' = loop
    <3>1. CASE NoStep
      BY <1>1, <3>1 DEF NoStep, Ledger
    <3>2. CASE EndEvents
      BY <3>2, EmptySeq DEF EndEvents
    <3>3. CASE DropBackend
      BY <3>3 DEF DropBackend, threadVars
    <3> QED
      BY <1>8, <3>1, <3>2, <3>3
  <2>3. loop' # "events" => DOMAIN events = {}
    BY <1>1, <2>2 DEF Ledger
  <2>4. \A c \in Calls : Pending(c)' => Pending(c)
    BY <2>1 DEF Pending
  <2>5. SubmitOnce(inbox', batch')
    BY <1>1, <2>1 DEF SubmitOnce
  <2> QED
    BY <1>2, <1>4, <2>1, <2>2, <2>3, <2>4, <2>5, CommandStep
<1> QED
  BY <1>5, <1>6, <1>7, <1>8

----------------------------------------------------------------------------
(* Steps that move the streams.                                            *)

\* The parts of the invariant about queues, when no submission becomes pending, no
\* caller goes back and a call without an output or a message keeps so.
LEMMA QueuesKept ==
    ASSUME ServeInv, UNCHANGED call, SubmitOnce(inbox', batch'),
           \A c \in Calls : Pending(c)' => Pending(c),
           \A c \in Calls : (Pending(c)' \/ call[c] \in {"new", "checked"}) /\ Untold(c) => Untold(c)'
    PROVE  SubmitOnce(inbox, batch)' /\ Queued'
<1>1. Queued
  BY DEF ServeInv
<1>2. SubmitOnce(inbox, batch)'
  BY Zenon DEF SubmitOnce
<1>3. Queued'
  BY <1>1, Zenon DEF Queued
<1> QED
  BY <1>2, <1>3

\* The streams of a typed state.
LEMMA Typed ==
    ASSUME ServeTyped
    PROVE  /\ outputs \subseteq Calls /\ call \in [Calls -> Phases]
           /\ inbox \in Seq(Commands) /\ batch \in Seq(Commands)
           /\ \A c \in Calls :
                 /\ outbox[c] \in Seq(Messages) /\ received[c] \in Seq(Messages)
                 /\ Told(c) \in Seq(Messages) /\ Len(Told(c)) \in Nat
                 /\ Told(c) = << >> <=> received[c] = << >> /\ outbox[c] = << >>
<1>1. /\ outputs \subseteq Calls /\ call \in [Calls -> Phases]
      /\ inbox \in Seq(Commands) /\ batch \in Seq(Commands)
  BY DEF ServeTyped
<1>2. ASSUME NEW c \in Calls
      PROVE  /\ outbox[c] \in Seq(Messages) /\ received[c] \in Seq(Messages)
             /\ Told(c) \in Seq(Messages) /\ Len(Told(c)) \in Nat
             /\ Told(c) = << >> <=> received[c] = << >> /\ outbox[c] = << >>
  <2>1. outbox[c] \in Seq(Messages) /\ received[c] \in Seq(Messages)
    BY DEF ServeTyped
  <2>2. /\ received[c] \o outbox[c] \in Seq(Messages)
        /\ received[c] \o outbox[c] = << >> <=> received[c] = << >> /\ outbox[c] = << >>
    BY <2>1, ToldMoves
  <2> QED
    BY <2>1, <2>2, LenProperties DEF Told
<1> QED
  BY <1>1, <1>2

\* A message put into one client's channel is the last it was told.
LEMMA ToldMore ==
    ASSUME ServeTyped, NEW c \in Calls, NEW m \in Messages,
           received'[c] = received[c], outbox'[c] = Append(outbox[c], m)
    PROVE  /\ outbox'[c] \in Seq(Messages)
           /\ Told(c)' = Append(Told(c), m)
           /\ Len(Told(c)') = Len(Told(c)) + 1
<1>1. /\ outbox[c] \in Seq(Messages) /\ received[c] \in Seq(Messages)
      /\ Told(c) \in Seq(Messages)
  BY Typed
<1>2. outbox'[c] \in Seq(Messages)
  BY <1>1, AppendProperties
<1>3. Told(c)' = Append(Told(c), m)
  <2>1. PICK o \in Seq(Messages) : o = outbox[c]
    BY <1>1
  <2>2. PICK r \in Seq(Messages) : r = received[c]
    BY <1>1
  <2>3. r \o Append(o, m) = Append(r \o o, m)
    BY ToldMoves
  <2>4. Told(c) = r \o o /\ Told(c)' = r \o Append(o, m)
    BY <2>1, <2>2 DEF Told
  <2> QED
    BY <2>3, <2>4
<1>4. Len(Told(c)') = Len(Told(c)) + 1
  BY <1>1, <1>3, AppendProperties
<1> QED
  BY <1>2, <1>3, <1>4

\* A message of the scheduler's events has the prompt when it is the first.
LEMMA MessageFirst ==
    ASSUME ServeTyped, NEW c \in Calls, NEW token \in Nat, NEW last \in BOOLEAN
    PROVE  /\ Message(c, token, last) \in Messages
           /\ Message(c, token, last).prompt <=> Told(c) = << >>
           /\ Message(c, token, last).token = token /\ Message(c, token, last).last = last
           /\ ~Message(c, token, last).failed
<1> DEFINE m == Message(c, token, last)
<1>1. Told(c) = << >> <=> received[c] = << >> /\ outbox[c] = << >>
  BY Typed
<1>2. (received[c] = << >> /\ outbox[c] = << >>) \in BOOLEAN
  OBVIOUS
<1>3. /\ m \in Messages /\ m.token = token /\ m.last = last /\ m.failed = FALSE
      /\ m.prompt = (received[c] = << >> /\ outbox[c] = << >>)
  BY <1>2 DEF Message, Messages
<1> QED
  BY <1>1, <1>3

\* A message sent to one client.
LEMMA Sent ==
    ASSUME ServeTyped, NEW c \in Calls, NEW token \in Nat, NEW last \in BOOLEAN,
           received'[c] = received[c],
           outbox'[c] = Append(outbox[c], Message(c, token, last))
    PROVE  /\ Message(c, token, last) \in Messages
           /\ Message(c, token, last).prompt <=> Told(c) = << >>
           /\ Message(c, token, last).token = token /\ Message(c, token, last).last = last
           /\ ~Message(c, token, last).failed
           /\ outbox'[c] \in Seq(Messages)
           /\ Told(c)' = Append(Told(c), Message(c, token, last))
           /\ Len(Told(c)') = Len(Told(c)) + 1
<1>1. PICK m : m = Message(c, token, last)
  OBVIOUS
<1>2. m \in Messages /\ outbox'[c] = Append(outbox[c], m)
  BY <1>1, MessageFirst
<1>3. /\ outbox'[c] \in Seq(Messages)
      /\ Told(c)' = Append(Told(c), m)
      /\ Len(Told(c)') = Len(Told(c)) + 1
  BY <1>2, ToldMore
<1> QED
  BY <1>1, <1>3, MessageFirst

LEMMA ReadInv == ASSUME ServeInv, NEW c \in Calls, Read(c) PROVE ServeInv'
<1>1. ServeTyped /\ SubmitOnce(inbox, batch) /\ Queued /\ Ledger /\ IdsApart /\ Streams
  BY DEF ServeInv
<1>2. /\ call[c] = "streaming" /\ outbox[c] # << >>
      /\ received' = [received EXCEPT ![c] = Append(@, Head(outbox[c]))]
      /\ outbox' = [outbox EXCEPT ![c] = Tail(@)]
      /\ UNCHANGED <<id, inbox, loop, batch, emitted, outputs, events, call>>
  BY DEF Read, threadVars
<1>3. outbox[c] \in Seq(Messages) /\ received[c] \in Seq(Messages)
  BY <1>1, Typed
<1>4. /\ Append(received[c], Head(outbox[c])) \o Tail(outbox[c]) = received[c] \o outbox[c]
      /\ Append(received[c], Head(outbox[c])) \in Seq(Messages)
      /\ Tail(outbox[c]) \in Seq(Messages)
  <2>1. PICK o \in Seq(Messages) : o = outbox[c]
    BY <1>3
  <2>2. PICK r \in Seq(Messages) : r = received[c]
    BY <1>3
  <2>3. Head(o) \in Messages /\ Tail(o) \in Seq(Messages)
    BY <1>2, <2>1, HeadTailProperties
  <2>4. Append(r, Head(o)) \in Seq(Messages)
    BY <2>3, AppendProperties
  <2>5. Append(r, Head(o)) \o Tail(o) = r \o o
    BY <1>2, <2>1, ToldMoves
  <2> QED
    BY <2>1, <2>2, <2>3, <2>4, <2>5
<1>5. /\ received'[c] = Append(received[c], Head(outbox[c])) /\ outbox'[c] = Tail(outbox[c])
      /\ \A d \in Calls : d # c => received'[d] = received[d] /\ outbox'[d] = outbox[d]
  BY <1>1, <1>2 DEF ServeTyped
<1>6. \A d \in Calls : Told(d)' = Told(d)
  BY <1>4, <1>5 DEF Told
<1>7. ServeTyped'
  <2>1. outbox' \in [Calls -> Seq(Messages)] /\ received' \in [Calls -> Seq(Messages)]
    BY <1>1, <1>2, <1>4 DEF ServeTyped
  <2> QED
    BY <1>1, <1>2, <2>1, Zenon DEF ServeTyped
<1>8. SubmitOnce(inbox, batch)' /\ Queued'
  <2>1. \A d \in Calls : Pending(d)' <=> Pending(d)
    BY <1>2 DEF Pending
  <2>2. SubmitOnce(inbox', batch')
    BY <1>1, <1>2
  <2>3. ~Untold(c)
    BY <1>2 DEF Untold
  <2>4. \A d \in Calls : Untold(d) => Untold(d)'
    BY <1>2, <1>5, <2>3 DEF Untold
  <2> QED
    BY <1>2, <2>1, <2>2, <2>4, QueuesKept, Zenon
<1>9. Ledger'
  BY <1>1, <1>2, <1>6 DEF Ledger, ServeTyped
<1>10. IdsApart'
  BY <1>1, <1>2 DEF IdsApart
<1>11. Streams'
  BY <1>1, <1>2, <1>6 DEF Streams
<1> QED
  BY <1>7, <1>8, <1>9, <1>10, <1>11 DEF ServeInv

LEMMA DropStreamInv == ASSUME ServeInv, NEW c \in Calls, DropStream(c) PROVE ServeInv'
<1>1. ServeTyped /\ SubmitOnce(inbox, batch) /\ Queued /\ Ledger /\ IdsApart /\ Streams
  BY DEF ServeInv
<1>2. /\ call[c] = "streaming" /\ call' = [call EXCEPT ![c] = "over"]
      /\ outbox' = [outbox EXCEPT ![c] = << >>]
      /\ UNCHANGED <<id, inbox, loop, batch, emitted, outputs, events, received>>
  BY DEF DropStream, threadVars
<1>3. /\ outbox'[c] = << >> /\ call'[c] = "over" /\ call' \in [Calls -> Phases]
      /\ \A d \in Calls : d # c => outbox'[d] = outbox[d] /\ call'[d] = call[d]
  BY <1>1, <1>2 DEF ServeTyped, Phases
<1>4. \A d \in Calls : d # c => Told(d)' = Told(d)
  BY <1>2, <1>3 DEF Told
<1>5. ServeTyped'
  <2>1. outbox' \in [Calls -> Seq(Messages)]
    BY <1>1, <1>2, EmptySeq DEF ServeTyped
  <2> QED
    BY <1>1, <1>2, <1>3, <2>1, Zenon DEF ServeTyped
<1>6. SubmitOnce(inbox, batch)' /\ Queued'
  <2>1. \A d \in Calls : Pending(d)' <=> Pending(d)
    BY <1>2 DEF Pending
  <2>2. SubmitOnce(inbox, batch)'
    BY <1>1, <1>2
  <2>3. \A d \in Calls : Untold(d) => Untold(d)'
    BY <1>2, <1>3 DEF Untold
  <2>4. \A d \in Calls : call'[d] \in {"new", "checked"} <=> call[d] \in {"new", "checked"}
    BY <1>2, <1>3
  <2> QED
    BY <1>1, <2>1, <2>2, <2>3, <2>4, Zenon DEF Queued
<1>7. Ledger'
  <2>1. DOMAIN events \subseteq Calls
    BY <1>1 DEF Ledger, ServeTyped
  <2>2. \A d \in Calls : call'[d] # "over" => call[d] # "over" /\ Told(d)' = Told(d)
    BY <1>3, <1>4
  <2> QED
    BY <1>1, <1>2, <2>1, <2>2 DEF Ledger, ServeTyped
<1>8. IdsApart'
  BY <1>1, <1>2 DEF IdsApart
<1>9. Streams'
  BY <1>1, <1>2, <1>3, <1>4 DEF Streams
<1> QED
  BY <1>5, <1>6, <1>7, <1>8, <1>9 DEF ServeInv

\* A submission taken: refused, or a new request of an id no other has.
LEMMA TakeSubmitInv == ServeInv /\ TakeSubmit => ServeInv'
<1> SUFFICES ASSUME ServeInv, TakeSubmit PROVE ServeInv'
  OBVIOUS
<1>0. PICK c : c = Head(batch).by
  OBVIOUS
<1>1. ServeTyped /\ SubmitOnce(inbox, batch) /\ Queued /\ Ledger /\ IdsApart /\ Streams
  BY DEF ServeInv
<1>2. /\ loop = "commands" /\ batch # << >> /\ Head(batch).kind = "Submit"
      /\ batch' = Tail(batch)
      /\ UNCHANGED <<inbox, loop, events, id, call, received, outbox>>
  BY DEF TakeSubmit, clientVars
<1>3. \/ UNCHANGED <<emitted, outputs>>
      \/ /\ ~\E o \in outputs : id[o] = id[c]
         /\ emitted' = [o \in DOMAIN emitted \cup {c} |-> IF o = c THEN 0 ELSE emitted[o]]
         /\ outputs' = outputs \cup {c}
  BY <1>0 DEF TakeSubmit
<1>4. inbox \in Seq(Commands) /\ batch \in Seq(Commands) /\ outputs \subseteq Calls
  BY <1>1, Typed
<1>5. /\ batch' \in Seq(Commands) /\ SubmitOnce(inbox, batch')
      /\ \A d \in Calls : Submits(batch', d) # {} => Submits(batch, d) # {}
      /\ c \in Calls /\ Submits(batch, c) # {}
      /\ Submits(inbox, c) = {} /\ Submits(batch', c) = {}
  <2>1. PICK t \in Seq(Commands) : t = batch
    BY <1>4
  <2>2. /\ Tail(t) \in Seq(Commands) /\ SubmitOnce(inbox, Tail(t))
        /\ \A d \in Calls : Submits(Tail(t), d) # {} => Submits(t, d) # {}
        /\ c \in Calls /\ Submits(t, c) # {}
        /\ Submits(inbox, c) = {} /\ Submits(Tail(t), c) = {}
    <3>1. t # << >> /\ SubmitOnce(inbox, t) /\ Head(t).kind = "Submit" /\ c = Head(t).by
      BY <1>0, <1>1, <1>2, <2>1
    <3> QED
      BY <1>4, <3>1, OnceTail
  <2> QED
    BY <1>2, <2>1, <2>2
<1>6. /\ \A d \in Calls : Pending(d)' => Pending(d)
      /\ Pending(c) /\ ~Pending(c)'
  BY <1>2, <1>5 DEF Pending
<1>7. Untold(c) /\ call[c] \notin {"new", "checked"}
  BY <1>1, <1>5, <1>6, Zenon DEF Queued
<1>8. CASE UNCHANGED <<emitted, outputs>>
  <2>1. loop' # "events" => DOMAIN events = {}
    BY <1>1, <1>2 DEF Ledger
  <2>2. loop' \in {"recv", "commands", "act", "events", "ended"} /\ inbox' \in Seq(Commands)
    BY <1>2, <1>4
  <2>3. SubmitOnce(inbox', batch')
    BY <1>2, <1>5
  <2> QED
    BY <1>2, <1>5, <1>6, <1>8, <2>1, <2>2, <2>3, CommandStep
<1>9. CASE /\ ~\E o \in outputs : id[o] = id[c]
           /\ emitted' = [o \in DOMAIN emitted \cup {c} |-> IF o = c THEN 0 ELSE emitted[o]]
           /\ outputs' = outputs \cup {c}
  <2>1. /\ DOMAIN emitted' = DOMAIN emitted \cup {c} /\ emitted'[c] = 0
        /\ \A o \in DOMAIN emitted : o # c => emitted'[o] = emitted[o]
        /\ emitted' \in [DOMAIN emitted' -> Nat]
    BY <1>1, <1>9 DEF ServeTyped
  <2>2. \A d \in Calls : Told(d)' = Told(d)
    BY <1>2 DEF Told
  <2>3. Told(c) = << >> /\ Len(Told(c)) = 0 /\ c \notin outputs
    BY <1>1, <1>5, <1>7, Typed, EmptySeq DEF Untold
  <2>4. ServeTyped'
    <3>1. outputs' \subseteq Calls
      BY <1>4, <1>5, <1>9
    <3> QED
      BY <1>1, <1>2, <1>5, <2>1, <3>1, Zenon DEF ServeTyped
  <2>5. SubmitOnce(inbox, batch)' /\ Queued'
    <3>1. \A d \in Calls : (Pending(d)' \/ call[d] \in {"new", "checked"}) => d # c
      BY <1>6, <1>7
    <3>2. \A d \in Calls : d # c /\ Untold(d) => Untold(d)'
      BY <1>2, <1>9 DEF Untold
    <3>3. SubmitOnce(inbox', batch')
      BY <1>2, <1>5
    <3> QED
      BY <1>2, <1>6, <3>1, <3>2, <3>3, QueuesKept, Zenon
  <2>6. Ledger'
    <3>1. DOMAIN events = {} /\ DOMAIN events' = {}
      BY <1>1, <1>2 DEF Ledger
    <3>2. DOMAIN emitted' \subseteq outputs'
      BY <1>1, <1>9, <2>1 DEF Ledger
    <3>3. ASSUME NEW d \in outputs'
          PROVE  d \in DOMAIN emitted' /\ (call'[d] # "over" => Len(Told(d)') = emitted'[d])
      <4>1. CASE d = c
        BY <1>5, <2>1, <2>2, <2>3, <4>1
      <4>2. CASE d # c
        <5>1. d \in outputs \ DOMAIN events /\ d \in Calls
          BY <1>4, <1>9, <3>1, <4>2
        <5>2. d \in DOMAIN emitted /\ (call[d] # "over" => Len(Told(d)) = emitted[d])
          BY <1>1, <5>1, Zenon DEF Ledger
        <5> QED
          BY <1>2, <2>1, <2>2, <4>2, <5>1, <5>2
      <4> QED
        BY <4>1, <4>2
    <3> QED
      BY <3>1, <3>2, <3>3 DEF Ledger
  <2>7. IdsApart'
    BY <1>1, <1>2, <1>9 DEF IdsApart
  <2>8. Streams'
    <3>1. ASSUME NEW d \in Calls, call'[d] # "over" PROVE Fits(Told(d)', d \in outputs')
      <4>1. CASE d = c
        BY <2>2, <2>3, <4>1, FitsNothing
      <4>2. CASE d # c
        <5>1. d \in outputs' <=> d \in outputs
          BY <1>9, <4>2
        <5>2. Fits(Told(d), d \in outputs)
          BY <1>1, <1>2, <3>1, Zenon DEF Streams
        <5> QED
          BY <2>2, <5>1, <5>2, Zenon DEF Fits
      <4> QED
        BY <4>1, <4>2
    <3> QED
      BY <3>1, Zenon DEF Streams
  <2> QED
    BY <2>4, <2>5, <2>6, <2>7, <2>8 DEF ServeInv
<1> QED
  BY <1>3, <1>8, <1>9

\* A message that ends the stream of c: an abort, or the notice of a failed scheduler.
Closing(c, m) ==
    /\ m \in Messages /\ m.token = 0 /\ m.last = TRUE
    /\ m.prompt <=> Told(c) = << >> /\ ~m.failed

\* One last message to c, who is one of those told, or none.
LastOrNone(c, told) ==
    \/ outbox'[c] = outbox[c]
    \/ c \in told /\ \E m \in Messages : Closing(c, m) /\ outbox'[c] = Append(outbox[c], m)

\* Requests are ended between two steps of the scheduler; those who can be told are.
LEMMA Closes ==
    ASSUME ServeInv, DOMAIN events = {}, UNCHANGED <<id, call, received, events>>,
           NEW gone, outputs' = outputs \ gone,
           DOMAIN emitted' = DOMAIN emitted \ gone,
           \A c \in DOMAIN emitted' : emitted'[c] = emitted[c],
           outbox' \in [Calls -> Seq(Messages)],
           \A c \in Calls : LastOrNone(c, outputs \cap gone)
    PROVE  /\ Ledger' /\ IdsApart' /\ Streams'
           /\ \A c \in Calls : Untold(c) => Untold(c)'
<1>1. ServeTyped /\ Ledger /\ IdsApart /\ Streams
  BY DEF ServeInv
<1>2. ASSUME NEW c \in outputs PROVE c \in Calls /\ c \in DOMAIN emitted /\
             (call[c] # "over" => Len(Told(c)) = emitted[c])
  BY <1>1 DEF Ledger, ServeTyped
<1>3. ASSUME NEW c \in Calls, outbox'[c] = outbox[c] PROVE Told(c)' = Told(c)
  BY <1>3 DEF Told
<1>4. Ledger'
  <2>1. DOMAIN events' = {} /\ DOMAIN emitted' \subseteq outputs'
    BY <1>1 DEF Ledger
  <2>2. ASSUME NEW c \in outputs'
        PROVE  c \in DOMAIN emitted' /\ (call'[c] # "over" => Len(Told(c)') = emitted'[c])
    <3>1. c \in outputs /\ c \notin gone
      OBVIOUS
    <3>2. Told(c)' = Told(c)
      BY <1>2, <1>3, <3>1 DEF LastOrNone
    <3> QED
      BY <1>2, <3>1, <3>2
  <2> QED
    BY <2>1, <2>2 DEF Ledger
<1>5. IdsApart'
  BY <1>1 DEF IdsApart
<1>6. ASSUME NEW c \in Calls, call'[c] # "over" PROVE Fits(Told(c)', c \in outputs')
  <2>1. Fits(Told(c), c \in outputs)
    BY <1>1, <1>6, Zenon DEF Streams
  <2>2. CASE outbox'[c] = outbox[c]
    <3>1. Told(c)' = Told(c)
      BY <1>3, <2>2
    <3>2. c \in outputs' => c \in outputs
      OBVIOUS
    <3> QED
      BY <2>1, <3>1, <3>2, Zenon DEF Fits
  <2>3. ASSUME c \in outputs \cap gone, NEW m \in Messages, Closing(c, m),
               outbox'[c] = Append(outbox[c], m)
        PROVE  Fits(Told(c)', c \in outputs')
    <3>1. /\ m \in Messages /\ (m.prompt <=> Told(c) = << >> /\ ~m.failed)
          /\ m.token = 0 /\ m.last = TRUE
          /\ Told(c)' = Append(Told(c), m)
      <4>1. Told(c)' = Append(Told(c), m)
        BY <1>1, <2>3, ToldMore
      <4> QED
        BY <2>3, <4>1, Zenon DEF Closing
    <3>2. Told(c) \in Seq(Messages)
      BY <1>1, Typed
    <3>3. Fits(Told(c), TRUE)
      BY <2>1, <2>3, Zenon DEF Fits
    <3>4. c \notin outputs'
      BY <2>3
    <3>5. Fits(Append(Told(c), m), FALSE)
      <4>1. PICK t : t = Told(c)
        OBVIOUS
      <4>2. /\ t \in Seq(Messages) /\ Fits(t, TRUE)
            /\ m \in Messages /\ (m.prompt <=> t = << >> /\ ~m.failed)
            /\ m.token = Len(t) + 1 \/ m.token = 0
            /\ m.token = 0 => m.last
            /\ m.last => ~FALSE
        BY <3>1, <3>2, <3>3, <4>1, Zenon
      <4>3. Fits(Append(t, m), FALSE)
        BY <4>2, FitsMore, Zenon
      <4> QED
        BY <4>1, <4>3
    <3> QED
      <4>1. PICK t : t = Told(c)'
        OBVIOUS
      <4>2. Fits(t, FALSE)
        BY <3>1, <3>5, <4>1
      <4>3. Fits(t, c \in outputs')
        BY <3>4, <4>2, Zenon DEF Fits
      <4> QED
        BY <4>1, <4>3, Zenon
  <2>4. LastOrNone(c, outputs \cap gone)
    OBVIOUS
  <2> QED
    BY <2>2, <2>3, <2>4, Zenon DEF LastOrNone
<1>7. Streams'
  BY <1>6, Zenon DEF Streams
<1>8. ASSUME NEW c \in Calls, Untold(c) PROVE Untold(c)'
  <2>1. c \notin outputs /\ received[c] = << >> /\ outbox[c] = << >>
    BY <1>8 DEF Untold
  <2>2. outbox'[c] = outbox[c]
    BY <2>1 DEF LastOrNone
  <2> QED
    BY <2>1, <2>2 DEF Untold
<1> QED
  BY <1>4, <1>5, <1>7, <1>8

\* Where messages go that end requests.
LEMMA Farewells ==
    ASSUME ServeTyped, UNCHANGED received, NEW told, NEW farewell,
           \A c \in Calls : Closing(c, farewell[c]),
           outbox' = [c \in Calls |-> IF c \in told THEN Append(outbox[c], farewell[c])
                                     ELSE outbox[c]]
    PROVE  /\ outbox' \in [Calls -> Seq(Messages)]
           /\ \A c \in Calls : LastOrNone(c, told)
<1>1. ASSUME NEW c \in Calls
      PROVE  /\ outbox'[c] \in Seq(Messages)
             /\ LastOrNone(c, told)
  <2>1. CASE c \in told
    <3>1. PICK m : m = farewell[c]
      OBVIOUS
    <3>2. Closing(c, m) /\ m \in Messages /\ outbox'[c] = Append(outbox[c], m)
      BY <2>1, <3>1 DEF Closing
    <3>3. outbox'[c] \in Seq(Messages)
      BY <3>2, ToldMore
    <3> QED
      BY <2>1, <3>2, <3>3, Zenon DEF LastOrNone
  <2>2. CASE c \notin told
    BY <2>2, Typed DEF LastOrNone
  <2> QED
    BY <2>1, <2>2
<1>2. outbox' = [c \in Calls |-> outbox'[c]]
  OBVIOUS
<1>3. outbox' \in [Calls -> Seq(Messages)]
  BY <1>1, <1>2, Zenon
<1> QED
  BY <1>1, <1>3

LEMMA SweepInv == ServeInv /\ Sweep => ServeInv'
<1> SUFFICES ASSUME ServeInv, Sweep PROVE ServeInv'
  OBVIOUS
<1>1. ServeTyped /\ SubmitOnce(inbox, batch) /\ Queued /\ Ledger
  BY DEF ServeInv
<1>2. PICK gone : gone = {c \in outputs : stop # {} \/ cancelled[c] \/ ~listening[c]}
  OBVIOUS
<1>3. PICK told : told = {c \in gone : Delivers(c)}
  OBVIOUS
<1>4. /\ loop = "commands" /\ loop' = "act"
      /\ emitted' = Forget(emitted, gone) /\ outputs' = outputs \ gone
      /\ UNCHANGED <<inbox, batch, events, id, call, received>>
      /\ outbox' = [c \in Calls |-> IF c \in gone /\ Delivers(c)
                                   THEN Append(outbox[c], Message(c, 0, TRUE)) ELSE outbox[c]]
  BY <1>2 DEF Sweep, clientVars
<1>5. PICK farewell : farewell = [c \in Calls |-> Message(c, 0, TRUE)]
  OBVIOUS
<1>6. outbox' = [c \in Calls |-> IF c \in told THEN Append(outbox[c], farewell[c])
                                 ELSE outbox[c]]
  <2>1. \A c \in Calls : c \in told <=> c \in gone /\ Delivers(c)
    BY <1>3
  <2>2. \A c \in Calls : farewell[c] = Message(c, 0, TRUE)
    BY <1>5
  <2> QED
    BY <1>4, <2>1, <2>2, Zenon
<1>7. \A c \in Calls : Closing(c, farewell[c])
  <2> SUFFICES ASSUME NEW c \in Calls PROVE Closing(c, Message(c, 0, TRUE))
    BY <1>5
  <2>1. 0 \in Nat /\ TRUE \in BOOLEAN
    OBVIOUS
  <2> QED
    BY <1>1, <2>1, MessageFirst DEF Closing
<1>8. /\ outbox' \in [Calls -> Seq(Messages)]
      /\ \A c \in Calls : LastOrNone(c, told)
  BY <1>1, <1>4, <1>6, <1>7, Farewells, Zenon
<1>9. told \subseteq outputs \cap gone
  BY <1>2, <1>3
<1>10. /\ DOMAIN emitted' = DOMAIN emitted \ gone
       /\ \A c \in DOMAIN emitted' : emitted'[c] = emitted[c]
       /\ emitted' \in [DOMAIN emitted' -> Nat]
  BY <1>1, <1>4 DEF Forget, ServeTyped
<1>11. DOMAIN events = {}
  BY <1>1, <1>4 DEF Ledger
<1>12. /\ Ledger' /\ IdsApart' /\ Streams'
       /\ \A c \in Calls : Untold(c) => Untold(c)'
  <2>1. \A c \in Calls : LastOrNone(c, outputs \cap gone)
    BY <1>8, <1>9 DEF LastOrNone
  <2> QED
    BY <1>4, <1>8, <1>10, <1>11, <2>1, Closes, Zenon
<1>13. ServeTyped'
  <2>1. outputs' \subseteq Calls
    BY <1>1, <1>4 DEF ServeTyped
  <2> QED
    BY <1>1, <1>4, <1>8, <1>10, <2>1, Zenon DEF ServeTyped
<1>14. SubmitOnce(inbox, batch)' /\ Queued'
  <2>1. \A c \in Calls : Pending(c)' => Pending(c)
    BY <1>4 DEF Pending
  <2>2. SubmitOnce(inbox', batch')
    BY <1>1, <1>4
  <2> QED
    BY <1>4, <1>12, <2>1, <2>2, QueuesKept, Zenon
<1> QED
  BY <1>12, <1>13, <1>14 DEF ServeInv

\* The thread returns, for shutdown, without a sender, or because a step failed.
LEMMA EndInv == ServeInv /\ (Leave \/ StepFails) => ServeInv'
<1> SUFFICES ASSUME ServeInv, Leave \/ StepFails PROVE ServeInv'
  OBVIOUS
<1>1. ServeTyped /\ SubmitOnce(inbox, batch) /\ Queued /\ Ledger
  BY DEF ServeInv
<1>2. /\ loop = "act" /\ loop' = "ended" /\ emitted' = << >> /\ outputs' = {} /\ inbox' = << >>
      /\ UNCHANGED <<batch, events, id, call, received>>
  BY DEF Leave, StepFails, EndThread, clientVars
<1>3. /\ outbox' \in [Calls -> Seq(Messages)]
      /\ \A c \in Calls : LastOrNone(c, outputs)
  <2>1. CASE Leave
    BY <1>1, <2>1 DEF Leave, ServeTyped, LastOrNone
  <2>2. CASE StepFails
    <3>1. PICK told : told = {c \in outputs : Delivers(c)}
      OBVIOUS
    <3>2. \A c \in Calls : c \in told <=> c \in outputs /\ Delivers(c)
      BY <3>1
    <3>3. PICK farewell : farewell = [c \in Calls |-> Failure]
      OBVIOUS
    <3>4. outbox' = [c \in Calls |-> IF c \in told THEN Append(outbox[c], farewell[c])
                                     ELSE outbox[c]]
      <4>1. \A c \in Calls : farewell[c] = Failure
        BY <3>3
      <4> QED
        BY <2>2, <3>2, <4>1, Zenon DEF StepFails
    <3>5. \A c \in Calls : Closing(c, farewell[c])
      BY <3>3 DEF Closing, Failure, Messages
    <3>6. /\ outbox' \in [Calls -> Seq(Messages)]
          /\ \A c \in Calls : LastOrNone(c, told)
      BY <1>1, <1>2, <3>4, <3>5, Farewells, Zenon
    <3> QED
      BY <3>2, <3>6, Zenon DEF LastOrNone
  <2> QED
    BY <2>1, <2>2
<1>4. DOMAIN events = {}
  BY <1>1, <1>2 DEF Ledger
<1>5. DOMAIN emitted' = {} /\ emitted' \in [DOMAIN emitted' -> Nat]
  <2>1. DOMAIN << >> = {}
    BY EmptySeq
  <2> QED
    BY <1>2, <2>1
<1>6. /\ Ledger' /\ IdsApart' /\ Streams'
      /\ \A c \in Calls : Untold(c) => Untold(c)'
  <2>1. outputs' = outputs \ outputs /\ DOMAIN emitted' = DOMAIN emitted \ outputs
    BY <1>1, <1>2, <1>5 DEF Ledger
  <2>2. \A c \in Calls : LastOrNone(c, outputs \cap outputs)
    BY <1>3, Zenon DEF LastOrNone
  <2>3. \A c \in DOMAIN emitted' : emitted'[c] = emitted[c]
    BY <1>5
  <2> QED
    BY <1>2, <1>3, <1>4, <2>1, <2>2, <2>3, Closes, Zenon
<1>7. << >> \in Seq(Commands) /\ \A c \in Calls : Submits(<< >>, c) = {}
  BY EmptySeq, SubmitsMove
<1>8. ServeTyped'
  <2>1. outputs' \subseteq Calls
    BY <1>2
  <2> QED
    BY <1>1, <1>2, <1>3, <1>5, <1>7, <2>1, Zenon DEF ServeTyped
<1>9. SubmitOnce(inbox, batch)' /\ Queued'
  <2>1. \A c \in Calls : Pending(c)' => Pending(c)
    BY <1>2, <1>7 DEF Pending
  <2>2. SubmitOnce(inbox', batch')
    BY <1>1, <1>2, <1>7 DEF SubmitOnce
  <2> QED
    BY <1>2, <1>6, <2>1, <2>2, QueuesKept, Zenon
<1> QED
  BY <1>6, <1>8, <1>9 DEF ServeInv

\* The scheduler steps: each event is one ahead of what its client was told, or the
\* end of its request.
LEMMA StepJobsInv == ServeInv /\ StepJobs => ServeInv'
<1> SUFFICES ASSUME ServeInv, StepJobs PROVE ServeInv'
  OBVIOUS
<1>1. ServeTyped /\ SubmitOnce(inbox, batch) /\ Queued /\ Ledger
  BY DEF ServeInv
<1>2. PICK emit \in SUBSET DOMAIN emitted, end \in SUBSET DOMAIN emitted :
          /\ events' = [c \in emit \cup end |->
                           [token |-> IF c \in emit THEN emitted[c] + 1 ELSE 0, last |-> c \in end]]
          /\ emitted' = [c \in DOMAIN emitted \ end |-> IF c \in emit THEN emitted[c] + 1 ELSE emitted[c]]
  BY Zenon DEF StepJobs
<1>3. /\ loop = "act" /\ loop' = "events"
      /\ UNCHANGED <<inbox, batch, outputs, id, call, received, outbox>>
  BY DEF StepJobs, clientVars
<1>4. DOMAIN events = {} /\ DOMAIN emitted \subseteq outputs /\ outputs \subseteq DOMAIN emitted
  BY <1>1, <1>3 DEF Ledger
<1>5. \A c \in DOMAIN emitted : emitted[c] \in Nat
  BY <1>1 DEF ServeTyped
<1>6. /\ DOMAIN events' = emit \cup end /\ DOMAIN emitted' = DOMAIN emitted \ end
      /\ \A c \in emit \cup end :
            /\ events'[c] = [token |-> IF c \in emit THEN emitted[c] + 1 ELSE 0, last |-> c \in end]
            /\ c \in DOMAIN emitted
      /\ \A c \in DOMAIN emitted \ end :
            emitted'[c] = IF c \in emit THEN emitted[c] + 1 ELSE emitted[c]
  BY <1>2
<1>7. \A c : Told(c)' = Told(c)
  BY <1>3 DEF Told
<1>8. ASSUME NEW c \in emit \cup end
      PROVE  /\ events'[c] \in [token : Nat, last : BOOLEAN]
             /\ events'[c].last <=> c \in end
             /\ events'[c].token = IF c \in emit THEN emitted[c] + 1 ELSE 0
  <2>1. PICK n \in Nat : n = IF c \in emit THEN emitted[c] + 1 ELSE 0
    BY <1>5, <1>6
  <2>2. PICK b \in BOOLEAN : b <=> c \in end
    OBVIOUS
  <2>3. events'[c] = [token |-> n, last |-> c \in end]
    BY <1>6, <2>1
  <2>4. (c \in end) = b
    BY <2>2
  <2>5. events'[c] = [token |-> n, last |-> b]
    BY <2>3, <2>4, Zenon
  <2> QED
    BY <2>1, <2>2, <2>5
<1>9. ServeTyped'
  <2>1. events' \in [DOMAIN events' -> [token : Nat, last : BOOLEAN]]
    <3>1. events' = [c \in DOMAIN events' |-> events'[c]]
      BY <1>2, <1>6
    <3> QED
      BY <1>6, <1>8, <3>1, Zenon
  <2>2. emitted' \in [DOMAIN emitted' -> Nat]
    <3>1. \A c \in DOMAIN emitted' : emitted'[c] \in Nat
      BY <1>5, <1>6
    <3>2. emitted' = [c \in DOMAIN emitted' |-> emitted'[c]]
      BY <1>2, <1>6
    <3> QED
      BY <3>1, <3>2, Zenon
  <2> QED
    BY <1>1, <1>3, <2>1, <2>2, Zenon DEF ServeTyped
<1>10. SubmitOnce(inbox, batch)' /\ Queued'
  <2>1. \A c \in Calls : Pending(c)' => Pending(c)
    BY <1>3 DEF Pending
  <2>2. \A c \in Calls : Untold(c) => Untold(c)'
    BY <1>3 DEF Untold
  <2>3. SubmitOnce(inbox', batch')
    BY <1>1, <1>3
  <2> QED
    BY <1>3, <2>1, <2>2, <2>3, QueuesKept, Zenon
<1>11. Ledger'
  <2>1. DOMAIN events' \subseteq outputs' /\ DOMAIN emitted' \subseteq outputs'
    BY <1>3, <1>4, <1>6
  <2>2. \A c \in outputs : call[c] # "over" => Len(Told(c)) = emitted[c]
    BY <1>1, <1>4 DEF Ledger
  <2>3. ASSUME NEW c \in outputs' \ DOMAIN events'
        PROVE  c \in DOMAIN emitted' /\ (call'[c] # "over" => Len(Told(c)') = emitted'[c])
    BY <1>3, <1>4, <1>6, <1>7, <2>2
  <2>4. ASSUME NEW c \in DOMAIN events'
        PROVE  /\ events'[c].last <=> c \notin DOMAIN emitted'
               /\ ~events'[c].last => emitted'[c] = events'[c].token /\ events'[c].token # 0
               /\ call'[c] # "over" =>
                     \/ events'[c].token = Len(Told(c)') + 1
                     \/ events'[c].token = 0 /\ events'[c].last
    <3>1. /\ c \in outputs /\ c \in DOMAIN emitted /\ emitted[c] \in Nat
          /\ call[c] # "over" => Len(Told(c)) = emitted[c]
      BY <1>3, <1>4, <1>5, <1>6, <2>1, <2>2
    <3>2. /\ events'[c].last <=> c \in end
          /\ events'[c].token = IF c \in emit THEN emitted[c] + 1 ELSE 0
          /\ c \in emit \/ c \in end
      BY <1>6, <1>8
    <3>3. c \in DOMAIN emitted' <=> c \notin end
      BY <1>6, <3>1
    <3>4. c \notin end => emitted'[c] = emitted[c] + 1
      BY <1>6, <3>1, <3>2
    <3> QED
      BY <1>3, <1>7, <3>1, <3>2, <3>3, <3>4
  <2> QED
    BY <1>3, <2>1, <2>3, <2>4 DEF Ledger
<1>12. IdsApart' /\ Streams'
  BY <1>3, <1>7 DEF IdsApart, Streams, ServeInv
<1> QED
  BY <1>9, <1>10, <1>11, <1>12 DEF ServeInv

\* One event: its message goes out, or its request ends here.
LEMMA DeliverInv == ServeInv /\ Deliver => ServeInv'
<1> SUFFICES ASSUME ServeInv, Deliver PROVE ServeInv'
  OBVIOUS
<1>1. ServeTyped /\ SubmitOnce(inbox, batch) /\ Queued /\ Ledger /\ IdsApart /\ Streams
  BY DEF ServeInv
<1>2. PICK c : c = CHOOSE e \in DOMAIN events : TRUE
  OBVIOUS
<1>3. PICK sent \in BOOLEAN : sent <=> c \in outputs /\ Delivers(c)
  OBVIOUS
<1>4. /\ loop = "events" /\ events # << >>
      /\ outbox' = IF sent
                  THEN [outbox EXCEPT ![c] = Append(@, Message(c, events[c].token, events[c].last))]
                  ELSE outbox
      /\ emitted' = IF events[c].last \/ ~sent THEN Forget(emitted, {c}) ELSE emitted
      /\ outputs' = IF events[c].last \/ ~sent THEN outputs \ {c} ELSE outputs
      /\ events' = [e \in DOMAIN events \ {c} |-> events[e]]
      /\ UNCHANGED <<inbox, loop, batch, id, call, received>>
  BY <1>2, <1>3 DEF Deliver, Over, clientVars
<1>5. /\ DOMAIN events \subseteq outputs /\ DOMAIN emitted \subseteq outputs /\ outputs \subseteq Calls
      /\ \A e \in DOMAIN events : events[e] \in [token : Nat, last : BOOLEAN]
  BY <1>1 DEF Ledger, ServeTyped
<1>6. c \in DOMAIN events
  <2>1. DOMAIN events # {}
    <3>1. SUFFICES ASSUME DOMAIN events = {} PROVE events = << >>
      BY <1>4
    <3>2. events \in [{} -> [token : Nat, last : BOOLEAN]]
      BY <1>1, <3>1 DEF ServeTyped
    <3> QED
      BY <3>2
  <2> QED
    BY <1>2, <2>1
<1>7. PICK token \in Nat, last \in BOOLEAN : token = events[c].token /\ last = events[c].last
  BY <1>5, <1>6
<1>8. /\ last <=> c \notin DOMAIN emitted
      /\ ~last => emitted[c] = token /\ token # 0
      /\ call[c] # "over" => token = Len(Told(c)) + 1 \/ (token = 0 /\ last)
  BY <1>1, <1>6, <1>7 DEF Ledger
<1>9. c \in outputs /\ c \in Calls
  BY <1>5, <1>6
<1>10. /\ DOMAIN events' = DOMAIN events \ {c}
       /\ \A e \in DOMAIN events' : events'[e] = events[e]
       /\ events' \in [DOMAIN events' -> [token : Nat, last : BOOLEAN]]
  BY <1>4, <1>5
<1>11. /\ DOMAIN emitted' = IF last \/ ~sent THEN DOMAIN emitted \ {c} ELSE DOMAIN emitted
       /\ \A e \in DOMAIN emitted' : emitted'[e] = emitted[e]
       /\ emitted' \in [DOMAIN emitted' -> Nat]
  <2>1. CASE last \/ ~sent
    <3>1. emitted' = [e \in DOMAIN emitted \ {c} |-> emitted[e]]
      BY <1>4, <1>7, <2>1 DEF Forget
    <3> QED
      BY <1>1, <2>1, <3>1 DEF ServeTyped
  <2>2. CASE ~(last \/ ~sent)
    <3>1. emitted' = emitted
      BY <1>4, <1>7, <2>2
    <3> QED
      BY <1>1, <2>2, <3>1 DEF ServeTyped
  <2> QED
    BY <2>1, <2>2
<1>12. outputs' = IF last \/ ~sent THEN outputs \ {c} ELSE outputs
  BY <1>4, <1>7
<1>13. /\ outbox' \in [Calls -> Seq(Messages)]
       /\ \A d \in Calls : d # c => outbox'[d] = outbox[d]
       /\ sent => outbox'[c] = Append(outbox[c], Message(c, token, last))
       /\ ~sent => outbox'[c] = outbox[c]
  <2>1. CASE sent
    <3>1. /\ outbox' = [outbox EXCEPT ![c] = Append(outbox[c], Message(c, token, last))]
          /\ outbox \in [Calls -> Seq(Messages)]
      BY <1>1, <1>4, <1>7, <2>1 DEF ServeTyped
    <3>2. outbox'[c] = Append(outbox[c], Message(c, token, last))
      BY <1>9, <3>1
    <3>3. outbox'[c] \in Seq(Messages)
      BY <1>1, <1>4, <1>9, <3>2, Sent
    <3>4. Append(outbox[c], Message(c, token, last)) \in Seq(Messages)
      BY <3>2, <3>3
    <3> QED
      BY <1>9, <2>1, <3>1, <3>2, <3>4
  <2>2. CASE ~sent
    BY <1>1, <1>4, <2>2 DEF ServeTyped
  <2> QED
    BY <2>1, <2>2
<1>14. \A d \in Calls : d # c => Told(d)' = Told(d)
  BY <1>4, <1>13 DEF Told
<1>15. ServeTyped'
  <2>1. outputs' \subseteq Calls
    BY <1>5, <1>12
  <2> QED
    BY <1>1, <1>4, <1>10, <1>11, <1>13, <2>1, Zenon DEF ServeTyped
<1>16. SubmitOnce(inbox, batch)' /\ Queued'
  <2>1. \A d \in Calls : Pending(d)' => Pending(d)
    BY <1>4 DEF Pending
  <2>2. ~Untold(c)
    BY <1>9 DEF Untold
  <2>3. \A d \in Calls : Untold(d) => Untold(d)'
    BY <1>4, <1>12, <1>13, <2>2 DEF Untold
  <2>4. SubmitOnce(inbox', batch')
    BY <1>1, <1>4
  <2> QED
    BY <1>4, <2>1, <2>3, <2>4, QueuesKept, Zenon
<1>17. Ledger'
  <2>1. DOMAIN events' \subseteq outputs' /\ DOMAIN emitted' \subseteq outputs'
    BY <1>5, <1>10, <1>11, <1>12
  <2>2. loop' = "events"
    BY <1>4
  <2>3. ASSUME NEW d \in outputs' \ DOMAIN events'
        PROVE  d \in DOMAIN emitted' /\ (call'[d] # "over" => Len(Told(d)') = emitted'[d])
    <3>1. CASE d = c
      <4>1. ~last /\ sent
        BY <1>12, <3>1
      <4>2. c \in DOMAIN emitted' /\ emitted'[c] = token
        BY <1>8, <1>11, <4>1
      <4>3. Len(Told(c)') = Len(Told(c)) + 1
        BY <1>1, <1>4, <1>9, <1>13, <4>1, Sent
      <4> QED
        BY <1>4, <1>8, <3>1, <4>1, <4>2, <4>3
    <3>2. CASE d # c
      <4>1. d \in outputs \ DOMAIN events /\ d \in Calls
        BY <1>5, <1>10, <1>12, <3>2
      <4>2. d \in DOMAIN emitted /\ (call[d] # "over" => Len(Told(d)) = emitted[d])
        BY <1>1, <4>1, Zenon DEF Ledger
      <4> QED
        BY <1>4, <1>11, <1>14, <3>2, <4>1, <4>2
    <3> QED
      BY <3>1, <3>2
  <2>4. ASSUME NEW d \in DOMAIN events'
        PROVE  /\ events'[d].last <=> d \notin DOMAIN emitted'
               /\ ~events'[d].last => emitted'[d] = events'[d].token /\ events'[d].token # 0
               /\ call'[d] # "over" =>
                     \/ events'[d].token = Len(Told(d)') + 1
                     \/ events'[d].token = 0 /\ events'[d].last
    <3>1. d \in DOMAIN events /\ d # c /\ d \in Calls /\ events'[d] = events[d]
      BY <1>5, <1>10
    <3>2. /\ events[d].last <=> d \notin DOMAIN emitted
          /\ ~events[d].last => emitted[d] = events[d].token /\ events[d].token # 0
          /\ call[d] # "over" =>
                events[d].token = Len(Told(d)) + 1 \/ (events[d].token = 0 /\ events[d].last)
      BY <1>1, <3>1, Zenon DEF Ledger
    <3>3. d \in DOMAIN emitted' <=> d \in DOMAIN emitted
      BY <1>11, <3>1
    <3>4. ~events[d].last => emitted'[d] = emitted[d]
      BY <1>11, <3>2, <3>3
    <3> QED
      BY <1>4, <1>14, <3>1, <3>2, <3>3, <3>4
  <2> QED
    BY <2>1, <2>2, <2>3, <2>4 DEF Ledger
<1>18. IdsApart'
  BY <1>1, <1>4, <1>12 DEF IdsApart
<1>19. ASSUME NEW d \in Calls, call'[d] # "over" PROVE Fits(Told(d)', d \in outputs')
  <2>1. Fits(Told(d), d \in outputs)
    BY <1>1, <1>4, <1>19, Zenon DEF Streams
  <2>2. CASE d # c \/ ~sent
    <3>1. Told(d)' = Told(d)
      BY <1>4, <1>13, <1>14, <1>19, <2>2 DEF Told
    <3>2. d \in outputs' => d \in outputs
      BY <1>12
    <3> QED
      BY <2>1, <3>1, <3>2, Zenon DEF Fits
  <2>3. CASE d = c /\ sent
    <3>1. PICK m : m = Message(c, token, last)
      OBVIOUS
    <3>2. /\ m \in Messages /\ (m.prompt <=> Told(c) = << >>) /\ ~m.failed
          /\ m.token = token /\ m.last = last
          /\ Told(c)' = Append(Told(c), m)
      BY <1>1, <1>4, <1>9, <1>13, <2>3, <3>1, Sent
    <3>3. Told(c) \in Seq(Messages) /\ Fits(Told(c), TRUE)
      <4>1. Told(c) \in Seq(Messages)
        BY <1>1, <1>9, Typed
      <4>2. Fits(Told(c), TRUE)
        BY <1>9, <2>1, <2>3, Zenon DEF Fits
      <4> QED
        BY <4>1, <4>2
    <3>4. m.token = Len(Told(c)) + 1 \/ m.token = 0
      BY <1>4, <1>8, <1>19, <2>3, <3>2
    <3>5. m.token = 0 => m.last
      BY <1>4, <1>8, <1>19, <2>3, <3>2
    <3>6. Fits(Append(Told(c), m), ~last)
      <4>1. m.last => ~(~last)
        BY <3>2
      <4> QED
        BY <3>2, <3>3, <3>4, <3>5, <4>1, FitsMore
    <3>7. c \in outputs' <=> ~last
      BY <1>9, <1>12, <2>3
    <3> QED
      BY <2>3, <3>2, <3>6, <3>7, Zenon DEF Fits
  <2> QED
    BY <2>2, <2>3
<1>20. Streams'
  BY <1>19, Zenon DEF Streams
<1> QED
  BY <1>15, <1>16, <1>17, <1>18, <1>20 DEF ServeInv

----------------------------------------------------------------------------
(* The theorem.                                                            *)

LEMMA ServeNextInv == ServeInv /\ [ServeNext]_serveVars => ServeInv'
<1> SUFFICES ASSUME ServeInv, [ServeNext]_serveVars PROVE ServeInv'
  OBVIOUS
<1>1. CASE Thread
  BY <1>1, RoundInv, TakeSubmitInv, SweepInv, EndInv, StepJobsInv, DeliverInv, Zenon DEF Thread
<1>2. CASE \E c \in Calls : Client(c) \/ GiveUp(c) \/ Read(c) \/ DropStream(c)
  BY <1>2, CallersKeepInv, ReadInv, DropStreamInv, Zenon DEF Client
<1>3. CASE \E x \in Aborts : Ask(x, "Abort")
  <2>1. PICK x \in Aborts : Ask(x, "Abort")
    BY <1>3
  <2>2. PICK kind : kind = "Abort"
    OBVIOUS
  <2> QED
    BY <2>1, <2>2, AskInv
<1>4. CASE \E x \in Shutters : Ask(x, "Shutdown")
  <2>1. PICK x \in Shutters : Ask(x, "Shutdown")
    BY <1>4
  <2>2. PICK kind : kind = "Shutdown"
    OBVIOUS
  <2> QED
    BY <2>1, <2>2, AskInv
<1>5. CASE DropBackend
  BY <1>5, RoundInv, Zenon
<1>6. CASE UNCHANGED serveVars
  <2>1. UNCHANGED <<id, call, inbox, batch, loop, outputs, emitted, events, outbox, received>>
    BY <1>6 DEF serveVars
  <2>2. ServeTyped /\ SubmitOnce(inbox, batch) /\ Ledger
    BY DEF ServeInv
  <2>3. SubmitOnce(inbox', batch') /\ inbox' \in Seq(Commands) /\ batch' \in Seq(Commands)
    BY <2>1, <2>2 DEF ServeTyped
  <2>4. \A c \in Calls : Pending(c)' => Pending(c)
    BY <2>1 DEF Pending
  <2>5. loop' \in {"recv", "commands", "act", "events", "ended"}
        /\ (loop' # "events" => DOMAIN events = {})
    BY <2>1, <2>2 DEF ServeTyped, Ledger
  <2> QED
    BY <2>1, <2>3, <2>4, <2>5, CommandStep, Zenon
<1> QED
  BY <1>1, <1>2, <1>3, <1>4, <1>5, <1>6, Zenon DEF ServeNext

LEMMA ServeInvSuffices == ServeInv => StreamsExact
<1> SUFFICES ASSUME ServeInv PROVE StreamsExact
  OBVIOUS
<1>1. Ledger /\ IdsApart /\ Streams
  BY DEF ServeInv
<1>2. ASSUME NEW c \in Calls, call[c] # "over", NEW i \in DOMAIN Told(c)
      PROVE  /\ Told(c)[i].prompt = (i = 1 /\ ~Told(c)[i].failed)
             /\ Told(c)[i].token \in {i, 0}
             /\ Told(c)[i].token = 0 => Told(c)[i].last
             /\ Told(c)[i].last => i = Len(Told(c)) /\ c \notin outputs
  BY <1>1, <1>2, Zenon DEF Streams, Fits
<1>3. ASSUME loop = "recv"
      PROVE  /\ outputs = DOMAIN emitted
             /\ \A c \in outputs : call[c] # "over" => Len(Told(c)) = emitted[c]
             /\ \A c, o \in outputs : id[c] = id[o] => c = o
  BY <1>1, <1>3 DEF Ledger, IdsApart
<1> QED
  BY <1>2, <1>3, Zenon DEF StreamsExact

\* Whatever the channels' sizes, however calls, aborts and shutdowns interleave with
\* the thread and the scheduler: each client is told its tokens once, in order and
\* without a gap, the prompt with the first message unless that is the notice of a failed
\* scheduler, and one final message last; and between two rounds the thread and the
\* scheduler agree about every request.
THEOREM StreamsAreExact == ServeSpec => []StreamsExact
<1>1. ServeInit => ServeInv
  BY InitServeInv
<1>2. ServeInv /\ [ServeNext]_serveVars => ServeInv'
  BY ServeNextInv
<1>3. ServeInv => StreamsExact
  BY ServeInvSuffices
<1> QED
  BY <1>1, <1>2, <1>3, PTL DEF ServeSpec
==============================================================================
