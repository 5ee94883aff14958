------------------------- MODULE ProgramWorker_proofs -------------------------
(***************************************************************************)
(* What the worker loop promises, for every set of requests and callers of *)
(* shutdown, every number of resident slots, every budget and every length *)
(* of the queues.                                                          *)
(***************************************************************************)
EXTENDS ProgramWorker, NumberLemmas

Items == {"token", "final", "err"}
Places == {"top", "scan", "round", "collect", "native", "finish", "complete", "publish",
           "close", "closing", "exit", "done"}

\* The places where a native call is being put together, runs or is finished.
Calling == {"collect", "native", "finish", "complete", "publish"}

WorkerTyped ==
    /\ queue \in Seq(Jobs) /\ closed \in BOOLEAN
    /\ active \in [{IdOf[j] : j \in Jobs} -> Jobs \cup {None}]
    /\ cancel \in SUBSET Jobs /\ out \in [Jobs -> Seq(Items)]
    /\ stop \in BOOLEAN /\ healthy \in BOOLEAN /\ finished \in BOOLEAN
    /\ client \in [Jobs -> {"new", "checked", "open", "gone", "refused"}]
    /\ got \in [Jobs -> Seq(Items)]
    /\ slots \in [Slots -> Running \cup {None}] /\ owner \in [Slots -> Jobs \cup {None}]
    /\ pc \in Places /\ at \in 0 .. Residents
    /\ cursor \in Slots /\ start \in Slots /\ tokens \in 0 .. TokenBudget
    /\ inputs \in Seq([slot : Slots, count : Nat])
    /\ result \in {"ok", "err"} /\ ended \in [Jobs -> {"no", "final", "err", "silent"}]

\* One caller of shutdown holds the receiver until the worker has ended.
Handed ==
    /\ shutter \in [Shutters -> {"idle", "waiting", "awaiting", "returned"}]
    /\ receiver \/ finished \/ \E s \in Shutters : shutter[s] = "awaiting"
    /\ \A s \in Shutters : shutter[s] = "returned" => finished

\* An id is reserved only for a request that has it.
OwnIds == \A id \in DOMAIN active : active[id] # None => IdOf[active[id]] = id

\* What the worker's place says of its locals.
Control ==
    /\ pc \notin Calling => inputs = << >>
    /\ pc \in Calling \ {"collect"} => inputs # << >>
    /\ pc = "round" => BatchCapacity = 0
    /\ pc = "collect" => BatchCapacity > 0
    /\ pc = "scan" => at < Residents
    /\ pc \in Calling /\ BatchCapacity = 0 => Len(inputs) = 1 /\ at < Residents
    /\ BatchCapacity > 0 => tokens <= BatchCapacity

Within(r, count) ==
    /\ r.position < Boundary[r.job] => r.position + count <= Boundary[r.job]
    /\ r.position < Prompt[r.job] => r.position + count <= Prompt[r.job]

Member(k) ==
    LET i == inputs[k].slot
        r == slots[i]
    IN  /\ r # None
        /\ client[r.job] = "open" => Len(out[r.job]) < OutCap
        /\ pc \in {"collect", "native"} => Within(r, inputs[k].count)
        /\ pc = "collect" => \E o \in 0 .. at - 1 : i = (start + o) % Residents

\* The members of a call are different residents with room for a response.
Members ==
    /\ \A k \in 1 .. Len(inputs) : Member(k)
    /\ \A k, l \in 1 .. Len(inputs) : k # l => inputs[k].slot # inputs[l].slot

Published(i) == pc = "publish" /\ inputs[1].slot = i

\* The engine holds the state of the residents, and of others only after a failure.
Held ==
    \A i \in Slots :
        /\ slots[i] # None /\ ~Published(i) => owner[i] = slots[i].job
        /\ Published(i) \/ (slots[i] = None /\ result = "ok") => owner[i] = None
        /\ slots[i] = None /\ owner[i] # None => ended[owner[i]] \in {"err", "silent"}

Queued(j) == \E k \in 1 .. Len(queue) : queue[k] = j
Resident(j) == \E i \in Slots : slots[i] # None /\ slots[i].job = j

\* A job is in one place.
OnePlace ==
    /\ \A k, l \in 1 .. Len(queue) : queue[k] = queue[l] => k = l
    /\ \A i, k \in Slots : slots[i] # None /\ slots[k] # None /\ slots[i].job = slots[k].job => i = k
    /\ \A j \in Jobs : ~(Queued(j) /\ Resident(j))

\* A response that is not a token is the last, and how the job ended.
Last(j) ==
    /\ \A k \in 1 .. Len(got[j]) : got[j][k] # "token" =>
          k = Len(got[j]) /\ out[j] = << >> /\ ended[j] = got[j][k]
    /\ \A k \in 1 .. Len(out[j]) : out[j][k] # "token" =>
          k = Len(out[j]) /\ ended[j] = out[j][k]

\* A job is accepted, then queued or resident, then ended.
Lives(j) ==
    /\ Queued(j) \/ Resident(j) => client[j] \in {"open", "gone"} /\ ended[j] = "no"
    /\ client[j] \in {"open", "gone"} => ended[j] # "no" \/ Queued(j) \/ Resident(j)
    /\ client[j] \notin {"open", "gone"} => ended[j] = "no"
    /\ client[j] # "open" \/ Queued(j) => got[j] = << >> /\ out[j] = << >>
    /\ client[j] = "gone" => j \in cancel
    /\ ended[j] = "silent" => j \in cancel \/ closed
    /\ Last(j)

\* A resident's responses so far; its last one waits for the engine.
Served(i) ==
    slots[i] # None =>
        /\ client[slots[i].job] = "open" =>
              Len(got[slots[i].job]) + Len(out[slots[i].job])
                  = slots[i].generated - (IF slots[i].terminal THEN 1 ELSE 0)
        /\ slots[i].terminal =>
              pc \in {"close", "closing"} \/ (pc \in {"complete", "publish"} /\ inputs[1].slot = i)
        /\ pc \in {"complete", "publish"} /\ inputs[1].slot = i =>
              slots[i].terminal \/ slots[i].job \in cancel

\* The active map names the queued and the residents whose id is not given back.
Named(j) == Queued(j) \/ \E i \in Slots : slots[i] # None /\ slots[i].job = j /\ ~Published(i)

Tracks == \A j \in Jobs : Named(j) <=> active[IdOf[j]] = j

\* The worker gives up everything before it ends.
Ending ==
    /\ closed <=> pc \in {"closing", "exit", "done"}
    /\ pc = "closing" => \A i \in Slots : i < at => slots[i] = None
    /\ pc \in {"exit", "done"} =>
          /\ queue = << >> /\ \A i \in Slots : slots[i] = None
          /\ \A id \in DOMAIN active : active[id] = None

WorkerInv ==
    /\ WorkerTyped /\ Control /\ Members /\ Held /\ OnePlace
    /\ \A j \in Jobs : Lives(j)
    /\ \A i \in Slots : Served(i)
    /\ ~closed => Tracks
    /\ Ending

----------------------------------------------------------------------------
(* Numbers: slots in turn, and the size of a chunk.                        *)

\* A round visits every slot once.
LEMMA SlotsInTurn ==
    ASSUME start \in Slots, at \in 0 .. Residents - 1
    PROVE  /\ Index \in Slots /\ (Index + 1) % Residents \in Slots
           /\ \A o \in 0 .. at - 1 : (start + o) % Residents # Index
<1> DEFINE n == Residents
           i == Index
<1>1. n \in Nat \ {0} /\ start \in 0 .. n - 1 /\ at \in 0 .. n - 1
  BY WorkerAssumption DEF Slots
<1>2. i = IF start + at < n THEN start + at ELSE (start + at) - n
  BY <1>1, Rotation DEF Index
<1>3. i \in 0 .. n - 1
  <2> HIDE DEF i, n
  <2> QED
    BY <1>1, <1>2
<1>4. (i + 1) % n \in 0 .. n - 1
  <2> HIDE DEF i, n
  <2>1. i + 1 \in Nat
    BY <1>1, <1>3
  <2> QED
    BY <1>1, <2>1, Division
<1>5. ASSUME NEW o \in 0 .. at - 1
      PROVE  (start + o) % n # i
  <2> HIDE DEF i, n
  <2>1. o \in 0 .. n - 1 /\ o < at
    BY <1>1
  <2>2. (start + o) % n = IF start + o < n THEN start + o ELSE (start + o) - n
    BY <1>1, <2>1, Rotation
  <2> DEFINE m == (start + o) % n
  <2> HIDE DEF m
  <2>3. m = IF start + o < n THEN start + o ELSE (start + o) - n
    BY <2>2 DEF m
  <2>4. m # i
    BY <1>1, <1>2, <2>1, <2>3
  <2> QED
    BY <2>4 DEF m
<1> QED
  BY <1>3, <1>4, <1>5 DEF Slots

\* Min of a pair, as the code's min.
LEMMA MinOfTwo ==
    ASSUME NEW x \in Int, NEW y \in Int
    PROVE  Min({x, y}) = IF x <= y THEN x ELSE y
BY DEF Min

\* A finite set of naturals has a greatest member, which Max returns.
LEMMA MaxIsGreatest ==
    ASSUME NEW S \in SUBSET Nat, IsFiniteSet(S), S # {}
    PROVE  Max(S) \in S /\ \A y \in S : y <= Max(S)
<1>1. PICK u \in S : \A y \in S : y <= u
  BY GreatestMember
<1>2. \E x \in S : \A y \in S : x >= y
  BY <1>1
<1> DEFINE m == CHOOSE x \in S : \A y \in S : x >= y
<1>3. m \in S /\ \A y \in S : m >= y
  BY <1>2
<1>4. Max(S) = m
  BY DEF Max
<1> HIDE DEF m
<1> QED
  BY <1>3, <1>4

\* A chunk is no longer than it may be.
LEMMA ChunkFits ==
    ASSUME NEW limit \in Nat \ {0}
    PROVE  PrefillChunk(limit) \in 1 .. limit
<1>1. CASE Uncaptured
  <2>1. Max(PrefillSizes) \in Nat \ {0}
    <3>1. PrefillSizes \in SUBSET Nat /\ IsFiniteSet(PrefillSizes) /\ PrefillSizes # {}
      BY <1>1, WorkerAssumption
    <3> QED
      BY <3>1, MaxIsGreatest, WorkerAssumption
  <2> DEFINE m == Max(PrefillSizes)
  <2>2. PrefillChunk(limit) = Min({limit, m})
    BY <1>1 DEF PrefillChunk
  <2> HIDE DEF m
  <2>3. m \in Nat \ {0}
    BY <2>1 DEF m
  <2> QED
    BY <2>2, <2>3, MinOfTwo
<1>2. CASE ~Uncaptured
  <2> DEFINE S == {1} \cup {n \in PrefillSizes : n <= limit}
  <2>1. S \subseteq 1 .. limit /\ S # {}
    <3>1. \A n \in PrefillSizes : n \in Nat \ {0}
      BY WorkerAssumption
    <3> QED
      BY <3>1
  <2>2. IsFiniteSet(1 .. limit)
    BY FS_Interval
  <2>3. S \in SUBSET Nat /\ IsFiniteSet(S)
    BY <2>1, <2>2, FS_Subset
  <2>4. PrefillChunk(limit) = Max(S)
    BY <1>2 DEF PrefillChunk
  <2> HIDE DEF S
  <2>5. Max(S) \in S
    BY <2>1, <2>3, MaxIsGreatest
  <2> QED
    BY <2>1, <2>4, <2>5
<1> QED
  BY <1>1, <1>2

\* A resident's tokens of a call stay within the budget, and within its prompt
\* and its checkpoint boundary.
LEMMA QuantumFits ==
    ASSUME NEW r \in Running, NEW budget \in Nat \ {0}
    PROVE  Quantum(r, budget) \in 1 .. budget /\ Within(r, Quantum(r, budget))
<1> DEFINE p == r.position
           m == Prompt[r.job]
           b == Boundary[r.job]
           limit == PrefillLimit(r.job, r.position)
           q == Quantum(r, budget)
<1>1. p \in Nat /\ m \in Nat \ {0} /\ b \in 0 .. m - 1
  BY WorkerAssumption DEF Running
<1>2. CASE Extending(r)
  <2>1. limit = IF p < b THEN b - p ELSE m - p
    BY DEF PrefillLimit
  <2>2. p < m
    BY <1>2 DEF Extending
  <2>3. limit \in Nat \ {0} /\ (p < b => limit = b - p) /\ limit <= m - p
    <3> HIDE DEF p, m, b, limit
    <3> QED
      BY <1>1, <2>1, <2>2
  <2> DEFINE least == Min({budget, limit})
  <2>4. least = IF budget <= limit THEN budget ELSE limit
    <3> HIDE DEF limit
    <3> QED
      BY <2>3, MinOfTwo
  <2>5. least \in Nat \ {0} /\ least <= budget /\ least <= limit
    <3> HIDE DEF limit, least
    <3> QED
      BY <2>3, <2>4
  <2>6. q = PrefillChunk(least)
    BY <1>2 DEF Quantum
  <2>7. q \in 1 .. least
    <3> HIDE DEF q, least
    <3> QED
      BY <2>5, <2>6, ChunkFits
  <2>8. q \in 1 .. budget /\ (p < b => p + q <= b) /\ (p < m => p + q <= m)
    <3> HIDE DEF p, m, b, limit, q, least
    <3> QED
      BY <1>1, <2>3, <2>5, <2>7
  <2> QED
    BY <2>8 DEF Within
<1>3. CASE ~Extending(r)
  <2>1. q = 1
    BY <1>3 DEF Quantum
  <2>2. ~(p < m)
    BY <1>3 DEF Extending
  <2>3. q \in 1 .. budget /\ ~(p < b) /\ ~(p < m)
    <3> HIDE DEF p, m, b, q
    <3> QED
      BY <1>1, <2>1, <2>2
  <2> QED
    BY <2>3 DEF Within
<1> QED
  BY <1>2, <1>3

\* A sequence of no length is the empty one.
LEMMA NothingLeft ==
    ASSUME NEW S, NEW s \in Seq(S), Len(s) = 0
    PROVE  s = << >>
OBVIOUS

\* A sequence and one more item.
LEMMA Appended ==
    ASSUME NEW S, NEW s \in Seq(S), NEW e \in S
    PROVE  /\ Append(s, e) \in Seq(S) /\ Len(s) \in Nat /\ Len(Append(s, e)) = Len(s) + 1
           /\ Append(s, e)[Len(s) + 1] = e
           /\ \A k \in 1 .. Len(s) : Append(s, e)[k] = s[k]
           /\ \A k \in 1 .. Len(Append(s, e)) : k \in 1 .. Len(s) \/ k = Len(Append(s, e))
<1>1. Append(s, e) \in Seq(S) /\ Len(s) \in Nat /\ Len(Append(s, e)) = Len(s) + 1
  OBVIOUS
<1>2. Append(s, e)[Len(s) + 1] = e
  OBVIOUS
<1>3. \A k \in 1 .. Len(s) : Append(s, e)[k] = s[k]
  OBVIOUS
<1>4. \A k \in 1 .. Len(Append(s, e)) : k \in 1 .. Len(s) \/ k = Len(Append(s, e))
  <2> DEFINE a == Len(s)
             b == Len(Append(s, e))
  <2>1. a \in Nat /\ b = a + 1
    BY <1>1
  <2> HIDE DEF a, b
  <2>2. \A k \in 1 .. b : k \in 1 .. a \/ k = b
    BY <2>1
  <2> QED
    BY <2>2 DEF a, b
<1> QED
  BY <1>1, <1>2, <1>3, <1>4

\* A member of a call names a slot and a number of tokens.
LEMMA MembersTyped ==
    ASSUME WorkerTyped, NEW k \in 1 .. Len(inputs)
    PROVE  inputs[k] \in [slot : Slots, count : Nat] /\ inputs[k].slot \in Slots /\ inputs[k].count \in Nat
<1>1. inputs \in Seq([slot : Slots, count : Nat])
  BY DEF WorkerTyped
<1>2. inputs[k] \in [slot : Slots, count : Nat]
  <2> DEFINE S == [slot : Slots, count : Nat]
  <2>1. inputs \in Seq(S)
    BY <1>1
  <2> HIDE DEF S
  <2>2. inputs[k] \in S
    BY <2>1
  <2> QED
    BY <2>2 DEF S
<1> QED
  BY <1>2

----------------------------------------------------------------------------
(* The start, and the steps that only move the worker.                     *)

\* The front end and its worker at the start.
LEMMA WorkerInitInv == Init => WorkerInv
<1> SUFFICES ASSUME Init
             PROVE  WorkerInv
  OBVIOUS
<1>1. 0 \in Slots /\ Residents \in Nat \ {0} /\ TokenBudget \in Nat \ {0}
  BY WorkerAssumption DEF Slots
<1>2. WorkerTyped
  <2>1. closed \in BOOLEAN /\ stop \in BOOLEAN /\ healthy \in BOOLEAN /\ finished \in BOOLEAN
    BY Zenon DEF Init
  <2>2. active \in [{IdOf[j] : j \in Jobs} -> Jobs \cup {None}]
    BY DEF Init
  <2>3. out \in [Jobs -> Seq(Items)] /\ got \in [Jobs -> Seq(Items)] /\ queue \in Seq(Jobs)
        /\ inputs \in Seq([slot : Slots, count : Nat])
    BY DEF Init
  <2>4. slots \in [Slots -> Running \cup {None}] /\ owner \in [Slots -> Jobs \cup {None}]
    BY DEF Init
  <2>5. at \in 0 .. Residents /\ cursor \in Slots /\ start \in Slots /\ tokens \in 0 .. TokenBudget
    BY <1>1 DEF Init
  <2>6. /\ client \in [Jobs -> {"new", "checked", "open", "gone", "refused"}]
        /\ ended \in [Jobs -> {"no", "final", "err", "silent"}]
        /\ pc \in Places /\ result \in {"ok", "err"} /\ cancel \in SUBSET Jobs
    BY DEF Init, Places
  <2> QED
    BY <2>1, <2>2, <2>3, <2>4, <2>5, <2>6 DEF WorkerTyped
<1>3. Control
  BY <1>1, WorkerAssumption DEF Init, Control, Calling
<1>4. Members
  BY DEF Init, Members
<1>5. Held /\ OnePlace /\ \A i \in Slots : Served(i)
  BY DEF Init, Held, OnePlace, Served, Published, Queued, Resident
<1>6. ASSUME NEW j \in Jobs
      PROVE  Lives(j)
  BY DEF Init, Lives, Last, Queued, Resident
<1>7. Tracks
  BY WorkerAssumption DEF Init, Tracks, Named, Queued
<1>8. Ending
  BY DEF Init, Ending
<1> QED
  BY <1>2, <1>3, <1>4, <1>5, <1>6, <1>7, <1>8 DEF WorkerInv

\* Steps that only move the worker on, or out of its loop.
LEMMA Moves ==
    ASSUME WorkerInv,
           queue' = queue, closed' = closed, active' = active, cancel' = cancel, out' = out,
           client' = client, got' = got, slots' = slots, owner' = owner, ended' = ended,
           pc \notin {"publish", "close", "closing", "exit", "done"}, pc = "complete" => pc' = "close",
           pc' \notin {"complete", "publish", "closing", "exit", "done"},
           result' \in {result, "err"}, WorkerTyped', Control', Members'
    PROVE  WorkerInv'
<1>1. /\ Held /\ OnePlace /\ Ending /\ (~closed => Tracks) /\ WorkerTyped
      /\ \A j \in Jobs : Lives(j)
      /\ \A i \in Slots : Served(i)
  BY DEF WorkerInv
<1>2. \A i : ~Published(i) /\ ~Published(i)'
  BY DEF Published
<1>3. \A j : (Queued(j)' <=> Queued(j)) /\ (Resident(j)' <=> Resident(j)) /\ (Named(j)' <=> Named(j))
  BY <1>2 DEF Queued, Resident, Named
<1>4. Held'
  BY <1>1, <1>2 DEF Held
<1>5. OnePlace'
  BY <1>1, <1>3 DEF OnePlace
<1>6. ASSUME NEW j \in Jobs
      PROVE  Lives(j)'
  BY <1>1, <1>3 DEF Lives, Last
<1>7. ASSUME NEW i \in Slots
      PROVE  Served(i)'
  BY <1>1 DEF Served
<1>8. ~closed' => Tracks'
  BY <1>1, <1>3 DEF Tracks
<1>9. Ending'
  BY <1>1 DEF Ending
<1> QED
  BY <1>4, <1>5, <1>6, <1>7, <1>8, <1>9 DEF WorkerInv

\* Locals that may be given up at any point: a round that ends.
LEMMA RoundsEnd ==
    ASSUME WorkerTyped, NEW next \in Places \ (Calling \cup {"round", "scan"}), EndRound(next),
           cursor' \in Slots, result' \in {"ok", "err"},
           queue' = queue, closed' = closed, active' = active, cancel' = cancel, out' = out,
           stop' = stop, healthy' = healthy, finished' = finished,
           client' = client, got' = got, slots' = slots, owner' = owner, ended' = ended
    PROVE  WorkerTyped' /\ Control' /\ Members'
<1>1. pc' = next /\ at' = 0 /\ start' = 0 /\ tokens' = 0 /\ inputs' = << >>
  BY DEF EndRound
<1>2. 0 \in Slots /\ 0 \in 0 .. Residents /\ 0 \in 0 .. TokenBudget /\ BatchCapacity \in Nat
  BY WorkerAssumption DEF Slots
<1>3. WorkerTyped'
  BY <1>1, <1>2 DEF WorkerTyped
<1>4. Control'
  BY <1>1, <1>2 DEF Control, Calling
<1>5. Members'
  BY <1>1 DEF Members
<1> QED
  BY <1>3, <1>4, <1>5

\* A failed call ends the round and the loop.
LEMMA LoopsFail ==
    ASSUME WorkerInv, FailLoop, pc \notin {"publish", "close", "closing", "exit", "done"},
           queue' = queue, closed' = closed, active' = active, cancel' = cancel, out' = out,
           stop' = stop, healthy' = healthy, finished' = finished,
           client' = client, got' = got, slots' = slots, owner' = owner, ended' = ended
    PROVE  WorkerInv'
<1>1. WorkerTyped
  BY DEF WorkerInv
<1>2. EndRound("close") /\ result' = "err" /\ cursor' = cursor
  BY DEF FailLoop
<1>3. "close" \in Places \ (Calling \cup {"round", "scan"}) /\ cursor' \in Slots /\ pc' = "close"
  BY <1>1, <1>2 DEF Places, Calling, WorkerTyped, EndRound
<1>4. WorkerTyped' /\ Control' /\ Members'
  BY <1>1, <1>2, <1>3, RoundsEnd
<1> QED
  BY <1>2, <1>3, <1>4, Moves

\* The scan goes on to a slot of its range or to the round of its kind.
LEMMA ScansGoOn ==
    ASSUME WorkerTyped, Control, pc = "scan", NEW occupied, ScanOn(occupied)
    PROVE  /\ pc' \in {"scan", "collect", "round", "top"} /\ at' \in 0 .. Residents
           /\ cursor' \in Slots /\ start' \in Slots /\ tokens' \in 0 .. TokenBudget
           /\ inputs' = << >> /\ (BatchCapacity > 0 => tokens' <= BatchCapacity)
           /\ pc' = "collect" => BatchCapacity > 0
           /\ pc' = "round" => BatchCapacity = 0
           /\ pc' = "scan" => at' < Residents
<1>1. /\ 0 \in Slots /\ 0 \in 0 .. Residents /\ 0 \in 0 .. TokenBudget
      /\ BatchCapacity \in Nat /\ Residents \in Nat \ {0}
  BY WorkerAssumption DEF Slots
<1>2. /\ at \in 0 .. Residents /\ at < Residents /\ inputs = << >>
      /\ cursor \in Slots /\ start \in Slots /\ tokens \in 0 .. TokenBudget
      /\ BatchCapacity > 0 => tokens <= BatchCapacity
  BY DEF WorkerTyped, Control, Calling
<1>3. CASE at < Residents - 1
  BY <1>1, <1>2, <1>3 DEF ScanOn, round
<1>4. CASE ~(at < Residents - 1) /\ \A i \in Slots : occupied[i] = None
  BY <1>1, <1>2, <1>4 DEF ScanOn, EndRound
<1>5. CASE ~(at < Residents - 1) /\ ~(\A i \in Slots : occupied[i] = None)
  BY <1>1, <1>2, <1>5 DEF ScanOn
<1> QED
  BY <1>3, <1>4, <1>5

\* The loop's head looks at the stop flag only.
LEMMA TopInv ==
    ASSUME WorkerInv, Top
    PROVE  WorkerInv'
<1>1. WorkerTyped /\ Control /\ Members
  BY DEF WorkerInv
<1>2. /\ pc = "top" /\ pc' \in {"close", "scan"} /\ (pc' = "scan" => at' = 0) /\ (at' = at \/ at' = 0)
      /\ cursor' = cursor /\ start' = start /\ tokens' = tokens /\ inputs' = inputs /\ result' = result
      /\ queue' = queue /\ closed' = closed /\ active' = active /\ cancel' = cancel /\ out' = out
      /\ stop' = stop /\ healthy' = healthy /\ finished' = finished
      /\ client' = client /\ got' = got /\ slots' = slots /\ owner' = owner /\ ended' = ended
  BY DEF Top, shared, clients, round
<1>3. inputs = << >>
  BY <1>1, <1>2 DEF Control, Calling
<1>4. 0 \in 0 .. Residents /\ 0 < Residents
  BY WorkerAssumption
<1>5. WorkerTyped'
  BY <1>1, <1>2, <1>4 DEF WorkerTyped, Places
<1>6. Control'
  BY <1>1, <1>2, <1>3, <1>4 DEF Control, Calling
<1>7. Members'
  BY <1>2, <1>3 DEF Members
<1> QED
  BY <1>2, <1>5, <1>6, <1>7, Moves

\* The scan passes a slot.
LEMMA ScanNextInv ==
    ASSUME WorkerInv, ScanNext
    PROVE  WorkerInv'
<1>1. WorkerTyped /\ Control /\ Members
  BY DEF WorkerInv
<1>2. /\ pc = "scan" /\ ScanOn(slots) /\ result' = result
      /\ queue' = queue /\ closed' = closed /\ active' = active /\ cancel' = cancel /\ out' = out
      /\ stop' = stop /\ healthy' = healthy /\ finished' = finished
      /\ client' = client /\ got' = got /\ slots' = slots /\ owner' = owner /\ ended' = ended
  BY DEF ScanNext, shared, clients
<1>3. /\ pc' \in {"scan", "collect", "round", "top"} /\ at' \in 0 .. Residents
      /\ cursor' \in Slots /\ start' \in Slots /\ tokens' \in 0 .. TokenBudget
      /\ inputs' = << >> /\ (BatchCapacity > 0 => tokens' <= BatchCapacity)
      /\ pc' = "collect" => BatchCapacity > 0
      /\ pc' = "round" => BatchCapacity = 0
      /\ pc' = "scan" => at' < Residents
  BY <1>1, <1>2, ScansGoOn
<1>4. WorkerTyped'
  BY <1>1, <1>2, <1>3 DEF WorkerTyped, Places
<1>5. Control'
  BY <1>3 DEF Control, Calling
<1>6. Members'
  BY <1>3 DEF Members
<1> QED
  BY <1>2, <1>3, <1>4, <1>5, <1>6, Moves

\* A round ends, or gives way to a member that does not fit.
LEMMA RoundEndInv ==
    ASSUME WorkerInv, RoundEnd \/ RoundDefer
    PROVE  WorkerInv'
<1>1. WorkerTyped
  BY DEF WorkerInv
<1>2. /\ pc = "round" /\ EndRound("top") /\ result' = result
      /\ queue' = queue /\ closed' = closed /\ active' = active /\ cancel' = cancel /\ out' = out
      /\ stop' = stop /\ healthy' = healthy /\ finished' = finished
      /\ client' = client /\ got' = got /\ slots' = slots /\ owner' = owner /\ ended' = ended
  BY DEF RoundEnd, RoundDefer, InRound, shared, clients
<1>3. cursor' \in Slots
  <2>1. CASE RoundEnd
    BY <1>1, <2>1 DEF RoundEnd, WorkerTyped
  <2>2. CASE RoundDefer
    <3>1. start \in Slots /\ at \in 0 .. Residents - 1 /\ cursor' = Index
      BY <1>1, <2>2, WorkerAssumption DEF RoundDefer, InRound, WorkerTyped
    <3> QED
      BY <3>1, SlotsInTurn
  <2> QED
    BY <2>1, <2>2
<1>4. "top" \in Places \ (Calling \cup {"round", "scan"}) /\ pc' = "top" /\ result' \in {"ok", "err"}
  BY <1>1, <1>2 DEF Places, Calling, EndRound, WorkerTyped
<1>5. WorkerTyped' /\ Control' /\ Members'
  BY <1>1, <1>2, <1>3, <1>4, RoundsEnd
<1> QED
  BY <1>2, <1>4, <1>5, Moves

\* A round passes an empty slot, or a resident whose client does not read.
LEMMA RoundSkipInv ==
    ASSUME WorkerInv, RoundSkip
    PROVE  WorkerInv'
<1>1. WorkerTyped /\ Control /\ Members
  BY DEF WorkerInv
<1>2. /\ pc = "round" /\ pc' = pc /\ at < Residents /\ at' = at + 1
      /\ cursor' = cursor /\ start' = start /\ tokens' = tokens /\ inputs' = inputs /\ result' = result
      /\ queue' = queue /\ closed' = closed /\ active' = active /\ cancel' = cancel /\ out' = out
      /\ stop' = stop /\ healthy' = healthy /\ finished' = finished
      /\ client' = client /\ got' = got /\ slots' = slots /\ owner' = owner /\ ended' = ended
  BY DEF RoundSkip, InRound, shared, clients, round
<1>3. inputs = << >>
  BY <1>1, <1>2 DEF Control, Calling
<1>4. at' \in 0 .. Residents
  BY <1>1, <1>2, WorkerAssumption DEF WorkerTyped
<1>5. WorkerTyped'
  BY <1>1, <1>2, <1>4 DEF WorkerTyped
<1>6. Control'
  BY <1>1, <1>2, <1>3 DEF Control, Calling
<1>7. Members'
  BY <1>2, <1>3 DEF Members
<1> QED
  BY <1>2, <1>5, <1>6, <1>7, Moves

\* The serial call is of one resident, within what the budget has left.
LEMMA RoundCallInv ==
    ASSUME WorkerInv, RoundCall
    PROVE  WorkerInv'
<1> DEFINE i == Index
           count == Quantum(slots[Index], TokenBudget - tokens)
<1>1. WorkerTyped /\ Control /\ Members
  BY DEF WorkerInv
<1>2. /\ pc = "round" /\ tokens # TokenBudget /\ at < Residents /\ Eligible(i)
      /\ queue' = queue /\ closed' = closed /\ active' = active /\ cancel' = cancel /\ out' = out
      /\ stop' = stop /\ healthy' = healthy /\ finished' = finished
      /\ client' = client /\ got' = got /\ slots' = slots /\ owner' = owner /\ ended' = ended
  BY DEF RoundCall, InRound, shared, clients
<1>3. /\ at \in 0 .. Residents - 1 /\ start \in Slots /\ tokens \in 0 .. TokenBudget
      /\ TokenBudget - tokens \in Nat \ {0} /\ TokenBudget \in Nat
  BY <1>1, <1>2, WorkerAssumption DEF WorkerTyped
<1>4. i \in Slots /\ (i + 1) % Residents \in Slots
  BY <1>3, SlotsInTurn
<1>5. slots[i] \in Running /\ slots[i] # None /\ Len(out[slots[i].job]) < OutCap
  BY <1>1, <1>2, <1>4 DEF WorkerTyped, Eligible
<1>6. count \in 1 .. TokenBudget - tokens /\ Within(slots[i], count)
  BY <1>3, <1>5, QuantumFits
<1>7. CASE /\ inputs' = <<[slot |-> i, count |-> count]>> /\ tokens' = tokens + count
           /\ cursor' = (i + 1) % Residents /\ pc' = "native"
           /\ at' = at /\ start' = start /\ result' = result
  <2> HIDE DEF i, count
  <2>1. tokens' \in 0 .. TokenBudget /\ count \in Nat
    BY <1>3, <1>6, <1>7
  <2>2. /\ inputs' \in Seq([slot : Slots, count : Nat]) /\ inputs' # << >> /\ Len(inputs') = 1
        /\ inputs'[1].slot = i /\ inputs'[1].count = count
    BY <1>4, <1>7, <2>1
  <2>3. WorkerTyped'
    BY <1>1, <1>2, <1>4, <1>7, <2>1, <2>2 DEF WorkerTyped, Places
  <2>4. BatchCapacity = 0
    BY <1>1, <1>2 DEF Control
  <2>5. Control'
    BY <1>2, <1>7, <2>2, <2>4 DEF Control, Calling
  <2>6. Member(1)'
    BY <1>2, <1>5, <1>6, <1>7, <2>2 DEF Member, Within
  <2>7. Members'
    <3>1. \A k \in 1 .. Len(inputs') : k = 1
      BY <2>2
    <3> QED
      BY <2>6, <3>1 DEF Members
  <2> QED
    BY <1>2, <1>7, <2>3, <2>5, <2>7, Moves
<1>8. CASE FailLoop
  BY <1>2, <1>8, LoopsFail
<1> QED
  BY <1>7, <1>8 DEF RoundCall

\* The call returns to its first member, or ends the loop.
LEMMA NativeReturnsInv ==
    ASSUME WorkerInv, NativeReturns
    PROVE  WorkerInv'
<1>1. WorkerTyped /\ Control /\ Members
  BY DEF WorkerInv
<1>2. /\ pc = "native"
      /\ queue' = queue /\ closed' = closed /\ active' = active /\ cancel' = cancel /\ out' = out
      /\ stop' = stop /\ healthy' = healthy /\ finished' = finished
      /\ client' = client /\ got' = got /\ slots' = slots /\ owner' = owner /\ ended' = ended
  BY DEF NativeReturns, shared, clients
<1>3. CASE pc' = "finish" /\ UNCHANGED <<at, round, result>>
  <2>1. /\ pc' = "finish" /\ at' = at /\ result' = result
        /\ cursor' = cursor /\ start' = start /\ tokens' = tokens /\ inputs' = inputs
    BY <1>3 DEF round
  <2>2. WorkerTyped'
    BY <1>1, <1>2, <2>1 DEF WorkerTyped, Places
  <2>3. Control'
    BY <1>1, <1>2, <2>1 DEF Control, Calling
  <2>4. Members'
    BY <1>1, <1>2, <2>1 DEF Members, Member
  <2> QED
    BY <1>2, <2>1, <2>2, <2>3, <2>4, Moves
<1>4. CASE FailLoop
  BY <1>2, <1>4, LoopsFail
<1> QED
  BY <1>3, <1>4 DEF NativeReturns

\* A batch is complete, or nobody was eligible.
LEMMA CollectedInv ==
    ASSUME WorkerInv, Collected
    PROVE  WorkerInv'
<1>1. WorkerTyped /\ Control /\ Members
  BY DEF WorkerInv
<1>2. /\ pc = "collect" /\ result' = result /\ BatchCapacity > 0
      /\ queue' = queue /\ closed' = closed /\ active' = active /\ cancel' = cancel /\ out' = out
      /\ stop' = stop /\ healthy' = healthy /\ finished' = finished
      /\ client' = client /\ got' = got /\ slots' = slots /\ owner' = owner /\ ended' = ended
  BY <1>1 DEF Collected, Control, shared, clients
<1>3. CASE inputs = << >>
  <2>1. EndRound("top") /\ cursor' = cursor
    BY <1>3 DEF Collected
  <2>2. "top" \in Places \ (Calling \cup {"round", "scan"}) /\ pc' = "top" /\ cursor' \in Slots
        /\ result' \in {"ok", "err"}
    BY <1>1, <1>2, <2>1 DEF Places, Calling, EndRound, WorkerTyped
  <2>3. WorkerTyped' /\ Control' /\ Members'
    BY <1>1, <1>2, <2>1, <2>2, RoundsEnd
  <2> QED
    BY <1>2, <2>2, <2>3, Moves
<1>4. CASE inputs # << >>
  <2>1. /\ pc' = "native" /\ at' = at
        /\ cursor' = cursor /\ start' = start /\ tokens' = tokens /\ inputs' = inputs
    BY <1>4 DEF Collected, round
  <2>2. WorkerTyped'
    BY <1>1, <1>2, <2>1 DEF WorkerTyped, Places
  <2>3. Control'
    BY <1>1, <1>2, <1>4, <2>1, WorkerAssumption DEF Control, Calling
  <2>4. Members'
    BY <1>1, <1>2, <2>1 DEF Members, Member
  <2> QED
    BY <1>2, <2>1, <2>2, <2>3, <2>4, Moves
<1> QED
  BY <1>3, <1>4

\* A slot after the ones already visited is no member yet.
LEMMA CollectInv ==
    ASSUME WorkerInv, Collect
    PROVE  WorkerInv'
<1> DEFINE i == Index
           count == Quantum(slots[Index], Budget)
           n == Len(inputs)
           member == [slot |-> i, count |-> count]
<1>1. WorkerTyped /\ Control /\ Members
  BY DEF WorkerInv
<1>2. /\ pc = "collect" /\ pc' = pc /\ result' = result /\ start' = start /\ at < Residents
      /\ queue' = queue /\ closed' = closed /\ active' = active /\ cancel' = cancel /\ out' = out
      /\ stop' = stop /\ healthy' = healthy /\ finished' = finished
      /\ client' = client /\ got' = got /\ slots' = slots /\ owner' = owner /\ ended' = ended
  BY DEF Collect, shared, clients
<1>3. /\ at \in 0 .. Residents - 1 /\ start \in Slots /\ tokens \in 0 .. TokenBudget
      /\ BatchCapacity > 0 /\ tokens <= BatchCapacity /\ BatchCapacity \in Nat
      /\ TokenBudget \in Nat \ {0} /\ Residents \in Nat \ {0} /\ n \in Nat
  BY <1>1, <1>2, WorkerAssumption DEF WorkerTyped, Control
<1>4. /\ i \in Slots /\ (i + 1) % Residents \in Slots
      /\ \A o \in 0 .. at - 1 : (start + o) % Residents # i
  BY <1>3, SlotsInTurn
<1>5. at' \in 0 .. Residents /\ at < at' /\ \A o \in 0 .. at - 1 : o \in 0 .. at' - 1
  <2>1. at' = at + 1 \/ at' = Residents
    BY DEF Collect
  <2> QED
    BY <1>3, <2>1
<1>6. CASE inputs' = inputs /\ tokens' = tokens /\ cursor' \in Slots
  <2>1. WorkerTyped'
    BY <1>1, <1>2, <1>5, <1>6 DEF WorkerTyped
  <2>2. Control'
    BY <1>1, <1>2, <1>3, <1>6 DEF Control, Calling
  <2>3. Members'
    BY <1>1, <1>2, <1>5, <1>6 DEF Members, Member
  <2> QED
    BY <1>2, <2>1, <2>2, <2>3, Moves
<1>7. CASE /\ Eligible(i) /\ ~(count > Budget - tokens) /\ inputs' = Append(inputs, member)
           /\ tokens' = tokens + count /\ cursor' = (i + 1) % Residents /\ at' = at + 1
  <2>1. slots[i] \in Running /\ slots[i] # None /\ Len(out[slots[i].job]) < OutCap
    BY <1>1, <1>4, <1>7 DEF WorkerTyped, Eligible
  <2>2. /\ Budget = (IF TokenBudget <= BatchCapacity THEN TokenBudget ELSE BatchCapacity)
        /\ Budget \in Nat \ {0}
    BY <1>3, MinOfTwo DEF Budget
  <2>3. count \in 1 .. Budget /\ Within(slots[i], count)
    BY <2>1, <2>2, QuantumFits
  <2> DEFINE b == Budget
  <2> HIDE DEF i, count, b
  <2>4. b \in Nat \ {0} /\ b <= TokenBudget /\ b <= BatchCapacity /\ count \in 1 .. b /\ count <= b - tokens
    <3>1. b = IF TokenBudget <= BatchCapacity THEN TokenBudget ELSE BatchCapacity
      BY <2>2 DEF b
    <3>2. b \in Nat \ {0} /\ count \in 1 .. b /\ ~(count > b - tokens)
      BY <1>7, <2>2, <2>3 DEF b
    <3> QED
      BY <1>3, <3>1, <3>2
  <2>5. count \in Nat /\ tokens' \in 0 .. TokenBudget /\ tokens' <= BatchCapacity
    BY <1>3, <1>7, <2>4
  <2>6. member \in [slot : Slots, count : Nat] /\ member.slot = i /\ member.count = count
    BY <1>4, <2>5
  <2> HIDE DEF member
  <2>7. /\ inputs' \in Seq([slot : Slots, count : Nat]) /\ Len(inputs') = n + 1
        /\ \A k \in 1 .. n : inputs'[k] = inputs[k]
        /\ inputs'[n + 1] = member
    BY <1>1, <1>7, <2>6 DEF WorkerTyped
  <2>8. WorkerTyped'
    BY <1>1, <1>2, <1>4, <1>5, <1>7, <2>5, <2>7 DEF WorkerTyped
  <2>9. Control'
    BY <1>2, <1>3, <2>5 DEF Control, Calling
  <2>10. \A k \in 1 .. n : Member(k) /\ inputs[k].slot # i
    <3> SUFFICES ASSUME NEW k \in 1 .. n
                 PROVE  Member(k) /\ inputs[k].slot # i
      OBVIOUS
    <3>1. Member(k)
      BY <1>1 DEF Members
    <3>2. PICK o \in 0 .. at - 1 : inputs[k].slot = (start + o) % Residents
      BY <1>2, <3>1 DEF Member
    <3> QED
      BY <1>4, <3>1, <3>2
  <2>11. \A k \in 1 .. Len(inputs') : k \in 1 .. n \/ k = n + 1
    <3> HIDE DEF n
    <3> QED
      BY <1>3, <2>7
  <2>12. \A k \in 1 .. n : Member(k)'
    BY <1>2, <1>5, <2>7, <2>10 DEF Member
  <2>13. ASSUME NEW k \in 1 .. Len(inputs'), k = n + 1
         PROVE  Member(k)'
    <3>1. \E o \in 0 .. at' - 1 : i = (start' + o) % Residents
      <4>1. at \in 0 .. at' - 1
        BY <1>3, <1>7
      <4>2. i = (start' + at) % Residents
        BY <1>2 DEF i, Index
      <4> QED
        BY <4>1, <4>2
    <3> QED
      BY <1>2, <2>1, <2>3, <2>6, <2>7, <2>13, <3>1 DEF Member, Within
  <2>14. Members'
    <3>1. \A k, l \in 1 .. n : k # l => inputs[k].slot # inputs[l].slot
      BY <1>1 DEF Members
    <3>2. \A k, l \in 1 .. Len(inputs') : k # l => inputs'[k].slot # inputs'[l].slot
      BY <2>6, <2>7, <2>10, <2>11, <3>1
    <3> QED
      BY <2>11, <2>12, <2>13, <3>2 DEF Members
  <2> QED
    BY <1>2, <2>8, <2>9, <2>14, Moves
<1> QED
  <2>1. cursor \in Slots
    BY <1>1 DEF WorkerTyped
  <2>2. CASE ~Eligible(i)
    BY <1>6, <2>1, <2>2 DEF Collect
  <2>3. CASE Eligible(i) /\ count > Budget - tokens
    BY <1>4, <1>6, <2>3 DEF Collect
  <2>4. CASE Eligible(i) /\ ~(count > Budget - tokens)
    BY <1>7, <2>4 DEF Collect
  <2> QED
    BY <2>2, <2>3, <2>4

----------------------------------------------------------------------------
(* The clients.                                                            *)

\* Clients leave the worker its work: they take responses, and set flags.
LEMMA ClientsMove ==
    ASSUME WorkerInv, UNCHANGED worker, queue' = queue, closed' = closed, active' = active,
           cancel \subseteq cancel', WorkerTyped', \A j \in Jobs : Lives(j)',
           \A j \in Jobs : client'[j] = "open" =>
              /\ client[j] = "open"
              /\ Len(out[j]) < OutCap => Len(out'[j]) < OutCap
              /\ Len(got'[j]) + Len(out'[j]) = Len(got[j]) + Len(out[j])
    PROVE  WorkerInv'
<1>1. /\ slots' = slots /\ owner' = owner /\ pc' = pc /\ at' = at /\ start' = start
      /\ tokens' = tokens /\ inputs' = inputs /\ result' = result /\ ended' = ended
  BY DEF worker, round
<1>2. /\ WorkerTyped /\ Control /\ Members /\ Held /\ OnePlace /\ Ending /\ (~closed => Tracks)
      /\ \A i \in Slots : Served(i)
  BY DEF WorkerInv
<1>3. Control'
  BY <1>1, <1>2 DEF Control
<1>4. ASSUME NEW i \in Slots, slots[i] # None
      PROVE  slots[i].job \in Jobs
  BY <1>2, <1>4 DEF WorkerTyped, Running
<1>5. Members'
  <2>1. ASSUME NEW k \in 1 .. Len(inputs)
        PROVE  Member(k)'
    <3>1. inputs[k].slot \in Slots /\ Member(k)
      BY <1>2, <2>1, MembersTyped DEF Members
    <3>2. slots[inputs[k].slot] # None /\ slots[inputs[k].slot].job \in Jobs
      BY <1>4, <3>1 DEF Member
    <3> QED
      BY <1>1, <3>1, <3>2 DEF Member, Within
  <2> QED
    BY <1>1, <1>2, <2>1 DEF Members
<1>6. Held'
  BY <1>1, <1>2 DEF Held, Published
<1>7. OnePlace'
  BY <1>1, <1>2 DEF OnePlace, Queued, Resident
<1>8. ASSUME NEW i \in Slots
      PROVE  Served(i)'
  BY <1>1, <1>2, <1>4 DEF Served
<1>9. ~closed' => Tracks'
  BY <1>1, <1>2 DEF Tracks, Named, Queued, Published
<1>10. Ending'
  BY <1>1, <1>2 DEF Ending
<1> QED
  BY <1>3, <1>5, <1>6, <1>7, <1>8, <1>9, <1>10 DEF WorkerInv

\* generate reads the health flag before it takes the lock.
LEMMA CheckHealthInv ==
    ASSUME WorkerInv, NEW j \in Jobs, CheckHealth(j)
    PROVE  WorkerInv'
<1>1. /\ UNCHANGED worker /\ slots' = slots /\ owner' = owner /\ pc' = pc /\ at' = at /\ start' = start
      /\ cursor' = cursor /\ tokens' = tokens /\ inputs' = inputs /\ result' = result /\ ended' = ended
      /\ queue' = queue /\ closed' = closed /\ active' = active /\ cancel' = cancel /\ out' = out
      /\ stop' = stop /\ healthy' = healthy /\ finished' = finished /\ got' = got
  BY DEF CheckHealth, worker, round, shared
<1>2. WorkerTyped /\ \A q \in Jobs : Lives(q)
  BY DEF WorkerInv
<1>3. /\ client[j] = "new" /\ client'[j] \in {"checked", "refused"}
      /\ \A q \in Jobs : q # j => client'[q] = client[q]
      /\ client' \in [Jobs -> {"new", "checked", "open", "gone", "refused"}]
  BY <1>2 DEF CheckHealth, WorkerTyped
<1>4. WorkerTyped'
  BY <1>1, <1>2, <1>3 DEF WorkerTyped
<1>5. ASSUME NEW q \in Jobs
      PROVE  Lives(q)'
  BY <1>1, <1>2, <1>3 DEF Lives, Last, Queued, Resident
<1>6. \A q \in Jobs : client'[q] = "open" => client[q] = "open"
  BY <1>3
<1> QED
  BY <1>1, <1>4, <1>5, <1>6, ClientsMove

\* Aborts and calls of shutdown only raise flags the worker reads.
LEMMA FlagsInv ==
    ASSUME WorkerInv,
           (\E id \in DOMAIN active : Abort(id)) \/ (\E s \in Shutters : Shutdown(s) \/ ShutdownLock(s) \/ ShutdownReturn(s))
    PROVE  WorkerInv'
<1>1. /\ UNCHANGED worker /\ slots' = slots /\ owner' = owner /\ pc' = pc /\ at' = at /\ start' = start
      /\ cursor' = cursor /\ tokens' = tokens /\ inputs' = inputs /\ result' = result /\ ended' = ended
      /\ queue' = queue /\ closed' = closed /\ active' = active /\ out' = out
      /\ (stop' = stop \/ stop' = TRUE) /\ healthy' = healthy /\ finished' = finished
      /\ client' = client /\ got' = got
  BY DEF Abort, Shutdown, ShutdownLock, ShutdownReturn, worker, round, shared, clients
<1>2. WorkerTyped /\ \A q \in Jobs : Lives(q)
  BY DEF WorkerInv
<1>3. cancel \subseteq cancel' /\ cancel' \subseteq Jobs
  <2>1. ASSUME NEW id \in DOMAIN active, Abort(id)
        PROVE  cancel \subseteq cancel' /\ cancel' \subseteq Jobs
    <3>1. active[id] \in Jobs
      BY <1>2, <2>1 DEF Abort, WorkerTyped
    <3> QED
      BY <1>2, <2>1, <3>1 DEF Abort, WorkerTyped
  <2>2. ASSUME NEW s \in Shutters, Shutdown(s) \/ ShutdownLock(s) \/ ShutdownReturn(s)
        PROVE  cancel' = cancel
    BY <2>2 DEF Shutdown, ShutdownLock, ShutdownReturn, shared
  <2> QED
    BY <1>2, <2>1, <2>2 DEF WorkerTyped
<1>4. WorkerTyped'
  BY <1>1, <1>2, <1>3 DEF WorkerTyped
<1>5. ASSUME NEW q \in Jobs
      PROVE  Lives(q)'
  BY <1>1, <1>2, <1>3 DEF Lives, Last, Queued, Resident
<1> QED
  BY <1>1, <1>3, <1>4, <1>5, ClientsMove

\* A client that goes away cancels its request and drops its channel.
LEMMA DisconnectInv ==
    ASSUME WorkerInv, NEW j \in Jobs, Disconnect(j)
    PROVE  WorkerInv'
<1>1. /\ UNCHANGED worker /\ slots' = slots /\ owner' = owner /\ pc' = pc /\ at' = at /\ start' = start
      /\ cursor' = cursor /\ tokens' = tokens /\ inputs' = inputs /\ result' = result /\ ended' = ended
      /\ queue' = queue /\ closed' = closed /\ active' = active /\ cancel' = cancel \cup {j}
      /\ stop' = stop /\ healthy' = healthy /\ finished' = finished
  BY DEF Disconnect, worker, round
<1>2. WorkerTyped /\ \A q \in Jobs : Lives(q)
  BY DEF WorkerInv
<1>3. /\ client[j] = "open" /\ client'[j] = "gone" /\ out'[j] = << >> /\ got'[j] = << >>
      /\ \A q \in Jobs : q # j => client'[q] = client[q] /\ out'[q] = out[q] /\ got'[q] = got[q]
      /\ client' \in [Jobs -> {"new", "checked", "open", "gone", "refused"}]
      /\ out' \in [Jobs -> Seq(Items)] /\ got' \in [Jobs -> Seq(Items)]
  BY <1>2 DEF Disconnect, WorkerTyped
<1>4. WorkerTyped'
  BY <1>1, <1>2, <1>3 DEF WorkerTyped
<1>5. ASSUME NEW q \in Jobs
      PROVE  Lives(q)'
  BY <1>1, <1>2, <1>3 DEF Lives, Last, Queued, Resident
<1>6. \A q \in Jobs : client'[q] = "open" => client[q] = "open" /\ out'[q] = out[q] /\ got'[q] = got[q]
  BY <1>3
<1> QED
  BY <1>1, <1>4, <1>5, <1>6, ClientsMove

\* A response moves from the channel to the client, the last one last.
LEMMA ReceiveInv ==
    ASSUME WorkerInv, NEW j \in Jobs, Receive(j)
    PROVE  WorkerInv'
<1> DEFINE g == got[j]
           o == out[j]
<1>1. /\ UNCHANGED worker /\ slots' = slots /\ owner' = owner /\ pc' = pc /\ at' = at /\ start' = start
      /\ cursor' = cursor /\ tokens' = tokens /\ inputs' = inputs /\ result' = result /\ ended' = ended
      /\ queue' = queue /\ closed' = closed /\ active' = active /\ cancel' = cancel
      /\ stop' = stop /\ healthy' = healthy /\ finished' = finished /\ client' = client
  BY DEF Receive, worker, round
<1>2. WorkerTyped /\ \A q \in Jobs : Lives(q)
  BY DEF WorkerInv
<1>3. g \in Seq(Items) /\ o \in Seq(Items) /\ o # << >> /\ client[j] = "open"
  BY <1>2 DEF Receive, WorkerTyped
<1>4. /\ got'[j] = Append(g, Head(o)) /\ out'[j] = Tail(o)
      /\ \A q \in Jobs : q # j => out'[q] = out[q] /\ got'[q] = got[q]
  BY <1>2 DEF Receive, WorkerTyped
<1>5. got' \in [Jobs -> Seq(Items)] /\ out' \in [Jobs -> Seq(Items)]
  <2>1. Append(g, Head(o)) \in Seq(Items) /\ Tail(o) \in Seq(Items)
    BY <1>3
  <2> QED
    BY <1>2, <2>1 DEF Receive, WorkerTyped
<1>6. WorkerTyped'
  BY <1>1, <1>2, <1>5 DEF WorkerTyped
<1>7. /\ Len(o) \in Nat \ {0} /\ Len(g) \in Nat /\ Head(o) = o[1]
      /\ Len(out'[j]) = Len(o) - 1 /\ \A k \in 1 .. Len(out'[j]) : out'[j][k] = o[k + 1]
      /\ Len(got'[j]) = Len(g) + 1 /\ \A k \in 1 .. Len(g) : got'[j][k] = g[k]
      /\ got'[j][Len(g) + 1] = o[1]
  BY <1>3, <1>4
<1>8. Last(j)'
  <2>1. Last(j)
    BY <1>2 DEF Lives
  <2>2. \A k \in 1 .. Len(g) : g[k] = "token"
    BY <1>3, <2>1 DEF Last
  <2>3. ASSUME NEW k \in 1 .. Len(got'[j]), got'[j][k] # "token"
        PROVE  k = Len(got'[j]) /\ out'[j] = << >> /\ ended'[j] = got'[j][k]
    <3>1. k = Len(g) + 1
      <4> DEFINE a == Len(g)
                 b == Len(got'[j])
      <4>1. a \in Nat /\ b = a + 1 /\ k \in 1 .. b /\ k \notin 1 .. a
        BY <1>7, <2>2, <2>3
      <4> HIDE DEF a, b
      <4>2. k = a + 1
        BY <4>1
      <4> QED
        BY <4>2 DEF a
    <3>2. o[1] # "token" /\ got'[j][k] = o[1] /\ k = Len(got'[j])
      BY <1>7, <2>3, <3>1
    <3>3. 1 \in 1 .. Len(o)
      BY <1>7
    <3>4. 1 = Len(o) /\ ended[j] = o[1]
      BY <2>1, <3>2, <3>3 DEF Last
    <3>5. Len(Tail(o)) = 0 /\ Tail(o) \in Seq(Items)
      BY <1>3, <3>4
    <3>6. Tail(o) = << >>
      BY <3>5, NothingLeft
    <3> QED
      BY <1>1, <1>4, <3>2, <3>4, <3>6
  <2>4. ASSUME NEW k \in 1 .. Len(out'[j]), out'[j][k] # "token"
        PROVE  k = Len(out'[j]) /\ ended'[j] = out'[j][k]
    <3> DEFINE a == Len(o)
               b == Len(out'[j])
    <3>1. a \in Nat /\ b = a - 1 /\ k \in 1 .. b
      BY <1>7, <2>4
    <3> HIDE DEF a, b
    <3>2. k + 1 \in 1 .. a /\ (k + 1 = a => k = b)
      BY <3>1
    <3>3. o[k + 1] = out'[j][k] /\ k + 1 \in 1 .. Len(o)
      BY <1>7, <2>4, <3>2 DEF a
    <3>4. k + 1 = Len(o) /\ ended[j] = o[k + 1]
      BY <2>1, <2>4, <3>3 DEF Last
    <3> QED
      BY <1>1, <3>2, <3>3, <3>4 DEF a, b
  <2> QED
    BY <2>3, <2>4 DEF Last
<1>9. ASSUME NEW q \in Jobs
      PROVE  Lives(q)'
  <2>1. CASE q = j
    <3>1. ~Queued(j)
      BY <1>2, <1>3 DEF Lives
    <3> QED
      BY <1>1, <1>2, <1>3, <1>8, <2>1, <3>1 DEF Lives, Queued, Resident
  <2>2. CASE q # j
    BY <1>1, <1>2, <1>4, <2>2 DEF Lives, Last, Queued, Resident
  <2> QED
    BY <2>1, <2>2
<1>10. ASSUME NEW q \in Jobs
       PROVE  /\ Len(out[q]) < OutCap => Len(out'[q]) < OutCap
              /\ Len(got'[q]) + Len(out'[q]) = Len(got[q]) + Len(out[q])
  <2>1. CASE q = j
    <3> DEFINE a == Len(o)
               b == Len(out'[j])
               c == Len(g)
               d == Len(got'[j])
    <3>1. a \in Nat /\ c \in Nat /\ b = a - 1 /\ d = c + 1 /\ OutCap \in Nat
      BY <1>7, WorkerAssumption
    <3> HIDE DEF a, b, c, d
    <3>2. (a < OutCap => b < OutCap) /\ d + b = c + a
      BY <3>1
    <3> QED
      BY <2>1, <3>2 DEF a, b, c, d
  <2>2. CASE q # j
    BY <1>4, <2>2
  <2> QED
    BY <2>1, <2>2
<1> QED
  BY <1>1, <1>6, <1>9, <1>10, ClientsMove

\* A job is queued once, under an id that nobody has.
LEMMA EnqueueInv ==
    ASSUME WorkerInv, NEW j \in Jobs, Enqueue(j)
    PROVE  WorkerInv'
<1>1. /\ UNCHANGED worker /\ slots' = slots /\ owner' = owner /\ pc' = pc /\ at' = at /\ start' = start
      /\ cursor' = cursor /\ tokens' = tokens /\ inputs' = inputs /\ result' = result /\ ended' = ended
      /\ closed' = closed /\ cancel' = cancel /\ out' = out
      /\ stop' = stop /\ healthy' = healthy /\ finished' = finished /\ got' = got
  BY DEF Enqueue, worker, round
<1>2. /\ WorkerTyped /\ Control /\ Members /\ Held /\ OnePlace /\ Ending /\ (~closed => Tracks)
      /\ \A q \in Jobs : Lives(q)
      /\ \A i \in Slots : Served(i)
  BY DEF WorkerInv
<1>3. client[j] = "checked" /\ ~Queued(j) /\ ~Resident(j)
  BY <1>2 DEF Enqueue, Lives
<1>4. CASE client' = [client EXCEPT ![j] = "refused"] /\ queue' = queue /\ active' = active
  <2>1. /\ client'[j] = "refused" /\ \A q \in Jobs : q # j => client'[q] = client[q]
        /\ client' \in [Jobs -> {"new", "checked", "open", "gone", "refused"}]
    BY <1>2, <1>4 DEF WorkerTyped
  <2>2. WorkerTyped'
    BY <1>1, <1>2, <1>4, <2>1 DEF WorkerTyped
  <2>3. ASSUME NEW q \in Jobs
        PROVE  Lives(q)'
    BY <1>1, <1>2, <1>3, <1>4, <2>1 DEF Lives, Last, Queued, Resident
  <2>4. \A q \in Jobs : client'[q] = "open" => client[q] = "open"
    BY <2>1
  <2> QED
    BY <1>1, <1>4, <2>2, <2>3, <2>4, ClientsMove
<1>5. CASE /\ active[IdOf[j]] = None /\ ~closed
           /\ client' = [client EXCEPT ![j] = "open"] /\ queue' = Append(queue, j)
           /\ active' = [active EXCEPT ![IdOf[j]] = j]
  <2> DEFINE n == Len(queue)
  <2>1. /\ client'[j] = "open" /\ \A q \in Jobs : q # j => client'[q] = client[q]
        /\ client' \in [Jobs -> {"new", "checked", "open", "gone", "refused"}]
    BY <1>2, <1>5 DEF WorkerTyped
  <2>2. /\ queue' \in Seq(Jobs) /\ n \in Nat /\ Len(queue') = n + 1
        /\ \A k \in 1 .. n : queue'[k] = queue[k]
        /\ queue'[n + 1] = j
    BY <1>2, <1>5 DEF WorkerTyped
  <2>3. /\ active' \in [{IdOf[q] : q \in Jobs} -> Jobs \cup {None}]
        /\ active'[IdOf[j]] = j /\ \A q \in Jobs : IdOf[q] # IdOf[j] => active'[IdOf[q]] = active[IdOf[q]]
    BY <1>2, <1>5 DEF WorkerTyped
  <2>4. WorkerTyped'
    BY <1>1, <1>2, <2>1, <2>2, <2>3 DEF WorkerTyped
  <2>5. \A k \in 1 .. Len(queue') : k \in 1 .. n \/ k = n + 1
    <3> HIDE DEF n
    <3> QED
      BY <2>2
  <2>6. n + 1 \in 1 .. Len(queue') /\ \A k \in 1 .. n : k \in 1 .. Len(queue')
    <3> HIDE DEF n
    <3> QED
      BY <2>2
  <2>7. \A q \in Jobs : /\ Queued(q)' <=> Queued(q) \/ q = j
                        /\ Resident(q)' <=> Resident(q)
    BY <1>1, <2>2, <2>5, <2>6 DEF Queued, Resident
  <2>8. Control' /\ Held' /\ Ending'
    BY <1>1, <1>2, <1>5 DEF Control, Held, Published, Ending
  <2>9. ASSUME NEW i \in Slots, slots[i] # None
        PROVE  slots[i].job \in Jobs /\ slots[i].job # j
    <3>1. slots[i].job \in Jobs
      BY <1>2, <2>9 DEF WorkerTyped, Running
    <3> QED
      BY <1>3, <2>9, <3>1 DEF Resident
  <2>10. Members'
    <3>1. ASSUME NEW k \in 1 .. Len(inputs)
          PROVE  Member(k)'
      <4>1. inputs[k].slot \in Slots /\ Member(k)
        BY <1>2, <3>1, MembersTyped DEF Members
      <4>2. slots[inputs[k].slot] # None /\ slots[inputs[k].slot].job \in Jobs /\ slots[inputs[k].slot].job # j
        BY <2>9, <4>1 DEF Member
      <4> QED
        BY <1>1, <2>1, <4>1, <4>2 DEF Member, Within
    <3> QED
      BY <1>1, <1>2, <3>1 DEF Members
  <2>11. OnePlace'
    <3>1. \A k \in 1 .. n : queue[k] # j
      BY <1>3 DEF Queued
    <3>2. \A k, l \in 1 .. Len(queue') : queue'[k] = queue'[l] => k = l
      BY <1>2, <2>2, <2>5, <3>1 DEF OnePlace
    <3>3. \A q \in Jobs : ~(Queued(q)' /\ Resident(q)')
      BY <1>2, <1>3, <2>7 DEF OnePlace
    <3> QED
      BY <1>1, <1>2, <3>2, <3>3 DEF OnePlace
  <2>12. ASSUME NEW q \in Jobs
         PROVE  Lives(q)'
    <3>1. Lives(q)
      BY <1>2
    <3>2. CASE q = j
      BY <1>1, <1>3, <2>1, <2>7, <3>1, <3>2 DEF Lives, Last
    <3>3. CASE q # j
      BY <1>1, <2>1, <2>7, <3>1, <3>3 DEF Lives, Last
    <3> QED
      BY <3>2, <3>3
  <2>13. ASSUME NEW i \in Slots
         PROVE  Served(i)'
    BY <1>1, <1>2, <2>1, <2>9 DEF Served
  <2>14. Tracks'
    <3> SUFFICES ASSUME NEW q \in Jobs
                 PROVE  Named(q)' <=> active'[IdOf[q]] = q
      BY DEF Tracks
    <3>1. Named(q)' <=> Named(q) \/ q = j
      BY <1>1, <2>7 DEF Named, Published
    <3>2. Named(q) <=> active[IdOf[q]] = q
      BY <1>2, <1>5 DEF Tracks
    <3>3. CASE IdOf[q] # IdOf[j]
      BY <2>3, <3>1, <3>2, <3>3
    <3>4. CASE IdOf[q] = IdOf[j]
      <4>1. active[IdOf[q]] # q
        BY <1>5, <3>4, WorkerAssumption
      <4> QED
        BY <2>3, <3>1, <3>2, <3>4, <4>1
    <3> QED
      BY <3>3, <3>4
  <2> QED
    BY <2>4, <2>8, <2>10, <2>11, <2>12, <2>13, <2>14 DEF WorkerInv
<1> QED
  BY <1>4, <1>5 DEF Enqueue

----------------------------------------------------------------------------
(* Requests come and go.                                                   *)

\* A resident's record.
LEMMA ResidentTyped ==
    ASSUME WorkerTyped, NEW i \in Slots, slots[i] # None
    PROVE  /\ slots[i] \in Running /\ slots[i].job \in Jobs
           /\ slots[i].position \in Nat /\ slots[i].generated \in Nat /\ slots[i].terminal \in BOOLEAN
BY DEF WorkerTyped, Running

\* While a job lives all its responses are tokens.
LEMMA TokensSoFar ==
    ASSUME WorkerTyped, NEW j \in Jobs, Last(j), ended[j] = "no"
    PROVE  /\ \A k \in 1 .. Len(got[j]) : got[j][k] = "token"
           /\ \A k \in 1 .. Len(out[j]) : out[j][k] = "token"
<1>1. got[j] \in Seq(Items) /\ out[j] \in Seq(Items)
  BY DEF WorkerTyped
<1>2. "no" \notin Items
  BY DEF Items
<1>3. ASSUME NEW k \in 1 .. Len(got[j]), got[j][k] # "token"
      PROVE  FALSE
  BY <1>1, <1>2, <1>3 DEF Last
<1>4. ASSUME NEW k \in 1 .. Len(out[j]), out[j][k] # "token"
      PROVE  FALSE
  BY <1>1, <1>2, <1>4 DEF Last
<1> QED
  BY <1>3, <1>4

\* A slot is given up.
LEMMA SlotEmptied ==
    ASSUME WorkerTyped, OnePlace, NEW i \in Slots, slots[i] # None,
           slots' = [slots EXCEPT ![i] = None], queue' = queue
    PROVE  /\ slots' \in [Slots -> Running \cup {None}] /\ slots'[i] = None
           /\ \A k \in Slots : k # i => slots'[k] = slots[k]
           /\ \A q : Queued(q)' <=> Queued(q)
           /\ \A q : Resident(q)' <=> Resident(q) /\ q # slots[i].job
           /\ Resident(slots[i].job) /\ ~Queued(slots[i].job) /\ OnePlace'
<1>1. /\ slots' \in [Slots -> Running \cup {None}] /\ slots'[i] = None
      /\ \A k \in Slots : k # i => slots'[k] = slots[k]
  BY DEF WorkerTyped
<1>2. \A q : Queued(q)' <=> Queued(q)
  BY DEF Queued
<1>3. \A q : Resident(q)' <=> Resident(q) /\ q # slots[i].job
  BY <1>1 DEF Resident, OnePlace
<1>4. Resident(slots[i].job) /\ slots[i].job \in Jobs
  BY ResidentTyped DEF Resident
<1>5. ~Queued(slots[i].job)
  BY <1>4 DEF OnePlace
<1>6. OnePlace'
  BY <1>1, <1>2, <1>3 DEF OnePlace
<1> QED
  BY <1>1, <1>2, <1>3, <1>4, <1>5, <1>6

\* The first job leaves the queue.
LEMMA HeadLeaves ==
    ASSUME WorkerTyped, OnePlace, queue # << >>, queue' = Tail(queue)
    PROVE  /\ queue' \in Seq(Jobs) /\ Head(queue) \in Jobs
           /\ Queued(Head(queue)) /\ ~Resident(Head(queue))
           /\ \A q : Queued(q)' <=> Queued(q) /\ q # Head(queue)
           /\ \A k, l \in 1 .. Len(queue') : queue'[k] = queue'[l] => k = l
<1> DEFINE n == Len(queue)
           m == Len(queue')
<1>1. /\ queue \in Seq(Jobs) /\ n \in Nat \ {0} /\ Head(queue) = queue[1] /\ Head(queue) \in Jobs
      /\ queue' \in Seq(Jobs) /\ m = n - 1 /\ \A k \in 1 .. m : queue'[k] = queue[k + 1]
  BY DEF WorkerTyped
<1>2. /\ \A k \in 1 .. m : k + 1 \in 1 .. n /\ k + 1 # 1
      /\ \A k \in 1 .. n : k # 1 => k - 1 \in 1 .. m /\ (k - 1) + 1 = k
      /\ 1 \in 1 .. n
      /\ \A k, l \in 1 .. m : k + 1 = l + 1 => k = l
  <2> HIDE DEF n, m
  <2> QED
    BY <1>1
<1>3. Queued(Head(queue)) /\ ~Resident(Head(queue))
  BY <1>1, <1>2 DEF Queued, OnePlace
<1>4. ASSUME NEW q
      PROVE  Queued(q)' <=> Queued(q) /\ q # Head(queue)
  <2>1. ASSUME NEW k \in 1 .. m, queue'[k] = q
        PROVE  Queued(q) /\ q # Head(queue)
    <3>1. k + 1 \in 1 .. n /\ k + 1 # 1 /\ queue[k + 1] = q /\ 1 \in 1 .. n
      BY <1>1, <1>2, <2>1
    <3>2. queue[k + 1] # queue[1]
      BY <3>1 DEF OnePlace
    <3> QED
      BY <1>1, <3>1, <3>2 DEF Queued
  <2>2. ASSUME NEW k \in 1 .. n, queue[k] = q, q # Head(queue)
        PROVE  Queued(q)'
    <3>1. k # 1
      BY <1>1, <2>2
    <3>2. k - 1 \in 1 .. m /\ (k - 1) + 1 = k
      BY <1>2, <3>1
    <3>3. queue'[k - 1] = queue[(k - 1) + 1]
      BY <1>1, <3>2
    <3> QED
      BY <2>2, <3>2, <3>3 DEF Queued
  <2> QED
    BY <2>1, <2>2 DEF Queued
<1>5. \A k, l \in 1 .. m : queue'[k] = queue'[l] => k = l
  <2> SUFFICES ASSUME NEW k \in 1 .. m, NEW l \in 1 .. m, queue'[k] = queue'[l]
               PROVE  k = l
    OBVIOUS
  <2>1. queue[k + 1] = queue[l + 1] /\ k + 1 \in 1 .. n /\ l + 1 \in 1 .. n
    BY <1>1, <1>2
  <2>2. k + 1 = l + 1
    BY <2>1 DEF OnePlace
  <2> QED
    BY <1>2, <2>2
<1> QED
  BY <1>1, <1>3, <1>4, <1>5

\* A cancelled resident gives up its slot, its state and its id at once.
LEMMA ReleaseInv ==
    ASSUME WorkerInv, NEW i \in Slots, slots[i] # None, slots[i].job \in cancel,
           pc \in {"scan", "round"}, ReleaseCancelled(i),
           pc' = pc, at' \in 0 .. Residents, pc = "scan" => at' < Residents,
           cursor' = cursor, start' = start, tokens' = tokens, inputs' = inputs, result' = result,
           queue' = queue, closed' = closed, cancel' = cancel, out' = out,
           stop' = stop, healthy' = healthy, finished' = finished, client' = client, got' = got
    PROVE  WorkerInv'
<1> DEFINE j == slots[i].job
<1>1. /\ WorkerTyped /\ Control /\ Members /\ Held /\ OnePlace /\ Ending /\ (~closed => Tracks)
      /\ \A q \in Jobs : Lives(q)
      /\ \A k \in Slots : Served(k)
  BY DEF WorkerInv
<1>2. j \in Jobs
  BY <1>1, ResidentTyped
<1>3. /\ slots' = [slots EXCEPT ![i] = None] /\ owner' = [owner EXCEPT ![i] = None]
      /\ active' = [active EXCEPT ![IdOf[j]] = None] /\ ended' = [ended EXCEPT ![j] = "silent"]
  BY DEF ReleaseCancelled, Forget
<1>4. /\ slots' \in [Slots -> Running \cup {None}] /\ slots'[i] = None
      /\ \A k \in Slots : k # i => slots'[k] = slots[k]
      /\ \A q : Queued(q)' <=> Queued(q)
      /\ \A q : Resident(q)' <=> Resident(q) /\ q # j
      /\ Resident(j) /\ ~Queued(j) /\ OnePlace'
  BY <1>1, <1>3, SlotEmptied
<1>5. /\ owner' \in [Slots -> Jobs \cup {None}] /\ owner'[i] = None
      /\ \A k \in Slots : k # i => owner'[k] = owner[k]
      /\ ended' \in [Jobs -> {"no", "final", "err", "silent"}] /\ ended'[j] = "silent"
      /\ \A q \in Jobs : q # j => ended'[q] = ended[q]
      /\ active' \in [{IdOf[q] : q \in Jobs} -> Jobs \cup {None}] /\ active'[IdOf[j]] = None
      /\ \A q \in Jobs : IdOf[q] # IdOf[j] => active'[IdOf[q]] = active[IdOf[q]]
  BY <1>1, <1>2, <1>3 DEF WorkerTyped
<1>6. WorkerTyped'
  BY <1>1, <1>4, <1>5 DEF WorkerTyped
<1>7. inputs' = << >> /\ ~closed /\ \A k : ~Published(k) /\ ~Published(k)'
  BY <1>1 DEF Control, Calling, Ending, Published
<1>8. Control'
  BY <1>1, <1>7 DEF Control, Calling
<1>9. Members'
  BY <1>7 DEF Members
<1>10. Held'
  <2>1. ASSUME NEW k \in Slots, k # i, slots[k] = None, owner[k] # None
        PROVE  ended'[owner[k]] \in {"err", "silent"}
    <3>1. owner[k] \in Jobs /\ ended[owner[k]] \in {"err", "silent"}
      BY <1>1, <2>1 DEF WorkerTyped, Held
    <3> QED
      BY <1>5, <3>1
  <2> QED
    BY <1>1, <1>4, <1>5, <1>7, <2>1 DEF Held
<1>11. ASSUME NEW q \in Jobs
       PROVE  Lives(q)'
  <2>1. Lives(q) /\ Last(q)
    BY <1>1 DEF Lives
  <2>2. CASE q = j
    <3>1. client[j] \in {"open", "gone"} /\ ended[j] = "no"
      BY <1>4, <2>1, <2>2 DEF Lives
    <3>2. Last(q)'
      BY <1>1, <2>1, <2>2, <3>1, TokensSoFar DEF Last
    <3> QED
      BY <1>4, <1>5, <2>1, <2>2, <3>1, <3>2 DEF Lives
  <2>3. CASE q # j
    BY <1>4, <1>5, <2>1, <2>3 DEF Lives, Last
  <2> QED
    BY <2>2, <2>3
<1>12. ASSUME NEW k \in Slots
       PROVE  Served(k)'
  BY <1>1, <1>4 DEF Served
<1>13. Tracks'
  <2> SUFFICES ASSUME NEW q \in Jobs
               PROVE  Named(q)' <=> active'[IdOf[q]] = q
    BY DEF Tracks
  <2>1. (Named(q) <=> Queued(q) \/ Resident(q)) /\ (Named(q)' <=> Queued(q)' \/ Resident(q)')
    BY <1>7 DEF Named, Resident
  <2>2. Named(j) /\ (Named(q)' <=> Named(q) /\ q # j)
    BY <1>4, <1>7, <2>1 DEF Named, Resident
  <2>3. (Named(q) <=> active[IdOf[q]] = q) /\ active[IdOf[j]] = j
    BY <1>1, <1>2, <1>7, <2>2 DEF Tracks
  <2> QED
    BY <1>2, <1>5, <2>2, <2>3, WorkerAssumption
<1>14. Ending'
  BY <1>1, <1>7 DEF Ending
<1> QED
  BY <1>4, <1>6, <1>8, <1>9, <1>10, <1>11, <1>12, <1>13, <1>14 DEF WorkerInv

\* A cancelled resident is found by the scan or by the round; the release may fail.
LEMMA CancelledInv ==
    ASSUME WorkerInv, ScanCancelled \/ RoundCancelled
    PROVE  WorkerInv'
<1>1. WorkerTyped /\ Control /\ Residents \in Nat \ {0}
  BY WorkerAssumption DEF WorkerInv
<1>2. /\ queue' = queue /\ closed' = closed /\ cancel' = cancel /\ out' = out
      /\ stop' = stop /\ healthy' = healthy /\ finished' = finished /\ client' = client /\ got' = got
  BY DEF ScanCancelled, RoundCancelled, clients
<1>3. CASE ScanCancelled
  <2>1. pc = "scan" /\ slots[at] # None /\ slots[at].job \in cancel
    BY <1>3 DEF ScanCancelled
  <2>2. at < Residents /\ at \in Slots /\ at \in 0 .. Residents
    BY <1>1, <2>1 DEF Control, WorkerTyped, Slots
  <2>3. CASE ReleaseCancelled(at) /\ UNCHANGED <<pc, at, round, result>>
    <3>1. /\ pc' = pc /\ at' = at /\ result' = result
          /\ cursor' = cursor /\ start' = start /\ tokens' = tokens /\ inputs' = inputs
      BY <2>3 DEF round
    <3> QED
      BY <1>2, <2>1, <2>2, <2>3, <3>1, ReleaseInv
  <2>4. CASE FailLoop /\ UNCHANGED <<slots, owner, active, ended>>
    BY <1>2, <2>1, <2>4, LoopsFail
  <2> QED
    BY <1>3, <2>3, <2>4 DEF ScanCancelled
<1>4. CASE RoundCancelled
  <2> DEFINE i == Index
  <2>1. pc = "round" /\ at < Residents /\ slots[i] # None /\ slots[i].job \in cancel
    BY <1>4 DEF RoundCancelled, InRound
  <2>2. start \in Slots /\ at \in 0 .. Residents - 1
    BY <1>1, <2>1 DEF WorkerTyped
  <2>3. i \in Slots /\ at + 1 \in 0 .. Residents
    BY <1>1, <2>2, SlotsInTurn
  <2>4. CASE ReleaseCancelled(i) /\ at' = at + 1 /\ UNCHANGED <<pc, round, result>>
    <3>1. /\ pc' = pc /\ result' = result /\ at' \in 0 .. Residents /\ pc # "scan"
          /\ cursor' = cursor /\ start' = start /\ tokens' = tokens /\ inputs' = inputs
      BY <2>1, <2>3, <2>4 DEF round
    <3> QED
      BY <1>2, <2>1, <2>3, <2>4, <3>1, ReleaseInv
  <2>5. CASE FailLoop /\ UNCHANGED <<slots, owner, active, ended>>
    BY <1>2, <2>1, <2>5, LoopsFail
  <2> QED
    BY <1>4, <2>4, <2>5 DEF RoundCancelled
<1> QED
  BY <1>3, <1>4

\* A cancelled job leaves the queue and gives its id back.
LEMMA DropQueuedInv ==
    ASSUME WorkerInv, DropQueued
    PROVE  WorkerInv'
<1> DEFINE j == Head(queue)
<1>1. /\ WorkerTyped /\ Control /\ Members /\ Held /\ OnePlace /\ Ending /\ (~closed => Tracks)
      /\ \A q \in Jobs : Lives(q)
      /\ \A k \in Slots : Served(k)
  BY DEF WorkerInv
<1>2. /\ pc = "scan" /\ queue # << >> /\ j \in cancel /\ queue' = Tail(queue)
      /\ active' = [active EXCEPT ![IdOf[j]] = None] /\ ended' = [ended EXCEPT ![j] = "silent"]
      /\ pc' = pc /\ at' = at /\ result' = result
      /\ cursor' = cursor /\ start' = start /\ tokens' = tokens /\ inputs' = inputs
      /\ closed' = closed /\ cancel' = cancel /\ out' = out
      /\ stop' = stop /\ healthy' = healthy /\ finished' = finished /\ client' = client /\ got' = got
      /\ slots' = slots /\ owner' = owner
  BY DEF DropQueued, Forget, clients, round
<1>3. /\ queue' \in Seq(Jobs) /\ j \in Jobs /\ Queued(j) /\ ~Resident(j)
      /\ \A q : Queued(q)' <=> Queued(q) /\ q # j
      /\ \A k, l \in 1 .. Len(queue') : queue'[k] = queue'[l] => k = l
  BY <1>1, <1>2, HeadLeaves
<1>4. \A q : Resident(q)' <=> Resident(q)
  BY <1>2 DEF Resident
<1> HIDE DEF j
<1>5. /\ ended' \in [Jobs -> {"no", "final", "err", "silent"}] /\ ended'[j] = "silent"
      /\ \A q \in Jobs : q # j => ended'[q] = ended[q]
      /\ active' \in [{IdOf[q] : q \in Jobs} -> Jobs \cup {None}] /\ active'[IdOf[j]] = None
      /\ \A q \in Jobs : IdOf[q] # IdOf[j] => active'[IdOf[q]] = active[IdOf[q]]
  BY <1>1, <1>2, <1>3 DEF WorkerTyped
<1>6. WorkerTyped'
  BY <1>1, <1>2, <1>3, <1>5 DEF WorkerTyped
<1>7. inputs' = << >> /\ ~closed /\ \A k : ~Published(k) /\ ~Published(k)'
  BY <1>1, <1>2 DEF Control, Calling, Ending, Published
<1>8. Control'
  BY <1>1, <1>2 DEF Control, Calling
<1>9. Members'
  BY <1>7 DEF Members
<1>10. Held'
  <2>1. ASSUME NEW k \in Slots, slots[k] = None, owner[k] # None
        PROVE  ended'[owner[k]] \in {"err", "silent"}
    <3>1. owner[k] \in Jobs /\ ended[owner[k]] \in {"err", "silent"}
      BY <1>1, <2>1 DEF WorkerTyped, Held
    <3> QED
      BY <1>5, <3>1
  <2> QED
    BY <1>1, <1>2, <1>7, <2>1 DEF Held
<1>11. OnePlace'
  BY <1>1, <1>2, <1>3, <1>4 DEF OnePlace
<1>12. ASSUME NEW q \in Jobs
       PROVE  Lives(q)'
  <2>1. Lives(q) /\ Last(q)
    BY <1>1 DEF Lives
  <2>2. CASE q = j
    <3>1. client[j] \in {"open", "gone"} /\ ended[j] = "no"
      BY <1>3, <2>1, <2>2 DEF Lives
    <3>2. Last(q)'
      BY <1>1, <1>2, <2>1, <2>2, <3>1, TokensSoFar DEF Last
    <3> QED
      BY <1>2, <1>3, <1>4, <1>5, <2>1, <2>2, <3>1, <3>2 DEF Lives
  <2>3. CASE q # j
    BY <1>2, <1>3, <1>4, <1>5, <2>1, <2>3 DEF Lives, Last
  <2> QED
    BY <2>2, <2>3
<1>13. ASSUME NEW k \in Slots
       PROVE  Served(k)'
  BY <1>1, <1>2 DEF Served
<1>14. Tracks'
  <2> SUFFICES ASSUME NEW q \in Jobs
               PROVE  Named(q)' <=> active'[IdOf[q]] = q
    BY DEF Tracks
  <2>1. /\ \A p : Named(p) <=> Queued(p) \/ Resident(p)
        /\ \A p : Named(p)' <=> Queued(p)' \/ Resident(p)'
    BY <1>7 DEF Named, Resident
  <2>2. Named(j) /\ (Named(q)' <=> Named(q) /\ q # j)
    BY <1>3, <1>4, <2>1
  <2>3. (Named(q) <=> active[IdOf[q]] = q) /\ active[IdOf[j]] = j
    BY <1>1, <1>3, <1>7, <2>2 DEF Tracks
  <2> QED
    BY <1>3, <1>5, <2>2, <2>3, WorkerAssumption
<1>15. Ending'
  BY <1>1, <1>2, <1>7 DEF Ending
<1> QED
  BY <1>6, <1>8, <1>9, <1>10, <1>11, <1>12, <1>13, <1>14, <1>15 DEF WorkerInv

\* A job moves from the queue to an empty slot, whatever becomes of the call.
LEMMA AdmitInv ==
    ASSUME WorkerInv, Admit
    PROVE  WorkerInv'
<1> DEFINE j == Head(queue)
<1>1. /\ WorkerTyped /\ Control /\ Members /\ Held /\ OnePlace /\ Ending /\ (~closed => Tracks)
      /\ \A q \in Jobs : Lives(q)
      /\ \A k \in Slots : Served(k)
  BY DEF WorkerInv
<1>2. /\ pc = "scan" /\ slots[at] = None /\ queue # << >> /\ queue' = Tail(queue)
      /\ owner' = [owner EXCEPT ![at] = j]
      /\ closed' = closed /\ active' = active /\ cancel' = cancel /\ out' = out
      /\ stop' = stop /\ healthy' = healthy /\ finished' = finished /\ client' = client /\ got' = got
      /\ ended' = ended
  BY DEF Admit, clients
<1>3. PICK cached \in 0 .. Boundary[j] :
         slots' = [slots EXCEPT ![at] = [job |-> j, position |-> cached, generated |-> 0, terminal |-> FALSE]]
  BY DEF Admit
<1>4. at \in Slots
  <2>1. at \in 0 .. Residents /\ at < Residents /\ Residents \in Nat
    BY <1>1, <1>2, WorkerAssumption DEF WorkerTyped, Control
  <2> QED
    BY <2>1 DEF Slots
<1>5. /\ queue' \in Seq(Jobs) /\ j \in Jobs /\ Queued(j) /\ ~Resident(j)
      /\ \A q : Queued(q)' <=> Queued(q) /\ q # j
      /\ \A k, l \in 1 .. Len(queue') : queue'[k] = queue'[l] => k = l
  BY <1>1, <1>2, HeadLeaves
<1> DEFINE r == [job |-> j, position |-> cached, generated |-> 0, terminal |-> FALSE]
<1>6. r \in Running /\ r.job = j /\ r.generated = 0 /\ r.terminal = FALSE
  <2>1. cached \in Nat
    BY <1>5, WorkerAssumption
  <2> QED
    BY <1>5, <2>1 DEF Running
<1> HIDE DEF j, r
<1>7. /\ slots' \in [Slots -> Running \cup {None}] /\ slots'[at] = r /\ r # None
      /\ \A k \in Slots : k # at => slots'[k] = slots[k]
      /\ owner' \in [Slots -> Jobs \cup {None}] /\ owner'[at] = j
      /\ \A k \in Slots : k # at => owner'[k] = owner[k]
  <2>1. r # None
    BY <1>6, WorkerAssumption DEF Running
  <2>2. slots' = [slots EXCEPT ![at] = r]
    BY <1>3 DEF r, j
  <2> QED
    BY <1>1, <1>2, <1>4, <1>5, <1>6, <2>1, <2>2 DEF WorkerTyped
<1>8. /\ pc' \in {"scan", "collect", "round", "top", "close"} /\ at' \in 0 .. Residents
      /\ cursor' \in Slots /\ start' \in Slots /\ tokens' \in 0 .. TokenBudget
      /\ inputs' = << >> /\ (BatchCapacity > 0 => tokens' <= BatchCapacity)
      /\ pc' = "collect" => BatchCapacity > 0
      /\ pc' = "round" => BatchCapacity = 0
      /\ pc' = "scan" => at' < Residents
      /\ result' \in {result, "err"}
  <2>1. CASE ScanOn(slots') /\ UNCHANGED result
    BY <1>1, <1>2, <2>1, ScansGoOn
  <2>2. CASE FailLoop
    <3>1. 0 \in Slots /\ 0 \in 0 .. Residents /\ 0 \in 0 .. TokenBudget /\ BatchCapacity \in Nat
      BY WorkerAssumption DEF Slots
    <3> QED
      BY <1>1, <2>2, <3>1 DEF FailLoop, EndRound, WorkerTyped
  <2> QED
    BY <2>1, <2>2 DEF Admit
<1>9. WorkerTyped'
  BY <1>1, <1>2, <1>5, <1>7, <1>8 DEF WorkerTyped, Places
<1>10. Control'
  BY <1>8 DEF Control, Calling
<1>11. Members'
  BY <1>8 DEF Members
<1>12. ~closed /\ \A k : ~Published(k) /\ ~Published(k)'
  BY <1>1, <1>2, <1>8 DEF Ending, Published
<1>13. Held'
  BY <1>1, <1>2, <1>4, <1>5, <1>6, <1>7, <1>8, <1>12 DEF Held
<1>14. \A q : Resident(q)' <=> Resident(q) \/ q = j
  BY <1>2, <1>4, <1>6, <1>7 DEF Resident
<1>15. OnePlace'
  <2>1. \A k \in Slots : slots[k] # None => slots[k].job # j
    BY <1>5 DEF Resident
  <2>2. \A i, k \in Slots : slots'[i] # None /\ slots'[k] # None /\ slots'[i].job = slots'[k].job => i = k
    BY <1>1, <1>4, <1>6, <1>7, <2>1 DEF OnePlace
  <2>3. \A q \in Jobs : ~(Queued(q)' /\ Resident(q)')
    BY <1>1, <1>5, <1>14 DEF OnePlace
  <2> QED
    BY <1>5, <2>2, <2>3 DEF OnePlace
<1>16. ASSUME NEW q \in Jobs
       PROVE  Lives(q)'
  <2>1. Lives(q)
    BY <1>1
  <2>2. CASE q = j
    BY <1>2, <1>5, <1>14, <2>1, <2>2 DEF Lives, Last
  <2>3. CASE q # j
    BY <1>2, <1>5, <1>14, <2>1, <2>3 DEF Lives, Last
  <2> QED
    BY <2>2, <2>3
<1>17. ASSUME NEW k \in Slots
       PROVE  Served(k)'
  <2>1. CASE k = at
    <3>1. got[j] = << >> /\ out[j] = << >>
      BY <1>1, <1>5 DEF Lives
    <3>2. Len(got'[j]) = 0 /\ Len(out'[j]) = 0
      BY <1>2, <3>1
    <3>3. slots'[k].job = j /\ slots'[k].generated = 0 /\ ~slots'[k].terminal
      BY <1>6, <1>7, <2>1
    <3>4. pc' \notin {"complete", "publish"}
      BY <1>8
    <3>5. Len(got'[j]) + Len(out'[j]) = slots'[k].generated - (IF slots'[k].terminal THEN 1 ELSE 0)
      <4> DEFINE last == IF slots'[k].terminal THEN 1 ELSE 0
                 a == Len(got'[j])
                 b == Len(out'[j])
                 c == slots'[k].generated
      <4>1. last = 0 /\ a = 0 /\ b = 0 /\ c = 0
        BY <3>2, <3>3
      <4> HIDE DEF last, a, b, c
      <4>2. a + b = c - last
        BY <4>1
      <4> QED
        BY <4>2 DEF last, a, b, c
    <3> QED
      BY <3>3, <3>4, <3>5 DEF Served
  <2>2. CASE k # at
    BY <1>1, <1>2, <1>7, <1>8, <2>2 DEF Served
  <2> QED
    BY <2>1, <2>2
<1>18. Tracks'
  <2> SUFFICES ASSUME NEW q \in Jobs
               PROVE  Named(q)' <=> active'[IdOf[q]] = q
    BY DEF Tracks
  <2>1. (Named(q) <=> Queued(q) \/ Resident(q)) /\ (Named(q)' <=> Queued(q)' \/ Resident(q)')
    BY <1>12 DEF Named, Resident
  <2>2. Named(q)' <=> Named(q)
    BY <1>5, <1>14, <2>1
  <2> QED
    BY <1>1, <1>2, <1>12, <2>2 DEF Tracks
<1>19. Ending'
  BY <1>2, <1>8, <1>12 DEF Ending
<1> QED
  BY <1>9, <1>10, <1>11, <1>13, <1>15, <1>16, <1>17, <1>18, <1>19 DEF WorkerInv

----------------------------------------------------------------------------
(* After a call: its members one by one.                                   *)

\* After a call there is a member whose turn it is, and its slot is occupied.
LEMMA FirstMember ==
    ASSUME WorkerTyped, Control, Members, pc \in {"finish", "complete", "publish"}
    PROVE  /\ Len(inputs) \in Nat \ {0} /\ Head(inputs) = inputs[1] /\ 1 \in 1 .. Len(inputs)
           /\ inputs[1].slot \in Slots /\ inputs[1].count \in Nat /\ Member(1)
           /\ slots[inputs[1].slot] # None
<1>1. inputs \in Seq([slot : Slots, count : Nat]) /\ inputs # << >>
  BY DEF WorkerTyped, Control, Calling
<1>2. Len(inputs) \in Nat \ {0} /\ Head(inputs) = inputs[1] /\ 1 \in 1 .. Len(inputs)
  <2> DEFINE S == [slot : Slots, count : Nat]
  <2>1. inputs \in Seq(S) /\ inputs # << >>
    BY <1>1
  <2> HIDE DEF S
  <2> QED
    BY <2>1
<1>3. Member(1)
  BY <1>2 DEF Members
<1> QED
  BY <1>2, <1>3, MembersTyped DEF Member

\* The next member's turn, or a round that goes on or ends.
LEMMA NextMemberTyped ==
    ASSUME WorkerTyped, Control, Members, pc \in {"finish", "publish"}, NextMember
    PROVE  /\ pc' \in {"top", "finish", "round"} /\ at' \in 0 .. Residents
           /\ cursor' \in Slots /\ start' \in Slots /\ tokens' \in 0 .. TokenBudget
           /\ inputs' \in Seq([slot : Slots, count : Nat]) /\ Control'
           /\ \A k \in 1 .. Len(inputs') :
                 k + 1 \in 1 .. Len(inputs) /\ k + 1 # 1 /\ inputs'[k] = inputs[k + 1]
<1> DEFINE S == [slot : Slots, count : Nat]
           n == Len(inputs)
           m == Len(inputs')
<1>1. /\ 0 \in Slots /\ 0 \in 0 .. Residents /\ 0 \in 0 .. TokenBudget
      /\ BatchCapacity \in Nat /\ Residents \in Nat \ {0}
  BY WorkerAssumption DEF Slots
<1>2. /\ inputs \in Seq(S) /\ n \in Nat \ {0} /\ inputs # << >>
      /\ at \in 0 .. Residents /\ cursor \in Slots /\ start \in Slots /\ tokens \in 0 .. TokenBudget
      /\ BatchCapacity = 0 => n = 1 /\ at < Residents
      /\ BatchCapacity > 0 => tokens <= BatchCapacity
  BY FirstMember DEF WorkerTyped, Control, Calling
<1> HIDE DEF S
<1>3. CASE n = 1 /\ BatchCapacity > 0
  <2>1. EndRound("top") /\ cursor' = cursor
    BY <1>3 DEF NextMember
  <2>2. pc' = "top" /\ at' = 0 /\ start' = 0 /\ tokens' = 0 /\ inputs' = << >>
    BY <2>1 DEF EndRound
  <2>3. inputs' \in Seq(S) /\ \A k \in 1 .. m : FALSE
    BY <2>2
  <2>4. Control'
    BY <1>1, <2>2 DEF Control, Calling
  <2> QED
    BY <1>1, <1>2, <2>1, <2>2, <2>3, <2>4 DEF S
<1>4. CASE ~(n = 1 /\ BatchCapacity > 0)
  <2>1. /\ inputs' = Tail(inputs) /\ cursor' = cursor /\ start' = start /\ tokens' = tokens
        /\ n > 1 => pc' = "finish" /\ at' = at
        /\ ~(n > 1) => pc' = "round" /\ at' = at + 1
    BY <1>4 DEF NextMember
  <2>2. inputs' \in Seq(S) /\ m = n - 1 /\ \A k \in 1 .. m : inputs'[k] = inputs[k + 1]
    BY <1>2, <2>1
  <2>3. \A k \in 1 .. m : k + 1 \in 1 .. n /\ k + 1 # 1
    <3> HIDE DEF n, m
    <3> QED
      BY <1>2, <2>2
  <2>4. CASE n > 1
    <3>1. inputs' # << >> /\ BatchCapacity > 0
      <4>1. m # 0 /\ BatchCapacity # 0
        <5> HIDE DEF n, m
        <5> QED
          BY <1>2, <2>2, <2>4
      <4> QED
        BY <1>1, <4>1
    <3>2. Control'
      BY <1>1, <1>2, <2>1, <2>4, <3>1 DEF Control, Calling
    <3> QED
      BY <1>2, <2>1, <2>2, <2>3, <2>4, <3>2 DEF S
  <2>5. CASE ~(n > 1)
    <3>1. n = 1 /\ BatchCapacity = 0 /\ m = 0
      <4> HIDE DEF n, m
      <4> QED
        BY <1>1, <1>2, <1>4, <2>2, <2>5
    <3>2. inputs' = << >>
      BY <2>2, <3>1, NothingLeft
    <3>3. at' \in 0 .. Residents
      BY <1>1, <1>2, <2>1, <2>5, <3>1
    <3>4. Control'
      BY <2>1, <2>5, <3>1, <3>2 DEF Control, Calling
    <3> QED
      BY <1>2, <2>1, <2>2, <2>3, <2>5, <3>3, <3>4 DEF S
  <2> QED
    BY <2>4, <2>5
<1> QED
  BY <1>3, <1>4

\* The members after the first are as they were when the first is done with.
LEMMA MembersGoOn ==
    ASSUME WorkerTyped, Control, Members, OnePlace, pc \in {"finish", "publish"}, NextMember, client' = client,
           \A k \in Slots : k # inputs[1].slot => slots'[k] = slots[k],
           \A q \in Jobs : q # slots[inputs[1].slot].job => out'[q] = out[q]
    PROVE  Members'
<1>1. /\ pc' \in {"top", "finish", "round"}
      /\ \A k \in 1 .. Len(inputs') :
            k + 1 \in 1 .. Len(inputs) /\ k + 1 # 1 /\ inputs'[k] = inputs[k + 1]
  BY NextMemberTyped
<1>2. 1 \in 1 .. Len(inputs) /\ inputs[1].slot \in Slots /\ slots[inputs[1].slot] # None
  BY FirstMember
<1>3. ASSUME NEW k \in 1 .. Len(inputs')
      PROVE  Member(k)'
  <2> DEFINE i == inputs[k + 1].slot
  <2>1. Member(k + 1) /\ i \in Slots /\ i # inputs[1].slot
    BY <1>1, <1>2, MembersTyped DEF Members
  <2>2. slots[i] # None /\ slots[i].job \in Jobs /\ slots'[i] = slots[i]
    BY <2>1, ResidentTyped DEF Member
  <2>3. slots[i].job # slots[inputs[1].slot].job
    BY <1>2, <2>1, <2>2 DEF OnePlace
  <2>4. inputs'[k].slot = i
    BY <1>1
  <2> HIDE DEF i
  <2>5. client[slots[i].job] = "open" => Len(out[slots[i].job]) < OutCap
    BY <2>1 DEF Member, i
  <2> QED
    BY <1>1, <2>2, <2>3, <2>4, <2>5 DEF Member
<1>4. ASSUME NEW k \in 1 .. Len(inputs'), NEW l \in 1 .. Len(inputs'), k # l
      PROVE  inputs'[k].slot # inputs'[l].slot
  <2>1. k + 1 \in 1 .. Len(inputs) /\ l + 1 \in 1 .. Len(inputs) /\ k + 1 # l + 1
    BY <1>1, <1>4
  <2>2. inputs[k + 1].slot # inputs[l + 1].slot
    BY <2>1 DEF Members
  <2> QED
    BY <1>1, <2>2
<1> QED
  BY <1>3, <1>4 DEF Members

\* A response joins the channel of one job, or nothing is sent.
LEMMA Delivered ==
    ASSUME WorkerTyped, NEW j \in Jobs,
           \/ out' = out
           \/ client[j] = "open" /\ out' = [out EXCEPT ![j] = Append(@, "token")]
    PROVE  /\ out' \in [Jobs -> Seq(Items)] /\ \A q \in Jobs : q # j => out'[q] = out[q]
           /\ out'[j] = out[j] \/ (client[j] = "open" /\ out'[j] = Append(out[j], "token"))
<1>1. out \in [Jobs -> Seq(Items)] /\ out[j] \in Seq(Items) /\ "token" \in Items
  BY DEF WorkerTyped, Items
<1>2. Append(out[j], "token") \in Seq(Items)
  BY <1>1, Appended
<1> DEFINE new == Append(out[j], "token")
<1> HIDE DEF new
<1>3. CASE out' = out
  BY <1>1, <1>3
<1>4. CASE client[j] = "open" /\ out' = [out EXCEPT ![j] = new]
  BY <1>1, <1>2, <1>4 DEF new
<1> QED
  BY <1>3, <1>4 DEF new

\* A job stays in one place when the residents are the same jobs.
LEMMA OnePlaceStays ==
    ASSUME OnePlace, queue' = queue,
           \A k \in Slots : /\ slots'[k] # None <=> slots[k] # None
                            /\ slots[k] # None => slots'[k].job = slots[k].job
    PROVE  OnePlace'
<1>1. \A k, l \in 1 .. Len(queue') : queue'[k] = queue'[l] => k = l
  BY DEF OnePlace
<1>2. ASSUME NEW i \in Slots, NEW k \in Slots,
             slots'[i] # None, slots'[k] # None, slots'[i].job = slots'[k].job
      PROVE  i = k
  BY <1>2 DEF OnePlace
<1>3. ASSUME NEW q \in Jobs
      PROVE  ~(Queued(q)' /\ Resident(q)')
  <2>1. Queued(q)' => Queued(q)
    BY DEF Queued
  <2>2. Resident(q)' => Resident(q)
    BY DEF Resident
  <2> QED
    BY <2>1, <2>2 DEF OnePlace
<1> QED
  BY <1>1, <1>2, <1>3 DEF OnePlace

\* A job lives on as it did when nothing about it changes.
LEMMA LivesOn ==
    ASSUME NEW q \in Jobs, Lives(q), Queued(q)' <=> Queued(q), Resident(q)' <=> Resident(q),
           client' = client, ended' = ended, got' = got, cancel' = cancel, closed' = closed,
           out'[q] = out[q]
    PROVE  Lives(q)'
BY DEF Lives, Last

\* A resident of an open job receives a token more.
LEMMA LivesWithToken ==
    ASSUME WorkerTyped, NEW j \in Jobs, Lives(j), Resident(j), ~Queued(j), client[j] = "open",
           ~Queued(j)', Resident(j)',
           client' = client, ended' = ended, got' = got, cancel' = cancel, closed' = closed,
           out'[j] = Append(out[j], "token")
    PROVE  Lives(j)'
<1>1. ended[j] = "no" /\ Last(j)
  BY DEF Lives
<1>2. out[j] \in Seq(Items) /\ "token" \in Items
  BY DEF WorkerTyped, Items
<1>3. /\ \A k \in 1 .. Len(got[j]) : got[j][k] = "token"
      /\ \A k \in 1 .. Len(out[j]) : out[j][k] = "token"
  BY <1>1, TokensSoFar
<1> DEFINE t == Append(out[j], "token")
<1>4. /\ Len(t) = Len(out[j]) + 1 /\ t[Len(out[j]) + 1] = "token"
      /\ \A k \in 1 .. Len(out[j]) : t[k] = out[j][k]
      /\ \A k \in 1 .. Len(t) : k \in 1 .. Len(out[j]) \/ k = Len(t)
  BY <1>2, Appended
<1> HIDE DEF t
<1>5. \A k \in 1 .. Len(t) : t[k] = "token"
  BY <1>3, <1>4
<1>6. out'[j] = t
  BY DEF t
<1>7. Last(j)'
  BY <1>3, <1>5, <1>6 DEF Last
<1> QED
  BY <1>1, <1>7 DEF Lives

\* A member advances, with a response or not, and stays a resident.
LEMMA AdvanceInv ==
    ASSUME WorkerInv, pc = "finish", NEW i \in Slots, i = inputs[1].slot, slots[i] # None,
           NEW r \in Running, r.job = slots[i].job, slots' = [slots EXCEPT ![i] = r],
           queue' = queue, closed' = closed, active' = active, cancel' = cancel,
           stop' = stop, healthy' = healthy, finished' = finished, client' = client, got' = got,
           owner' = owner, ended' = ended, result' \in {result, "err"},
           \/ out' = out
           \/ client[r.job] = "open" /\ out' = [out EXCEPT ![r.job] = Append(@, "token")],
           pc' \in {"top", "finish", "round", "complete", "close"}, at' \in 0 .. Residents,
           cursor' \in Slots, start' \in Slots, tokens' \in 0 .. TokenBudget,
           inputs' \in Seq([slot : Slots, count : Nat]), Control', Members',
           client[r.job] = "open" =>
              Len(got[r.job]) + Len(out'[r.job]) = r.generated - (IF r.terminal THEN 1 ELSE 0),
           r.terminal => pc' = "complete",
           pc' = "complete" => inputs' = inputs /\ (r.terminal \/ r.job \in cancel)
    PROVE  WorkerInv'
<1> DEFINE j == r.job
<1>1. /\ WorkerTyped /\ Control /\ Members /\ Held /\ OnePlace /\ Ending /\ (~closed => Tracks)
      /\ \A q \in Jobs : Lives(q)
      /\ \A k \in Slots : Served(k)
  BY DEF WorkerInv
<1>2. j \in Jobs /\ r # None
  BY WorkerAssumption DEF Running
<1>3. /\ slots' \in [Slots -> Running \cup {None}] /\ slots'[i] = r
      /\ \A k \in Slots : k # i => slots'[k] = slots[k]
  BY <1>1 DEF WorkerTyped
<1>4. /\ out' \in [Jobs -> Seq(Items)] /\ \A q \in Jobs : q # j => out'[q] = out[q]
      /\ out'[j] = out[j] \/ (client[j] = "open" /\ out'[j] = Append(out[j], "token"))
  <2>1. \/ out' = out
        \/ client[j] = "open" /\ out' = [out EXCEPT ![j] = Append(@, "token")]
    OBVIOUS
  <2> HIDE DEF j
  <2> QED
    BY <1>1, <1>2, <2>1, Delivered
<1>5. WorkerTyped'
  <2>1. result' \in {"ok", "err"} /\ pc' \in Places
    BY <1>1 DEF WorkerTyped, Places
  <2> QED
    BY <1>1, <1>3, <1>4, <2>1 DEF WorkerTyped
<1>6. \A k : ~Published(k) /\ ~Published(k)'
  BY DEF Published
<1>same. \A k \in Slots : /\ slots'[k] # None <=> slots[k] # None
                          /\ slots[k] # None => slots'[k].job = slots[k].job
  BY <1>2, <1>3
<1>7. /\ \A q : Queued(q)' <=> Queued(q)
      /\ \A q : Resident(q)' <=> Resident(q)
      /\ \A q : Named(q)' <=> Named(q)
  BY <1>6, <1>same DEF Queued, Resident, Named
<1>8. Held'
  <2>1. ASSUME NEW k \in Slots
        PROVE  /\ slots'[k] # None => owner'[k] = slots'[k].job
               /\ slots'[k] = None /\ result' = "ok" => owner'[k] = None
               /\ slots'[k] = None /\ owner'[k] # None => ended'[owner'[k]] \in {"err", "silent"}
    <3>1. /\ slots[k] # None => owner[k] = slots[k].job
          /\ slots[k] = None /\ result = "ok" => owner[k] = None
          /\ slots[k] = None /\ owner[k] # None => ended[owner[k]] \in {"err", "silent"}
      BY <1>1, <1>6 DEF Held
    <3>2. result' = "ok" => result = "ok"
      OBVIOUS
    <3> QED
      BY <1>same, <3>1, <3>2
  <2> QED
    BY <1>6, <2>1 DEF Held
<1>9. OnePlace'
  BY <1>1, <1>same, OnePlaceStays
<1>10. Resident(j)
  BY DEF Resident
<1>11. ASSUME NEW q \in Jobs
       PROVE  Lives(q)'
  <2>1. Lives(q)
    BY <1>1
  <2>2. CASE out'[q] = out[q]
    BY <1>7, <2>1, <2>2, LivesOn
  <2>3. CASE out'[q] # out[q]
    <3>1. q = j /\ client[j] = "open" /\ out'[j] = Append(out[j], "token")
      BY <1>4, <2>3
    <3>2. ~Queued(j) /\ ~Queued(j)' /\ Resident(j)'
      BY <1>1, <1>2, <1>7, <1>10 DEF OnePlace
    <3> HIDE DEF j
    <3> QED
      BY <1>1, <1>2, <1>10, <2>1, <3>1, <3>2, LivesWithToken
  <2> QED
    BY <2>2, <2>3
<1>12. ASSUME NEW k \in Slots
       PROVE  Served(k)'
  <2>1. CASE k = i
    BY <1>3, <2>1 DEF Served
  <2>2. CASE k # i /\ slots[k] # None
    <3>1. slots[k].job # j /\ slots[k].job \in Jobs
      BY <1>1, <2>2, ResidentTyped DEF OnePlace
    <3>2. ~slots[k].terminal
      BY <1>1, <2>2 DEF Served
    <3> QED
      BY <1>1, <1>3, <1>4, <2>2, <3>1, <3>2 DEF Served
  <2>3. CASE k # i /\ slots[k] = None
    BY <1>3, <2>3 DEF Served
  <2> QED
    BY <2>1, <2>2, <2>3
<1>13. ~closed' => Tracks'
  BY <1>1, <1>7 DEF Tracks
<1>14. Ending'
  BY <1>1 DEF Ending
<1> QED
  BY <1>5, <1>8, <1>9, <1>11, <1>12, <1>13, <1>14 DEF WorkerInv

\* A member moves on by its tokens: it is completed, answered or extended.
LEMMA FinishInv ==
    ASSUME WorkerInv, Finish
    PROVE  WorkerInv'
<1> DEFINE i == Head(inputs).slot
           r == slots[i]
           j == r.job
           position == r.position + Head(inputs).count
           moved == [r EXCEPT !.position = position]
           sampled == [moved EXCEPT !.generated = @ + 1]
           final == [sampled EXCEPT !.terminal = TRUE]
<1>1. /\ WorkerTyped /\ Control /\ Members /\ OnePlace
      /\ \A q \in Jobs : Lives(q)
      /\ \A k \in Slots : Served(k)
  BY DEF WorkerInv
<1>2. /\ pc = "finish"
      /\ queue' = queue /\ closed' = closed /\ active' = active /\ cancel' = cancel
      /\ stop' = stop /\ healthy' = healthy /\ finished' = finished /\ client' = client /\ got' = got
      /\ owner' = owner /\ ended' = ended
  BY DEF Finish, clients
<1>3. /\ i = inputs[1].slot /\ i \in Slots /\ Head(inputs).count \in Nat /\ r # None /\ Member(1)
  BY <1>1, <1>2, FirstMember
<1>4. r \in Running /\ j \in Jobs /\ r.position \in Nat /\ r.generated \in Nat
  BY <1>1, <1>3, ResidentTyped
<1>5. ~r.terminal /\ (client[j] = "open" => Len(got[j]) + Len(out[j]) = r.generated)
  <2>1. /\ ~r.terminal
        /\ client[j] = "open" => Len(got[j]) + Len(out[j]) = r.generated - (IF r.terminal THEN 1 ELSE 0)
    BY <1>1, <1>2, <1>3 DEF Served
  <2>2. (IF r.terminal THEN 1 ELSE 0) = 0
    BY <2>1
  <2> DEFINE last == IF r.terminal THEN 1 ELSE 0
             g == r.generated
             n == Len(got[j]) + Len(out[j])
  <2>3. last = 0 /\ g \in Nat /\ (client[j] = "open" => n = g - last)
    BY <1>4, <2>1, <2>2
  <2> HIDE DEF last, g, n
  <2>4. client[j] = "open" => n = g
    BY <2>3
  <2> QED
    BY <2>1, <2>4 DEF g, n
<1>6. /\ got[j] \in Seq(Items) /\ out[j] \in Seq(Items) /\ Len(got[j]) \in Nat /\ Len(out[j]) \in Nat
      /\ client[j] = "open" => Len(out[j]) < OutCap
      /\ client[j] \in {"open", "gone"} /\ (client[j] = "gone" => j \in cancel)
  <2>1. Resident(j)
    BY <1>3 DEF Resident
  <2> QED
    BY <1>1, <1>3, <1>4, <2>1 DEF WorkerTyped, Member, Lives
<1>7. /\ moved \in Running /\ moved.job = j /\ moved.generated = r.generated /\ moved.terminal = r.terminal
      /\ sampled \in Running /\ sampled.job = j /\ sampled.generated = r.generated + 1 /\ sampled.terminal = r.terminal
      /\ final \in Running /\ final.job = j /\ final.generated = r.generated + 1 /\ final.terminal = TRUE
  <2>1. position \in Nat
    BY <1>3, <1>4
  <2> HIDE DEF position
  <2>2. r \in [job : Jobs, position : Nat, generated : Nat, terminal : BOOLEAN]
    BY <1>4 DEF Running
  <2> HIDE DEF r
  <2>3. /\ moved \in [job : Jobs, position : Nat, generated : Nat, terminal : BOOLEAN]
        /\ moved.job = j /\ moved.generated = r.generated /\ moved.terminal = r.terminal
    BY <2>1, <2>2
  <2> HIDE DEF moved
  <2>4. /\ sampled \in [job : Jobs, position : Nat, generated : Nat, terminal : BOOLEAN]
        /\ sampled.job = j /\ sampled.generated = r.generated + 1 /\ sampled.terminal = r.terminal
    BY <2>2, <2>3
  <2> HIDE DEF sampled
  <2>5. /\ final \in [job : Jobs, position : Nat, generated : Nat, terminal : BOOLEAN]
        /\ final.job = j /\ final.generated = r.generated + 1 /\ final.terminal = TRUE
    BY <2>4
  <2> QED
    BY <2>3, <2>4, <2>5 DEF Running
<1>8. /\ at \in 0 .. Residents /\ cursor \in Slots /\ start \in Slots /\ tokens \in 0 .. TokenBudget
      /\ inputs \in Seq([slot : Slots, count : Nat])
  BY <1>1 DEF WorkerTyped
<1> HIDE DEF moved, sampled, final
\* A member that is to be completed keeps its turn.
<1>9. ASSUME pc' = "complete", UNCHANGED <<out, at, round, result>>, NEW new \in {moved, sampled, final},
             slots' = [slots EXCEPT ![i] = new],
             new # moved => j \notin cancel, new = sampled => ~CanSend(j), new = moved => j \in cancel
      PROVE  WorkerInv'
  <2>1. /\ out' = out /\ at' = at /\ result' = result
        /\ cursor' = cursor /\ start' = start /\ tokens' = tokens /\ inputs' = inputs
    BY <1>9 DEF round
  <2>2. Control'
    BY <1>1, <1>2, <1>9, <2>1 DEF Control, Calling
  <2>3. new \in Running /\ new.job = j /\ new # None
    BY <1>7, <1>9, WorkerAssumption DEF Running
  <2>4. Members'
    <3>1. \A k \in 1 .. Len(inputs) : Member(k) /\ inputs[k].slot \in Slots
      BY <1>1, MembersTyped DEF Members
    <3>2. \A k \in Slots : (slots[k] # None => slots'[k] # None /\ slots'[k].job = slots[k].job)
      BY <1>1, <1>3, <1>9, <2>3 DEF WorkerTyped
    <3>3. ASSUME NEW k \in 1 .. Len(inputs)
          PROVE  Member(k)'
      BY <1>2, <1>9, <2>1, <3>1, <3>2 DEF Member
    <3> QED
      BY <1>1, <2>1, <3>3 DEF Members
  <2>5. /\ client[j] = "open" => Len(got[j]) + Len(out'[j]) = new.generated - (IF new.terminal THEN 1 ELSE 0)
        /\ new.terminal \/ j \in cancel
    <3>1. CASE new = moved
      <4>1. (IF new.terminal THEN 1 ELSE 0) = 0
        BY <1>5, <1>7, <3>1
      <4> DEFINE last == IF new.terminal THEN 1 ELSE 0
                 g == new.generated
                 n == Len(got[j]) + Len(out'[j])
      <4>2. last = 0 /\ g \in Nat /\ (client[j] = "open" => n = g)
        BY <1>4, <1>5, <1>7, <2>1, <3>1, <4>1
      <4> HIDE DEF last, g, n
      <4>3. client[j] = "open" => n = g - last
        BY <4>2
      <4> QED
        BY <1>9, <3>1, <4>3 DEF last, g, n
    <3>2. CASE new = final
      <4>1. (IF new.terminal THEN 1 ELSE 0) = 1
        BY <1>7, <3>2
      <4> DEFINE last == IF new.terminal THEN 1 ELSE 0
                 g == new.generated
                 h == r.generated
                 n == Len(got[j]) + Len(out'[j])
      <4>2. last = 1 /\ h \in Nat /\ g = h + 1 /\ (client[j] = "open" => n = h)
        BY <1>4, <1>5, <1>7, <2>1, <3>2, <4>1
      <4> HIDE DEF last, g, h, n
      <4>3. client[j] = "open" => n = g - last
        BY <4>2
      <4> QED
        BY <1>7, <3>2, <4>3 DEF last, g, n
    <3>3. CASE new = sampled /\ new # moved
      <4>1. client[j] # "open"
        BY <1>6, <1>9, <3>3 DEF CanSend
      <4> QED
        BY <1>6, <1>9, <3>3, <4>1
    <3> QED
      BY <1>9, <3>1, <3>2, <3>3
  <2> HIDE DEF j, r, i
  <2> QED
    BY <1>2, <1>3, <1>8, <1>9, <2>1, <2>2, <2>3, <2>4, <2>5, AdvanceInv DEF r, j
\* A member that is done with leaves the turn to the next.
<1>10. ASSUME NextMember, UNCHANGED result, NEW new \in {moved, sampled},
              slots' = [slots EXCEPT ![i] = new],
              \/ new = moved /\ out' = out
              \/ new = sampled /\ CanSend(j) /\ out' = [out EXCEPT ![j] = Append(@, "token")]
       PROVE  WorkerInv'
  <2>1. /\ pc' \in {"top", "finish", "round"} /\ at' \in 0 .. Residents
        /\ cursor' \in Slots /\ start' \in Slots /\ tokens' \in 0 .. TokenBudget
        /\ inputs' \in Seq([slot : Slots, count : Nat]) /\ Control'
    BY <1>1, <1>2, <1>10, NextMemberTyped
  <2>2. new \in Running /\ new.job = j /\ ~new.terminal
    BY <1>5, <1>7, <1>10
  <2>3. /\ \A k \in Slots : k # i => slots'[k] = slots[k]
        /\ \A q \in Jobs : q # j => out'[q] = out[q]
        /\ out' = out \/ (client[j] = "open" /\ out' = [out EXCEPT ![j] = Append(@, "token")])
    BY <1>1, <1>3, <1>10 DEF WorkerTyped, CanSend
  <2>4. Members'
    BY <1>1, <1>2, <1>3, <1>10, <2>3, MembersGoOn
  <2>5. client[j] = "open" => Len(got[j]) + Len(out'[j]) = new.generated - (IF new.terminal THEN 1 ELSE 0)
    <3>1. (IF new.terminal THEN 1 ELSE 0) = 0
      BY <2>2
    <3> DEFINE last == IF new.terminal THEN 1 ELSE 0
               g == new.generated
               h == r.generated
               a == Len(got[j])
               b == Len(out[j])
               c == Len(out'[j])
    <3>2. last = 0 /\ h \in Nat /\ a \in Nat /\ b \in Nat /\ (client[j] = "open" => a + b = h)
      BY <1>4, <1>5, <1>6, <3>1
    <3>3. (g = h /\ c = b) \/ (g = h + 1 /\ c = b + 1)
      <4>1. CASE new = moved /\ out' = out
        BY <1>7, <4>1
      <4>2. CASE new = sampled /\ out' = [out EXCEPT ![j] = Append(@, "token")]
        <5>1. out'[j] = Append(out[j], "token") /\ "token" \in Items
          BY <1>1, <1>4, <4>2 DEF WorkerTyped, Items
        <5>2. Len(Append(out[j], "token")) = Len(out[j]) + 1
          <6>1. out[j] \in Seq(Items)
            BY <1>6
          <6> HIDE DEF j
          <6> QED
            BY <5>1, <6>1, Appended
        <5> QED
          BY <1>7, <4>2, <5>1, <5>2
      <4> QED
        BY <1>10, <4>1, <4>2
    <3> HIDE DEF last, g, h, a, b, c
    <3>4. client[j] = "open" => a + c = g - last
      BY <3>2, <3>3
    <3> QED
      BY <3>4 DEF last, g, a, c
  <2> HIDE DEF j, r, i
  <2> QED
    BY <1>2, <1>3, <1>10, <2>1, <2>2, <2>3, <2>4, <2>5, AdvanceInv DEF r, j
\* The checkpoint that follows may fail.
<1>11. ASSUME FailLoop, out' = out, slots' = [slots EXCEPT ![i] = moved]
       PROVE  WorkerInv'
  <2>1. /\ pc' = "close" /\ at' = 0 /\ start' = 0 /\ tokens' = 0 /\ inputs' = << >>
        /\ cursor' = cursor /\ result' = "err"
    BY <1>11 DEF FailLoop, EndRound
  <2>2. 0 \in Slots /\ 0 \in 0 .. Residents /\ 0 \in 0 .. TokenBudget /\ BatchCapacity \in Nat
    BY WorkerAssumption DEF Slots
  <2>3. Control' /\ Members'
    BY <2>1, <2>2 DEF Control, Members, Calling
  <2>4. client[j] = "open" => Len(got[j]) + Len(out'[j]) = moved.generated - (IF moved.terminal THEN 1 ELSE 0)
    <3>1. (IF moved.terminal THEN 1 ELSE 0) = 0
      BY <1>5, <1>7
    <3> DEFINE last == IF moved.terminal THEN 1 ELSE 0
               g == moved.generated
               n == Len(got[j]) + Len(out'[j])
    <3>2. last = 0 /\ g \in Nat /\ (client[j] = "open" => n = g)
      BY <1>4, <1>5, <1>7, <1>11, <3>1
    <3> HIDE DEF last, g, n
    <3>3. client[j] = "open" => n = g - last
      BY <3>2
    <3> QED
      BY <3>3 DEF last, g, n
  <2>5. inputs' \in Seq([slot : Slots, count : Nat])
    BY <2>1
  <2>6. moved \in Running /\ moved.job = j /\ ~moved.terminal
    BY <1>5, <1>7
  <2> HIDE DEF j, r, i
  <2> QED
    BY <1>2, <1>3, <1>8, <1>11, <2>1, <2>2, <2>3, <2>4, <2>5, <2>6, AdvanceInv DEF r, j
<1>12. \/ /\ j \in cancel /\ slots' = [slots EXCEPT ![i] = moved]
          /\ pc' = "complete" /\ UNCHANGED <<out, at, round, result>>
       \/ /\ j \notin cancel /\ slots' = [slots EXCEPT ![i] = moved]
          /\ (NextMember /\ UNCHANGED result) \/ FailLoop
          /\ out' = out
       \/ /\ j \notin cancel /\ slots' = [slots EXCEPT ![i] = final]
          /\ pc' = "complete" /\ UNCHANGED <<out, at, round, result>>
       \/ /\ j \notin cancel /\ slots' = [slots EXCEPT ![i] = sampled]
          /\ IF CanSend(j)
             THEN out' = [out EXCEPT ![j] = Append(@, "token")] /\ NextMember
             ELSE pc' = "complete" /\ UNCHANGED <<out, at, round>>
          /\ UNCHANGED result
  BY DEF Finish, moved, sampled, final
<1>13. sampled # moved /\ final # moved
  BY <1>4, <1>7
<1>14. CASE /\ j \in cancel /\ slots' = [slots EXCEPT ![i] = moved]
            /\ pc' = "complete" /\ UNCHANGED <<out, at, round, result>>
  BY <1>9, <1>13, <1>14
<1>15. CASE /\ j \notin cancel /\ slots' = [slots EXCEPT ![i] = moved]
            /\ (NextMember /\ UNCHANGED result) \/ FailLoop
            /\ out' = out
  BY <1>10, <1>11, <1>15
<1>16. CASE /\ j \notin cancel /\ slots' = [slots EXCEPT ![i] = final]
            /\ pc' = "complete" /\ UNCHANGED <<out, at, round, result>>
  <2>1. final # sampled
    BY <1>5, <1>7
  <2> QED
    BY <1>9, <1>13, <1>16, <2>1
<1>17. CASE /\ j \notin cancel /\ slots' = [slots EXCEPT ![i] = sampled] /\ result' = result
            /\ CanSend(j) /\ out' = [out EXCEPT ![j] = Append(@, "token")] /\ NextMember
  BY <1>10, <1>17
<1>18. CASE /\ j \notin cancel /\ slots' = [slots EXCEPT ![i] = sampled] /\ result' = result
            /\ ~CanSend(j) /\ pc' = "complete" /\ UNCHANGED <<out, at, round>>
  BY <1>9, <1>13, <1>18
<1> HIDE DEF i, j, r
<1> QED
  BY <1>12, <1>14, <1>15, <1>16, <1>17, <1>18

\* The engine gives up the state, and the id is free again, before the response.
LEMMA CompleteInv ==
    ASSUME WorkerInv, Complete
    PROVE  WorkerInv'
<1> DEFINE i == Head(inputs).slot
           j == slots[i].job
<1>1. /\ WorkerTyped /\ Control /\ Members /\ Held /\ OnePlace /\ Ending /\ (~closed => Tracks)
      /\ \A q \in Jobs : Lives(q)
      /\ \A k \in Slots : Served(k)
  BY DEF WorkerInv
<1>2. /\ pc = "complete"
      /\ queue' = queue /\ closed' = closed /\ cancel' = cancel /\ out' = out
      /\ stop' = stop /\ healthy' = healthy /\ finished' = finished /\ client' = client /\ got' = got
      /\ slots' = slots /\ ended' = ended
  BY DEF Complete, clients
<1>3. i = inputs[1].slot /\ i \in Slots /\ slots[i] # None
  BY <1>1, <1>2, FirstMember
<1>4. j \in Jobs
  BY <1>1, <1>3, ResidentTyped
<1>5. CASE FailLoop /\ UNCHANGED <<owner, active>>
  BY <1>2, <1>5, LoopsFail
<1>6. CASE /\ owner' = [owner EXCEPT ![i] = None] /\ Forget(j)
           /\ pc' = "publish" /\ UNCHANGED <<at, round, result>>
  <2>1. /\ pc' = "publish" /\ at' = at /\ result' = result
        /\ cursor' = cursor /\ start' = start /\ tokens' = tokens /\ inputs' = inputs
    BY <1>6 DEF round
  <2> HIDE DEF i, j
  <2>2. /\ owner' \in [Slots -> Jobs \cup {None}] /\ owner'[i] = None
        /\ \A k \in Slots : k # i => owner'[k] = owner[k]
        /\ active' \in [{IdOf[q] : q \in Jobs} -> Jobs \cup {None}] /\ active'[IdOf[j]] = None
        /\ \A q \in Jobs : IdOf[q] # IdOf[j] => active'[IdOf[q]] = active[IdOf[q]]
    BY <1>1, <1>3, <1>4, <1>6 DEF WorkerTyped, Forget
  <2>3. WorkerTyped'
    BY <1>1, <1>2, <2>1, <2>2 DEF WorkerTyped, Places
  <2>4. Control'
    BY <1>1, <1>2, <2>1 DEF Control, Calling
  <2>5. Members'
    BY <1>1, <1>2, <2>1 DEF Members, Member
  <2>6. /\ \A k : ~Published(k) /\ (Published(k)' <=> k = i)
        /\ \A q : Queued(q)' <=> Queued(q)
        /\ \A q : Resident(q)' <=> Resident(q)
    BY <1>2, <1>3, <2>1 DEF Published, Queued, Resident
  <2>7. Held'
    BY <1>1, <1>2, <1>3, <2>1, <2>2, <2>6 DEF Held
  <2>8. OnePlace'
    BY <1>1, <1>2, <2>6 DEF OnePlace
  <2>9. ASSUME NEW q \in Jobs
        PROVE  Lives(q)'
    BY <1>1, <1>2, <2>6 DEF Lives, Last
  <2>10. ASSUME NEW k \in Slots
         PROVE  Served(k)'
    BY <1>1, <1>2, <2>1 DEF Served
  <2>11. ~closed' => Tracks'
    <3> SUFFICES ASSUME ~closed, NEW q \in Jobs
                 PROVE  Named(q)' <=> active'[IdOf[q]] = q
      BY <1>2 DEF Tracks
    <3>1. slots[i].job = j /\ ~Queued(j)
      BY <1>1, <1>3, <1>4 DEF j, OnePlace, Resident
    <3>2. Named(j) /\ (Named(q)' <=> Named(q) /\ q # j)
      BY <1>1, <1>2, <1>3, <2>6, <3>1 DEF Named, OnePlace
    <3>3. (Named(q) <=> active[IdOf[q]] = q) /\ active[IdOf[j]] = j
      BY <1>1, <1>4, <3>2 DEF Tracks
    <3> QED
      BY <1>4, <2>2, <3>2, <3>3, WorkerAssumption
  <2>12. Ending'
    BY <1>1, <1>2, <2>1 DEF Ending
  <2> QED
    BY <2>3, <2>4, <2>5, <2>7, <2>8, <2>9, <2>10, <2>11, <2>12 DEF WorkerInv
<1> QED
  BY <1>5, <1>6 DEF Complete

\* The last response of a job is the last of its channel.
LEMMA LastSent ==
    ASSUME WorkerTyped, NEW j \in Jobs, NEW item \in {"final", "err"}, SendLast(j, item),
           Last(j), ended[j] = "no", got' = got
    PROVE  /\ out' \in [Jobs -> Seq(Items)] /\ ended' \in [Jobs -> {"no", "final", "err", "silent"}]
           /\ ended'[j] \in {item, "silent"} /\ Last(j)'
           /\ \A q \in Jobs : q # j => out'[q] = out[q] /\ ended'[q] = ended[q]
           /\ ended'[j] = "silent" => ~CanSend(j)
           /\ client[j] # "open" => out'[j] = out[j]
<1>1. /\ got[j] \in Seq(Items) /\ out[j] \in Seq(Items) /\ item \in Items
      /\ out \in [Jobs -> Seq(Items)] /\ ended \in [Jobs -> {"no", "final", "err", "silent"}]
  BY DEF WorkerTyped, Items
<1>2. /\ \A k \in 1 .. Len(got[j]) : got[j][k] = "token"
      /\ \A k \in 1 .. Len(out[j]) : out[j][k] = "token"
  BY TokensSoFar
<1>3. CASE CanSend(j)
  <2> DEFINE t == Append(out[j], item)
  <2>1. out' = [out EXCEPT ![j] = t] /\ ended' = [ended EXCEPT ![j] = item] /\ client[j] = "open"
    BY <1>3 DEF SendLast, CanSend
  <2>2. /\ t \in Seq(Items) /\ Len(t) = Len(out[j]) + 1 /\ t[Len(out[j]) + 1] = item
        /\ \A k \in 1 .. Len(out[j]) : t[k] = out[j][k]
        /\ \A k \in 1 .. Len(t) : k \in 1 .. Len(out[j]) \/ k = Len(t)
    BY <1>1, Appended
  <2> HIDE DEF t
  <2>3. out'[j] = t /\ ended'[j] = item
    BY <1>1, <2>1
  <2>4. Last(j)'
    BY <1>2, <2>2, <2>3 DEF Last
  <2> QED
    BY <1>1, <1>3, <2>1, <2>2, <2>4
<1>4. CASE ~CanSend(j)
  <2>1. out' = out /\ ended' = [ended EXCEPT ![j] = "silent"]
    BY <1>4 DEF SendLast
  <2>2. Last(j)'
    BY <1>2, <2>1 DEF Last
  <2> QED
    BY <1>1, <1>4, <2>1, <2>2
<1> QED
  BY <1>3, <1>4

\* A job that had a place gives it up and is told so.
LEMMA JobEnds ==
    ASSUME \A q \in Jobs : Lives(q), NEW j \in Jobs, Queued(j) \/ Resident(j),
           client' = client, got' = got, cancel' = cancel, closed' = closed,
           \A q : Queued(q)' <=> Queued(q) /\ q # j,
           \A q : Resident(q)' <=> Resident(q) /\ q # j,
           \A q \in Jobs : q # j => out'[q] = out[q] /\ ended'[q] = ended[q],
           ended'[j] # "no", ended'[j] = "silent" => j \in cancel \/ closed, Last(j)',
           client[j] # "open" => out'[j] = out[j]
    PROVE  \A q \in Jobs : Lives(q)'
<1> SUFFICES ASSUME NEW q \in Jobs
             PROVE  Lives(q)'
  OBVIOUS
<1>1. Lives(q) /\ Last(q)
  BY DEF Lives
<1>2. CASE q = j
  <2>1. client[j] \in {"open", "gone"}
    BY <1>1, <1>2 DEF Lives
  <2> QED
    BY <1>1, <1>2, <2>1 DEF Lives
<1>3. CASE q # j
  BY <1>1, <1>3 DEF Lives, Last
<1> QED
  BY <1>2, <1>3

\* The last response is published and the slot is free.
LEMMA PublishInv ==
    ASSUME WorkerInv, Publish
    PROVE  WorkerInv'
<1>1. /\ WorkerTyped /\ Control /\ Members /\ Held /\ OnePlace /\ Ending /\ (~closed => Tracks)
      /\ \A q \in Jobs : Lives(q)
      /\ \A k \in Slots : Served(k)
  BY DEF WorkerInv
<1>2. /\ pc = "publish" /\ NextMember
      /\ queue' = queue /\ closed' = closed /\ active' = active /\ cancel' = cancel
      /\ stop' = stop /\ healthy' = healthy /\ finished' = finished /\ client' = client /\ got' = got
      /\ owner' = owner /\ result' = result
  BY DEF Publish, clients
<1>3. PICK i \in Slots : i = inputs[1].slot /\ i = Head(inputs).slot /\ slots[i] # None /\ Member(1)
  BY <1>1, <1>2, FirstMember
<1>4. PICK j \in Jobs : j = slots[i].job
  BY <1>1, <1>3, ResidentTyped
<1>5. /\ slots' \in [Slots -> Running \cup {None}] /\ slots'[i] = None
      /\ \A k \in Slots : k # i => slots'[k] = slots[k]
      /\ \A q : Queued(q)' <=> Queued(q)
      /\ \A q : Resident(q)' <=> Resident(q) /\ q # j
      /\ Resident(j) /\ ~Queued(j) /\ OnePlace'
  <2>1. slots' = [slots EXCEPT ![i] = None]
    BY <1>3 DEF Publish
  <2> QED
    BY <1>1, <1>2, <1>3, <1>4, <2>1, SlotEmptied
<1>6. /\ Lives(j) /\ Last(j) /\ ended[j] = "no" /\ client[j] \in {"open", "gone"}
      /\ client[j] = "gone" => j \in cancel
  BY <1>1, <1>4, <1>5 DEF Lives
<1>7. slots[i].terminal \/ j \in cancel
  BY <1>1, <1>2, <1>3, <1>4 DEF Served
<1>8. client[j] = "open" => Len(out[j]) < OutCap
  BY <1>3, <1>4 DEF Member
<1>9. /\ out' \in [Jobs -> Seq(Items)] /\ ended' \in [Jobs -> {"no", "final", "err", "silent"}]
      /\ ended'[j] # "no" /\ (ended'[j] = "silent" => j \in cancel) /\ Last(j)'
      /\ \A q \in Jobs : q # j => out'[q] = out[q] /\ ended'[q] = ended[q]
      /\ client[j] # "open" => out'[j] = out[j]
  <2>1. CASE slots[i].terminal
    <3>1. SendLast(j, "final")
      BY <1>3, <1>4, <2>1 DEF Publish
    <3>2. /\ out' \in [Jobs -> Seq(Items)] /\ ended' \in [Jobs -> {"no", "final", "err", "silent"}]
          /\ ended'[j] \in {"final", "silent"} /\ Last(j)'
          /\ \A q \in Jobs : q # j => out'[q] = out[q] /\ ended'[q] = ended[q]
          /\ ended'[j] = "silent" => ~CanSend(j)
          /\ client[j] # "open" => out'[j] = out[j]
      BY <1>1, <1>2, <1>4, <1>6, <3>1, LastSent
    <3>3. ~CanSend(j) => j \in cancel
      BY <1>6, <1>8 DEF CanSend
    <3> QED
      BY <3>2, <3>3
  <2>2. CASE ~slots[i].terminal
    <3>1. ended' = [ended EXCEPT ![j] = "silent"] /\ out' = out
      BY <1>3, <1>4, <2>2 DEF Publish
    <3>2. /\ \A k \in 1 .. Len(got[j]) : got[j][k] = "token"
          /\ \A k \in 1 .. Len(out[j]) : out[j][k] = "token"
      BY <1>1, <1>4, <1>6, TokensSoFar
    <3>3. Last(j)'
      BY <1>2, <3>1, <3>2 DEF Last
    <3> QED
      BY <1>1, <1>4, <1>7, <2>2, <3>1, <3>3 DEF WorkerTyped
  <2> QED
    BY <2>1, <2>2
<1>10. /\ pc' \in {"top", "finish", "round"} /\ at' \in 0 .. Residents
       /\ cursor' \in Slots /\ start' \in Slots /\ tokens' \in 0 .. TokenBudget
       /\ inputs' \in Seq([slot : Slots, count : Nat]) /\ Control'
  BY <1>1, <1>2, NextMemberTyped
<1>11. Members'
  BY <1>1, <1>2, <1>3, <1>4, <1>5, <1>9, MembersGoOn
<1>12. WorkerTyped'
  BY <1>1, <1>2, <1>5, <1>9, <1>10 DEF WorkerTyped, Places
<1>13. \A k : (Published(k) <=> k = i) /\ ~Published(k)'
  BY <1>2, <1>3, <1>10 DEF Published
<1>14. Held'
  <2>1. ASSUME NEW k \in Slots, k # i, slots[k] = None, owner[k] # None
        PROVE  ended'[owner[k]] \in {"err", "silent"}
    <3>1. owner[k] \in Jobs /\ ended[owner[k]] \in {"err", "silent"}
      BY <1>1, <2>1 DEF WorkerTyped, Held
    <3> QED
      BY <1>6, <1>9, <3>1
  <2> QED
    BY <1>1, <1>2, <1>3, <1>5, <1>13, <2>1 DEF Held
<1>15. \A q \in Jobs : Lives(q)'
  BY <1>1, <1>2, <1>4, <1>5, <1>9, JobEnds
<1>16. ASSUME NEW k \in Slots
       PROVE  Served(k)'
  <2>1. CASE k = i
    BY <1>5, <2>1 DEF Served
  <2>2. CASE k # i /\ slots[k] # None
    <3>1. slots[k].job # j /\ slots[k].job \in Jobs
      BY <1>1, <1>3, <1>4, <2>2, ResidentTyped DEF OnePlace
    <3>2. ~slots[k].terminal
      BY <1>1, <1>2, <1>3, <2>2 DEF Served
    <3>3. slots'[k] = slots[k] /\ out'[slots[k].job] = out[slots[k].job] /\ Served(k)
      BY <1>1, <1>5, <1>9, <2>2, <3>1
    <3> QED
      BY <1>2, <1>10, <3>2, <3>3 DEF Served
  <2>3. CASE k # i /\ slots[k] = None
    BY <1>5, <2>3 DEF Served
  <2> QED
    BY <2>1, <2>2, <2>3
<1>17. ~closed' => Tracks'
  <2>1. \A q : Named(q)' <=> Named(q)
    BY <1>5, <1>13 DEF Named, Resident
  <2> QED
    BY <1>1, <1>2, <2>1 DEF Tracks
<1>18. Ending'
  BY <1>1, <1>2, <1>10 DEF Ending
<1> QED
  BY <1>5, <1>11, <1>10, <1>12, <1>14, <1>15, <1>16, <1>17, <1>18 DEF WorkerInv

----------------------------------------------------------------------------
(* The end of the worker.                                                  *)

\* The admission channel is closed first.
LEMMA CloseQueueInv ==
    ASSUME WorkerInv, CloseQueue
    PROVE  WorkerInv'
<1>1. /\ WorkerTyped /\ Control /\ Members /\ Held /\ OnePlace /\ Ending
      /\ \A q \in Jobs : Lives(q)
      /\ \A k \in Slots : Served(k)
  BY DEF WorkerInv
<1>2. /\ pc = "close" /\ closed' = TRUE /\ pc' = "closing" /\ at' = 0 /\ result' = result
      /\ cursor' = cursor /\ start' = start /\ tokens' = tokens /\ inputs' = inputs
      /\ queue' = queue /\ active' = active /\ cancel' = cancel /\ out' = out
      /\ stop' = stop /\ healthy' = healthy /\ finished' = finished /\ client' = client /\ got' = got
      /\ slots' = slots /\ owner' = owner /\ ended' = ended
  BY DEF CloseQueue, clients, round
<1>3. 0 \in 0 .. Residents /\ \A k \in Slots : ~(k < 0)
  BY WorkerAssumption DEF Slots
<1>4. WorkerTyped'
  BY <1>1, <1>2, <1>3 DEF WorkerTyped, Places
<1>5. Control'
  BY <1>1, <1>2 DEF Control, Calling
<1>6. Members'
  BY <1>1, <1>2 DEF Control, Calling, Members
<1>7. /\ \A k : ~Published(k) /\ ~Published(k)'
      /\ \A q : (Queued(q)' <=> Queued(q)) /\ (Resident(q)' <=> Resident(q))
  BY <1>2 DEF Published, Queued, Resident
<1>8. Held' /\ OnePlace'
  BY <1>1, <1>2, <1>7 DEF Held, OnePlace
<1>9. ASSUME NEW q \in Jobs
      PROVE  Lives(q)'
  BY <1>1, <1>2, <1>7 DEF Lives, Last
<1>10. ASSUME NEW k \in Slots
       PROVE  Served(k)'
  BY <1>1, <1>2 DEF Served
<1>11. Ending'
  BY <1>2, <1>3 DEF Ending
<1> QED
  BY <1>2, <1>4, <1>5, <1>6, <1>8, <1>9, <1>10, <1>11 DEF WorkerInv

\* A resident is told the reason; a state that cannot be released stays behind.
LEMMA CloseSlotInv ==
    ASSUME WorkerInv, CloseSlot
    PROVE  WorkerInv'
<1>1. /\ WorkerTyped /\ Control /\ Members /\ Held /\ OnePlace /\ Ending
      /\ \A q \in Jobs : Lives(q)
      /\ \A k \in Slots : Served(k)
  BY DEF WorkerInv
<1>2. /\ pc = "closing" /\ pc' = pc /\ at < Residents /\ at' = at + 1
      /\ cursor' = cursor /\ start' = start /\ tokens' = tokens /\ inputs' = inputs
      /\ queue' = queue /\ closed' = closed /\ cancel' = cancel
      /\ stop' = stop /\ healthy' = healthy /\ finished' = finished /\ client' = client /\ got' = got
  BY DEF CloseSlot, clients, round
<1>3. PICK i \in Slots : i = at
  BY <1>1, <1>2, WorkerAssumption DEF WorkerTyped, Slots
<1>4. /\ at' \in 0 .. Residents /\ closed /\ inputs = << >>
      /\ \A k \in Slots : k < at' => k = i \/ k < at
  BY <1>1, <1>2, <1>3, WorkerAssumption DEF WorkerTyped, Slots, Ending, Control, Calling
<1>5. Control' /\ Members'
  BY <1>1, <1>2, <1>4 DEF Control, Members, Calling
<1>6. \A k : ~Published(k) /\ ~Published(k)'
  BY <1>2 DEF Published
<1>7. CASE slots[i] = None
  <2>1. active' = active /\ out' = out /\ slots' = slots /\ owner' = owner /\ result' = result /\ ended' = ended
    BY <1>3, <1>7 DEF CloseSlot
  <2>2. WorkerTyped'
    BY <1>1, <1>2, <1>4, <2>1 DEF WorkerTyped
  <2>3. \A q : (Queued(q)' <=> Queued(q)) /\ (Resident(q)' <=> Resident(q))
    BY <1>2, <2>1 DEF Queued, Resident
  <2>4. Held' /\ OnePlace'
    BY <1>1, <1>2, <1>6, <2>1, <2>3 DEF Held, OnePlace
  <2>5. ASSUME NEW q \in Jobs
        PROVE  Lives(q)'
    BY <1>1, <1>2, <2>1, <2>3 DEF Lives, Last
  <2>6. ASSUME NEW k \in Slots
        PROVE  Served(k)'
    BY <1>1, <1>2, <2>1 DEF Served
  <2>7. Ending'
    BY <1>1, <1>2, <1>4, <1>7, <2>1 DEF Ending
  <2> QED
    BY <1>2, <1>4, <1>5, <2>2, <2>4, <2>5, <2>6, <2>7 DEF WorkerInv
<1>8. CASE slots[i] # None
  <2>1. PICK j \in Jobs : j = slots[i].job
    BY <1>1, <1>8, ResidentTyped
  <2>2. /\ slots' = [slots EXCEPT ![i] = None] /\ SendLast(j, "err")
        /\ active' = [active EXCEPT ![IdOf[j]] = None]
        /\ \/ result = "ok" /\ owner' = [owner EXCEPT ![i] = None] /\ result' = result
           \/ result' = "err" /\ owner' = owner
    BY <1>3, <1>8, <2>1 DEF CloseSlot, Forget
  <2>3. /\ slots' \in [Slots -> Running \cup {None}] /\ slots'[i] = None
        /\ \A k \in Slots : k # i => slots'[k] = slots[k]
        /\ \A q : Queued(q)' <=> Queued(q)
        /\ \A q : Resident(q)' <=> Resident(q) /\ q # j
        /\ Resident(j) /\ ~Queued(j) /\ OnePlace'
    BY <1>1, <1>2, <1>8, <2>1, <2>2, SlotEmptied
  <2>4. Lives(j) /\ Last(j) /\ ended[j] = "no"
    BY <1>1, <2>3 DEF Lives
  <2>5. /\ out' \in [Jobs -> Seq(Items)] /\ ended' \in [Jobs -> {"no", "final", "err", "silent"}]
        /\ ended'[j] \in {"err", "silent"} /\ Last(j)'
        /\ \A q \in Jobs : q # j => out'[q] = out[q] /\ ended'[q] = ended[q]
        /\ client[j] # "open" => out'[j] = out[j]
    BY <1>1, <1>2, <2>2, <2>4, LastSent
  <2>6. /\ owner' \in [Slots -> Jobs \cup {None}] /\ result' \in {"ok", "err"}
        /\ \A k \in Slots : k # i => owner'[k] = owner[k]
        /\ owner'[i] = None \/ (owner'[i] = owner[i] /\ result' = "err")
        /\ result' = "ok" => result = "ok"
    BY <1>1, <2>2 DEF WorkerTyped
  <2>7. active' \in [{IdOf[q] : q \in Jobs} -> Jobs \cup {None}]
    BY <1>1, <2>2 DEF WorkerTyped
  <2>8. WorkerTyped'
    BY <1>1, <1>2, <1>4, <2>3, <2>5, <2>6, <2>7 DEF WorkerTyped
  <2>9. Held'
    <3>1. ASSUME NEW k \in Slots, k # i, slots[k] = None, owner[k] # None
          PROVE  ended'[owner[k]] \in {"err", "silent"}
      <4>1. owner[k] \in Jobs /\ ended[owner[k]] \in {"err", "silent"}
        BY <1>1, <3>1 DEF WorkerTyped, Held
      <4> QED
        BY <2>4, <2>5, <4>1
    <3>2. owner[i] = j
      BY <1>1, <1>6, <1>8, <2>1 DEF Held
    <3>3. ASSUME NEW k \in Slots
          PROVE  /\ slots'[k] # None => owner'[k] = slots'[k].job
                 /\ slots'[k] = None /\ result' = "ok" => owner'[k] = None
                 /\ slots'[k] = None /\ owner'[k] # None => ended'[owner'[k]] \in {"err", "silent"}
      <4>1. CASE k = i
        BY <2>3, <2>5, <2>6, <3>2, <4>1
      <4>2. CASE k # i
        BY <1>1, <1>6, <2>3, <2>6, <3>1, <4>2 DEF Held
      <4> QED
        BY <4>1, <4>2
    <3> QED
      BY <1>6, <3>3 DEF Held
  <2>10. \A q \in Jobs : Lives(q)'
    BY <1>1, <1>2, <1>4, <2>3, <2>5, JobEnds
  <2>11. ASSUME NEW k \in Slots
         PROVE  Served(k)'
    <3>1. CASE k = i \/ slots[k] = None
      BY <2>3, <3>1 DEF Served
    <3>2. CASE k # i /\ slots[k] # None
      <4>1. slots[k].job # j /\ slots[k].job \in Jobs
        BY <1>1, <1>8, <2>1, <3>2, ResidentTyped DEF OnePlace
      <4>2. slots'[k] = slots[k] /\ out'[slots[k].job] = out[slots[k].job] /\ Served(k)
        BY <1>1, <2>3, <2>5, <3>2, <4>1
      <4> QED
        BY <1>2, <4>2 DEF Served
    <3> QED
      BY <3>1, <3>2
  <2>12. Ending'
    BY <1>1, <1>2, <1>4, <2>3 DEF Ending
  <2> QED
    BY <1>2, <1>4, <1>5, <2>3, <2>8, <2>9, <2>10, <2>11, <2>12 DEF WorkerInv
<1> QED
  BY <1>7, <1>8

\* What is left in the closed channel is told the reason too.
LEMMA DrainQueuedInv ==
    ASSUME WorkerInv, DrainQueued
    PROVE  WorkerInv'
<1>1. /\ WorkerTyped /\ Control /\ Members /\ Held /\ OnePlace /\ Ending
      /\ \A q \in Jobs : Lives(q)
      /\ \A k \in Slots : Served(k)
  BY DEF WorkerInv
<1>2. /\ pc = "closing" /\ queue # << >> /\ queue' = Tail(queue) /\ SendLast(Head(queue), "err")
      /\ pc' = pc /\ at' = at /\ result' = result
      /\ cursor' = cursor /\ start' = start /\ tokens' = tokens /\ inputs' = inputs
      /\ closed' = closed /\ active' = active /\ cancel' = cancel
      /\ stop' = stop /\ healthy' = healthy /\ finished' = finished /\ client' = client /\ got' = got
      /\ slots' = slots /\ owner' = owner
  BY DEF DrainQueued, clients, round
<1>3. PICK j \in Jobs : j = Head(queue)
  BY <1>1, <1>2, HeadLeaves
<1>4. /\ queue' \in Seq(Jobs) /\ Queued(j) /\ ~Resident(j)
      /\ \A q : Queued(q)' <=> Queued(q) /\ q # j
      /\ \A k, l \in 1 .. Len(queue') : queue'[k] = queue'[l] => k = l
  BY <1>1, <1>2, <1>3, HeadLeaves
<1>5. \A q : (Resident(q)' <=> Resident(q)) /\ (Resident(q)' <=> Resident(q) /\ q # j)
  BY <1>2, <1>4 DEF Resident
<1>6. Lives(j) /\ Last(j) /\ ended[j] = "no"
  BY <1>1, <1>4 DEF Lives
<1>7. /\ out' \in [Jobs -> Seq(Items)] /\ ended' \in [Jobs -> {"no", "final", "err", "silent"}]
      /\ ended'[j] \in {"err", "silent"} /\ Last(j)'
      /\ \A q \in Jobs : q # j => out'[q] = out[q] /\ ended'[q] = ended[q]
      /\ client[j] # "open" => out'[j] = out[j]
  BY <1>1, <1>2, <1>3, <1>6, LastSent
<1>8. WorkerTyped'
  BY <1>1, <1>2, <1>4, <1>7 DEF WorkerTyped
<1>9. Control' /\ Members'
  BY <1>1, <1>2 DEF Control, Members, Calling
<1>10. closed /\ \A k : ~Published(k) /\ ~Published(k)'
  BY <1>1, <1>2 DEF Published, Ending
<1>11. Held'
  <2>1. ASSUME NEW k \in Slots, slots[k] = None, owner[k] # None
        PROVE  ended'[owner[k]] \in {"err", "silent"}
    <3>1. owner[k] \in Jobs /\ ended[owner[k]] \in {"err", "silent"}
      BY <1>1, <2>1 DEF WorkerTyped, Held
    <3> QED
      BY <1>6, <1>7, <3>1
  <2> QED
    BY <1>1, <1>2, <1>10, <2>1 DEF Held
<1>12. OnePlace'
  BY <1>1, <1>2, <1>4, <1>5 DEF OnePlace
<1>13. \A q \in Jobs : Lives(q)'
  BY <1>1, <1>2, <1>4, <1>5, <1>7, <1>10, JobEnds
<1>14. ASSUME NEW k \in Slots
       PROVE  Served(k)'
  <2>1. CASE slots[k] = None
    BY <1>2, <2>1 DEF Served
  <2>2. CASE slots[k] # None
    <3>1. slots[k].job # j /\ slots[k].job \in Jobs
      BY <1>1, <1>4, <2>2, ResidentTyped DEF Resident
    <3>2. slots'[k] = slots[k] /\ out'[slots[k].job] = out[slots[k].job] /\ Served(k)
      BY <1>1, <1>2, <1>7, <3>1
    <3> QED
      BY <1>2, <3>2 DEF Served
  <2> QED
    BY <2>1, <2>2
<1>15. Ending'
  BY <1>1, <1>2 DEF Ending
<1> QED
  BY <1>2, <1>8, <1>9, <1>10, <1>11, <1>12, <1>13, <1>14, <1>15 DEF WorkerInv

\* No id stays reserved, and the thread's guard tells it has ended.
LEMMA ExitInv ==
    ASSUME WorkerInv, ClearActive \/ Exit
    PROVE  WorkerInv'
<1>1. /\ WorkerTyped /\ Control /\ Members /\ Held /\ OnePlace /\ Ending
      /\ \A q \in Jobs : Lives(q)
      /\ \A k \in Slots : Served(k)
  BY DEF WorkerInv
<1>2. /\ (pc = "closing" /\ at = Residents /\ queue = << >> /\ pc' = "exit") \/ (pc = "exit" /\ pc' = "done")
      /\ at' = at /\ cursor' = cursor /\ start' = start /\ tokens' = tokens /\ inputs' = inputs
      /\ queue' = queue /\ closed' = closed /\ cancel' = cancel /\ out' = out /\ stop' = stop
      /\ client' = client /\ got' = got /\ slots' = slots /\ owner' = owner /\ ended' = ended
      /\ result' \in {result, "err"} /\ healthy' \in {healthy, FALSE} /\ finished' \in {finished, TRUE}
  BY DEF ClearActive, Exit, clients, round
<1>3. active' \in [{IdOf[q] : q \in Jobs} -> Jobs \cup {None}] /\ \A id \in DOMAIN active' : active'[id] = None
  <2>1. CASE ClearActive
    BY <1>1, <2>1 DEF ClearActive, WorkerTyped
  <2>2. CASE Exit
    BY <1>1, <2>2 DEF Exit, Ending, WorkerTyped
  <2> QED
    BY <2>1, <2>2
<1>4. WorkerTyped'
  <2>1. result' \in {"ok", "err"} /\ pc' \in Places
    BY <1>1, <1>2 DEF WorkerTyped, Places
  <2>2. healthy' \in BOOLEAN /\ finished' \in BOOLEAN /\ closed' \in BOOLEAN /\ stop' \in BOOLEAN
    BY <1>1, <1>2 DEF WorkerTyped
  <2> QED
    BY <1>1, <1>2, <1>3, <2>1, <2>2 DEF WorkerTyped
<1>5. Control' /\ Members'
  BY <1>1, <1>2 DEF Control, Members, Calling
<1>6. /\ \A k : ~Published(k) /\ ~Published(k)'
      /\ \A q : (Queued(q)' <=> Queued(q)) /\ (Resident(q)' <=> Resident(q))
  BY <1>2 DEF Published, Queued, Resident
<1>7. Held' /\ OnePlace'
  BY <1>1, <1>2, <1>6 DEF Held, OnePlace
<1>8. ASSUME NEW q \in Jobs
      PROVE  Lives(q)'
  BY <1>1, <1>2, <1>6 DEF Lives, Last
<1>9. \A k \in Slots : slots[k] = None
  BY <1>1, <1>2, WorkerAssumption DEF Ending, Slots
<1>10. \A k \in Slots : Served(k)'
  BY <1>2, <1>9 DEF Served
<1>11. closed /\ Ending'
  BY <1>1, <1>2, <1>3, <1>9 DEF Ending
<1> QED
  BY <1>2, <1>4, <1>5, <1>7, <1>8, <1>10, <1>11 DEF WorkerInv

\* Nothing changes in a step that is not of this system.
LEMMA WorkerStutterInv ==
    ASSUME WorkerInv, UNCHANGED vars
    PROVE  WorkerInv'
<1>1. /\ queue' = queue /\ closed' = closed /\ active' = active /\ cancel' = cancel /\ out' = out
      /\ stop' = stop /\ healthy' = healthy /\ finished' = finished /\ client' = client /\ got' = got
      /\ slots' = slots /\ owner' = owner /\ pc' = pc /\ at' = at /\ cursor' = cursor /\ start' = start
      /\ tokens' = tokens /\ inputs' = inputs /\ result' = result /\ ended' = ended
  BY DEF vars, shared, clients, worker, round
<1>2. /\ \A k : Published(k)' <=> Published(k)
      /\ \A q : (Queued(q)' <=> Queued(q)) /\ (Resident(q)' <=> Resident(q))
  BY <1>1 DEF Published, Queued, Resident
<1>3. \A q : Named(q)' <=> Named(q)
  BY <1>1, <1>2 DEF Named
<1>4. WorkerTyped'
  BY <1>1 DEF WorkerInv, WorkerTyped
<1>5. Control' /\ Members'
  BY <1>1 DEF WorkerInv, Control, Members, Member
<1>6. Held' /\ OnePlace'
  BY <1>1, <1>2 DEF WorkerInv, Held, OnePlace
<1>7. \A q \in Jobs : Lives(q)'
  BY <1>1, <1>2 DEF WorkerInv, Lives, Last
<1>8. \A k \in Slots : Served(k)'
  BY <1>1 DEF WorkerInv, Served
<1>9. (~closed' => Tracks') /\ Ending'
  BY <1>1, <1>3 DEF WorkerInv, Tracks, Ending
<1> QED
  BY <1>4, <1>5, <1>6, <1>7, <1>8, <1>9 DEF WorkerInv

\* Every step of a client and of the worker.
LEMMA WorkerStepInv ==
    ASSUME WorkerInv, [Next]_vars
    PROVE  WorkerInv'
<1>1. CASE Client
  <2>1. ASSUME NEW j \in Jobs, CheckHealth(j) \/ Enqueue(j) \/ Receive(j) \/ Disconnect(j)
        PROVE  WorkerInv'
    BY <2>1, CheckHealthInv, EnqueueInv, ReceiveInv, DisconnectInv
  <2> QED
    BY <1>1, <2>1, FlagsInv DEF Client
<1>2. CASE Top \/ ScanCancelled \/ ScanNext \/ DropQueued \/ Admit
  BY <1>2, TopInv, CancelledInv, ScanNextInv, DropQueuedInv, AdmitInv
<1>3. CASE RoundEnd \/ RoundSkip \/ RoundCancelled \/ RoundDefer \/ RoundCall
  BY <1>3, RoundEndInv, RoundSkipInv, CancelledInv, RoundCallInv
<1>4. CASE Collect \/ Collected \/ NativeReturns
  BY <1>4, CollectInv, CollectedInv, NativeReturnsInv
<1>5. CASE Finish \/ Complete \/ Publish
  BY <1>5, FinishInv, CompleteInv, PublishInv
<1>6. CASE CloseQueue \/ CloseSlot \/ DrainQueued \/ ClearActive \/ Exit
  BY <1>6, CloseQueueInv, CloseSlotInv, DrainQueuedInv, ExitInv
<1>7. CASE UNCHANGED vars
  BY <1>7, WorkerStutterInv
<1> QED
  BY <1>1, <1>2, <1>3, <1>4, <1>5, <1>6, <1>7 DEF Next, Worker

\* The map's entries are written under the ids of their jobs.
LEMMA OwnIdsStep ==
    ASSUME WorkerInv, OwnIds, [Next]_vars
    PROVE  OwnIds'
<1>1. /\ active \in [{IdOf[j] : j \in Jobs} -> Jobs \cup {None}]
      /\ queue \in Seq(Jobs) /\ WorkerTyped /\ Control /\ Members
  BY DEF WorkerInv, WorkerTyped
<1>2. ASSUME NEW j, Forget(j)
      PROVE  OwnIds'
  BY <1>1, <1>2 DEF OwnIds, Forget
<1>3. ASSUME NEW j \in Jobs, active' = [active EXCEPT ![IdOf[j]] = j]
      PROVE  OwnIds'
  BY <1>1, <1>3 DEF OwnIds
<1>4. CASE active' = active
  BY <1>4 DEF OwnIds
<1>5. CASE Client
  <2>1. ASSUME NEW j \in Jobs, Enqueue(j)
        PROVE  OwnIds'
    BY <1>3, <1>4, <2>1 DEF Enqueue
  <2>2. ASSUME NEW j \in Jobs, CheckHealth(j) \/ Receive(j) \/ Disconnect(j)
        PROVE  active' = active
    BY <2>2 DEF CheckHealth, Receive, Disconnect, shared
  <2>3. ASSUME NEW id \in DOMAIN active, Abort(id)
        PROVE  active' = active
    BY <2>3 DEF Abort
  <2>4. ASSUME NEW s \in Shutters, Shutdown(s) \/ ShutdownLock(s) \/ ShutdownReturn(s)
        PROVE  active' = active
    BY <2>4 DEF Shutdown, ShutdownLock, ShutdownReturn, shared
  <2> QED
    BY <1>4, <1>5, <2>1, <2>2, <2>3, <2>4 DEF Client
<1>6. CASE ScanCancelled \/ RoundCancelled \/ DropQueued \/ Complete \/ CloseSlot
  <2>1. active' = active \/ \E j : Forget(j)
    BY <1>6 DEF ScanCancelled, RoundCancelled, DropQueued, Complete, CloseSlot, ReleaseCancelled
  <2> QED
    BY <1>2, <1>4, <2>1
<1>7. CASE ClearActive
  BY <1>1, <1>7 DEF ClearActive, OwnIds
<1>8. CASE \/ Top \/ ScanNext \/ Admit \/ RoundEnd \/ RoundSkip \/ RoundDefer \/ RoundCall
           \/ Collect \/ Collected \/ NativeReturns \/ Finish \/ Publish \/ CloseQueue \/ DrainQueued \/ Exit
  <2>1. active' = active
    BY <1>8 DEF Top, ScanNext, Admit, RoundEnd, RoundSkip, RoundDefer, RoundCall, Collect, Collected,
                NativeReturns, Finish, Publish, CloseQueue, DrainQueued, Exit, shared
  <2> QED
    BY <1>4, <2>1
<1>9. CASE UNCHANGED vars
  BY <1>4, <1>9 DEF vars, shared
<1> QED
  BY <1>5, <1>6, <1>7, <1>8, <1>9 DEF Next, Worker

\* The receiver is handed to one caller at a time.
LEMMA HandedStep ==
    ASSUME Handed, [Next]_vars
    PROVE  Handed'
<1>1. ASSUME NEW s \in Shutters, Shutdown(s)
      PROVE  Handed'
  <2>1. /\ shutter[s] = "idle" /\ shutter' = [shutter EXCEPT ![s] = "waiting"]
        /\ receiver' = receiver /\ finished' = finished
    BY <1>1 DEF Shutdown
  <2> QED
    BY <2>1 DEF Handed
<1>2. ASSUME NEW s \in Shutters, ShutdownLock(s)
      PROVE  Handed'
  <2>1. /\ shutter[s] = "waiting" /\ \A t \in Shutters : shutter[t] # "awaiting"
        /\ shutter' = [shutter EXCEPT ![s] = IF receiver THEN "awaiting" ELSE "returned"]
        /\ receiver' = FALSE /\ finished' = finished
    BY <1>2 DEF ShutdownLock, shared
  <2>2. CASE receiver
    <3>1. shutter' = [shutter EXCEPT ![s] = "awaiting"]
      BY <2>1, <2>2
    <3> QED
      BY <2>1, <3>1 DEF Handed
  <2>3. CASE ~receiver
    <3>1. shutter' = [shutter EXCEPT ![s] = "returned"] /\ finished
      BY <2>1, <2>3 DEF Handed
    <3> QED
      BY <2>1, <3>1 DEF Handed
  <2> QED
    BY <2>2, <2>3
<1>3. ASSUME NEW s \in Shutters, ShutdownReturn(s)
      PROVE  Handed'
  <2>1. /\ finished /\ finished' = finished /\ shutter' = [shutter EXCEPT ![s] = "returned"]
    BY <1>3 DEF ShutdownReturn, shared
  <2> QED
    BY <2>1 DEF Handed
<1>4. CASE UNCHANGED <<shutter, receiver>> /\ (finished' = finished \/ finished' = TRUE)
  BY <1>4 DEF Handed
<1>5. CASE Client
  <2>1. ASSUME NEW j \in Jobs, CheckHealth(j) \/ Enqueue(j) \/ Receive(j) \/ Disconnect(j)
        PROVE  UNCHANGED <<shutter, receiver>> /\ finished' = finished
    BY <2>1 DEF CheckHealth, Enqueue, Receive, Disconnect, shared
  <2>2. ASSUME NEW id \in DOMAIN active, Abort(id)
        PROVE  UNCHANGED <<shutter, receiver>> /\ finished' = finished
    BY <2>2 DEF Abort, clients
  <2> QED
    BY <1>1, <1>2, <1>3, <1>4, <1>5, <2>1, <2>2 DEF Client
<1>6. CASE Worker
  <2>1. UNCHANGED clients
    BY <1>6 DEF Worker, Top, ScanCancelled, ScanNext, DropQueued, Admit, RoundEnd, RoundSkip, RoundCancelled,
                RoundDefer, RoundCall, Collect, Collected, NativeReturns, Finish, Complete, Publish,
                CloseQueue, CloseSlot, DrainQueued, ClearActive, Exit
  <2>2. finished' = finished \/ finished' = TRUE
    BY <1>6 DEF Worker, Top, ScanCancelled, ScanNext, DropQueued, Admit, RoundEnd, RoundSkip, RoundCancelled,
                RoundDefer, RoundCall, Collect, Collected, NativeReturns, Finish, Complete, Publish,
                CloseQueue, CloseSlot, DrainQueued, ClearActive, Exit, shared
  <2> QED
    BY <1>4, <2>1, <2>2 DEF clients
<1>7. CASE UNCHANGED vars
  BY <1>4, <1>7 DEF vars, shared, clients
<1> QED
  BY <1>5, <1>6, <1>7 DEF Next

----------------------------------------------------------------------------
(* What the invariant says.                                                *)

\* What a native call relies on.
LEMMA CallsSound == WorkerInv => NativeCallSound
<1> SUFFICES ASSUME WorkerInv, pc = "native"
             PROVE  NativeCallSound
  BY DEF NativeCallSound
<1>1. WorkerTyped /\ Control /\ Members /\ Held
  BY DEF WorkerInv
<1>2. tokens <= TokenBudget /\ (BatchCapacity > 0 => tokens <= BatchCapacity) /\ DOMAIN inputs = 1 .. Len(inputs)
  BY <1>1, WorkerAssumption DEF WorkerTyped, Control
<1>3. \A k : ~Published(k)
  BY DEF Published
<1>4. ASSUME NEW k \in 1 .. Len(inputs), NEW i, i = inputs[k].slot
      PROVE  /\ slots[i] # None /\ owner[i] = slots[i].job
             /\ client[slots[i].job] = "open" => CanSend(slots[i].job)
             /\ Within(slots[i], inputs[k].count)
  <2>1. Member(k) /\ i \in Slots
    BY <1>1, <1>4, MembersTyped DEF Members
  <2> QED
    BY <1>1, <1>3, <1>4, <2>1 DEF Member, Held, CanSend
<1> QED
  BY <1>1, <1>2, <1>4 DEF NativeCallSound, Members, Within

\* The jobs the worker still answers for are the ones whose id is not given back.
LEMMA PendingNamed ==
    ASSUME WorkerInv, NEW j
    PROVE  (j \in Pending <=> Named(j)) /\ (j \in Pending => j \in Jobs)
<1>1. WorkerTyped /\ Control /\ Members /\ queue \in Seq(Jobs)
  BY DEF WorkerInv, WorkerTyped
<1>2. DOMAIN queue = 1 .. Len(queue) /\ \A k \in 1 .. Len(queue) : queue[k] \in Jobs
  BY <1>1
<1>3. \A i \in Slots : (pc = "publish" /\ Head(inputs).slot = i) <=> Published(i)
  BY <1>1, FirstMember DEF Published
<1>4. \A i \in Slots : slots[i] # None => slots[i].job \in Jobs
  BY <1>1, ResidentTyped
<1> QED
  BY <1>2, <1>3, <1>4 DEF Pending, Named, Queued

\* What the active map says of the requests, and what a worker leaves.
LEMMA AllAccounted == WorkerInv /\ OwnIds => RequestsAccounted
<1> SUFFICES ASSUME WorkerInv, OwnIds
             PROVE  ActiveTracksJobs /\ CleanEnd
  BY DEF RequestsAccounted
<1>1. WorkerTyped /\ Held /\ Ending /\ (~closed => Tracks) /\ \A j \in Jobs : Lives(j)
  BY DEF WorkerInv
<1>2. active \in [{IdOf[j] : j \in Jobs} -> Jobs \cup {None}]
  BY <1>1 DEF WorkerTyped
<1>3. ASSUME ~closed, NEW id \in DOMAIN active
      PROVE  {j \in Pending : IdOf[j] = id} = IF active[id] = None THEN {} ELSE {active[id]}
  <2>1. ASSUME NEW j \in Pending, IdOf[j] = id
        PROVE  active[id] = j /\ j # None
    <3>1. Named(j) /\ j \in Jobs
      BY PendingNamed
    <3> QED
      BY <1>1, <1>3, <2>1, <3>1, WorkerAssumption DEF Tracks
  <2>2. ASSUME active[id] # None
        PROVE  active[id] \in Pending /\ IdOf[active[id]] = id
    <3>1. PICK j \in Jobs : j = active[id]
      BY <1>2, <2>2
    <3>2. IdOf[j] = id
      BY <2>2, <3>1 DEF OwnIds
    <3>3. Named(j)
      BY <1>1, <1>3, <3>1, <3>2 DEF Tracks
    <3>4. j \in Pending
      BY <3>3, PendingNamed
    <3> QED
      BY <3>1, <3>2, <3>4
  <2> QED
    BY <2>1, <2>2
<1>4. ActiveTracksJobs
  BY <1>3 DEF ActiveTracksJobs
<1>5. CleanEnd
  <2> SUFFICES ASSUME pc = "done"
               PROVE  /\ \A id \in DOMAIN active : active[id] = None
                      /\ \A j \in Jobs : client[j] \in {"open", "gone"} => ended[j] # "no"
                      /\ result = "ok" => \A i \in Slots : owner[i] = None
    BY DEF CleanEnd
  <2>1. /\ queue = << >> /\ \A i \in Slots : slots[i] = None
        /\ \A id \in DOMAIN active : active[id] = None
    BY <1>1 DEF Ending
  <2>2. \A j : ~Queued(j) /\ ~Resident(j)
    BY <2>1 DEF Queued, Resident
  <2> QED
    BY <1>1, <2>1, <2>2 DEF Lives, Held
<1> QED
  BY <1>4, <1>5

\* What clients have received and will receive.
LEMMA AllAnswered == WorkerInv => ResponsesExact
<1> SUFFICES ASSUME WorkerInv
             PROVE  NoResponseLost /\ FinalIsLast
  BY DEF ResponsesExact
<1>1. WorkerTyped /\ Held /\ (\A j \in Jobs : Lives(j)) /\ \A i \in Slots : Served(i)
  BY DEF WorkerInv
<1>2. NoResponseLost
  BY <1>1 DEF NoResponseLost, Served, Lives
<1>3. ASSUME NEW j \in Jobs, NEW i \in Slots, ended[j] = "final"
      PROVE  owner[i] # j
  <2>1. ~Resident(j) /\ j # None
    BY <1>1, <1>3, WorkerAssumption DEF Lives
  <2>2. ended[owner[i]] \in {"err", "silent"} => owner[i] # j
    BY <1>3
  <2> QED
    BY <1>1, <2>1, <2>2 DEF Held, Resident
<1>4. ASSUME NEW j \in Jobs, NEW k \in DOMAIN (got[j] \o out[j]), (got[j] \o out[j])[k] # "token"
      PROVE  k = Len(got[j] \o out[j]) /\ ended[j] = (got[j] \o out[j])[k]
  <2> DEFINE g == got[j]
             o == out[j]
             all == g \o o
             a == Len(g)
             b == Len(o)
             c == Len(all)
  <2>1. /\ g \in Seq(Items) /\ o \in Seq(Items) /\ a \in Nat /\ b \in Nat
    BY <1>1 DEF WorkerTyped
  <2>2. Last(j)
    BY <1>1 DEF Lives
  <2>3. c = a + b /\ DOMAIN all = 1 .. c
    BY <2>1
  <2>4. \A m \in 1 .. c : all[m] = IF m <= a THEN g[m] ELSE o[m - a]
    BY <2>1
  <2>5. k \in 1 .. c /\ all[k] # "token"
    BY <1>4, <2>3
  <2>6. CASE k <= a
    <3>1. k \in 1 .. a /\ all[k] = g[k]
      <4> HIDE DEF a, b, c, all
      <4> QED
        BY <2>1, <2>3, <2>4, <2>5, <2>6
    <3>2. k = a /\ o = << >> /\ ended[j] = g[k]
      BY <2>2, <2>5, <3>1 DEF Last
    <3>3. b = 0
      BY <3>2
    <3>4. k = c
      <4> HIDE DEF a, b, c
      <4> QED
        BY <2>1, <2>3, <3>2, <3>3
    <3> QED
      BY <3>1, <3>2, <3>4
  <2>7. CASE ~(k <= a)
    <3>1. k - a \in 1 .. b /\ all[k] = o[k - a]
      <4> HIDE DEF a, b, c, all
      <4> QED
        BY <2>1, <2>3, <2>4, <2>5, <2>7
    <3>2. k - a = b /\ ended[j] = o[k - a]
      <4> DEFINE m == k - a
      <4>1. m \in 1 .. b /\ o[m] # "token"
        BY <2>5, <3>1
      <4> HIDE DEF m
      <4>2. m = b /\ ended[j] = o[m]
        BY <2>2, <4>1 DEF Last
      <4> QED
        BY <4>2 DEF m
    <3>3. k = c
      <4> HIDE DEF a, b, c
      <4> QED
        BY <2>1, <2>3, <2>5, <3>2
    <3> QED
      BY <3>1, <3>2, <3>3
  <2> QED
    BY <2>6, <2>7
<1>5. FinalIsLast
  <2> SUFFICES ASSUME NEW j \in Jobs, NEW k \in DOMAIN (got[j] \o out[j]), (got[j] \o out[j])[k] # "token"
               PROVE  /\ k = Len(got[j] \o out[j]) /\ ended[j] = (got[j] \o out[j])[k]
                      /\ (got[j] \o out[j])[k] = "final" => \A i \in Slots : owner[i] # j
    BY DEF FinalIsLast
  <2> QED
    BY <1>3, <1>4
<1> QED
  BY <1>2, <1>5

----------------------------------------------------------------------------
(* The theorems.                                                           *)

\* Whatever clients do and whichever call fails, the worker's state is the one
\* the steps of its loop assume of each other.
THEOREM WorkerInductive == Spec => [](WorkerInv /\ OwnIds)
<1>1. Init => WorkerInv /\ OwnIds
  BY WorkerInitInv DEF Init, OwnIds
<1>2. WorkerInv /\ OwnIds /\ [Next]_vars => WorkerInv' /\ OwnIds'
  BY WorkerStepInv, OwnIdsStep
<1> QED
  BY <1>1, <1>2, PTL DEF Spec

\* The members of a native call are different residents whose state the engine
\* holds and whose clients have room; the call stays within the budget, every
\* checkpoint boundary and every prompt.
THEOREM NativeCallsAreSound == Spec => []NativeCallSound
BY WorkerInductive, CallsSound, PTL

\* The active map names exactly the requests the worker still answers for, and
\* a worker that ended leaves no id reserved and no accepted request unanswered.
THEOREM RequestsAreAccounted == Spec => []RequestsAccounted
BY WorkerInductive, AllAccounted, PTL

\* Every connected client gets every response of its request, the last one last
\* and only after the engine gave the request's state up.
THEOREM ResponsesAreExact == Spec => []ResponsesExact
BY WorkerInductive, AllAnswered, PTL

\* No caller of shutdown, of however many, returns before the worker ended.
THEOREM ShutdownsWait == Spec => []ShutdownWaits
<1>1. Init => Handed
  BY DEF Init, Handed
<1>2. Handed /\ [Next]_vars => Handed'
  BY HandedStep
<1>3. Handed => ShutdownWaits
  BY DEF Handed, ShutdownWaits
<1> QED
  BY <1>1, <1>2, <1>3, PTL DEF Spec
=============================================================================
