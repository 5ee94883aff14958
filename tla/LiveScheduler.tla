--------------------------- MODULE LiveScheduler ---------------------------
(***************************************************************************)
(* crates/inferfabric-scheduler/src/live.rs: continuous scheduling of      *)
(* requests that prefill in one pool and decode in another.  One call of   *)
(* step runs a decode batch, a budgeted round of prefill chunks and the    *)
(* hand-over of finished prompts; here each iteration of its loops is an   *)
(* action, and submit and cancel come between calls only (phase idle).     *)
(* A token is a stop token or not, chosen when it is emitted.  A hand-over *)
(* runs reserve, transfer, complete, commit and acknowledge on a fresh     *)
(* lease in one go, so of the transport only its pool shows.  The epoch is *)
(* left out: no lease outlives its job here, and generations already tell  *)
(* leases apart.                                                           *)
(***************************************************************************)
EXTENDS ResourcePool, Sequences

CONSTANTS
    Requests,     \* what clients may submit: [id, prompt, max_new], lengths in tokens
    Batch,        \* the largest batch bucket
    TokenBudget,  \* prompt tokens one step may consume
    MaxContext,   \* the largest context bucket
    MaxSubmits    \* bound on admissions; no bound when Generations = 1

ASSUME SchedulerAssumption ==
    /\ Batch \in Nat \ {0} /\ TokenBudget \in Nat \ {0} /\ MaxSubmits \in Nat \ {0}
    /\ MaxContext \in Nat
    /\ \A r \in Requests :
          /\ r.id \in Nat /\ r.prompt \in Nat \ {0} /\ r.max_new \in Nat \ {0}
          /\ r.prompt + r.max_new <= MaxContext

VARIABLES
    p_pool, d_pool,  \* prefill pool, and the decode pool inside the transport
    jobs,            \* by id, admitted and not ended
    queue,           \* ids in prefill order
    phase,           \* the part of step that runs: idle, ensure, emit, prefill or hand_over
    todo,            \* ids the running loop has still to visit, lowest first
    turns, budget,   \* queue entries to visit and prompt tokens left, while phase = prefill
    inputs,          \* what the loop gathered for the workers
    ok               \* FALSE once a call failed other than for capacity, or panicked

liveVars == <<p_pool, d_pool, jobs, queue, phase, todo, turns, budget, inputs, ok>>

\* A job's prefill and decode leases are sets of at most one lease.
The(option) == CHOOSE l \in option : TRUE

Least(ids) == CHOOSE id \in ids : \A other \in ids : id <= other

Smaller(a, b) == IF a < b THEN a ELSE b

\* The other ids of the queue, in their order.
Dequeued(id) ==
    LET kept == {i \in DOMAIN queue : queue[i] # id}
    IN  [k \in 1 .. Cardinality(kept) |->
            queue[CHOOSE i \in kept : Cardinality({j \in kept : j < i}) = k - 1]]

LiveInit ==
    /\ p_pool = NewPool /\ d_pool = NewPool /\ jobs = << >> /\ queue = << >>
    /\ phase = "idle" /\ todo = {} /\ turns = 0 /\ budget = 0 /\ inputs = {} /\ ok = TRUE

\* An error or a panic ends the call, and the scheduler with it.
Fail == ok' = FALSE /\ UNCHANGED <<p_pool, d_pool, jobs, queue>>

Submit(r) ==
    LET lease == NewLease(p_pool, r.id, 0, r.prompt)
        job == [prompt |-> r.prompt, max_new |-> r.max_new, consumed |-> 0, generated |-> 0,
                prefill |-> {lease}, decode |-> {}]
    IN  /\ ok /\ phase = "idle" /\ p_pool.generation < MaxSubmits
        /\ r.id \notin DOMAIN jobs /\ Cardinality(DOMAIN jobs) < NumSlots
        /\ PagesFor(r.prompt) <= NumPages
        /\ ~Owns(p_pool, r.id) /\ HasRoom(p_pool, r.prompt)
        /\ p_pool' = PoolReserve(p_pool, lease)
        /\ jobs' = [i \in DOMAIN jobs \cup {r.id} |-> IF i = r.id THEN job ELSE jobs[i]]
        /\ queue' = Append(queue, r.id)
        /\ UNCHANGED <<d_pool, phase, todo, turns, budget, inputs, ok>>

\* retire of an optional lease.
Retired(pool, option) == IF option = {} THEN pool ELSE Retire(pool, The(option))

Stale(pool, option) == \E l \in option : ~Check(pool, l)

\* Mutant of Remove: the id stays queued.
RemoveQueued(id, p, d, js) ==
    /\ p_pool' = Fence(Retired(p, js[id].prefill)) /\ d_pool' = Fence(Retired(d, js[id].decode))
    /\ jobs' = [i \in DOMAIN js \ {id} |-> js[i]]
    /\ UNCHANGED <<queue, ok>>

\* remove of a job, from the pools and jobs of the moment: both leases go back
\* through their fences.
Remove(id, p, d, js) ==
    IF Stale(p, js[id].prefill) \/ Stale(d, js[id].decode) THEN Fail
    ELSE /\ p_pool' = Fence(Retired(p, js[id].prefill))
         /\ d_pool' = Fence(Retired(d, js[id].decode))
         /\ jobs' = [i \in DOMAIN js \ {id} |-> js[i]]
         /\ queue' = Dequeued(id)
         /\ UNCHANGED ok

\* Mutant of Emit: the job ends one token late.
EmitLate(id, stop, p, d, js, q) ==
    LET counted == [js EXCEPT ![id].generated = @ + 1]
    IN  IF stop \/ counted[id].generated > counted[id].max_new
        THEN Remove(id, p, d, counted)
        ELSE p_pool' = p /\ d_pool' = d /\ jobs' = counted /\ queue' = q /\ UNCHANGED ok

\* emit: the token counts, and the job ends at a stop token or at its length.
Emit(id, stop, p, d, js, q) ==
    LET counted == [js EXCEPT ![id].generated = @ + 1]
    IN  IF stop \/ counted[id].generated = counted[id].max_new
        THEN Remove(id, p, d, counted)
        ELSE p_pool' = p /\ d_pool' = d /\ jobs' = counted /\ queue' = q /\ UNCHANGED ok

\* cancel; with no such job only the fences run.
Cancel(id) ==
    /\ ok /\ phase = "idle"
    /\ IF id \in DOMAIN jobs THEN Remove(id, p_pool, d_pool, jobs)
       ELSE /\ p_pool' = Fence(p_pool) /\ d_pool' = Fence(d_pool) /\ queue' = Dequeued(id)
            /\ UNCHANGED <<jobs, ok>>
    /\ UNCHANGED <<phase, todo, turns, budget, inputs>>

\* Runtime::step refuses aliased or short bindings and a context without a bucket.
Admissible(ins) ==
    \A i \in ins :
        /\ Cardinality(i.lease.pages) >= PagesFor(i.upto) /\ i.upto <= MaxContext
        /\ \A j \in ins \ {i} :
              i.lease.slot # j.lease.slot /\ i.lease.pages \cap j.lease.pages = {}

Decoding == {id \in DOMAIN jobs : jobs[id].decode # {}}

\* step, which the front end calls while the scheduler is not idle.
BeginStep ==
    /\ ok /\ phase = "idle" /\ DOMAIN jobs # {}
    /\ phase' = "ensure" /\ inputs' = {}
    /\ todo' = Lowest(Decoding, Smaller(Batch, Cardinality(Decoding)))
    /\ UNCHANGED <<p_pool, d_pool, jobs, queue, turns, budget, ok>>

\* A decoding job gets the page its next token needs, or ends for want of one.
EnsureNext ==
    LET id == Least(todo)
        lease == The(jobs[id].decode)
        upto == jobs[id].consumed + 1
        grown == Grown(d_pool, lease, upto)
    IN  /\ ok /\ phase = "ensure" /\ todo # {}
        /\ todo' = todo \ {id}
        /\ \/ ~Check(d_pool, lease) /\ Fail /\ UNCHANGED inputs
           \/ /\ Check(d_pool, lease) /\ CanGrow(d_pool, lease, upto)
              /\ d_pool' = grown
              /\ jobs' = [jobs EXCEPT ![id].decode = {grown.active[id]}]
              /\ inputs' = inputs \cup {[id |-> id, lease |-> grown.active[id], upto |-> upto]}
              /\ UNCHANGED <<p_pool, queue, ok>>
           \/ /\ Check(d_pool, lease) /\ ~CanGrow(d_pool, lease, upto)
              /\ Remove(id, p_pool, d_pool, jobs) /\ UNCHANGED inputs
        /\ UNCHANGED <<phase, turns, budget>>

DecodeRun ==
    /\ ok /\ phase = "ensure" /\ todo = {}
    /\ ok' = Admissible(inputs)
    /\ phase' = "emit" /\ todo' = {i.id : i \in inputs} /\ inputs' = {}
    /\ UNCHANGED <<p_pool, d_pool, jobs, queue, turns, budget>>

\* One output of the decode workers.
EmitNext ==
    LET id == Least(todo)
    IN  /\ ok /\ phase = "emit" /\ todo # {}
        /\ todo' = todo \ {id}
        /\ \E stop \in BOOLEAN :
              Emit(id, stop, p_pool, d_pool, [jobs EXCEPT ![id].consumed = @ + 1], queue)
        /\ UNCHANGED <<phase, turns, budget, inputs>>

BeginPrefill ==
    /\ ok /\ phase = "emit" /\ todo = {}
    /\ phase' = "prefill" /\ turns' = Len(queue) /\ budget' = TokenBudget
    /\ UNCHANGED <<p_pool, d_pool, jobs, queue, todo, inputs, ok>>

\* Mutant of Rotated: a prompt that got a chunk is not queued again.
RotatedOnce(job, chunk) ==
    IF job.prefill = {} \/ chunk > 0 THEN Tail(queue) ELSE Append(Tail(queue), Head(queue))

\* The queue after the turn of its first job, which goes to the back.
Rotated(job, chunk) ==
    IF job.prefill = {} THEN Tail(queue) ELSE Append(Tail(queue), Head(queue))

PrefillTurn ==
    LET id == Head(queue)
        job == jobs[id]
        chunk == IF job.prefill = {} THEN 0 ELSE Smaller(job.prompt - job.consumed, budget)
    IN  /\ ok /\ phase = "prefill" /\ turns > 0 /\ budget > 0
        /\ turns' = turns - 1
        /\ \/ id \notin DOMAIN jobs /\ Fail /\ UNCHANGED <<budget, inputs>>
           \/ /\ id \in DOMAIN jobs
              /\ queue' = Rotated(job, chunk)
              /\ budget' = budget - chunk
              /\ inputs' = inputs \cup
                    (IF chunk > 0
                     THEN {[id |-> id, lease |-> The(job.prefill), upto |-> job.consumed + chunk]}
                     ELSE {})
              /\ UNCHANGED <<p_pool, d_pool, jobs, ok>>
        /\ UNCHANGED <<phase, todo>>

Ready(js) == {id \in DOMAIN js : js[id].prefill # {} /\ js[id].consumed = js[id].prompt}

PrefillRun ==
    LET ran == [id \in DOMAIN jobs |->
                   [jobs[id] EXCEPT !.consumed =
                       IF \E i \in inputs : i.id = id
                       THEN (CHOOSE i \in inputs : i.id = id).upto ELSE @]]
    IN  /\ ok /\ phase = "prefill" /\ (turns = 0 \/ budget = 0)
        /\ ok' = Admissible(inputs) /\ jobs' = ran
        /\ phase' = "hand_over" /\ todo' = Ready(ran) /\ inputs' = {} /\ turns' = 0 /\ budget' = 0
        /\ UNCHANGED <<p_pool, d_pool, queue>>

\* Mutant of SourceReturned: the prompt's pages stay with the prefill pool.
SourceKept(job) == p_pool

\* The prefill pool once the prompt's state is with decode.
SourceReturned(job) == Fence(Retired(p_pool, job.prefill))

\* The hand-over of one finished prompt; without room it waits for a later step.
HandOver ==
    LET id == Least(todo)
        job == jobs[id]
        lease == NewLease(d_pool, id, 0, job.consumed)
    IN  /\ ok /\ phase = "hand_over" /\ todo # {}
        /\ todo' = todo \ {id}
        /\ \/ Owns(d_pool, id) /\ Fail
           \/ /\ ~Owns(d_pool, id) /\ ~HasRoom(d_pool, job.consumed)
              /\ UNCHANGED <<p_pool, d_pool, jobs, queue, ok>>
           \/ /\ ~Owns(d_pool, id) /\ HasRoom(d_pool, job.consumed)
              /\ IF \/ job.consumed > Cardinality(lease.pages) * PageTokens
                    \/ Stale(p_pool, job.prefill)
                 THEN Fail
                 ELSE \E stop \in BOOLEAN :
                        Emit(id, stop, SourceReturned(job), PoolReserve(d_pool, lease),
                             [jobs EXCEPT ![id].decode = {lease}, ![id].prefill = {}],
                             Dequeued(id))
        /\ UNCHANGED <<phase, turns, budget, inputs>>

EndStep ==
    /\ ok /\ phase = "hand_over" /\ todo = {}
    /\ phase' = "idle"
    /\ UNCHANGED <<p_pool, d_pool, jobs, queue, todo, turns, budget, inputs, ok>>

Step ==
    \/ BeginStep \/ EnsureNext \/ DecodeRun \/ EmitNext
    \/ BeginPrefill \/ PrefillTurn \/ PrefillRun \/ HandOver \/ EndStep

LiveNext ==
    \/ \E r \in Requests : Submit(r)
    \/ \E r \in Requests : Cancel(r.id)
    \/ Step

\* The front end's loop calls step again and again while there are jobs.
LiveSpec == LiveInit /\ [][LiveNext]_liveVars /\ WF_liveVars(Step)

----------------------------------------------------------------------------
(* Properties.                                                             *)

\* The pools, the queue and the jobs tell one story, also in mid step, while
\* cancellation, pages that run out in mid batch and hand-overs that wait come in
\* between: a job holds one lease, the one its pool knows; the queue holds each
\* prefilling job once; nothing waits for a fence; the tokens a job consumed are its
\* prompt and all it generated but the last, so no token is consumed twice.  And no
\* call of the scheduler runs into its own checks: a lease is never stale, a binding
\* never aliased or short, a queued id always a job, a hand-over never refused but
\* for room.
LedgersAgree ==
    LET prefilling == {id \in DOMAIN jobs : jobs[id].prefill # {}}
    IN  /\ ok
        /\ Conserved(p_pool) /\ Conserved(d_pool)
        /\ p_pool.retired = {} /\ d_pool.retired = {}
        /\ prefilling \cap Decoding = {} /\ prefilling \cup Decoding = DOMAIN jobs
        /\ DOMAIN p_pool.active = prefilling /\ DOMAIN d_pool.active = Decoding
        /\ Len(queue) = Cardinality(prefilling)
        /\ {queue[i] : i \in DOMAIN queue} = prefilling
        /\ \A id \in prefilling :
              /\ jobs[id].prefill = {p_pool.active[id]}
              /\ jobs[id].consumed <= jobs[id].prompt /\ jobs[id].generated = 0
        /\ \A id \in Decoding :
              /\ jobs[id].decode = {d_pool.active[id]}
              /\ jobs[id].generated \in 1 .. jobs[id].max_new - 1
              /\ jobs[id].consumed = jobs[id].prompt + jobs[id].generated - 1

\* "no starvation": every admitted job ends.
AdmittedEnds == \A r \in Requests : (r.id \in DOMAIN jobs) ~> (r.id \notin DOMAIN jobs)
=============================================================================
