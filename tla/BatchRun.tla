------------------------------ MODULE BatchRun ------------------------------
(***************************************************************************)
(* run() of crates/inferfabric-scheduler/src/lib.rs: a fixture of requests *)
(* served tick by tick.  A tick admits and cancels, commits the transfers  *)
(* that have become visible, runs a decode batch, spends the prefill       *)
(* budget in rotation, offers finished prompts to the decode pool, and     *)
(* fences both pools; each visit of a job by one of these loops is a step. *)
(* Tokens are counted; a request may name the output at which its end      *)
(* token comes.  The pools, the transport's table and the jobs change      *)
(* together in release, so they are one record, held.                      *)
(***************************************************************************)
EXTENDS ResourcePool, Sequences, FiniteSetsExt, Functions

CONSTANTS
    Fixtures,     \* sequences of [prompt, max_new, submit_at, cancel_at, eos_at]
    Never,        \* the tick or output of what does not happen
    Batch, TokenBudget, MaxContext

ASSUME RunAssumption ==
    /\ Batch \in Nat \ {0} /\ TokenBudget \in Nat \ {0}
    /\ \A f \in Fixtures : \A i \in DOMAIN f :
          /\ f[i].prompt > 0 /\ f[i].max_new > 0 /\ f[i].prompt + f[i].max_new <= MaxContext
          /\ f[i].cancel_at = Never \/ f[i].cancel_at >= f[i].submit_at

VARIABLES
    fixture, held, tick,
    loop,     \* the loop that runs: admit, commit, decode, prefill, offer; or ended
    at,       \* the job it visits
    queue,    \* prefill_queue
    turns, budget, inputs,
    outcome   \* running, done, stalled (no progress) or failed (an error ended the run)

runVars == <<fixture, held, tick, loop, at, queue, turns, budget, inputs, outcome>>

NewJob == [phase |-> "Queued", consumed |-> 0, ready |-> 0, p |-> {}, d |-> {}, output |-> 0,
           error |-> "none"]

RunInit ==
    /\ fixture \in Fixtures
    /\ held = [p |-> NewPool, d |-> NewPool, entries |-> << >>,
               jobs |-> [i \in DOMAIN fixture |-> NewJob]]
    /\ tick = 0 /\ loop = "admit" /\ at = 1 /\ queue = << >>
    /\ turns = 0 /\ budget = 0 /\ inputs = {} /\ outcome = "running"

Job == held.jobs[at]
Request == fixture[at]

\* A job's optional lease is a set.
The(option) == CHOOSE l \in option : TRUE

Stale(pool, option) == \E l \in option : ~Check(pool, l)
Retired(pool, option) == IF option = {} THEN pool ELSE Retire(pool, The(option))

CanRelease(h, i) == ~Stale(h.p, h.jobs[i].p) /\ ~Stale(h.d, h.jobs[i].d)

\* Mutant of Release: the transport keeps a hand-over that is given up.
ReleasePrefill(h, i, error) ==
    [h EXCEPT !.p = Retired(@, h.jobs[i].p), !.d = Retired(@, h.jobs[i].d),
              !.jobs[i] = [@ EXCEPT !.p = {}, !.d = {}, !.phase = "Done", !.error = error]]

\* release, and the error the caller records with it.
Release(h, i, error) ==
    [h EXCEPT !.p = Retired(@, h.jobs[i].p), !.d = Retired(@, h.jobs[i].d),
              !.entries = Restrict(@, DOMAIN @ \ {i}),
              !.jobs[i] = [@ EXCEPT !.p = {}, !.d = {}, !.phase = "Done", !.error = error]]

\* A job that has all its tokens, or its end token, is released.
Finished(h, i) ==
    IF h.jobs[i].output \in {fixture[i].max_new, fixture[i].eos_at}
    THEN Release(h, i, "none") ELSE h

\* The result h of a visit that may need a release, unless a lease has gone stale.
Visit(h, sound) ==
    IF sound THEN held' = h /\ UNCHANGED outcome
    ELSE outcome' = "failed" /\ UNCHANGED held

NextJob(then) ==
    IF at < Len(fixture) THEN at' = at + 1 /\ UNCHANGED loop ELSE at' = 1 /\ loop' = then

\* The loop's own condition.
Running == outcome = "running" /\ \E i \in DOMAIN held.jobs : held.jobs[i].phase # "Done"

\* A run gives up at the tick no schedule should need.
MaxTicks ==
    Max({fixture[i].submit_at : i \in DOMAIN fixture})
    + MapThenSumSet(LAMBDA i : fixture[i].prompt + fixture[i].max_new + 4, DOMAIN fixture) + 10

\* The first loop: cancellation comes before everything, then admission.
Admit ==
    LET lease == NewLease(held.p, at, 1, Request.prompt)
    IN  /\ outcome = "running" /\ loop = "admit" /\ (at = 1 => Running)
        /\ \/ /\ Job.phase = "Done" \/ Request.submit_at > tick
              /\ UNCHANGED <<held, queue, outcome>>
           \/ /\ Job.phase # "Done" /\ Request.submit_at <= tick /\ Request.cancel_at = tick
              /\ Visit(Release(held, at, "cancelled"), CanRelease(held, at))
              /\ UNCHANGED queue
           \/ /\ Job.phase # "Done" /\ Request.submit_at <= tick /\ Request.cancel_at # tick
              /\ \/ /\ Job.phase # "Queued" \/ (PagesFor(Request.prompt) <= NumPages
                                                /\ ~HasRoom(held.p, Request.prompt))
                    /\ UNCHANGED <<held, queue, outcome>>
                 \/ /\ Job.phase = "Queued" /\ PagesFor(Request.prompt) > NumPages
                    /\ held' = Release(held, at, "prefill capacity")
                    /\ UNCHANGED <<queue, outcome>>
                 \/ /\ Job.phase = "Queued" /\ HasRoom(held.p, Request.prompt)
                    /\ Visit([held EXCEPT !.p = PoolReserve(@, lease), !.jobs[at].p = {lease},
                                          !.jobs[at].phase = "Prefill"], ~Owns(held.p, at))
                    /\ queue' = Append(queue, at)
        /\ NextJob("commit")
        /\ UNCHANGED <<fixture, tick, turns, budget, inputs>>

Visible(job) == job.phase = "Transfer" /\ job.ready <= tick

\* The second loop: complete, commit and acknowledge a visible transfer, give the
\* prefill side up and count the first token.
CommitTransfer ==
    LET committed ==
            [held EXCEPT !.entries[at].status = "Acknowledged",
                         !.p = Retired(@, Job.p),
                         !.jobs[at] = [@ EXCEPT !.consumed = held.entries[at].consumed,
                                                !.p = {}, !.phase = "Decode", !.output = @ + 1]]
        sound == CanRelease(held, at) /\ at \in DOMAIN held.entries
                 /\ held.entries[at].generation = The(Job.d).generation
    IN  /\ outcome = "running" /\ loop = "commit"
        /\ IF Visible(Job) THEN Visit(Finished(committed, at), sound)
           ELSE UNCHANGED <<held, outcome>>
        /\ NextJob("decode")
        /\ UNCHANGED <<fixture, tick, queue, turns, budget, inputs>>

\* The third loop gathers the decode batch; a job without room for its next token ends.
GatherDecode ==
    LET lease == The(Job.d)
        upto == Job.consumed + 1
        grown == Grown(held.d, lease, upto)
    IN  /\ outcome = "running" /\ loop = "decode"
        /\ IF Job.phase # "Decode" \/ Cardinality(inputs) >= Batch
           THEN UNCHANGED <<held, inputs, outcome>>
           ELSE IF Check(held.d, lease) /\ CanGrow(held.d, lease, upto)
           THEN /\ held' = [held EXCEPT !.d = grown, !.jobs[at].d = {grown.active[at]}]
                /\ inputs' = inputs \cup {[job |-> at, lease |-> grown.active[at], upto |-> upto]}
                /\ UNCHANGED outcome
           ELSE /\ Visit(Release(held, at, "decode KV capacity"), CanRelease(held, at))
                /\ UNCHANGED inputs
        /\ NextJob("run_decode")
        /\ UNCHANGED <<fixture, tick, queue, turns, budget>>

\* step of a worker group refuses aliased or short bindings and contexts too long.
Admissible(ins) ==
    \A i \in ins :
        /\ Cardinality(i.lease.pages) >= PagesFor(i.upto) /\ i.upto <= MaxContext
        /\ \A j \in ins \ {i} :
              i.lease.slot # j.lease.slot /\ i.lease.pages \cap j.lease.pages = {}

\* The jobs after a step of the workers, and every finished one released.
Stepped(h, ins, tokens) ==
    [h EXCEPT !.jobs = [i \in DOMAIN @ |->
        IF \E in \in ins : in.job = i
        THEN [@[i] EXCEPT !.consumed = (CHOOSE in \in ins : in.job = i).upto,
                          !.output = @ + tokens]
        ELSE @[i]]]

ReleaseFinished(h, members) == FoldSet(LAMBDA i, acc : Finished(acc, i), h, members)

RunDecode ==
    /\ outcome = "running" /\ loop = "run_decode"
    /\ Visit(ReleaseFinished(Stepped(held, inputs, 1), {i.job : i \in inputs}),
             /\ Admissible(inputs) /\ \A i \in inputs : CanRelease(held, i.job))
    /\ loop' = "prefill" /\ inputs' = {} /\ turns' = Len(queue) /\ budget' = TokenBudget
    /\ UNCHANGED <<fixture, tick, at, queue>>

\* Mutant of Requeued: a prompt that got a chunk is not queued again.
RequeuedOnce(job, chunk) ==
    IF job.phase # "Prefill" \/ chunk > 0 THEN Tail(queue) ELSE Append(Tail(queue), Head(queue))

\* A job that still prefills goes to the back of the queue; others leave it.
Requeued(job, chunk) ==
    IF job.phase # "Prefill" THEN Tail(queue) ELSE Append(Tail(queue), Head(queue))

\* One turn of the prefill queue.
PrefillTurn ==
    LET index == Head(queue)
        job == held.jobs[index]
        chunk == IF job.phase # "Prefill" THEN 0
                 ELSE Min({fixture[index].prompt - job.consumed, budget})
    IN  /\ outcome = "running" /\ loop = "prefill" /\ turns > 0 /\ budget > 0
        /\ queue' = Requeued(job, chunk)
        /\ inputs' = inputs \cup
              (IF chunk > 0
               THEN {[job |-> index, lease |-> The(job.p), upto |-> job.consumed + chunk]} ELSE {})
        /\ turns' = turns - 1 /\ budget' = budget - chunk
        /\ UNCHANGED <<fixture, held, tick, loop, at, outcome>>

RunPrefill ==
    /\ outcome = "running" /\ loop = "prefill" /\ (turns = 0 \/ budget = 0)
    /\ Visit(Stepped(held, inputs, 0), Admissible(inputs))
    /\ loop' = "offer" /\ inputs' = {} /\ turns' = 0 /\ budget' = 0
    /\ UNCHANGED <<fixture, tick, at, queue>>

\* The fifth loop: a finished prompt is transferred if the decode pool has room, and
\* waits otherwise.  Its pages fit the pool: it was admitted under the same bound.
Offer ==
    LET lease == NewLease(held.d, at, 1, Job.consumed)
        transferred ==
            [held EXCEPT !.d = PoolReserve(@, lease),
                         !.entries = [r \in DOMAIN @ \cup {at} |->
                             IF r = at THEN [status |-> "InFlight", consumed |-> Job.consumed,
                                             generation |-> lease.generation] ELSE @[r]],
                         !.jobs[at] = [@ EXCEPT !.d = {lease}, !.phase = "Transfer",
                                                !.ready = tick + 1]]
    IN  /\ outcome = "running" /\ loop = "offer"
        /\ \/ /\ \/ Job.phase # "Prefill" \/ Job.consumed # Request.prompt
                 \/ ~HasRoom(held.d, Job.consumed)
              /\ UNCHANGED <<held, outcome>>
           \/ /\ Job.phase = "Prefill" /\ Job.consumed = Request.prompt
              /\ HasRoom(held.d, Job.consumed)
              /\ Visit(transferred, ~Owns(held.d, at))
        /\ NextJob("fence")
        /\ UNCHANGED <<fixture, tick, queue, turns, budget, inputs>>

\* Both fences, and the next tick, unless the run has to give up.
EndTick ==
    /\ outcome = "running" /\ loop = "fence"
    /\ held' = [held EXCEPT !.p = Fence(@), !.d = Fence(@)]
    /\ tick' = tick + 1 /\ loop' = "admit"
    /\ outcome' = IF Running /\ tick' > MaxTicks THEN "stalled" ELSE outcome
    /\ UNCHANGED <<fixture, at, queue, turns, budget, inputs>>

\* No job is left at the head of the loop: the report is made.
Report ==
    /\ outcome = "running" /\ loop = "admit" /\ at = 1 /\ ~Running
    /\ outcome' = "done"
    /\ UNCHANGED <<fixture, held, tick, loop, at, queue, turns, budget, inputs>>

RunNext ==
    \/ Admit \/ CommitTransfer \/ GatherDecode \/ RunDecode
    \/ PrefillTurn \/ RunPrefill \/ Offer \/ EndTick \/ Report

RunSpec == RunInit /\ [][RunNext]_runVars

----------------------------------------------------------------------------
(* Properties.                                                             *)

Cut(job) == job.error # "none"

\* The report of a run.  "Every productive iteration consumes a token or crosses a
\* bounded transfer boundary", so no run reaches the tick at which it gives up or
\* fails by an error of its own, however cancellations fall between prefill, transfer
\* and decode and however long a finished prompt waits for pages; and when it is over
\* no lease, retired lease or hand-over is left and every request has all its
\* tokens, or stopped at its end token, or has an error.
RunsToItsReport ==
    /\ outcome \notin {"stalled", "failed"}
    /\ outcome = "done" =>
          /\ held.p.free_pages = PageIds /\ held.p.free_slots = SlotIds
          /\ held.d.free_pages = PageIds /\ held.d.free_slots = SlotIds
          /\ held.entries = << >>
          /\ \A i \in DOMAIN fixture :
                Cut(held.jobs[i]) \/ held.jobs[i].output = Min({fixture[i].max_new, fixture[i].eos_at})
=============================================================================
