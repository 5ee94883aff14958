--------------------------- MODULE ProgramWorker ---------------------------
(***************************************************************************)
(* Continuous admission of requests to the resident slots of one engine:   *)
(* the client side in frontend/src/native_backend.rs (generate, abort,     *)
(* shutdown, the output stream) and the worker loop in                     *)
(* frontend/src/program_worker.rs.                                         *)
(*                                                                         *)
(* Clients are threads of the HTTP server.  The worker is one thread; its  *)
(* program counter is pc.  The engine is called only by the worker: a call *)
(* succeeds or fails, and a failure ends the loop.                          *)
(***************************************************************************)
EXTENDS Integers, Sequences, FiniteSets, FiniteSetsExt

CONSTANTS
    Jobs,           \* calls of generate; a request id may be used again
    IdOf,           \* the request id of a job
    Prompt,         \* prompt tokens of a job
    MaxTokens,      \* max_tokens of a job
    Boundary,       \* checkpoint boundary of the job's prompt, 0 without a cache
    Residents,      \* resident slots
    TokenBudget,    \* max_num_batched_tokens
    BatchCapacity,  \* native batch tokens, 0 for the serial path
    PrefillSizes,   \* compiled prefill widths; the largest one if uncaptured
    Uncaptured,     \* whether prefill takes any width up to that maximum
    QueueCap,       \* admission queue, residents * 4 in the code
    OutCap,         \* output queue of a request, 64 in the code
    Shutters,       \* callers of shutdown
    None

ASSUME WorkerAssumption ==
    /\ Residents \in Nat \ {0} /\ TokenBudget \in Nat \ {0}
    /\ BatchCapacity \in Nat /\ QueueCap \in Nat \ {0} /\ OutCap \in Nat \ {0}
    /\ \A j \in Jobs : /\ Prompt[j] \in Nat \ {0} /\ MaxTokens[j] \in Nat \ {0}
                       /\ Boundary[j] \in 0 .. Prompt[j] - 1
    /\ PrefillSizes \subseteq Nat \ {0} /\ IsFiniteSet(PrefillSizes)
    /\ Uncaptured => PrefillSizes # {}
    /\ None \notin Jobs
    /\ None \notin [job : Jobs, position : Nat, generated : Nat, terminal : BOOLEAN]

VARIABLES
    \* shared between clients and worker
    queue,      \* the admission channel
    closed,     \* rx.close() was called
    active,     \* request id -> the job that owns its cancel flag
    cancel,     \* jobs whose cancel flag is set
    out,        \* job -> responses waiting in its channel
    stop, healthy, finished,
    \* clients
    client,     \* job -> new, checked, open, gone or refused
    got,        \* job -> responses its client received
    shutter,    \* shutdown caller -> idle, waiting, awaiting or returned
    receiver,   \* the oneshot receiver is still in its mutex
    \* worker
    slots,      \* slot -> Running or None
    owner,      \* slot -> the job whose state the engine holds there, or None
    pc, at,     \* at: the slot index or the offset of the loop at pc
    cursor, start, tokens,
    inputs,     \* members of the native call, in order
    result,     \* ok or err
    ended       \* job -> how its sender was dropped: no, final, err or silent

shared == <<queue, closed, active, cancel, out, stop, healthy, finished>>
clients == <<client, got, shutter, receiver>>
round == <<cursor, start, tokens, inputs>>
worker == <<slots, owner, pc, at, round, result, ended>>
vars == <<shared, clients, worker>>

Slots == 0 .. Residents - 1
Running == [job : Jobs, position : Nat, generated : Nat, terminal : BOOLEAN]

Init ==
    /\ queue = <<>> /\ closed = FALSE
    /\ active = [id \in {IdOf[j] : j \in Jobs} |-> None]
    /\ cancel = {} /\ out = [j \in Jobs |-> <<>>]
    /\ stop = FALSE /\ healthy = TRUE /\ finished = FALSE
    /\ client = [j \in Jobs |-> "new"] /\ got = [j \in Jobs |-> <<>>]
    /\ shutter = [s \in Shutters |-> "idle"] /\ receiver = TRUE
    /\ slots = [i \in Slots |-> None] /\ owner = [i \in Slots |-> None]
    /\ pc = "top" /\ at = 0
    /\ cursor = 0 /\ start = 0 /\ tokens = 0 /\ inputs = <<>>
    /\ result = "ok" /\ ended = [j \in Jobs |-> "no"]

----------------------------------------------------------------------------
(* Clients.                                                                *)

\* generate() up to its first await-free section: metadata().healthy is read
\* before the lock, so it may be stale when the job is queued.
CheckHealth(j) ==
    /\ client[j] = "new"
    /\ client' = [client EXCEPT ![j] = IF healthy /\ ~stop THEN "checked" ELSE "refused"]
    /\ UNCHANGED <<shared, got, shutter, receiver, worker>>

\* generate() under the lock of the active map: refused as a duplicate, as
\* overloaded or as unavailable, or queued and recorded.
Enqueue(j) ==
    /\ client[j] = "checked"
    /\ IF active[IdOf[j]] # None \/ closed \/ Len(queue) >= QueueCap
       THEN /\ client' = [client EXCEPT ![j] = "refused"]
            /\ UNCHANGED <<queue, active>>
       ELSE /\ client' = [client EXCEPT ![j] = "open"]
            /\ queue' = Append(queue, j)
            /\ active' = [active EXCEPT ![IdOf[j]] = j]
    /\ UNCHANGED <<closed, cancel, out, stop, healthy, finished,
                   got, shutter, receiver, worker>>

Abort(id) ==
    /\ active[id] # None
    /\ cancel' = cancel \cup {active[id]}
    /\ UNCHANGED <<queue, closed, active, out, stop, healthy, finished, clients, worker>>

Receive(j) ==
    /\ client[j] = "open"
    /\ out[j] # <<>>
    /\ got' = [got EXCEPT ![j] = Append(@, Head(out[j]))]
    /\ out' = [out EXCEPT ![j] = Tail(@)]
    /\ UNCHANGED <<queue, closed, active, cancel, stop, healthy, finished,
                   client, shutter, receiver, worker>>

\* The stream is dropped: its Drop sets the cancel flag and the channel closes.
Disconnect(j) ==
    /\ client[j] = "open"
    /\ client' = [client EXCEPT ![j] = "gone"]
    /\ cancel' = cancel \cup {j}
    /\ out' = [out EXCEPT ![j] = <<>>]
    /\ got' = [got EXCEPT ![j] = <<>>]
    /\ UNCHANGED <<queue, closed, active, stop, healthy, finished,
                   shutter, receiver, worker>>

Shutdown(s) ==
    /\ shutter[s] = "idle"
    /\ stop' = TRUE
    /\ shutter' = [shutter EXCEPT ![s] = "waiting"]
    /\ UNCHANGED <<queue, closed, active, cancel, out, healthy, finished,
                   client, got, receiver, worker>>

\* Mutant of ShutdownLock: the mutex guard is dropped before the await, so a
\* second caller finds the receiver taken and returns at once.
ShutdownLockEarly(s) ==
    /\ shutter[s] = "waiting"
    /\ shutter' = [shutter EXCEPT ![s] = IF receiver THEN "awaiting" ELSE "returned"]
    /\ receiver' = FALSE
    /\ UNCHANGED <<shared, client, got, worker>>

\* The first caller takes the receiver and keeps the mutex while it awaits.
ShutdownLock(s) ==
    /\ shutter[s] = "waiting"
    /\ \A t \in Shutters : shutter[t] # "awaiting"
    /\ shutter' = [shutter EXCEPT ![s] = IF receiver THEN "awaiting" ELSE "returned"]
    /\ receiver' = FALSE
    /\ UNCHANGED <<shared, client, got, worker>>

ShutdownReturn(s) ==
    /\ shutter[s] = "awaiting"
    /\ finished
    /\ shutter' = [shutter EXCEPT ![s] = "returned"]
    /\ UNCHANGED <<shared, client, got, receiver, worker>>

----------------------------------------------------------------------------
(* Worker: parts that several steps share.                                 *)

Index == (start + at) % Residents
Forget(j) == active' = [active EXCEPT ![IdOf[j]] = None]
CanSend(j) == client[j] = "open" /\ Len(out[j]) < OutCap

\* start, tokens and inputs are locals of a round and end with it.
EndRound(next) ==
    /\ pc' = next /\ at' = 0
    /\ start' = 0 /\ tokens' = 0 /\ inputs' = <<>>

\* A failed engine call leaves the loop through the "?" operator.
FailLoop ==
    /\ result' = "err"
    /\ EndRound("close")
    /\ UNCHANGED cursor

\* try_send of the last response of a job, whose sender is then dropped.
SendLast(j, item) ==
    IF CanSend(j)
    THEN /\ out' = [out EXCEPT ![j] = Append(@, item)]
         /\ ended' = [ended EXCEPT ![j] = item]
    ELSE /\ ended' = [ended EXCEPT ![j] = "silent"]
         /\ UNCHANGED out

\* A cancelled resident: engine.release, then the slot and its id are freed.
ReleaseCancelled(i) ==
    /\ slots' = [slots EXCEPT ![i] = None]
    /\ owner' = [owner EXCEPT ![i] = None]
    /\ Forget(slots[i].job)
    /\ ended' = [ended EXCEPT ![slots[i].job] = "silent"]

\* prefill_chunk and prefill_limit of the engine.
PrefillChunk(limit) ==
    IF Uncaptured THEN Min({limit, Max(PrefillSizes)})
    ELSE Max({1} \cup {n \in PrefillSizes : n <= limit})

PrefillLimit(j, position) ==
    IF position < Boundary[j] THEN Boundary[j] - position ELSE Prompt[j] - position

Extending(r) == r.position < Prompt[r.job]

\* Tokens of the next call for a resident, with so much of the budget left.
Quantum(r, budget) ==
    IF Extending(r) THEN PrefillChunk(Min({budget, PrefillLimit(r.job, r.position)}))
    ELSE 1

----------------------------------------------------------------------------
(* Worker: admission.                                                      *)

\* Mutant of Top: the worker stops only when no resident is left.
TopDrains ==
    /\ pc = "top"
    /\ IF stop /\ \A i \in Slots : slots[i] = None
       THEN pc' = "close" /\ UNCHANGED at ELSE pc' = "scan" /\ at' = 0
    /\ UNCHANGED <<shared, clients, slots, owner, round, result, ended>>

Top ==
    /\ pc = "top"
    /\ IF stop THEN pc' = "close" /\ UNCHANGED at ELSE pc' = "scan" /\ at' = 0
    /\ UNCHANGED <<shared, clients, slots, owner, round, result, ended>>

\* The scan moves to the next slot, or to the round if a slot is occupied.
ScanOn(occupied) ==
    IF at < Residents - 1
    THEN at' = at + 1 /\ pc' = "scan" /\ UNCHANGED round
    ELSE IF \A i \in Slots : occupied[i] = None
    THEN EndRound("top") /\ UNCHANGED cursor
    ELSE /\ pc' = IF BatchCapacity > 0 THEN "collect" ELSE "round"
         /\ at' = 0 /\ start' = cursor
         /\ UNCHANGED <<cursor, tokens, inputs>>

\* Mutant of ScanCancelled: the full output queue is looked at first.
ScanCancelledIfRoom ==
    /\ pc = "scan"
    /\ slots[at] # None
    /\ slots[at].job \in cancel
    /\ IF Len(out[slots[at].job]) >= OutCap
       THEN ScanOn(slots) /\ UNCHANGED <<slots, owner, active, ended, result>>
       ELSE ReleaseCancelled(at) /\ UNCHANGED <<pc, at, round, result>>
    /\ UNCHANGED <<queue, closed, cancel, out, stop, healthy, finished, clients>>

ScanCancelled ==
    /\ pc = "scan"
    /\ slots[at] # None
    /\ slots[at].job \in cancel
    /\ \/ ReleaseCancelled(at) /\ UNCHANGED <<pc, at, round, result>>
       \/ FailLoop /\ UNCHANGED <<slots, owner, active, ended>>
    /\ UNCHANGED <<queue, closed, cancel, out, stop, healthy, finished, clients>>

ScanNext ==
    /\ pc = "scan"
    /\ IF slots[at] = None THEN queue = <<>> ELSE slots[at].job \notin cancel
    /\ ScanOn(slots)
    /\ UNCHANGED <<shared, clients, slots, owner, result, ended>>

\* Mutant of DropQueued: the id of the dropped job is not given back.
DropQueuedKeepsId ==
    /\ pc = "scan"
    /\ slots[at] = None
    /\ queue # <<>>
    /\ Head(queue) \in cancel
    /\ queue' = Tail(queue)
    /\ ended' = [ended EXCEPT ![Head(queue)] = "silent"]
    /\ UNCHANGED <<closed, active, cancel, out, stop, healthy, finished, clients,
                   slots, owner, pc, at, round, result>>

\* A queued job that was cancelled never takes the slot.
DropQueued ==
    /\ pc = "scan"
    /\ slots[at] = None
    /\ queue # <<>>
    /\ Head(queue) \in cancel
    /\ queue' = Tail(queue)
    /\ Forget(Head(queue))
    /\ ended' = [ended EXCEPT ![Head(queue)] = "silent"]
    /\ UNCHANGED <<closed, cancel, out, stop, healthy, finished, clients,
                   slots, owner, pc, at, round, result>>

\* The job is installed before the fallible admit and restore_prefix.
Admit ==
    /\ pc = "scan"
    /\ slots[at] = None
    /\ queue # <<>>
    /\ Head(queue) \notin cancel
    /\ queue' = Tail(queue)
    /\ owner' = [owner EXCEPT ![at] = Head(queue)]
    /\ \E cached \in 0 .. Boundary[Head(queue)] :
          slots' = [slots EXCEPT ![at] =
              [job |-> Head(queue), position |-> cached, generated |-> 0, terminal |-> FALSE]]
    /\ \/ ScanOn(slots') /\ UNCHANGED result
       \/ FailLoop
    /\ UNCHANGED <<closed, active, cancel, out, stop, healthy, finished, clients, ended>>

----------------------------------------------------------------------------
(* Worker: one round over the residents.                                   *)

\* Serial path: the budget is used up, shutdown was requested, or all are done.
RoundEnd ==
    /\ pc = "round"
    /\ tokens = TokenBudget \/ stop \/ at = Residents
    /\ EndRound("top")
    /\ UNCHANGED <<shared, clients, slots, owner, cursor, result, ended>>

InRound == pc = "round" /\ tokens # TokenBudget /\ ~stop /\ at < Residents

\* Mutant of RoundSkip: a full output queue ends the round.
RoundSkipBlocks ==
    /\ InRound
    /\ slots[Index] # None =>
          slots[Index].job \notin cancel /\ Len(out[slots[Index].job]) >= OutCap
    /\ IF slots[Index] = None THEN at' = at + 1 /\ UNCHANGED <<pc, round>>
       ELSE EndRound("top") /\ UNCHANGED cursor
    /\ UNCHANGED <<shared, clients, slots, owner, result, ended>>

\* An empty slot, or a client whose output queue is full: state is preserved.
RoundSkip ==
    /\ InRound
    /\ slots[Index] # None =>
          slots[Index].job \notin cancel /\ Len(out[slots[Index].job]) >= OutCap
    /\ at' = at + 1
    /\ UNCHANGED <<shared, clients, slots, owner, pc, round, result, ended>>

RoundCancelled ==
    /\ InRound
    /\ slots[Index] # None
    /\ slots[Index].job \in cancel
    /\ \/ ReleaseCancelled(Index) /\ at' = at + 1 /\ UNCHANGED <<pc, round, result>>
       \/ FailLoop /\ UNCHANGED <<slots, owner, active, ended>>
    /\ UNCHANGED <<queue, closed, cancel, out, stop, healthy, finished, clients>>

\* Mutant of Eligible: the room in the output queue is not looked at.
EligibleAlways(i) == slots[i] # None /\ slots[i].job \notin cancel

Eligible(i) ==
    /\ slots[i] # None
    /\ slots[i].job \notin cancel
    /\ Len(out[slots[i].job]) < OutCap

\* An uncaptured prefill whose full quantum no longer fits waits for a round
\* that begins with it.
Deferred(r) ==
    /\ Extending(r)
    /\ Uncaptured
    /\ PrefillChunk(Min({Prompt[r.job] - r.position, TokenBudget})) > TokenBudget - tokens

RoundDefer ==
    /\ InRound
    /\ Eligible(Index)
    /\ Deferred(slots[Index])
    /\ cursor' = Index
    /\ EndRound("top")
    /\ UNCHANGED <<shared, clients, slots, owner, result, ended>>

RoundCall ==
    LET count == Quantum(slots[Index], TokenBudget - tokens)
    IN  /\ InRound
        /\ Eligible(Index)
        /\ ~Deferred(slots[Index])
        /\ \/ /\ inputs' = <<[slot |-> Index, count |-> count]>>
              /\ tokens' = tokens + count
              /\ cursor' = (Index + 1) % Residents
              /\ pc' = "native"
              /\ UNCHANGED <<at, start, result>>
           \/ FailLoop
        /\ UNCHANGED <<shared, clients, slots, owner, ended>>

\* Batch path: members are collected until one does not fit.
Budget == Min({TokenBudget, BatchCapacity})

\* Mutant of Collect: a member that does not fit is still packed.
CollectAll ==
    LET count == Quantum(slots[Index], Budget)
    IN  /\ pc = "collect"
        /\ at < Residents
        /\ at' = at + 1
        /\ IF ~Eligible(Index) THEN UNCHANGED <<cursor, tokens, inputs>>
           ELSE /\ inputs' = Append(inputs, [slot |-> Index, count |-> count])
                /\ tokens' = tokens + count
                /\ cursor' = (Index + 1) % Residents
        /\ UNCHANGED <<shared, clients, slots, owner, start, result, ended, pc>>

\* Mutant of Collect: a full output queue ends the collection.
CollectBlocks ==
    LET count == Quantum(slots[Index], Budget)
    IN  /\ pc = "collect"
        /\ at < Residents
        /\ IF slots[Index] = None
           THEN at' = at + 1 /\ UNCHANGED <<cursor, tokens, inputs>>
           ELSE IF ~Eligible(Index) \/ count > Budget - tokens
           THEN at' = Residents /\ cursor' = Index /\ UNCHANGED <<tokens, inputs>>
           ELSE /\ inputs' = Append(inputs, [slot |-> Index, count |-> count])
                /\ tokens' = tokens + count
                /\ cursor' = (Index + 1) % Residents
                /\ at' = at + 1
        /\ UNCHANGED <<shared, clients, slots, owner, start, result, ended, pc>>

Collect ==
    LET r == slots[Index]
        count == Quantum(r, Budget)
    IN  /\ pc = "collect"
        /\ at < Residents
        /\ IF ~Eligible(Index)
           THEN at' = at + 1 /\ UNCHANGED <<cursor, tokens, inputs, pc>>
           ELSE IF count > Budget - tokens
           THEN /\ cursor' = Index
                /\ at' = Residents
                /\ UNCHANGED <<tokens, inputs, pc>>
           ELSE /\ inputs' = Append(inputs, [slot |-> Index, count |-> count])
                /\ tokens' = tokens + count
                /\ cursor' = (Index + 1) % Residents
                /\ at' = at + 1
                /\ UNCHANGED pc
        /\ UNCHANGED <<shared, clients, slots, owner, start, result, ended>>

Collected ==
    /\ pc = "collect"
    /\ at = Residents
    /\ IF inputs = <<>> THEN EndRound("top") /\ UNCHANGED cursor
       ELSE pc' = "native" /\ UNCHANGED <<at, round>>
    /\ UNCHANGED <<shared, clients, slots, owner, result, ended>>

\* token, prefill or batch runs on the ranks, and returns or fails.
NativeReturns ==
    /\ pc = "native"
    /\ \/ pc' = "finish" /\ UNCHANGED <<at, round, result>>
       \/ FailLoop
    /\ UNCHANGED <<shared, clients, slots, owner, ended>>

\* After a member is finished: the next member, or the rest of the round.
NextMember ==
    /\ IF Len(inputs) = 1 /\ BatchCapacity > 0 THEN EndRound("top")
       ELSE /\ inputs' = Tail(inputs)
            /\ IF Len(inputs) > 1 THEN pc' = "finish" /\ UNCHANGED at
               ELSE pc' = "round" /\ at' = at + 1
            /\ UNCHANGED <<start, tokens>>
    /\ UNCHANGED cursor

\* finish_advance and the checkpoint that may follow it.
Finish ==
    LET i == Head(inputs).slot
        r == slots[i]
        j == r.job
        position == r.position + Head(inputs).count
        sample == position >= Prompt[j]
        moved == [r EXCEPT !.position = position]
        sampled == [moved EXCEPT !.generated = @ + 1]
    IN  /\ pc = "finish"
        /\ \/ /\ j \in cancel
              /\ slots' = [slots EXCEPT ![i] = moved]
              /\ pc' = "complete"
              /\ UNCHANGED <<out, at, round, result>>
           \/ /\ j \notin cancel /\ ~sample
              /\ slots' = [slots EXCEPT ![i] = moved]
              /\ \/ NextMember /\ UNCHANGED result
                 \/ position = Boundary[j] /\ FailLoop
              /\ UNCHANGED out
           \/ /\ j \notin cancel /\ sample
              /\ slots' = [slots EXCEPT ![i] = [sampled EXCEPT !.terminal = TRUE]]
              /\ pc' = "complete"
              /\ UNCHANGED <<out, at, round, result>>
           \/ /\ j \notin cancel /\ sample
              /\ sampled.generated < MaxTokens[j]
              /\ slots' = [slots EXCEPT ![i] = sampled]
              /\ IF CanSend(j)
                 THEN out' = [out EXCEPT ![j] = Append(@, "token")] /\ NextMember
                 ELSE pc' = "complete" /\ UNCHANGED <<out, at, round>>
              /\ UNCHANGED result
        /\ UNCHANGED <<queue, closed, active, cancel, stop, healthy, finished,
                       clients, owner, ended>>

\* Mutant of Complete: the response is published before the state is released.
CompletePublishesFirst ==
    LET i == Head(inputs).slot
    IN  /\ pc = "complete"
        /\ IF slots[i].terminal THEN SendLast(slots[i].job, "final")
           ELSE ended' = [ended EXCEPT ![slots[i].job] = "silent"] /\ UNCHANGED out
        /\ \/ /\ owner' = [owner EXCEPT ![i] = None]
              /\ slots' = [slots EXCEPT ![i] = None]
              /\ Forget(slots[i].job)
              /\ NextMember
              /\ UNCHANGED result
           \/ FailLoop /\ UNCHANGED <<owner, active, slots>>
        /\ UNCHANGED <<queue, closed, cancel, stop, healthy, finished, clients>>

\* complete(): the engine's state is released before the id is free again,
Complete ==
    LET i == Head(inputs).slot
    IN  /\ pc = "complete"
        /\ \/ /\ owner' = [owner EXCEPT ![i] = None]
              /\ Forget(slots[i].job)
              /\ pc' = "publish"
              /\ UNCHANGED <<at, round, result>>
           \/ FailLoop /\ UNCHANGED <<owner, active>>
        /\ UNCHANGED <<queue, closed, cancel, out, stop, healthy, finished,
                       clients, slots, ended>>

\* and both before the terminal response is published.
Publish ==
    LET i == Head(inputs).slot
        j == slots[i].job
    IN  /\ pc = "publish"
        /\ IF slots[i].terminal THEN SendLast(j, "final")
           ELSE ended' = [ended EXCEPT ![j] = "silent"] /\ UNCHANGED out
        /\ slots' = [slots EXCEPT ![i] = None]
        /\ NextMember
        /\ UNCHANGED <<queue, closed, active, cancel, stop, healthy, finished,
                       clients, owner, result>>

----------------------------------------------------------------------------
(* Worker: the end.                                                        *)

\* Mutant of CloseQueue: the admission channel stays open.
CloseQueueOpen ==
    /\ pc = "close"
    /\ pc' = "closing" /\ at' = 0
    /\ UNCHANGED <<shared, clients, slots, owner, round, result, ended>>

CloseQueue ==
    /\ pc = "close"
    /\ closed' = TRUE
    /\ pc' = "closing" /\ at' = 0
    /\ UNCHANGED <<queue, active, cancel, out, stop, healthy, finished, clients,
                   slots, owner, round, result, ended>>

\* Every resident is released if that is still possible, and told the reason.
CloseSlot ==
    /\ pc = "closing"
    /\ at < Residents
    /\ at' = at + 1
    /\ IF slots[at] = None
       THEN UNCHANGED <<active, out, slots, owner, result, ended>>
       ELSE /\ \/ /\ result = "ok"
                  /\ owner' = [owner EXCEPT ![at] = None]
                  /\ UNCHANGED result
               \/ result' = "err" /\ UNCHANGED owner
            /\ SendLast(slots[at].job, "err")
            /\ Forget(slots[at].job)
            /\ slots' = [slots EXCEPT ![at] = None]
    /\ UNCHANGED <<queue, closed, cancel, stop, healthy, finished, clients, pc, round>>

DrainQueued ==
    /\ pc = "closing"
    /\ at = Residents
    /\ queue # <<>>
    /\ SendLast(Head(queue), "err")
    /\ queue' = Tail(queue)
    /\ UNCHANGED <<closed, active, cancel, stop, healthy, finished, clients,
                   slots, owner, pc, at, round, result>>

ClearActive ==
    /\ pc = "closing"
    /\ at = Residents
    /\ queue = <<>>
    /\ active' = [id \in DOMAIN active |-> None]
    /\ pc' = "exit"
    /\ \/ UNCHANGED result
       \/ result = "ok" /\ result' = "err"
    /\ UNCHANGED <<queue, closed, cancel, out, stop, healthy, finished, clients,
                   slots, owner, at, round, ended>>

\* The thread's Guard: not healthy first, then shutdown is told.
Exit ==
    /\ pc = "exit"
    /\ healthy' = FALSE /\ finished' = TRUE
    /\ pc' = "done"
    /\ UNCHANGED <<queue, closed, active, cancel, out, stop, clients,
                   slots, owner, at, round, result, ended>>

----------------------------------------------------------------------------
Client ==
    \/ \E j \in Jobs : CheckHealth(j) \/ Enqueue(j) \/ Receive(j) \/ Disconnect(j)
    \/ \E id \in DOMAIN active : Abort(id)
    \/ \E s \in Shutters : Shutdown(s) \/ ShutdownLock(s) \/ ShutdownReturn(s)

Worker ==
    \/ Top \/ ScanCancelled \/ ScanNext \/ DropQueued \/ Admit
    \/ RoundEnd \/ RoundSkip \/ RoundCancelled \/ RoundDefer \/ RoundCall
    \/ Collect \/ Collected \/ NativeReturns \/ Finish \/ Complete \/ Publish
    \/ CloseQueue \/ CloseSlot \/ DrainQueued \/ ClearActive \/ Exit

Next == Client \/ Worker

Spec == Init /\ [][Next]_vars /\ WF_vars(Worker)

\* With clients that keep reading: every request but the ones in Slow.
CONSTANT Slow
FairSpec == Spec /\ \A j \in Jobs \ Slow : WF_vars(Receive(j))

----------------------------------------------------------------------------
(* Properties.                                                             *)

\* Jobs the worker still answers for; a job whose id was already given back
\* while its last response is being published is not among them.
Pending ==
    {queue[k] : k \in DOMAIN queue} \cup
    {slots[i].job : i \in {k \in Slots : /\ slots[k] # None
                                         /\ ~(pc = "publish" /\ Head(inputs).slot = k)}}

\* The active map names exactly the queued and resident requests, each with its
\* own cancel flag, however generate, abort and the worker interleave: an abort
\* reaches the request it names and no id stays reserved for a finished one.
ActiveTracksJobs ==
    closed \/ \A id \in DOMAIN active :
        {j \in Pending : IdOf[j] = id} = IF active[id] = None THEN {} ELSE {active[id]}

\* Back-pressure loses nothing: a resident's client has received, or has waiting,
\* every response generated so far except a terminal one not yet published; and a
\* stream that just ends was cancelled, or was full when the worker closed it.
NoResponseLost ==
    /\ \A i \in Slots : slots[i] # None /\ client[slots[i].job] = "open" =>
          Len(got[slots[i].job]) + Len(out[slots[i].job])
              = slots[i].generated - (IF slots[i].terminal THEN 1 ELSE 0)
    /\ \A j \in Jobs : ended[j] = "silent" => j \in cancel \/ closed

\* A terminal response is published once, last, and only after the engine gave up
\* the request's state ("Publish success only after request-owned pages ... are
\* released").
FinalIsLast ==
    \A j \in Jobs :
        LET all == got[j] \o out[j]
        IN  \A k \in DOMAIN all : all[k] # "token" =>
                k = Len(all) /\ ended[j] = all[k] /\ (all[k] = "final" =>
                    \A i \in Slots : owner[i] # j)

\* What a client sees: every response, in order, with the end at the end.
ResponsesExact == NoResponseLost /\ FinalIsLast

\* shutdown() returns to no caller before the worker has ended.
ShutdownWaits ==
    \A s \in Shutters : shutter[s] = "returned" => finished

\* When the worker has ended nobody is left waiting: no id is reserved, every
\* accepted request was answered, and no state is held unless a rank failed.
CleanEnd ==
    pc = "done" =>
        /\ \A id \in DOMAIN active : active[id] = None
        /\ \A j \in Jobs : client[j] \in {"open", "gone"} => ended[j] # "no"
        /\ result = "ok" => \A i \in Slots : owner[i] = None

\* Every request is accounted for while the worker lives and when it is gone.
RequestsAccounted == ActiveTracksJobs /\ CleanEnd

\* Every member of a native call is a different resident whose state the engine
\* holds, with room for its response; the tokens fit the budget, and no prefill
\* runs over a checkpoint boundary or the end of the prompt.
NativeCallSound ==
    pc = "native" =>
        /\ tokens <= TokenBudget /\ (BatchCapacity > 0 => tokens <= BatchCapacity)
        /\ \A k, l \in DOMAIN inputs : k # l => inputs[k].slot # inputs[l].slot
        /\ \A k \in DOMAIN inputs :
              LET i == inputs[k].slot
                  r == slots[i]
                  end == r.position + inputs[k].count
              IN  /\ r # None
                  /\ owner[i] = r.job
                  /\ client[r.job] = "open" => CanSend(r.job)
                  /\ r.position < Boundary[r.job] => end <= Boundary[r.job]
                  /\ r.position < Prompt[r.job] => end <= Prompt[r.job]

\* A cancelled request gives up its slot or its place in the queue even if its
\* client never reads again.
CancelEnds ==
    \A j \in Jobs : j \in cancel ~> ended[j] # "no"

\* Shutdown, and a failure, end the worker whatever the clients do.
StopEnds == stop ~> finished

\* Every accepted request whose client keeps reading ends, even if the clients in
\* Slow never read again (one of two residents): no peer and no budget starves it.
AcceptedEnds ==
    \A j \in Jobs \ Slow : client[j] = "open" ~> ended[j] # "no"

\* Every request ends that should, under any order of clients, aborts and rounds.
RequestsEnd == CancelEnds /\ AcceptedEnds

\* "rank failure reaches all residents and queued requests": after a failure every
\* connected, uncancelled request has been sent an error (or its last response).
FailureReachesAll ==
    pc = "done" /\ result = "err" =>
        \A j \in Jobs : client[j] = "open" /\ j \notin cancel => ended[j] # "silent"
=============================================================================
