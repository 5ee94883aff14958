---------------------------- MODULE NativeLanes ----------------------------
(***************************************************************************)
(* The native lane server: frontend/src/native_worker.rs (the scheduling   *)
(* loop), native/src/parallel.rs (rank threads), the lane operations of    *)
(* native/src/lib.rs and sampling.rs, and the calls of native_backend.rs   *)
(* that reach them.  A request runs in one lane of a fixed-shape graph on  *)
(* every rank; rank 0 samples.  What a lane has consumed is the sequence   *)
(* of its inputs, <<request, place>> for a prompt or a generated token, so *)
(* an output can carry what it was sampled from.  Device calls may fail.   *)
(* The client reads nothing, the worst case for its channel; when its      *)
(* stream has ended it may submit again.                                   *)
(***************************************************************************)
EXTENDS Naturals, Sequences, FiniteSets, SequencesExt

CONSTANTS
    Submissions,             \* requests clients may submit, again and again
    RequestId,               \* the request_id a submission carries
    PromptLen, MaxTokens, MinTokens,
    NumLanes, NumPeers,      \* lanes of the graph; ranks besides rank 0
    Context,                 \* max_model_len
    Budgets,                 \* values of max_num_batched_tokens
    JobCap,                  \* jobs the admission channel holds
    AbortIds                 \* request ids abort is called for

ASSUME LanesAssumption ==
    /\ NumLanes \in Nat \ {0} /\ NumPeers \in Nat /\ Context \in Nat \ {0} /\ JobCap \in Nat \ {0}
    /\ Budgets \subseteq Nat \ {0}
    /\ \A r \in Submissions : {PromptLen[r], MaxTokens[r], MinTokens[r]} \subseteq Nat
    /\ "none" \notin Submissions

VARIABLES
    ready, serving,          \* the start-up answer; the health flag
    halt,                    \* the stop flag
    current,                 \* the active map: request id -> submission
    admission, accepting,    \* the job channel, and whether its receiver is alive
    client, cancel,          \* per submission: the caller, and the job's cancel flag
    sent, closed,            \* per submission: messages sent, and whether the sender is gone
    token_budget, remaining, cursor,
    slot,                    \* per lane: the running request
    where, turn,             \* the worker thread, and the lanes its loop has still to visit
    order, did, awaited,     \* command in progress, rank 0's result, peers still to reply
    consumed,                \* per rank and lane: the inputs the lane state holds
    logits,                  \* per lane: the inputs rank 0's logits were computed from
    sampler,                 \* per lane: tokens drawn, minimum, stop tokens masked
    peer, commands, reply    \* per peer: its thread and its two channels

laneVars == <<ready, serving, halt, current, admission, accepting, client, cancel, sent, closed,
              token_budget, remaining, cursor, slot, where, turn, order, did, awaited, consumed,
              logits, sampler, peer, commands, reply>>
deviceVars == <<consumed, logits, sampler>>
peerVars == <<peer, commands, reply>>
sentVars == <<sent, closed>>
roundVars == <<token_budget, remaining, cursor>>

Lanes == 0 .. NumLanes - 1
Peers == 1 .. NumPeers
LaneRanks == 0 .. NumPeers
LaneSeq == [i \in 1 .. NumLanes |-> i - 1]
PeerSeq == [i \in 1 .. NumPeers |-> i]
Free == [job |-> "none", fed |-> 0, generated |-> 0, decoded |-> FALSE]

LanesInit ==
    /\ ready = "waiting" /\ serving = FALSE /\ halt = FALSE /\ current = << >>
    /\ admission = << >> /\ accepting = TRUE
    /\ client = [r \in Submissions |-> "idle"] /\ cancel = [r \in Submissions |-> FALSE]
    /\ sent = [r \in Submissions |-> << >>] /\ closed = [r \in Submissions |-> FALSE]
    /\ token_budget \in Budgets /\ remaining = 0 /\ cursor = 0
    /\ slot = [l \in Lanes |-> Free] /\ where = "prepare" /\ turn = << >>
    /\ order = << >> /\ did = TRUE /\ awaited = << >>
    /\ consumed = [k \in LaneRanks |-> [l \in Lanes |-> << >>]] /\ logits = [l \in Lanes |-> << >>]
    /\ sampler = [l \in Lanes |-> [drawn |-> 0, min |-> 0, masked |-> FALSE]]
    /\ peer = [p \in Peers |-> "starting"] /\ commands = [p \in Peers |-> << >>]
    /\ reply = [p \in Peers |-> << >>]

----------------------------------------------------------------------------
(* Callers of the backend.                                                 *)

\* validate_capacity_for; a prompt and all its answer must fit the context.
ValidCapacity(r) ==
    PromptLen[r] > 0 /\ MaxTokens[r] > 0 /\ PromptLen[r] + MaxTokens[r] <= Context

ValidSampling(r) == MinTokens[r] <= MaxTokens[r]

\* Backend::native's caller stops waiting for the start.
AbandonStart ==
    /\ ready = "waiting" /\ ready' = "abandoned"
    /\ UNCHANGED <<serving, halt, current, admission, accepting, client, cancel, sentVars,
                   roundVars, slot, where, turn, order, did, awaited, deviceVars, peerVars>>

\* generate: the health flag and the request are looked at before the lock is taken.
Generate(r) ==
    /\ ready = "ok" /\ client[r] = "idle" /\ serving /\ ~halt
    /\ ValidSampling(r) /\ ValidCapacity(r)
    /\ client' = [client EXCEPT ![r] = "checked"]
    /\ UNCHANGED <<ready, serving, halt, current, admission, accepting, cancel, sentVars,
                   roundVars, slot, where, turn, order, did, awaited, deviceVars, peerVars>>

\* Under the lock of the active map: refuse a duplicate, a full or a dead channel, else enqueue.
Enqueue(r) ==
    /\ client[r] = "checked"
    /\ IF RequestId[r] \in DOMAIN current \/ ~accepting \/ Len(admission) >= JobCap
       THEN /\ client' = [client EXCEPT ![r] = "idle"]
            /\ UNCHANGED <<current, admission, cancel, sentVars>>
       ELSE /\ client' = [client EXCEPT ![r] = "open"]
            /\ admission' = Append(admission, r)
            /\ current' = [i \in DOMAIN current \cup {RequestId[r]} |->
                              IF i = RequestId[r] THEN r ELSE current[i]]
            /\ cancel' = [cancel EXCEPT ![r] = FALSE]
            /\ sent' = [sent EXCEPT ![r] = << >>] /\ closed' = [closed EXCEPT ![r] = FALSE]
    /\ UNCHANGED <<ready, serving, halt, accepting, roundVars, slot, where, turn, order, did,
                   awaited, deviceVars, peerVars>>

\* The client drops its stream, or has read it to the end; the cancel flag of a job that is gone
\* is read by nobody.
LeaveStream(r) ==
    /\ client[r] = "open"
    /\ client' = [client EXCEPT ![r] = "idle"] /\ cancel' = [cancel EXCEPT ![r] = ~closed[r]]
    /\ sent' = [sent EXCEPT ![r] = << >>] /\ closed' = [closed EXCEPT ![r] = FALSE]
    /\ UNCHANGED <<ready, serving, halt, current, admission, accepting, roundVars, slot, where,
                   turn, order, did, awaited, deviceVars, peerVars>>

\* abort finds the job by its request id.
Abort(i) ==
    /\ i \in DOMAIN current /\ ~cancel[current[i]]
    /\ cancel' = [cancel EXCEPT ![current[i]] = TRUE]
    /\ UNCHANGED <<ready, serving, halt, current, admission, accepting, client, sentVars,
                   roundVars, slot, where, turn, order, did, awaited, deviceVars, peerVars>>

\* shutdown, or the drop of the backend.
SetStop ==
    /\ ready = "ok" /\ ~halt /\ halt' = TRUE
    /\ UNCHANGED <<ready, serving, current, admission, accepting, client, cancel, sentVars,
                   roundVars, slot, where, turn, order, did, awaited, deviceVars, peerVars>>

----------------------------------------------------------------------------
(* A rank executes a command.                                              *)

Reset(l) == [op |-> "Reset", inputs |-> <<<<l, << >>>>>>]
Consume(inputs) == [op |-> "Consume", inputs |-> inputs]
Stop == [op |-> "Stop", inputs |-> << >>]

LanesOf(c) == {c.inputs[i][1] : i \in DOMAIN c.inputs}
TokenFor(c, l) == (CHOOSE x \in ToSet(c.inputs) : x[1] = l)[2]

\* consume_batch refuses a lane named twice and a lane whose context is full.
Refuses(k, c) ==
    c.op = "Consume" /\ \/ Cardinality(LanesOf(c)) # Len(c.inputs)
                        \/ \E l \in LanesOf(c) : Len(consumed[k][l]) >= Context

AppliedKept(k, c) ==
    [l \in Lanes |-> IF l \notin LanesOf(c) \/ c.op = "Reset" THEN consumed[k][l]
                     ELSE Append(consumed[k][l], TokenFor(c, l))]

\* reset_slot forgets the lane; consume_batch appends one input to each lane it names.
Applied(k, c) ==
    [l \in Lanes |-> IF l \notin LanesOf(c) THEN consumed[k][l]
                     ELSE IF c.op = "Reset" THEN << >>
                     ELSE Append(consumed[k][l], TokenFor(c, l))]

\* A replay writes the logits of every lane; those of a lane it did not feed mean nothing.
Replayed(c) ==
    [l \in Lanes |-> IF c.op = "Consume" /\ l \in LanesOf(c)
                     THEN Append(consumed[0][l], TokenFor(c, l)) ELSE << >>]

\* A peer's Engine::prepare; it reports, and dies when it failed.
PeerStarts(p) ==
    /\ peer[p] = "starting"
    /\ \E ok \in BOOLEAN :
          /\ peer' = [peer EXCEPT ![p] = IF ok THEN "idle" ELSE "gone"]
          /\ reply' = [reply EXCEPT ![p] = Append(@, ok)]
    /\ UNCHANGED <<ready, serving, halt, current, admission, accepting, client, cancel, sentVars,
                   roundVars, slot, where, turn, order, did, awaited, deviceVars, commands>>

\* The peer's loop: stop, or execute and report; a failure ends the thread.
PeerServes(p) ==
    /\ peer[p] = "idle" /\ commands[p] # << >>
    /\ LET c == Head(commands[p]) IN
       \/ /\ c = Stop /\ peer' = [peer EXCEPT ![p] = "gone"] /\ UNCHANGED <<consumed, reply>>
       \/ /\ c # Stop
          /\ \E ok \in {b \in BOOLEAN : b => ~Refuses(p, c)} :
                /\ consumed' = IF ok THEN [consumed EXCEPT ![p] = Applied(p, c)] ELSE consumed
                /\ reply' = [reply EXCEPT ![p] = Append(@, ok)]
                /\ peer' = [peer EXCEPT ![p] = IF ok THEN "idle" ELSE "gone"]
    /\ commands' = [commands EXCEPT ![p] = Tail(@)]
    /\ UNCHANGED <<ready, serving, halt, current, admission, accepting, client, cancel, sentVars,
                   roundVars, slot, where, turn, order, did, awaited, logits, sampler>>

----------------------------------------------------------------------------
(* The worker thread: start, and dispatch of a command to all ranks.       *)

\* Rank 0's Engine::prepare, on the worker thread.
Prepare ==
    /\ where = "prepare"
    /\ \/ where' = "starting" /\ awaited' = PeerSeq
       \/ where' = "join" /\ awaited' = PeerSeq
    /\ UNCHANGED <<ready, serving, halt, current, admission, accepting, client, cancel, sentVars,
                   roundVars, slot, turn, order, did, deviceVars, peerVars>>

\* Peers report in rank order; the first failure ends the start.
AwaitPeer ==
    /\ where = "starting" /\ awaited # << >> /\ reply[Head(awaited)] # << >>
    /\ reply' = [reply EXCEPT ![Head(awaited)] = Tail(@)]
    /\ IF Head(reply[Head(awaited)]) THEN awaited' = Tail(awaited) /\ UNCHANGED where
       ELSE awaited' = PeerSeq /\ where' = "join"
    /\ UNCHANGED <<ready, serving, halt, current, admission, accepting, client, cancel, sentVars,
                   roundVars, slot, turn, order, did, deviceVars, peer, commands>>

\* The engine serves; without anyone waiting for the answer it stops at once.
Announce ==
    /\ where = "starting" /\ awaited = << >> /\ serving' = TRUE
    /\ IF ready = "waiting" THEN ready' = "ok" /\ where' = "tick" /\ UNCHANGED awaited
       ELSE where' = "join" /\ awaited' = PeerSeq /\ UNCHANGED ready
    /\ UNCHANGED <<halt, current, admission, accepting, client, cancel, sentVars, roundVars, slot,
                   turn, order, did, deviceVars, peerVars>>

\* dispatch: send to every peer, execute on rank 0, then collect the replies.
Dispatch(c) ==
    /\ commands' = [p \in Peers |-> Append(commands[p], c)]
    /\ \E ok \in {b \in BOOLEAN : b => ~Refuses(0, c)} :
          /\ did' = ok
          /\ consumed' = IF ok THEN [consumed EXCEPT ![0] = Applied(0, c)] ELSE consumed
          /\ logits' = IF ok THEN Replayed(c) ELSE logits
    /\ order' = c /\ awaited' = PeerSeq /\ where' = "dispatch"

\* One peer's reply; a failed one is returned before the replies after it are read.
CollectReply ==
    /\ where = "dispatch" /\ awaited # << >> /\ reply[Head(awaited)] # << >>
    /\ reply' = [reply EXCEPT ![Head(awaited)] = Tail(@)]
    /\ IF Head(reply[Head(awaited)]) THEN awaited' = Tail(awaited) /\ UNCHANGED where
       ELSE where' = "failed" /\ awaited' = << >>
    /\ UNCHANGED <<ready, serving, halt, current, admission, accepting, client, cancel, sentVars,
                   roundVars, slot, turn, order, did, deviceVars, peer, commands>>

\* All peers succeeded; rank 0's own result decides.
EndDispatch ==
    /\ where = "dispatch" /\ awaited = << >>
    /\ where' = IF ~did THEN "failed" ELSE IF order.op = "Reset" THEN "configure" ELSE "deliver"
    /\ remaining' = IF did /\ order.op = "Consume" THEN remaining - Len(order.inputs) ELSE remaining
    /\ order' = << >> /\ did' = TRUE
    /\ UNCHANGED <<ready, serving, halt, current, admission, accepting, client, cancel, sentVars,
                   token_budget, cursor, slot, turn, awaited, deviceVars, peerVars>>

----------------------------------------------------------------------------
(* The scheduling loop.                                                    *)

Without(ids) == [i \in DOMAIN current \ ids |-> current[i]]
Occupied(l) == slot[l].job # "none"
JobsIn(ls) == {slot[l].job : l \in {x \in ls : Occupied(x)}}
Closed(rs) == [r \in Submissions |-> closed[r] \/ (r \in rs /\ client[r] = "open")]
IdsOf(rs) == {RequestId[r] : r \in rs}

\* release: the lane is free, the id leaves the active map, the sender is dropped.  No rank is
\* told: the lane and its sampler keep what they held, which may be all they can hold and is
\* someone else's.
Used == [drawn |-> Context, min |-> 0, masked |-> FALSE]
Leftover == [i \in 1 .. Context |-> "stale"]

ReleaseLane(ls) ==
    /\ sampler' = [l \in Lanes |-> IF l \in ls THEN Used ELSE sampler[l]]
    /\ consumed' = [k \in LaneRanks |-> [l \in Lanes |-> IF l \in ls THEN Leftover
                                                        ELSE consumed[k][l]]]
    /\ slot' = [l \in Lanes |-> IF l \in ls THEN Free ELSE slot[l]]
    /\ current' = current
    /\ closed' = Closed(JobsIn(ls))

Release(ls) ==
    /\ sampler' = [l \in Lanes |-> IF l \in ls THEN Used ELSE sampler[l]]
    /\ consumed' = [k \in LaneRanks |-> [l \in Lanes |-> IF l \in ls THEN Leftover
                                                        ELSE consumed[k][l]]]
    /\ slot' = [l \in Lanes |-> IF l \in ls THEN Free ELSE slot[l]]
    /\ current' = Without(IdsOf(JobsIn(ls)))
    /\ closed' = Closed(JobsIn(ls))

\* The head of a tick: every lane may decode once more, the budget is whole.
Tick ==
    /\ where = "tick"
    /\ IF halt THEN where' = "finish" /\ UNCHANGED <<slot, remaining>>
       ELSE /\ where' = "round" /\ remaining' = token_budget
            /\ slot' = [l \in Lanes |-> [slot[l] EXCEPT !.decoded = FALSE]]
    /\ UNCHANGED <<ready, serving, halt, current, admission, accepting, client, cancel, sentVars,
                   token_budget, cursor, turn, order, did, awaited, deviceVars, peerVars>>

\* The head of a round: leave, or release what was cancelled and look for admissions.
Round ==
    /\ where = "round"
    /\ IF remaining = 0 \/ halt
       THEN where' = "tick" /\ UNCHANGED <<slot, current, closed, turn, consumed, sampler>>
       ELSE /\ Release({l \in Lanes : Occupied(l) /\ cancel[slot[l].job]})
            /\ where' = "admit" /\ turn' = LaneSeq
    /\ UNCHANGED <<ready, serving, halt, admission, accepting, client, cancel, sent, roundVars, order,
                   did, awaited, logits, peerVars>>

\* One lane of the admission loop: a free lane takes the next job; a cancelled job takes no lane.
Admit ==
    /\ where = "admit"
    /\ \/ /\ turn # << >> => ~Occupied(Head(turn)) /\ admission = << >>
          /\ where' = "select" /\ turn' = << >>
          /\ UNCHANGED <<current, admission, closed, slot, order, did, awaited, consumed, logits,
                         commands>>
       \/ /\ turn # << >> /\ Occupied(Head(turn)) /\ turn' = Tail(turn)
          /\ UNCHANGED <<current, admission, closed, slot, order, did, awaited, consumed, logits,
                         commands, where>>
       \/ /\ turn # << >> /\ ~Occupied(Head(turn)) /\ admission # << >>
          /\ admission' = Tail(admission)
          /\ LET r == Head(admission) IN
             IF cancel[r]
             THEN /\ current' = Without({RequestId[r]}) /\ closed' = Closed({r})
                  /\ turn' = Tail(turn)
                  /\ UNCHANGED <<slot, order, did, awaited, consumed, logits, commands, where>>
             ELSE /\ slot' = [slot EXCEPT ![Head(turn)] = [Free EXCEPT !.job = r]]
                  /\ Dispatch(Reset(Head(turn))) /\ UNCHANGED <<current, closed, turn>>
    /\ UNCHANGED <<ready, serving, halt, accepting, client, cancel, sent, roundVars, sampler, peer,
                   reply>>

\* Sampler::configure for the lane just reset.
Configured(r) == [drawn |-> 0, min |-> MinTokens[r], masked |-> MinTokens[r] > 0]

ConfigureSlot ==
    /\ where = "configure"
    /\ \/ /\ sampler' = [sampler EXCEPT ![Head(turn)] = Configured(slot[Head(turn)].job)]
          /\ where' = "admit" /\ turn' = Tail(turn)
       \/ where' = "failed" /\ UNCHANGED <<sampler, turn>>
    /\ UNCHANGED <<ready, serving, halt, current, admission, accepting, client, cancel, sentVars,
                   roundVars, slot, order, did, awaited, consumed, logits, peerVars>>

Eligible(l) == Occupied(l) /\ (slot[l].fed < PromptLen[slot[l].job] \/ ~slot[l].decoded)

\* The lane an offset from the cursor reaches.
Turned(i) == (cursor + i) % NumLanes

\* select_round: eligible lanes from the cursor on, as many as the budget has left.
SelectRound ==
    LET eligible == {i \in 0 .. NumLanes - 1 : Eligible(Turned(i))}
        before(i) == Cardinality({j \in eligible : j < i})
        number == Cardinality(eligible)
    IN  [n \in 1 .. (IF number < remaining THEN number ELSE remaining) |->
            Turned(CHOOSE i \in eligible : before(i) = n - 1)]

CursorStays(selected) == cursor

CursorAfter(selected) == IF selected = << >> THEN cursor ELSE (Last(selected) + 1) % NumLanes

\* The lane's next input: of its prompt, or the token it generated last.
NextInput(l) ==
    LET s == slot[l] IN
    <<s.job, IF s.fed < PromptLen[s.job] THEN s.fed + 1 ELSE PromptLen[s.job] + s.generated>>

Select ==
    /\ where = "select" /\ turn' = SelectRound /\ cursor' = CursorAfter(SelectRound)
    /\ IF SelectRound = << >>
       THEN where' = "tick" /\ UNCHANGED <<order, did, awaited, consumed, logits, commands>>
       ELSE Dispatch(Consume([i \in DOMAIN SelectRound |->
                                 <<SelectRound[i], NextInput(SelectRound[i])>>]))
    /\ UNCHANGED <<ready, serving, halt, current, admission, accepting, client, cancel, sentVars,
                   token_budget, remaining, slot, sampler, peer, reply>>

\* try_send fails only when the stream was dropped or its channel, context + 1 long, is full.
Room(r) == client[r] = "open" /\ Len(sent[r]) < Context + 1

LaneMessage(from, finish) == [from |-> from, finish |-> finish]
Failure == LaneMessage(<<"error">>, "error")

UnmaskedEarly(l) == [sampler[l] EXCEPT !.masked = @ /\ sampler[l].drawn + 1 # sampler[l].min]

\* Sampler::draw, when the tokens drawn reach the minimum, lets the stop tokens through.
Unmasked(l) == [sampler[l] EXCEPT !.masked = @ /\ sampler[l].drawn # sampler[l].min]

\* Which way a request ends with a token; stop stands for its eos and stop tokens.
Finish(r, token, generated) ==
    IF token = "stop" THEN "stop" ELSE IF generated >= MaxTokens[r] THEN "length" ELSE "none"

SampleSlot(l, fed) ==
    LET r == slot[l].job
        generated == slot[l].generated + 1 IN
    \/ /\ Len(consumed[0][l]) > 0 /\ sampler[l].drawn < Context
       /\ \E token \in IF Unmasked(l).masked THEN {"other"} ELSE {"other", "stop"} :
             LET finish == Finish(r, token, generated) IN
             /\ sent' = IF Room(r) THEN [sent EXCEPT ![r] = Append(@, LaneMessage(logits[l], finish))]
                        ELSE sent
             /\ IF finish # "none" \/ ~Room(r) THEN Release({l})
                ELSE /\ slot' = [slot EXCEPT ![l] = [job |-> r, fed |-> fed, generated |-> generated,
                                                     decoded |-> TRUE]]
                     /\ sampler' = [sampler EXCEPT ![l] = [Unmasked(l) EXCEPT !.drawn = @ + 1]]
                     /\ UNCHANGED <<current, closed, consumed>>
       /\ turn' = Tail(turn) /\ UNCHANGED where
    \/ /\ where' = "failed" /\ UNCHANGED <<sampler, slot, current, sentVars, turn, consumed>>

\* After a replay, each lane in it: its request may have been cancelled, may have more prompt to
\* feed, or is sampled.
DeliverTokens ==
    /\ where = "deliver" /\ turn # << >>
    /\ LET l == Head(turn)
           r == slot[l].job
           fed == IF slot[l].fed < PromptLen[r] THEN slot[l].fed + 1 ELSE slot[l].fed IN
       \/ /\ cancel[r] /\ Release({l}) /\ turn' = Tail(turn) /\ UNCHANGED <<sent, where>>
       \/ /\ ~cancel[r] /\ fed < PromptLen[r]
          /\ slot' = [slot EXCEPT ![l].fed = fed] /\ turn' = Tail(turn)
          /\ UNCHANGED <<current, sentVars, sampler, where, consumed>>
       \/ /\ ~cancel[r] /\ fed = PromptLen[r] /\ SampleSlot(l, fed)
    /\ UNCHANGED <<ready, serving, halt, admission, accepting, client, cancel, roundVars, order, did,
                   awaited, logits, peerVars>>

\* Nothing reads these logits after the round.
EndRound ==
    /\ where = "deliver" /\ turn = << >> /\ where' = "round"
    /\ logits' = [l \in Lanes |-> << >>]
    /\ UNCHANGED <<ready, serving, halt, current, admission, accepting, client, cancel, sentVars,
                   roundVars, slot, turn, order, did, awaited, consumed, sampler, peerVars>>

\* The loop returned an error: tell the requests in lanes and those still queued.
ReportFailure ==
    /\ where = "failed" /\ where' = "finish"
    /\ LET told == JobsIn(Lanes) \cup ToSet(admission) IN
       /\ sent' = [r \in Submissions |-> IF r \in told /\ Room(r) THEN Append(sent[r], Failure)
                                        ELSE sent[r]]
       /\ closed' = Closed(ToSet(admission)) /\ admission' = << >>
    /\ UNCHANGED <<ready, serving, halt, current, accepting, client, cancel, roundVars, slot, turn,
                   order, did, awaited, deviceVars, peerVars>>

\* The loop is left, and its locals with it: every lane is released, the active map emptied.
FinishRun ==
    /\ where = "finish" /\ where' = "join" /\ awaited' = PeerSeq
    /\ slot' = [l \in Lanes |-> Free] /\ current' = << >> /\ closed' = Closed(JobsIn(Lanes))
    /\ consumed' = [k \in LaneRanks |-> [l \in Lanes |-> Leftover]]
    /\ sampler' = [l \in Lanes |-> Used] /\ logits' = [l \in Lanes |-> << >>]
    /\ turn' = << >> /\ remaining' = 0 /\ cursor' = 0 /\ order' = << >> /\ did' = TRUE
    /\ UNCHANGED <<ready, serving, halt, admission, accepting, client, cancel, sent, token_budget,
                   peerVars>>

\* Drop for Peer, one after the other: ask it to stop, wait until its thread is gone.
StopPeer ==
    /\ where = "join" /\ awaited # << >> /\ where' = "joining"
    /\ commands' = [commands EXCEPT ![Head(awaited)] = Append(@, Stop)]
    /\ UNCHANGED <<ready, serving, halt, current, admission, accepting, client, cancel, sentVars,
                   roundVars, slot, turn, order, did, awaited, deviceVars, peer, reply>>

JoinPeer ==
    /\ where = "joining" /\ peer[Head(awaited)] = "gone"
    /\ where' = "join" /\ awaited' = Tail(awaited)
    /\ UNCHANGED <<ready, serving, halt, current, admission, accepting, client, cancel, sentVars,
                   roundVars, slot, turn, order, did, deviceVars, peerVars>>

\* The end of the thread: the start-up answer if none was given, then the guard.
EndLaneThread ==
    /\ where = "join" /\ awaited = << >> /\ where' = "guard"
    /\ ready' = IF ready = "ok" THEN "ok" ELSE "failed"
    /\ serving' = FALSE
    /\ UNCHANGED <<halt, current, admission, accepting, client, cancel, sentVars, roundVars, slot,
                   turn, order, did, awaited, deviceVars, peerVars>>

\* The receiver of jobs is dropped last, and the jobs left in it with their senders.
DropReceiver ==
    /\ where = "guard" /\ where' = "gone" /\ accepting' = FALSE
    /\ admission' = << >> /\ closed' = Closed(ToSet(admission))
    /\ UNCHANGED <<ready, serving, halt, current, client, cancel, sent, roundVars, slot, turn, order,
                   did, awaited, deviceVars, peerVars>>

LaneThread ==
    \/ Prepare \/ AwaitPeer \/ Announce \/ CollectReply \/ EndDispatch \/ Tick \/ Round \/ Admit
    \/ ConfigureSlot \/ Select \/ DeliverTokens \/ EndRound \/ ReportFailure \/ FinishRun \/ StopPeer
    \/ JoinPeer \/ EndLaneThread \/ DropReceiver

PeerStep(p) == PeerStarts(p) \/ PeerServes(p)

LanesNext ==
    \/ LaneThread \/ AbandonStart \/ SetStop
    \/ \E p \in Peers : PeerStep(p)
    \/ \E r \in Submissions : Generate(r) \/ Enqueue(r) \/ LeaveStream(r)
    \/ \E i \in AbortIds : Abort(i)

\* The worker and the rank threads run; no client is obliged to do anything.
LanesFairness == WF_laneVars(LaneThread) /\ \A p \in Peers : WF_laneVars(PeerStep(p))

LanesSpec == LanesInit /\ [][LanesNext]_laneVars /\ LanesFairness

----------------------------------------------------------------------------
(* Properties.                                                             *)

\* What request r has fed when n inputs of it were consumed.
Fed(r, n) == [i \in 1 .. n |-> <<r, i>>]

\* Every token comes from its request's own inputs; all ranks agree on what the lanes hold.
TokensExact ==
    /\ \A r \in Submissions : \A k \in DOMAIN sent[r] :
          LET m == sent[r][k] IN
          \/ m = Failure /\ k = Len(sent[r])
          \/ /\ m.from = Fed(r, PromptLen[r] + k - 1) /\ k <= MaxTokens[r]
             /\ m.finish # "none" => k = Len(sent[r])
             /\ m.finish = "stop" => k > MinTokens[r]
    /\ where \in {"round", "select"} =>
          \A l \in Lanes : Occupied(l) => \A p \in Peers : consumed[p][l] = consumed[0][l]

\* No lane is fed past the context (consume_batch), sampled before prefill or past the sampler's
\* capacity.
NeverRefused ==
    /\ where = "dispatch" => \A p \in Peers : commands[p] # << >> => ~Refuses(p, Head(commands[p]))
    /\ where = "deliver" => \A l \in ToSet(turn) : /\ Len(consumed[0][l]) \in 1 .. Context
                                                  /\ sampler[l].drawn < Context

\* An id is in the active map while, and only while, one accepted job of it is queued or in a lane.
ActiveExact ==
    where \notin {"finish", "join", "joining", "guard", "gone"} =>
        LET queued == ToSet(admission)
            running == JobsIn(Lanes) IN
        /\ \A i, j \in DOMAIN admission : RequestId[admission[i]] = RequestId[admission[j]] => i = j
        /\ \A l, m \in {x \in Lanes : Occupied(x)} :
              RequestId[slot[l].job] = RequestId[slot[m].job] => l = m
        /\ IdsOf(queued) \cap IdsOf(running) = {}
        /\ DOMAIN current = IdsOf(queued \cup running)
        /\ \A r \in queued \cup running : current[RequestId[r]] = r

\* Every token a stream carries was sampled from exactly its request's prompt and the tokens
\* before it, whatever the lane held before and whichever lanes were replayed beside it; the
\* stream says it is finished once, at its end, by a stop token only past min_tokens, and never
\* exceeds max_tokens.  While requests run, all ranks agree on what their lanes hold (parallel.rs:
\* "All ranks replay the same graph schedule"), and the engine's own checks never refuse what the
\* scheduling loop asks for.  A finished or cancelled id can be used again, a running one cannot.
LanesExact == TokensExact /\ NeverRefused /\ ActiveExact

\* Every accepted request's stream ends: no lane is starved by the token budget, no failure or
\* shutdown leaves a stream open.  A shutdown, a failure and a start that fails end the thread and
\* every rank thread.
LanesDrain ==
    /\ \A r \in Submissions : client[r] = "open" ~> (closed[r] \/ client[r] # "open")
    /\ (halt \/ where \in {"failed", "join"}) ~>
          (where = "gone" /\ \A p \in Peers : peer[p] = "gone")
=============================================================================
