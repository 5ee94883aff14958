---------------------------- MODULE WorkerGroup ----------------------------
(***************************************************************************)
(* Runtime and WorkerGroup of crates/inferfabric-runtime/src/lib.rs: one   *)
(* thread per rank starts its device stage by stage, then serves steps    *)
(* from a bounded channel; the group spawns the ranks one after another,   *)
(* sends every step to all of them, collects their replies in order and    *)
(* gives up at the first error, and stops and joins them when dropped.     *)
(* A batch is what Runtime::step looks at: the binding and the lengths of  *)
(* every input.  What the mock device computes is left out; that it holds *)
(* a buffer and graphs is not.                                             *)
(***************************************************************************)
EXTENDS Naturals, Sequences, FiniteSets

CONSTANTS
    Ranks,            \* 1 .. n, in spawn order
    BatchBuckets, ContextBuckets, PageTokens,
    Faults,           \* stages at which start may fail, by the device or by injection
    Batches,          \* what step may be called with: sequences of inputs
    MaxCalls,         \* bound on calls of step
    InboxCap          \* commands a worker's channel holds

ASSUME GroupAssumption ==
    /\ Ranks = 1 .. Cardinality(Ranks) /\ Cardinality(Ranks) \in Nat \ {0}
    /\ BatchBuckets \subseteq Nat \ {0} /\ ContextBuckets \subseteq Nat \ {0}
    /\ BatchBuckets # {} /\ ContextBuckets # {} /\ PageTokens \in Nat \ {0}
    /\ IsFiniteSet(BatchBuckets) /\ IsFiniteSet(ContextBuckets)
    /\ Batches \subseteq Seq([slot : Nat, pages : SUBSET Nat, consumed : Nat, tokens : Nat])
    /\ InboxCap \in Nat \ {0} /\ MaxCalls \in Nat

VARIABLES
    decode,   \* the role of the group's ranks: only decode captures and replays graphs
    thread,   \* per rank: unborn, starting, serving or ended
    stage,    \* per rank: Runtime.stage
    graphs,   \* per rank: the buckets Runtime.graphs has a graph for
    device,   \* per rank: what the device holds, its buffer and its captured buckets
    mailbox,  \* per rank: commands in the channel
    ran,      \* per rank: the calls it executed, in order
    group,    \* what the owner does: spawning, idle, sending, collecting, dropping, joining, done
    at,       \* the rank the owner is at
    calls,    \* the batch of every call so far
    replies,  \* [call, rank, ok] sent; every call has its own reply channels
    results   \* by call, what step returned

groupVars ==
    <<decode, thread, stage, graphs, device, mailbox, ran, group, at, calls, replies, results>>
workerVars == <<decode, thread, stage, graphs, device, mailbox, ran, replies>>

Buckets == BatchBuckets \X ContextBuckets

\* The buffer among what a device holds, told from the buckets of its graphs.
Buffer == <<0, 0>>

GroupInit ==
    /\ decode \in BOOLEAN
    /\ thread = [r \in Ranks |-> "unborn"] /\ stage = [r \in Ranks |-> "Validate"]
    /\ graphs = [r \in Ranks |-> {}] /\ device = [r \in Ranks |-> {}]
    /\ mailbox = [r \in Ranks |-> << >>] /\ ran = [r \in Ranks |-> << >>]
    /\ group = "spawning" /\ at = 1 /\ calls = << >> /\ replies = {} /\ results = << >>

----------------------------------------------------------------------------
(* Runtime.                                                                *)

\* The stage after s, for a runtime that captured the buckets in done.
StageAfter(s, done) ==
    CASE s = "Validate" -> "Compile"
      [] s = "Compile" -> "Prepare"
      [] s = "Prepare" -> "Warmup"
      [] s = "Capture" -> "ValidateReplay"
      [] s \in {"Warmup", "ValidateReplay"} -> IF decode /\ done # Buckets THEN "Capture" ELSE "Reset"
      [] s = "Reset" -> "Ready"

\* Mutant of BackendClose: the buffer is forgotten, not released.
BackendCloseGraphs(held) == held \cap {Buffer}

\* close of the device: graphs, then buffers.
BackendClose(held) == {}

\* prepare, upload_weights and allocate: of these only the buffer stays.
Allocated(held) == held \cup {Buffer}

\* capture of the next bucket.
Captured(held, done) == held \cup {CHOOSE b \in Buckets \ done : TRUE}

\* validate_graph and the replay: the graphs the device knows are the runtime's.
Validated(held) == held \ {Buffer}

\* start fails: the device is closed, and again when the thread drops the runtime.
StartFails(r) ==
    /\ thread[r] = "starting" /\ stage[r] \in Faults
    /\ stage' = [stage EXCEPT ![r] = "Failed"]
    /\ device' = [device EXCEPT ![r] = BackendClose(@)]
    /\ thread' = [thread EXCEPT ![r] = "ended"]
    /\ UNCHANGED <<graphs, mailbox, ran, group, at, calls, replies, results>>

\* The work of one stage; the graph of a bucket counts once its replay was validated,
\* and the order of the buckets does not matter.
StartStage(r) ==
    /\ thread[r] = "starting" /\ stage[r] # "Ready"
    /\ \/ /\ stage[r] = "Prepare"
          /\ device' = [device EXCEPT ![r] = Allocated(@)] /\ UNCHANGED graphs
       \/ /\ stage[r] = "Capture"
          /\ device' = [device EXCEPT ![r] = Captured(@, graphs[r])]
          /\ UNCHANGED graphs
       \/ /\ stage[r] = "ValidateReplay"
          /\ graphs' = [graphs EXCEPT ![r] = Validated(device[r])] /\ UNCHANGED device
       \/ /\ stage[r] \notin {"Prepare", "Capture", "ValidateReplay"}
          /\ UNCHANGED <<graphs, device>>
    /\ stage' = [stage EXCEPT ![r] = StageAfter(@, graphs'[r])]
    /\ UNCHANGED <<thread, mailbox, ran, group, at, calls, replies, results>>

StartReady(r) ==
    /\ thread[r] = "starting" /\ stage[r] = "Ready"
    /\ thread' = [thread EXCEPT ![r] = "serving"]
    /\ UNCHANGED <<stage, graphs, device, mailbox, ran, group, at, calls, replies, results>>

PagesNeeded(input) == (input.consumed + input.tokens + PageTokens - 1) \div PageTokens

\* Nothing is bound twice, and every input has the pages it needs.
BindingsOK(batch) ==
    /\ batch # << >>
    /\ \A i \in DOMAIN batch :
          /\ Cardinality(batch[i].pages) >= PagesNeeded(batch[i])
          /\ \A j \in DOMAIN batch \ {i} :
                batch[i].slot # batch[j].slot /\ batch[i].pages \cap batch[j].pages = {}

AtLeast(buckets, n) == {b \in buckets : b >= n}

Smallest(set) == CHOOSE x \in set : \A y \in set : x <= y
Largest(set) == CHOOSE x \in set : \A y \in set : x >= y

\* The longest context of a batch.
StepContext(batch) == Largest({batch[i].consumed + batch[i].tokens : i \in DOMAIN batch})

\* execute of the mock device, on a graph or without: contexts are bounded, and a
\* graph takes one token for each of at most as many inputs as it was captured for.
Executes(batch, graph) ==
    /\ \A i \in DOMAIN batch :
          /\ batch[i].tokens > 0
          /\ batch[i].consumed + batch[i].tokens <= Largest(ContextBuckets)
    /\ \A g \in graph :
          /\ Len(batch) <= g[1]
          /\ \A i \in DOMAIN batch : batch[i].tokens = 1 /\ batch[i].consumed + 1 <= g[2]

\* step of a ready runtime: does it succeed?
StepOK(r, batch) ==
    /\ BindingsOK(batch)
    /\ IF ~decode THEN Executes(batch, {})
       ELSE /\ AtLeast(BatchBuckets, Len(batch)) # {}
            /\ AtLeast(ContextBuckets, StepContext(batch)) # {}
            /\ LET g == <<Smallest(AtLeast(BatchBuckets, Len(batch))),
                          Smallest(AtLeast(ContextBuckets, StepContext(batch)))>>
               IN  g \in graphs[r] /\ g \in device[r] /\ Executes(batch, {g})

----------------------------------------------------------------------------
(* The worker threads' loop.                                               *)

Serve(r) ==
    LET call == Head(mailbox[r]).call
    IN  /\ thread[r] = "serving" /\ mailbox[r] # << >> /\ Head(mailbox[r]).kind = "Step"
        /\ mailbox' = [mailbox EXCEPT ![r] = Tail(@)]
        /\ ran' = [ran EXCEPT ![r] = Append(@, call)]
        /\ replies' = replies \cup {[call |-> call, rank |-> r, ok |-> StepOK(r, calls[call])]}
        /\ UNCHANGED <<thread, stage, graphs, device, group, at, calls, results>>

\* Runtime::close, which ends early when it cannot synchronize, and then the drop.
CloseRuntime(r) ==
    /\ \E s \in {"Closed", "Ready"} : stage' = [stage EXCEPT ![r] = s]
    /\ device' = [device EXCEPT ![r] = BackendClose(@)]
    /\ graphs' = [graphs EXCEPT ![r] = {}]

ServeStop(r) ==
    /\ thread[r] = "serving" /\ mailbox[r] # << >> /\ Head(mailbox[r]).kind = "Stop"
    /\ mailbox' = [mailbox EXCEPT ![r] = << >>]
    /\ thread' = [thread EXCEPT ![r] = "ended"]
    /\ CloseRuntime(r)
    /\ UNCHANGED <<ran, group, at, calls, replies, results>>

Worker(r) ==
    /\ StartFails(r) \/ StartStage(r) \/ StartReady(r) \/ Serve(r) \/ ServeStop(r)
    /\ UNCHANGED decode

----------------------------------------------------------------------------
(* The group, in its owner's thread.                                       *)

Dropping == group' = "dropping" /\ at' = 1

Spawn ==
    /\ group = "spawning" /\ thread[at] = "unborn"
    /\ thread' = [thread EXCEPT ![at] = "starting"]
    /\ UNCHANGED <<stage, graphs, device, mailbox, ran, group, at, calls, replies, results>>

\* mock waits for the rank it spawned; a failed start drops the group so far.
AwaitReady ==
    /\ group = "spawning" /\ thread[at] \in {"serving", "ended"}
    /\ \/ thread[at] = "ended" /\ Dropping
       \/ thread[at] = "serving" /\ at + 1 \in Ranks /\ at' = at + 1 /\ UNCHANGED group
       \/ thread[at] = "serving" /\ at + 1 \notin Ranks /\ group' = "idle" /\ at' = 1
    /\ UNCHANGED <<workerVars, calls, results>>

CallStep(batch) ==
    /\ group = "idle" /\ Len(calls) < MaxCalls
    /\ calls' = Append(calls, batch) /\ group' = "sending" /\ at' = 1
    /\ UNCHANGED <<workerVars, results>>

\* A full channel holds the owner up until its worker takes a command.  While the
\* group is idle or busy every rank serves, so no send finds its receiver gone.
Send ==
    /\ group = "sending" /\ Len(mailbox[at]) < InboxCap
    /\ mailbox' = [mailbox EXCEPT ![at] = Append(@, [kind |-> "Step", call |-> Len(calls)])]
    /\ IF at + 1 \in Ranks THEN at' = at + 1 /\ UNCHANGED group
       ELSE group' = "collecting" /\ at' = 1
    /\ UNCHANGED <<thread, stage, graphs, device, ran, calls, replies, results>>

\* Mutant of Reply: a channel per worker rather than per call.
ReplyOfWorker(r) == {m \in replies : m.rank = r}

\* What came back on the channel the running call made for a rank.
Reply(r) == {m \in replies : m.rank = r /\ m.call = Len(calls)}

Return(ok) == results' = Append(results, ok) /\ group' = "idle" /\ at' = 1

\* The first error ends the call; later replies find no receiver.
Collect ==
    /\ group = "collecting"
    /\ \E m \in Reply(at) :
          \/ ~m.ok /\ Return(FALSE)
          \/ m.ok /\ at + 1 \in Ranks /\ at' = at + 1 /\ UNCHANGED <<group, results>>
          \/ m.ok /\ at + 1 \notin Ranks /\ Return(TRUE)
    /\ UNCHANGED <<workerVars, calls>>

DropGroup == group = "idle" /\ Dropping /\ UNCHANGED <<workerVars, calls, results>>

Spawned == {r \in Ranks : thread[r] # "unborn"}

\* Stop for every rank; a rank whose thread ended does not take it.
DropSend ==
    /\ group = "dropping" /\ (thread[at] = "ended" \/ Len(mailbox[at]) < InboxCap)
    /\ mailbox' = IF thread[at] = "ended" THEN mailbox
                ELSE [mailbox EXCEPT ![at] = Append(@, [kind |-> "Stop"])]
    /\ IF at + 1 \in Spawned THEN at' = at + 1 /\ UNCHANGED group
       ELSE group' = "joining" /\ at' = 1
    /\ UNCHANGED <<thread, stage, graphs, device, ran, calls, replies, results>>

DropJoin ==
    /\ group = "joining" /\ thread[at] = "ended"
    /\ IF at + 1 \in Spawned THEN at' = at + 1 /\ UNCHANGED group
       ELSE group' = "done" /\ UNCHANGED at
    /\ UNCHANGED <<workerVars, calls, results>>

Owner ==
    /\ Spawn \/ AwaitReady \/ Send \/ Collect \/ DropSend \/ DropJoin
    /\ UNCHANGED decode

GroupNext ==
    \/ \E r \in Ranks : Worker(r)
    \/ Owner
    \/ \E batch \in Batches : CallStep(batch)
    \/ DropGroup

\* Threads run, and a group is dropped in the end.
GroupFairness ==
    /\ \A r \in Ranks : WF_groupVars(Worker(r))
    /\ WF_groupVars(Owner) /\ WF_groupVars(DropGroup)

GroupSpec == GroupInit /\ [][GroupNext]_groupVars /\ GroupFairness

----------------------------------------------------------------------------
(* Properties.                                                             *)

\* What a batch must satisfy to be run at all, told without buckets.
Fits(batch) ==
    /\ BindingsOK(batch)
    /\ \A i \in DOMAIN batch :
          /\ batch[i].tokens > 0 /\ (decode => batch[i].tokens = 1)
          /\ batch[i].consumed + batch[i].tokens <= Largest(ContextBuckets)
    /\ decode => Len(batch) <= Largest(BatchBuckets)

\* step answers for its own batch and for all ranks, also after a call that returned
\* early while ranks were still at it: it succeeds exactly when the batch fits, no
\* start-up graph is missing or too small, and then every rank has run the call;
\* each rank runs the calls in the order they were made, none twice and none left out.
StepIsWholeGroup ==
    /\ \A c \in DOMAIN results :
          /\ results[c] = Fits(calls[c])
          /\ results[c] => \A r \in Ranks : c \in {ran[r][i] : i \in DOMAIN ran[r]}
    /\ \A r \in Ranks : \A i \in DOMAIN ran[r] : ran[r][i] = i

\* A group comes to its end whatever failed: every rank that was spawned, ready,
\* failed in some stage of its start or behind with its commands, ends with nothing
\* left in its device, and the owner's drop returns.
GroupComesDown ==
    <>[](/\ group = "done"
         /\ \A r \in Spawned : thread[r] = "ended" /\ device[r] = {})
=============================================================================
