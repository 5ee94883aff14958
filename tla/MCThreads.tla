----------------------------- MODULE MCThreads -----------------------------
(***************************************************************************)
(* The two thread groups that execute: three rank workers with an owner    *)
(* who makes up to three calls, or two requests on two lanes of two ranks. *)
(* They share no state: in a behaviour one group starts and the other is   *)
(* already over.                                                           *)
(***************************************************************************)
EXTENDS WorkerGroup, NativeLanes, TLC

CONSTANTS r1, r2

In(place, pages, done, tokens) ==
    [slot |-> place, pages |-> pages, consumed |-> done, tokens |-> tokens]

MCBatches ==
    {<<In(0, {0}, 1, 1)>>, <<In(0, {0}, 0, 1), In(1, {1, 2}, 3, 1)>>,
     <<In(0, {0}, 0, 1), In(1, {0, 1}, 2, 1)>>, <<In(0, {0, 1}, 0, 2)>>,
     <<In(0, {0, 1, 2}, 4, 1)>>, << >>}

MCRequestId == r1 :> "a" @@ r2 :> "b"
MCPromptLen == r1 :> 2 @@ r2 :> 1
MCMaxTokens == r1 :> 1 @@ r2 :> 2
MCMinTokens == r1 :> 0 @@ r2 :> 1

----------------------------------------------------------------------------
\* The group dropped, its first worker ended.
GroupOver ==
    /\ decode = TRUE /\ thread = [r \in Ranks |-> IF r = 1 THEN "ended" ELSE "unborn"]
    /\ stage = [r \in Ranks |-> "Validate"]
    /\ graphs = [r \in Ranks |-> {}] /\ device = [r \in Ranks |-> {}]
    /\ mailbox = [r \in Ranks |-> << >>] /\ ran = [r \in Ranks |-> << >>]
    /\ group = "done" /\ at = 1 /\ calls = << >> /\ replies = {} /\ results = << >>

\* The start failed and every thread is gone.
LanesOver ==
    /\ ready = "failed" /\ serving = FALSE /\ halt = FALSE /\ current = << >>
    /\ admission = << >> /\ accepting = FALSE
    /\ client = [r \in Submissions |-> "idle"] /\ cancel = [r \in Submissions |-> FALSE]
    /\ sent = [r \in Submissions |-> << >>] /\ closed = [r \in Submissions |-> FALSE]
    /\ token_budget = 1 /\ remaining = 0 /\ cursor = 0
    /\ slot = [l \in Lanes |-> Free] /\ where = "gone" /\ turn = << >>
    /\ order = << >> /\ did = TRUE /\ awaited = << >>
    /\ consumed = [k \in LaneRanks |-> [l \in Lanes |-> << >>]] /\ logits = [l \in Lanes |-> << >>]
    /\ sampler = [l \in Lanes |-> [drawn |-> 0, min |-> 0, masked |-> FALSE]]
    /\ peer = [p \in Peers |-> "gone"] /\ commands = [p \in Peers |-> << >>]
    /\ reply = [p \in Peers |-> << >>]

ThreadsInit == (GroupInit /\ LanesOver) \/ (GroupOver /\ LanesInit)
ThreadsNext == (GroupNext /\ UNCHANGED laneVars) \/ (LanesNext /\ UNCHANGED groupVars)
ThreadsSpec ==
    ThreadsInit /\ [][ThreadsNext]_<<groupVars, laneVars>> /\ GroupFairness /\ LanesFairness
=============================================================================
