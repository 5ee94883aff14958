---------------------------- MODULE MockServing ----------------------------
(***************************************************************************)
(* frontend/src/backend.rs: the mock generation backend.  Callers of       *)
(* generate, abort and shutdown put commands on a bounded channel; one     *)
(* thread takes them, feeds the live scheduler and fans its events out to  *)
(* a bounded output channel per request.  The scheduler is modelled by     *)
(* what the thread relies on: submit admits or refuses, step emits at most *)
(* one event for each job and forgets a job with its last event, cancel    *)
(* forgets it; LiveScheduler has the rest.  A call of generate stands for  *)
(* the number the thread gives its request.  Which text a message carries  *)
(* is left out, but not whether it carries the prompt, its token's place   *)
(* and whether it is the last.                                             *)
(***************************************************************************)
EXTENDS Naturals, Sequences, FiniteSets

CONSTANTS
    Calls,       \* calls of generate
    Ids,         \* request ids a caller may pick
    MaxNew,      \* tokens a request may emit
    Aborts,      \* request ids abort may be called for, once each
    Shutters,    \* calls of shutdown
    CmdCap,      \* commands the channel holds, no fewer than the thread takes at once
    OutCap       \* messages an output channel holds

ASSUME ServingAssumption ==
    /\ CmdCap \in Nat \ {0} /\ OutCap \in Nat \ {0} /\ \A c \in Calls : MaxNew[c] \in Nat \ {0}
    /\ Aborts \subseteq Ids

VARIABLES
    healthy, backend,  \* the health flag; is the Backend, the channel's sender, alive
    inbox,             \* commands in the channel
    loop,              \* the thread: recv, commands, act, events or ended
    batch, stop,       \* commands taken, and the shutdown to answer
    emitted,           \* the jobs of the scheduler: tokens emitted so far
    outputs,           \* the requests the thread has an output channel for
    events,            \* events of the last step still to deliver
    id,                \* per call: its request id
    call,              \* per call: new, checked, waiting, streaming or over
    answer,            \* per call, abort and shutdown: none, ok, err, or lost with the command
    cancelled,         \* per call: the shared flag
    listening,         \* per call: the receiver of its output channel is alive
    outbox, received,  \* per call: messages in its output channel, and read by the client
    asked              \* aborts and shutdowns sent

serveVars == <<healthy, backend, inbox, loop, batch, stop, emitted, outputs, events, id, call, answer,
               cancelled, listening, outbox, received, asked>>
clientVars == <<id, call, listening, received>>
threadVars == <<loop, batch, stop, emitted, outputs, events>>

ServeInit ==
    /\ healthy = TRUE /\ backend = TRUE /\ inbox = << >> /\ loop = "recv"
    /\ batch = << >> /\ stop = {} /\ emitted = << >> /\ outputs = {} /\ events = << >>
    /\ id \in [Calls -> Ids] /\ call = [c \in Calls |-> "new"]
    /\ answer = [x \in Calls \cup Aborts \cup Shutters |-> "none"]
    /\ cancelled = [c \in Calls |-> FALSE] /\ listening = [c \in Calls |-> TRUE]
    /\ outbox = [c \in Calls |-> << >>] /\ received = [c \in Calls |-> << >>] /\ asked = {}

----------------------------------------------------------------------------
(* Callers.                                                                *)

\* Is there still a receiver for commands, and room?
Accepting == loop # "ended" /\ Len(inbox) < CmdCap

\* generate reads the health flag before it sends; the thread may end in between.
CheckHealth(c) ==
    /\ call[c] = "new" /\ backend
    /\ call' = [call EXCEPT ![c] = IF healthy THEN "checked" ELSE "over"]
    /\ UNCHANGED <<id, healthy, backend, inbox, threadVars, answer, cancelled, listening, outbox,
                   received, asked>>

SendSubmit(c) ==
    /\ call[c] = "checked"
    /\ \/ /\ Accepting /\ inbox' = Append(inbox, [kind |-> "Submit", by |-> c])
          /\ call' = [call EXCEPT ![c] = "waiting"]
       \/ /\ loop = "ended" /\ call' = [call EXCEPT ![c] = "over"] /\ UNCHANGED inbox
    /\ UNCHANGED <<id, healthy, backend, threadVars, answer, cancelled, listening, outbox, received,
                   asked>>

Answered(c) ==
    /\ call[c] = "waiting" /\ answer[c] # "none"
    /\ call' = [call EXCEPT ![c] = IF answer[c] = "ok" THEN "streaming" ELSE "over"]
    /\ listening' = [listening EXCEPT ![c] = answer[c] = "ok"]
    /\ UNCHANGED <<id, healthy, backend, inbox, threadVars, answer, cancelled, outbox, received, asked>>

\* The caller drops the future of generate: no stream, no flag, only the receivers go.
GiveUp(c) ==
    /\ call[c] = "waiting"
    /\ call' = [call EXCEPT ![c] = "over"] /\ listening' = [listening EXCEPT ![c] = FALSE]
    /\ UNCHANGED <<id, healthy, backend, inbox, threadVars, answer, cancelled, outbox, received, asked>>

Read(c) ==
    /\ call[c] = "streaming" /\ outbox[c] # << >>
    /\ received' = [received EXCEPT ![c] = Append(@, Head(outbox[c]))]
    /\ outbox' = [outbox EXCEPT ![c] = Tail(@)]
    /\ UNCHANGED <<id, healthy, backend, inbox, threadVars, call, answer, cancelled, listening, asked>>

\* The stream is dropped, at its end or before it.
DropStream(c) ==
    /\ call[c] = "streaming"
    /\ call' = [call EXCEPT ![c] = "over"] /\ listening' = [listening EXCEPT ![c] = FALSE]
    /\ cancelled' = [cancelled EXCEPT ![c] = TRUE]
    /\ outbox' = [outbox EXCEPT ![c] = << >>]
    /\ UNCHANGED <<id, healthy, backend, inbox, threadVars, answer, received, asked>>

\* abort and shutdown; shutdown returns at once when the engine is not healthy.
Ask(x, kind) ==
    /\ backend /\ x \notin asked /\ asked' = asked \cup {x}
    /\ \/ /\ loop = "ended" \/ (kind = "Shutdown" /\ ~healthy)
          /\ answer' = [answer EXCEPT ![x] = IF healthy \/ kind = "Abort" THEN "lost" ELSE "ok"]
          /\ UNCHANGED inbox
       \/ /\ Accepting /\ (kind = "Shutdown" => healthy)
          /\ inbox' = Append(inbox, [kind |-> kind, by |-> x]) /\ UNCHANGED answer
    /\ UNCHANGED <<healthy, backend, threadVars, clientVars, cancelled, outbox>>

\* The last handle of the backend goes, when nobody is inside a call.
DropBackend ==
    /\ backend /\ \A c \in Calls : call[c] \in {"streaming", "over"}
    /\ \A x \in asked : answer[x] # "none"
    /\ backend' = FALSE
    /\ UNCHANGED <<healthy, inbox, threadVars, clientVars, answer, cancelled, outbox, asked>>

Client(c) == CheckHealth(c) \/ SendSubmit(c) \/ Answered(c)

----------------------------------------------------------------------------
(* The scheduler thread.                                                   *)

Idle == emitted = << >>

Forget(js, gone) == [c \in DOMAIN js \ gone |-> js[c]]

\* Mutant of Waits: the thread sleeps until a command comes, jobs or not.
WaitsAlways == inbox = << >> /\ backend

\* blocking_recv sleeps only while there are no jobs.
Waits == Idle /\ inbox = << >> /\ backend

Receive ==
    /\ loop = "recv" /\ ~Waits
    /\ batch' = inbox /\ inbox' = << >> /\ loop' = "commands"
    /\ UNCHANGED <<healthy, backend, stop, emitted, outputs, events, clientVars, answer, cancelled,
                   outbox, asked>>

\* The commands of a sequence are dropped, and the answers they owe with them.
Lost(commands) ==
    [x \in DOMAIN answer |->
        IF \E i \in DOMAIN commands : commands[i].by = x THEN "lost" ELSE answer[x]]

\* Shutdown ends the round: the commands behind it are dropped.
TakeShutdown ==
    /\ loop = "commands" /\ batch # << >> /\ Head(batch).kind = "Shutdown"
    /\ stop' = {Head(batch).by} /\ batch' = << >> /\ answer' = Lost(Tail(batch))
    /\ UNCHANGED <<healthy, backend, inbox, loop, emitted, outputs, events, clientVars, cancelled,
                   outbox, asked>>

TakeAbort ==
    LET x == Head(batch).by
    IN  /\ loop = "commands" /\ batch # << >> /\ Head(batch).kind = "Abort"
        /\ cancelled' = [c \in Calls |-> cancelled[c] \/ (c \in outputs /\ id[c] = x)]
        /\ answer' = [answer EXCEPT ![x] = "ok"] /\ batch' = Tail(batch)
        /\ UNCHANGED <<healthy, backend, inbox, loop, stop, emitted, outputs, events, clientVars,
                       outbox, asked>>

\* A submission whose caller has gone is cancelled at once.
TakeSubmit ==
    LET c == Head(batch).by
        duplicate == \E o \in outputs : id[o] = id[c]
    IN  /\ loop = "commands" /\ batch # << >> /\ Head(batch).kind = "Submit"
        /\ batch' = Tail(batch)
        /\ \/ /\ ~duplicate
              /\ emitted' = [o \in DOMAIN emitted \cup {c} |-> IF o = c THEN 0 ELSE emitted[o]]
              /\ outputs' = outputs \cup {c}
              /\ answer' = [answer EXCEPT ![c] = "ok"]
              /\ cancelled' = [cancelled EXCEPT ![c] = @ \/ call[c] # "waiting"]
           \/ \* a duplicate, or refused by the scheduler
              /\ answer' = [answer EXCEPT ![c] = "err"]
              /\ UNCHANGED <<emitted, outputs, cancelled>>
        /\ UNCHANGED <<healthy, backend, inbox, loop, stop, events, clientVars, outbox, asked>>

\* send: the message goes out if the client still listens and its channel has room.
Delivers(c) == listening[c] /\ Len(outbox[c]) < OutCap

\* Messages sent so far decide whether the prompt is still to be told.
Message(c, token, last) ==
    [token |-> token, last |-> last, prompt |-> received[c] = << >> /\ outbox[c] = << >>,
     failed |-> FALSE]

\* The notice that the scheduler failed is a bare error: no token and no prompt.
Failure == [token |-> 0, last |-> TRUE, prompt |-> FALSE, failed |-> TRUE]

\* Every output that is cancelled, closed or stopped is cancelled in the scheduler,
\* and told so if that is possible.
Sweep ==
    LET gone == {c \in outputs : stop # {} \/ cancelled[c] \/ ~listening[c]}
    IN  /\ loop = "commands" /\ batch = << >>
        /\ emitted' = Forget(emitted, gone) /\ outputs' = outputs \ gone
        /\ outbox' = [c \in Calls |-> IF c \in gone /\ Delivers(c)
                                     THEN Append(outbox[c], Message(c, 0, TRUE)) ELSE outbox[c]]
        /\ loop' = "act"
        /\ UNCHANGED <<healthy, backend, inbox, batch, stop, events, clientVars, answer, cancelled,
                       asked>>

\* The thread returns: no more commands are taken, and what is queued is dropped.
EndThread(answers) ==
    /\ healthy' = FALSE /\ loop' = "ended" /\ emitted' = << >> /\ outputs' = {}
    /\ inbox' = << >> /\ answer' = answers /\ stop' = {}
    /\ UNCHANGED <<backend, batch, events, clientVars, cancelled, asked>>

Leave ==
    /\ loop = "act" /\ (stop # {} \/ (~backend /\ Idle))
    /\ EndThread([x \in DOMAIN answer |-> IF x \in stop THEN "ok" ELSE Lost(inbox)[x]])
    /\ UNCHANGED outbox

\* The scheduler's step: some jobs emit, the last token or an error ends a job.
StepJobs ==
    /\ loop = "act" /\ stop = {} /\ ~Idle
    /\ \E emit \in SUBSET DOMAIN emitted : \E end \in SUBSET DOMAIN emitted :
          /\ {c \in emit : emitted[c] + 1 = MaxNew[c]} \subseteq end
          /\ events' = [c \in emit \cup end |->
                           [token |-> IF c \in emit THEN emitted[c] + 1 ELSE 0, last |-> c \in end]]
          /\ emitted' = [c \in DOMAIN emitted \ end |-> IF c \in emit THEN emitted[c] + 1 ELSE emitted[c]]
    /\ loop' = "events"
    /\ UNCHANGED <<healthy, backend, inbox, batch, stop, outputs, clientVars, answer, cancelled,
                   outbox, asked>>

\* The step fails: everyone who can be told is told, and the thread ends.
StepFails ==
    /\ loop = "act" /\ stop = {} /\ ~Idle
    /\ outbox' = [c \in Calls |-> IF c \in outputs /\ Delivers(c)
                                 THEN Append(outbox[c], Failure) ELSE outbox[c]]
    /\ EndThread(Lost(inbox))

NoStep ==
    /\ loop = "act" /\ stop = {} /\ Idle /\ backend
    /\ loop' = "recv"
    /\ UNCHANGED <<healthy, backend, inbox, batch, stop, emitted, outputs, events, clientVars, answer,
                   cancelled, outbox, asked>>

\* Mutant of Over: a message that could not be delivered is only skipped.
OverFinished(event, delivered) == event.last

\* A request is over with its last event, or when one could not be delivered.
Over(event, delivered) == event.last \/ ~delivered

\* One event; their order does not matter, as each is for a request of its own.
Deliver ==
    LET c == CHOOSE e \in DOMAIN events : TRUE
        delivered == c \in outputs /\ Delivers(c)
        over == Over(events[c], delivered)
    IN  /\ loop = "events" /\ events # << >>
        /\ outbox' = IF delivered
                    THEN [outbox EXCEPT ![c] =
                             Append(@, Message(c, events[c].token, events[c].last))]
                    ELSE outbox
        /\ emitted' = IF over THEN Forget(emitted, {c}) ELSE emitted
        /\ outputs' = IF over THEN outputs \ {c} ELSE outputs
        /\ events' = [e \in DOMAIN events \ {c} |-> events[e]]
        /\ UNCHANGED <<healthy, backend, inbox, loop, batch, stop, clientVars, answer, cancelled,
                       asked>>

EndEvents ==
    /\ loop = "events" /\ events = << >> /\ loop' = "recv"
    /\ UNCHANGED <<healthy, backend, inbox, batch, stop, emitted, outputs, events, clientVars, answer,
                   cancelled, outbox, asked>>

Thread ==
    \/ Receive \/ TakeShutdown \/ TakeAbort \/ TakeSubmit \/ Sweep \/ Leave
    \/ StepJobs \/ StepFails \/ NoStep \/ Deliver \/ EndEvents

ServeNext ==
    \/ Thread
    \/ \E c \in Calls : Client(c) \/ GiveUp(c) \/ Read(c) \/ DropStream(c)
    \/ \E x \in Aborts : Ask(x, "Abort")
    \/ \E x \in Shutters : Ask(x, "Shutdown")
    \/ DropBackend

\* The thread and the callers' own tasks run; no client has to read, and the
\* scheduler does not have to emit.
ServeFairness == WF_serveVars(Thread) /\ \A c \in Calls : WF_serveVars(Client(c))

ServeSpec == ServeInit /\ [][ServeNext]_serveVars /\ ServeFairness

----------------------------------------------------------------------------
(* Properties.                                                             *)

Told(c) == received[c] \o outbox[c]

\* What a client is told.  No token of a request is lost, repeated or out of place, in
\* whatever order its channel fills, its stream goes, its id is aborted and the engine
\* stops: a channel that overflows ends the request rather than leave a gap, even in
\* the middle of the events of a batch.  The first message has the prompt and no other
\* has, unless the first is the notice that the scheduler failed, which is a bare error;
\* only the last message is final, and that notice is.  Between two rounds the thread
\* and the scheduler know the same requests, no two of one id, and every token the
\* scheduler counts was sent.
StreamsExact ==
    /\ \A c \in Calls : call[c] # "over" => \A i \in DOMAIN Told(c) :
          /\ Told(c)[i].prompt = (i = 1 /\ ~Told(c)[i].failed)
          /\ Told(c)[i].token \in {i, 0}
          /\ Told(c)[i].token = 0 => Told(c)[i].last
          /\ Told(c)[i].last => i = Len(Told(c)) /\ c \notin outputs
    /\ loop = "recv" =>
          /\ outputs = DOMAIN emitted
          /\ \A c \in outputs : call[c] # "over" => Len(Told(c)) = emitted[c]
          /\ \A c, o \in outputs : id[c] = id[o] => c = o

\* Everyone who asks is answered, and what is cancelled ends: a call of generate,
\* abort or shutdown does not wait for ever, also when the engine stops with the
\* command still queued; and a request that is aborted, or whose stream or caller
\* has gone, leaves the thread and the scheduler, even if the scheduler never emits
\* for it again.
EveryoneAnswered ==
    /\ \A c \in Calls : (call[c] \in {"checked", "waiting"}) ~> (call[c] \in {"streaming", "over"})
    /\ \A x \in Aborts \cup Shutters : (x \in asked) ~> (answer[x] # "none")
    /\ \A c \in Calls :
          (c \in outputs /\ (cancelled[c] \/ ~listening[c])) ~> (c \notin outputs \cup DOMAIN emitted)
=============================================================================
