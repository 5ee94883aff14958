------------------------------- MODULE MCMock -------------------------------
(***************************************************************************)
(* The mock engine: its scheduler on the bounds of MCLiveScheduler, or its *)
(* thread with two calls of generate, an abort and a shutdown.  The two    *)
(* are modelled apart, so in a behaviour one of them runs and the other is *)
(* over.                                                                   *)
(***************************************************************************)
EXTENDS MCLiveScheduler, MockServing, TLC

CONSTANTS c1, c2
MCMaxNew == c1 :> 1 @@ c2 :> 3

\* The engine stopped and its last handle dropped before anyone called.
ServeOver ==
    /\ healthy = FALSE /\ backend = FALSE /\ inbox = << >> /\ loop = "ended"
    /\ batch = << >> /\ stop = {} /\ emitted = << >> /\ outputs = {} /\ events = << >>
    /\ id = [c \in Calls |-> "a"] /\ call = [c \in Calls |-> "over"]
    /\ answer = [x \in Calls \cup Aborts \cup Shutters |-> "none"]
    /\ cancelled = [c \in Calls |-> FALSE] /\ listening = [c \in Calls |-> FALSE]
    /\ outbox = [c \in Calls |-> << >>] /\ received = [c \in Calls |-> << >>] /\ asked = {}

\* Every job has ended and no admission is left.
LiveOver ==
    /\ p_pool = [NewPool EXCEPT !.generation = MaxSubmits] /\ d_pool = NewPool
    /\ jobs = << >> /\ queue = << >>
    /\ phase = "idle" /\ todo = {} /\ turns = 0 /\ budget = 0 /\ inputs = {} /\ ok = TRUE

MockInit == (LiveInit /\ ServeOver) \/ (LiveOver /\ ServeInit)
MockNext == (LiveNext /\ UNCHANGED serveVars) \/ (ServeNext /\ UNCHANGED liveVars)
MockSpec == MockInit /\ [][MockNext]_<<liveVars, serveVars>> /\ WF_liveVars(Step) /\ ServeFairness
=============================================================================
