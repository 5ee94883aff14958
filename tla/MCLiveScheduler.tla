-------------------------- MODULE MCLiveScheduler --------------------------
(* Three clients share four pages of two tokens and three slots; the batch *)
(* takes two jobs, a step three prompt tokens.                             *)
EXTENDS LiveScheduler

MCRequests ==
    {[id |-> 1, prompt |-> 5, max_new |-> 4], [id |-> 2, prompt |-> 2, max_new |-> 3],
     [id |-> 3, prompt |-> 3, max_new |-> 5]}

\* One long prompt and three short ones: any two short jobs leave it too few pages.
MCStarvedRequests ==
    {[id |-> 1, prompt |-> 4, max_new |-> 1]} \cup
    {[id |-> i, prompt |-> 1, max_new |-> 3] : i \in 2 .. 4}
=============================================================================
