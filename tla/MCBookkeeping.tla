--------------------------- MODULE MCBookkeeping ---------------------------
(***************************************************************************)
(* The host's ledgers, which share no state: in a behaviour one of them    *)
(* runs and the others rest.                                               *)
(*   run       three requests of a fixture on four pages of two tokens and *)
(*             two slots on either side                                    *)
(*   transfer  two requests with short and long payloads on one such side  *)
(*   index     prefixes of up to three tokens over two symbols, computed   *)
(*             one token at a time or in pairs                             *)
(*   histories two captured widths of one class, a captured width of       *)
(*             another and an uncaptured prefill with ragged tails         *)
(***************************************************************************)
EXTENDS BatchRun, Transfer, PrefixIndex, ResidentHistories

MCRequests(prompts, submits, ends) ==
    {[prompt |-> n, max_new |-> m, submit_at |-> s, cancel_at |-> c, eos_at |-> e] :
        n \in prompts, m \in {1, 4}, s \in submits, c \in {2, 3, 5, Never}, e \in ends}

MCFixtures ==
    {<<a, b, c>> : a \in MCRequests({5}, {0}, {2}), b \in MCRequests({2, 9}, {1}, {2, Never}),
                   c \in MCRequests({4}, {0}, {Never})}

MCStates == {[consumed |-> 1, payload |-> "x"], [consumed |-> 5, payload |-> "y"]}

Shape(class, width, context, elastic) ==
    [numerical_class |-> class, max_tokens |-> width, max_query_tokens |-> width,
     max_context |-> context, single |-> TRUE, elastic |-> elastic]
Single == Shape("exact", 1, 5, FALSE)
Pair == Shape("wide", 2, 4, FALSE)
MCVariants ==
    {Single, Pair, Shape("exact", 2, 5, FALSE), Shape("prefill", 3, 5, TRUE),
     [Shape("batch", 2, 5, FALSE) EXCEPT !.single = FALSE]}

MCPrompts ==
    {<<0>>, <<1>>, <<0, 0>>, <<0, 1>>, <<0, 0, 0>>, <<0, 0, 1>>, <<0, 1, 0>>, <<0, 1, 1>>, <<1, 0, 1>>}

\* Completed histories of one to three tokens, built by append_completed.
Ran(variants) ==
    FoldLeft(LAMBDA spans, v : Appended(spans, v, HistoryTokens(spans), v.max_tokens), <<>>, variants)
MCHistories ==
    {Ran(<<Single>>), Ran(<<Single, Single>>), Ran(<<Pair>>),
     Ran(<<Single, Single, Single>>), Ran(<<Pair, Single>>)}

\* Requests, epochs and residents are only compared for equality.
MCSymmetry == Permutations(Requests) \cup Permutations(Epochs) \cup Permutations(Residents)

AnyFixture == CHOOSE f \in Fixtures : TRUE

VARIABLE part   \* the ledger that runs

LedgersInit ==
    /\ part \in {"run", "transfer", "index", "histories"}
    /\ RunInit /\ (part # "run" => fixture = AnyFixture)
    /\ TransferInit /\ IndexInit /\ HistoryInit

LedgersNext ==
    \/ part = "run" /\ RunNext /\ UNCHANGED <<part, transferVars, indexVars, historyVars>>
    \/ part = "transfer" /\ TransferNext /\ UNCHANGED <<part, runVars, indexVars, historyVars>>
    \/ part = "index" /\ IndexNext /\ UNCHANGED <<part, runVars, transferVars, historyVars>>
    \/ part = "histories" /\ HistoryNext /\ UNCHANGED <<part, runVars, transferVars, indexVars>>

LedgersSpec == LedgersInit /\ [][LedgersNext]_<<part, runVars, transferVars, indexVars, historyVars>>
=============================================================================
