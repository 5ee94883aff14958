------------------------- MODULE ResidentHistories -------------------------
(***************************************************************************)
(* The arithmetic histories of the engine's residents, Engine::histories   *)
(* in crates/inferfabric-native/src/program.rs: invocations append to      *)
(* them, reset_resident empties one, copy_resident gives one to an empty   *)
(* resident.  invocations records what really ran, for the properties.     *)
(***************************************************************************)
EXTENDS ArithmeticHistory

CONSTANTS Residents, MaxPosition   \* positions and counts a caller may pass

VARIABLES
    histories,    \* resident -> spans
    invocations   \* resident -> every invocation behind its state, one by one

historyVars == <<histories, invocations>>

HistoryInit ==
    histories = [r \in Residents |-> <<>>] /\ invocations = [r \in Residents |-> <<>>]

AppendCompleted(r, v, position, count) ==
    /\ CheckAppend(histories[r], v, position, count)
    /\ histories' = [histories EXCEPT ![r] = Appended(@, v, position, count)]
    /\ invocations' = [invocations EXCEPT ![r] =
                          Append(@, [count |-> count, class |-> v.numerical_class])]

ResetHistory(r) ==
    /\ histories' = [histories EXCEPT ![r] = <<>>]
    /\ invocations' = [invocations EXCEPT ![r] = <<>>]

\* copy_history: the whole source into an empty destination.
CopyHistory(from, to, boundary) ==
    /\ from # to /\ boundary # 0
    /\ HistoryTokens(histories[from]) = boundary /\ HistoryTokens(histories[to]) = 0
    /\ HasPrefix(histories[from], boundary)
    /\ histories' = [histories EXCEPT ![to] = Prefix(histories[from], boundary)]
    /\ invocations' = [invocations EXCEPT ![to] = invocations[from]]

HistoryNext ==
    \/ \E r \in Residents, v \in Variants, p, c \in 0 .. MaxPosition : AppendCompleted(r, v, p, c)
    \/ \E r \in Residents : ResetHistory(r)
    \/ \E r, s \in Residents, b \in 0 .. MaxPosition : CopyHistory(r, s, b)

HistorySpec == HistoryInit /\ [][HistoryNext]_historyVars

----------------------------------------------------------------------------
(* Properties.                                                             *)

\* Spans follow each other without a gap from token 0, each is a whole number of
\* invocations, and neighbours differ.
SpansCanonical ==
    \A r \in Residents : \A k \in DOMAIN histories[r] :
        LET s == histories[r][k]
        IN  /\ s.start < s.end /\ (s.end - s.start) % s.query_tokens = 0
            /\ s.start = (IF k = 1 THEN 0 ELSE histories[r][k - 1].end)
            /\ k > 1 => \/ histories[r][k - 1].query_tokens # s.query_tokens
                        \/ histories[r][k - 1].numerical_class # s.numerical_class

\* The reference: the invocations that end at or before the boundary, if one of
\* them ends exactly there.
Total(calls) == FoldSeq(LAMBDA c, total : c.count + total, 0, calls)
EndsAt(calls, n, boundary) == Total(SubSeq(calls, 1, n)) = boundary
HasCut(calls, boundary) == \E n \in 0 .. Len(calls) : EndsAt(calls, n, boundary)
CutAt(calls, boundary) ==
    SubSeq(calls, 1, CHOOSE n \in 0 .. Len(calls) : EndsAt(calls, n, boundary))

\* same_prefix answers yes exactly when the two states were computed, up to the
\* boundary, by the same sequence of invocations of the same arithmetic: coalescing
\* and cutting lose nothing, a boundary inside an invocation never matches, and the
\* spans are the one encoding of the invocations that append_completed can produce.
SamePrefixExact ==
    /\ SpansCanonical
    /\ \A r, s \in Residents : \A b \in 0 .. HistoryTokens(histories[r]) + 1 :
          SamePrefix(histories[r], histories[s], b) <=>
              /\ HasCut(invocations[r], b) /\ HasCut(invocations[s], b)
              /\ CutAt(invocations[r], b) = CutAt(invocations[s], b)
=============================================================================
