------------------------- MODULE ArithmeticHistory -------------------------
(***************************************************************************)
(* ArithmeticHistory in crates/inferfabric-ir/src/arithmetic_history.rs:   *)
(* the record of completed invocations that decides whether two device     *)
(* states were computed by the same arithmetic.  Equal adjacent            *)
(* invocations are coalesced into one span, and a prefix may only be cut   *)
(* where an invocation ends.                                               *)
(***************************************************************************)
EXTENDS Naturals, Sequences, SequencesExt

CONSTANTS
    Variants    \* compiled variants, see VariantType

VariantType ==
    [numerical_class : STRING, max_tokens : Nat \ {0}, max_query_tokens : Nat \ {0},
     max_context : Nat \ {0}, single : BOOLEAN,  \* max_sequences = 1
     elastic : BOOLEAN]                          \* packed prefill that is not captured

ASSUME VariantAssumption == Variants \subseteq VariantType

AcceptsQueryTokens(v, count) ==
    /\ v.single /\ count > 0 /\ count <= v.max_context
    /\ IF v.elastic THEN count <= v.max_tokens /\ count <= v.max_query_tokens
                    ELSE count = v.max_tokens /\ count = v.max_query_tokens

HistoryTokens(spans) == IF spans = <<>> THEN 0 ELSE Last(spans).end

CheckAppend(spans, v, position, count) ==
    /\ position = HistoryTokens(spans) /\ count > 0 /\ v.numerical_class # ""
    /\ AcceptsQueryTokens(v, count)
    /\ position + count <= v.max_context

SameShape(span, v, count) ==
    span.query_tokens = count /\ span.numerical_class = v.numerical_class

\* Mutant of Appended: spans of one class are joined whatever their widths.
AppendedByClass(spans, v, position, count) ==
    IF spans # <<>> /\ Last(spans).numerical_class = v.numerical_class
    THEN [spans EXCEPT ![Len(spans)].end = position + count]
    ELSE Append(spans, [start |-> position, end |-> position + count,
                        query_tokens |-> count, numerical_class |-> v.numerical_class])

\* append_completed once check_append passed.
Appended(spans, v, position, count) ==
    IF spans # <<>> /\ SameShape(Last(spans), v, count)
    THEN [spans EXCEPT ![Len(spans)].end = position + count]
    ELSE Append(spans, [start |-> position, end |-> position + count,
                        query_tokens |-> count, numerical_class |-> v.numerical_class])

\* Spans that start before the boundary, the last one shortened to it.
Prefix(spans, boundary) ==
    LET kept == SelectSeq(spans, LAMBDA s : s.start < boundary)
        Cut(s) == [s EXCEPT !.end = IF @ < boundary THEN @ ELSE boundary]
    IN  [k \in DOMAIN kept |-> Cut(kept[k])]

\* Mutant of HasPrefix: the cut is not checked against invocations.
HasPrefixAnywhere(spans, boundary) == boundary <= HistoryTokens(spans)

\* prefix returns Ok: no invocation is split.
HasPrefix(spans, boundary) ==
    /\ boundary <= HistoryTokens(spans)
    /\ \A k \in DOMAIN Prefix(spans, boundary) :
          LET part == Prefix(spans, boundary)[k]
          IN  (part.end - part.start) % part.query_tokens = 0

SamePrefix(a, b, boundary) ==
    /\ HasPrefix(a, boundary) /\ HasPrefix(b, boundary)
    /\ Prefix(a, boundary) = Prefix(b, boundary)
=============================================================================
