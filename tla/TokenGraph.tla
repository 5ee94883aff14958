----------------------------- MODULE TokenGraph -----------------------------
(***************************************************************************)
(* authoring/src/execution.rs: the token graph an author writes, one node  *)
(* after the other, and the types and uses validate() checks.  A node is   *)
(* its op, its inputs (ids of earlier nodes, from 1), the numbers width    *)
(* and start, the one attribute the lowering tells apart (tag), and the    *)
(* storage type the checkpoint has for its weight (stored).  Attributes    *)
(* that have a single legal value are left out.                            *)
(***************************************************************************)
EXTENDS Naturals, Sequences, FiniteSets, SequencesExt

Node(op, inputs, width, tag) ==
    [op |-> op, inputs |-> inputs, width |-> width, start |-> 0, tag |-> tag, stored |-> "BF16"]

Vocab == 151552
Tensor(w) == <<"Tensor", w>>
Quantized(w) == <<"Quantized", w>>
ExpertRows(w) == <<"Experts", w>>
Hyper == <<"HyperConnection", 0>>
Routes == <<"Routes", 0>>
Cache == <<"Cache", 0>>
IndexCache == <<"IndexCache", 128>>
Indices == <<"Indices", 2048>>

QueryWidth(n) == IF n.tag = "replicated" THEN 9216 ELSE 1152

\* infer: the type of a node whose inputs have types in; empty when it is refused.
Given(in, expected, t) == IF in = expected THEN {t} ELSE {}
FirstWidth(in) == IF in # << >> THEN in[1][2] ELSE 0
Positive(width) == width \in 1 .. 200000

InferTensor(n, in) ==
    LET w == FirstWidth(in)
        one(t) == Given(in, <<Tensor(w)>>, t)
    IN CASE n.op \in {"cast", "norm", "optional_norm", "allreduce", "mome"} -> one(Tensor(w))
         [] n.op = "quantize" -> one(Quantized(w))
         [] n.op = "embedding" -> Given(in, << >>, Tensor(2560))
         [] n.op = "repeat" -> IF n.width \in 1 .. 16 THEN one(Tensor(w * n.width)) ELSE {}
         [] n.op \in {"mhc_pre", "mhc_merge"} -> Given(in, <<Tensor(10240)>>, Hyper)
         [] n.op = "mhc_input" -> Given(in, <<Hyper>>, Tensor(2560))
         [] n.op = "mhc_post" -> Given(in, <<Hyper, Tensor(2560)>>, Tensor(10240))
         [] n.op = "linear" ->
                IF ~Positive(n.width) THEN {}
                ELSE IF n.tag = "paired" THEN one(Tensor(2 * n.width))
                ELSE one(Tensor(n.width)) \cup Given(in, <<Quantized(w)>>, Tensor(n.width))
         [] n.op = "gather" -> one(Tensor(8 * w))
         [] n.op = "slice" -> IF Positive(n.width) /\ n.start + n.width <= w THEN one(Tensor(n.width)) ELSE {}
         [] n.op = "rotary_prefix" -> Given(in, <<Tensor(n.start * n.width)>>, Tensor(n.start * n.width))
         [] n.op = "rope" -> Given(in, <<Tensor(64)>>, Tensor(64))
         [] n.op = "concat" -> IF Len(in) = 2 THEN Given(in, <<Tensor(w), Tensor(in[2][2])>>, Tensor(w + in[2][2])) ELSE {}

InferAttention(n, in) ==
    CASE n.op = "mla_query" -> Given(in, <<Tensor(QueryWidth(n))>>, Tensor(3456))
      [] n.op = "sink_normalize" -> Given(in, << >>, Tensor(73728))
      [] n.op = "cache_append" ->
             IF n.tag # "int8_ds_mla" THEN Given(in, <<Tensor(576), Tensor(73728)>>, Cache) ELSE {}
      [] n.op = "cache_norm_rope_append" -> Given(in, <<Tensor(512), Tensor(64), Tensor(73728)>>, Cache)
      [] n.op = "index_cache_append" -> Given(in, <<Tensor(128)>>, IndexCache)
      [] n.op = "sparse_index" -> Given(in, <<Tensor(3072), Tensor(24), IndexCache>>, Indices)
      [] n.op = "latent_attention" ->
             IF n.tag = "learned"
             THEN IF n.width = 2048 THEN Given(in, <<Tensor(3456), Cache, Indices>>, Tensor(3072)) ELSE {}
             ELSE IF n.width \in {512, 2048} THEN Given(in, <<Tensor(3456), Cache>>, Tensor(3072)) ELSE {}
      [] n.op = "mla_value" -> Given(in, <<Tensor(3072)>>, Tensor(768))

InferExperts(n, in) ==
    LET w == FirstWidth(in)
    IN CASE n.op = "swiglu" -> IF Len(in) # 1 THEN Given(in, <<Tensor(w), Tensor(w)>>, Tensor(w))
                               ELSE IF w % 2 = 0 /\ w # 0 THEN Given(in, <<Tensor(w)>>, Tensor(w \div 2)) ELSE {}
         [] n.op = "router" -> Given(in, <<Tensor(2560)>>, Routes)
         [] n.op = "expert_linear" ->
                Given(in, <<Tensor(2560), Routes>>, ExpertRows(IF n.tag = "paired" THEN 2048 ELSE 1024))
         [] n.op = "expert_swiglu_down" ->
                Given(in, <<ExpertRows(2048), Routes>>, ExpertRows(2560))
                  \cup Given(in, <<ExpertRows(1024), ExpertRows(1024), Routes>>, ExpertRows(2560))
         [] n.op = "expert_reduce" -> Given(in, <<ExpertRows(2560), Routes>>, Tensor(2560))
         [] n.op = "add" -> Given(in, <<Tensor(w), Tensor(w)>>, Tensor(w))

AttentionOps == {"mla_query", "sink_normalize", "cache_append", "cache_norm_rope_append", "index_cache_append",
                 "sparse_index", "latent_attention", "mla_value"}
ExpertOps == {"swiglu", "router", "expert_linear", "expert_swiglu_down", "expert_reduce", "add"}

Infer(n, in) ==
    IF n.op \in AttentionOps THEN InferAttention(n, in)
    ELSE IF n.op \in ExpertOps THEN InferExperts(n, in) ELSE InferTensor(n, in)

Types(nodes) ==
    FoldLeft(LAMBDA ts, n : LET t == Infer(n, [k \in DOMAIN n.inputs |-> ts[n.inputs[k]]])
                            IN  Append(ts, IF t = {} THEN <<"refused", 0>> ELSE CHOOSE x \in t : TRUE),
             << >>, nodes)

Users(nodes, i) == {j \in DOMAIN nodes : i \in ToSet(nodes[j].inputs)}

\* The nodes output needs, found backwards from the last one.
Live(nodes, output) ==
    FoldLeft(LAMBDA live, k : LET i == Len(nodes) + 1 - k IN
                              IF i \in live THEN live \cup ToSet(nodes[i].inputs) ELSE live,
             {output}, [k \in DOMAIN nodes |-> k])

\* Experts are reduced over the routes they were dispatched by.
RoutesAgree(nodes, n) ==
    LET sources == SubSeq(n.inputs, 1, Len(n.inputs) - 1) IN
    /\ n.op = "expert_swiglu_down" =>
          \A j \in ToSet(sources) : nodes[j].op = "expert_linear" /\ nodes[j].inputs[2] = Last(n.inputs)
    /\ n.op = "expert_reduce" =>
          nodes[n.inputs[1]].op = "expert_swiglu_down" /\ Last(nodes[n.inputs[1]].inputs) = n.inputs[2]

\* A context longer than 512 needs a paged cache or learned indices over a packed one.
LongContextOK(nodes, n, context) ==
    n.op = "latent_attention" /\ context > 512 =>
        LET dtype == nodes[n.inputs[2]].tag IN
        dtype = "bf16" \/ (dtype = "int8_ds_mla" /\ n.tag = "learned")

\* A mutable handle has the one consumer its kind is for.
HandlesOK(nodes, types) ==
    \A i \in DOMAIN nodes :
        LET used(op) == Cardinality({j \in Users(nodes, i) : nodes[j].op = op})
            only(op) == Cardinality(Users(nodes, i)) = 1 /\ used(op) = 1 IN
        /\ types[i] = Cache => only("latent_attention")
        /\ types[i] = IndexCache => only("sparse_index")
        /\ types[i] = Indices => \A j \in Users(nodes, i) : nodes[j].tag = "learned"
        /\ types[i] = Hyper => /\ used("mhc_input") = 1
                               /\ used("mhc_post") = (IF nodes[i].op = "mhc_pre" THEN 1 ELSE 0)

ValidGraph(nodes, types, output, context) ==
    /\ nodes # << >> /\ context \in 1 .. 65536
    /\ \A i \in DOMAIN nodes : /\ \A j \in ToSet(nodes[i].inputs) : j < i
                               /\ types[i] # <<"refused", 0>> /\ (types[i][1] = "Tensor" => types[i][2] <= 200000)
                               /\ RoutesAgree(nodes, nodes[i]) /\ LongContextOK(nodes, nodes[i], context)
    /\ types[output] = Tensor(Vocab)
    /\ Live(nodes, output) = DOMAIN nodes
    /\ HandlesOK(nodes, types)
=============================================================================
