---------------------------- MODULE TokenProgram ----------------------------
(***************************************************************************)
(* compiler/src/token_program.rs and output_rows.rs: a token graph is      *)
(* lowered to physical instructions, the program takes its with_* options  *)
(* in any order, and what encode() writes is read and checked again by the *)
(* native loader.  An instruction is its op, its inputs (ids from 1), its  *)
(* storage kind, width and dtype, the kernel where one is selected, and    *)
(* the attributes something tells apart: num (window, heads, rows, count   *)
(* or width), start and tag.                                               *)
(***************************************************************************)
EXTENDS TokenGraph, TLC

CONSTANTS Drafts,       \* what the author starts from: [nodes, free, context, options, stored]
          Templates     \* the nodes the author may add in the free places

VARIABLES graph,        \* the nodes written so far
          left,         \* free nodes and options left, the context and how logits weights may be stored
          phase,        \* "draft", "graph", "program" or "refused"
          prog          \* the Program

progVars == <<graph, left, phase, prog>>

Ins(op, inputs, kind, width, dtype) ==
    [op |-> op, inputs |-> inputs, kind |-> kind, width |-> width, dtype |-> dtype,
     kernel |-> "registered", num |-> 0, start |-> 0, tag |-> "", logical |-> 0]
Pages(context) == (context + 15) \div 16
Value(op, inputs, width) == Ins(op, inputs, 0, width, "bf16")
Effect(op, inputs, kind, width) == Ins(op, inputs, kind, width, "opaque")
CastTo(dtype, from, width) == [Ins("cast", <<from>>, 0, width, dtype) EXCEPT !.tag = dtype]
WithNum(i, num) == [i EXCEPT !.num = num]
WithTag(i, tag) == [i EXCEPT !.tag = tag]
Where(ins, Is(_)) == {i \in DOMAIN ins : Is(ins[i])}
The(ids) == CHOOSE i \in ids : TRUE
At(seq, ids) == << >> \o [s \in DOMAIN ids |-> seq[ids[s]]]

-----------------------------------------------------------------------------
(* exclusive_region: a convolution may write its input where it lies only  *)
(* if nothing else reads an overlapping part of the same allocation.       *)

NodeRegion(nodes, types, id) ==
    LET back[k \in 0 .. Len(nodes)] ==
          IF k = 0 THEN [id |-> id, start |-> 0]
          ELSE LET b == back[k - 1] IN
               IF nodes[b.id].op = "slice"
               THEN [id |-> nodes[b.id].inputs[1], start |-> b.start + nodes[b.id].start] ELSE b
        root == back[Len(nodes)]
    IN  [root |-> root.id, start |-> root.start, width |-> types[id][2],
         fresh |-> types[id][1] = "Tensor" /\ nodes[root.id].op \in {"linear", "norm", "mla_value"}]

Overlapping(a, b) ==
    a.root = b.root /\ a.start < b.start + b.width /\ b.start < a.start + a.width

ExclusiveIgnoringViews(nodes, types, output, input, owner) ==
    /\ NodeRegion(nodes, types, input).fresh /\ input # output
    /\ \A j \in DOMAIN nodes \ {owner} : nodes[j].op # "slice" => input \notin ToSet(nodes[j].inputs)

ExclusiveRegion(nodes, types, output, input, owner) ==
    LET mine == NodeRegion(nodes, types, input)
        meets(id) == LET r == NodeRegion(nodes, types, id) IN r.fresh /\ Overlapping(mine, r)
    IN  /\ mine.fresh /\ ~meets(output)
        /\ \A j \in DOMAIN nodes \ {owner} :
              nodes[j].op # "slice" => \A id \in ToSet(nodes[j].inputs) : ~meets(id)

-----------------------------------------------------------------------------
(* lower *)

\* The storage a node wants its tensor inputs in; "any" leaves them as they are.
Wanted(n, slot) ==
    CASE n.op \in {"slice", "repeat", "concat", "cast"} -> "any"
      [] n.op = "optional_norm" /\ n.stored = "absent" -> "any"
      [] n.op = "mhc_post" /\ slot = 1 -> "any"
      [] n.op = "allreduce" -> n.tag
      [] n.op \in {"router", "rope", "add"} -> "f32"
      [] OTHER -> "bf16"

\* Each input is converted; a conversion an earlier node asked for is shared.
Convert(p, n) ==
    LET slots == [s \in DOMAIN n.inputs |-> s] IN
    FoldLeft(LAMBDA q, s :
               LET from == q.in[s]
                   want == Wanted(n, s)
                   known == {c \in q.casts : c.from = from /\ c.dtype = want}
                   id == Len(q.ins) + 1
               IN IF q.ins[from].kind # 0 \/ want \in {"any", q.ins[from].dtype} THEN q
                  ELSE IF known # {} THEN [q EXCEPT !.in[s] = The(known).id]
                  ELSE [q EXCEPT !.ins = Append(@, CastTo(want, from, @[from].width)),
                                 !.casts = @ \cup {[from |-> from, dtype |-> want, id |-> id]},
                                 !.in[s] = id],
             [ins |-> p.ins, casts |-> p.casts, out |-> p.out,
              in |-> At(p.out, n.inputs)], slots)

StorageKind(t) ==
    CASE t[1] = "Tensor" -> 0 [] t[1] = "HyperConnection" -> 1 [] t[1] = "Routes" -> 2
      [] t[1] = "Experts" -> 3 [] t[1] = "Cache" -> 4 [] t[1] = "Quantized" -> 5
      [] t[1] = "Indices" -> 8 [] t[1] = "IndexCache" -> 9

ResultDtype(q, n, t) ==
    IF StorageKind(t) # 0 THEN "opaque"
    ELSE CASE n.op \in {"slice", "repeat", "concat"} -> q.ins[q.in[1]].dtype
           [] n.op = "optional_norm" /\ n.stored = "absent" -> q.ins[q.in[1]].dtype
           [] n.op \in {"allreduce", "cast"} -> n.tag
           [] n.op \in {"expert_reduce", "add"} -> "f32"
           [] OTHER -> "bf16"

LinearKernel(n) ==
    IF n.tag = "paired" THEN "paired_bf16"
    ELSE CASE n.stored = "BF16" -> "bf16" [] n.stored = "I8" -> "int8" [] n.stored = "absent" -> "unbound"
           [] OTHER -> "unsupported"

LowerRefuses(q, n) ==
    \/ n.op = "linear" /\ LinearKernel(n) = "unsupported"
    \/ n.op = "linear" /\ q.ins[q.in[1]].kind = 5 /\ LinearKernel(n) \notin {"int8", "unbound"}
    \/ n.op = "latent_attention" /\ n.tag = "learned" /\ q.ins[q.in[2]].op # "cache_c8_norm_rope_append"

WindowMetadataAny(ins, window) == Where(ins, LAMBDA i : i.op = "attention_metadata")

WindowMetadata(ins, window) ==
    Where(ins, LAMBDA i : i.op = "attention_metadata" /\ i.num = window)

PackedMetadata(ins) == Where(ins, LAMBDA i : i.op = "packed_attention_metadata")

RoutedInput(ins, in) == Where(ins, LAMBDA i : i.op = "route_quantize" /\ i.inputs = in)

AttentionRecipe(ins, n, in) ==
    LET k == Len(ins)
        packed == IF PackedMetadata(ins) # {} THEN << >>
                  ELSE <<Effect("packed_attention_metadata", << >>, 7, 0)>>
        meta == IF packed = << >> THEN The(PackedMetadata(ins)) ELSE k + 1
        known == WindowMetadata(ins, n.width)
        windowed == IF known # {} THEN << >>
                    ELSE <<WithNum(Effect("attention_metadata_zero", << >>, 7, 0), n.width),
                           WithNum(Effect("attention_metadata", <<k + 1>>, 7, 0), n.width)>>
        window == IF known # {} THEN The(known) ELSE k + 2
        decoded == IF ins[in[2]].op = "cache_quantize_append"
                   THEN <<WithTag(Value("cache_dequantize", <<in[2]>>, Pages(left.context) * 16 * 576),
                                  ins[in[2]].tag)>> ELSE << >>
        tail == windowed \o decoded
    IN  IF ins[in[2]].op = "cache_c8_norm_rope_append"
        THEN packed \o <<[Value(IF n.tag = "learned" THEN "indexed_packed_attention"
                                ELSE "packed_latent_attention", in \o <<meta>>, 3072)
                          EXCEPT !.num = n.width, !.tag = n.tag]>>
        ELSE tail \o <<[Value("latent_attention",
                              in \o <<window>> \o (IF decoded = << >> THEN << >> ELSE <<k + Len(tail)>>), 3072)
                        EXCEPT !.num = n.width, !.tag = n.tag]>>

ExpertRecipe(ins, n, in, width) ==
    LET k == Len(ins)
        shared == RoutedInput(ins, in)
        gate == IF n.op = "expert_linear"
                THEN IF shared # {} THEN << >> ELSE <<Effect("route_quantize", in, 6, 2560)>>
                ELSE (IF Len(in) = 3 THEN <<Effect("expert_pack", SubSeq(in, 1, 2), 3, 2048)>> ELSE << >>)
                     \o <<Effect("expert_act_quantize", <<IF Len(in) = 3 THEN k + 1 ELSE in[1]>>, 6, 1024)>>
        q == IF gate = << >> THEN The(shared) ELSE k + Len(gate)
        zero == k + Len(gate) + 1
    IN  gate \o <<WithNum(Effect("expert_zero", <<q>>, 3, width), width),
                  [Effect("expert_gmm", <<q, zero>>, 3, width) EXCEPT !.num = n.width, !.tag = n.tag]>>

IndexRecipe(ins, n, in) ==
    LET k == Len(ins)
        int8 == ins[in[3]].tag = "int8"
        scaled == IF int8 THEN <<Effect("index_quantize", <<in[1]>>, 5, 3072),
                                 Effect("quant_scales_f16", <<k + 1>>, 5, 3072),
                                 CastTo("f16", in[2], 24)>> ELSE << >>
        known == PackedMetadata(ins)
        meta == IF known # {} THEN << >> ELSE <<Effect("packed_attention_metadata", << >>, 7, 0)>>
        front == scaled \o meta
        operands == IF int8 THEN <<k + 2, k + 3>> ELSE SubSeq(in, 1, 2)
    IN  front \o <<Effect("sparse_index",
                          operands \o <<in[3], IF known # {} THEN The(known) ELSE k + Len(front)>>, 8, 2048)>>

QueryRecipe(ins, n, in) ==
    LET k == Len(ins)
        layout == IF n.tag = "replicated" THEN "replicated" ELSE "rank_local"
        project == WithTag(Value("query_project", in, 3072), layout)
        joined(last) == WithNum(Value("concat_columns", <<k + 1, last>>, 3456), 6)
    IN  IF n.tag = "rank_local_bf16"
        THEN <<project, [Value("column_slice", in, 384) EXCEPT !.num = 6, !.start = 128],
               Value("rope_bf16", <<k + 2>>, 384), joined(k + 3)>>
        ELSE <<project, WithTag(Ins("query_rotary_extract", in, 0, 384, "f32"), layout),
               Ins("rope_f32", <<k + 2>>, 0, 384, "f32"), CastTo("bf16", k + 3, 384), joined(k + 4)>>

CacheRecipe(ins, n, in) ==
    LET k == Len(ins)
        packed == Value("concat", SubSeq(in, 1, 2), 576)
        append(op, from) == WithTag(Effect(op, <<from, in[3]>>, 4, 0), n.tag)
    IN CASE n.tag = "int8_ds_mla" -> <<packed, append("cache_c8_norm_rope_append", k + 1)>>
         [] n.tag = "bf16" -> <<packed, append("cache_norm_rope_append", k + 1)>>
         [] OTHER -> <<packed, Value("cache_normalize", <<k + 1>>, 576), append("cache_quantize_append", k + 2)>>

ExpertSumRecipe(ins, in, w) ==
    LET k == Len(ins) IN
    <<Value("expert_values", <<in[1]>>, 8 * w), CastTo("f32", k + 1, 8 * w),
      Ins("expert_reduce", <<k + 2>> \o in, 0, w, "f32")>>

StreamRecipe(ins, in) ==
    <<Effect("mhc_pre_project", in, 1, 0), Effect("mhc_sinkhorn", <<Len(ins) + 1>>, 1, 0)>>

RouterRecipe(ins, in) ==
    <<Ins("router_projection", in, 0, 256, "f32"), Effect("router_select", <<Len(ins) + 1>>, 2, 0)>>

RotaryRecipe(ins, n, in, w) ==
    LET k == Len(ins)
        part(start, count) == [Value("column_slice", in, n.start * count) EXCEPT !.num = n.start, !.start = start]
    IN  <<part(0, 64), part(64, n.width - 64), Value("rope_bf16", <<k + 1>>, n.start * 64),
          WithNum(Value("concat_columns", <<k + 3, k + 2>>, w), n.start)>>

Plain(n, in, t, dtype) ==
    [Ins(n.op, in, StorageKind(t), t[2], dtype) EXCEPT !.num = n.width, !.start = n.start, !.tag = n.tag]

\* The instructions a node becomes; the last one is its result.
Recipe(ins, n, in, t, dtype) ==
    LET k == Len(ins)
        w == t[2]
        plain == Plain(n, in, t, dtype)
    IN CASE n.op = "linear" ->
              LET bound == [plain EXCEPT !.kernel = LinearKernel(n)] IN
              IF LinearKernel(n) = "int8" /\ ins[in[1]].kind = 0
              THEN <<Effect("quantize", in, 5, ins[in[1]].width), [bound EXCEPT !.inputs = <<k + 1>>]>>
              ELSE <<bound>>
         [] n.op = "optional_norm" -> <<[plain EXCEPT !.kernel = IF n.stored = "absent" THEN "alias" ELSE "norm"]>>
         [] n.op = "mome" -> <<[plain EXCEPT !.op = "mome_inplace"]>>
         [] n.op = "swiglu" /\ Len(in) = 2 -> <<Value("concat", in, 2 * w), Value("swiglu", <<k + 1>>, w)>>
         [] n.op = "cache_append" /\ n.tag # "bf16" -> <<[plain EXCEPT !.op = "cache_quantize_append"]>>
         [] n.op = "cache_norm_rope_append" -> CacheRecipe(ins, n, in)
         [] n.op = "expert_reduce" -> ExpertSumRecipe(ins, in, w)
         [] n.op = "mhc_pre" -> StreamRecipe(ins, in)
         [] n.op = "router" -> RouterRecipe(ins, in)
         [] n.op \in {"expert_linear", "expert_swiglu_down"} -> ExpertRecipe(ins, n, in, w)
         [] n.op = "index_cache_append" /\ n.tag = "int8" ->
              <<Effect("index_quantize", in, 5, 128), Effect("quant_scales_f16", <<k + 1>>, 5, 128),
                [plain EXCEPT !.inputs = <<k + 2>>]>>
         [] n.op = "sparse_index" -> IndexRecipe(ins, n, in)
         [] n.op = "latent_attention" -> AttentionRecipe(ins, n, in)
         [] n.op = "rotary_prefix" -> RotaryRecipe(ins, n, in, w)
         [] n.op = "mla_query" -> QueryRecipe(ins, n, in)
         [] n.op = "rope" -> <<Ins("rope_f32", in, 0, w, "f32"), CastTo("bf16", k + 1, w)>>
         [] n.op = "add" -> <<[plain EXCEPT !.op = "add_f32"], CastTo("bf16", k + 1, w)>>
         [] OTHER -> <<plain>>

\* A convolution whose input others read gets a private copy of it first.
PrivateInput(q, copy) ==
    IF copy THEN [q EXCEPT !.ins = Append(@, Value("copy", q.in, @[q.in[1]].width)), !.in[1] = Len(q.ins) + 1]
    ELSE q

LowerNode(p, nodes, types, output, i) ==
    LET n == nodes[i]
        c == Convert(p, n)
        q == PrivateInput(c, n.op = "mome" /\ ~ExclusiveRegion(nodes, types, output, n.inputs[1], i))
        dtype == ResultDtype(q, n, types[i])
        all == q.ins \o Recipe(q.ins, n, q.in, types[i], dtype)
        named == p.ins \o [k \in 1 .. Len(all) - Len(p.ins) |-> [all[Len(p.ins) + k] EXCEPT !.logical = i]]
    IN  IF p.refused \/ LowerRefuses(q, n) THEN [p EXCEPT !.refused = TRUE]
        ELSE IF n.op = "cast" /\ q.ins[q.in[1]].dtype = dtype THEN [p EXCEPT !.out = Append(@, q.in[1])]
        ELSE [ins |-> named, casts |-> q.casts, out |-> Append(p.out, Len(named)), refused |-> FALSE]

Lowered(nodes, types, output) ==
    FoldLeft(LAMBDA p, i : LowerNode(p, nodes, types, output, i),
             [ins |-> << >>, casts |-> {}, out |-> << >>, refused |-> FALSE], [i \in DOMAIN nodes |-> i])

-----------------------------------------------------------------------------
(* output_rows.rs: the suffix of the program that only sampled rows need.  *)

UsesOf(ins, i) == Cardinality({<<j, s>> \in (DOMAIN ins) \X (1 .. 8) : s <= Len(ins[j].inputs) /\ ins[j].inputs[s] = i})

IndependentLayout(n) ==
    n.kind = 0 /\ Len(n.inputs) = 1 /\ n.op \in {"norm", "linear", "gather", "cast", "copy", "head_to_token"}

Independent(n) ==
    n.kind = 0 /\ Len(n.inputs) = 1 /\ n.op \in {"norm", "linear", "gather", "cast", "copy"}

\* Where the unit of the suffix that ends here begins; 0 when none does.
SuffixStep(ins, end) ==
    LET n == ins[end]
        pair == /\ end > 1 /\ n.op = "head_to_token" /\ n.inputs = <<end - 1>> /\ n.kind = 0
                /\ LET g == ins[end - 1] IN
                   /\ g.op = "gather_heads" /\ g.kind = 0 /\ Len(g.inputs) = 1
                   /\ UsesOf(ins, end - 1) = 1 /\ g.width = n.width /\ g.num = n.num
    IN  IF Independent(n) /\ ins[n.inputs[1]].kind = 0 THEN end ELSE IF pair THEN end - 1 ELSE 0

RowsPlan(ins, output) ==
    LET first[k \in 0 .. Len(ins)] ==
          IF k = 0 THEN SuffixStep(ins, output)
          ELSE LET f == first[k - 1]
                   input == ins[f].inputs[1] IN
               IF input + 1 = f /\ UsesOf(ins, input) = 1 /\ SuffixStep(ins, input) # 0
               THEN SuffixStep(ins, input) ELSE f
        start == first[Len(ins)]
        source == ins[start].inputs[1]
    IN  IF output # Len(ins) \/ SuffixStep(ins, output) = 0 THEN << >>
        ELSE IF ins[source].kind # 0 \/ ins[source].width = 0 THEN << >>
        ELSE <<source, ins[source].width, start, output>>

-----------------------------------------------------------------------------
(* Program: its options, validate and encode.                              *)

Version(p) ==
    IF p.bulk THEN 9 ELSE IF p.rows # << >> THEN 8 ELSE IF p.uncaptured THEN 7
    ELSE IF p.variants # << >> THEN 6 ELSE IF p.shared THEN 5 ELSE IF p.prefill > 1 THEN 4
    ELSE IF p.resident = 1 THEN 2 ELSE 3

Unbatched == {"mome", "query_project", "query_rotary_extract", "rope", "rope_f32", "mla_query",
              "mla_value", "repeat", "gather"}

InstructionValid(p, i) ==
    LET n == p.ins[i] IN
    /\ p.uncaptured => /\ n.op \notin Unbatched
                       /\ n.op = "sparse_index" => p.ins[n.inputs[1]].kind = 5
    /\ n.width > 200000 => n.op = "cache_dequantize" /\ n.width = Pages(p.context) * 16 * 576
    /\ Len(n.inputs) <= 8 /\ \A j \in ToSet(n.inputs) : j < i
    /\ n.dtype \in (IF n.kind = 0 THEN {"bf16", "f16", "f32"} ELSE {"opaque"})
    /\ n.op = "cast" => LET from == p.ins[n.inputs[1]] IN
                        n.tag = n.dtype /\ from.kind = 0 /\ from.dtype # n.dtype /\ from.width = n.width

ProgramValid(p) ==
    LET has(ops) == \E i \in DOMAIN p.ins : p.ins[i].op \in ops IN
    /\ p.bulk => p.uncaptured
    /\ p.rows # << >> => p.uncaptured /\ RowsPlan(p.ins, p.output) = p.rows
    /\ p.uncaptured => p.prefill = 4096 /\ p.variants = << >>
    /\ ToSet(p.variants) \subseteq {2, 4, 8, 16, 32}
    /\ \A k \in 2 .. Len(p.variants) : p.variants[k - 1] < p.variants[k]
    /\ p.variants # << >> => Last(p.variants) = p.prefill
    /\ p.format = Version(p)
    /\ ~p.uncaptured => p.prefill \in {1, 2, 4, 8, 16, 32}
    /\ p.prefill <= p.context /\ p.resident \in 1 .. 64 /\ p.context \in 1 .. 65536
    /\ (p.prefill > 1 \/ p.shared \/ p.resident > 1) => ~has({"cache_quantize_append"})
    /\ p.context > 512 => ~has({"cache_quantize_append", "packed_latent_attention"})
    /\ \A i \in DOMAIN p.ins : InstructionValid(p, i)

\* batch_head_projections: per-head products and copies of whole token matrices
\* become a head-major instruction and the conversion of its layout.
HeadPair(n) ==
    LET heads == CASE n.op \in {"query_project", "mla_value"} -> 6 [] n.op = "gather" -> 8 [] OTHER -> n.num
        op == CASE n.op \in {"query_project", "mla_value"} -> "head_matmul"
                [] n.op = "gather" -> "gather_heads" [] OTHER -> "repeat_heads"
        product == [n EXCEPT !.op = op, !.num = heads]
    IN  <<product, [product EXCEPT !.op = "head_to_token", !.tag = "", !.start = 0]>>

Batches(n) == n.op \in {"query_project", "mla_value"} \/ (n.op \in {"gather", "repeat"} /\ n.dtype = "bf16")

BatchHeadProjections(p) ==
    LET step(q, n) ==
          LET moved == [n EXCEPT !.inputs = At(q.out, @)]
              pair == HeadPair(moved)
              ins == IF Batches(n) THEN q.ins \o <<pair[1], [pair[2] EXCEPT !.inputs = <<Len(q.ins) + 1>>]>>
                     ELSE Append(q.ins, moved)
          IN  [ins |-> ins, out |-> Append(q.out, Len(ins))]
        done == FoldLeft(step, [ins |-> << >>, out |-> << >>], p.ins)
    IN  [p EXCEPT !.ins = done.ins, !.output = done.out[p.output]]

Uncaptured(p) ==
    BatchHeadProjections([p EXCEPT !.uncaptured = TRUE, !.prefill = 4096, !.variants = << >>])

\* The header numbers encode() writes after its magic, eos left out.
Header(p) ==
    LET flag(b) == IF b THEN <<1>> ELSE <<0>> IN
    <<p.context, p.output, Len(p.ins)>>
      \o (IF p.resident # 1 \/ p.prefill > 1 \/ p.shared THEN <<p.resident>> ELSE << >>)
      \o (IF p.prefill > 1 \/ p.shared THEN <<p.prefill>> ELSE << >>)
      \o (IF p.uncaptured THEN flag(p.shared)
          ELSE IF p.variants # << >> THEN flag(p.shared) \o <<Len(p.variants)>> \o p.variants ELSE << >>)
      \o (IF p.bulk THEN flag(p.rows # << >>) ELSE << >>)
      \o p.rows

Encodes(p) == ProgramValid(p) /\ \A i \in DOMAIN p.ins : p.ins[i].kernel # "unbound"

-----------------------------------------------------------------------------
(* The native loader: Plan::read and validate_kernels.                     *)

\* What the header says to a reader that knows the version from the magic.
ReadHeader(version, h) ==
    LET fixed == 3 + (IF version >= 3 THEN 1 ELSE 0) + (IF version >= 4 THEN 1 ELSE 0)
        flags == CASE version >= 7 -> 1 [] version = 6 -> 2 + h[fixed + 2] [] OTHER -> 0
        compact == version = 8 \/ (version = 9 /\ h[fixed + flags + 1] = 1)
        rows == fixed + flags + (IF version = 9 THEN 1 ELSE 0)
        end == rows + (IF compact THEN 4 ELSE 0)
    IN  IF Len(h) # end THEN << >>
        ELSE <<[context |-> h[1], output |-> h[2], count |-> h[3],
                resident |-> IF version >= 3 THEN h[4] ELSE 1,
                prefill |-> IF version >= 4 THEN h[5] ELSE 1,
                shared |-> version = 5 \/ (version >= 6 /\ h[fixed + 1] = 1),
                uncaptured |-> version >= 7, bulk |-> version = 9,
                variants |-> IF version = 6 THEN SubSeq(h, fixed + 3, fixed + flags) ELSE << >>,
                rows |-> SubSeq(h, rows + 1, end)]>>

HeaderOK(h) ==
    /\ h.prefill \in (IF h.uncaptured THEN {4096} ELSE {1, 2, 4, 8, 16, 32}) /\ h.prefill <= h.context
    /\ h.resident \in 1 .. 64 /\ h.context \in 1 .. 65536 /\ h.output \in 1 .. h.count
    /\ \A k \in DOMAIN h.variants : h.variants[k] <= h.prefill
    /\ h.rows # << >> => h.rows[1] < h.rows[3] /\ h.rows[3] <= h.count /\ h.rows[4] = h.output /\ h.output = h.count

LoadedRegion(p, id) ==
    LET back[k \in 0 .. Len(p.ins)] ==
          IF k = 0 THEN [id |-> id, start |-> 0]
          ELSE LET b == back[k - 1] IN
               IF p.ins[b.id].op = "slice"
               THEN [id |-> p.ins[b.id].inputs[1], start |-> b.start + p.ins[b.id].start] ELSE b
        root == back[Len(p.ins)]
    IN  [root |-> root.id, start |-> root.start, width |-> p.ins[id].width,
         fresh |-> p.ins[root.id].op \in {"linear", "norm", "mla_value", "copy", "head_to_token"}]

LoadedExclusive(p, input, owner) ==
    LET mine == LoadedRegion(p, input)
        meets(id) == Overlapping(mine, LoadedRegion(p, id))
    IN  /\ mine.fresh /\ ~meets(p.output)
        /\ \A j \in DOMAIN p.ins \ {owner} :
              p.ins[j].op # "slice" => \A id \in ToSet(p.ins[j].inputs) : ~meets(id)

\* route_origin: the routes an expert value was dispatched by; 0 when it has none.
RouteOrigin(p, id) ==
    LET origin[i \in 0 .. Len(p.ins)] ==
          IF i = 0 THEN 0
          ELSE CASE p.ins[i].op = "route_quantize" -> p.ins[i].inputs[2]
                 [] p.ins[i].op \in {"expert_gmm", "expert_act_quantize", "expert_pack"} -> origin[p.ins[i].inputs[1]]
                 [] OTHER -> 0
    IN  origin[id]

MetadataOK(p) ==
    LET with(op) == {i \in DOMAIN p.ins : p.ins[i].op = op}
        windows(op) == {p.ins[i].num : i \in with(op)} IN
    /\ with("packed_latent_attention") \cup with("sparse_index") \cup with("indexed_packed_attention") # {}
          => Cardinality(with("packed_attention_metadata")) = 1
    /\ \A op \in {"attention_metadata", "attention_metadata_zero"} : Cardinality(windows(op)) = Cardinality(with(op))
    /\ windows("attention_metadata") = windows("attention_metadata_zero")
    /\ with("latent_attention") # {} => windows("attention_metadata") # {}

\* The registered kernels: the inputs each takes and the storage it returns.
KernelOK(p, i) ==
    LET n == p.ins[i]
        in == [s \in DOMAIN n.inputs |-> <<p.ins[n.inputs[s]].kind, p.ins[n.inputs[s]].width>>]
        from(s) == p.ins[n.inputs[s]]
        a == IF in # << >> THEN in[1][2] ELSE 0
        b == IF Len(in) > 1 THEN in[2][2] ELSE 0
        takes(expected, out) == in = expected /\ <<n.kind, n.width>> = out
        row(w) == <<0, w>>
        decoded == Pages(p.context) * 16 * 576
        heads == /\ n.dtype = "bf16" /\ from(1).dtype = "bf16" /\ p.output # i /\ n.num \in 1 .. 64
                 /\ UsesOf(p.ins, i) = 1 /\ \A j \in Users(p.ins, i) : p.ins[j].op = "head_to_token"
    IN CASE n.op \in {"cast", "norm", "optional_norm", "allreduce", "copy"} -> takes(<<row(a)>>, row(a))
         [] n.op = "index_quantize" -> takes(<<row(a)>>, <<5, a>>) /\ a \in {128, 3072}
         [] n.op = "quant_scales_f16" -> takes(<<<<5, a>>>>, <<5, a>>) /\ from(1).op = "index_quantize"
         [] n.op = "quantize" -> takes(<<row(a)>>, <<5, a>>)
         [] n.op = "mhc_sinkhorn" -> takes(<<<<1, 0>>>>, <<1, 0>>) /\ from(1).op = "mhc_pre_project"
         [] n.op = "router_select" -> takes(<<row(256)>>, <<2, 0>>) /\ from(1).op = "router_projection"
         [] n.op = "route_quantize" -> takes(<<row(2560), <<2, 0>>>>, <<6, 2560>>)
         [] n.op = "expert_act_quantize" -> takes(<<<<3, 2048>>>>, <<6, 1024>>) /\ RouteOrigin(p, n.inputs[1]) # 0
         [] n.op = "expert_pack" ->
               /\ takes(<<<<3, 1024>>, <<3, 1024>>>>, <<3, 2048>>)
               /\ RouteOrigin(p, n.inputs[1]) = RouteOrigin(p, n.inputs[2])
         [] n.op = "expert_zero" -> takes(<<<<6, a>>>>, <<3, n.num>>) /\ n.num \in {1024, 2048, 2560}
         [] n.op = "expert_gmm" ->
               LET out == n.num * (IF n.tag = "paired" THEN 2 ELSE 1) IN
               /\ takes(<<<<6, a>>, <<3, out>>>>, <<3, out>>) /\ RouteOrigin(p, n.inputs[1]) # 0
               /\ from(2).op = "expert_zero" /\ from(2).inputs = <<n.inputs[1]>>
               /\ p.output # n.inputs[2] /\ UsesOf(p.ins, n.inputs[2]) = 1
         [] n.op = "expert_values" -> takes(<<<<3, a>>>>, row(8 * a))
         [] n.op = "attention_metadata_zero" -> takes(<< >>, <<7, 0>>) /\ n.num # 0
         [] n.op = "attention_metadata" ->
               takes(<<<<7, 0>>>>, <<7, 0>>) /\ from(1).op = "attention_metadata_zero" /\ from(1).num = n.num
         [] n.op = "packed_attention_metadata" -> takes(<< >>, <<7, 0>>)
         [] n.op = "embedding" -> takes(<< >>, row(2560))
         [] n.op = "repeat" -> takes(<<row(a)>>, row(a * n.num)) /\ n.num \in 1 .. 16
         [] n.op \in {"mhc_pre_project", "mhc_merge"} -> takes(<<row(10240)>>, <<1, 0>>)
         [] n.op = "mhc_input" -> takes(<<<<1, 0>>>>, row(2560))
         [] n.op = "mhc_post" -> takes(<<<<1, 0>>, row(2560)>>, row(10240))
         [] n.op = "linear" ->
               /\ n.kernel \in {"bf16", "int8", "paired_bf16"}
               /\ takes(<<<<IF n.kernel = "int8" THEN 5 ELSE 0, a>>>>, row(IF n.tag = "paired" THEN 2 * n.num ELSE n.num))
         [] n.op = "gather" -> takes(<<row(a)>>, row(8 * a))
         [] n.op = "mome_inplace" -> takes(<<row(a)>>, row(a)) /\ LoadedExclusive(p, n.inputs[1], i)
         [] n.op = "slice" -> takes(<<row(a)>>, row(n.num)) /\ n.start + n.num <= a
         [] n.op \in {"gather_heads", "repeat_heads"} ->
               /\ heads /\ takes(<<row(a)>>, row(n.num * a)) /\ n.num * a <= 200000
               /\ n.op = "gather_heads" => n.num = 8
         [] n.op = "head_matmul" ->
               /\ heads /\ n.width % n.num = 0
               /\ takes(<<row(a)>>, row(IF n.width = 3072 THEN 6 * 512 ELSE 6 * 128))
               /\ (IF n.width = 3072 THEN (IF n.tag = "replicated" THEN 7 * 1152 ELSE 0) + 5 * 192 + 128
                   ELSE 5 * 512 + 512) <= a
         [] n.op = "head_to_token" ->
               /\ n.dtype = "bf16" /\ takes(<<row(a)>>, row(a)) /\ from(1).num = n.num
               /\ from(1).op \in {"head_matmul", "gather_heads", "repeat_heads"} /\ a % n.num = 0
         [] n.op = "query_project" -> takes(<<row(IF n.tag = "rank_local" THEN 1152 ELSE 9216)>>, row(3072))
         [] n.op = "query_rotary_extract" -> takes(<<row(IF n.tag = "rank_local" THEN 1152 ELSE 9216)>>, row(384))
         [] n.op = "rope_f32" -> takes(<<row(a)>>, row(a)) /\ a \in {64, 384}
         [] n.op = "column_slice" ->
               /\ n.num \in 1 .. 64 /\ a % n.num = 0 /\ n.width % n.num = 0 /\ n.width > 0
               /\ takes(<<row(a)>>, row(n.width)) /\ n.start + n.width \div n.num <= a \div n.num
         [] n.op = "rope_bf16" -> takes(<<row(a)>>, row(a)) /\ a % 64 = 0 /\ a \in 64 .. 4096
         [] n.op = "concat_columns" ->
               n.num \in 1 .. 64 /\ a % n.num = 0 /\ b % n.num = 0 /\ takes(<<row(a), row(b)>>, row(a + b))
         [] n.op = "concat" -> takes(<<row(a), row(b)>>, row(a + b))
         [] n.op = "mla_value" -> takes(<<row(3072)>>, row(768))
         [] n.op = "sink_normalize" -> takes(<< >>, row(73728))
         [] n.op \in {"cache_append", "cache_norm_rope_append", "cache_c8_norm_rope_append"} ->
               takes(<<row(576), row(73728)>>, <<4, 0>>) /\ n.tag = (IF n.op = "cache_c8_norm_rope_append" THEN "int8_ds_mla" ELSE "bf16")
         [] n.op = "cache_quantize_append" -> takes(<<row(576), row(73728)>>, <<4, 0>>) /\ n.tag = "int8"
         [] n.op = "cache_normalize" -> takes(<<row(576)>>, row(576))
         [] n.op = "cache_dequantize" ->
               takes(<<<<4, 0>>>>, row(decoded)) /\ from(1).op = "cache_quantize_append" /\ from(1).tag = n.tag
         [] n.op = "index_cache_append" ->
               /\ takes(<<<<IF n.tag = "int8" THEN 5 ELSE 0, 128>>>>, <<9, 128>>)
               /\ n.tag = "int8" => from(1).op = "quant_scales_f16"
         [] n.op = "sparse_index" ->
               LET int8 == Len(in) = 4 /\ from(3).tag = "int8" IN
               /\ takes(<<<<IF int8 THEN 5 ELSE 0, 3072>>, row(24), <<9, 128>>, <<7, 0>>>>, <<8, 2048>>)
               /\ int8 => from(1).op = "quant_scales_f16"
               /\ from(4).op = "packed_attention_metadata"
         [] n.op = "indexed_packed_attention" ->
               /\ takes(<<row(3456), <<4, 0>>, <<8, 2048>>, <<7, 0>>>>, row(3072)) /\ n.num = 2048 /\ n.tag = "learned"
               /\ from(2).op = "cache_c8_norm_rope_append" /\ from(4).op = "packed_attention_metadata"
         [] n.op = "packed_latent_attention" ->
               /\ takes(<<row(3456), <<4, 0>>, <<7, 0>>>>, row(3072)) /\ n.tag = "causal" /\ p.context <= n.num
               /\ from(2).op = "cache_c8_norm_rope_append" /\ from(3).op = "packed_attention_metadata"
         [] n.op = "latent_attention" ->
               /\ n.tag = "causal" /\ n.num \in {512, 2048}
               /\ IF from(2).op = "cache_quantize_append"
                  THEN /\ takes(<<row(3456), <<4, 0>>, <<7, 0>>, row(decoded)>>, row(3072))
                       /\ from(4).op = "cache_dequantize" /\ from(4).inputs = <<n.inputs[2]>>
                  ELSE takes(<<row(3456), <<4, 0>>, <<7, 0>>>>, row(3072))
               /\ from(3).op = "attention_metadata" /\ from(3).num = n.num
         [] n.op = "swiglu" -> takes(<<row(a)>>, row(a \div 2)) /\ a % 2 = 0
         [] n.op = "router_projection" -> takes(<<row(2560)>>, row(256))
         [] n.op = "expert_reduce" ->
               takes(<<row(20480), <<3, 2560>>, <<2, 0>>>>, row(2560)) /\ RouteOrigin(p, n.inputs[2]) = n.inputs[3]
         [] n.op = "add_f32" -> takes(<<row(a), row(a)>>, row(a))
         [] OTHER -> FALSE

\* The storage type each kernel writes and reads.
DtypesOK(p, i) ==
    LET n == p.ins[i]
        follows == n.op \in {"slice", "repeat", "concat"} \/ n.kernel = "alias"
        f32 == {"add_f32", "expert_reduce", "rope_f32", "query_rotary_extract", "router_projection"}
        writes == IF n.kind # 0 THEN "opaque" ELSE IF n.op \in f32 THEN "f32"
                  ELSE IF n.op = "allreduce" THEN n.tag ELSE IF follows THEN p.ins[n.inputs[1]].dtype ELSE "bf16"
        reads(s) == CASE n.op \in {"rope_f32", "router_projection", "router_select", "expert_reduce", "add_f32"} -> "f32"
                      [] n.op = "sparse_index" /\ s = 2 /\ p.ins[n.inputs[1]].kind = 5 -> "f16"
                      [] n.op = "allreduce" -> n.tag
                      [] OTHER -> "bf16"
    IN  IF n.op = "cast" THEN n.tag = n.dtype /\ p.ins[n.inputs[1]].dtype # n.dtype
        ELSE /\ n.dtype = writes
             /\ follows \/ \A s \in DOMAIN n.inputs : p.ins[n.inputs[s]].kind = 0 => p.ins[n.inputs[s]].dtype = reads(s)

HandleUsesOK(p, i) ==
    LET n == p.ins[i]
        users == Users(p.ins, i)
        by(ops) == Cardinality({j \in users : p.ins[j].op \in ops}) IN
    /\ n.kind = 4 => /\ by({"latent_attention", "packed_latent_attention", "indexed_packed_attention"}) = 1
                     /\ IF n.op = "cache_quantize_append" THEN Cardinality(users) = 2 /\ by({"cache_dequantize"}) = 1
                        ELSE Cardinality(users) = 1
    /\ n.kind = 1 => IF n.op = "mhc_pre_project" THEN Cardinality(users) = 1 /\ by({"mhc_sinkhorn"}) = 1
                     ELSE /\ by({"mhc_input"}) = 1 /\ by({"mhc_post"}) = (IF n.op = "mhc_sinkhorn" THEN 1 ELSE 0)
                          /\ Cardinality(users) = by({"mhc_input", "mhc_post"})

\* The suffix Plan::read accepts for compact rows.
CompactOK(p) ==
    p.rows # << >> =>
        /\ p.ins[p.rows[1]].kind = 0 /\ p.ins[p.rows[1]].width = p.rows[2] /\ p.rows[2] # 0
        /\ \A i \in p.rows[3] .. p.rows[4] :
              LET n == p.ins[i] IN
              /\ n.kind = 0 /\ n.inputs = <<IF i = p.rows[3] THEN p.rows[1] ELSE i - 1>>
              /\ \/ n.op \in {"norm", "linear", "gather", "cast", "copy"}
                 \/ n.op = "gather_heads" /\ i < p.rows[4] /\ p.ins[i + 1].op = "head_to_token"
                    /\ n.width = p.ins[i + 1].width /\ n.num = p.ins[i + 1].num
                 \/ n.op = "head_to_token" /\ i > p.rows[3] /\ p.ins[i - 1].op = "gather_heads"

\* Two refusals of the loader that the compiler has no counterpart of.
MixedConcat(p) ==
    \E i \in DOMAIN p.ins : p.ins[i].op = "concat" /\ p.ins[p.ins[i].inputs[1]].dtype # p.ins[p.ins[i].inputs[2]].dtype
LogicalBeyond(p) == \E i \in DOMAIN p.ins : p.ins[i].logical > Len(p.ins)

Loads(p) ==
    LET h == ReadHeader(p.format, Header(p)) IN
    /\ h # << >> /\ HeaderOK(h[1])
    /\ [context |-> p.context, output |-> p.output, count |-> Len(p.ins), resident |-> p.resident,
        prefill |-> p.prefill, shared |-> p.shared, uncaptured |-> p.uncaptured, bulk |-> p.bulk,
        variants |-> p.variants, rows |-> p.rows] = h[1]
    /\ p.ins[p.output].kind = 0 /\ p.ins[p.output].width = Vocab
    /\ Live(p.ins, p.output) = DOMAIN p.ins
    /\ ~MixedConcat(p) /\ ~LogicalBeyond(p)
    /\ MetadataOK(p) /\ CompactOK(p)
    /\ \A i \in DOMAIN p.ins :
          /\ InstructionValid(p, i) /\ KernelOK(p, i) /\ DtypesOK(p, i) /\ HandleUsesOK(p, i)
          /\ p.ins[i].op = "cache_quantize_append" => p.context <= 512 /\ p.resident = 1 /\ p.prefill = 1 /\ ~p.shared
          /\ p.ins[i].op = "packed_latent_attention" => p.context <= 512

-----------------------------------------------------------------------------
(* The compiler at work.                                                   *)

NoProgram == [ins |-> << >>]

ProgInit ==
    \E d \in Drafts :
        /\ graph = d.nodes /\ left = [free |-> d.free, context |-> d.context, options |-> d.options, stored |-> d.stored]
        /\ phase = "draft" /\ prog = NoProgram

\* Bound: nodes nothing reads yet can still be joined by the places left.
Completable(nodes, free) ==
    Cardinality({i \in DOMAIN nodes : Users(nodes, i) = {}}) <= free + 1

Author ==
    /\ phase = "draft" /\ left.free > 0
    /\ \E t \in Templates : \E inputs \in [1 .. Len(t.inputs) -> DOMAIN graph] :
          LET next == Append(graph, [t EXCEPT !.inputs = inputs]) IN
          /\ Last(Types(next))[1] # "refused" /\ Completable(next, left.free - 1)
          /\ graph' = next
    /\ left' = [left EXCEPT !.free = @ - 1]
    /\ UNCHANGED <<phase, prog>>

\* The logits are projected from the last node, whole or in the shards of eight
\* ranks, and the graph is validated.
FinishAuthoring ==
    /\ phase = "draft" /\ left.free = 0
    /\ \E stored \in left.stored, sharded \in BOOLEAN :
          LET logits(width) == [Node("linear", <<Len(graph)>>, width, "") EXCEPT !.stored = stored]
              whole == graph \o (IF sharded
                                 THEN <<logits(Vocab \div 8), Node("gather", <<Len(graph) + 1>>, 0, "")>>
                                 ELSE <<logits(Vocab)>>) IN
          /\ graph' = whole
          /\ phase' = IF ValidGraph(whole, Types(whole), Len(whole), left.context) THEN "graph" ELSE "refused"
    /\ UNCHANGED <<left, prog>>

Lower ==
    /\ phase = "graph"
    /\ LET l == Lowered(graph, Types(graph), Len(graph)) IN
       IF l.refused THEN phase' = "refused" /\ prog' = prog
       ELSE /\ phase' = "program"
            /\ prog' = [ins |-> l.ins, output |-> Last(l.out), context |-> left.context, resident |-> 1,
                        prefill |-> 1, uncaptured |-> FALSE, bulk |-> FALSE, variants |-> << >>,
                        shared |-> FALSE, rows |-> << >>, format |-> 2]
    /\ UNCHANGED <<graph, left>>

\* Every with_* ends in with_resident_sequences: the version again, then validate.
Becomes(p) ==
    LET next == [p EXCEPT !.format = Version(p)] IN
    /\ phase = "program" /\ left.options > 0
    /\ left' = [left EXCEPT !.options = @ - 1]
    /\ IF ProgramValid(next) THEN prog' = next /\ phase' = phase
       ELSE phase' = "refused" /\ prog' = prog
    /\ graph' = graph

Refuse ==
    /\ phase = "program" /\ left.options > 0
    /\ phase' = "refused" /\ UNCHANGED <<graph, left, prog>>

WithResidentSequences(count) == phase = "program" /\ Becomes([prog EXCEPT !.resident = count])
WithPrefillTokens(count) ==
    phase = "program" /\ Becomes([prog EXCEPT !.uncaptured = FALSE, !.prefill = count, !.variants = << >>])
WithPrefillVariants(counts) ==
    IF counts = << >> THEN Refuse ELSE phase = "program" /\ Becomes([prog EXCEPT !.uncaptured = FALSE, !.prefill = Last(counts), !.variants = counts])
WithSharedPages(enabled) == phase = "program" /\ Becomes([prog EXCEPT !.shared = enabled])
WithUncapturedPrefill == phase = "program" /\ Becomes(Uncaptured(prog))
WithOutputRows ==
    IF phase = "program" /\ prog.uncaptured /\ RowsPlan(prog.ins, prog.output) # << >>
    THEN Becomes([prog EXCEPT !.rows = RowsPlan(prog.ins, prog.output)]) ELSE Refuse
WithBulkCollectiveDomain ==
    IF phase = "program" /\ prog.uncaptured THEN Becomes([prog EXCEPT !.bulk = TRUE]) ELSE Refuse

ProgNext ==
    \/ Author \/ FinishAuthoring \/ Lower
    \/ \E count \in {1, 2, 65} : WithResidentSequences(count)
    \/ \E count \in {1, 4} : WithPrefillTokens(count)
    \/ \E counts \in {<< >>, <<2>>, <<2, 8>>} : WithPrefillVariants(counts)
    \/ \E enabled \in BOOLEAN : WithSharedPages(enabled)
    \/ WithUncapturedPrefill \/ WithOutputRows \/ WithBulkCollectiveDomain

ProgSpec == ProgInit /\ [][ProgNext]_progVars

-----------------------------------------------------------------------------
(* Properties *)

\* Whatever the compiler encodes, after any sequence of options, the native
\* loader reads back as the same program and accepts; it refuses exactly the
\* two things lower() and validate() never look at, a concatenation of two
\* dtypes and a logical node id beyond the instruction count.
LoweredLoads ==
    phase = "program" /\ Encodes(prog) => (Loads(prog) <=> ~MixedConcat(prog) /\ ~LogicalBeyond(prog))

\* Instructions whose result is their input's storage: views, single-token
\* layout conversions, the in-place convolution and the residual a handle keeps.
ViewOps == {"slice", "head_to_token", "mome_inplace", "mhc_pre_project", "mhc_merge", "mhc_sinkhorn"}

Storage(ins) ==
    FoldLeft(LAMBDA r, k :
               LET n == ins[k]
                   base == r[n.inputs[1]] IN
               Append(r, IF n.op \in ViewOps \/ n.kernel = "alias"
                         THEN [root |-> base.root, via |-> base.via \cup {k},
                               start |-> base.start + (IF n.op = "slice" THEN n.start ELSE 0),
                               width |-> IF n.kind = 1 THEN base.width ELSE n.width]
                         ELSE [root |-> k, via |-> {k}, start |-> 0, width |-> n.width]),
             << >>, [k \in DOMAIN ins |-> k])

\* No instruction after an in-place convolution, and not the output, reads the
\* storage it overwrote through a name that stands for the value before it.
ReadsIntact ==
    phase = "program" =>
        LET at == Storage(prog.ins) IN
        \A i \in Where(prog.ins, LAMBDA n : n.op = "mome_inplace") :
            LET stale(id) == i \notin at[id].via /\ Overlapping(at[i], at[id]) IN
            /\ ~stale(prog.output)
            /\ \A j \in i + 1 .. Len(prog.ins) : \A id \in ToSet(prog.ins[j].inputs) :
                  stale(id) => prog.ins[j].op = "slice"

\* What compact rows skip for unsampled tokens is neither state nor a mixture
\* of rows, nothing else reads it, and the rows are picked from a value that
\* is stored row by row.
SuffixIsPure ==
    phase = "program" /\ prog.rows # << >> =>
        LET suffix == prog.rows[3] .. Len(prog.ins)
            headMajor == {"head_matmul", "gather_heads", "repeat_heads"} IN
        /\ prog.ins[prog.rows[1]].op \notin headMajor /\ prog.output \in suffix
        /\ \A i \in suffix :
              /\ prog.ins[i].kind = 0
              /\ prog.ins[i].op \notin {"mome_inplace", "allreduce", "latent_attention", "packed_latent_attention",
                                        "indexed_packed_attention", "rope_bf16", "rope_f32", "expert_reduce"}
              /\ ToSet(prog.ins[i].inputs) \subseteq suffix \cup {prog.rows[1]}
        /\ \A i \in suffix : prog.ins[i].op \in headMajor => i + 1 \in suffix /\ prog.ins[i + 1].inputs = <<i>>

\* Every value is what its instruction computed when it is used: nothing reads
\* storage an in-place convolution overwrote, and no value that compact rows
\* skip is missed.
ValuesIntact == ReadsIntact /\ SuffixIsPure
=============================================================================
