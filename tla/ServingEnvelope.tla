-------------------------- MODULE ServingEnvelope --------------------------
(***************************************************************************)
(* The serving manifest from the compiler to the device.  envelope, lower  *)
(* and program_envelope (crates/inferfabric-compiler/src/token_serving.rs) *)
(* derive variants and state layouts from the graph and the program,       *)
(* Manifest::validate and sliding_capacity (crates/inferfabric-ir/src/     *)
(* serving.rs) judge them, manifest and prefill_capacity (crates/          *)
(* inferfabric-native/src/program.rs) judge them again when the engine     *)
(* opens the bundle, and then tokens, chunks and batches write positions   *)
(* into the rings that sliding_capacity sized, all rows of an invocation   *)
(* before its first query reads.  Sizes (pages, chunk widths, the width of *)
(* an uncaptured chunk) are constants, so that small ones can be checked.  *)
(***************************************************************************)
EXTENDS Integers, Sequences, FiniteSets, FiniteSetsExt, SequencesExt

CONSTANTS Deployments,  \* [graph, program]: graph is a sequence of nodes, program
                        \* [context, prefill, variants, uncaptured, resident, ranks]
          LatentPage, PackedPage, IndexPage,  \* tokens per page: 16, 32, 64
          BaseRows,                           \* 512
          ExactWidths, UncapturedWidth,       \* {2, 4, 8, 16, 32} and 4096
          MaxResidents, MaxVariants           \* 64 and 6

\* Graph::validate takes attentions of a window and a context that are not zero,
\* and a chunk is of more than the one token that a step of decoding is.
ASSUME EnvelopeAssumption ==
    /\ {LatentPage, PackedPage, IndexPage, BaseRows} \subseteq Nat \ {0} /\ BaseRows % LatentPage = 0
    /\ ExactWidths \cup {UncapturedWidth, MaxVariants} \subseteq Nat \ {0, 1} /\ MaxResidents \in Nat
    /\ \A d \in Deployments :
          /\ {d.program.context, d.program.ranks} \subseteq Nat \ {0} 
          /\ d.program.variants \in Seq(Nat) /\ d.program.uncaptured \in BOOLEAN
          /\ IsFiniteSet(DOMAIN d.graph)
          /\ \A k \in DOMAIN d.graph : d.graph[k].op = "latent_attention" => d.graph[k].window \in Nat \ {0}

VARIABLES deployed, manifest, stage,
          position,     \* per resident: tokens done
          held,         \* per state and resident: the position each row of a ring holds
          queried       \* per resident: the positions the last invocation queried

envelopeVars == <<deployed, manifest, stage, position, held, queried>>

None == -1
PageCount(n, page) == (n + page - 1) \div page
RoundUp(n, page) == PageCount(n, page) * page

\* Mutant of SlidingCapacity: the window of one query, not of a whole chunk.
SlidingCapacityOfOne(context, window, query, page) ==
    Min({((window + page - 2) \div page) + 1, PageCount(context, page)}) * page

\* A window plus all later writes of a chunk, begun anywhere in a page.
SlidingCapacity(context, window, query, page) ==
    LET retained == window + query - 1
    IN  Min({((retained + page - 2) \div page) + 1, PageCount(context, page)}) * page

----------------------------------------------------------------------------
(* The compiler.                                                           *)

\* The program as its with_* options leave it.
ServableProgram(p) ==
    /\ p.uncaptured => p.prefill = UncapturedWidth /\ p.variants = << >>
    /\ ~p.uncaptured => p.prefill \in ExactWidths \cup {1}
    /\ Range(p.variants) \subseteq ExactWidths /\ Len(p.variants) < MaxVariants
    /\ \A k \in 1 .. Len(p.variants) - 1 : p.variants[k] < p.variants[k + 1]
    /\ p.variants # << >> => Last(p.variants) = p.prefill
    /\ p.prefill <= p.context /\ p.resident \in 1 .. MaxResidents

StatefulOps == {"index_cache_append", "mome", "cache_append", "cache_norm_rope_append"}
Paged(page, encoding) == [kind |-> "Pages", page |-> page, encoding |-> encoding]
Slot(encoding) == [kind |-> "Slot", page |-> 1, encoding |-> encoding]

StorageOf(n) ==
    IF n.op = "index_cache_append" THEN Paged(IndexPage, IF n.dtype = "int8" THEN "int8_index" ELSE "bf16_index")
    ELSE IF n.op = "mome" THEN Slot("bf16")
    ELSE CASE n.dtype = "bf16" -> Paged(LatentPage, "bf16_latent")
           [] n.dtype = "int8_ds_mla" -> Paged(PackedPage, "int8_latent")
           [] OTHER -> Slot(n.dtype)

CapacityOf(n, context) ==
    IF n.op = "mome" THEN context
    ELSE IF n.op = "index_cache_append" THEN RoundUp(context, IndexPage)
    ELSE CASE n.dtype = "bf16" -> BaseRows
           [] n.dtype = "int8_ds_mla" -> RoundUp(context, PackedPage)
           [] OTHER -> RoundUp(context, LatentPage)

\* The windows of the attentions that read the cache node id appends to.
Windows(graph, id) ==
    {graph[k].window : k \in {j \in DOMAIN graph : graph[j].op = "latent_attention" /\ graph[j].cache = id}}

StateOf(graph, id, p) ==
    [node |-> id, ranks |-> 0 .. p.ranks - 1, storage |-> StorageOf(graph[id]),
     capacity |-> CapacityOf(graph[id], p.context), query |-> 0,
     window |-> IF Windows(graph, id) = {} THEN None ELSE Max(Windows(graph, id)),
     checkpoint |-> FALSE]

SerialVariant(p) ==
    [id |-> <<"serial", 1>>, phase |-> "Decode", sequences |-> 1, tokens |-> 1, query |-> 1, context |-> p.context,
     class |-> <<"serial", 1>>, captured |-> TRUE, packed |-> FALSE]

\* envelope, of a graph with cache layouts it implements.
Implemented(graph) ==
    \A k \in DOMAIN graph : graph[k].op \in {"cache_append", "cache_norm_rope_append"} =>
        graph[k].dtype \in {"bf16", "int8_ds_mla", "int8", "int4"}
Envelope(graph, p) ==
    [variants |-> <<SerialVariant(p)>>,
     states |-> {StateOf(graph, id, p) : id \in {k \in DOMAIN graph : graph[k].op \in StatefulOps}}]

\* Mutant of RetainedQuery: the narrowest chunk of a family.
RetainedQueryFirst(p) == IF p.variants = << >> THEN p.prefill ELSE Head(p.variants)

\* The widest chunk the program runs.
RetainedQuery(p) == p.prefill

\* program_envelope: latent caches become rings, chunk widths become variants.
Sliding(s) == s.storage.encoding = "bf16_latent"
Resized(graph, s, p) ==
    IF Sliding(s)
    THEN LET window == CHOOSE w \in Windows(graph, s.node) : TRUE
         IN  [s EXCEPT !.window = window, !.query = RetainedQuery(p), !.checkpoint = TRUE,
                       !.capacity = SlidingCapacity(p.context, window, RetainedQuery(p), LatentPage)]
    ELSE [s EXCEPT !.checkpoint = s.storage.kind = "Pages" \/ graph[s.node].op = "mome"]

PrefillCounts(p) ==
    IF p.variants # << >> THEN p.variants ELSE IF p.prefill > 1 THEN <<p.prefill>> ELSE << >>

PrefillVariant(p, count) ==
    LET id == <<IF p.uncaptured THEN "uncaptured" ELSE "packed", count>>
    IN  [id |-> id, phase |-> "Prefill", sequences |-> 1, tokens |-> count, query |-> count, context |-> p.context,
         class |-> id, captured |-> ~p.uncaptured, packed |-> TRUE]

OneWindow(graph, p) == \A s \in Envelope(graph, p).states : Sliding(s) => Cardinality(Windows(graph, s.node)) = 1

ProgramEnvelope(graph, p) ==
    LET e == Envelope(graph, p)
        counts == PrefillCounts(p)
    IN  [variants |-> e.variants \o [k \in DOMAIN counts |-> PrefillVariant(p, counts[k])],
         states |-> {Resized(graph, s, p) : s \in e.states},
         resident |-> p.resident, devices |-> p.ranks]

----------------------------------------------------------------------------
(* The judges.                                                             *)

Widest(m, field) == Max({m.variants[k][field] : k \in DOMAIN m.variants})

VariantOK(v) ==
    /\ v.sequences # 0 /\ v.tokens # 0 /\ v.query # 0 /\ v.context # 0
    /\ v.query <= v.context /\ v.query <= v.tokens
    /\ (v.phase = "Decode" \/ ~v.packed) => v.query = 1

StateOK(m, s) ==
    /\ s.capacity # 0 /\ s.ranks # {} /\ s.ranks \subseteq 0 .. m.devices - 1 /\ s.window # 0
    /\ s.storage.kind = "Pages" => s.storage.page # 0 /\ s.capacity % s.storage.page = 0
    /\ s.query # 0 =>
          /\ s.storage.kind = "Pages" /\ s.window # None /\ s.query >= Widest(m, "query")
          /\ s.query <= Widest(m, "context")
          /\ s.capacity = SlidingCapacity(Widest(m, "context"), s.window, s.query, s.storage.page)

\* Manifest::validate.
ManifestOK(m) ==
    /\ m.resident \in 1 .. MaxResidents /\ m.devices > 0 /\ m.variants # << >>
    /\ \A j, k \in DOMAIN m.variants : m.variants[j].class = m.variants[k].class => j = k
    /\ \A k \in DOMAIN m.variants : VariantOK(m.variants[k])
    /\ \A s \in m.states : StateOK(m, s)

\* prefill_capacity: the engine opens what it has native code for, no more.
EngineOK(m) ==
    LET first == m.variants[1] IN
    /\ ManifestOK(m)
    /\ \A s \in m.states : s.query # 0 => Sliding(s) /\ s.storage.page = LatentPage /\ s.query = Widest(m, "query")
    /\ Len(m.variants) \in 1 .. MaxVariants
    /\ first.phase = "Decode" /\ first.sequences = 1 /\ first.tokens = 1 /\ first.query = 1
    /\ ~first.packed /\ first.captured /\ first.class = <<"serial", 1>>
    /\ \A k \in 2 .. Len(m.variants) :
          LET v == m.variants[k] IN
          /\ IF v.captured THEN v.tokens \in ExactWidths ELSE v.tokens = UncapturedWidth /\ Len(m.variants) = 2
          /\ v.tokens > m.variants[k - 1].tokens /\ v.id[1] = (IF v.captured THEN "packed" ELSE "uncaptured")
          /\ v.phase = "Prefill" /\ v.sequences = 1 /\ v.query = v.tokens /\ v.context = first.context /\ v.packed

\* accepts_query_tokens.
Accepts(v, count) ==
    /\ v.sequences = 1 /\ count \in 1 .. v.context
    /\ IF v.phase = "Prefill" /\ v.packed /\ ~v.captured
       THEN count <= v.tokens /\ count <= v.query
       ELSE count = v.tokens /\ count = v.query

----------------------------------------------------------------------------
(* Compiling, opening, serving.                                            *)

EnvelopeInit ==
    /\ deployed \in {d \in Deployments : ServableProgram(d.program)}
    /\ manifest = << >> /\ stage = "compile"
    /\ position = << >> /\ held = << >> /\ queried = << >>

\* lower and write_bundle_with_variants: the manifest of the graph alone is
\* validated, then the program's envelope replaces it and is validated again.
CompileManifest ==
    LET g == deployed.graph
        p == deployed.program
        alone == Envelope(g, p)
    IN  /\ stage = "compile"
        /\ IF ~Implemented(g) \/ ~OneWindow(g, p) THEN stage' = "rejected" /\ UNCHANGED manifest
           ELSE /\ manifest' = ProgramEnvelope(g, p)
                /\ stage' = IF ManifestOK([manifest' EXCEPT !.variants = alone.variants, !.states = alone.states, !.resident = 1])
                               /\ ManifestOK(manifest')
                            THEN "written" ELSE "refused"
        /\ UNCHANGED <<deployed, position, held, queried>>

Rings == {s \in manifest.states : Sliding(s)}
Residents == 0 .. manifest.resident - 1

OpenBundle ==
    /\ stage = "written"
    /\ stage' = IF EngineOK(manifest) THEN "serving" ELSE "refused"
    /\ position' = [r \in Residents |-> 0] /\ queried' = [r \in Residents |-> {}]
    /\ held' = [s \in Rings |-> [r \in Residents |-> [row \in 0 .. s.capacity - 1 |-> None]]]
    /\ UNCHANGED <<deployed, manifest>>

\* The row of a position: pages are recycled in a ring.
Row(s, x) == ((x \div s.storage.page) % (s.capacity \div s.storage.page)) * s.storage.page + (x % s.storage.page)

\* All rows of all members are written before the first query reads.
Invoke(counts) ==
    LET from(r) == position[r]
        upTo(r) == position[r] + counts[r] - 1
        wrote(s, r, row) == {x \in from(r) .. upTo(r) : Row(s, x) = row}
    IN  /\ \A r \in Residents : position[r] + counts[r] <= manifest.variants[1].context
        /\ position' = [r \in Residents |-> position[r] + counts[r]]
        /\ queried' = [r \in Residents |-> from(r) .. upTo(r)]
        /\ held' = [s \in Rings |-> [r \in Residents |-> [row \in 0 .. s.capacity - 1 |->
                       IF wrote(s, r, row) = {} THEN held[s][r][row] ELSE Max(wrote(s, r, row))]]]
        /\ UNCHANGED <<deployed, manifest, stage>>

Only(r, count) == [q \in Residents |-> IF q = r THEN count ELSE 0]

\* token.
Token(r) == stage = "serving" /\ Invoke(Only(r, 1))

\* prefill: a chunk of a compiled width, or of any width up to the uncaptured one.
Prefill(r, count) ==
    /\ stage = "serving" /\ count > 1
    /\ \E k \in DOMAIN manifest.variants : manifest.variants[k].phase = "Prefill" /\ Accepts(manifest.variants[k], count)
    /\ Invoke(Only(r, count))

\* batch: pack_batch takes distinct residents with tokens, up to the budget, and
\* only an uncaptured variant can carry the sum.
Batch(counts) ==
    LET sum == FoldLeft(LAMBDA n, r : n + counts[r - 1], 0, [k \in 1 .. manifest.resident |-> k]) IN
    /\ stage = "serving" /\ sum > 0 /\ sum <= Widest(manifest, "tokens")
    /\ \E k \in DOMAIN manifest.variants :
          LET v == manifest.variants[k] IN v.phase = "Prefill" /\ ~v.captured /\ Accepts(v, sum)
    /\ Invoke(counts)

\* reset of a resident for its next request.
Reset(r) ==
    /\ stage = "serving" /\ position[r] > 0
    /\ position' = [position EXCEPT ![r] = 0] /\ queried' = [queried EXCEPT ![r] = {}]
    /\ held' = [s \in Rings |-> [held[s] EXCEPT ![r] = [row \in 0 .. s.capacity - 1 |-> None]]]
    /\ UNCHANGED <<deployed, manifest, stage>>

EnvelopeNext ==
    \/ CompileManifest \/ OpenBundle
    \/ /\ stage = "serving"
       /\ \/ \E r \in Residents : Token(r) \/ Reset(r) \/ \E count \in 2 .. Widest(manifest, "tokens") : Prefill(r, count)
          \/ \E counts \in [Residents -> 0 .. Widest(manifest, "tokens")] : Batch(counts)

EnvelopeSpec == EnvelopeInit /\ [][EnvelopeNext]_envelopeVars

----------------------------------------------------------------------------
(* Properties.                                                             *)

\* A query's window is still in its rows.
WindowRetained ==
    stage = "serving" =>
      \A s \in Rings, r \in Residents : \A q \in queried[r] :
        \A x \in Max({0, q - s.window + 1}) .. q : held[s][r][Row(s, x)] = x

\* Compiler, contract and engine agree: what the compiler can lower it writes,
\* and what it wrote the engine opens.  And recycled pages lose nothing that is
\* read: when the queries of an invocation run, after all its rows are written,
\* every position of every query's window is still in its row, wherever in a page
\* the chunk began.
EnvelopeServes == stage # "refused" /\ WindowRetained
=============================================================================
