----------------------------- MODULE MCArtifacts -----------------------------
(***************************************************************************)
(* From a document to a bound kernel.  The stages hand each other finished *)
(* files, so in a behaviour one of them runs and the others rest.          *)
(***************************************************************************)
EXTENDS ModelMeaning, CpuPlanner, TokenProgram, RankStreams, ArtifactStore, ServingEnvelope, DeviceInvocation

----------------------------------------------------------------------------
(* Documents of the model language: a library of modules, and a model that *)
(* binds w, a, b and c and yields one of them.                             *)

N(n) == NameExpr(<<n>>)
Dot(n, f) == NameExpr(<<n, f>>)
Arg(e) == [key |-> << >>, expr |-> e]
Key(k, e) == [key |-> <<k>>, expr |-> e]
Let(n, e) == LetMember(<<n>>, e)
Yield(n) == YieldMember(<<n>>)
Module(name, params, body) == [name |-> name, parameters |-> [k \in DOMAIN params |-> <<params[k]>>], body |-> body]

Conv(e) == CallExpr("mome", <<Arg(e), Key("weight", Dot("w", "conv"))>>)
Plus(e, f) == CallExpr("add", <<Arg(e), Arg(f)>>)
Instance(op, e, w) == CallExpr(op, <<Arg(e), Arg(w)>>)
Loop(last, e, body) == FoldExpr(<<"i">>, NumberExpr(0), NumberExpr(last), <<"h">>, e, body)
Pair(e, f) == CallExpr("record", <<Key("hidden", e), Key("shared", f)>>)

Bodies ==
    {<<Let("y", Conv(N("x"))), Yield("y")>>,
     <<Let("y", Conv(N("x"))), Let("r", Pair(N("y"), N("x"))), Yield("r")>>,
     <<Let("arg_x", Conv(N("x"))), Let("y", Plus(N("arg_x"), N("x"))), Yield("y")>>,
     <<Let("y", Plus(N("x"), N("a"))), Yield("y")>>,
     <<Let("a", Conv(Conv(N("x")))), Yield("a")>>,
     <<Let("y", Loop(2, N("x"), <<Let("n", CallExpr("mome", <<Arg(N("h")), Key("weight",
            CallExpr("child", <<Arg(N("w")), Arg(N("i")), Arg(TextExpr(<<"conv">>))>>))>>)), Yield("n")>>)), Yield("y")>>,
     <<Let("n", CallExpr("div", <<Arg(NumberExpr(4)), Arg(NumberExpr(2))>>)), Yield("n")>>,
     <<Let("y", Conv(N("x")))>>,
     <<Yield("x"), Let("y", Conv(N("x")))>>}
Twice == Module("Twice", <<"x", "w">>,
    <<Let("p", Instance("Block", N("x"), N("w"))),
      Let("q", CallExpr("Block", <<Key("w", Dot("w", "second")), Key("x", N("p"))>>)), Yield("q")>>)
Block(body) == Module("Block", <<"x", "w">>, body)
MCLibraries ==
    {<<Block(b), Twice>> : b \in Bodies} \cup
    {<< >>, <<Block(<<Let("y", Instance("Twice", N("x"), N("w"))), Yield("y")>>), Twice>>,
     <<Module("add", <<"x">>, <<Yield("x")>>)>>, <<Module("Block", <<"x", "x">>, <<Yield("x")>>)>>}

Round(e) == <<Let("n", e), Yield("n")>>
Chosen(e, f) == CallExpr("choose", <<Arg(CallExpr("eq", <<Arg(CallExpr("mod", <<Arg(N("i")), Arg(NumberExpr(2))>>)),
                                                         Arg(NumberExpr(0))>>)), Arg(e), Arg(f)>>)
FirstLets ==
    {Instance("Block", N("a"), N("w")), Instance("Twice", N("a"), Dot("w", "layers")), Instance("Block", Conv(N("a")), N("w")),
     CallExpr("Block", <<Arg(N("a"))>>), CallExpr("Block", <<Key("w", N("w")), Arg(N("a"))>>),
     Pair(N("a"), Pair(N("a"), Conv(N("a")))), Pair(N("a"), N("w")), Pair(Pair(N("a"), N("a")), Pair(N("a"), N("a"))),
     Loop(2, N("a"), Round(Instance("Block", N("h"), N("w")))), Loop(2, N("a"), Round(Pair(N("h"), N("h")))),
     Loop(2, Pair(N("a"), N("a")), <<Let("n", Conv(Dot("h", "hidden"))), Let("r", Pair(N("n"), Dot("h", "shared"))), Yield("r")>>),
     Loop(3, N("a"), Round(Chosen(Instance("Block", N("h"), N("w")), Plus(N("h"), N("h"))))),
     Loop(2, Loop(1, N("a"), Round(Conv(N("h")))), Round(Conv(N("h")))),
     Loop(0, N("a"), Round(N("missing"))), Loop(5, N("a"), Round(N("h"))),
     FoldExpr(<<"h">>, NumberExpr(0), NumberExpr(1), <<"h">>, N("a"), Round(N("h"))),
     FoldExpr(<<"i">>, NumberExpr(2), NumberExpr(1), <<"h">>, N("a"), Round(N("h"))),
     CallExpr("linear", <<Arg(Conv(N("a"))), Key("mode", N("silu")), Key("width", NumberExpr(4))>>),
     CallExpr("linear", <<Arg(N("a")), Key("width", NumberExpr(4)), Key("width", NumberExpr(4))>>),
     CallExpr("linear", <<Arg(N("a")), Key("weight", N("a"))>>), CallExpr("other", <<Arg(N("a"))>>),
     CallExpr("div", <<Arg(NumberExpr(4)), Arg(NumberExpr(3))>>), CallExpr("mod", <<Arg(NumberExpr(4)), Arg(NumberExpr(-1))>>),
     [kind |-> "list"]}
SecondLets ==
    {Let("c", e) : e \in {Plus(N("a"), N("b")), Conv(Conv(N("b"))), Plus(Dot("b", "hidden"), Dot("b", "shared")),
                          Instance("Block", N("b"), N("w")), Dot("b", "y"),
                          CallExpr("choose", <<Arg(CallExpr("lt", <<Arg(N("b")), Arg(NumberExpr(3))>>)), Arg(N("a")), Arg(Conv(N("a")))>>)}}
    \cup {Let("b", Conv(N("a"))), LetMember(<<"b", "y">>, Conv(N("a"))), LetMember(<<"b", "hidden">>, Conv(N("a")))}
MCMemberSets ==
    <<{Let("w", CallExpr("weights", <<Arg(TextExpr(t))>>)) : t \in {<<"model">>, <<"model", "">>}},
      {Let("a", CallExpr("embedding", <<Key("weight", Dot("w", "embedding"))>>))},
      {FieldMember(<<"context">>)}, {Let("b", e) : e \in FirstLets}, SecondLets,
      {FieldMember(<<"eos">>)}, {Yield("b"), Yield("c"), YieldMember(<<"b", "hidden">>), FieldMember(<<"eos">>)}>>

----------------------------------------------------------------------------
(* Logical graphs: 1, 2 and 3 are nodes, the leaves are named to sort after *)
(* them.                                                                    *)

In == 11
Const == 12
State == 13
MCLeaf == In :> [shape |-> <<2, 1>>, storage |-> "input"]
       @@ Const :> [shape |-> <<1, 3>>, storage |-> "constant"]
       @@ State :> [shape |-> <<2, 1>>, storage |-> "state"]

Apply(n, o, i) == [name |-> n, op |-> o, inputs |-> i]
MCPalette ==
    {Apply(State, "relu", <<In>>)} \cup
    UNION {     {Apply(n, "relu", <<m>>) : m \in {IF n = 2 THEN 1 ELSE 2, In, Const} \cup (IF n = 1 THEN {State} ELSE {})}
           \cup {Apply(n, "matmul", <<IF n = 3 THEN 1 ELSE In, Const>>)}
           \cup {Apply(n, "add", i) : i \in {<<1, State>>, <<1, 2>>}} : n \in 1 .. 3}
MCOutputLists == {<<3, 1>>, <<In, In>>}
MCUpdateMaps == {<<>>, State :> 1, In :> State}
MCOptionSets == {[debug |-> FALSE, kernels |-> <<>>], [debug |-> TRUE, kernels |-> <<>>],
                 [debug |-> FALSE, kernels |-> 2 :> "matmul"]}

----------------------------------------------------------------------------
(* The token graphs authored and lowered.                                  *)

Embedding == <<Node("embedding", << >>, 2560, "")>>
Linear(of, width) == Node("linear", <<of>>, width, "")
Int8(node) == [node EXCEPT !.stored = "I8"]
Slice(start, width) == [Node("slice", <<0>>, width, "") EXCEPT !.start = start]

\* A block names its input 0 and its own nodes 1, 2, ...
Attach(nodes, block) ==
    nodes \o [k \in DOMAIN block |->
                [block[k] EXCEPT !.inputs = [s \in DOMAIN @ |-> @[s] + Len(nodes)]]]

Attention(query, fused, cache, window) ==
    <<Linear(0, IF query = "replicated" THEN 9216 ELSE 1152), Node("mla_query", <<1>>, 0, query),
      Node("sink_normalize", << >>, 0, "")>>
    \o (IF fused THEN <<Linear(0, 512), Linear(0, 64), Node("cache_norm_rope_append", <<4, 5, 3>>, 0, cache)>>
        ELSE <<Linear(0, 576), Node("mome", <<4>>, 0, ""), Node("cache_append", <<5, 3>>, 0, cache)>>)
    \o <<Node("latent_attention", <<2, 6>>, window, "causal"), Node("mla_value", <<7>>, 0, ""),
         Node("mome", <<8>>, 0, ""), Linear(9, 2560), Node("add", <<0, 10>>, 0, "")>>

Indexed(query, cache, index) ==
    <<Linear(0, IF query = "replicated" THEN 9216 ELSE 1152), Node("mla_query", <<1>>, 0, query),
      Node("sink_normalize", << >>, 0, ""), Linear(0, 512), Linear(0, 64),
      Node("cache_norm_rope_append", <<4, 5, 3>>, 0, cache), Linear(0, 128),
      Node("index_cache_append", <<7>>, 0, index), Linear(0, 3072), Linear(0, 24),
      Node("sparse_index", <<9, 10, 8>>, 0, ""), Node("latent_attention", <<2, 6, 11>>, 2048, "learned"),
      Node("mla_value", <<12>>, 0, ""), Linear(13, 2560)>>

Experts(paired) ==
    <<Node("router", <<0>>, 0, "")>>
    \o (IF paired THEN <<Node("expert_linear", <<0, 1>>, 1024, "paired"), Node("expert_swiglu_down", <<2, 1>>, 2560, "")>>
        ELSE <<Node("expert_linear", <<0, 1>>, 1024, ""), Node("expert_linear", <<0, 1>>, 1024, ""),
               Node("expert_swiglu_down", <<2, 3, 1>>, 2560, "")>>)
    \o LET k == IF paired THEN 3 ELSE 4 IN
       <<Node("expert_reduce", <<k, 1>>, 0, ""), Node("allreduce", <<k + 1>>, 0, "f32"),
         Node("add", <<k + 2, 0>>, 0, "")>>

Streams ==
    <<Node("repeat", <<0>>, 4, ""), Node("mhc_pre", <<1>>, 0, ""), Node("mhc_input", <<2>>, 0, ""),
      Node("mome", <<3>>, 0, ""), Node("mhc_post", <<2, 4>>, 0, ""), Node("mhc_merge", <<5>>, 0, ""),
      Node("mhc_input", <<6>>, 0, "")>>

Dense(stored) ==
    <<Node("quantize", <<0>>, 0, ""), [Linear(1, 256) EXCEPT !.stored = stored], Int8(Linear(0, 256)),
      Node("swiglu", <<2, 3>>, 0, ""), [Node("rotary_prefix", <<4>>, 128, "") EXCEPT !.start = 2],
      Node("linear", <<0>>, 32, "paired"), Node("rope", <<6>>, 0, ""), Node("swiglu", <<7>>, 0, ""),
      Linear(8, 256), Node("concat", <<5, 9>>, 0, ""),
      [Node("optional_norm", <<10>>, 0, "") EXCEPT !.stored = "absent"],
      Node("allreduce", <<11>>, 0, "bf16"), Node("optional_norm", <<12>>, 0, ""), Linear(13, 2560)>>

Fixed(nodes, context) == [nodes |-> nodes, free |-> 0, context |-> context, options |-> 4,
                          stored |-> {"BF16"}]

Queries == {"replicated", "rank_local", "rank_local_bf16"}

MCDrafts ==
    {[nodes |-> Embedding \o <<Linear(1, 8)>> \o view, free |-> 3, context |-> 4096, options |-> 0,
      stored |-> {"BF16"}] : view \in {<< >>, <<[Slice(0, 4) EXCEPT !.inputs = <<2>>]>>}}
    \cup {[Fixed(Embedding, 4096) EXCEPT !.stored = {"BF16", "I8", "absent"}]}
    \cup {Fixed(Attach(Embedding, Attention(q, f, c, 512)), n) :
             q \in Queries, f \in BOOLEAN, c \in {"bf16", "int8", "int8_ds_mla"}, n \in {512, 4096}}
    \cup {Fixed(Attach(Attach(Embedding, Attention("rank_local_bf16", f, c, v)), Attention("rank_local_bf16", TRUE, d, w)), 4096) :
             f \in BOOLEAN, c \in {"bf16"}, d \in {"bf16"}, v \in {512, 2048}, w \in {512, 2048}}
    \cup {Fixed(Attach(Attach(Embedding, Attention("rank_local", TRUE, c, 512)), Attention("rank_local", TRUE, d, 512)), 512) :
             c \in {"int8", "int8_ds_mla"}, d \in {"bf16", "int8_ds_mla"}}
    \cup {Fixed(Attach(Attach(Embedding, Indexed(q, "int8_ds_mla", x)), Indexed(q, c, x)), 4096) :
             q \in Queries, c \in {"bf16", "int8_ds_mla"}, x \in {"bf16", "int8"}}
    \cup {Fixed(Attach(Attach(Embedding, Experts(p)), Streams), 4096) : p \in BOOLEAN}
    \cup {Fixed(Attach(Embedding, Dense(s)), 4096) : s \in {"BF16", "I8", "F8"}}

MCTemplates ==
    {Slice(0, 4), Slice(4, 4), Slice(2, 4), Node("mome", <<0>>, 0, ""), Node("norm", <<0>>, 0, ""),
     Node("cast", <<0>>, 0, "f32"), Node("cast", <<0>>, 0, "bf16"),
     Node("concat", <<0, 0>>, 0, ""), Node("add", <<0, 0>>, 0, "")}

----------------------------------------------------------------------------
(* Meshes of up to two by two ranks.                                       *)

MCMeshSpecs ==
    {[layers |-> l, prefill |-> [tp |-> t, cp |-> c, sp |-> p], decode |-> [tp |-> t, cp |-> 1, sp |-> FALSE],
      queryHeads |-> 4, kvHeads |-> k, deltaHeads |-> 2, sharded |-> {4, 8}, sizes |-> {1, 2, 4, 8},
      batches |-> b, contexts |-> <<8, 16>>] :
        l \in {<<"Delta", "Full">>, <<"Full", "Delta">>},
        t \in {1, 2}, c \in {1, 2}, p \in BOOLEAN, k \in {1, 2}, b \in {<<1, 2>>, <<2, 2>>}}

----------------------------------------------------------------------------
(* Three writers in two processes.                                         *)

MCBundleFiles == <<[stem |-> "execution", ext |-> <<"bin">>], [stem |-> "execution", ext |-> <<"json">>]>>
MCPidOf == [t \in Writers |-> IF t = "other" THEN 8 ELSE 7]

----------------------------------------------------------------------------
(* Deployments of window states.                                           *)

StateCache(dtype) == [op |-> "cache_append", dtype |-> dtype, cache |-> 0, window |-> 0]
Attend(cache, window) == [op |-> "latent_attention", dtype |-> "", cache |-> cache, window |-> window]
Other(op, dtype) == [op |-> op, dtype |-> dtype, cache |-> 0, window |-> 0]

MCGraphs ==
    {<<StateCache("bf16"), Attend(1, w), Other("mome", "bf16")>> : w \in 1 .. 5}
    \cup {<<StateCache("bf16"), Attend(1, 2), Attend(1, w), Other("index_cache_append", "int8")>> : w \in {2, 3}}
    \cup {<<StateCache(d), Attend(1, 3)>> : d \in {"int8_ds_mla", "int4", "fp8"}}

MCPrograms ==
    {[context |-> c, prefill |-> q, variants |-> v, uncaptured |-> u, resident |-> r, ranks |-> 2] :
        c \in {7, 9}, q \in {1, 2, 3, 4}, v \in {<< >>, <<2>>, <<4>>, <<2, 4>>}, u \in BOOLEAN, r \in {1, 2}}

MCDeployments == {[graph |-> g, program |-> p] : g \in MCGraphs, p \in {q \in MCPrograms : ServableProgram(q)}}

----------------------------------------------------------------------------
(* Kernel invocations.                                                     *)

Alloc(id, b, al, ro) == [id |-> id, bytes |-> b, alignment |-> al, rank |-> 0, class |-> IF ro THEN "Weight" ELSE "Activation", readOnly |-> ro]

View(id, o, sh, st, t, al, acc) ==
    [allocation |-> id, offset |-> o, shape |-> sh, strides |-> st, dtype |-> t, alignment |-> al, access |-> acc]

\* Two allocations; views of one or two dimensions, contiguous or not, anywhere
\* in them; the workspace in either or absent.
MCInvocations ==
    {[binary |-> "b", rank |-> 0,
      allocations |-> <<Alloc(1, 8, 4, ro), Alloc(2, n, 4, FALSE)>>,
      inputs |-> <<View(1, i, <<2>>, <<1>>, "Bf16", 2, "Read")>> \o
                 (IF two THEN <<View(2, 0, <<2>>, <<1>>, "I8", 1, "Read")>> ELSE << >>),
      outputs |-> <<View(d, o, <<2, 2>>, st, "I8", al, "Write")>>,
      workspace |-> IF w = 99 THEN << >> ELSE <<[allocation |-> 2, offset |-> w, bytes |-> 4, alignment |-> 4]>>] :
        ro \in BOOLEAN, n \in {8, 12}, two \in BOOLEAN, i \in {0, 4, 6}, d \in {1, 2}, o \in {0, 2, 4, 8},
        st \in {<<2, 1>>, <<1, 2>>}, al \in {1, 4, 8}, w \in {0, 4, 8, 99}}

MCPreparations == [binary : {"b", "c"}, bytes : {0, 4, 8}, alignment : {1, 4}]

MCResidencies ==
    {<<[id |-> a, base |-> x, bytes |-> 8, rank |-> 0], [id |-> b, base |-> y, bytes |-> n, rank |-> 0]>> :
        a \in {1, 2}, b \in {1, 2}, x \in {0, 4, 6, 16}, y \in {8, 12, 24, 56}, n \in {8, 12}}

----------------------------------------------------------------------------
AnyDraft == CHOOSE d \in Drafts : TRUE
AnySpec == CHOOSE s \in MeshSpecs : SpecOK(s) /\ s.decode.tp = 1
AnyStreams == Compile(AnySpec, AnySpec.decode)
AnyDeployment == CHOOSE d \in Deployments : TRUE
AnyInvocation == CHOOSE c \in Invocations : TRUE

LanguageRests == document = [modules |-> << >>, model |-> << >>] /\ definition = Unread
ProgRests ==
    /\ graph = AnyDraft.nodes /\ left = << >> /\ phase = "draft" /\ prog = NoProgram
StreamsRest ==
    /\ spec = AnySpec /\ mesh = AnySpec.decode /\ streams = AnyStreams
    /\ pc = [r \in MeshRanks |-> 1]
    /\ data = [r \in MeshRanks |-> [x |-> "none", residual |-> "none", seen |-> {}, got |-> r.cp, before |-> FALSE]]
    /\ mail = {} /\ misused = {}
EnvelopeRests ==
    /\ deployed = AnyDeployment /\ manifest = << >> /\ stage = "compile"
    /\ position = << >> /\ held = << >> /\ queried = << >>
InvocationRests ==
    call = AnyInvocation /\ prepared = << >> /\ resident = << >> /\ progress = "frozen"

VARIABLE part   \* the stage that runs

ArtifactsInit ==
    /\ part \in {"language", "planner", "program", "streams", "store", "envelope", "invocation"}
    /\ PlannerInit /\ StoreInit
    /\ IF part = "language" THEN LanguageInit ELSE LanguageRests
    /\ IF part = "program" THEN ProgInit ELSE ProgRests
    /\ IF part = "streams" THEN StreamInit ELSE StreamsRest
    /\ IF part = "envelope" THEN EnvelopeInit ELSE EnvelopeRests
    /\ IF part = "invocation" THEN InvocationInit ELSE InvocationRests

Rests(p, vars) == part # p => UNCHANGED vars

ArtifactsNext ==
    /\ \/ part = "language" /\ LanguageNext
       \/ part = "planner" /\ PlannerNext
       \/ part = "program" /\ ProgNext
       \/ part = "streams" /\ StreamNext
       \/ part = "store" /\ StoreNext
       \/ part = "envelope" /\ EnvelopeNext
       \/ part = "invocation" /\ InvocationNext
    /\ Rests("language", languageVars) /\ Rests("planner", plannerVars) /\ Rests("program", progVars) /\ Rests("streams", streamVars)
    /\ Rests("store", storeVars) /\ Rests("envelope", envelopeVars) /\ Rests("invocation", invocationVars)
    /\ UNCHANGED part

ArtifactsSpec ==
    ArtifactsInit
    /\ [][ArtifactsNext]_<<part, languageVars, plannerVars, progVars, streamVars, storeVars, envelopeVars, invocationVars>>
=============================================================================
