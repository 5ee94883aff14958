---------------------------- MODULE RankStreams ----------------------------
(***************************************************************************)
(* compile of crates/inferfabric-compiler/src/lib.rs: the instruction      *)
(* stream of every rank of a mesh, kernels interleaved with collectives of *)
(* the tensor-parallel ranks and messages between the context-parallel     *)
(* ones, and the ranks running their streams side by side.  A collective   *)
(* holds its group until all have come to it; a message waits for the      *)
(* receive with its group, sequence number and tensor; the fence waits for *)
(* the rank's own messages.  Of the data only its distribution is kept:    *)
(* whether a rank has all tokens of its context shard, a slice of them or  *)
(* a partial sum, and which context shards its attention has seen.         *)
(***************************************************************************)
EXTENDS Naturals, Sequences, FiniteSets, SequencesExt

CONSTANTS MeshSpecs,    \* the specifications: layers "Full" or "Delta", meshes
                        \* [tp, cp, sp], heads, sizes and buckets
          MaxDimension, MaxLayers, MaxBuckets,
          BatchOfRoles  \* the roles whose mesh is run

VARIABLES spec, mesh,   \* the specification, and the mesh of it that runs
          streams,      \* per rank: [ins, states]
          pc,           \* per rank: the instruction it is at
          data,         \* per rank: [x, residual, seen, got, before]
          mail,         \* messages sent and not received
          misused       \* kernels that ran on what they cannot take

streamVars == <<spec, mesh, streams, pc, data, mail, misused>>

Whole(n, parts) == n % parts = 0

\* Spec::validate: sizes are all dimensions, sharded those that tensor
\* parallelism cuts, and buckets come in ascending order.
SpecOK(s) ==
    /\ s.layers # << >> /\ Len(s.layers) <= MaxLayers
    /\ \A n \in s.sizes \cup Range(s.batches) \cup Range(s.contexts) : n <= MaxDimension
    /\ 0 \notin s.sizes /\ Whole(s.queryHeads, s.kvHeads)
    /\ \A m \in {s.prefill, s.decode} :
          /\ m.tp \in {1, 2} /\ m.cp \in {1, 2} /\ (m.sp => m.tp = 2)
          /\ \A n \in s.sharded \cup {s.queryHeads, s.kvHeads, s.deltaHeads} : Whole(n, m.tp)
    /\ s.decode.cp = 1 /\ ~s.decode.sp /\ s.prefill.tp = s.decode.tp
    /\ \A b \in {s.batches, s.contexts} :
          /\ b # << >> /\ b[1] > 0 /\ Len(b) <= MaxBuckets
          /\ \A k \in 1 .. Len(b) - 1 : b[k] < b[k + 1]

----------------------------------------------------------------------------
(* The streams.  m is the mesh, r the rank.  Sequence numbers are counted  *)
(* along the stream: Count moves the counter, Comm's number is relative.   *)

Kernel(name) == [op |-> "Kernel", name |-> name, group |-> << >>, seq |-> 0, peer |-> 0, layer |-> 0]
Comm(op, group, seq, peer, tensor) ==
    [op |-> op, name |-> tensor, group |-> group, seq |-> seq, peer |-> peer, layer |-> 0]
Count(n) == [Kernel("") EXCEPT !.op = "Count", !.seq = n]

TpGroup(r) == <<"tp", r.cp>>
CpGroup(r) == <<"cp", r.tp>>

Kernels(names) == << >> \o [k \in DOMAIN names |-> Kernel(names[k])]
Collective(op, group, tensor) == <<Comm(op, group, 0, 0, tensor), Count(1)>>

\* Sequence parallelism: every projection gathers the token slices first.
Gather(m, r, tensor) == IF m.sp THEN Collective("AllGather", TpGroup(r), tensor) ELSE << >>

\* Ring attention: each round passes a context shard on and merges the one that came.
FullLayer(m, r) ==
    LET round(step) ==
            <<Comm("Send", CpGroup(r), 0, (r.cp + 1) % m.cp, "kv_context_shard"),
              Comm("Receive", CpGroup(r), 0, (r.cp + m.cp - 1) % m.cp, "kv_context_shard"),
              Kernel("causal_attention_online_softmax_merge"), Count(1)>>
    IN  Kernels(<<"qkv_projection", "qk_norm_rope", "paged_attention_local">>)
        \o FlattenSeq([step \in 1 .. m.cp - 1 |-> round(step)]) \o Kernels(<<"attention_output_gate">>)

\* Mutant of DeltaSequence: only the ranks that sent count.
DeltaSequenceSenders(m, r) == IF r.cp + 1 < m.cp THEN 1 ELSE 0

\* All ranks count the messages of a delta layer, whichever of them they take part in.
DeltaSequence(m, r) == m.cp - 1

\* The recurrence of layer i is handed from one context shard to the next.
DeltaLayer(i, m, r) ==
    LET boundary(op, seq, peer) == <<[Comm(op, CpGroup(r), seq, peer, "hybrid_boundary") EXCEPT !.layer = i]>>
    IN  (IF r.cp > 0 THEN boundary("Receive", r.cp - 1, r.cp - 1) ELSE << >>)
        \o Kernels(<<"delta_projection", "causal_conv", "qk_l2_norm_decay_beta", "gated_delta", "gated_norm">>)
        \o (IF r.cp + 1 < m.cp THEN boundary("Send", r.cp, r.cp + 1) ELSE << >>)
        \o <<Count(DeltaSequence(m, r))>>

\* Mutant of Reduction: the partial sums are reduced, never scattered.
ReductionToAll(sp) == "AllReduce"

Reduction(sp) == IF sp THEN "ReduceScatter" ELSE "AllReduce"

Reduced(m, r, tensor) ==
    (IF m.tp > 1 THEN Collective(Reduction(m.sp), TpGroup(r), tensor) ELSE << >>) \o Kernels(<<"residual_add">>)

LayerStream(layering, i, m, r) ==
    Kernels(<<"input_norm">>) \o Gather(m, r, "normalized_token_shards")
    \o (IF layering[i] = "Full" THEN FullLayer(m, r) ELSE DeltaLayer(i, m, r))
    \o Kernels(<<"output_projection">>) \o Reduced(m, r, "attention_partial_hidden")
    \o Kernels(<<"post_norm">>) \o Gather(m, r, "normalized_token_shards")
    \o Kernels(<<"mlp_up_gate_silu", "mlp_down">>) \o Reduced(m, r, "mlp_partial_hidden")

\* The counts resolved: every instruction with its number, the counts dropped.
Numbered(ins) ==
    LET before[k \in 0 .. Len(ins)] ==
            IF k = 0 THEN 0 ELSE before[k - 1] + IF ins[k].op = "Count" THEN ins[k].seq ELSE 0
        number(k) == IF ins[k].op \in {"Kernel", "Count", "Fence"} THEN ins[k]
                     ELSE [ins[k] EXCEPT !.seq = @ + before[k - 1]]
    IN  SelectSeq([k \in DOMAIN ins |-> number(k)], LAMBDA i : i.op # "Count")

Stream(layering, m, r) ==
    Numbered(Kernels(<<IF m.sp THEN "embedding_sequence_shard" ELSE "embedding">>)
             \o FlattenSeq([i \in DOMAIN layering |-> LayerStream(layering, i, m, r)])
             \o Kernels(<<"final_norm">>)
             \o (IF m.sp THEN <<Comm("AllGather", TpGroup(r), 0, 0, "final_normalized_token_shards")>> ELSE << >>)
             \o Kernels(<<"lm_head", "sample_logits">>) \o <<[Kernel("") EXCEPT !.op = "Fence"]>>)

RanksOf(m) == [tp : 0 .. m.tp - 1, cp : 0 .. m.cp - 1]

\* The heads a rank's state holds, layer by layer.
States(s, m) == << >> \o [i \in DOMAIN s.layers |-> (IF s.layers[i] = "Full" THEN s.kvHeads ELSE s.deltaHeads) \div m.tp]

\* compile, for the mesh of one role.
Compile(s, m) == [r \in RanksOf(m) |-> [ins |-> Stream(s.layers, m, r), states |-> States(s, m)]]

MeshRanks == RanksOf(mesh)
Members(group) == {r \in MeshRanks : group \in {TpGroup(r), CpGroup(r)}}

----------------------------------------------------------------------------
(* What kernels need of the distribution of their input, and what they     *)
(* leave: the contracts the compiler's names stand for.                    *)

KernelTakes(name, d, r) ==
    CASE name \in {"qkv_projection", "delta_projection", "mlp_up_gate_silu", "lm_head"} -> d.x = "full"
      [] name \in {"output_projection", "mlp_down"} -> d.x = "heads"
      [] name = "attention_output_gate" -> d.seen = 0 .. mesh.cp - 1
      [] name = "gated_delta" -> d.before = (r.cp > 0)
      [] name = "residual_add" -> d.x = d.residual
      [] OTHER -> TRUE

KernelLeaves(name, d, r) ==
    CASE name = "embedding" -> [d EXCEPT !.x = "full", !.residual = "full"]
      [] name = "embedding_sequence_shard" -> [d EXCEPT !.x = "slice", !.residual = "slice"]
      [] name \in {"input_norm", "post_norm", "final_norm"} -> [d EXCEPT !.x = d.residual]
      [] name = "qkv_projection" -> [d EXCEPT !.x = "heads", !.seen = {r.cp}]
      [] name \in {"delta_projection", "mlp_up_gate_silu"} -> [d EXCEPT !.x = "heads"]
      [] name = "gated_delta" -> [d EXCEPT !.before = FALSE]
      [] name = "causal_attention_online_softmax_merge" -> [d EXCEPT !.seen = @ \cup {d.got}]
      [] name \in {"output_projection", "mlp_down"} -> [d EXCEPT !.x = IF mesh.tp > 1 THEN "partial" ELSE "full"]
      [] OTHER -> d

CollectiveLeaves(op, d) ==
    CASE op = "AllGather" /\ d.x = "slice" -> [d EXCEPT !.x = "full"]
      [] op = "AllReduce" /\ d.x = "partial" -> [d EXCEPT !.x = "full"]
      [] op = "ReduceScatter" /\ d.x = "partial" -> [d EXCEPT !.x = "slice"]
      [] OTHER -> [d EXCEPT !.x = "spoiled"]

----------------------------------------------------------------------------
(* The ranks at work.                                                      *)

StreamInit ==
    /\ \E s \in {t \in MeshSpecs : SpecOK(t)}, role \in BatchOfRoles :
          /\ mesh = IF role = "Prefill" THEN s.prefill ELSE s.decode
          /\ spec = s /\ streams = Compile(s, mesh)
    /\ pc = [r \in MeshRanks |-> 1]
    /\ data = [r \in MeshRanks |-> [x |-> "none", residual |-> "none", seen |-> {}, got |-> r.cp, before |-> FALSE]]
    /\ mail = {} /\ misused = {}

Instr(r) == IF pc[r] > Len(streams[r].ins) THEN [Kernel("") EXCEPT !.op = "Done"] ELSE streams[r].ins[pc[r]]
Advance(r) == pc' = [pc EXCEPT ![r] = @ + 1]

RunKernel(r) ==
    LET i == Instr(r) IN
    /\ i.op = "Kernel" /\ Advance(r)
    /\ misused' = IF KernelTakes(i.name, data[r], r) THEN misused ELSE misused \cup {i.name}
    /\ data' = [data EXCEPT ![r] = KernelLeaves(i.name, @, r)]
    /\ UNCHANGED <<spec, mesh, streams, mail>>

RunSend(r) ==
    LET i == Instr(r) IN
    /\ i.op = "Send" /\ Advance(r)
    /\ mail' = mail \cup {[group |-> i.group, seq |-> i.seq, tensor |-> i.name, layer |-> i.layer, from |-> r.cp, to |-> i.peer,
                           shard |-> data[r].got]}
    /\ UNCHANGED <<spec, mesh, streams, data, misused>>

RunReceive(r) ==
    LET i == Instr(r) IN
    /\ i.op = "Receive" /\ Advance(r)
    /\ \E m \in mail :
          /\ m.group = i.group /\ m.seq = i.seq /\ m.tensor = i.name /\ m.layer = i.layer /\ m.from = i.peer /\ m.to = r.cp
          /\ mail' = mail \ {m}
          /\ data' = [data EXCEPT ![r] = IF i.name = "hybrid_boundary" THEN [@ EXCEPT !.before = TRUE]
                                         ELSE [@ EXCEPT !.got = m.shard]]
    /\ UNCHANGED <<spec, mesh, streams, misused>>

RunCollective(r) ==
    LET i == Instr(r) IN
    /\ i.op \in {"AllGather", "AllReduce", "ReduceScatter"}
    /\ \A q \in Members(i.group) : Instr(q) = i
    /\ pc' = [q \in MeshRanks |-> IF q \in Members(i.group) THEN pc[q] + 1 ELSE pc[q]]
    /\ data' = [q \in MeshRanks |-> IF q \in Members(i.group) THEN CollectiveLeaves(i.op, data[q]) ELSE data[q]]
    /\ UNCHANGED <<spec, mesh, streams, mail, misused>>

RunFence(r) ==
    /\ Instr(r).op = "Fence" /\ Advance(r)
    /\ \A m \in mail : ~(m.group = CpGroup(r) /\ m.from = r.cp)
    /\ UNCHANGED <<spec, mesh, streams, data, mail, misused>>

RunRank(r) == RunKernel(r) \/ RunSend(r) \/ RunReceive(r) \/ RunCollective(r) \/ RunFence(r)
StreamNext == \E r \in MeshRanks : RunRank(r)

StreamSpec == StreamInit /\ [][StreamNext]_streamVars

----------------------------------------------------------------------------
(* Properties.                                                             *)

\* No rank is left waiting in a collective or for a message: whatever the mesh,
\* the layers and the interleaving, some rank can go on until all have passed
\* their fence.  Every step moves a rank along its finite stream, so they get there.
StreamsFinish == (\A r \in MeshRanks : Instr(r).op = "Done") \/ ENABLED StreamNext

\* Every kernel finds its input distributed as it needs it: projections see all
\* tokens of the shard, attention has met every context shard before its output
\* is used, the recurrence waits for the shard before it, sums are reduced once
\* and come back in the distribution of the residual they are added to.  And the
\* ranks of a tensor-parallel group hold all heads of every layer's state between
\* them.
KernelsGetTheirInput ==
    /\ misused = {}
    /\ \A r \in MeshRanks, i \in DOMAIN spec.layers :
          streams[r].states[i] * mesh.tp = (IF spec.layers[i] = "Full" THEN spec.kvHeads ELSE spec.deltaHeads)
=============================================================================
