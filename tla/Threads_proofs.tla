--------------------------- MODULE Threads_proofs ---------------------------
(***************************************************************************)
(* The two thread groups that execute.  A step of a worker group is a step *)
(* of all its ranks: for every number of ranks, buckets, batches, calls    *)
(* and start-up faults and every length of the workers' channels.  A token *)
(* of a native lane comes from its request's own inputs: for every number  *)
(* of lanes, ranks and requests, every context, budget and length of the   *)
(* job channel.                                                            *)
(***************************************************************************)
EXTENDS WorkerGroup, NativeLanes, NumberLemmas

----------------------------------------------------------------------------
(* The worker group.                                                       *)


Commands == [kind : {"Step"}, call : Nat] \cup [kind : {"Stop"}]
Steps == [call : Nat, rank : Ranks, ok : BOOLEAN]

GroupTyped ==
    /\ decode \in BOOLEAN
    /\ thread \in [Ranks -> {"unborn", "starting", "serving", "ended"}]
    /\ stage = [r \in Ranks |-> stage[r]]
    /\ graphs \in [Ranks -> SUBSET Buckets] /\ device \in [Ranks -> SUBSET (Buckets \cup {Buffer})]
    /\ mailbox \in [Ranks -> Seq(Commands)] /\ ran \in [Ranks -> Seq(Nat)]
    /\ group \in {"spawning", "idle", "sending", "collecting", "dropping", "joining", "done"}
    /\ at \in Ranks /\ calls \in Seq(Batches) /\ results \in Seq(BOOLEAN)
    /\ replies \subseteq Steps

\* A rank that decodes is ready with a graph of every bucket, and the device has it.
Started(r) ==
    /\ thread[r] = "unborn" => stage[r] = "Validate" /\ graphs[r] = {} /\ device[r] = {}
    /\ thread[r] = "serving" => stage[r] = "Ready"
    /\ thread[r] \in {"starting", "serving"} =>
          /\ stage[r] \in {"Validate", "Compile", "Prepare", "Warmup", "Capture", "ValidateReplay", "Reset", "Ready"}
          /\ graphs[r] \subseteq device[r]
          /\ stage[r] = "Capture" => graphs[r] # Buckets
          /\ stage[r] \in {"Reset", "Ready"} /\ decode => graphs[r] = Buckets

\* A rank ran the first calls, and the next ones are in its channel, in order.
InOrder(r) ==
    /\ \A i \in 1 .. Len(ran[r]) : ran[r][i] = i
    /\ \A i \in 1 .. Len(mailbox[r]) : mailbox[r][i].kind = "Step" =>
          /\ mailbox[r][i].call = Len(ran[r]) + i
          /\ Len(ran[r]) + i <= Len(calls)

\* Nothing of a call is lost while the group is in use, and nothing stops.
Owed ==
    /\ Len(calls) = Len(results) + (IF group \in {"sending", "collecting"} THEN 1 ELSE 0)
    /\ group = "spawning" => calls = << >>
    /\ group \in {"spawning", "idle", "collecting"} =>
          \A r \in Ranks : Len(ran[r]) + Len(mailbox[r]) = Len(calls)
    /\ group = "sending" =>
          \A r \in Ranks : Len(ran[r]) + Len(mailbox[r]) = IF r < at THEN Len(calls) ELSE Len(results)
    /\ group \in {"spawning", "idle", "sending", "collecting"} =>
          \A r \in Ranks : \A i \in 1 .. Len(mailbox[r]) : mailbox[r][i].kind = "Step"

\* A reply says whether the batch of its call fits, and comes from a rank that ran it.
Answered ==
    /\ \A m \in replies :
          /\ m.call \in 1 .. Len(ran[m.rank]) /\ m.call <= Len(calls)
          /\ m.ok <=> Fits(calls[m.call])
    /\ group = "collecting" => \A r \in Ranks : r < at => \E m \in Reply(r) : m.ok
    /\ \A c \in 1 .. Len(results) :
          /\ results[c] <=> Fits(calls[c])
          /\ results[c] => \A r \in Ranks : c <= Len(ran[r])

\* The inductive invariant.
GroupInv ==
    /\ GroupTyped /\ Owed /\ Answered
    /\ \A r \in Ranks : Started(r) /\ InOrder(r)

----------------------------------------------------------------------------
\* Ranks are counted from 1.
LEMMA RankOrder ==
    /\ Ranks \subseteq Nat \ {0} /\ 1 \in Ranks
    /\ \A r \in Ranks : r + 1 \notin Ranks => \A q \in Ranks : q < r \/ q = r
    /\ \A r, q \in Ranks : q < r + 1 => q < r \/ q = r
BY GroupAssumption

\* A finite set of numbers that is not empty has a smallest and a largest member.
LEMMA Extremes ==
    ASSUME NEW S \in SUBSET Nat, IsFiniteSet(S), S # {}
    PROVE  /\ Smallest(S) \in S /\ \A w \in S : Smallest(S) <= w
           /\ Largest(S) \in S /\ \A w \in S : w <= Largest(S)
<1>1. \E u \in S : \A w \in S : u <= w
  BY LeastMember
<1>2. \E u \in S : \A w \in S : u >= w
  <2>1. Cardinality(S) \in Nat /\ Cardinality(S) # 0
    BY FS_CardinalityType, FS_EmptySet
  <2>2. Cardinality(S) - 1 \in 0 .. Cardinality(S) - 1
    BY <2>1
  <2>3. PICK u \in S : Position(S, u) = Cardinality(S) - 1
    BY <2>2, PositionBijective
  <2>4. ASSUME NEW w \in S, u < w PROVE FALSE
    <3>1. Position(S, u) < Position(S, w) /\ Position(S, w) < Cardinality(S) /\ Position(S, w) \in Nat
      BY <2>4, PositionGrows
    <3> QED
      BY <2>1, <2>3, <3>1
  <2> QED
    BY <2>4
<1>3. Smallest(S) \in S /\ \A w \in S : Smallest(S) <= w
  BY <1>1 DEF Smallest
<1>4. Largest(S) \in S /\ \A w \in S : Largest(S) >= w
  BY <1>2 DEF Largest
<1> QED
  BY <1>3, <1>4

\* A ready rank runs a batch exactly when the batch fits: with a graph of every
\* bucket, the graph that step chooses exists and is large enough.
LEMMA ReadyFits ==
    ASSUME NEW r \in Ranks, NEW batch \in Batches, decode \in BOOLEAN,
           decode => graphs[r] = Buckets /\ Buckets \subseteq device[r]
    PROVE  StepOK(r, batch) <=> Fits(batch)
<1> DEFINE n == Len(batch)
           context == StepContext(batch)
           ends == {batch[i].consumed + batch[i].tokens : i \in DOMAIN batch}
           fitting == AtLeast(BatchBuckets, n)
           covering == AtLeast(ContextBuckets, context)
           g == <<Smallest(fitting), Smallest(covering)>>
<1>1. /\ n \in Nat /\ DOMAIN batch = 1 .. n
      /\ \A i \in DOMAIN batch : batch[i].consumed \in Nat /\ batch[i].tokens \in Nat
  <2> DEFINE Inputs == [slot : Nat, pages : SUBSET Nat, consumed : Nat, tokens : Nat]
  <2>1. batch \in Seq(Inputs)
    BY GroupAssumption
  <2>2. \A input \in Inputs : input.consumed \in Nat /\ input.tokens \in Nat
    OBVIOUS
  <2> HIDE DEF Inputs
  <2> QED
    BY <2>1, <2>2
<1>2. /\ Largest(BatchBuckets) \in BatchBuckets /\ \A b \in BatchBuckets : b <= Largest(BatchBuckets)
      /\ Largest(ContextBuckets) \in ContextBuckets /\ \A b \in ContextBuckets : b <= Largest(ContextBuckets)
      /\ BatchBuckets \subseteq Nat /\ ContextBuckets \subseteq Nat
  BY GroupAssumption, Extremes
<1>3. fitting # {} => Smallest(fitting) \in fitting
  <2>1. fitting \in SUBSET Nat /\ IsFiniteSet(fitting)
    BY <1>2, GroupAssumption, FS_Subset DEF AtLeast
  <2> QED
    BY <2>1, Extremes
<1>4. covering # {} => Smallest(covering) \in covering
  <2>1. covering \in SUBSET Nat /\ IsFiniteSet(covering)
    BY <1>2, GroupAssumption, FS_Subset DEF AtLeast
  <2> QED
    BY <2>1, Extremes
<1>5. batch # << >> => context \in ends /\ \A x \in ends : x <= context
  <2>1. ends \in SUBSET Nat
    BY <1>1
  <2>2. IsFiniteSet(1 .. n)
    BY <1>1, FS_Interval
  <2>3. IsFiniteSet(ends)
    <3> DEFINE f == [i \in 1 .. n |-> batch[i].consumed + batch[i].tokens]
    <3>1. \A x : x \in ends <=> \E i \in 1 .. n : x = f[i]
      BY <1>1
    <3>2. f \in [1 .. n -> ends]
      BY <1>1
    <3> HIDE DEF f, ends
    <3>3. f \in Surjection(1 .. n, ends)
      BY <3>1, <3>2, Fun_IsSurj
    <3> QED
      BY <2>2, <3>3, FS_Surjection
  <2>4. batch # << >> => ends # {}
    <3>1. batch # << >> => n # 0
      BY GroupAssumption
    <3>2. n # 0 => 1 \in DOMAIN batch
      BY <1>1
    <3> QED
      BY <3>1, <3>2
  <2> HIDE DEF ends
  <2>5. batch # << >> => Largest(ends) \in ends /\ \A x \in ends : x <= Largest(ends)
    BY <2>1, <2>3, <2>4, Extremes
  <2> QED
    BY <2>5 DEF StepContext, ends
<1>6. CASE ~decode
  BY <1>6 DEF StepOK, Fits, Executes
<1>7. CASE decode
  <2>1. ASSUME StepOK(r, batch)
        PROVE  Fits(batch)
    <3>1. /\ BindingsOK(batch) /\ fitting # {} /\ covering # {}
          /\ g \in graphs[r] /\ Executes(batch, {g})
      BY <1>7, <2>1 DEF StepOK
    <3>2. g[1] \in BatchBuckets /\ g[1] <= Largest(BatchBuckets)
      BY <1>2, <1>3, <3>1 DEF AtLeast
    <3> HIDE DEF g
    <3>3. /\ Len(batch) <= g[1]
          /\ \A i \in DOMAIN batch :
                /\ batch[i].tokens > 0 /\ batch[i].tokens = 1
                /\ batch[i].consumed + batch[i].tokens <= Largest(ContextBuckets)
      BY <3>1 DEF Executes
    <3>4. Len(batch) <= Largest(BatchBuckets)
      <4>1. Len(batch) \in Nat /\ g[1] \in Nat /\ Largest(BatchBuckets) \in Nat
        BY <1>1, <1>2, <3>2
      <4> QED
        BY <3>2, <3>3, <4>1
    <3> QED
      BY <3>1, <3>3, <3>4 DEF Fits
  <2>2. ASSUME Fits(batch)
        PROVE  StepOK(r, batch)
    <3>1. /\ BindingsOK(batch) /\ n <= Largest(BatchBuckets) /\ batch # << >>
          /\ \A i \in DOMAIN batch :
                /\ batch[i].tokens > 0 /\ batch[i].tokens = 1
                /\ batch[i].consumed + batch[i].tokens <= Largest(ContextBuckets)
      BY <1>7, <2>2 DEF Fits, BindingsOK
    <3>2. /\ context \in Nat /\ context <= Largest(ContextBuckets)
          /\ \A i \in DOMAIN batch : batch[i].consumed + 1 <= context
      <4>1. context \in ends /\ \A x \in ends : x <= context
        BY <1>5, <3>1
      <4>2. \A i \in DOMAIN batch : batch[i].consumed + batch[i].tokens \in ends
        OBVIOUS
      <4>3. \A i \in DOMAIN batch : batch[i].consumed + 1 <= context
        BY <3>1, <4>1, <4>2
      <4>4. \A x \in ends : x \in Nat /\ x <= Largest(ContextBuckets)
        BY <1>1, <3>1
      <4> QED
        BY <4>1, <4>3, <4>4
    <3> HIDE DEF context
    <3>3. Largest(BatchBuckets) \in fitting /\ Largest(ContextBuckets) \in covering
      BY <1>1, <1>2, <3>1, <3>2 DEF AtLeast
    <3>4. /\ Smallest(fitting) \in BatchBuckets /\ n <= Smallest(fitting)
          /\ Smallest(covering) \in ContextBuckets /\ context <= Smallest(covering)
      BY <1>1, <1>2, <1>3, <1>4, <3>2, <3>3 DEF AtLeast
    <3>5. g \in Buckets /\ g[1] = Smallest(fitting) /\ g[2] = Smallest(covering)
      BY <3>4 DEF Buckets
    <3> HIDE DEF g, fitting, covering
    <3>6. \A i \in DOMAIN batch : batch[i].consumed + 1 <= g[2]
      <4>1. Smallest(covering) \in Nat
        BY <1>2, <3>4
      <4>2. \A i \in DOMAIN batch : batch[i].consumed \in Nat
        BY <1>1
      <4> QED
        BY <3>2, <3>4, <3>5, <4>1, <4>2
    <3>7. Executes(batch, {g})
      BY <3>1, <3>4, <3>5, <3>6 DEF Executes
    <3> QED
      BY <1>7, <3>1, <3>3, <3>5, <3>7 DEF StepOK, g, fitting, covering, context
  <2> QED
    BY <2>1, <2>2
<1> QED
  BY <1>6, <1>7

\* What fits stays so: a batch is not changed once it was called with.
LEMMA FitsKept ==
    ASSUME decode' = decode, NEW c, calls'[c] = calls[c]
    PROVE  Fits(calls[c])' <=> Fits(calls[c])
BY DEF Fits, BindingsOK, PagesNeeded, Largest

----------------------------------------------------------------------------
\* A rank that a step leaves alone is as far in its start as it was.
LEMMA StartedKept ==
    ASSUME GroupInv, NEW r \in Ranks, decode' = decode,
           thread'[r] = thread[r], stage'[r] = stage[r], graphs'[r] = graphs[r], device'[r] = device[r]
    PROVE  Started(r)'
BY DEF GroupInv, Started

\* The start of a rank, and its end, concern no call.
LEMMA CallsKept ==
    ASSUME GroupInv, decode' = decode, mailbox' = mailbox, ran' = ran, group' = group, at' = at,
           calls' = calls, replies' = replies, results' = results
    PROVE  Owed' /\ Answered' /\ \A r \in Ranks : InOrder(r)'
<1>1. \A c : Fits(calls[c])' <=> Fits(calls[c])
  BY FitsKept
<1>2. \A r : Reply(r)' = Reply(r)
  BY DEF Reply
<1>3. Owed' /\ \A r \in Ranks : InOrder(r)'
  BY DEF GroupInv, Owed, InOrder
<1>4. Answered'
  BY <1>1, <1>2 DEF GroupInv, Answered
<1> QED
  BY <1>3, <1>4

\* A start-up that fails ends its rank.
LEMMA StartFailsInv ==
    ASSUME GroupInv, NEW r \in Ranks, StartFails(r), decode' = decode
    PROVE  GroupInv'
<1>1. Owed' /\ Answered' /\ \A q \in Ranks : InOrder(q)'
  BY CallsKept DEF StartFails
<1>2. GroupTyped'
  BY DEF GroupInv, GroupTyped, StartFails, BackendClose
<1>3. ASSUME NEW q \in Ranks
      PROVE  Started(q)'
  <2>1. CASE q = r
    BY <2>1 DEF GroupInv, GroupTyped, StartFails, Started
  <2>2. CASE q # r
    <3>1. thread'[q] = thread[q] /\ stage'[q] = stage[q] /\ graphs'[q] = graphs[q] /\ device'[q] = device[q]
      BY <2>2 DEF GroupInv, GroupTyped, StartFails
    <3> QED
      BY <3>1, StartedKept
  <2> QED
    BY <2>1, <2>2
<1> QED
  BY <1>1, <1>2, <1>3 DEF GroupInv

\* Graphs are captured one bucket after the other until none is missing.
LEMMA StartStageInv ==
    ASSUME GroupInv, NEW r \in Ranks, StartStage(r), decode' = decode
    PROVE  GroupInv'
<1>1. Owed' /\ Answered' /\ \A q \in Ranks : InOrder(q)'
  BY CallsKept DEF StartStage
<1>2. /\ thread[r] = "starting" /\ thread' = thread /\ stage[r] # "Ready"
      /\ stage[r] \in {"Validate", "Compile", "Prepare", "Warmup", "Capture", "ValidateReplay", "Reset", "Ready"}
      /\ graphs[r] \subseteq device[r] /\ graphs[r] \subseteq Buckets /\ device[r] \subseteq Buckets \cup {Buffer}
      /\ stage[r] = "Capture" => graphs[r] # Buckets
      /\ stage[r] = "Reset" /\ decode => graphs[r] = Buckets
  BY DEF GroupInv, GroupTyped, Started, StartStage
<1>3. /\ stage' = [stage EXCEPT ![r] = StageAfter(stage[r], graphs'[r])]
      /\ \A q \in Ranks : q # r => graphs'[q] = graphs[q] /\ device'[q] = device[q]
      /\ graphs' = [q \in Ranks |-> graphs'[q]] /\ device' = [q \in Ranks |-> device'[q]]
  BY DEF GroupInv, GroupTyped, StartStage
<1>4. Buffer \notin Buckets
  BY GroupAssumption DEF Buffer, Buckets
<1>5. /\ graphs'[r] \subseteq device'[r] /\ graphs'[r] \subseteq Buckets
      /\ device'[r] \subseteq Buckets \cup {Buffer}
      /\ stage[r] \notin {"ValidateReplay"} => graphs'[r] = graphs[r]
  <2>1. CASE stage[r] = "Prepare"
    BY <1>2, <2>1 DEF StartStage, Allocated, GroupInv, GroupTyped
  <2>2. CASE stage[r] = "Capture"
    <3>1. (CHOOSE b \in Buckets \ graphs[r] : TRUE) \in Buckets
      BY <1>2, <2>2
    <3>2. graphs' = graphs /\ device'[r] = device[r] \cup {CHOOSE b \in Buckets \ graphs[r] : TRUE}
      BY <2>2 DEF StartStage, Captured, GroupInv, GroupTyped
    <3> QED
      BY <1>2, <3>1, <3>2
  <2>3. CASE stage[r] = "ValidateReplay"
    <3>1. device' = device /\ graphs'[r] = device[r] \ {Buffer}
      BY <2>3 DEF StartStage, Validated, GroupInv, GroupTyped
    <3> QED
      BY <1>2, <2>3, <3>1
  <2>4. CASE stage[r] \notin {"Prepare", "Capture", "ValidateReplay"}
    BY <1>2, <2>4 DEF StartStage
  <2> QED
    BY <2>1, <2>2, <2>3, <2>4
<1>6. stage'[r] = StageAfter(stage[r], graphs'[r])
  BY <1>3 DEF GroupInv, GroupTyped
<1>7. /\ stage'[r] \in {"Validate", "Compile", "Prepare", "Warmup", "Capture", "ValidateReplay", "Reset", "Ready"}
      /\ stage'[r] = "Capture" => graphs'[r] # Buckets
      /\ stage'[r] \in {"Reset", "Ready"} /\ decode => graphs'[r] = Buckets
  BY <1>2, <1>5, <1>6 DEF StageAfter
<1>8. GroupTyped'
  <2>1. graphs' \in [Ranks -> SUBSET Buckets] /\ device' \in [Ranks -> SUBSET (Buckets \cup {Buffer})]
    BY <1>3, <1>5 DEF GroupInv, GroupTyped
  <2> QED
    BY <1>2, <1>3, <2>1 DEF GroupInv, GroupTyped, StartStage
<1>9. ASSUME NEW q \in Ranks
      PROVE  Started(q)'
  <2>1. CASE q = r
    BY <1>2, <1>5, <1>7, <2>1 DEF Started
  <2>2. CASE q # r
    <3>1. stage'[q] = stage[q]
      BY <1>3, <2>2 DEF GroupInv, GroupTyped
    <3> QED
      BY <1>2, <1>3, <2>2, <3>1, StartedKept
  <2> QED
    BY <2>1, <2>2
<1> QED
  BY <1>1, <1>8, <1>9 DEF GroupInv

\* A rank that is ready tells the group.
LEMMA StartReadyInv ==
    ASSUME GroupInv, NEW r \in Ranks, StartReady(r), decode' = decode
    PROVE  GroupInv'
<1>1. Owed' /\ Answered' /\ \A q \in Ranks : InOrder(q)'
  BY CallsKept DEF StartReady
<1>2. GroupTyped'
  BY DEF GroupInv, GroupTyped, StartReady
<1>3. ASSUME NEW q \in Ranks
      PROVE  Started(q)'
  BY DEF GroupInv, GroupTyped, StartReady, Started
<1> QED
  BY <1>1, <1>2, <1>3 DEF GroupInv

\* A rank runs the call after those it ran, and its reply says whether that fits.
LEMMA ServeInv ==
    ASSUME GroupInv, NEW r \in Ranks, Serve(r), decode' = decode
    PROVE  GroupInv'
<1> DEFINE box == mailbox[r]
           call == Head(box).call
           stepped == [call |-> call, rank |-> r, ok |-> StepOK(r, calls[call])]
<1>1. /\ thread[r] = "serving" /\ box # << >> /\ Head(box).kind = "Step"
      /\ mailbox' = [mailbox EXCEPT ![r] = Tail(box)]
      /\ ran' = [ran EXCEPT ![r] = Append(@, call)]
      /\ replies' = replies \cup {stepped}
      /\ thread' = thread /\ stage' = stage /\ graphs' = graphs /\ device' = device
      /\ group' = group /\ at' = at /\ calls' = calls /\ results' = results
  BY DEF Serve
<1>2. /\ GroupTyped /\ Owed /\ Answered /\ \A q \in Ranks : Started(q) /\ InOrder(q)
      /\ box \in Seq(Commands) /\ ran[r] \in Seq(Nat) /\ calls \in Seq(Batches)
      /\ \A q \in Ranks : ran[q] \in Seq(Nat) /\ Len(ran[q]) \in Nat
  BY DEF GroupInv, GroupTyped
<1>3. /\ Len(box) \in Nat \ {0} /\ Head(box) = box[1] /\ Tail(box) \in Seq(Commands)
      /\ Len(Tail(box)) = Len(box) - 1 /\ \A i \in 1 .. Len(Tail(box)) : Tail(box)[i] = box[i + 1]
  BY <1>1, <1>2
<1>4. call = Len(ran[r]) + 1 /\ call \in 1 .. Len(calls) /\ call \in Nat
  <2>1. 1 \in 1 .. Len(box) /\ Len(ran[r]) \in Nat /\ Len(calls) \in Nat
    BY <1>2, <1>3
  <2>2. box[1].call = Len(ran[r]) + 1 /\ Len(ran[r]) + 1 <= Len(calls)
    BY <1>1, <1>2, <1>3, <2>1 DEF InOrder
  <2> QED
    BY <1>3, <2>1, <2>2
<1>5. StepOK(r, calls[call]) <=> Fits(calls[call])
  <2>1. calls[call] \in Batches
    BY <1>2, <1>4
  <2>2. decode \in BOOLEAN /\ (decode => graphs[r] = Buckets /\ Buckets \subseteq device[r])
    BY <1>1, <1>2 DEF Started, GroupTyped
  <2> QED
    BY <2>1, <2>2, ReadyFits
<1> HIDE DEF box, call
<1>6. /\ stepped.call = call /\ stepped.rank = r /\ (stepped.ok <=> Fits(calls[call]))
      /\ stepped \in Steps
  <2>1. StepOK(r, calls[call]) \in BOOLEAN
    BY DEF StepOK
  <2> QED
    BY <1>4, <1>5, <2>1 DEF Steps
<1> HIDE DEF stepped
<1>7. /\ ran'[r] = Append(ran[r], call) /\ mailbox'[r] = Tail(box)
      /\ \A q \in Ranks : q # r => ran'[q] = ran[q] /\ mailbox'[q] = mailbox[q]
      /\ Len(ran'[r]) = Len(ran[r]) + 1 /\ Append(ran[r], call) \in Seq(Nat)
      /\ \A i \in 1 .. Len(ran[r]) : ran'[r][i] = ran[r][i]
      /\ ran'[r][Len(ran[r]) + 1] = call
  BY <1>1, <1>2, <1>4 DEF GroupTyped, box
<1>lengths. /\ Len(ran[r]) \in Nat /\ Len(box) \in Nat
            /\ Len(ran'[r]) = Len(ran[r]) + 1 /\ Len(mailbox'[r]) = Len(box) - 1
            /\ \A q \in Ranks : q # r =>
                  Len(ran'[q]) = Len(ran[q]) /\ Len(mailbox'[q]) = Len(mailbox[q])
  BY <1>2, <1>3, <1>7
<1>8. GroupTyped'
  BY <1>1, <1>2, <1>3, <1>6, <1>7 DEF GroupTyped
<1>9. ASSUME NEW q \in Ranks
      PROVE  Started(q)'
  BY <1>1, StartedKept
<1>10. ASSUME NEW q \in Ranks
       PROVE  InOrder(q)'
  <2>1. CASE q # r
    BY <1>1, <1>2, <1>7, <2>1 DEF InOrder
  <2>2. CASE q = r
    <3>1. \A i \in 1 .. Len(ran'[r]) : ran'[r][i] = i
      <4> SUFFICES ASSUME NEW i \in 1 .. Len(ran'[r]) PROVE ran'[r][i] = i
        OBVIOUS
      <4>1. CASE i = Len(ran[r]) + 1
        BY <1>4, <1>7, <4>1
      <4>2. CASE i # Len(ran[r]) + 1
        <5>1. i \in 1 .. Len(ran[r])
          BY <1>2, <1>7, <4>2
        <5> QED
          BY <1>2, <1>7, <5>1 DEF InOrder
      <4> QED
        BY <4>1, <4>2
    <3>2. ASSUME NEW i \in 1 .. Len(Tail(box)), Tail(box)[i].kind = "Step"
          PROVE  Tail(box)[i].call = Len(ran'[r]) + i /\ Len(ran'[r]) + i <= Len(calls)
      <4>1. i + 1 \in 1 .. Len(box) /\ Tail(box)[i] = box[i + 1] /\ i \in Nat /\ Len(ran[r]) \in Nat
        BY <1>2, <1>3
      <4>2. box[i + 1].call = Len(ran[r]) + (i + 1) /\ Len(ran[r]) + (i + 1) <= Len(calls)
        BY <1>2, <3>2, <4>1 DEF InOrder, box
      <4>3. Len(ran[r]) + (i + 1) = Len(ran'[r]) + i
        <5> DEFINE a == Len(ran[r])
                   b == Len(ran'[r])
        <5>1. a \in Nat /\ b = a + 1 /\ i \in Nat
          BY <1>lengths, <4>1
        <5> HIDE DEF a, b
        <5>2. a + (i + 1) = b + i
          BY <5>1
        <5> QED
          BY <5>2 DEF a, b
      <4> QED
        BY <4>1, <4>2, <4>3
    <3>3. mailbox'[q] = Tail(box) /\ ran'[q] = ran'[r] /\ calls' = calls
      BY <1>1, <1>7, <2>2
    <3> HIDE DEF InOrder
    <3>4. ASSUME NEW i \in 1 .. Len(mailbox'[q]), mailbox'[q][i].kind = "Step"
          PROVE  mailbox'[q][i].call = Len(ran'[q]) + i /\ Len(ran'[q]) + i <= Len(calls')
      BY <3>2, <3>3, <3>4
    <3>5. \A i \in 1 .. Len(ran'[q]) : ran'[q][i] = i
      BY <3>1, <3>3
    <3> QED
      BY <3>4, <3>5 DEF InOrder
  <2> QED
    BY <2>1, <2>2
<1>11. Owed'
  <2>1. \A q \in Ranks : Len(ran'[q]) + Len(mailbox'[q]) = Len(ran[q]) + Len(mailbox[q])
    <3> SUFFICES ASSUME NEW q \in Ranks
                 PROVE  Len(ran'[q]) + Len(mailbox'[q]) = Len(ran[q]) + Len(mailbox[q])
      OBVIOUS
    <3>1. CASE q = r
      <4> DEFINE a == Len(ran[r])
                 b == Len(ran'[r])
                 c == Len(mailbox[r])
                 d == Len(mailbox'[r])
      <4>1. a \in Nat /\ c \in Nat /\ b = a + 1 /\ d = c - 1
        BY <1>lengths DEF box
      <4> HIDE DEF a, b, c, d
      <4>2. b + d = a + c
        BY <4>1
      <4> QED
        BY <3>1, <4>2 DEF a, b, c, d
    <3>2. CASE q # r
      BY <1>lengths, <3>2
    <3> QED
      BY <3>1, <3>2
  <2>2. group \in {"spawning", "idle", "sending", "collecting"} =>
            \A q \in Ranks : \A i \in 1 .. Len(mailbox'[q]) : mailbox'[q][i].kind = "Step"
    <3> SUFFICES ASSUME group \in {"spawning", "idle", "sending", "collecting"},
                        NEW q \in Ranks, NEW i \in 1 .. Len(mailbox'[q])
                 PROVE  mailbox'[q][i].kind = "Step"
      OBVIOUS
    <3>1. CASE q = r
      <4>1. i + 1 \in 1 .. Len(box) /\ mailbox'[q][i] = box[i + 1]
        <5> DEFINE a == Len(box)
                   b == Len(Tail(box))
        <5>1. mailbox'[q] = Tail(box)
          BY <1>7, <3>1
        <5>2. mailbox'[q][i] = box[i + 1]
          BY <1>3, <5>1
        <5>3. a \in Nat /\ b = a - 1 /\ i \in 1 .. b
          BY <1>3, <5>1
        <5> HIDE DEF a, b
        <5>4. i + 1 \in 1 .. a
          BY <5>3
        <5> QED
          BY <5>2, <5>4 DEF a
      <4>2. \A k \in 1 .. Len(mailbox[r]) : mailbox[r][k].kind = "Step"
        BY <1>1, <1>2 DEF Owed
      <4>3. box[i + 1].kind = "Step"
        BY <4>1, <4>2 DEF box
      <4> QED
        BY <4>1, <4>3
    <3>2. CASE q # r
      BY <1>2, <1>7, <3>2 DEF Owed
    <3> QED
      BY <3>1, <3>2
  <2> QED
    BY <1>1, <1>2, <2>1, <2>2 DEF Owed
<1>12. Answered'
  <2>1. \A c : Fits(calls[c])' <=> Fits(calls[c])
    BY <1>1, FitsKept
  <2>2. \A q \in Ranks : Len(ran[q]) <= Len(ran'[q]) /\ Len(ran'[q]) \in Nat
    BY <1>2, <1>lengths
  <2>3. \A q : Reply(q) \subseteq Reply(q)'
    BY <1>1 DEF Reply
  <2>4. ASSUME NEW m \in replies'
        PROVE  m.call \in 1 .. Len(ran'[m.rank]) /\ m.call <= Len(calls) /\ (m.ok <=> Fits(calls[m.call]))
    <3>1. CASE m = stepped
      BY <1>4, <1>6, <1>lengths, <3>1
    <3>2. CASE m \in replies
      <4>1. m.rank \in Ranks /\ m.call \in Nat
        BY <1>2, <3>2 DEF GroupTyped, Steps
      <4>2. m.call \in 1 .. Len(ran[m.rank]) /\ m.call <= Len(calls) /\ (m.ok <=> Fits(calls[m.call]))
        BY <1>2, <3>2 DEF Answered
      <4>3. m.call \in 1 .. Len(ran'[m.rank])
        BY <1>2, <2>2, <4>1, <4>2
      <4> QED
        BY <4>2, <4>3
    <3> QED
      BY <1>1, <3>1, <3>2
  <2>5. \A c \in 1 .. Len(results) : results[c] => \A q \in Ranks : c <= Len(ran'[q])
    <3>1. \A c \in 1 .. Len(results) : c \in Int
      OBVIOUS
    <3> QED
      BY <1>2, <2>2, <3>1 DEF Answered
  <2> QED
    BY <1>1, <1>2, <2>1, <2>3, <2>4, <2>5 DEF Answered
<1> QED
  BY <1>8, <1>9, <1>10, <1>11, <1>12 DEF GroupInv

\* A rank stops when the group is being dropped.
LEMMA ServeStopInv ==
    ASSUME GroupInv, NEW r \in Ranks, ServeStop(r), decode' = decode
    PROVE  GroupInv'
<1>1. /\ thread[r] = "serving" /\ mailbox[r] # << >> /\ Head(mailbox[r]).kind = "Stop"
      /\ mailbox' = [mailbox EXCEPT ![r] = << >>] /\ thread' = [thread EXCEPT ![r] = "ended"]
      /\ \E s \in {"Closed", "Ready"} : stage' = [stage EXCEPT ![r] = s]
      /\ device' = [device EXCEPT ![r] = {}] /\ graphs' = [graphs EXCEPT ![r] = {}]
      /\ ran' = ran /\ group' = group /\ at' = at /\ calls' = calls /\ replies' = replies
      /\ results' = results
  BY DEF ServeStop, CloseRuntime, BackendClose
<1>2. /\ GroupTyped /\ Owed /\ Answered /\ \A q \in Ranks : Started(q) /\ InOrder(q)
      /\ mailbox[r] \in Seq(Commands)
  BY DEF GroupInv, GroupTyped
<1>3. group \notin {"spawning", "idle", "sending", "collecting"}
  <2>1. 1 \in 1 .. Len(mailbox[r]) /\ Head(mailbox[r]) = mailbox[r][1]
    BY <1>1, <1>2
  <2>2. mailbox[r][1].kind # "Step"
    BY <1>1, <2>1
  <2> QED
    BY <1>2, <2>1, <2>2 DEF Owed
<1>4. GroupTyped'
  <2>1. << >> \in Seq(Commands)
    OBVIOUS
  <2>2. mailbox' \in [Ranks -> Seq(Commands)]
    BY <1>1, <1>2, <2>1 DEF GroupTyped
  <2>3. /\ thread' \in [Ranks -> {"unborn", "starting", "serving", "ended"}]
        /\ stage' = [q \in Ranks |-> stage'[q]]
    BY <1>1, <1>2 DEF GroupTyped
  <2>4. graphs' \in [Ranks -> SUBSET Buckets] /\ device' \in [Ranks -> SUBSET (Buckets \cup {Buffer})]
    BY <1>1, <1>2 DEF GroupTyped
  <2> QED
    BY <1>1, <1>2, <2>2, <2>3, <2>4 DEF GroupTyped
<1>5. ASSUME NEW q \in Ranks
      PROVE  Started(q)'
  <2>1. CASE q = r
    <3>1. thread'[q] = "ended"
      BY <1>1, <1>2, <2>1 DEF GroupTyped
    <3> QED
      BY <3>1 DEF Started
  <2>2. CASE q # r
    <3>1. thread'[q] = thread[q] /\ stage'[q] = stage[q] /\ graphs'[q] = graphs[q] /\ device'[q] = device[q]
      BY <1>1, <1>2, <2>2 DEF GroupTyped
    <3> QED
      BY <3>1, StartedKept
  <2> QED
    BY <2>1, <2>2
<1>6. ASSUME NEW q \in Ranks
      PROVE  InOrder(q)'
  <2>1. CASE q = r
    <3>1. mailbox'[q] = << >> /\ Len(<< >>) = 0
      BY <1>1, <1>2, <2>1 DEF GroupTyped
    <3> QED
      BY <1>1, <1>2, <3>1 DEF InOrder
  <2>2. CASE q # r
    <3>1. mailbox'[q] = mailbox[q]
      BY <1>1, <1>2, <2>2 DEF GroupTyped
    <3> QED
      BY <1>1, <1>2, <3>1 DEF InOrder
  <2> QED
    BY <2>1, <2>2
<1>7. Owed'
  BY <1>1, <1>2, <1>3 DEF Owed
<1>8. Answered'
  <2>1. \A c : Fits(calls[c])' <=> Fits(calls[c])
    BY <1>1, FitsKept
  <2>2. \A q : Reply(q)' = Reply(q)
    BY <1>1 DEF Reply
  <2> QED
    BY <1>1, <1>2, <2>1, <2>2 DEF Answered
<1> QED
  BY <1>4, <1>5, <1>6, <1>7, <1>8 DEF GroupInv

\* The owner leaves what the ranks did to them; what it adds to their channels, the
\* calls and the results is shown step by step.
LEMMA SpawnInv ==
    ASSUME GroupInv, Spawn, decode' = decode
    PROVE  GroupInv'
<1>1. Owed' /\ Answered' /\ \A q \in Ranks : InOrder(q)'
  BY CallsKept DEF Spawn
<1>2. GroupTyped'
  BY DEF GroupInv, GroupTyped, Spawn
<1>3. ASSUME NEW q \in Ranks
      PROVE  Started(q)'
  <2>1. CASE q = at
    <3>1. /\ thread'[q] = "starting" /\ stage'[q] = "Validate" /\ graphs'[q] = {} /\ device'[q] = {}
      BY <2>1 DEF GroupInv, GroupTyped, Spawn, Started
    <3> QED
      BY <3>1 DEF Started
  <2>2. CASE q # at
    <3>1. thread'[q] = thread[q] /\ stage'[q] = stage[q] /\ graphs'[q] = graphs[q] /\ device'[q] = device[q]
      BY <2>2 DEF GroupInv, GroupTyped, Spawn
    <3> QED
      BY <3>1, StartedKept
  <2> QED
    BY <2>1, <2>2
<1> QED
  BY <1>1, <1>2, <1>3 DEF GroupInv

\* A step that only moves the owner on, away from its calls.
LEMMA OwnerMoves ==
    ASSUME GroupInv, UNCHANGED workerVars, calls' = calls, results' = results,
           group' \in {"spawning", "idle", "dropping", "joining", "done"}, at' \in Ranks,
           group \notin {"sending", "collecting"},
           group' \in {"spawning", "idle"} => group \in {"spawning", "idle"},
           group' = "spawning" => group = "spawning"
    PROVE  GroupInv'
<1>1. /\ decode' = decode /\ thread' = thread /\ stage' = stage /\ graphs' = graphs
      /\ device' = device /\ mailbox' = mailbox /\ ran' = ran /\ replies' = replies
  BY DEF workerVars
<1>2. GroupTyped /\ Owed /\ Answered /\ \A q \in Ranks : Started(q) /\ InOrder(q)
  BY DEF GroupInv
<1>3. GroupTyped'
  BY <1>1, <1>2 DEF GroupTyped
<1>4. \A q \in Ranks : Started(q)' /\ InOrder(q)'
  BY <1>1, <1>2 DEF Started, InOrder
<1>5. Owed'
  BY <1>1, <1>2 DEF Owed
<1>6. Answered'
  <2>1. \A c : Fits(calls[c])' <=> Fits(calls[c])
    BY <1>1, FitsKept
  <2> QED
    BY <1>1, <1>2, <2>1 DEF Answered
<1> QED
  BY <1>3, <1>4, <1>5, <1>6 DEF GroupInv

\* The group waits until every rank is ready or one has failed.
LEMMA AwaitReadyInv ==
    ASSUME GroupInv, AwaitReady, decode' = decode
    PROVE  GroupInv'
<1>1. UNCHANGED workerVars /\ calls' = calls /\ results' = results /\ group = "spawning"
  BY DEF AwaitReady
<1>2. group' \in {"spawning", "idle", "dropping"} /\ at' \in Ranks
  BY <1>1, RankOrder DEF AwaitReady, Dropping, GroupInv, GroupTyped
<1> QED
  BY <1>1, <1>2, OwnerMoves

\* The owner calls step.
LEMMA CallStepInv ==
    ASSUME GroupInv, NEW batch \in Batches, CallStep(batch)
    PROVE  GroupInv'
<1>1. /\ decode' = decode /\ thread' = thread /\ stage' = stage /\ graphs' = graphs
      /\ device' = device /\ mailbox' = mailbox /\ ran' = ran /\ replies' = replies
      /\ results' = results /\ group = "idle" /\ group' = "sending" /\ at' = 1
      /\ calls' = Append(calls, batch)
  BY DEF CallStep, workerVars
<1>2. /\ GroupTyped /\ Owed /\ Answered /\ \A q \in Ranks : Started(q) /\ InOrder(q)
      /\ calls \in Seq(Batches) /\ Len(calls) \in Nat /\ Len(results) \in Nat
      /\ \A q \in Ranks : Len(ran[q]) \in Nat
  BY DEF GroupInv, GroupTyped
<1>3. /\ Len(calls') = Len(calls) + 1 /\ calls' \in Seq(Batches)
      /\ \A c \in 1 .. Len(calls) : calls'[c] = calls[c]
  BY <1>1, <1>2
<1>4. Len(calls) = Len(results) /\ Len(calls') = Len(results) + 1
  BY <1>1, <1>2, <1>3 DEF Owed
<1>5. GroupTyped'
  BY <1>1, <1>2, <1>3, RankOrder DEF GroupTyped
<1>6. \A q \in Ranks : Started(q)'
  BY <1>1, StartedKept
<1>7. ASSUME NEW q \in Ranks
      PROVE  InOrder(q)'
  <2>1. ASSUME NEW i \in 1 .. Len(mailbox[q]), mailbox[q][i].kind = "Step"
        PROVE  mailbox[q][i].call = Len(ran[q]) + i /\ Len(ran[q]) + i <= Len(calls')
    <3>1. mailbox[q][i].call = Len(ran[q]) + i /\ Len(ran[q]) + i <= Len(calls)
      BY <1>2, <2>1 DEF InOrder
    <3>2. Len(ran[q]) + i \in Int
      BY <1>2
    <3>3. \A n \in Int : n <= Len(calls) => n <= Len(calls')
      BY <1>2, <1>4
    <3> QED
      BY <3>1, <3>2, <3>3
  <2> QED
    BY <1>1, <1>2, <2>1 DEF InOrder
<1>8. Owed'
  <2>1. \A q \in Ranks : ~(q < 1)
    BY RankOrder
  <2> QED
    BY <1>1, <1>2, <1>4, <2>1 DEF Owed
<1>9. Answered'
  <2>1. \A c \in 1 .. Len(calls) : Fits(calls[c])' <=> Fits(calls[c])
    BY <1>1, <1>3, FitsKept
  <2>2. ASSUME NEW m \in replies
        PROVE  /\ m.call \in 1 .. Len(ran[m.rank]) /\ m.call <= Len(calls')
               /\ m.ok <=> Fits(calls[m.call])'
    <3>1. /\ m.call \in 1 .. Len(ran[m.rank]) /\ m.call <= Len(calls)
          /\ m.ok <=> Fits(calls[m.call])
      BY <1>2 DEF Answered
    <3>2. m.call \in 1 .. Len(calls) /\ m.call <= Len(calls')
      <4> DEFINE a == Len(calls)
                 b == Len(calls')
      <4>1. a \in Nat /\ b = a + 1 /\ m.call \in Int /\ m.call >= 1 /\ m.call <= a
        BY <1>2, <1>3, <3>1
      <4> HIDE DEF a, b
      <4>2. m.call \in 1 .. a /\ m.call <= b
        BY <4>1
      <4> QED
        BY <4>2 DEF a, b
    <3> QED
      BY <2>1, <3>1, <3>2
  <2>3. \A c \in 1 .. Len(results) :
          /\ results[c] <=> Fits(calls[c])'
          /\ results[c] => \A r \in Ranks : c <= Len(ran[r])
    BY <1>2, <1>4, <2>1 DEF Answered
  <2> QED
    BY <1>1, <2>2, <2>3 DEF Answered
<1> QED
  BY <1>5, <1>6, <1>7, <1>8, <1>9 DEF GroupInv

\* A command goes behind those of earlier calls.
LEMMA SendInv ==
    ASSUME GroupInv, Send, decode' = decode
    PROVE  GroupInv'
<1> DEFINE command == [kind |-> "Step", call |-> Len(calls)]
<1>1. /\ group = "sending" /\ mailbox' = [mailbox EXCEPT ![at] = Append(@, command)]
      /\ \/ at + 1 \in Ranks /\ at' = at + 1 /\ group' = group
         \/ at + 1 \notin Ranks /\ group' = "collecting" /\ at' = 1
      /\ thread' = thread /\ stage' = stage /\ graphs' = graphs /\ device' = device
      /\ ran' = ran /\ calls' = calls /\ replies' = replies /\ results' = results
  BY DEF Send
<1>2. /\ GroupTyped /\ Owed /\ Answered /\ \A q \in Ranks : Started(q) /\ InOrder(q)
      /\ at \in Ranks /\ Len(calls) \in Nat /\ Len(results) \in Nat
      /\ \A q \in Ranks : /\ Len(ran[q]) \in Nat /\ mailbox[q] \in Seq(Commands) /\ Len(mailbox[q]) \in Nat
  BY DEF GroupInv, GroupTyped
<1>3. command \in Commands /\ command.kind = "Step" /\ command.call = Len(calls)
  BY <1>2 DEF Commands
<1> HIDE DEF command
<1>4. /\ mailbox'[at] = Append(mailbox[at], command)
      /\ \A q \in Ranks : q # at => mailbox'[q] = mailbox[q]
      /\ Append(mailbox[at], command) \in Seq(Commands)
  BY <1>1, <1>2, <1>3 DEF GroupTyped
<1>5. /\ Len(mailbox'[at]) = Len(mailbox[at]) + 1
      /\ \A i \in 1 .. Len(mailbox[at]) : mailbox'[at][i] = mailbox[at][i]
      /\ mailbox'[at][Len(mailbox[at]) + 1] = command
  BY <1>2, <1>3, <1>4
<1>6. /\ Len(calls) = Len(results) + 1
      /\ \A q \in Ranks : Len(ran[q]) + Len(mailbox[q]) = IF q < at THEN Len(calls) ELSE Len(results)
  BY <1>1, <1>2 DEF Owed
<1>7. (Len(ran[at]) + Len(mailbox[at])) + 1 = Len(calls)
  <2>1. ~(at < at)
    BY <1>2, RankOrder
  <2> QED
    BY <1>2, <1>6, <2>1
<1>8. ASSUME NEW i \in 1 .. Len(mailbox'[at]), i \notin 1 .. Len(mailbox[at])
      PROVE  i = Len(mailbox[at]) + 1
  <2> DEFINE a == Len(mailbox[at])
             b == Len(mailbox'[at])
  <2>1. a \in Nat /\ b = a + 1 /\ i \in 1 .. b /\ i \notin 1 .. a
    BY <1>2, <1>5, <1>8
  <2> HIDE DEF a, b
  <2>2. i = a + 1
    BY <2>1
  <2> QED
    BY <2>2 DEF a
<1>9. GroupTyped'
  BY <1>1, <1>2, <1>4, RankOrder DEF GroupTyped
<1>10. \A q \in Ranks : Started(q)'
  BY <1>1, StartedKept
<1>11. ASSUME NEW q \in Ranks
       PROVE  InOrder(q)'
  <2>1. CASE q # at
    BY <1>1, <1>2, <1>4, <2>1 DEF InOrder
  <2>2. CASE q = at
    <3>1. ASSUME NEW i \in 1 .. Len(mailbox'[at]), mailbox'[at][i].kind = "Step"
          PROVE  mailbox'[at][i].call = Len(ran[at]) + i /\ Len(ran[at]) + i <= Len(calls)
      <4>1. CASE i \in 1 .. Len(mailbox[at])
        BY <1>2, <1>5, <3>1, <4>1 DEF InOrder
      <4>2. CASE i \notin 1 .. Len(mailbox[at])
        <5>1. i = Len(mailbox[at]) + 1
          BY <1>8, <4>2
        <5>2. Len(ran[at]) + (Len(mailbox[at]) + 1) = Len(calls)
          <6> DEFINE a == Len(ran[at])
                     b == Len(mailbox[at])
                     n == Len(calls)
          <6>1. a \in Nat /\ b \in Nat /\ n \in Nat /\ (a + b) + 1 = n
            BY <1>2, <1>7
          <6> HIDE DEF a, b, n
          <6>2. a + (b + 1) = n
            BY <6>1
          <6> QED
            BY <6>2 DEF a, b, n
        <5>3. mailbox'[at][i].call = Len(calls) /\ Len(ran[at]) + i = Len(calls)
          BY <1>3, <1>5, <5>1, <5>2
        <5> QED
          BY <1>2, <5>3
      <4> QED
        BY <4>1, <4>2
    <3> QED
      BY <1>1, <1>2, <2>2, <3>1 DEF InOrder
  <2> QED
    BY <2>1, <2>2
<1>12. Owed'
  <2>1. \A q \in Ranks : \A i \in 1 .. Len(mailbox'[q]) : mailbox'[q][i].kind = "Step"
    <3> SUFFICES ASSUME NEW q \in Ranks, NEW i \in 1 .. Len(mailbox'[q])
                 PROVE  mailbox'[q][i].kind = "Step"
      OBVIOUS
    <3>1. CASE q # at
      BY <1>1, <1>2, <1>4, <3>1 DEF Owed
    <3>2. CASE q = at /\ i \in 1 .. Len(mailbox[at])
      BY <1>1, <1>2, <1>5, <3>2 DEF Owed
    <3>3. CASE q = at /\ i \notin 1 .. Len(mailbox[at])
      BY <1>3, <1>5, <1>8, <3>3
    <3> QED
      BY <3>1, <3>2, <3>3
  <2>2. Len(ran[at]) + Len(mailbox'[at]) = Len(calls)
    <3> DEFINE a == Len(ran[at])
               b == Len(mailbox[at])
               c == Len(mailbox'[at])
               n == Len(calls)
    <3>1. a \in Nat /\ b \in Nat /\ n \in Nat /\ c = b + 1 /\ (a + b) + 1 = n
      BY <1>2, <1>5, <1>7
    <3> HIDE DEF a, b, c, n
    <3>2. a + c = n
      BY <3>1
    <3> QED
      BY <3>2 DEF a, c, n
  <2>3. \A q \in Ranks : q < at => Len(ran[q]) + Len(mailbox'[q]) = Len(calls)
    <3> SUFFICES ASSUME NEW q \in Ranks, q < at
                 PROVE  Len(ran[q]) + Len(mailbox'[q]) = Len(calls)
      OBVIOUS
    <3>1. q # at
      BY <1>2, RankOrder
    <3>2. mailbox'[q] = mailbox[q]
      BY <1>2, <1>4, <3>1
    <3>3. Len(ran[q]) + Len(mailbox[q]) = Len(calls)
      BY <1>6
    <3> QED
      BY <3>2, <3>3
  <2>4. \A q \in Ranks : ~(q < at) /\ q # at => Len(ran[q]) + Len(mailbox'[q]) = Len(results)
    BY <1>2, <1>4, <1>6
  <2>5. CASE at + 1 \in Ranks /\ at' = at + 1 /\ group' = group
    <3>1. \A q \in Ranks : q < at' <=> q < at \/ q = at
      BY <1>2, <2>5, RankOrder
    <3>2. \A q \in Ranks : Len(ran[q]) + Len(mailbox'[q]) = IF q < at' THEN Len(calls) ELSE Len(results)
      BY <2>2, <2>3, <2>4, <3>1
    <3> QED
      BY <1>1, <1>6, <2>1, <2>5, <3>2 DEF Owed
  <2>6. CASE at + 1 \notin Ranks /\ group' = "collecting" /\ at' = 1
    <3>1. \A q \in Ranks : q < at \/ q = at
      BY <1>2, <2>6, RankOrder
    <3>2. \A q \in Ranks : Len(ran[q]) + Len(mailbox'[q]) = Len(calls)
      BY <2>2, <2>3, <3>1
    <3> QED
      BY <1>1, <1>6, <2>1, <2>6, <3>2 DEF Owed
  <2> QED
    BY <1>1, <2>5, <2>6
<1>13. Answered'
  <2>1. \A c : Fits(calls[c])' <=> Fits(calls[c])
    BY <1>1, FitsKept
  <2>2. group' = "collecting" => \A q \in Ranks : ~(q < at')
    BY <1>1, RankOrder
  <2> QED
    BY <1>1, <1>2, <2>1, <2>2 DEF Answered
<1> QED
  BY <1>9, <1>10, <1>11, <1>12, <1>13 DEF GroupInv

\* The result of a call is that of all its replies, or of the first that failed.
LEMMA CollectInv ==
    ASSUME GroupInv, Collect, decode' = decode
    PROVE  GroupInv'
<1>1. /\ group = "collecting" /\ calls' = calls
      /\ thread' = thread /\ stage' = stage /\ graphs' = graphs /\ device' = device
      /\ mailbox' = mailbox /\ ran' = ran /\ replies' = replies
  BY DEF Collect, workerVars
<1>2. PICK m \in Reply(at) :
         \/ ~m.ok /\ Return(FALSE)
         \/ m.ok /\ at + 1 \in Ranks /\ at' = at + 1 /\ group' = group /\ results' = results
         \/ m.ok /\ at + 1 \notin Ranks /\ Return(TRUE)
  BY DEF Collect
<1>3. /\ GroupTyped /\ Owed /\ Answered /\ \A q \in Ranks : Started(q) /\ InOrder(q)
      /\ at \in Ranks /\ Len(calls) \in Nat /\ results \in Seq(BOOLEAN) /\ Len(results) \in Nat
      /\ \A q \in Ranks : Len(ran[q]) \in Nat
  BY DEF GroupInv, GroupTyped
<1>4. /\ m \in replies /\ m.rank = at /\ m.call = Len(calls)
      /\ m.call \in 1 .. Len(ran[at]) /\ (m.ok <=> Fits(calls[m.call]))
  BY <1>2, <1>3 DEF Reply, Answered
<1>5. \A q \in Ranks : q < at => \E n \in Reply(q) : n.ok
  BY <1>1, <1>3 DEF Answered
<1>6. Len(calls) = Len(results) + 1
  BY <1>1, <1>3 DEF Owed
<1>7. /\ \A q \in Ranks : Started(q)' /\ InOrder(q)'
      /\ \A c : Fits(calls[c])' <=> Fits(calls[c])
      /\ \A q : Reply(q)' = Reply(q)
  BY <1>1, <1>3, FitsKept DEF Started, InOrder, Reply
<1>8. CASE m.ok /\ at + 1 \in Ranks /\ at' = at + 1 /\ group' = group /\ results' = results
  <2>1. GroupTyped' /\ Owed'
    BY <1>1, <1>3, <1>8 DEF GroupTyped, Owed
  <2>2. \A q \in Ranks : q < at' => \E n \in Reply(q) : n.ok
    BY <1>2, <1>3, <1>5, <1>8, RankOrder
  <2>3. Answered'
    BY <1>1, <1>3, <1>7, <1>8, <2>2 DEF Answered
  <2> QED
    BY <1>7, <2>1, <2>3 DEF GroupInv
<1>9. ASSUME NEW ok \in BOOLEAN, Return(ok), ok <=> Fits(calls[Len(calls)]),
             ok => \A q \in Ranks : Len(calls) <= Len(ran[q])
      PROVE  GroupInv'
  <2>1. results' = Append(results, ok) /\ group' = "idle" /\ at' = 1
    BY <1>9 DEF Return
  <2>2. /\ results' \in Seq(BOOLEAN) /\ Len(results') = Len(results) + 1
        /\ \A c \in 1 .. Len(results) : results'[c] = results[c]
        /\ results'[Len(results) + 1] = ok
    BY <1>3, <1>9, <2>1
  <2>3. GroupTyped'
    BY <1>1, <1>3, <2>1, <2>2, RankOrder DEF GroupTyped
  <2>4. Len(calls) = Len(results')
    BY <1>6, <2>2
  <2>5. Owed'
    <3>1. /\ \A q \in Ranks : Len(ran'[q]) + Len(mailbox'[q]) = Len(calls')
          /\ \A q \in Ranks : \A i \in 1 .. Len(mailbox'[q]) : mailbox'[q][i].kind = "Step"
      BY <1>1, <1>3 DEF Owed
    <3>2. Len(calls') = Len(results') + 0
      BY <1>1, <1>3, <2>2, <2>4
    <3>3. group' \notin {"sending", "collecting", "spawning"}
      BY <2>1
    <3> QED
      BY <3>1, <3>2, <3>3 DEF Owed
  <2>6. ASSUME NEW c \in 1 .. Len(results')
        PROVE  /\ results'[c] <=> Fits(calls[c])'
               /\ results'[c] => \A q \in Ranks : c <= Len(ran[q])
    <3>1. CASE c \in 1 .. Len(results)
      BY <1>3, <1>7, <2>2, <3>1 DEF Answered
    <3>2. CASE c \notin 1 .. Len(results)
      <4>1. c = Len(results) + 1
        <5> DEFINE a == Len(results)
                   b == Len(results')
        <5>1. a \in Nat /\ b = a + 1 /\ c \in 1 .. b /\ c \notin 1 .. a
          BY <1>3, <2>2, <3>2
        <5> HIDE DEF a, b
        <5>2. c = a + 1
          BY <5>1
        <5> QED
          BY <5>2 DEF a
      <4>2. results'[c] = ok /\ c = Len(calls)
        BY <1>6, <2>2, <4>1
      <4> QED
        BY <1>7, <1>9, <4>2
    <3> QED
      BY <3>1, <3>2
  <2>7. Answered'
    BY <1>1, <1>3, <1>7, <2>1, <2>6 DEF Answered
  <2> QED
    BY <1>7, <2>3, <2>5, <2>7 DEF GroupInv
<1>10. CASE ~m.ok /\ Return(FALSE)
  BY <1>4, <1>9, <1>10
<1>11. CASE m.ok /\ at + 1 \notin Ranks /\ Return(TRUE)
  <2>1. ASSUME NEW q \in Ranks
        PROVE  Len(calls) <= Len(ran[q])
    <3>1. CASE q = at
      BY <1>3, <1>4, <3>1
    <3>2. CASE q < at
      <4>1. PICK n \in Reply(q) : n.ok
        BY <1>5, <3>2
      <4>2. n \in replies /\ n.rank = q /\ n.call = Len(calls)
        BY DEF Reply
      <4>3. n.call \in 1 .. Len(ran[q])
        BY <1>3, <4>2 DEF Answered
      <4> QED
        BY <1>3, <4>2, <4>3
    <3> QED
      BY <1>3, <1>11, <3>1, <3>2, RankOrder
  <2> QED
    BY <1>4, <1>9, <1>11, <2>1
<1> QED
  BY <1>2, <1>8, <1>10, <1>11

\* The group stops its ranks when it is dropped.
LEMMA DropSendInv ==
    ASSUME GroupInv, DropSend, decode' = decode
    PROVE  GroupInv'
<1>1. /\ group = "dropping" /\ group' \in {"dropping", "joining"} /\ at' \in Ranks
      /\ mailbox' = mailbox \/ mailbox' = [mailbox EXCEPT ![at] = Append(@, [kind |-> "Stop"])]
      /\ thread' = thread /\ stage' = stage /\ graphs' = graphs /\ device' = device
      /\ ran' = ran /\ calls' = calls /\ replies' = replies /\ results' = results
  BY RankOrder DEF DropSend, Spawned
<1>2. /\ GroupTyped /\ Owed /\ Answered /\ \A q \in Ranks : Started(q) /\ InOrder(q)
      /\ at \in Ranks /\ mailbox[at] \in Seq(Commands) /\ Len(mailbox[at]) \in Nat
  BY DEF GroupInv, GroupTyped
<1> DEFINE stop == [kind |-> "Stop"]
<1>3. stop \in Commands /\ stop.kind # "Step"
  BY DEF Commands
<1> HIDE DEF stop
<1>4. /\ Append(mailbox[at], stop) \in Seq(Commands)
      /\ Len(Append(mailbox[at], stop)) = Len(mailbox[at]) + 1
      /\ \A i \in 1 .. Len(mailbox[at]) : Append(mailbox[at], stop)[i] = mailbox[at][i]
      /\ Append(mailbox[at], stop)[Len(mailbox[at]) + 1] = stop
  BY <1>2, <1>3
<1>5. mailbox' = mailbox \/ mailbox' = [mailbox EXCEPT ![at] = Append(@, stop)]
  BY <1>1 DEF stop
<1>6. GroupTyped'
  BY <1>1, <1>2, <1>4, <1>5 DEF GroupTyped
<1>7. \A q \in Ranks : Started(q)'
  BY <1>1, StartedKept
<1>8. ASSUME NEW q \in Ranks
      PROVE  InOrder(q)'
  <2>1. CASE mailbox'[q] = mailbox[q]
    BY <1>1, <1>2, <2>1 DEF InOrder
  <2>2. CASE q = at /\ mailbox'[q] = Append(mailbox[at], stop)
    <3>1. ASSUME NEW i \in 1 .. Len(mailbox'[q]), mailbox'[q][i].kind = "Step"
          PROVE  i \in 1 .. Len(mailbox[q]) /\ mailbox'[q][i] = mailbox[q][i]
      <4>1. i # Len(mailbox[at]) + 1
        BY <1>3, <1>4, <2>2, <3>1
      <4>2. i \in 1 .. Len(mailbox[at]) + 1
        BY <1>4, <2>2
      <4>3. i \in 1 .. Len(mailbox[at])
        BY <1>2, <4>1, <4>2
      <4> QED
        BY <1>4, <2>2, <4>3
    <3> QED
      BY <1>1, <1>2, <3>1 DEF InOrder
  <2> QED
    BY <1>2, <1>5, <2>1, <2>2 DEF GroupTyped
<1>9. Owed'
  BY <1>1, <1>2 DEF Owed
<1>10. Answered'
  <2>1. \A c : Fits(calls[c])' <=> Fits(calls[c])
    BY <1>1, FitsKept
  <2> QED
    BY <1>1, <1>2, <2>1 DEF Answered
<1> QED
  BY <1>6, <1>7, <1>8, <1>9, <1>10 DEF GroupInv

\* A call of step answers for its batch and for every rank, and no rank skips or
\* repeats a call, also when earlier calls returned before all ranks had replied.
THEOREM StepsAreWholeGroup == GroupSpec => []StepIsWholeGroup
<1>1. GroupInit => GroupInv
  <2> SUFFICES ASSUME GroupInit PROVE GroupInv
    OBVIOUS
  <2>1. /\ decode \in BOOLEAN
        /\ thread = [r \in Ranks |-> "unborn"] /\ stage = [r \in Ranks |-> "Validate"]
        /\ graphs = [r \in Ranks |-> {}] /\ device = [r \in Ranks |-> {}]
        /\ mailbox = [r \in Ranks |-> << >>] /\ ran = [r \in Ranks |-> << >>]
        /\ group = "spawning" /\ at = 1 /\ calls = << >> /\ replies = {} /\ results = << >>
    BY DEF GroupInit
  <2>2. Len(<< >>) = 0 /\ << >> \in Seq(Commands) /\ << >> \in Seq(Nat) /\ << >> \in Seq(Batches)
        /\ << >> \in Seq(BOOLEAN)
    OBVIOUS
  <2>3. GroupTyped
    BY <2>1, <2>2, RankOrder DEF GroupTyped
  <2>4. \A r \in Ranks : Started(r) /\ InOrder(r)
    BY <2>1, <2>2 DEF Started, InOrder
  <2>5. Owed
    BY <2>1, <2>2 DEF Owed
  <2>6. Answered
    BY <2>1, <2>2 DEF Answered
  <2> QED
    BY <2>3, <2>4, <2>5, <2>6 DEF GroupInv
<1>2. GroupInv /\ [GroupNext]_groupVars => GroupInv'
  <2> SUFFICES ASSUME GroupInv, [GroupNext]_groupVars PROVE GroupInv'
    OBVIOUS
  <2>1. ASSUME NEW r \in Ranks, Worker(r)
        PROVE  GroupInv'
    BY <2>1, StartFailsInv, StartStageInv, StartReadyInv, ServeInv, ServeStopInv DEF Worker
  <2>2. CASE DropJoin
    <3>1. UNCHANGED workerVars /\ calls' = calls /\ results' = results /\ group = "joining"
      BY <2>2 DEF DropJoin
    <3>2. group' \in {"joining", "done"} /\ at' \in Ranks
      BY <2>2 DEF DropJoin, Spawned, GroupInv, GroupTyped
    <3> QED
      BY <3>1, <3>2, OwnerMoves
  <2>3. CASE Owner
    BY <2>2, <2>3, SpawnInv, AwaitReadyInv, SendInv, CollectInv, DropSendInv DEF Owner
  <2>4. ASSUME NEW batch \in Batches, CallStep(batch)
        PROVE  GroupInv'
    BY <2>4, CallStepInv
  <2>5. CASE DropGroup
    <3>1. /\ UNCHANGED workerVars /\ calls' = calls /\ results' = results
          /\ group = "idle" /\ group' = "dropping" /\ at' \in Ranks
      BY <2>5, RankOrder DEF DropGroup, Dropping
    <3> QED
      BY <3>1, OwnerMoves
  <2>6. CASE UNCHANGED groupVars
    <3>1. /\ decode' = decode /\ thread' = thread /\ stage' = stage /\ graphs' = graphs
          /\ device' = device /\ mailbox' = mailbox /\ ran' = ran /\ replies' = replies
          /\ calls' = calls /\ results' = results /\ group' = group /\ at' = at
      BY <2>6 DEF groupVars
    <3>2. Owed' /\ Answered' /\ \A r \in Ranks : InOrder(r)'
      BY <3>1, CallsKept
    <3>3. GroupTyped' /\ \A r \in Ranks : Started(r)'
      BY <3>1, StartedKept DEF GroupInv, GroupTyped
    <3> QED
      BY <3>2, <3>3 DEF GroupInv
  <2> QED
    BY <2>1, <2>3, <2>4, <2>5, <2>6 DEF GroupNext
<1>3. GroupInv => StepIsWholeGroup
  <2> SUFFICES ASSUME GroupInv PROVE StepIsWholeGroup
    OBVIOUS
  <2>1. /\ Answered /\ \A r \in Ranks : InOrder(r)
        /\ DOMAIN results = 1 .. Len(results) /\ \A c \in DOMAIN results : results[c] \in BOOLEAN
        /\ \A r \in Ranks : DOMAIN ran[r] = 1 .. Len(ran[r]) /\ Len(ran[r]) \in Nat
    BY DEF GroupInv, GroupTyped
  <2>2. ASSUME NEW c \in DOMAIN results
        PROVE  results[c] = Fits(calls[c])
    <3>1. results[c] <=> Fits(calls[c])
      BY <2>1 DEF Answered
    <3>2. Fits(calls[c]) \in BOOLEAN
      BY DEF Fits
    <3> QED
      BY <2>1, <3>1, <3>2
  <2>3. ASSUME NEW c \in DOMAIN results, results[c], NEW r \in Ranks
        PROVE  c \in {ran[r][i] : i \in DOMAIN ran[r]}
    <3>1. c \in 1 .. Len(ran[r])
      BY <2>1, <2>3 DEF Answered
    <3>2. ran[r][c] = c
      BY <2>1, <3>1 DEF InOrder
    <3> QED
      BY <2>1, <3>1, <3>2
  <2>4. \A r \in Ranks : \A i \in DOMAIN ran[r] : ran[r][i] = i
    BY <2>1 DEF InOrder
  <2> QED
    BY <2>2, <2>3, <2>4 DEF StepIsWholeGroup
<1> QED
  BY <1>1, <1>2, <1>3, PTL DEF GroupSpec

----------------------------------------------------------------------------
(* The native lanes.                                                       *)


LanePlaces ==
    {"prepare", "starting", "tick", "finish", "round", "admit", "select", "configure", "dispatch",
     "deliver", "failed", "join", "joining", "guard", "gone"}
\* Before the start-up answer, in the loop, and with the loop's locals alive.
Looping == where \in {"tick", "round", "admit", "select", "configure", "deliver"}
Engaged == Looping \/ where = "dispatch"
Local == Engaged \/ where \in {"prepare", "starting", "failed"}

Running == [job : Submissions \cup {"none"}, fed : Nat, generated : Nat, decoded : BOOLEAN]
LaneMessages ==
    {Failure} \cup {LaneMessage(Fed(r, n), f) : r \in Submissions, n \in Nat, f \in {"none", "stop", "length"}}

Distinct(q) == \A i, j \in DOMAIN q : q[i] = q[j] => i = j

LanesTyped ==
    /\ where \in LanePlaces /\ did \in BOOLEAN
    /\ token_budget \in Nat \ {0} /\ remaining \in Nat /\ cursor \in Lanes
    /\ admission \in Seq(Submissions)
    /\ client \in [Submissions -> {"idle", "checked", "open"}]
    /\ cancel \in [Submissions -> BOOLEAN]
    /\ sent \in [Submissions -> Seq(LaneMessages)] /\ closed \in [Submissions -> BOOLEAN]
    /\ slot \in [Lanes -> Running]
    /\ turn \in Seq(Lanes) /\ awaited \in Seq(Peers) /\ Distinct(awaited)
    /\ DOMAIN consumed = LaneRanks /\ DOMAIN logits = Lanes /\ DOMAIN sampler = Lanes
    /\ DOMAIN peer = Peers /\ DOMAIN commands = Peers /\ DOMAIN reply = Peers

\* What a request was checked for when it was accepted.
Fitting(r) == ValidSampling(r) /\ ValidCapacity(r)

\* A request that nobody reads is told nothing.
Callers ==
    \A r \in Submissions : /\ client[r] # "idle" => Fitting(r)
                           /\ client[r] # "open" => sent[r] = << >>

\* What a stream carries.
Stream(r) ==
    \A k \in DOMAIN sent[r] :
        LET m == sent[r][k] IN
        \/ m = Failure /\ k = Len(sent[r])
        \/ /\ m.from = Fed(r, PromptLen[r] + k - 1) /\ k <= MaxTokens[r]
           /\ m.finish # "none" => k = Len(sent[r])
           /\ m.finish = "stop" => k > MinTokens[r]
Streams == \A r \in Submissions : Stream(r)

\* Who has a place was accepted and has not ended.
Told(r, n) ==
    client[r] = "open" => Len(sent[r]) = n /\ \A k \in DOMAIN sent[r] : sent[r][k].finish = "none"
Counted(l) ==
    /\ slot[l].fed <= PromptLen[slot[l].job] /\ slot[l].generated < MaxTokens[slot[l].job]
    /\ (slot[l].fed < PromptLen[slot[l].job]) <=> (slot[l].generated = 0)
Placed ==
    /\ \A i \in DOMAIN admission : Fitting(admission[i]) /\ sent[admission[i]] = << >>
    /\ \A l \in Lanes : Occupied(l) =>
          Fitting(slot[l].job) /\ Counted(l) /\ Told(slot[l].job, slot[l].generated)

\* The inputs that made a request what it is between two rounds.
Count(l) == slot[l].fed + (IF slot[l].generated = 0 THEN 0 ELSE slot[l].generated - 1)
Before(k, l) == consumed[k][l] = Fed(slot[l].job, Count(l))
After(k, l) == consumed[k][l] = Fed(slot[l].job, Count(l) + 1)

\* What a rank's lanes hold before and after the command of the dispatch.
Unserved(k) ==
    \A l \in Lanes : Occupied(l) /\ ~(order.op = "Reset" /\ l \in LanesOf(order)) => Before(k, l)
Served(k) ==
    \A l \in Lanes : Occupied(l) =>
        IF order.op = "Consume" /\ l \in LanesOf(order) THEN After(k, l) ELSE Before(k, l)

Quiet(p) == peer[p] = "idle" /\ commands[p] = << >> /\ reply[p] = << >>
Answering(p) == /\ commands[p] = << >>
                /\ \/ peer[p] = "idle" /\ reply[p] = <<TRUE>>
                   \/ peer[p] = "gone" /\ reply[p] = <<FALSE>>
Begins(p) == Answering(p) \/ (peer[p] = "starting" /\ commands[p] = << >> /\ reply[p] = << >>)
Waited(p) == p \in ToSet(awaited)

\* The command of the dispatch waits for the peer, or its reply waits for the worker, or is read.
Commanded(p) ==
    \/ Waited(p) /\ peer[p] = "idle" /\ commands[p] = <<order>> /\ reply[p] = << >> /\ Unserved(p)
    \/ Waited(p) /\ Answering(p) /\ (peer[p] = "idle" => Served(p))
    \/ ~Waited(p) /\ Quiet(p) /\ Served(p)

\* What is in a peer's channels, and what its lanes hold.
Channels ==
    /\ where = "prepare" => \A p \in Peers : Begins(p)
    /\ where = "starting" => \A p \in Peers : IF Waited(p) THEN Begins(p) ELSE Quiet(p)
    /\ Looping => \A p \in Peers : Quiet(p)
    /\ where = "dispatch" => \A p \in Peers : Commanded(p)

\* The next input of each of some lanes.
Feed(q) == Consume([i \in DOMAIN q |-> <<q[i], NextInput(q[i])>>])

\* The command of a dispatch: the lane just taken, or the next input of the lanes chosen.
Ordered ==
    /\ where = "dispatch" =>
          \/ /\ turn # << >> /\ order = Reset(Head(turn)) /\ Occupied(Head(turn))
             /\ slot[Head(turn)].fed = 0 /\ slot[Head(turn)].generated = 0
          \/ /\ order = Feed(turn)
             /\ Len(turn) <= remaining
    /\ where = "deliver" \/ (where = "dispatch" /\ order.op = "Consume") =>
          Distinct(turn) /\ \A i \in DOMAIN turn : Occupied(turn[i])
    /\ where = "configure" =>
          turn # << >> /\ Occupied(Head(turn)) /\ slot[Head(turn)].fed = 0 /\ slot[Head(turn)].generated = 0

\* What the lanes hold, on every rank, and what the next tokens are sampled from.
Contents ==
    /\ Looping => \A k \in LaneRanks : \A l \in Lanes : Occupied(l) =>
          IF where = "deliver" /\ l \in ToSet(turn) THEN After(k, l) ELSE Before(k, l)
    /\ where = "dispatch" => IF did THEN Served(0) ELSE TRUE
    /\ where = "deliver" \/ (where = "dispatch" /\ did /\ order.op = "Consume") =>
          \A i \in DOMAIN turn : logits[turn[i]] = Fed(slot[turn[i]].job, Count(turn[i]) + 1)

\* The lane whose sampler is still its last request's.
Unset(l) ==
    /\ turn # << >> /\ l = Head(turn)
    /\ where = "configure" \/ (where = "dispatch" /\ order.op = "Reset")
Sampled(s, request) ==
    /\ s \in [drawn : Nat, min : Nat, masked : BOOLEAN]
    /\ s.drawn = request.generated /\ s.min = MinTokens[request.job]
    /\ s.masked \/ s.drawn >= s.min
Sampling ==
    Engaged => \A l \in Lanes : Occupied(l) /\ ~Unset(l) =>
        Sampled(sampler[l], slot[l])

Empty == where \in {"prepare", "starting"} => \A l \in Lanes : ~Occupied(l)

\* What the loop and its callers keep about requests, and what it and the ranks about lanes.
Books == Callers /\ Streams /\ (Local => Placed) /\ ActiveExact
Machine == Channels /\ Ordered /\ Contents /\ Sampling /\ Empty

LanesInv == LanesTyped /\ Books /\ Machine

----------------------------------------------------------------------------
(* Sequences.                                                              *)

\* The first of a sequence, and the rest.
LEMMA Rest ==
    ASSUME NEW S, NEW q \in Seq(S), q # << >>
    PROVE  /\ Head(q) = q[1] /\ 1 \in DOMAIN q /\ Head(q) \in S
           /\ Tail(q) \in Seq(S) /\ Len(Tail(q)) = Len(q) - 1
           /\ \A i \in DOMAIN Tail(q) : i + 1 \in DOMAIN q /\ i + 1 # 1 /\ Tail(q)[i] = q[i + 1]
           /\ \A i \in DOMAIN q : i # 1 => i - 1 \in DOMAIN Tail(q) /\ Tail(q)[i - 1] = q[i]
OBVIOUS

\* A sequence without repetition loses its first member with its head.
LEMMA DistinctRest ==
    ASSUME NEW S, NEW q \in Seq(S), q # << >>, Distinct(q)
    PROVE  /\ Distinct(Tail(q))
           /\ ToSet(Tail(q)) = ToSet(q) \ {Head(q)} /\ Head(q) \in ToSet(q)
<1>1. /\ Head(q) = q[1] /\ 1 \in DOMAIN q
      /\ \A i \in DOMAIN Tail(q) : i + 1 \in DOMAIN q /\ i + 1 # 1 /\ Tail(q)[i] = q[i + 1]
      /\ \A i \in DOMAIN q : i # 1 => i - 1 \in DOMAIN Tail(q) /\ Tail(q)[i - 1] = q[i]
  BY Rest
<1>2. Distinct(Tail(q))
  <2> SUFFICES ASSUME NEW i \in DOMAIN Tail(q), NEW j \in DOMAIN Tail(q), Tail(q)[i] = Tail(q)[j]
               PROVE  i = j
    BY DEF Distinct
  <2>1. i + 1 = j + 1
    BY <1>1 DEF Distinct
  <2>2. i \in Nat /\ j \in Nat
    OBVIOUS
  <2> QED
    BY <2>1, <2>2
<1>3. ToSet(Tail(q)) \subseteq ToSet(q) \ {Head(q)}
  <2> SUFFICES ASSUME NEW i \in DOMAIN Tail(q)
               PROVE  Tail(q)[i] \in ToSet(q) \ {Head(q)}
    BY DEF ToSet
  <2> QED
    BY <1>1 DEF ToSet, Distinct
<1>4. ToSet(q) \ {Head(q)} \subseteq ToSet(Tail(q))
  <2> SUFFICES ASSUME NEW i \in DOMAIN q, q[i] # Head(q)
               PROVE  q[i] \in ToSet(Tail(q))
    BY DEF ToSet
  <2> QED
    BY <1>1 DEF ToSet
<1> QED
  BY <1>1, <1>2, <1>3, <1>4 DEF ToSet

\* A sequence without repetition has as many members as places.
LEMMA DistinctCount ==
    ASSUME NEW S, NEW q \in Seq(S), Distinct(q)
    PROVE  Cardinality(ToSet(q)) = Len(q)
<1>1. q \in Bijection(1 .. Len(q), ToSet(q))
  <2>1. q \in [1 .. Len(q) -> ToSet(q)] /\ DOMAIN q = 1 .. Len(q)
    BY DEF ToSet
  <2>2. q \in Injection(1 .. Len(q), ToSet(q))
    BY <2>1 DEF Distinct, Injection, IsInjective
  <2>3. q \in Surjection(1 .. Len(q), ToSet(q))
    BY <2>1 DEF ToSet, Surjection
  <2> QED
    BY <2>2, <2>3 DEF Bijection
<1> QED
  BY <1>1, FS_CountingElements DEF ExistsBijection

\* The inputs of a request, one by one.
LEMMA FedGrows ==
    ASSUME NEW r, NEW n \in Nat
    PROVE  /\ Fed(r, n) \in Seq({r} \X Nat) /\ Len(Fed(r, n)) = n
           /\ Append(Fed(r, n), <<r, n + 1>>) = Fed(r, n + 1)
           /\ Fed(r, 0) = << >>
<1>1. Fed(r, n) \in Seq({r} \X Nat) /\ Len(Fed(r, n)) = n /\ Fed(r, n + 1) \in Seq({r} \X Nat)
      /\ Len(Fed(r, n + 1)) = n + 1
  BY DEF Fed
<1>2. Append(Fed(r, n), <<r, n + 1>>) \in Seq({r} \X Nat) /\ Len(Append(Fed(r, n), <<r, n + 1>>)) = n + 1
  BY <1>1
<1>3. ASSUME NEW i \in 1 .. n + 1
      PROVE  Append(Fed(r, n), <<r, n + 1>>)[i] = Fed(r, n + 1)[i]
  BY <1>1 DEF Fed
<1>4. Fed(r, 0) = << >>
  BY DEF Fed
<1> QED
  BY <1>1, <1>2, <1>3, <1>4

----------------------------------------------------------------------------
(* Commands.                                                               *)

\* From the cursor on, every lane comes up once.
LEMMA TurnsRotate ==
    ASSUME LanesTyped
    PROVE  /\ \A i \in 0 .. NumLanes - 1 : Turned(i) \in Lanes
           /\ \A i, j \in 0 .. NumLanes - 1 : Turned(i) = Turned(j) => i = j
<1>1. NumLanes \in Nat \ {0} /\ cursor \in 0 .. NumLanes - 1
  BY LanesAssumption DEF LanesTyped, Lanes
<1>2. ASSUME NEW i \in 0 .. NumLanes - 1
      PROVE  Turned(i) = IF cursor + i < NumLanes THEN cursor + i ELSE (cursor + i) - NumLanes
  BY <1>1, Rotation DEF Turned
<1> QED
  BY <1>1, <1>2 DEF Lanes

\* A round chooses different occupied lanes, no more than the budget has left.
LEMMA RoundSelects ==
    ASSUME LanesTyped
    PROVE  /\ SelectRound \in Seq(Lanes) /\ Distinct(SelectRound) /\ Len(SelectRound) <= remaining
           /\ \A i \in DOMAIN SelectRound : Occupied(SelectRound[i])
           /\ CursorAfter(SelectRound) \in Lanes
<1> DEFINE E == {i \in 0 .. NumLanes - 1 : Eligible(Turned(i))}
           size == IF Cardinality(E) < remaining THEN Cardinality(E) ELSE remaining
           pick(n) == CHOOSE i \in E : Position(E, i) = n - 1
<1>1. E \in SUBSET Nat /\ IsFiniteSet(E)
  <2>1. IsFiniteSet(0 .. NumLanes - 1)
    BY LanesAssumption, FS_Interval
  <2>2. E \subseteq 0 .. NumLanes - 1
    OBVIOUS
  <2> QED
    BY <2>1, <2>2, FS_Subset, LanesAssumption
<1>2. size \in Nat /\ size <= remaining /\ size <= Cardinality(E) /\ Cardinality(E) \in Nat
  BY <1>1, FS_CardinalityType DEF LanesTyped
<1>3. SelectRound = [n \in 1 .. size |-> Turned(pick(n))]
  BY DEF SelectRound, Position
<1>4. ASSUME NEW n \in 1 .. size
      PROVE  pick(n) \in E /\ Position(E, pick(n)) = n - 1
  <2>1. n - 1 \in 0 .. Cardinality(E) - 1
    BY <1>2
  <2> HIDE DEF E
  <2> QED
    BY <1>1, <2>1, PositionBijective
<1>5. \A i \in E : i \in 0 .. NumLanes - 1 /\ Occupied(Turned(i))
  BY DEF Eligible
<1> HIDE DEF E, size, pick
<1>6. \A n \in 1 .. size : Turned(pick(n)) \in Lanes /\ Occupied(Turned(pick(n)))
  BY <1>4, <1>5, TurnsRotate
<1>7. SelectRound \in Seq(Lanes) /\ Len(SelectRound) = size /\ DOMAIN SelectRound = 1 .. size
  BY <1>2, <1>3, <1>6
<1>8. Distinct(SelectRound)
  <2> SUFFICES ASSUME NEW m \in 1 .. size, NEW n \in 1 .. size, SelectRound[m] = SelectRound[n]
               PROVE  m = n
    BY <1>7 DEF Distinct
  <2>1. Turned(pick(m)) = Turned(pick(n))
    BY <1>3
  <2>2. pick(m) = pick(n)
    BY <1>4, <1>5, <2>1, TurnsRotate
  <2>3. m - 1 = n - 1
    BY <1>4, <2>2
  <2> QED
    BY <1>2, <2>3
<1>9. CursorAfter(SelectRound) \in Lanes
  <2>1. CASE SelectRound = << >>
    BY <2>1 DEF CursorAfter, LanesTyped
  <2>2. CASE SelectRound # << >>
    <3>1. Last(SelectRound) \in Lanes
      BY <1>7, <2>2 DEF Last
    <3>2. Last(SelectRound) + 1 \in Nat
      BY <3>1, LanesAssumption DEF Lanes
    <3> QED
      BY <2>2, <3>2, Division, LanesAssumption DEF CursorAfter, Lanes
  <2> QED
    BY <2>1, <2>2
<1> QED
  BY <1>2, <1>3, <1>6, <1>7, <1>8, <1>9

\* The context has room for what a request still feeds.
LEMMA CountFits ==
    ASSUME LanesTyped, Placed, NEW l \in Lanes, Occupied(l)
    PROVE  /\ slot[l].job \in Submissions /\ slot[l].fed \in Nat /\ slot[l].generated \in Nat
           /\ Count(l) \in Nat /\ Count(l) < Context
           /\ NextInput(l) = <<slot[l].job, Count(l) + 1>>
           /\ slot[l].generated + 1 <= MaxTokens[slot[l].job] /\ MaxTokens[slot[l].job] < Context
<1> DEFINE r == slot[l].job
<1>1. r \in Submissions /\ slot[l].fed \in Nat /\ slot[l].generated \in Nat
  BY DEF LanesTyped, Running, Occupied
<1>2. PromptLen[r] \in Nat /\ MaxTokens[r] \in Nat /\ Context \in Nat
  BY <1>1, LanesAssumption
<1>3. /\ PromptLen[r] > 0 /\ PromptLen[r] + MaxTokens[r] <= Context
      /\ slot[l].fed <= PromptLen[r] /\ slot[l].generated < MaxTokens[r]
      /\ (slot[l].fed < PromptLen[r]) <=> (slot[l].generated = 0)
  BY DEF Placed, Counted, Fitting, ValidCapacity
<1>4. Count(l) = slot[l].fed + (IF slot[l].generated = 0 THEN 0 ELSE slot[l].generated - 1)
  BY DEF Count
<1>5. NextInput(l) = <<r, IF slot[l].fed < PromptLen[r] THEN slot[l].fed + 1
                         ELSE PromptLen[r] + slot[l].generated>>
  BY DEF NextInput
<1>6. (IF slot[l].fed < PromptLen[r] THEN slot[l].fed + 1 ELSE PromptLen[r] + slot[l].generated)
         = Count(l) + 1
  BY <1>1, <1>2, <1>3, <1>4
<1>7. Count(l) \in Nat /\ Count(l) < Context
  BY <1>1, <1>2, <1>3, <1>4
<1>8. MaxTokens[r] < Context
  BY <1>2, <1>3
<1> QED
  BY <1>1, <1>2, <1>3, <1>5, <1>6, <1>7, <1>8

\* A command with the next input of each lane names each lane once, with that input.
LEMMA FeedNames ==
    ASSUME NEW q \in Seq(Lanes), Distinct(q)
    PROVE  /\ Feed(q).op = "Consume" /\ Len(Feed(q).inputs) = Len(q)
           /\ LanesOf(Feed(q)) = ToSet(q)
           /\ \A l \in ToSet(q) : TokenFor(Feed(q), l) = NextInput(l)
           /\ Feed(q) # Stop
<1> DEFINE c == Feed(q)
           f == [i \in DOMAIN q |-> <<q[i], NextInput(q[i])>>]
<1>1. c.op = "Consume" /\ c.inputs = f
  BY DEF Feed, Consume
<1>2. DOMAIN q = 1 .. Len(q) /\ Len(q) \in Nat /\ DOMAIN f = 1 .. Len(q)
  OBVIOUS
<1>3. Len(f) = Len(q)
  BY <1>2
<1>4. LanesOf(c) = ToSet(q)
  BY <1>1 DEF LanesOf, ToSet
<1>5. ASSUME NEW i \in DOMAIN q
      PROVE  TokenFor(c, q[i]) = NextInput(q[i])
  <2> DEFINE x == CHOOSE y \in ToSet(f) : y[1] = q[i]
  <2>1. f[i] \in ToSet(f) /\ f[i][1] = q[i]
    BY <1>2 DEF ToSet
  <2>2. x \in ToSet(f) /\ x[1] = q[i]
    BY <2>1
  <2>3. TokenFor(c, q[i]) = x[2]
    BY <1>1 DEF TokenFor
  <2> HIDE DEF x
  <2>4. PICK j \in DOMAIN f : x = f[j]
    BY <2>2 DEF ToSet
  <2>5. x = <<q[j], NextInput(q[j])>>
    BY <1>2, <2>4
  <2>6. q[j] = q[i]
    BY <2>2, <2>5
  <2> QED
    BY <2>3, <2>5, <2>6
<1>6. "Consume" # "Stop"
  OBVIOUS
<1>7. c # Stop
  BY <1>1, <1>6 DEF Stop
<1> QED
  BY <1>1, <1>3, <1>4, <1>5, <1>7 DEF ToSet

\* A rank whose lanes hold what the loop believes can take that command.
LEMMA FeedAccepted ==
    ASSUME LanesTyped, Placed, NEW q \in Seq(Lanes), Distinct(q), NEW k,
           \A l \in ToSet(q) : Occupied(l) /\ Before(k, l)
    PROVE  ~Refuses(k, Feed(q))
<1>1. LanesOf(Feed(q)) = ToSet(q) /\ Len(Feed(q).inputs) = Len(q)
  BY FeedNames
<1>2. Cardinality(ToSet(q)) = Len(q)
  BY DistinctCount
<1>3. ASSUME NEW l \in ToSet(q)
      PROVE  ~(Len(consumed[k][l]) >= Context)
  <2>1. l \in Lanes /\ Occupied(l) /\ consumed[k][l] = Fed(slot[l].job, Count(l))
    BY <1>3 DEF Before, ToSet
  <2>2. Count(l) \in Nat /\ Count(l) < Context
    BY <2>1, CountFits
  <2>3. Len(consumed[k][l]) = Count(l)
    BY <2>1, <2>2, FedGrows
  <2> QED
    BY <2>2, <2>3, LanesAssumption
<1> QED
  BY <1>1, <1>2, <1>3 DEF Refuses

\* Taking it moves each of its lanes on by one input, and no other.
LEMMA FeedApplied ==
    ASSUME LanesTyped, Placed, NEW q \in Seq(Lanes), Distinct(q), NEW k,
           NEW l \in Lanes, Occupied(l), Before(k, l)
    PROVE  /\ Applied(k, Feed(q))[l] = Fed(slot[l].job, IF l \in ToSet(q) THEN Count(l) + 1 ELSE Count(l))
           /\ l \in ToSet(q) =>
                 Append(consumed[k][l], TokenFor(Feed(q), l)) = Fed(slot[l].job, Count(l) + 1)
<1>1. Feed(q).op = "Consume" /\ LanesOf(Feed(q)) = ToSet(q)
  BY FeedNames
<1>2. Count(l) \in Nat /\ NextInput(l) = <<slot[l].job, Count(l) + 1>>
  BY CountFits
<1>3. consumed[k][l] = Fed(slot[l].job, Count(l))
  BY DEF Before
<1>4. ASSUME l \in ToSet(q)
      PROVE  Append(consumed[k][l], TokenFor(Feed(q), l)) = Fed(slot[l].job, Count(l) + 1)
  <2>1. TokenFor(Feed(q), l) = NextInput(l)
    BY <1>4, FeedNames
  <2> QED
    BY <1>2, <1>3, <2>1, FedGrows
<1>5. "Consume" # "Reset"
  OBVIOUS
<1>6. Applied(k, Feed(q))[l] = IF l \in ToSet(q) THEN Append(consumed[k][l], TokenFor(Feed(q), l))
                               ELSE consumed[k][l]
  BY <1>1, <1>5 DEF Applied
<1> QED
  BY <1>3, <1>4, <1>6

\* A reset names one lane, and a rank never refuses it.
LEMMA ResetNames ==
    ASSUME NEW l
    PROVE  /\ Reset(l).op = "Reset" /\ LanesOf(Reset(l)) = {l} /\ Reset(l) # Stop
           /\ \A k : ~Refuses(k, Reset(l))
           /\ \A k : \A m \in Lanes : Applied(k, Reset(l))[m] = IF m = l THEN << >> ELSE consumed[k][m]
<1>1. Reset(l).op = "Reset" /\ Reset(l).inputs = <<<<l, << >>>>>>
  BY DEF Reset
<1>2. LanesOf(Reset(l)) = {l}
  <2>1. DOMAIN <<<<l, << >>>>>> = {1} /\ <<<<l, << >>>>>>[1] = <<l, << >>>>
    OBVIOUS
  <2> QED
    BY <1>1, <2>1 DEF LanesOf
<1>3. "Reset" # "Stop" /\ "Reset" # "Consume"
  OBVIOUS
<1>4. Reset(l) # Stop
  BY <1>1, <1>3 DEF Stop
<1> QED
  BY <1>1, <1>2, <1>3, <1>4 DEF Refuses, Applied

----------------------------------------------------------------------------
(* What a step leaves alone.                                               *)

\* Once the loop is over nothing is asked of the lanes.
LEMMA MachineOver ==
    ASSUME where' \in {"failed", "finish", "join", "joining", "guard", "gone"}
    PROVE  Machine'
BY DEF Machine, Channels, Ordered, Contents, Sampling, Empty, Engaged, Looping

\* What the lanes hold and the loop is about is only the worker's and the peers'.
LEMMA LanesKept ==
    ASSUME Machine, UNCHANGED <<where, remaining, slot, turn, order, did, deviceVars>>
    PROVE  Ordered' /\ Contents' /\ Sampling' /\ Empty'
<1> USE DEF Machine, deviceVars
<1>1. Ordered'
  BY DEF Ordered, Feed, NextInput, Occupied
<1>2. Contents'
  BY DEF Contents, Looping, Served, Before, After, Count, Occupied
<1>3. Sampling' /\ Empty'
  BY DEF Sampling, Empty, Engaged, Looping, Unset, Occupied
<1> QED
  BY <1>1, <1>2, <1>3

\* And so is what is in the channels.
LEMMA MachineKept ==
    ASSUME Machine, UNCHANGED <<where, remaining, slot, turn, order, did, awaited, deviceVars, peerVars>>
    PROVE  Machine'
<1> USE DEF Machine, deviceVars, peerVars
<1>1. Channels'
  <2>1. ASSUME NEW p \in Peers
        PROVE  /\ Answering(p)' <=> Answering(p)
               /\ (Quiet(p)' <=> Quiet(p)) /\ (Begins(p)' <=> Begins(p))
               /\ Waited(p)' <=> Waited(p)
               /\ Served(p)' <=> Served(p)
               /\ Unserved(p)' <=> Unserved(p)
               /\ Commanded(p)' <=> Commanded(p)
    <3>1. Answering(p)' <=> Answering(p)
      BY DEF Answering
    <3>2. (Quiet(p)' <=> Quiet(p)) /\ (Begins(p)' <=> Begins(p))
      BY DEF Quiet, Begins, Answering
    <3>3. Waited(p)' <=> Waited(p)
      BY DEF Waited
    <3>4. Served(p)' <=> Served(p)
      BY DEF Served, Before, After, Count, Occupied
    <3>5. Unserved(p)' <=> Unserved(p)
      BY DEF Unserved, Before, Count, Occupied
    <3>6. UNCHANGED <<peer, commands, reply, order>>
      OBVIOUS
    <3>7. Commanded(p)' <=> Commanded(p)
      BY <3>1, <3>2, <3>3, <3>4, <3>5, <3>6 DEF Commanded
    <3> QED
      BY <3>1, <3>2, <3>3, <3>4, <3>5, <3>7
  <2>2. Looping' <=> Looping
    BY DEF Looping
  <2>3. UNCHANGED <<where, peer, commands, reply, order>>
    OBVIOUS
  <2> QED
    BY <2>1, <2>2, <2>3 DEF Channels
<1> QED
  BY <1>1, LanesKept

\* The books are about the requests and their places.
LEMMA BooksKept ==
    ASSUME LanesTyped, Books, UNCHANGED <<client, sent, admission, slot, current>>, where' \in LanePlaces,
           Local' => Local
    PROVE  Books'
<1>1. Callers' /\ Streams'
  BY DEF Books, Callers, Streams, Stream
<1>2. Local' => Placed'
  BY DEF Books, Placed, Occupied, Counted, Told
<1>3. (where \notin {"finish", "join", "joining", "guard", "gone"}) <=> Local
  BY DEF LanesTyped, LanePlaces, Local, Engaged, Looping
<1>4. (where' \notin {"finish", "join", "joining", "guard", "gone"}) <=> Local'
  BY DEF LanePlaces, Local, Engaged, Looping
<1>5. ActiveExact'
  BY <1>3, <1>4 DEF Books, ActiveExact, JobsIn, Occupied
<1> QED
  BY <1>1, <1>2, <1>5 DEF Books

----------------------------------------------------------------------------
(* The start, and the callers.                                             *)

LEMMA LanesInitInv == LanesInit => LanesInv
<1> SUFFICES ASSUME LanesInit PROVE LanesInv
  OBVIOUS
<1> USE DEF LanesInit
<1>1. \A l \in Lanes : ~Occupied(l)
  BY DEF Occupied, Free
<1>2. LanesTyped
  <2>1. 0 \in Lanes /\ token_budget \in Nat \ {0}
    BY LanesAssumption DEF Lanes
  <2>2. Free \in Running
    BY DEF Free, Running
  <2> QED
    BY <2>1, <2>2 DEF LanesTyped, LanePlaces, Distinct
<1>3. Callers /\ Streams /\ Placed
  BY <1>1 DEF Callers, Streams, Stream, Placed
<1>4. JobsIn(Lanes) = {} /\ ToSet(admission) = {}
  BY <1>1 DEF JobsIn, ToSet
<1>5. ActiveExact
  BY <1>1, <1>4 DEF ActiveExact, IdsOf
<1>6. Machine
  BY <1>1 DEF Machine, Channels, Begins, Ordered, Contents, Sampling, Empty, Engaged, Looping
<1> QED
  BY <1>2, <1>3, <1>5, <1>6 DEF LanesInv, Books

\* A flag set by a caller changes nothing the worker relies on.
LEMMA FlagsKeep == LanesInv /\ (AbandonStart \/ SetStop \/ \E i \in AbortIds : Abort(i)) => LanesInv'
<1> SUFFICES ASSUME LanesInv, AbandonStart \/ SetStop \/ \E i \in AbortIds : Abort(i) PROVE LanesInv'
  OBVIOUS
<1>1. /\ UNCHANGED <<where, did, token_budget, remaining, cursor, admission, client, sent, closed, slot,
                     turn, awaited, order, current, deviceVars, peerVars>>
      /\ cancel' \in [Submissions -> BOOLEAN]
  BY DEF LanesInv, LanesTyped, AbandonStart, SetStop, Abort, sentVars, roundVars
<1>2. LanesTyped'
  BY <1>1 DEF LanesInv, LanesTyped, deviceVars, peerVars
<1>3. Books'
  <2>1. Local' => Local
    BY <1>1 DEF Local, Engaged, Looping
  <2> QED
    BY <1>1, <2>1, BooksKept DEF LanesInv, LanesTyped
<1>4. Machine'
  BY <1>1, MachineKept DEF LanesInv
<1> QED
  BY <1>2, <1>3, <1>4 DEF LanesInv

\* Callers that open no stream keep the books.
LEMMA ClientsKept ==
    ASSUME LanesInv, UNCHANGED <<where, admission, slot, current>>,
           \A x \in Submissions : /\ client'[x] # "idle" => Fitting(x)
                                  /\ client'[x] # "open" => sent'[x] = << >>
                                  /\ client'[x] = "open" => client[x] = "open" /\ sent'[x] = sent[x]
    PROVE  Books'
<1>1. \A x \in Submissions : sent'[x] \in {<< >>, sent[x]}
  OBVIOUS
<1>2. Callers'
  BY DEF Callers, Fitting, ValidSampling, ValidCapacity
<1>3. Streams'
  <2> SUFFICES ASSUME NEW x \in Submissions PROVE Stream(x)'
    BY DEF Streams
  <2>1. CASE sent'[x] = << >>
    BY <2>1 DEF Stream
  <2>2. CASE sent'[x] = sent[x]
    BY <2>2 DEF LanesInv, Books, Streams, Stream
  <2> QED
    BY <1>1, <2>1, <2>2
<1>4. Local' => Placed'
  <2> SUFFICES ASSUME Local PROVE Placed'
    BY DEF Local, Engaged, Looping
  <2>1. \A i \in DOMAIN admission : admission[i] \in Submissions
    BY DEF LanesInv, LanesTyped
  <2>2. \A i \in DOMAIN admission : Fitting(admission[i]) /\ sent'[admission[i]] = << >>
    BY <1>1, <2>1 DEF LanesInv, Books, Placed
  <2>3. ASSUME NEW l \in Lanes, Occupied(l)
        PROVE  Fitting(slot[l].job) /\ Counted(l)' /\ Told(slot[l].job, slot[l].generated)'
    <3>1. slot[l].job \in Submissions
      BY <2>3 DEF LanesInv, LanesTyped, Running, Occupied
    <3>2. Fitting(slot[l].job) /\ Counted(l) /\ Told(slot[l].job, slot[l].generated)
      BY <2>3 DEF LanesInv, Books, Placed
    <3>3. Counted(l)'
      BY <3>2 DEF Counted
    <3>4. Told(slot[l].job, slot[l].generated)'
      BY <3>1, <3>2 DEF Told
    <3> QED
      BY <3>2, <3>3, <3>4
  <2> QED
    BY <2>2, <2>3 DEF Placed, Occupied
<1>5. ActiveExact'
  BY DEF LanesInv, Books, ActiveExact, JobsIn, Occupied
<1> QED
  BY <1>2, <1>3, <1>4, <1>5 DEF Books

\* A caller that may submit has nothing to read yet.
LEMMA GenerateKeeps == ASSUME LanesInv, NEW r \in Submissions, Generate(r) PROVE LanesInv'
<1>1. /\ UNCHANGED <<where, did, token_budget, remaining, cursor, admission, cancel, sent, closed, slot,
                     turn, awaited, order, current, deviceVars, peerVars>>
      /\ client[r] = "idle" /\ Fitting(r) /\ client' = [client EXCEPT ![r] = "checked"]
  BY DEF Generate, sentVars, roundVars, Fitting
<1>2. LanesTyped'
  BY <1>1 DEF LanesInv, LanesTyped, deviceVars, peerVars
<1>3. Books'
  <2>1. \A x \in Submissions : client'[x] = IF x = r THEN "checked" ELSE client[x]
    BY <1>1 DEF LanesInv, LanesTyped
  <2>2. \A x \in Submissions : /\ client[x] # "idle" => Fitting(x)
                               /\ client[x] # "open" => sent[x] = << >>
    BY DEF LanesInv, Books, Callers
  <2> QED
    BY <1>1, <2>1, <2>2, ClientsKept
<1>4. Machine'
  BY <1>1, MachineKept DEF LanesInv
<1> QED
  BY <1>2, <1>3, <1>4 DEF LanesInv

\* A caller that leaves takes its stream with it; its job keeps its place.
LEMMA LeaveKeeps == ASSUME LanesInv, NEW r \in Submissions, LeaveStream(r) PROVE LanesInv'
<1>1. /\ UNCHANGED <<where, did, token_budget, remaining, cursor, admission, slot,
                     turn, awaited, order, current, deviceVars, peerVars>>
      /\ client' = [client EXCEPT ![r] = "idle"] /\ cancel' = [cancel EXCEPT ![r] = ~closed[r]]
      /\ sent' = [sent EXCEPT ![r] = << >>] /\ closed' = [closed EXCEPT ![r] = FALSE]
  BY DEF LeaveStream, roundVars
<1>2. LanesTyped'
  <2>1. sent' \in [Submissions -> Seq(LaneMessages)]
    BY <1>1 DEF LanesInv, LanesTyped
  <2>2. closed' \in [Submissions -> BOOLEAN] /\ client' \in [Submissions -> {"idle", "checked", "open"}]
    BY <1>1 DEF LanesInv, LanesTyped
  <2>3. cancel' \in [Submissions -> BOOLEAN]
    BY <1>1 DEF LanesInv, LanesTyped
  <2> QED
    BY <1>1, <2>1, <2>2, <2>3 DEF LanesInv, LanesTyped, deviceVars, peerVars
<1>3. Books'
  <2>1. \A x \in Submissions : /\ client'[x] = IF x = r THEN "idle" ELSE client[x]
                               /\ sent'[x] = IF x = r THEN << >> ELSE sent[x]
    BY <1>1 DEF LanesInv, LanesTyped
  <2>2. \A x \in Submissions : /\ client[x] # "idle" => Fitting(x)
                               /\ client[x] # "open" => sent[x] = << >>
    BY DEF LanesInv, Books, Callers
  <2> QED
    BY <1>1, <2>1, <2>2, ClientsKept
<1>4. Machine'
  BY <1>1, MachineKept DEF LanesInv
<1> QED
  BY <1>2, <1>3, <1>4 DEF LanesInv

\* A job enters the queue under an id no other job has.
LEMMA EnqueueKeeps == ASSUME LanesInv, NEW r \in Submissions, Enqueue(r) PROVE LanesInv'
<1>1. /\ UNCHANGED <<where, did, token_budget, remaining, cursor, slot, turn, awaited, order,
                     deviceVars, peerVars>>
      /\ client[r] = "checked"
  BY DEF Enqueue, roundVars
<1>2. Machine'
  BY <1>1, MachineKept DEF LanesInv
<1>3. \A x \in Submissions : /\ client[x] # "idle" => Fitting(x)
                             /\ client[x] # "open" => sent[x] = << >>
  BY DEF LanesInv, Books, Callers
<1>4. CASE UNCHANGED <<current, admission, cancel, sentVars>> /\ client' = [client EXCEPT ![r] = "idle"]
  <2>1. LanesTyped'
    BY <1>1, <1>4 DEF LanesInv, LanesTyped, deviceVars, peerVars, sentVars
  <2>2. \A x \in Submissions : /\ client'[x] = IF x = r THEN "idle" ELSE client[x]
                               /\ sent'[x] = sent[x]
    BY <1>4 DEF LanesInv, LanesTyped, sentVars
  <2>3. Books'
    BY <1>1, <1>3, <1>4, <2>2, ClientsKept
  <2> QED
    BY <1>2, <2>1, <2>3 DEF LanesInv
<1>5. CASE /\ RequestId[r] \notin DOMAIN current
           /\ client' = [client EXCEPT ![r] = "open"]
           /\ admission' = Append(admission, r)
           /\ current' = [i \in DOMAIN current \cup {RequestId[r]} |->
                             IF i = RequestId[r] THEN r ELSE current[i]]
           /\ cancel' = [cancel EXCEPT ![r] = FALSE]
           /\ sent' = [sent EXCEPT ![r] = << >>] /\ closed' = [closed EXCEPT ![r] = FALSE]
  <2>1. LanesTyped'
    <3>1. sent' \in [Submissions -> Seq(LaneMessages)]
      BY <1>5 DEF LanesInv, LanesTyped
    <3>2. closed' \in [Submissions -> BOOLEAN] /\ client' \in [Submissions -> {"idle", "checked", "open"}]
      BY <1>5 DEF LanesInv, LanesTyped
    <3>3. cancel' \in [Submissions -> BOOLEAN] /\ admission' \in Seq(Submissions)
      BY <1>5 DEF LanesInv, LanesTyped
    <3> QED
      BY <1>1, <3>1, <3>2, <3>3 DEF LanesInv, LanesTyped, deviceVars, peerVars
  <2>2. \A x \in Submissions : /\ client'[x] = IF x = r THEN "open" ELSE client[x]
                               /\ sent'[x] = IF x = r THEN << >> ELSE sent[x]
    BY <1>5 DEF LanesInv, LanesTyped
  <2>3. Callers'
    BY <1>1, <1>3, <2>2 DEF Callers, Fitting, ValidSampling, ValidCapacity
  <2>4. Streams'
    <3> SUFFICES ASSUME NEW x \in Submissions PROVE Stream(x)'
      BY DEF Streams
    <3>1. CASE x = r
      BY <2>2, <3>1 DEF Stream
    <3>2. CASE x # r
      BY <2>2, <3>2 DEF LanesInv, Books, Streams, Stream
    <3> QED
      BY <3>1, <3>2
  <2>5. /\ admission \in Seq(Submissions) /\ DOMAIN admission = 1 .. Len(admission)
        /\ DOMAIN admission' = 1 .. Len(admission) + 1 /\ admission'[Len(admission) + 1] = r
        /\ \A i \in DOMAIN admission : admission'[i] = admission[i] /\ admission[i] \in Submissions
    BY <1>5 DEF LanesInv, LanesTyped
  <2>6. (where \notin {"finish", "join", "joining", "guard", "gone"}) <=> Local
    BY DEF LanesInv, LanesTyped, LanePlaces, Local, Engaged, Looping
  <2>7. Local' <=> Local
    BY <1>1 DEF Local, Engaged, Looping
  <2>8. ASSUME Local
        PROVE  Placed' /\ ActiveExact'
    <3> DEFINE queued == ToSet(admission)
               running == JobsIn(Lanes)
    <3>1. /\ \A i, j \in DOMAIN admission : RequestId[admission[i]] = RequestId[admission[j]] => i = j
          /\ \A l, m \in {x \in Lanes : Occupied(x)} :
                RequestId[slot[l].job] = RequestId[slot[m].job] => l = m
          /\ IdsOf(queued) \cap IdsOf(running) = {}
          /\ DOMAIN current = IdsOf(queued \cup running)
          /\ \A x \in queued \cup running : current[RequestId[x]] = x
      BY <2>6, <2>8 DEF LanesInv, Books, ActiveExact
    <3>2. queued' = queued \cup {r}
      BY <2>5 DEF ToSet
    <3>3. running' = running /\ \A l \in Lanes : Occupied(l)' <=> Occupied(l)
      BY <1>1 DEF JobsIn, Occupied
    <3>4. \A x \in queued \cup running : RequestId[x] # RequestId[r]
      BY <1>5, <3>1 DEF IdsOf
    <3>5. \A i \in DOMAIN admission : RequestId[admission[i]] # RequestId[r]
      BY <3>4 DEF ToSet
    <3>6. \A l \in Lanes : Occupied(l) => RequestId[slot[l].job] # RequestId[r]
      BY <3>4 DEF JobsIn
    <3>7. Placed'
      <4>1. ASSUME NEW i \in DOMAIN admission'
            PROVE  Fitting(admission'[i]) /\ sent'[admission'[i]] = << >>
        <5>1. CASE i \in DOMAIN admission
          BY <2>2, <2>5, <2>8, <5>1 DEF LanesInv, Books, Placed
        <5>2. CASE i = Len(admission) + 1
          BY <1>1, <1>3, <2>2, <2>5, <5>2
        <5> QED
          BY <2>5, <5>1, <5>2
      <4>2. ASSUME NEW l \in Lanes, Occupied(l)
            PROVE  Fitting(slot[l].job) /\ Counted(l)' /\ Told(slot[l].job, slot[l].generated)'
        <5>1. slot[l].job \in Submissions /\ slot[l].job # r
          BY <3>6, <4>2 DEF LanesInv, LanesTyped, Running, Occupied
        <5>2. Fitting(slot[l].job) /\ Counted(l) /\ Told(slot[l].job, slot[l].generated)
          BY <2>8, <4>2 DEF LanesInv, Books, Placed
        <5>3. Counted(l)'
          BY <1>1, <5>2 DEF Counted
        <5>4. Told(slot[l].job, slot[l].generated)'
          BY <1>1, <2>2, <5>1, <5>2 DEF Told
        <5> QED
          BY <5>2, <5>3, <5>4
      <4>3. UNCHANGED slot
        BY <1>1
      <4> QED
        BY <3>3, <4>1, <4>2, <4>3 DEF Placed, Fitting, ValidSampling, ValidCapacity
    <3>8. \A i, j \in DOMAIN admission' : RequestId[admission'[i]] = RequestId[admission'[j]] => i = j
      BY <2>5, <3>1, <3>5
    <3>9. IdsOf(queued') = IdsOf(queued) \cup {RequestId[r]} /\ IdsOf(queued' \cup running) = DOMAIN current'
      BY <1>5, <3>1, <3>2 DEF IdsOf
    <3>10. IdsOf(queued') \cap IdsOf(running) = {}
      BY <3>1, <3>4, <3>9 DEF IdsOf
    <3>11. \A x \in queued' \cup running : current'[RequestId[x]] = x
      BY <1>5, <3>1, <3>2, <3>4 DEF IdsOf
    <3>12. \A l, m \in {x \in Lanes : Occupied(x)'} :
              RequestId[slot'[l].job] = RequestId[slot'[m].job] => l = m
      BY <1>1, <3>1, <3>3
    <3> QED
      BY <3>3, <3>7, <3>8, <3>9, <3>10, <3>11, <3>12 DEF ActiveExact, IdsOf
  <2>9. ~Local => ActiveExact'
    BY <1>1, <2>6 DEF ActiveExact
  <2> QED
    BY <1>2, <2>1, <2>3, <2>4, <2>7, <2>8, <2>9 DEF LanesInv, Books
<1> QED
  BY <1>4, <1>5 DEF Enqueue

----------------------------------------------------------------------------
(* Starting, dispatching and ending: the requests stay where they are.     *)

LEMMA AllPeers == PeerSeq \in Seq(Peers) /\ Distinct(PeerSeq) /\ ToSet(PeerSeq) = Peers
<1>1. NumPeers \in Nat
  BY LanesAssumption
<1>2. PeerSeq \in Seq(Peers) /\ DOMAIN PeerSeq = 1 .. NumPeers /\ \A i \in 1 .. NumPeers : PeerSeq[i] = i
  BY <1>1 DEF PeerSeq, Peers
<1> QED
  BY <1>2 DEF Distinct, ToSet, Peers

\* The worker waits for the next peer, and then no more for that one.
LEMMA NextPeer ==
    ASSUME LanesTyped, awaited # << >>
    PROVE  /\ Head(awaited) \in Peers /\ Waited(Head(awaited))
           /\ Tail(awaited) \in Seq(Peers) /\ Distinct(Tail(awaited))
           /\ \A p : p \in ToSet(Tail(awaited)) <=> Waited(p) /\ p # Head(awaited)
<1>1. awaited \in Seq(Peers) /\ Distinct(awaited)
  BY DEF LanesTyped
<1>2. Head(awaited) \in Peers /\ Tail(awaited) \in Seq(Peers)
  BY <1>1
<1>3. Distinct(Tail(awaited)) /\ ToSet(Tail(awaited)) = ToSet(awaited) \ {Head(awaited)}
      /\ Head(awaited) \in ToSet(awaited)
  BY <1>1, DistinctRest
<1> QED
  BY <1>2, <1>3 DEF Waited

\* A channel with one reply.
LEMMA OneReply == Head(<<TRUE>>) = TRUE /\ Head(<<FALSE>>) = FALSE /\ Tail(<<TRUE>>) = << >>
<1>1. ASSUME NEW x PROVE Head(<<x>>) = x /\ Tail(<<x>>) = << >>
  OBVIOUS
<1> QED
  BY <1>1, Zenon

LEMMA PrepareKeeps == LanesInv /\ Prepare => LanesInv'
<1> SUFFICES ASSUME LanesInv, Prepare PROVE LanesInv'
  OBVIOUS
<1>1. /\ UNCHANGED <<did, token_budget, remaining, cursor, admission, client, cancel, sent, closed, slot,
                     turn, order, current, deviceVars, peerVars>>
      /\ where = "prepare" /\ where' \in {"starting", "join"} /\ awaited' = PeerSeq
  BY DEF Prepare, sentVars, roundVars
<1>2. LanesTyped'
  BY <1>1, AllPeers DEF LanesInv, LanesTyped, LanePlaces, deviceVars, peerVars
<1>3. Books'
  BY <1>1, <1>2, BooksKept DEF LanesInv, LanesTyped, Local
<1>4. CASE where' = "starting"
  <2>1. Channels'
    <3>1. \A p \in Peers : Waited(p)'
      BY <1>1, AllPeers DEF Waited
    <3>2. ASSUME NEW p \in Peers
          PROVE  Begins(p)'
      <4>1. Begins(p)
        BY <1>1 DEF LanesInv, Machine, Channels
      <4> QED
        BY <1>1, <4>1 DEF Begins, Answering, peerVars
    <3> QED
      BY <1>4, <3>1, <3>2 DEF Channels, Looping
  <2>2. Empty'
    BY <1>1 DEF LanesInv, Machine, Empty, Occupied
  <2> QED
    BY <1>2, <1>3, <1>4, <2>1, <2>2 DEF LanesInv, Machine, Ordered, Contents, Sampling, Engaged, Looping
<1>5. CASE where' = "join"
  BY <1>2, <1>3, <1>5, MachineOver DEF LanesInv
<1> QED
  BY <1>1, <1>2, <1>3, <1>4, <1>5 DEF LanesInv

LEMMA AwaitPeerKeeps == LanesInv /\ AwaitPeer => LanesInv'
<1> SUFFICES ASSUME LanesInv, AwaitPeer PROVE LanesInv'
  OBVIOUS
<1> DEFINE h == Head(awaited)
<1>1. /\ UNCHANGED <<did, token_budget, remaining, cursor, admission, client, cancel, sent, closed, slot,
                     turn, order, current, deviceVars, peer, commands>>
      /\ where = "starting" /\ awaited # << >> /\ reply[h] # << >>
      /\ reply' = [reply EXCEPT ![h] = Tail(@)]
      /\ \/ Head(reply[h]) /\ awaited' = Tail(awaited) /\ where' = "starting"
         \/ ~Head(reply[h]) /\ awaited' = PeerSeq /\ where' = "join"
  BY DEF AwaitPeer, sentVars, roundVars
<1>2. /\ h \in Peers /\ Waited(h) /\ Tail(awaited) \in Seq(Peers) /\ Distinct(Tail(awaited))
      /\ \A p : p \in ToSet(Tail(awaited)) <=> Waited(p) /\ p # h
  BY <1>1, NextPeer DEF LanesInv
<1>3. LanesTyped'
  BY <1>1, <1>2, AllPeers DEF LanesInv, LanesTyped, LanePlaces, deviceVars
<1>4. Books'
  BY <1>1, <1>3, BooksKept DEF LanesInv, LanesTyped, Local
<1>5. CASE Head(reply[h]) /\ awaited' = Tail(awaited) /\ where' = "starting"
  <2>1. Begins(h)
    BY <1>1, <1>2 DEF LanesInv, Machine, Channels
  <2>2. commands[h] = << >> /\ peer[h] = "idle" /\ reply[h] = <<TRUE>>
    BY <1>1, <1>5, <2>1, OneReply DEF Begins, Answering
  <2>3. \A p \in Peers : reply'[p] = IF p = h THEN << >> ELSE reply[p]
    BY <1>1, <2>2, OneReply DEF LanesInv, LanesTyped
  <2>4. ASSUME NEW p \in Peers
        PROVE  IF Waited(p)' THEN Begins(p)' ELSE Quiet(p)'
    <3>1. CASE p = h
      BY <1>1, <1>2, <1>5, <2>2, <2>3, <3>1 DEF Waited, Quiet
    <3>2. CASE p # h
      <4>1. Waited(p)' <=> Waited(p)
        BY <1>2, <1>5, <3>2 DEF Waited
      <4>2. IF Waited(p) THEN Begins(p) ELSE Quiet(p)
        BY <1>1 DEF LanesInv, Machine, Channels
      <4> QED
        BY <1>1, <2>3, <3>2, <4>1, <4>2 DEF Begins, Answering, Quiet
    <3> QED
      BY <3>1, <3>2
  <2>5. Channels'
    BY <1>5, <2>4 DEF Channels, Looping
  <2>6. Empty'
    BY <1>1 DEF LanesInv, Machine, Empty, Occupied
  <2> QED
    BY <1>3, <1>4, <1>5, <2>5, <2>6 DEF LanesInv, Machine, Ordered, Contents, Sampling, Engaged, Looping
<1>6. CASE where' = "join"
  BY <1>3, <1>4, <1>6, MachineOver DEF LanesInv
<1> QED
  BY <1>1, <1>5, <1>6

LEMMA AnnounceKeeps == LanesInv /\ Announce => LanesInv'
<1> SUFFICES ASSUME LanesInv, Announce PROVE LanesInv'
  OBVIOUS
<1>1. /\ UNCHANGED <<did, token_budget, remaining, cursor, admission, client, cancel, sent, closed, slot,
                     turn, order, current, deviceVars, peerVars>>
      /\ where = "starting" /\ awaited = << >>
      /\ \/ where' = "tick" /\ awaited' = awaited
         \/ where' = "join" /\ awaited' = PeerSeq
  BY DEF Announce, sentVars, roundVars
<1>2. LanesTyped'
  BY <1>1, AllPeers DEF LanesInv, LanesTyped, LanePlaces, deviceVars, peerVars
<1>3. Books'
  BY <1>1, <1>2, BooksKept DEF LanesInv, LanesTyped, Local
<1>4. CASE where' = "tick"
  <2>1. ASSUME NEW p \in Peers
        PROVE  Quiet(p)'
    <3>1. ~Waited(p)
      BY <1>1 DEF Waited, ToSet
    <3>2. Quiet(p)
      BY <1>1, <3>1 DEF LanesInv, Machine, Channels
    <3> QED
      BY <1>1, <3>2 DEF Quiet, peerVars
  <2>2. \A l \in Lanes : ~Occupied(l)'
    BY <1>1 DEF LanesInv, Machine, Empty, Occupied
  <2> QED
    BY <1>2, <1>3, <1>4, <2>1, <2>2
       DEF LanesInv, Machine, Channels, Ordered, Contents, Sampling, Empty, Engaged, Looping
<1>5. CASE where' = "join"
  BY <1>2, <1>3, <1>5, MachineOver DEF LanesInv
<1> QED
  BY <1>1, <1>4, <1>5

LEMMA CollectReplyKeeps == LanesInv /\ CollectReply => LanesInv'
<1> SUFFICES ASSUME LanesInv, CollectReply PROVE LanesInv'
  OBVIOUS
<1> DEFINE h == Head(awaited)
<1>1. /\ UNCHANGED <<did, token_budget, remaining, cursor, admission, client, cancel, sent, closed, slot,
                     turn, order, current, deviceVars, peer, commands>>
      /\ where = "dispatch" /\ awaited # << >> /\ reply[h] # << >>
      /\ reply' = [reply EXCEPT ![h] = Tail(@)]
      /\ \/ Head(reply[h]) /\ awaited' = Tail(awaited) /\ where' = "dispatch"
         \/ ~Head(reply[h]) /\ awaited' = << >> /\ where' = "failed"
  BY DEF CollectReply, sentVars, roundVars
<1>2. /\ h \in Peers /\ Waited(h) /\ Tail(awaited) \in Seq(Peers) /\ Distinct(Tail(awaited))
      /\ \A p : p \in ToSet(Tail(awaited)) <=> Waited(p) /\ p # h
  BY <1>1, NextPeer DEF LanesInv
<1>3. LanesTyped'
  <2>1. << >> \in Seq(Peers) /\ Distinct(<< >>)
    BY DEF Distinct
  <2> QED
    BY <1>1, <1>2, <2>1 DEF LanesInv, LanesTyped, LanePlaces, deviceVars
<1>4. Books'
  BY <1>1, <1>3, BooksKept DEF LanesInv, LanesTyped, Local, Engaged
<1>5. CASE Head(reply[h]) /\ awaited' = Tail(awaited) /\ where' = "dispatch"
  <2>1. Commanded(h)
    BY <1>1, <1>2 DEF LanesInv, Machine, Channels
  <2>2. commands[h] = << >> /\ peer[h] = "idle" /\ reply[h] = <<TRUE>> /\ Served(h)
    BY <1>1, <1>2, <1>5, <2>1, OneReply DEF Commanded, Answering
  <2>3. \A p \in Peers : reply'[p] = IF p = h THEN << >> ELSE reply[p]
    BY <1>1, <2>2, OneReply DEF LanesInv, LanesTyped
  <2>4. \A p : (Served(p)' <=> Served(p)) /\ (Unserved(p)' <=> Unserved(p))
    BY <1>1 DEF Served, Unserved, Before, After, Count, Occupied, deviceVars
  <2>5. ASSUME NEW p \in Peers
        PROVE  Commanded(p)'
    <3>1. CASE p = h
      <4>1. ~Waited(p)' /\ Quiet(p)' /\ Served(p)'
        BY <1>1, <1>2, <1>5, <2>2, <2>3, <2>4, <3>1 DEF Waited, Quiet
      <4> QED
        BY <4>1 DEF Commanded
    <3>2. CASE p # h
      <4>1. Waited(p)' <=> Waited(p)
        BY <1>2, <1>5, <3>2 DEF Waited
      <4>2. Commanded(p)
        BY <1>1 DEF LanesInv, Machine, Channels
      <4>3. /\ UNCHANGED <<order, peer, commands>> /\ reply'[p] = reply[p]
            /\ (Answering(p)' <=> Answering(p)) /\ (Quiet(p)' <=> Quiet(p))
        BY <1>1, <2>3, <3>2 DEF Answering, Quiet
      <4> QED
        BY <2>4, <4>1, <4>2, <4>3 DEF Commanded
    <3> QED
      BY <3>1, <3>2
  <2>6. Channels'
    BY <1>5, <2>5 DEF Channels, Looping
  <2>7. Ordered' /\ Contents' /\ Sampling' /\ Empty'
    BY <1>1, <1>5, LanesKept DEF LanesInv
  <2> QED
    BY <1>3, <1>4, <2>6, <2>7 DEF LanesInv, Machine
<1>6. CASE where' = "failed"
  BY <1>3, <1>4, <1>6, MachineOver DEF LanesInv
<1> QED
  BY <1>1, <1>5, <1>6

\* After a dispatch that succeeded every rank holds the same.
LEMMA EndDispatchKeeps == LanesInv /\ EndDispatch => LanesInv'
<1> SUFFICES ASSUME LanesInv, EndDispatch PROVE LanesInv'
  OBVIOUS
<1>1. /\ UNCHANGED <<token_budget, cursor, admission, client, cancel, sent, closed, slot, turn, awaited,
                     current, deviceVars, peerVars>>
      /\ where = "dispatch" /\ awaited = << >> /\ did' = TRUE
      /\ where' = IF ~did THEN "failed" ELSE IF order.op = "Reset" THEN "configure" ELSE "deliver"
      /\ remaining' = IF did /\ order.op = "Consume" THEN remaining - Len(order.inputs) ELSE remaining
  BY DEF EndDispatch, sentVars
<1>2. /\ turn \in Seq(Lanes) /\ remaining \in Nat
      /\ turn # << >> => Head(turn) \in Lanes
  BY DEF LanesInv, LanesTyped
<1>3. \/ /\ turn # << >> /\ order = Reset(Head(turn)) /\ order.op = "Reset" /\ LanesOf(order) = {Head(turn)}
         /\ Occupied(Head(turn)) /\ slot[Head(turn)].fed = 0 /\ slot[Head(turn)].generated = 0
      \/ /\ Distinct(turn) /\ \A i \in DOMAIN turn : Occupied(turn[i])
         /\ order.op = "Consume" /\ Len(order.inputs) = Len(turn) /\ Len(turn) <= remaining
         /\ LanesOf(order) = ToSet(turn)
  <2>1. CASE /\ turn # << >> /\ order = Reset(Head(turn))
             /\ Occupied(Head(turn)) /\ slot[Head(turn)].fed = 0 /\ slot[Head(turn)].generated = 0
    BY <2>1, ResetNames
  <2>2. CASE order = Feed(turn) /\ Len(turn) <= remaining
    <3>1. order.op = "Consume"
      BY <2>2 DEF Feed, Consume
    <3>2. Distinct(turn) /\ \A i \in DOMAIN turn : Occupied(turn[i])
      BY <1>1, <3>1 DEF LanesInv, Machine, Ordered
    <3> QED
      BY <1>2, <2>2, <3>1, <3>2, FeedNames
  <2> QED
    BY <1>1, <2>1, <2>2 DEF LanesInv, Machine, Ordered
<1>4. LanesTyped'
  <2>1. remaining' \in Nat
    BY <1>1, <1>2, <1>3
  <2> QED
    BY <1>1, <2>1 DEF LanesInv, LanesTyped, LanePlaces, deviceVars, peerVars
<1>5. Books'
  BY <1>1, <1>4, BooksKept DEF LanesInv, LanesTyped, Local, Engaged
<1>6. CASE did
  <2>1. where' \in {"configure", "deliver"} /\ (where' = "configure" <=> order.op = "Reset")
    BY <1>1, <1>6
  <2>2. ASSUME NEW p \in Peers
        PROVE  Quiet(p) /\ Served(p)
    <3>1. Commanded(p) /\ ~Waited(p)
      BY <1>1 DEF LanesInv, Machine, Channels, Waited, ToSet
    <3> QED
      BY <3>1 DEF Commanded
  <2>3. \A k \in LaneRanks : Served(k)
    <3>1. Served(0)
      BY <1>1, <1>6 DEF LanesInv, Machine, Contents
    <3>2. \A k \in LaneRanks : k = 0 \/ k \in Peers
      BY LanesAssumption DEF LaneRanks, Peers
    <3> QED
      BY <2>2, <3>1, <3>2
  <2>4. Channels'
    BY <1>1, <2>1, <2>2 DEF Channels, Quiet, Looping, peerVars
  <2>5. Ordered'
    BY <1>1, <1>3, <2>1 DEF Ordered, Occupied
  <2>6. Contents'
    <3>1. ASSUME NEW k \in LaneRanks, NEW l \in Lanes, Occupied(l)
          PROVE  IF where' = "deliver" /\ l \in ToSet(turn) THEN After(k, l)' ELSE Before(k, l)'
      <4>1. IF order.op = "Consume" /\ l \in LanesOf(order) THEN After(k, l) ELSE Before(k, l)
        BY <2>3, <3>1 DEF Served
      <4>2. (After(k, l)' <=> After(k, l)) /\ (Before(k, l)' <=> Before(k, l))
        BY <1>1 DEF After, Before, Count, deviceVars
      <4> QED
        BY <1>3, <2>1, <4>1, <4>2
    <3>2. where' = "deliver" => \A i \in DOMAIN turn : logits[turn[i]] = Fed(slot[turn[i]].job, Count(turn[i]) + 1)
      BY <1>1, <1>3, <1>6, <2>1 DEF LanesInv, Machine, Contents
    <3>3. where' # "dispatch" /\ UNCHANGED <<slot, turn, logits>>
      BY <1>1, <2>1 DEF deviceVars
    <3> QED
      BY <3>1, <3>2, <3>3 DEF Contents, Looping, Occupied, Count
  <2>7. Sampling'
    <3>1. ASSUME NEW l \in Lanes
          PROVE  Unset(l)' <=> Unset(l)
      BY <1>1, <1>3, <2>1 DEF Unset
    <3>2. Engaged /\ UNCHANGED <<slot, sampler>>
      BY <1>1 DEF Engaged, deviceVars
    <3> QED
      BY <3>1, <3>2 DEF LanesInv, Machine, Sampling, Occupied
  <2>8. Empty'
    BY <2>1 DEF Empty
  <2> QED
    BY <1>4, <1>5, <2>4, <2>5, <2>6, <2>7, <2>8 DEF LanesInv, Machine
<1>7. CASE ~did
  <2>1. where' = "failed"
    BY <1>1, <1>7
  <2> QED
    BY <1>4, <1>5, <2>1, MachineOver DEF LanesInv
<1> QED
  BY <1>6, <1>7

\* A lane just reset gets its sampler.
LEMMA ConfigureKeeps == LanesInv /\ ConfigureSlot => LanesInv'
<1> SUFFICES ASSUME LanesInv, ConfigureSlot PROVE LanesInv'
  OBVIOUS
<1> DEFINE h == Head(turn)
<1>1. /\ UNCHANGED <<did, token_budget, remaining, cursor, admission, client, cancel, sent, closed, slot,
                     order, awaited, current, consumed, logits, peerVars>>
      /\ where = "configure"
      /\ \/ /\ sampler' = [sampler EXCEPT ![h] = Configured(slot[h].job)]
            /\ where' = "admit" /\ turn' = Tail(turn)
         \/ where' = "failed" /\ UNCHANGED <<sampler, turn>>
  BY DEF ConfigureSlot, sentVars, roundVars
<1>2. turn # << >> /\ Occupied(h) /\ slot[h].fed = 0 /\ slot[h].generated = 0
  BY <1>1 DEF LanesInv, Machine, Ordered
<1>3. turn \in Seq(Lanes) /\ h \in Lanes /\ Tail(turn) \in Seq(Lanes)
  BY <1>2 DEF LanesInv, LanesTyped
<1>4. LanesTyped'
  BY <1>1, <1>3 DEF LanesInv, LanesTyped, LanePlaces, peerVars
<1>5. Books'
  BY <1>1, <1>4, BooksKept DEF LanesInv, LanesTyped, Local, Engaged, Looping
<1>6. CASE where' = "failed"
  BY <1>4, <1>5, <1>6, MachineOver DEF LanesInv
<1>7. CASE where' = "admit" /\ sampler' = [sampler EXCEPT ![h] = Configured(slot[h].job)]
  <2>1. Channels'
    BY <1>1, <1>7 DEF LanesInv, Machine, Channels, Looping, Quiet, peerVars
  <2>2. Ordered' /\ Empty'
    BY <1>7 DEF Ordered, Empty
  <2>3. Contents'
    <3>1. \A k \in LaneRanks : \A l \in Lanes : Occupied(l) => Before(k, l)
      BY <1>1 DEF LanesInv, Machine, Contents, Looping
    <3> QED
      BY <1>1, <1>7, <3>1 DEF Contents, Before, Count, Occupied
  <2>4. Sampling'
    <3> SUFFICES ASSUME NEW l \in Lanes, Occupied(l)
                 PROVE  Sampled(sampler'[l], slot[l])
      BY <1>1 DEF Sampling, Occupied
    <3>1. CASE l = h
      <4> DEFINE c == Configured(slot[h].job)
                 m == MinTokens[slot[h].job]
      <4>1. sampler'[h] = c
        BY <1>3, <1>7 DEF LanesInv, LanesTyped
      <4>2. m \in Nat
        BY <1>2, <1>3, LanesAssumption DEF LanesInv, LanesTyped, Running, Occupied
      <4>3. c.drawn = 0 /\ c.min = m /\ c.masked = (m > 0) /\ c = [drawn |-> 0, min |-> m, masked |-> m > 0]
        BY DEF Configured
      <4>4. c \in [drawn : Nat, min : Nat, masked : BOOLEAN]
        BY <4>2, <4>3
      <4>5. c.masked \/ c.drawn >= c.min
        <5>1. CASE m > 0
          BY <4>3, <5>1
        <5>2. CASE ~(m > 0)
          BY <4>2, <4>3, <5>2
        <5> QED
          BY <5>1, <5>2
      <4> HIDE DEF c
      <4> QED
        BY <1>2, <3>1, <4>1, <4>3, <4>4, <4>5 DEF Sampled
    <3>2. CASE l # h
      <4>1. sampler'[l] = sampler[l]
        BY <1>3, <1>7, <3>2 DEF LanesInv, LanesTyped
      <4>2. Engaged /\ ~Unset(l)
        BY <1>1, <3>2 DEF Engaged, Looping, Unset
      <4> QED
        BY <4>1, <4>2 DEF LanesInv, Machine, Sampling
    <3> QED
      BY <3>1, <3>2
  <2> QED
    BY <1>4, <1>5, <2>1, <2>2, <2>3, <2>4 DEF LanesInv, Machine
<1> QED
  BY <1>1, <1>6, <1>7

LEMMA EndRoundKeeps == LanesInv /\ EndRound => LanesInv'
<1> SUFFICES ASSUME LanesInv, EndRound PROVE LanesInv'
  OBVIOUS
<1>1. /\ UNCHANGED <<did, token_budget, remaining, cursor, admission, client, cancel, sent, closed, slot,
                     order, turn, awaited, current, consumed, sampler, peerVars>>
      /\ where = "deliver" /\ turn = << >> /\ where' = "round" /\ logits' = [l \in Lanes |-> << >>]
  BY DEF EndRound, sentVars, roundVars
<1>2. LanesTyped'
  BY <1>1 DEF LanesInv, LanesTyped, LanePlaces, peerVars
<1>3. Books'
  BY <1>1, <1>2, BooksKept DEF LanesInv, LanesTyped, Local, Engaged, Looping
<1>4. Channels' /\ Ordered' /\ Empty'
  BY <1>1 DEF LanesInv, Machine, Channels, Ordered, Empty, Looping, Quiet, peerVars
<1>5. Contents'
  <2>1. \A k \in LaneRanks : \A l \in Lanes : Occupied(l) => Before(k, l)
    BY <1>1 DEF LanesInv, Machine, Contents, Looping, ToSet
  <2> QED
    BY <1>1, <2>1 DEF Contents, Before, Count, Occupied
<1>6. Sampling'
  BY <1>1 DEF LanesInv, Machine, Sampling, Engaged, Looping, Unset, Occupied
<1> QED
  BY <1>2, <1>3, <1>4, <1>5, <1>6 DEF LanesInv, Machine

\* After the loop nothing is left to keep but what was told.
LEMMA EndingKeeps == LanesInv /\ (StopPeer \/ JoinPeer \/ EndLaneThread) => LanesInv'
<1> SUFFICES ASSUME LanesInv, StopPeer \/ JoinPeer \/ EndLaneThread PROVE LanesInv'
  OBVIOUS
<1>1. /\ UNCHANGED <<did, token_budget, remaining, cursor, admission, client, cancel, sent, closed, slot,
                     order, turn, current, deviceVars, peer, reply>>
      /\ where' \in {"join", "joining", "guard"}
      /\ DOMAIN commands' = DOMAIN commands
      /\ awaited' = awaited \/ awaited' = Tail(awaited)
  BY DEF StopPeer, JoinPeer, EndLaneThread, sentVars, roundVars, peerVars
<1>2. where \in {"join", "joining"} /\ (where = "join" /\ awaited = << >> => awaited' = awaited)
  BY DEF StopPeer, JoinPeer, EndLaneThread
<1>3. awaited' \in Seq(Peers) /\ Distinct(awaited)'
  <2>1. CASE awaited' = awaited
    BY <2>1 DEF LanesInv, LanesTyped, Distinct
  <2>2. CASE awaited' = Tail(awaited) /\ awaited # << >>
    BY <2>2, NextPeer DEF LanesInv, Distinct
  <2>3. CASE awaited = << >>
    <3>1. Tail(<< >>) = << >>
      OBVIOUS
    <3> QED
      BY <1>1, <2>1, <2>3, <3>1
  <2> QED
    BY <1>1, <2>1, <2>2, <2>3
<1>4. LanesTyped'
  BY <1>1, <1>3 DEF LanesInv, LanesTyped, LanePlaces, deviceVars
<1>5. Books'
  BY <1>1, <1>4, BooksKept DEF LanesInv, LanesTyped, Local, Engaged, Looping
<1> QED
  BY <1>1, <1>4, <1>5, MachineOver DEF LanesInv

\* A peer reports its start.
LEMMA PeerStartsKeeps == ASSUME LanesInv, NEW p \in Peers, PeerStarts(p) PROVE LanesInv'
<1>1. PICK ok \in BOOLEAN :
         /\ peer' = [peer EXCEPT ![p] = IF ok THEN "idle" ELSE "gone"]
         /\ reply' = [reply EXCEPT ![p] = Append(@, ok)]
  BY DEF PeerStarts
<1>2. /\ UNCHANGED <<where, did, token_budget, remaining, cursor, admission, client, cancel, sent, closed,
                     slot, order, turn, awaited, current, deviceVars, commands>>
      /\ peer[p] = "starting"
  BY DEF PeerStarts, sentVars, roundVars
<1>3. LanesTyped'
  BY <1>1, <1>2 DEF LanesInv, LanesTyped, deviceVars
<1>4. Books'
  BY <1>2, <1>3, BooksKept DEF LanesInv, LanesTyped, Local, Engaged, Looping
<1>5. Ordered' /\ Contents' /\ Sampling' /\ Empty'
  BY <1>2, LanesKept DEF LanesInv
<1>6. \A q \in Peers : q # p => peer'[q] = peer[q] /\ reply'[q] = reply[q]
  BY <1>1 DEF LanesInv, LanesTyped
<1>7. \A q \in Peers : q # p => (Begins(q)' <=> Begins(q)) /\ (Quiet(q)' <=> Quiet(q))
  BY <1>2, <1>6 DEF Begins, Answering, Quiet
<1>8. (where \in {"prepare", "starting"} /\ Begins(p)) => Begins(p)'
  <2> SUFFICES ASSUME Begins(p) PROVE Begins(p)'
    OBVIOUS
  <2>1. commands[p] = << >> /\ reply[p] = << >>
    BY <1>2 DEF Begins, Answering
  <2>2. reply'[p] = <<ok>> /\ peer'[p] = IF ok THEN "idle" ELSE "gone"
    BY <1>1, <2>1 DEF LanesInv, LanesTyped
  <2> QED
    BY <1>2, <2>1, <2>2 DEF Begins, Answering
<1>9. ~Quiet(p) /\ ~Commanded(p)
  BY <1>2 DEF Quiet, Commanded, Answering
<1>10. ~Looping /\ where # "dispatch"
  BY <1>9 DEF LanesInv, Machine, Channels
<1>11. \A q : Waited(q)' <=> Waited(q)
  BY <1>2 DEF Waited
<1>12. Channels'
  <2>1. ASSUME where = "prepare", NEW q \in Peers
        PROVE  Begins(q)'
    BY <1>7, <1>8, <2>1 DEF LanesInv, Machine, Channels
  <2>2. ASSUME where = "starting", NEW q \in Peers
        PROVE  IF Waited(q)' THEN Begins(q)' ELSE Quiet(q)'
    BY <1>7, <1>8, <1>9, <1>11, <2>2 DEF LanesInv, Machine, Channels
  <2>3. ~Looping' /\ UNCHANGED where
    BY <1>2, <1>10 DEF Looping
  <2> QED
    BY <1>10, <2>1, <2>2, <2>3 DEF Channels
<1> QED
  BY <1>3, <1>4, <1>5, <1>12 DEF LanesInv, Machine

\* The command of a dispatch names lanes in use, and what serving it does to a rank.
LEMMA CommandServed ==
    ASSUME LanesInv, where = "dispatch", NEW k, Unserved(k), NEW l \in Lanes, Occupied(l)
    PROVE  Applied(k, order)[l] =
              Fed(slot[l].job, IF order.op = "Consume" /\ l \in LanesOf(order) THEN Count(l) + 1 ELSE Count(l))
<1>1. CASE /\ turn # << >> /\ order = Reset(Head(turn))
           /\ Occupied(Head(turn)) /\ slot[Head(turn)].fed = 0 /\ slot[Head(turn)].generated = 0
  <2> DEFINE h == Head(turn)
  <2>1. /\ order.op = "Reset" /\ LanesOf(order) = {h}
        /\ Applied(k, order)[l] = IF l = h THEN << >> ELSE consumed[k][l]
    BY <1>1, ResetNames
  <2>2. CASE l = h
    <3>1. Count(l) = 0
      BY <1>1, <2>2 DEF Count
    <3> QED
      BY <2>1, <2>2, <3>1, FedGrows
  <2>3. CASE l # h
    BY <2>1, <2>3 DEF Unserved, Before
  <2> QED
    BY <2>2, <2>3, <2>1
<1>2. CASE order = Feed(turn)
  <2>1. order.op = "Consume"
    BY <1>2 DEF Feed, Consume
  <2>2. Distinct(turn) /\ turn \in Seq(Lanes)
    BY <2>1 DEF LanesInv, LanesTyped, Machine, Ordered
  <2>3. LanesOf(order) = ToSet(turn)
    BY <1>2, <2>2, FeedNames
  <2>4. Before(k, l)
    BY <2>1 DEF Unserved
  <2>5. Placed
    BY DEF LanesInv, Books, Local, Engaged
  <2> QED
    BY <1>2, <2>1, <2>2, <2>3, <2>4, <2>5, FeedApplied DEF LanesInv
<1> QED
  BY <1>1, <1>2 DEF LanesInv, Machine, Ordered

\* A peer serves a command: the worker's, or the end of its life.
LEMMA PeerServesKeeps == ASSUME LanesInv, NEW p \in Peers, PeerServes(p) PROVE LanesInv'
<1>1. /\ UNCHANGED <<where, did, token_budget, remaining, cursor, admission, client, cancel, sent, closed,
                     slot, order, turn, awaited, current, logits, sampler>>
      /\ peer[p] = "idle" /\ commands[p] # << >>
      /\ commands' = [commands EXCEPT ![p] = Tail(@)]
  BY DEF PeerServes, sentVars, roundVars
<1>2. DOMAIN consumed' = LaneRanks /\ DOMAIN peer' = Peers /\ DOMAIN reply' = Peers
  BY DEF PeerServes, LanesInv, LanesTyped
<1>3. LanesTyped'
  BY <1>1, <1>2 DEF LanesInv, LanesTyped
<1>4. Books'
  BY <1>1, <1>3, BooksKept DEF LanesInv, LanesTyped, Local, Engaged, Looping
<1>5. CASE where = "dispatch"
  <2>1. Waited(p) /\ commands[p] = <<order>> /\ reply[p] = << >> /\ Unserved(p)
    <3>1. Commanded(p)
      BY <1>5 DEF LanesInv, Machine, Channels
    <3> QED
      BY <1>1, <3>1 DEF Commanded, Answering, Quiet
  <2>2. Head(commands[p]) = order /\ Tail(commands[p]) = << >>
    BY <2>1
  <2>3. order # Stop
    <3>1. \/ turn # << >> /\ order = Reset(Head(turn))
          \/ order = Feed(turn)
      BY <1>5 DEF LanesInv, Machine, Ordered
    <3>2. "Reset" # "Stop" /\ "Consume" # "Stop"
      OBVIOUS
    <3>3. order.op # "Stop"
      BY <3>1, <3>2 DEF Reset, Feed, Consume
    <3> QED
      BY <3>3 DEF Stop
  <2>4. PICK ok \in BOOLEAN :
           /\ consumed' = IF ok THEN [consumed EXCEPT ![p] = Applied(p, order)] ELSE consumed
           /\ reply' = [reply EXCEPT ![p] = Append(@, ok)]
           /\ peer' = [peer EXCEPT ![p] = IF ok THEN "idle" ELSE "gone"]
    BY <2>2, <2>3 DEF PeerServes
  <2>5. /\ commands'[p] = << >> /\ reply'[p] = <<ok>> /\ peer'[p] = IF ok THEN "idle" ELSE "gone"
        /\ \A q \in Peers : q # p => /\ commands'[q] = commands[q] /\ reply'[q] = reply[q]
                                     /\ peer'[q] = peer[q]
        /\ \A k \in LaneRanks : k # p => consumed'[k] = consumed[k]
        /\ ok => consumed'[p] = Applied(p, order)
    <3>1. p \in LaneRanks
      BY LanesAssumption DEF Peers, LaneRanks
    <3>2. DOMAIN commands = Peers /\ DOMAIN reply = Peers /\ DOMAIN peer = Peers /\ DOMAIN consumed = LaneRanks
      BY DEF LanesInv, LanesTyped
    <3> QED
      BY <1>1, <2>1, <2>2, <2>4, <3>1, <3>2
  <2>6. ASSUME NEW k \in LaneRanks, k # p
        PROVE  (Served(k)' <=> Served(k)) /\ (Unserved(k)' <=> Unserved(k))
    BY <1>1, <2>5, <2>6 DEF Served, Unserved, Before, After, Count, Occupied
  <2>7. ok => Served(p)'
    <3> SUFFICES ASSUME ok, NEW l \in Lanes, Occupied(l)
                 PROVE  IF order.op = "Consume" /\ l \in LanesOf(order) THEN After(p, l)' ELSE Before(p, l)'
      BY <1>1 DEF Served, Occupied
    <3>1. Applied(p, order)[l] =
             Fed(slot[l].job, IF order.op = "Consume" /\ l \in LanesOf(order) THEN Count(l) + 1 ELSE Count(l))
      BY <1>5, <2>1, CommandServed
    <3>2. consumed'[p][l] = Applied(p, order)[l]
      BY <2>5
    <3>3. UNCHANGED <<slot, order>> /\ Count(l)' = Count(l)
      BY <1>1 DEF Count
    <3> QED
      BY <3>1, <3>2, <3>3 DEF After, Before
  <2>8. ASSUME NEW q \in Peers
        PROVE  Commanded(q)'
    <3>1. Waited(q)' <=> Waited(q)
      BY <1>1 DEF Waited
    <3>2. CASE q = p
      <4>1. Answering(p)'
        BY <2>5 DEF Answering
      <4>2. peer'[p] = "idle" => Served(p)'
        BY <2>5, <2>7
      <4> QED
        BY <2>1, <3>1, <3>2, <4>1, <4>2 DEF Commanded
    <3>3. CASE q # p
      <4>1. Commanded(q)
        BY <1>5 DEF LanesInv, Machine, Channels
      <4>2. q \in LaneRanks
        BY LanesAssumption DEF Peers, LaneRanks
      <4>3. /\ (Answering(q)' <=> Answering(q)) /\ (Quiet(q)' <=> Quiet(q)) /\ UNCHANGED order
            /\ peer'[q] = peer[q] /\ commands'[q] = commands[q] /\ reply'[q] = reply[q]
        BY <1>1, <2>5, <3>3 DEF Answering, Quiet
      <4> QED
        BY <2>6, <3>1, <3>3, <4>1, <4>2, <4>3 DEF Commanded
    <3> QED
      BY <3>2, <3>3
  <2>9. Channels'
    BY <1>1, <1>5, <2>8 DEF Channels, Looping
  <2>10. Contents'
    <3>1. 0 \in LaneRanks /\ 0 # p
      BY LanesAssumption DEF Peers, LaneRanks
    <3>2. did => Served(0)'
      BY <1>5, <2>6, <3>1 DEF LanesInv, Machine, Contents
    <3> QED
      BY <1>1, <1>5, <3>2 DEF LanesInv, Machine, Contents, Looping, Count
  <2>11. Ordered' /\ Empty'
    BY <1>1, <1>5 DEF LanesInv, Machine, Ordered, Empty, Occupied, Feed, NextInput
  <2>12. Sampling'
    BY <1>1 DEF LanesInv, Machine, Sampling, Engaged, Looping, Unset, Occupied
  <2> QED
    BY <1>3, <1>4, <2>9, <2>10, <2>11, <2>12 DEF LanesInv, Machine
<1>6. CASE where # "dispatch"
  <2>1. ~Quiet(p) /\ ~Begins(p)
    BY <1>1 DEF Quiet, Begins, Answering
  <2>2. ~Looping /\ where \notin {"prepare", "starting"}
    BY <2>1 DEF LanesInv, Machine, Channels
  <2>3. where' \in {"failed", "finish", "join", "joining", "guard", "gone"}
    BY <1>1, <1>6, <2>2 DEF LanesInv, LanesTyped, LanePlaces, Looping
  <2> QED
    BY <1>3, <1>4, <2>3, MachineOver DEF LanesInv
<1> QED
  BY <1>5, <1>6

----------------------------------------------------------------------------
(* The loop.                                                               *)

\* A new tick forgets who has decoded, and nothing else of a lane.
LEMMA TickKeeps == LanesInv /\ Tick => LanesInv'
<1> SUFFICES ASSUME LanesInv, Tick PROVE LanesInv'
  OBVIOUS
<1>1. /\ UNCHANGED <<token_budget, cursor, admission, client, cancel, sent, closed, turn, awaited, order, did,
                     current, deviceVars, peerVars>>
      /\ where = "tick"
      /\ \/ where' = "finish" /\ UNCHANGED <<slot, remaining>>
         \/ /\ where' = "round" /\ remaining' = token_budget
            /\ slot' = [l \in Lanes |-> [slot[l] EXCEPT !.decoded = FALSE]]
  BY DEF Tick, sentVars
<1>2. CASE where' = "finish" /\ UNCHANGED <<slot, remaining>>
  <2>1. LanesTyped'
    BY <1>1, <1>2 DEF LanesInv, LanesTyped, LanePlaces, deviceVars, peerVars
  <2>2. Books'
    BY <1>1, <1>2, <2>1, BooksKept DEF LanesInv, LanesTyped, Local, Engaged, Looping
  <2> QED
    BY <1>2, <2>1, <2>2, MachineOver DEF LanesInv
<1>3. CASE /\ where' = "round" /\ remaining' = token_budget
           /\ slot' = [l \in Lanes |-> [slot[l] EXCEPT !.decoded = FALSE]]
  <2>1. /\ slot' \in [Lanes -> Running]
        /\ \A l \in Lanes : /\ slot'[l].job = slot[l].job /\ slot'[l].fed = slot[l].fed
                            /\ slot'[l].generated = slot[l].generated
    <3>1. \A l \in Lanes : slot[l] \in Running
      BY DEF LanesInv, LanesTyped
    <3>2. \A l \in Lanes : /\ slot'[l] = [slot[l] EXCEPT !.decoded = FALSE]
                           /\ slot'[l] \in Running
      BY <1>3, <3>1 DEF Running
    <3>3. \A l \in Lanes : /\ slot'[l].job = slot[l].job /\ slot'[l].fed = slot[l].fed
                           /\ slot'[l].generated = slot[l].generated
      BY <3>1, <3>2 DEF Running
    <3> QED
      BY <1>3, <3>2, <3>3
  <2>2. LanesTyped'
    BY <1>1, <1>3, <2>1 DEF LanesInv, LanesTyped, LanePlaces, deviceVars, peerVars
  <2>3. \A l \in Lanes : /\ Occupied(l)' <=> Occupied(l)
                         /\ Count(l)' = Count(l)
    BY <2>1 DEF Occupied, Count
  <2>4. Callers' /\ Streams'
    BY <1>1 DEF LanesInv, Books, Callers, Streams, Stream
  <2>5. Local
    BY <1>1 DEF Local, Engaged, Looping
  <2>6. Placed'
    <3>1. ASSUME NEW l \in Lanes, Occupied(l)
          PROVE  Fitting(slot[l].job) /\ Counted(l)' /\ Told(slot[l].job, slot[l].generated)'
      <4>1. Fitting(slot[l].job) /\ Counted(l) /\ Told(slot[l].job, slot[l].generated)
        BY <2>5, <3>1 DEF LanesInv, Books, Placed
      <4> QED
        BY <1>1, <2>1, <4>1 DEF Counted, Told
    <3> QED
      BY <1>1, <2>1, <2>3, <2>5, <3>1 DEF LanesInv, Books, Placed
  <2>7. ActiveExact'
    <3>1. JobsIn(Lanes)' = JobsIn(Lanes)
      BY <2>1, <2>3 DEF JobsIn
    <3>2. where \notin {"finish", "join", "joining", "guard", "gone"}
      BY <1>1
    <3> QED
      BY <1>1, <2>1, <2>3, <3>1, <3>2 DEF LanesInv, Books, ActiveExact
  <2>8. Channels' /\ Ordered' /\ Empty'
    BY <1>1, <1>3 DEF LanesInv, Machine, Channels, Ordered, Empty, Looping, Quiet, peerVars
  <2>9. Contents'
    <3>1. \A k \in LaneRanks : \A l \in Lanes : Occupied(l) => Before(k, l)
      BY <1>1 DEF LanesInv, Machine, Contents, Looping
    <3>2. \A k \in LaneRanks : \A l \in Lanes : Before(k, l)' <=> Before(k, l)
      BY <1>1, <2>1, <2>3 DEF Before, deviceVars
    <3> QED
      BY <1>3, <2>3, <3>1, <3>2 DEF Contents, Looping
  <2>10. Sampling'
    <3>1. \A l \in Lanes : Occupied(l) => Sampled(sampler[l], slot[l])
      BY <1>1 DEF LanesInv, Machine, Sampling, Engaged, Looping, Unset
    <3>2. \A l \in Lanes : Sampled(sampler[l], slot[l]) => Sampled(sampler'[l], slot'[l])
      BY <1>1, <2>1 DEF Sampled, deviceVars
    <3> QED
      BY <2>3, <3>1, <3>2 DEF Sampling
  <2> QED
    BY <2>2, <2>4, <2>6, <2>7, <2>8, <2>9, <2>10 DEF LanesInv, Books, Machine
<1> QED
  BY <1>1, <1>2, <1>3

\* Jobs whose sender is dropped.
LEMMA ClosedTyped == ASSUME LanesTyped, NEW rs PROVE Closed(rs) \in [Submissions -> BOOLEAN]
BY DEF LanesTyped, Closed

\* A failure is the last a stream carries.
LEMMA ReportKeeps == LanesInv /\ ReportFailure => LanesInv'
<1> SUFFICES ASSUME LanesInv, ReportFailure PROVE LanesInv'
  OBVIOUS
<1> DEFINE told == JobsIn(Lanes) \cup ToSet(admission)
<1>1. /\ UNCHANGED <<token_budget, remaining, cursor, client, cancel, slot, turn, awaited, order, did,
                     current, deviceVars, peerVars>>
      /\ where = "failed" /\ where' = "finish" /\ admission' = << >> /\ closed' = Closed(ToSet(admission))
      /\ sent' = [r \in Submissions |-> IF r \in told /\ Room(r) THEN Append(sent[r], Failure) ELSE sent[r]]
  BY DEF ReportFailure, roundVars
<1>2. \A r \in Submissions : sent[r] \in Seq(LaneMessages)
  BY DEF LanesInv, LanesTyped
<1>3. Failure \in LaneMessages /\ Failure.finish # "none"
  BY DEF LaneMessages, Failure, LaneMessage
<1>4. sent' \in [Submissions -> Seq(LaneMessages)]
  BY <1>1, <1>2, <1>3
<1>5. LanesTyped'
  <2>1. closed' \in [Submissions -> BOOLEAN] /\ << >> \in Seq(Submissions)
    BY <1>1, ClosedTyped DEF LanesInv
  <2> QED
    BY <1>1, <1>4, <2>1 DEF LanesInv, LanesTyped, LanePlaces, deviceVars, peerVars
<1>6. Placed
  BY <1>1 DEF LanesInv, Books, Local
<1>7. ASSUME NEW r \in Submissions, r \in told, client[r] = "open"
      PROVE  \A k \in DOMAIN sent[r] : sent[r][k].finish = "none"
  <2>1. CASE r \in ToSet(admission)
    <3>1. sent[r] = << >>
      BY <1>6, <2>1 DEF Placed, ToSet
    <3> QED
      BY <3>1
  <2>2. CASE r \in JobsIn(Lanes)
    BY <1>6, <1>7, <2>2 DEF Placed, Told, JobsIn
  <2> QED
    BY <1>7, <2>1, <2>2
<1>8. Callers'
  BY <1>1 DEF LanesInv, Books, Callers, Room, Fitting, ValidSampling, ValidCapacity
<1>9. Streams'
  <2> SUFFICES ASSUME NEW r \in Submissions PROVE Stream(r)'
    BY DEF Streams
  <2>1. Stream(r)
    BY DEF LanesInv, Books, Streams
  <2>2. CASE r \in told /\ Room(r)
    <3> DEFINE q == sent[r]
    <3>1. sent'[r] = Append(q, Failure)
      BY <1>1, <2>2
    <3>2. \A k \in DOMAIN q : q[k].finish = "none"
      BY <1>7, <2>2 DEF Room
    <3>3. q \in Seq(LaneMessages)
      BY <1>2
    <3>4. /\ Len(Append(q, Failure)) = Len(q) + 1 /\ DOMAIN Append(q, Failure) = 1 .. Len(q) + 1
          /\ \A k \in 1 .. Len(q) : Append(q, Failure)[k] = q[k]
          /\ Append(q, Failure)[Len(q) + 1] = Failure
      BY <3>3
    <3>5. \A k \in DOMAIN q : q[k].from = Fed(r, PromptLen[r] + k - 1) /\ k <= MaxTokens[r]
      BY <1>3, <2>1, <3>2 DEF Stream
    <3>6. "none" # "stop"
      OBVIOUS
    <3> SUFFICES ASSUME NEW k \in 1 .. Len(q) + 1
                 PROVE  LET m == sent'[r][k] IN
                        \/ m = Failure /\ k = Len(sent'[r])
                        \/ /\ m.from = Fed(r, PromptLen[r] + k - 1) /\ k <= MaxTokens[r]
                           /\ m.finish # "none" => k = Len(sent'[r])
                           /\ m.finish = "stop" => k > MinTokens[r]
      BY <3>1, <3>4 DEF Stream
    <3>7. CASE k = Len(q) + 1
      BY <3>1, <3>4, <3>7
    <3>8. CASE k \in 1 .. Len(q)
      <4>1. sent'[r][k] = q[k] /\ k \in DOMAIN q
        BY <3>1, <3>3, <3>4, <3>8
      <4> QED
        BY <3>2, <3>5, <3>6, <4>1
    <3>9. Len(q) \in Nat
      BY <3>3
    <3> QED
      BY <3>7, <3>8, <3>9
  <2>3. CASE ~(r \in told /\ Room(r))
    <3>1. sent'[r] = sent[r]
      BY <1>1, <2>3
    <3> QED
      BY <2>1, <3>1 DEF Stream
  <2> QED
    BY <2>2, <2>3
<1>10. (Local' => Placed') /\ ActiveExact'
  BY <1>1 DEF Local, Engaged, Looping, ActiveExact
<1> QED
  BY <1>1, <1>5, <1>8, <1>9, <1>10, MachineOver DEF LanesInv, Books

\* With its locals the loop gives up every place.
LEMMA FinishKeeps == LanesInv /\ (FinishRun \/ DropReceiver) => LanesInv'
<1> SUFFICES ASSUME LanesInv, FinishRun \/ DropReceiver PROVE LanesInv'
  OBVIOUS
<1>1. /\ UNCHANGED <<token_budget, client, cancel, sent, peerVars>>
      /\ where' \in {"join", "gone"}
      /\ closed' \in [Submissions -> BOOLEAN]
      /\ admission' \in Seq(Submissions)
  <2>1. \A rs : Closed(rs) \in [Submissions -> BOOLEAN]
    BY ClosedTyped DEF LanesInv
  <2>2. admission \in Seq(Submissions) /\ << >> \in Seq(Submissions)
    BY DEF LanesInv, LanesTyped
  <2>3. CASE FinishRun
    <3>1. closed' = Closed(JobsIn(Lanes)) /\ admission' = admission
      BY <2>3 DEF FinishRun
    <3> QED
      BY <2>1, <2>2, <2>3, <3>1 DEF FinishRun
  <2>4. CASE DropReceiver
    <3>1. closed' = Closed(ToSet(admission)) /\ admission' = << >>
      BY <2>4 DEF DropReceiver
    <3> QED
      BY <2>1, <2>2, <2>4, <3>1 DEF DropReceiver, roundVars
  <2> QED
    BY <2>3, <2>4
<1>2. /\ slot' \in [Lanes -> Running] /\ remaining' \in Nat /\ cursor' \in Lanes /\ did' \in BOOLEAN
      /\ turn' \in Seq(Lanes) /\ DOMAIN consumed' = LaneRanks /\ DOMAIN logits' = Lanes /\ DOMAIN sampler' = Lanes
  <2>1. CASE FinishRun
    <3>1. Free \in Running /\ 0 \in Lanes /\ << >> \in Seq(Lanes)
      BY LanesAssumption DEF Free, Running, Lanes
    <3> QED
      BY <2>1, <3>1 DEF FinishRun
  <2>2. CASE DropReceiver
    BY <2>2 DEF DropReceiver, LanesInv, LanesTyped, roundVars, deviceVars
  <2> QED
    BY <2>1, <2>2
<1>3. awaited' \in Seq(Peers) /\ Distinct(awaited)'
  BY AllPeers DEF FinishRun, DropReceiver, LanesInv, LanesTyped, Distinct
<1>4. LanesTyped'
  BY <1>1, <1>2, <1>3 DEF LanesInv, LanesTyped, LanePlaces, peerVars
<1>5. Callers' /\ Streams'
  BY <1>1 DEF LanesInv, Books, Callers, Streams, Stream
<1>6. (Local' => Placed') /\ ActiveExact'
  BY <1>1 DEF Local, Engaged, Looping, ActiveExact
<1> QED
  BY <1>1, <1>4, <1>5, <1>6, MachineOver DEF LanesInv, Books

----------------------------------------------------------------------------
(* Lanes given up.                                                         *)

\* A lane given up is free; every other is as it was.
LEMMA Released ==
    ASSUME LanesTyped, NEW ls \in SUBSET Lanes, Release(ls)
    PROVE  /\ slot' \in [Lanes -> Running] /\ closed' \in [Submissions -> BOOLEAN]
           /\ DOMAIN consumed' = LaneRanks /\ DOMAIN sampler' = Lanes
           /\ \A l \in Lanes : Occupied(l)' <=> (Occupied(l) /\ l \notin ls)
           /\ \A l \in Lanes \ ls : /\ slot'[l] = slot[l] /\ sampler'[l] = sampler[l]
                                    /\ \A k \in LaneRanks : consumed'[k][l] = consumed[k][l]
<1>1. Free \in Running /\ Free.job = "none"
  BY DEF Free, Running
<1>2. slot' = [l \in Lanes |-> IF l \in ls THEN Free ELSE slot[l]]
  BY DEF Release
<1>3. slot' \in [Lanes -> Running] /\ \A l \in Lanes : slot'[l] = IF l \in ls THEN Free ELSE slot[l]
  BY <1>1, <1>2 DEF LanesTyped
<1>4. closed' \in [Submissions -> BOOLEAN]
  <2>1. closed' = Closed(JobsIn(ls))
    BY DEF Release
  <2> QED
    BY <2>1, ClosedTyped
<1>5. \A l \in Lanes : Occupied(l)' <=> (Occupied(l) /\ l \notin ls)
  BY <1>1, <1>3 DEF Occupied
<1>6. /\ DOMAIN consumed' = LaneRanks /\ DOMAIN sampler' = Lanes
      /\ \A l \in Lanes \ ls : /\ sampler'[l] = sampler[l]
                               /\ \A k \in LaneRanks : consumed'[k][l] = consumed[k][l]
  BY DEF Release
<1> QED
  BY <1>3, <1>4, <1>5, <1>6

\* The ids of the lanes given up leave the active map, and no other place is disturbed.
LEMMA FewerPlaces ==
    ASSUME LanesInv, Local, NEW ls \in SUBSET Lanes, Release(ls), UNCHANGED <<admission, client>>,
           \A r \in Submissions : sent'[r] = sent[r] \/ \E l \in ls : Occupied(l) /\ slot[l].job = r
    PROVE  Placed' /\ ActiveExact'
<1> DEFINE queued == ToSet(admission)
           running == JobsIn(Lanes)
           left == JobsIn(ls)
<1>1. where \notin {"finish", "join", "joining", "guard", "gone"}
  BY DEF Local, Engaged, Looping
<1>2. /\ \A i, j \in DOMAIN admission : RequestId[admission[i]] = RequestId[admission[j]] => i = j
      /\ \A l, m \in {x \in Lanes : Occupied(x)} :
            RequestId[slot[l].job] = RequestId[slot[m].job] => l = m
      /\ IdsOf(queued) \cap IdsOf(running) = {}
      /\ DOMAIN current = IdsOf(queued \cup running)
      /\ \A x \in queued \cup running : current[RequestId[x]] = x
  BY <1>1 DEF LanesInv, Books, ActiveExact
<1>3. /\ \A l \in Lanes : Occupied(l)' <=> (Occupied(l) /\ l \notin ls)
      /\ \A l \in Lanes \ ls : slot'[l] = slot[l]
  BY Released DEF LanesInv
<1>4. current' = [i \in DOMAIN current \ IdsOf(left) |-> current[i]]
  BY DEF Release, Without
<1>5. JobsIn(Lanes)' = {slot[l].job : l \in {x \in Lanes \ ls : Occupied(x)}}
  BY <1>3 DEF JobsIn
<1>6. ASSUME NEW l \in Lanes \ ls, Occupied(l), NEW m \in ls, Occupied(m)
      PROVE  RequestId[slot[l].job] # RequestId[slot[m].job]
  BY <1>2, <1>6
<1>7. ASSUME NEW x \in queued, NEW m \in ls, Occupied(m)
      PROVE  RequestId[x] # RequestId[slot[m].job]
  BY <1>2, <1>7 DEF IdsOf, JobsIn
<1>8. Placed'
  <2>1. ASSUME NEW i \in DOMAIN admission
        PROVE  Fitting(admission[i]) /\ sent'[admission[i]] = << >>
    <3>1. admission[i] \in Submissions /\ admission[i] \in queued
      BY DEF LanesInv, LanesTyped, ToSet
    <3>2. sent'[admission[i]] = sent[admission[i]]
      BY <1>7, <3>1
    <3> QED
      BY <3>2 DEF LanesInv, Books, Placed
  <2>2. ASSUME NEW l \in Lanes \ ls, Occupied(l)
        PROVE  Fitting(slot[l].job) /\ Counted(l)' /\ Told(slot[l].job, slot[l].generated)'
    <3>1. slot[l].job \in Submissions
      BY <2>2 DEF LanesInv, LanesTyped, Running, Occupied
    <3>2. sent'[slot[l].job] = sent[slot[l].job] /\ slot'[l] = slot[l]
      BY <1>3, <1>6, <2>2, <3>1
    <3>3. Fitting(slot[l].job) /\ Counted(l) /\ Told(slot[l].job, slot[l].generated)
      BY <2>2 DEF LanesInv, Books, Placed
    <3>4. Counted(l)'
      BY <3>2, <3>3 DEF Counted
    <3>5. Told(slot[l].job, slot[l].generated)'
      BY <3>2, <3>3 DEF Told
    <3> QED
      BY <3>3, <3>4, <3>5
  <2>3. \A l \in Lanes : Occupied(l)' => Fitting(slot'[l].job) /\ Counted(l)' /\ Told(slot[l].job, slot[l].generated)'
    BY <1>3, <2>2 DEF Fitting, ValidSampling, ValidCapacity
  <2> QED
    BY <2>1, <2>3 DEF Placed, Fitting, ValidSampling, ValidCapacity
<1>9. ActiveExact'
  <2>1. \A l, m \in {x \in Lanes : Occupied(x)'} : RequestId[slot'[l].job] = RequestId[slot'[m].job] => l = m
    BY <1>2, <1>3
  <2>2. IdsOf(JobsIn(Lanes)') \subseteq IdsOf(running)
    <3>1. JobsIn(Lanes)' \subseteq running
      BY <1>5 DEF JobsIn
    <3> QED
      BY <3>1 DEF IdsOf
  <2>3. DOMAIN current' = IdsOf(queued \cup JobsIn(Lanes)')
    <3>1. ASSUME NEW i \in DOMAIN current, i \notin IdsOf(left)
          PROVE  i \in IdsOf(queued \cup JobsIn(Lanes)')
      BY <1>2, <1>5, <3>1 DEF IdsOf, JobsIn
    <3>2. ASSUME NEW x \in queued \cup JobsIn(Lanes)'
          PROVE  RequestId[x] \in DOMAIN current /\ RequestId[x] \notin IdsOf(left)
      <4>1. x \in queued \cup running
        BY <1>5 DEF JobsIn
      <4>2. RequestId[x] \notin IdsOf(left)
        BY <1>5, <1>6, <1>7 DEF IdsOf, JobsIn
      <4> QED
        BY <1>2, <4>1, <4>2 DEF IdsOf
    <3> QED
      BY <1>4, <3>1, <3>2 DEF IdsOf
  <2>4. \A x \in queued \cup JobsIn(Lanes)' : current'[RequestId[x]] = x
    <3> SUFFICES ASSUME NEW x \in queued \cup JobsIn(Lanes)' PROVE current'[RequestId[x]] = x
      OBVIOUS
    <3>1. x \in queued \cup running
      BY <1>5 DEF JobsIn
    <3>2. RequestId[x] \in DOMAIN current'
      BY <2>3 DEF IdsOf
    <3> QED
      BY <1>2, <1>4, <3>1, <3>2
  <2>5. IdsOf(queued) \cap IdsOf(JobsIn(Lanes)') = {}
    BY <1>2, <2>2
  <2> QED
    BY <1>2, <2>1, <2>3, <2>4, <2>5 DEF ActiveExact, IdsOf
<1> QED
  BY <1>8, <1>9

LEMMA RoundKeeps == LanesInv /\ Round => LanesInv'
<1> SUFFICES ASSUME LanesInv, Round PROVE LanesInv'
  OBVIOUS
<1> DEFINE ls == {l \in Lanes : Occupied(l) /\ cancel[slot[l].job]}
<1>1. /\ UNCHANGED <<token_budget, remaining, cursor, admission, client, cancel, sent, order, did, awaited,
                     logits, peerVars>>
      /\ where = "round"
      /\ \/ where' = "tick" /\ UNCHANGED <<slot, current, closed, turn, consumed, sampler>>
         \/ Release(ls) /\ where' = "admit" /\ turn' = LaneSeq
  BY DEF Round, roundVars
<1>2. CASE where' = "tick" /\ UNCHANGED <<slot, current, closed, turn, consumed, sampler>>
  <2>1. LanesTyped'
    BY <1>1, <1>2 DEF LanesInv, LanesTyped, LanePlaces, peerVars
  <2>2. Books'
    BY <1>1, <1>2, <2>1, BooksKept DEF LanesInv, LanesTyped, Local, Engaged, Looping
  <2>3. Channels' /\ Ordered' /\ Empty'
    BY <1>1, <1>2 DEF LanesInv, Machine, Channels, Ordered, Empty, Looping, Quiet, peerVars
  <2>4. Contents'
    BY <1>1, <1>2 DEF LanesInv, Machine, Contents, Looping, Before, Count, Occupied
  <2>5. Sampling'
    BY <1>1, <1>2 DEF LanesInv, Machine, Sampling, Engaged, Looping, Unset, Occupied
  <2> QED
    BY <2>1, <2>2, <2>3, <2>4, <2>5 DEF LanesInv, Machine
<1>3. CASE Release(ls) /\ where' = "admit" /\ turn' = LaneSeq
  <2> HIDE DEF ls
  <2>1. ls \in SUBSET Lanes
    BY DEF ls
  <2>2. /\ slot' \in [Lanes -> Running] /\ closed' \in [Submissions -> BOOLEAN]
        /\ DOMAIN consumed' = LaneRanks /\ DOMAIN sampler' = Lanes
        /\ \A l \in Lanes : Occupied(l)' <=> (Occupied(l) /\ l \notin ls)
        /\ \A l \in Lanes \ ls : /\ slot'[l] = slot[l] /\ sampler'[l] = sampler[l]
                                 /\ \A k \in LaneRanks : consumed'[k][l] = consumed[k][l]
    BY <1>3, <2>1, Released DEF LanesInv
  <2>3. LaneSeq \in Seq(Lanes)
    BY LanesAssumption DEF LaneSeq, Lanes
  <2>4. LanesTyped'
    BY <1>1, <1>3, <2>2, <2>3 DEF LanesInv, LanesTyped, LanePlaces, peerVars
  <2>5. Local
    BY <1>1 DEF Local, Engaged, Looping
  <2>6. Placed' /\ ActiveExact'
    BY <1>1, <1>3, <2>1, <2>5, FewerPlaces
  <2>7. Callers' /\ Streams'
    BY <1>1 DEF LanesInv, Books, Callers, Streams, Stream
  <2>8. Channels' /\ Ordered' /\ Empty'
    BY <1>1, <1>3 DEF LanesInv, Machine, Channels, Ordered, Empty, Looping, Quiet, peerVars
  <2>9. Contents'
    <3>1. ASSUME NEW k \in LaneRanks, NEW l \in Lanes, Occupied(l)'
          PROVE  Before(k, l)'
      <4>1. Before(k, l)
        BY <1>1, <2>2, <3>1 DEF LanesInv, Machine, Contents, Looping
      <4> QED
        BY <2>2, <3>1, <4>1 DEF Before, Count
    <3> QED
      BY <1>3, <3>1 DEF Contents, Looping
  <2>10. Sampling'
    <3>1. \A l \in Lanes : Occupied(l) => Sampled(sampler[l], slot[l])
      BY <1>1 DEF LanesInv, Machine, Sampling, Engaged, Looping, Unset
    <3> QED
      BY <2>2, <3>1 DEF Sampling
  <2> QED
    BY <2>4, <2>6, <2>7, <2>8, <2>9, <2>10 DEF LanesInv, Books, Machine
<1> QED
  BY <1>1, <1>2, <1>3

----------------------------------------------------------------------------
(* A dispatch.                                                             *)

\* The command is on its way to every peer, and rank 0 has carried it out or failed.
LEMMA Dispatched ==
    ASSUME LanesTyped, NEW c, Dispatch(c), UNCHANGED <<peer, reply>>, \A p \in Peers : Quiet(p)
    PROVE  /\ where' = "dispatch" /\ order' = c /\ did' \in BOOLEAN
           /\ awaited' \in Seq(Peers) /\ Distinct(awaited)'
           /\ DOMAIN consumed' = LaneRanks /\ DOMAIN logits' = Lanes /\ DOMAIN commands' = Peers
           /\ \A p \in Peers : /\ Waited(p)' /\ peer'[p] = "idle" /\ commands'[p] = <<c>> /\ reply'[p] = << >>
                               /\ consumed'[p] = consumed[p]
           /\ did' => consumed'[0] = Applied(0, c) /\ logits' = Replayed(c)
<1>1. /\ commands' = [p \in Peers |-> Append(commands[p], c)]
      /\ order' = c /\ awaited' = PeerSeq /\ where' = "dispatch"
  BY DEF Dispatch
<1>2. PICK ok \in BOOLEAN :
         /\ did' = ok
         /\ consumed' = IF ok THEN [consumed EXCEPT ![0] = Applied(0, c)] ELSE consumed
         /\ logits' = IF ok THEN Replayed(c) ELSE logits
  BY DEF Dispatch
<1>3. 0 \in LaneRanks /\ \A p \in Peers : p # 0 /\ p \in LaneRanks
  BY LanesAssumption DEF LaneRanks, Peers
<1>4. DOMAIN consumed' = LaneRanks /\ DOMAIN logits' = Lanes
  BY <1>2 DEF LanesTyped, Replayed
<1>5. ASSUME NEW p \in Peers
      PROVE  peer'[p] = "idle" /\ commands'[p] = <<c>> /\ reply'[p] = << >>
  <2>1. Append(<< >>, c) = <<c>>
    OBVIOUS
  <2>2. peer[p] = "idle" /\ commands[p] = << >> /\ reply[p] = << >>
    BY DEF Quiet
  <2>3. commands'[p] = Append(commands[p], c)
    BY <1>1, Zenon
  <2> QED
    BY <2>1, <2>2, <2>3, Zenon
<1>6. \A p \in Peers : consumed'[p] = consumed[p]
  BY <1>2, <1>3 DEF LanesTyped
<1>7. did' => consumed'[0] = Applied(0, c) /\ logits' = Replayed(c)
  BY <1>2, <1>3 DEF LanesTyped
<1>8. awaited' \in Seq(Peers) /\ Distinct(awaited)' /\ \A p \in Peers : Waited(p)'
  BY <1>1, AllPeers DEF Waited, Distinct
<1> QED
  BY <1>1, <1>2, <1>4, <1>5, <1>6, <1>7, <1>8

LEMMA SelectKeeps == LanesInv /\ Select => LanesInv'
<1> SUFFICES ASSUME LanesInv, Select PROVE LanesInv'
  OBVIOUS
<1> DEFINE q == SelectRound
<1>1. /\ UNCHANGED <<token_budget, remaining, admission, client, cancel, sent, closed, current, slot, sampler,
                     peer, reply>>
      /\ where = "select" /\ turn' = q /\ cursor' = CursorAfter(q)
      /\ \/ where' = "tick" /\ q = << >> /\ UNCHANGED <<order, did, awaited, consumed, logits, commands>>
         \/ Dispatch(Feed(q))
  BY DEF Select, Feed, sentVars
<1>2. /\ q \in Seq(Lanes) /\ Distinct(q) /\ Len(q) <= remaining
      /\ \A i \in DOMAIN q : Occupied(q[i])
      /\ CursorAfter(q) \in Lanes
  BY RoundSelects DEF LanesInv
<1> HIDE DEF q
<1>3. \A p \in Peers : Quiet(p)
  BY <1>1 DEF LanesInv, Machine, Channels, Looping
<1>4. \A k \in LaneRanks : \A l \in Lanes : Occupied(l) => Before(k, l)
  BY <1>1 DEF LanesInv, Machine, Contents, Looping
<1>5. \A l \in Lanes : Occupied(l) => Sampled(sampler[l], slot[l])
  BY <1>1 DEF LanesInv, Machine, Sampling, Engaged, Looping, Unset
<1>6. \A l \in Lanes : (Occupied(l)' <=> Occupied(l)) /\ Count(l)' = Count(l) /\ NextInput(l)' = NextInput(l)
  BY <1>1 DEF Occupied, Count, NextInput
<1>7. CASE where' = "tick" /\ q = << >> /\ UNCHANGED <<order, did, awaited, consumed, logits, commands>>
  <2>1. LanesTyped'
    BY <1>1, <1>2, <1>7 DEF LanesInv, LanesTyped, LanePlaces
  <2>2. Books'
    BY <1>1, <1>7, <2>1, BooksKept DEF LanesInv, LanesTyped, Local, Engaged, Looping
  <2>3. Channels' /\ Ordered' /\ Empty'
    BY <1>1, <1>3, <1>7 DEF Channels, Ordered, Empty, Looping, Quiet
  <2>4. Contents'
    BY <1>1, <1>4, <1>6, <1>7 DEF Contents, Looping, Before
  <2>5. Sampling'
    BY <1>1, <1>5, <1>6, <1>7 DEF Sampling
  <2> QED
    BY <2>1, <2>2, <2>3, <2>4, <2>5 DEF LanesInv, Machine
<1>8. CASE Dispatch(Feed(q))
  <2> DEFINE c == Feed(q)
  <2> HIDE DEF c
  <2>1. /\ where' = "dispatch" /\ order' = c /\ did' \in BOOLEAN
        /\ awaited' \in Seq(Peers) /\ Distinct(awaited)'
        /\ DOMAIN consumed' = LaneRanks /\ DOMAIN logits' = Lanes /\ DOMAIN commands' = Peers
        /\ \A p \in Peers : /\ Waited(p)' /\ peer'[p] = "idle" /\ commands'[p] = <<c>> /\ reply'[p] = << >>
                            /\ consumed'[p] = consumed[p]
        /\ did' => consumed'[0] = Applied(0, c) /\ logits' = Replayed(c)
    BY <1>1, <1>3, <1>8, Dispatched DEF LanesInv, c
  <2>2. LanesTyped'
    BY <1>1, <1>2, <2>1 DEF LanesInv, LanesTyped, LanePlaces
  <2>3. Books'
    BY <1>1, <2>1, <2>2, BooksKept DEF LanesInv, LanesTyped, Local, Engaged, Looping
  <2>4. c.op = "Consume" /\ LanesOf(c) = ToSet(q) /\ c.op # "Reset"
    <3>1. "Consume" # "Reset"
      OBVIOUS
    <3> QED
      BY <1>2, <3>1, FeedNames DEF c
  <2>5. Feed(turn)' = c
    <3>1. turn' = q /\ slot' = slot
      BY <1>1
    <3> QED
      BY <3>1 DEF Feed, NextInput, c
  <2>6. Channels'
    <3>1. ASSUME NEW p \in Peers
          PROVE  Commanded(p)'
      <4>1. \A l \in Lanes : Occupied(l) => Before(p, l)'
        <5>1. p \in LaneRanks
          BY LanesAssumption DEF LaneRanks, Peers
        <5> QED
          BY <1>1, <1>4, <1>6, <2>1, <5>1 DEF Before
      <4>2. Unserved(p)'
        BY <1>6, <4>1 DEF Unserved
      <4> QED
        BY <2>1, <4>2 DEF Commanded
    <3> QED
      BY <2>1, <3>1 DEF Channels, Looping
  <2>7. Ordered'
    BY <1>1, <1>2, <1>6, <2>1, <2>5 DEF Ordered, Distinct
  <2>8. ASSUME did', NEW l \in Lanes, Occupied(l)
        PROVE  /\ consumed'[0][l] = Fed(slot[l].job, IF l \in ToSet(q) THEN Count(l) + 1 ELSE Count(l))
               /\ l \in ToSet(q) => logits'[l] = Fed(slot[l].job, Count(l) + 1)
    <3>1. Before(0, l) /\ Placed
      <4>1. 0 \in LaneRanks
        BY LanesAssumption DEF LaneRanks
      <4> QED
        BY <1>1, <1>4, <2>8, <4>1 DEF LanesInv, Books, Local, Engaged, Looping
    <3>2. /\ Applied(0, c)[l] = Fed(slot[l].job, IF l \in ToSet(q) THEN Count(l) + 1 ELSE Count(l))
          /\ l \in ToSet(q) => Append(consumed[0][l], TokenFor(c, l)) = Fed(slot[l].job, Count(l) + 1)
      BY <1>2, <2>8, <3>1, FeedApplied DEF LanesInv, c
    <3>3. l \in ToSet(q) => logits'[l] = Append(consumed[0][l], TokenFor(c, l))
      BY <2>1, <2>4, <2>8 DEF Replayed
    <3> QED
      BY <2>1, <2>8, <3>2, <3>3
  <2>9. Contents'
    <3>1. did' => Served(0)'
      BY <1>1, <1>6, <2>1, <2>4, <2>8 DEF Served, After, Before
    <3>2. did' => \A i \in DOMAIN q : logits'[q[i]] = Fed(slot[q[i]].job, Count(q[i]) + 1)
      BY <1>2, <2>8 DEF ToSet
    <3>3. did' => (\A i \in DOMAIN turn : logits[turn[i]] = Fed(slot[turn[i]].job, Count(turn[i]) + 1))'
      <4>1. turn' = q /\ slot' = slot
        BY <1>1
      <4> QED
        BY <3>2, <4>1 DEF Count
    <3> QED
      BY <2>1, <3>1, <3>3 DEF Contents, Looping
  <2>10. Sampling'
    BY <1>1, <1>5, <1>6 DEF Sampling
  <2> QED
    BY <2>1, <2>2, <2>3, <2>6, <2>7, <2>9, <2>10 DEF LanesInv, Machine, Empty
<1> QED
  BY <1>1, <1>7, <1>8

----------------------------------------------------------------------------
(* Admission.                                                              *)

\* A job that leaves the queue for no lane takes its id with it.
LEMMA JobGivenUp ==
    ASSUME LanesInv, Local, admission # << >>, UNCHANGED <<slot, client, sent>>,
           admission' = Tail(admission), current' = Without({RequestId[Head(admission)]})
    PROVE  Placed' /\ ActiveExact'
<1> DEFINE r == Head(admission)
           queued == ToSet(admission)
           running == JobsIn(Lanes)
<1>1. where \notin {"finish", "join", "joining", "guard", "gone"}
  BY DEF Local, Engaged, Looping
<1>2. /\ \A i, j \in DOMAIN admission : RequestId[admission[i]] = RequestId[admission[j]] => i = j
      /\ \A l, m \in {x \in Lanes : Occupied(x)} :
            RequestId[slot[l].job] = RequestId[slot[m].job] => l = m
      /\ IdsOf(queued) \cap IdsOf(running) = {}
      /\ DOMAIN current = IdsOf(queued \cup running)
      /\ \A x \in queued \cup running : current[RequestId[x]] = x
  BY <1>1 DEF LanesInv, Books, ActiveExact
<1>3. /\ r = admission[1] /\ 1 \in DOMAIN admission
      /\ \A i \in DOMAIN admission' : /\ i + 1 \in DOMAIN admission /\ i + 1 # 1
                                      /\ admission'[i] = admission[i + 1]
      /\ \A i \in DOMAIN admission : i # 1 => i - 1 \in DOMAIN admission' /\ admission'[i - 1] = admission[i]
      /\ DOMAIN admission' \subseteq Nat
  BY Rest DEF LanesInv, LanesTyped
<1>4. \A i \in DOMAIN admission' : RequestId[admission'[i]] # RequestId[r]
  BY <1>2, <1>3
<1>5. queued' = queued \ {r}
  <2>1. \A x \in queued' : x \in queued /\ x # r
    BY <1>3, <1>4 DEF ToSet
  <2>2. \A x \in queued : x # r => x \in queued'
    BY <1>3 DEF ToSet
  <2> QED
    BY <2>1, <2>2
<1>6. \A x \in queued' \cup running : RequestId[x] # RequestId[r]
  <2>1. \A x \in queued' : RequestId[x] # RequestId[r]
    BY <1>4 DEF ToSet
  <2>2. r \in queued
    BY <1>3 DEF ToSet
  <2>3. \A x \in running : RequestId[x] # RequestId[r]
    BY <1>2, <2>2 DEF IdsOf
  <2> QED
    BY <2>1, <2>3
<1>7. Placed'
  BY <1>3 DEF LanesInv, Books, Placed, Occupied, Counted, Told, Fitting, ValidSampling, ValidCapacity
<1>8. current' = [i \in DOMAIN current \ {RequestId[r]} |-> current[i]]
  BY DEF Without
<1>9. running' = running /\ \A l \in Lanes : Occupied(l)' <=> Occupied(l)
  BY DEF JobsIn, Occupied
<1>10. \A i, j \in DOMAIN admission' : RequestId[admission'[i]] = RequestId[admission'[j]] => i = j
  <2> SUFFICES ASSUME NEW i \in DOMAIN admission', NEW j \in DOMAIN admission',
                      RequestId[admission'[i]] = RequestId[admission'[j]]
               PROVE  i = j
    OBVIOUS
  <2>1. i + 1 = j + 1
    BY <1>2, <1>3
  <2>2. i \in Nat /\ j \in Nat
    BY <1>3
  <2> QED
    BY <2>1, <2>2
<1>11. DOMAIN current' = IdsOf(queued' \cup running)
  <2>1. \A i \in DOMAIN current' : i \in IdsOf(queued' \cup running)
    BY <1>2, <1>5, <1>8 DEF IdsOf
  <2>2. \A x \in queued' \cup running : RequestId[x] \in DOMAIN current'
    BY <1>2, <1>5, <1>6, <1>8 DEF IdsOf
  <2> QED
    BY <2>1, <2>2 DEF IdsOf
<1>12. \A x \in queued' \cup running : current'[RequestId[x]] = x
  <2> SUFFICES ASSUME NEW x \in queued' \cup running PROVE current'[RequestId[x]] = x
    OBVIOUS
  <2>1. RequestId[x] \in DOMAIN current'
    BY <1>11 DEF IdsOf
  <2> QED
    BY <1>2, <1>5, <1>8, <2>1
<1>13. IdsOf(queued') \cap IdsOf(running) = {}
  <2>1. queued' \subseteq queued
    BY <1>5
  <2>2. IdsOf(queued') \subseteq IdsOf(queued)
    BY <2>1 DEF IdsOf
  <2> QED
    BY <1>2, <2>2
<1>14. \A l, m \in {x \in Lanes : Occupied(x)'} : RequestId[slot'[l].job] = RequestId[slot'[m].job] => l = m
  BY <1>2, <1>9
<1> QED
  BY <1>7, <1>9, <1>10, <1>11, <1>12, <1>13, <1>14 DEF ActiveExact, IdsOf

\* A job that leaves the queue for a free lane keeps its id.
LEMMA JobTaken ==
    ASSUME LanesInv, Local, admission # << >>, UNCHANGED <<client, sent, current>>,
           admission' = Tail(admission), NEW h \in Lanes, ~Occupied(h),
           slot' = [slot EXCEPT ![h] = [Free EXCEPT !.job = Head(admission)]]
    PROVE  Placed' /\ ActiveExact'
<1> DEFINE r == Head(admission)
           queued == ToSet(admission)
           running == JobsIn(Lanes)
<1>1. where \notin {"finish", "join", "joining", "guard", "gone"}
  BY DEF Local, Engaged, Looping
<1>2. /\ \A i, j \in DOMAIN admission : RequestId[admission[i]] = RequestId[admission[j]] => i = j
      /\ \A l, m \in {x \in Lanes : Occupied(x)} :
            RequestId[slot[l].job] = RequestId[slot[m].job] => l = m
      /\ IdsOf(queued) \cap IdsOf(running) = {}
      /\ DOMAIN current = IdsOf(queued \cup running)
      /\ \A x \in queued \cup running : current[RequestId[x]] = x
  BY <1>1 DEF LanesInv, Books, ActiveExact
<1>3. /\ r = admission[1] /\ 1 \in DOMAIN admission /\ r \in Submissions
      /\ \A i \in DOMAIN admission' : /\ i + 1 \in DOMAIN admission /\ i + 1 # 1
                                      /\ admission'[i] = admission[i + 1]
      /\ \A i \in DOMAIN admission : i # 1 => i - 1 \in DOMAIN admission' /\ admission'[i - 1] = admission[i]
      /\ DOMAIN admission' \subseteq Nat
  BY Rest DEF LanesInv, LanesTyped
<1>4. \A i \in DOMAIN admission' : RequestId[admission'[i]] # RequestId[r]
  BY <1>2, <1>3
<1>5. queued' = queued \ {r} /\ r \in queued
  <2>1. \A x \in queued' : x \in queued /\ x # r
    BY <1>3, <1>4 DEF ToSet
  <2>2. \A x \in queued : x # r => x \in queued'
    BY <1>3 DEF ToSet
  <2>3. r \in queued
    BY <1>3 DEF ToSet
  <2> QED
    BY <2>1, <2>2, <2>3
<1>6. /\ \A l \in Lanes : l # h => slot'[l] = slot[l]
      /\ slot'[h].job = r /\ slot'[h].fed = 0 /\ slot'[h].generated = 0
  BY DEF LanesInv, LanesTyped, Free
<1>7. r # "none" /\ \A l \in Lanes : Occupied(l)' <=> (Occupied(l) \/ l = h)
  BY <1>3, <1>6, LanesAssumption DEF Occupied
<1>8. running' = running \cup {r}
  <2>1. \A x \in running' : x \in running \/ x = r
    BY <1>6, <1>7 DEF JobsIn
  <2>2. \A x \in running : x \in running'
    BY <1>6, <1>7 DEF JobsIn
  <2>3. r \in running'
    BY <1>6, <1>7 DEF JobsIn
  <2> QED
    BY <2>1, <2>2, <2>3
<1>9. Placed'
  <2>1. \A i \in DOMAIN admission' : Fitting(admission'[i]) /\ sent'[admission'[i]] = << >>
    BY <1>3 DEF LanesInv, Books, Placed
  <2>2. ASSUME NEW l \in Lanes, Occupied(l), l # h
        PROVE  Fitting(slot[l].job) /\ Counted(l)' /\ (Told(slot[l].job, slot[l].generated))'
    <3>1. Fitting(slot[l].job) /\ Counted(l) /\ Told(slot[l].job, slot[l].generated)
      BY <2>2 DEF LanesInv, Books, Placed
    <3>2. slot'[l] = slot[l]
      BY <1>6, <2>2
    <3> QED
      BY <3>1, <3>2 DEF Counted, Told
  <2>3. Fitting(r) /\ sent[r] = << >>
    BY <1>3 DEF LanesInv, Books, Placed
  <2>4. Counted(h)' /\ (Told(slot[h].job, slot[h].generated))'
    <3>1. PromptLen[r] > 0 /\ MaxTokens[r] > 0 /\ PromptLen[r] \in Nat
      BY <1>3, <2>3, LanesAssumption DEF Fitting, ValidCapacity
    <3>2. Counted(h)'
      BY <1>6, <3>1 DEF Counted
    <3>3. Len(sent'[r]) = 0 /\ DOMAIN sent'[r] = {}
      BY <2>3
    <3> HIDE DEF r
    <3>4. (Told(slot[h].job, slot[h].generated))'
      BY <1>6, <3>3 DEF Told
    <3> QED
      BY <3>2, <3>4
  <2>5. \A l \in Lanes : Occupied(l)' =>
           Fitting(slot'[l].job) /\ Counted(l)' /\ (Told(slot[l].job, slot[l].generated))'
    BY <1>6, <1>7, <2>2, <2>3, <2>4
  <2> QED
    BY <2>1, <2>5 DEF Placed, Fitting, ValidSampling, ValidCapacity
<1>10. \A i, j \in DOMAIN admission' : RequestId[admission'[i]] = RequestId[admission'[j]] => i = j
  <2> SUFFICES ASSUME NEW i \in DOMAIN admission', NEW j \in DOMAIN admission',
                      RequestId[admission'[i]] = RequestId[admission'[j]]
               PROVE  i = j
    OBVIOUS
  <2>1. i + 1 = j + 1
    BY <1>2, <1>3
  <2>2. i \in Nat /\ j \in Nat
    BY <1>3
  <2> QED
    BY <2>1, <2>2
<1>11. queued' \cup running' = queued \cup running
  BY <1>5, <1>8
<1>12. \A x \in running : RequestId[x] # RequestId[r]
  BY <1>2, <1>5 DEF IdsOf
<1>13. IdsOf(queued') \cap IdsOf(running') = {}
  <2> SUFFICES ASSUME NEW x \in queued', NEW y \in running', RequestId[x] = RequestId[y] PROVE FALSE
    BY DEF IdsOf
  <2>1. RequestId[x] # RequestId[r] /\ x \in queued
    BY <1>4, <1>5 DEF ToSet
  <2>2. y \in running
    BY <1>8, <2>1
  <2>3. RequestId[x] \in IdsOf(queued) /\ RequestId[x] \in IdsOf(running)
    BY <2>1, <2>2 DEF IdsOf
  <2> QED
    BY <1>2, <2>3
<1>14. \A l, m \in {x \in Lanes : Occupied(x)'} : RequestId[slot'[l].job] = RequestId[slot'[m].job] => l = m
  <2> SUFFICES ASSUME NEW l \in Lanes, Occupied(l)', NEW m \in Lanes, Occupied(m)',
                      RequestId[slot'[l].job] = RequestId[slot'[m].job]
               PROVE  l = m
    OBVIOUS
  <2>1. \A x \in Lanes : Occupied(x) => RequestId[slot[x].job] # RequestId[r]
    BY <1>12 DEF JobsIn
  <2> QED
    BY <1>2, <1>6, <1>7, <2>1
<1> QED
  BY <1>2, <1>9, <1>10, <1>11, <1>13, <1>14 DEF ActiveExact, IdsOf

\* A lane that is occupied, a lane left free, a cancelled job: the lanes hold what they held.
LEMMA AdmitOn ==
    ASSUME Machine, where = "admit", where' \in {"admit", "select"},
           UNCHANGED <<slot, did, deviceVars, peerVars>>
    PROVE  Machine'
<1>1. Channels' /\ Ordered' /\ Empty'
  BY DEF Machine, Channels, Ordered, Empty, Looping, Quiet, peerVars
<1>2. Contents'
  BY DEF Machine, Contents, Looping, Before, Count, Occupied, deviceVars
<1>3. Sampling'
  BY DEF Machine, Sampling, Engaged, Looping, Unset, Occupied, deviceVars
<1> QED
  BY <1>1, <1>2, <1>3 DEF Machine

LEMMA AdmitKeeps == LanesInv /\ Admit => LanesInv'
<1> SUFFICES ASSUME LanesInv, Admit PROVE LanesInv'
  OBVIOUS
<1> DEFINE h == Head(turn)
           r == Head(admission)
           fresh == [Free EXCEPT !.job = r]
<1>1. /\ UNCHANGED <<token_budget, remaining, cursor, client, cancel, sent, sampler, peer, reply>>
      /\ where = "admit" /\ Local
  BY DEF Admit, roundVars, Local, Engaged, Looping
<1>2. Callers' /\ Streams'
  BY <1>1 DEF LanesInv, Books, Callers, Streams, Stream
<1>3. CASE /\ where' \in {"admit", "select"} /\ turn' \in Seq(Lanes)
           /\ UNCHANGED <<current, admission, closed, slot, order, did, awaited, consumed, logits, commands>>
  <2>1. LanesTyped'
    BY <1>1, <1>3 DEF LanesInv, LanesTyped, LanePlaces
  <2>2. Books'
    BY <1>1, <1>3, <2>1, BooksKept DEF LanesInv, LanesTyped
  <2>3. Machine'
    BY <1>1, <1>3, AdmitOn DEF LanesInv, deviceVars, peerVars
  <2> QED
    BY <2>1, <2>2, <2>3 DEF LanesInv
<1>4. CASE /\ turn # << >> /\ admission # << >> /\ admission' = Tail(admission)
           /\ current' = Without({RequestId[r]}) /\ closed' = Closed({r}) /\ turn' = Tail(turn)
           /\ UNCHANGED <<slot, order, did, awaited, consumed, logits, commands, where>>
  <2>1. turn' \in Seq(Lanes) /\ admission' \in Seq(Submissions) /\ closed' \in [Submissions -> BOOLEAN]
    BY <1>4, Rest, ClosedTyped DEF LanesInv, LanesTyped
  <2>2. LanesTyped'
    BY <1>1, <1>4, <2>1 DEF LanesInv, LanesTyped
  <2>3. Placed' /\ ActiveExact'
    BY <1>1, <1>4, JobGivenUp
  <2>4. Machine'
    BY <1>1, <1>4, AdmitOn DEF LanesInv, deviceVars, peerVars
  <2> QED
    BY <1>2, <2>2, <2>3, <2>4 DEF LanesInv, Books
<1>5. CASE /\ turn # << >> /\ ~Occupied(h) /\ admission # << >> /\ admission' = Tail(admission)
           /\ slot' = [slot EXCEPT ![h] = fresh]
           /\ Dispatch(Reset(h)) /\ UNCHANGED <<current, closed, turn>>
  <2>1. h \in Lanes /\ r \in Submissions /\ admission' \in Seq(Submissions)
    BY <1>5, Rest DEF LanesInv, LanesTyped
  <2>2. fresh \in Running /\ fresh.job = r /\ fresh.fed = 0 /\ fresh.generated = 0
    BY <2>1 DEF Free, Running
  <2>3. /\ slot' \in [Lanes -> Running] /\ slot'[h] = fresh
        /\ \A l \in Lanes : l # h => slot'[l] = slot[l]
    BY <1>5, <2>1, <2>2 DEF LanesInv, LanesTyped
  <2>4. r # "none" /\ \A l \in Lanes : Occupied(l)' <=> (Occupied(l) \/ l = h)
    BY <2>1, <2>2, <2>3, LanesAssumption DEF Occupied
  <2>5. \A p \in Peers : Quiet(p)
    BY <1>1 DEF LanesInv, Machine, Channels, Looping
  <2>6. /\ where' = "dispatch" /\ order' = Reset(h) /\ did' \in BOOLEAN
        /\ awaited' \in Seq(Peers) /\ Distinct(awaited)'
        /\ DOMAIN consumed' = LaneRanks /\ DOMAIN logits' = Lanes /\ DOMAIN commands' = Peers
        /\ \A p \in Peers : /\ Waited(p)' /\ peer'[p] = "idle" /\ commands'[p] = <<Reset(h)>>
                            /\ reply'[p] = << >> /\ consumed'[p] = consumed[p]
        /\ did' => consumed'[0] = Applied(0, Reset(h))
    BY <1>1, <1>5, <2>5, Dispatched DEF LanesInv
  <2>7. LanesTyped'
    BY <1>1, <1>5, <2>1, <2>3, <2>6 DEF LanesInv, LanesTyped, LanePlaces
  <2>8. Placed' /\ ActiveExact'
    BY <1>1, <1>5, <2>1, JobTaken
  <2>9. order'.op = "Reset" /\ order'.op # "Consume" /\ LanesOf(order') = {h}
        /\ \A m \in Lanes : Applied(0, Reset(h))[m] = IF m = h THEN << >> ELSE consumed[0][m]
    <3>1. "Reset" # "Consume"
      OBVIOUS
    <3> QED
      BY <2>6, <3>1, ResetNames
  <2>10. \A k \in LaneRanks : \A l \in Lanes : Occupied(l) => Before(k, l)
    BY <1>1 DEF LanesInv, Machine, Contents, Looping
  <2>11. \A l \in Lanes : l # h => Count(l)' = Count(l)
    BY <2>3 DEF Count
  <2>12. \A l \in Lanes : l = h => Count(l)' = 0
    <3>1. \A l \in Lanes : l = h => slot'[l].fed = 0 /\ slot'[l].generated = 0
      BY <2>2, <2>3
    <3> QED
      BY <3>1 DEF Count
  <2>13. Channels'
    <3>1. ASSUME NEW p \in Peers
          PROVE  Commanded(p)'
      <4>1. ASSUME NEW l \in Lanes, Occupied(l), l # h
            PROVE  Before(p, l)'
        <5>1. p \in LaneRanks
          BY LanesAssumption DEF LaneRanks, Peers
        <5> QED
          BY <2>3, <2>6, <2>10, <2>11, <4>1, <5>1 DEF Before
      <4>2. Unserved(p)'
        BY <2>4, <2>9, <4>1 DEF Unserved
      <4> QED
        BY <2>6, <4>2 DEF Commanded
    <3> QED
      BY <2>6, <3>1 DEF Channels, Looping
  <2>14. Ordered'
    <3>1. turn' = turn /\ Occupied(h)' /\ slot'[h].fed = 0 /\ slot'[h].generated = 0
      BY <1>5, <2>1, <2>2, <2>3, <2>4
    <3> QED
      BY <1>5, <2>6, <2>9, <3>1 DEF Ordered, Occupied
  <2>15. did' => Served(0)'
    <3> SUFFICES ASSUME did', NEW l \in Lanes, Occupied(l)'
                 PROVE  Before(0, l)'
      BY <2>9 DEF Served
    <3>1. CASE l = h
      <4>1. slot'[l].job = r /\ Count(l)' = 0 /\ consumed'[0][l] = << >>
        BY <2>2, <2>3, <2>6, <2>9, <2>12, <3>1
      <4>2. Fed(r, 0) = << >>
        BY FedGrows
      <4> QED
        BY <4>1, <4>2 DEF Before
    <3>2. CASE l # h
      <4>1. 0 \in LaneRanks /\ Occupied(l)
        BY <2>4, <3>2, LanesAssumption DEF LaneRanks
      <4> QED
        BY <2>3, <2>6, <2>9, <2>10, <2>11, <3>2, <4>1 DEF Before
    <3> QED
      BY <3>1, <3>2
  <2>16. Contents'
    BY <2>6, <2>9, <2>15 DEF Contents, Looping
  <2>17. Sampling'
    <3>1. \A l \in Lanes : Occupied(l) => Sampled(sampler[l], slot[l])
      BY <1>1 DEF LanesInv, Machine, Sampling, Engaged, Looping, Unset
    <3>2. \A l \in Lanes : l = h => Unset(l)'
      BY <1>5, <2>6, <2>9 DEF Unset
    <3>3. \A l \in Lanes : Occupied(l)' /\ l # h => Sampled(sampler'[l], slot'[l])
      BY <1>1, <2>3, <2>4, <3>1
    <3> QED
      BY <3>2, <3>3 DEF Sampling
  <2>18. Empty'
    BY <2>6 DEF Empty
  <2> QED
    BY <1>2, <2>7, <2>8, <2>13, <2>14, <2>16, <2>17, <2>18 DEF LanesInv, Books, Machine
<1>6. << >> \in Seq(Lanes) /\ (turn # << >> => Tail(turn) \in Seq(Lanes))
  BY DEF LanesInv, LanesTyped
<1> QED
  BY <1>1, <1>3, <1>4, <1>5, <1>6 DEF Admit

----------------------------------------------------------------------------
(* Delivery.                                                               *)

\* One lane of a replay is done with; the lanes still to visit keep what the replay gave them.
LEMMA DeliverOn ==
    ASSUME LanesInv, where = "deliver", turn # << >>, UNCHANGED <<where, logits, peerVars>>, turn' = Tail(turn),
           \A l \in Lanes : l # Head(turn) =>
               /\ slot'[l] = slot[l] /\ sampler'[l] = sampler[l]
               /\ \A k \in LaneRanks : consumed'[k][l] = consumed[k][l],
           \A l \in Lanes : l = Head(turn) /\ Occupied(l)' =>
               (\A k \in LaneRanks : Before(k, l)') /\ Sampled(sampler'[l], slot'[l])
    PROVE  Machine'
<1>1. turn \in Seq(Lanes) /\ Distinct(turn) /\ \A i \in DOMAIN turn : Occupied(turn[i])
  BY DEF LanesInv, LanesTyped, Machine, Ordered
<1>2. Distinct(Tail(turn)) /\ ToSet(Tail(turn)) = ToSet(turn) \ {Head(turn)}
  BY <1>1, DistinctRest
<1>3. \A l \in Lanes : l # Head(turn) => (Occupied(l)' <=> Occupied(l)) /\ Count(l)' = Count(l)
  BY DEF Occupied, Count
<1>4. Channels'
  BY DEF LanesInv, Machine, Channels, Looping, Quiet, peerVars
<1>5. \A i \in DOMAIN turn' : /\ turn'[i] \in Lanes /\ turn'[i] # Head(turn)
                              /\ i + 1 \in DOMAIN turn /\ turn'[i] = turn[i + 1]
  <2>1. \A i \in DOMAIN turn' : turn'[i] \in ToSet(Tail(turn))
    BY DEF ToSet
  <2> QED
    BY <1>1, <1>2, <2>1, Rest
<1>6. Ordered'
  <2>1. \A i \in DOMAIN turn' : Occupied(turn'[i])
    BY <1>1, <1>5
  <2>2. \A i \in DOMAIN turn' : (Occupied(turn[i]))'
    BY <1>3, <1>5, <2>1 DEF Occupied
  <2>3. Distinct(turn)'
    BY <1>2 DEF Distinct
  <2> QED
    BY <2>2, <2>3 DEF Ordered
<1>7. Contents'
  <2>1. ASSUME NEW k \in LaneRanks, NEW l \in Lanes, Occupied(l)'
        PROVE  IF l \in ToSet(turn') THEN After(k, l)' ELSE Before(k, l)'
    <3>1. CASE l = Head(turn)
      BY <1>2, <2>1, <3>1
    <3>2. CASE l # Head(turn)
      <4>1. IF l \in ToSet(turn) THEN After(k, l) ELSE Before(k, l)
        BY <1>3, <2>1, <3>2 DEF LanesInv, Machine, Contents, Looping
      <4>2. (After(k, l)' <=> After(k, l)) /\ (Before(k, l)' <=> Before(k, l))
        BY <1>3, <3>2 DEF After, Before
      <4> QED
        BY <1>2, <3>2, <4>1, <4>2
    <3> QED
      BY <3>1, <3>2
  <2>2. (\A i \in DOMAIN turn : logits[turn[i]] = Fed(slot[turn[i]].job, Count(turn[i]) + 1))'
    <3>1. \A i \in DOMAIN turn : logits[turn[i]] = Fed(slot[turn[i]].job, Count(turn[i]) + 1)
      BY DEF LanesInv, Machine, Contents
    <3> QED
      BY <1>3, <1>5, <3>1 DEF Count
  <2> QED
    BY <2>1, <2>2 DEF Contents, ToSet
<1>8. Sampling'
  <2>1. \A l \in Lanes : Occupied(l) => Sampled(sampler[l], slot[l])
    BY DEF LanesInv, Machine, Sampling, Engaged, Looping, Unset
  <2> QED
    BY <1>3, <2>1 DEF Sampling
<1>9. Empty'
  BY DEF Empty
<1> QED
  BY <1>4, <1>6, <1>7, <1>8, <1>9 DEF Machine

\* What is known of the next lane of a replay.
LEMMA NextLane ==
    ASSUME LanesInv, where = "deliver", turn # << >>, NEW l, l = Head(turn)
    PROVE  /\ l \in Lanes /\ Occupied(l) /\ Tail(turn) \in Seq(Lanes) /\ Local
           /\ slot[l].job \in Submissions /\ slot[l].fed \in Nat /\ slot[l].generated \in Nat
           /\ Fitting(slot[l].job) /\ Counted(l) /\ Told(slot[l].job, slot[l].generated)
           /\ Sampled(sampler[l], slot[l])
           /\ logits[l] = Fed(slot[l].job, Count(l) + 1)
           /\ \A k \in LaneRanks : consumed[k][l] = Fed(slot[l].job, Count(l) + 1)
<1>1. turn \in Seq(Lanes) /\ \A i \in DOMAIN turn : Occupied(turn[i])
  BY DEF LanesInv, LanesTyped, Machine, Ordered
<1>2. l \in Lanes /\ Tail(turn) \in Seq(Lanes) /\ 1 \in DOMAIN turn /\ l = turn[1]
  BY <1>1, Rest
<1>3. Occupied(l) /\ Local
  BY <1>1, <1>2 DEF Local, Engaged, Looping
<1>4. slot[l].job \in Submissions /\ slot[l].fed \in Nat /\ slot[l].generated \in Nat
  BY <1>2, <1>3 DEF LanesInv, LanesTyped, Running, Occupied
<1>5. Fitting(slot[l].job) /\ Counted(l) /\ Told(slot[l].job, slot[l].generated)
  BY <1>2, <1>3 DEF LanesInv, Books, Placed
<1>6. Sampled(sampler[l], slot[l])
  BY <1>2, <1>3 DEF LanesInv, Machine, Sampling, Engaged, Looping, Unset
<1>7. logits[l] = Fed(slot[l].job, Count(l) + 1)
  BY <1>2 DEF LanesInv, Machine, Contents
<1>8. \A k \in LaneRanks : After(k, l)
  <2>1. l \in ToSet(turn)
    BY <1>2 DEF ToSet
  <2> QED
    BY <1>2, <1>3, <2>1 DEF LanesInv, Machine, Contents, Looping
<1> QED
  BY <1>2, <1>3, <1>4, <1>5, <1>6, <1>7, <1>8 DEF After

\* A lane given up after a replay, whatever its stream was told last.
LEMMA DeliverReleases ==
    ASSUME LanesInv, where = "deliver", turn # << >>, Release({Head(turn)}), turn' = Tail(turn),
           UNCHANGED <<where, admission, client, cancel, roundVars, order, did, awaited, logits, peerVars>>,
           sent' \in [Submissions -> Seq(LaneMessages)], Streams',
           \A x \in Submissions : sent'[x] = sent[x] \/ (x = slot[Head(turn)].job /\ client[x] = "open")
    PROVE  LanesInv'
<1> DEFINE l == Head(turn)
<1>1. l \in Lanes /\ Occupied(l) /\ Tail(turn) \in Seq(Lanes) /\ Local
  BY NextLane
<1> HIDE DEF l
<1>2. {l} \in SUBSET Lanes /\ Release({l})
  BY <1>1 DEF l
<1>3. /\ slot' \in [Lanes -> Running] /\ closed' \in [Submissions -> BOOLEAN]
      /\ DOMAIN consumed' = LaneRanks /\ DOMAIN sampler' = Lanes
      /\ \A m \in Lanes : Occupied(m)' <=> (Occupied(m) /\ m \notin {l})
      /\ \A m \in Lanes \ {l} : /\ slot'[m] = slot[m] /\ sampler'[m] = sampler[m]
                                /\ \A k \in LaneRanks : consumed'[k][m] = consumed[k][m]
  BY <1>2, Released DEF LanesInv
<1>4. LanesTyped'
  BY <1>1, <1>3 DEF LanesInv, LanesTyped, roundVars, peerVars
<1>5. Placed' /\ ActiveExact'
  <2>1. \A x \in Submissions : sent'[x] = sent[x] \/ \E m \in {l} : Occupied(m) /\ slot[m].job = x
    BY <1>1 DEF l
  <2> QED
    BY <1>1, <1>2, <2>1, FewerPlaces
<1>6. Callers'
  BY DEF LanesInv, Books, Callers, Fitting, ValidSampling, ValidCapacity
<1>7. Machine'
  BY <1>1, <1>3, DeliverOn DEF l
<1> QED
  BY <1>4, <1>5, <1>6, <1>7 DEF LanesInv, Books

\* A lane goes on after a replay: with more of its prompt, or with one more token.
LEMMA DeliverGoesOn ==
    ASSUME LanesInv, where = "deliver", turn # << >>, turn' = Tail(turn), NEW l, l = Head(turn),
           UNCHANGED <<where, current, admission, client, cancel, closed, roundVars, order, did, awaited,
                       consumed, logits, peerVars>>,
           NEW s \in Running, slot' = [slot EXCEPT ![l] = s], s.job = slot[l].job, Counted(l)',
           Count(l)' = Count(l) + 1,
           DOMAIN sampler' = DOMAIN sampler, \A m \in Lanes : m # l => sampler'[m] = sampler[m],
           Sampled(sampler'[l], s),
           sent' \in [Submissions -> Seq(LaneMessages)], Streams', (Told(slot[l].job, slot[l].generated))',
           \A x \in Submissions : sent'[x] = sent[x] \/ (x = slot[l].job /\ client[x] = "open")
    PROVE  LanesInv'
<1> DEFINE r == slot[l].job
<1>1. /\ l \in Lanes /\ Occupied(l) /\ Tail(turn) \in Seq(Lanes) /\ Local /\ r \in Submissions /\ Fitting(r)
      /\ \A k \in LaneRanks : consumed[k][l] = Fed(r, Count(l) + 1)
  BY NextLane
<1>2. /\ slot' \in [Lanes -> Running] /\ slot'[l] = s
      /\ \A m \in Lanes : m # l => slot'[m] = slot[m]
      /\ \A m \in Lanes : slot'[m].job = slot[m].job
      /\ \A m \in Lanes : Occupied(m)' <=> Occupied(m)
  <2>1. slot \in [Lanes -> Running]
    BY DEF LanesInv, LanesTyped
  <2>2. slot' \in [Lanes -> Running] /\ slot'[l] = s /\ \A m \in Lanes : m # l => slot'[m] = slot[m]
    BY <1>1, <2>1
  <2>3. \A m \in Lanes : slot'[m].job = slot[m].job
    BY <2>2
  <2> QED
    BY <2>2, <2>3 DEF Occupied
<1>3. LanesTyped'
  <2>1. /\ UNCHANGED <<token_budget, remaining, cursor, peer, commands, reply>>
        /\ Distinct(awaited)' <=> Distinct(awaited)
    BY DEF roundVars, peerVars, Distinct
  <2>2. turn' \in Seq(Lanes)
    BY <1>1
  <2> QED
    BY <1>2, <2>1, <2>2 DEF LanesInv, LanesTyped
<1>4. Callers'
  BY DEF LanesInv, Books, Callers, Fitting, ValidSampling, ValidCapacity
<1>5. ActiveExact'
  <2>1. JobsIn(Lanes)' = JobsIn(Lanes)
    BY <1>2 DEF JobsIn
  <2>2. {x \in Lanes : Occupied(x)}' = {x \in Lanes : Occupied(x)}
    BY <1>2
  <2>3. ActiveExact /\ UNCHANGED <<where, admission, current>>
    BY DEF LanesInv, Books
  <2>4. \A x, m \in {y \in Lanes : Occupied(y)}' :
           RequestId[slot'[x].job] = RequestId[slot'[m].job] => x = m
    <3>1. where \notin {"finish", "join", "joining", "guard", "gone"}
      OBVIOUS
    <3>2. \A x, m \in {y \in Lanes : Occupied(y)} : RequestId[slot[x].job] = RequestId[slot[m].job] => x = m
      BY <2>3, <3>1 DEF ActiveExact
    <3> QED
      BY <1>2, <2>2, <3>2
  <2> QED
    BY <2>1, <2>3, <2>4 DEF ActiveExact
<1>6. Placed'
  <2> DEFINE queued == ToSet(admission)
  <2>1. /\ \A m \in Lanes : Occupied(m) /\ m # l => slot[m].job # r
        /\ r \notin queued
    <3>1. /\ \A m \in Lanes : Occupied(m) /\ RequestId[slot[m].job] = RequestId[r] => m = l
          /\ IdsOf(queued) \cap IdsOf(JobsIn(Lanes)) = {}
      BY <1>1 DEF LanesInv, Books, ActiveExact
    <3>2. r \in JobsIn(Lanes)
      BY <1>1 DEF JobsIn
    <3> QED
      BY <3>1, <3>2 DEF IdsOf
  <2>2. ASSUME NEW i \in DOMAIN admission
        PROVE  Fitting(admission[i]) /\ sent'[admission[i]] = << >>
    <3>1. admission[i] \in Submissions /\ admission[i] \in queued
      BY DEF LanesInv, LanesTyped, ToSet
    <3>2. sent'[admission[i]] = sent[admission[i]]
      BY <2>1, <3>1
    <3> QED
      BY <1>1, <3>2 DEF LanesInv, Books, Placed
  <2>3. ASSUME NEW m \in Lanes, Occupied(m), m # l
        PROVE  Fitting(slot[m].job) /\ Counted(m)' /\ (Told(slot[m].job, slot[m].generated))'
    <3>1. slot[m].job \in Submissions
      BY <2>3 DEF LanesInv, LanesTyped, Running, Occupied
    <3>2. sent'[slot[m].job] = sent[slot[m].job] /\ slot'[m] = slot[m]
      BY <1>2, <2>1, <2>3, <3>1
    <3>3. Fitting(slot[m].job) /\ Counted(m) /\ Told(slot[m].job, slot[m].generated)
      BY <1>1, <2>3 DEF LanesInv, Books, Placed
    <3>4. Counted(m)'
      BY <3>2, <3>3 DEF Counted
    <3>5. (Told(slot[m].job, slot[m].generated))'
      BY <3>2, <3>3 DEF Told
    <3> QED
      BY <3>3, <3>4, <3>5
  <2>4. ASSUME NEW m \in Lanes, Occupied(m)'
        PROVE  Fitting(slot[m].job) /\ Counted(m)' /\ (Told(slot[m].job, slot[m].generated))'
    <3>1. CASE m = l
      BY <1>1, <3>1
    <3>2. CASE m # l
      BY <1>2, <2>3, <2>4, <3>2
    <3> QED
      BY <3>1, <3>2
  <2> QED
    BY <1>2, <2>2, <2>4 DEF Placed, Fitting, ValidSampling, ValidCapacity
<1>7. Machine'
  <2>1. \A m \in Lanes : m # Head(turn) =>
           /\ slot'[m] = slot[m] /\ sampler'[m] = sampler[m]
           /\ \A k \in LaneRanks : consumed'[k][m] = consumed[k][m]
    BY <1>2
  <2>2. \A k \in LaneRanks : Before(k, l)'
    BY <1>1, <1>2 DEF Before
  <2>3. \A m \in Lanes : m = Head(turn) /\ Occupied(m)' =>
           (\A k \in LaneRanks : Before(k, m)') /\ Sampled(sampler'[m], slot'[m])
    BY <1>2, <2>2
  <2> QED
    BY <2>1, <2>3, DeliverOn
<1> QED
  BY <1>3, <1>4, <1>5, <1>6, <1>7 DEF LanesInv, Books

\* A message sampled from a request's own inputs goes to the end of its stream.
LEMMA TokenSent ==
    ASSUME LanesInv, NEW r \in Submissions, NEW n \in Nat, client[r] = "open", Told(r, n),
           n + 1 <= MaxTokens[r], NEW f \in {"none", "stop", "length"}, f = "stop" => n + 1 > MinTokens[r],
           sent' = [sent EXCEPT ![r] = Append(@, LaneMessage(Fed(r, PromptLen[r] + n), f))]
    PROVE  /\ sent' \in [Submissions -> Seq(LaneMessages)] /\ Streams'
           /\ \A x \in Submissions : x # r => sent'[x] = sent[x]
           /\ Len(sent'[r]) = n + 1
           /\ f = "none" => \A k \in DOMAIN sent'[r] : sent'[r][k].finish = "none"
<1> DEFINE q == sent[r]
           m == LaneMessage(Fed(r, PromptLen[r] + n), f)
<1>1. sent \in [Submissions -> Seq(LaneMessages)] /\ q \in Seq(LaneMessages)
  BY DEF LanesInv, LanesTyped
<1>2. PromptLen[r] \in Nat /\ MaxTokens[r] \in Nat /\ MinTokens[r] \in Nat
  BY LanesAssumption
<1>3. m \in LaneMessages /\ m.finish = f /\ m.from = Fed(r, PromptLen[r] + n)
  <2>1. PromptLen[r] + n \in Nat
    BY <1>2
  <2> QED
    BY <2>1 DEF LaneMessages, LaneMessage
<1> HIDE DEF m
<1>4. sent'[r] = Append(q, m) /\ \A x \in Submissions : x # r => sent'[x] = sent[x]
  BY <1>1 DEF m
<1>5. sent' \in [Submissions -> Seq(LaneMessages)]
  <2>1. Append(q, m) \in Seq(LaneMessages)
    BY <1>1, <1>3
  <2> QED
    BY <1>1, <2>1 DEF m
<1>6. Len(q) = n /\ \A k \in DOMAIN q : q[k].finish = "none"
  BY DEF Told
<1>7. /\ Len(Append(q, m)) = n + 1 /\ DOMAIN Append(q, m) = 1 .. n + 1
      /\ \A k \in 1 .. n : Append(q, m)[k] = q[k] /\ k \in DOMAIN q
      /\ Append(q, m)[n + 1] = m
  BY <1>1, <1>6
<1>8. f = "none" => \A k \in DOMAIN sent'[r] : sent'[r][k].finish = "none"
  BY <1>3, <1>4, <1>6, <1>7
<1>9. Failure.finish = "error"
  BY DEF Failure, LaneMessage
<1>10. ASSUME NEW k \in 1 .. n + 1
       PROVE  LET v == Append(q, m)[k] IN
              /\ v.from = Fed(r, PromptLen[r] + k - 1) /\ k <= MaxTokens[r]
              /\ v.finish # "none" => k = n + 1
              /\ v.finish = "stop" => k > MinTokens[r]
  <2>1. CASE k = n + 1
    <3>1. PromptLen[r] + k - 1 = PromptLen[r] + n
      BY <1>2, <2>1
    <3> QED
      BY <1>3, <1>7, <2>1, <3>1
  <2>2. CASE k \in 1 .. n
    <3>1. k \in DOMAIN q /\ Append(q, m)[k] = q[k] /\ q[k].finish = "none"
      BY <1>6, <1>7, <2>2
    <3>2. q[k].finish # "stop" /\ q[k] # Failure
      BY <1>9, <3>1
    <3>3. q[k].from = Fed(r, PromptLen[r] + k - 1) /\ k <= MaxTokens[r]
      BY <3>1, <3>2 DEF LanesInv, Books, Streams, Stream
    <3> QED
      BY <3>1, <3>2, <3>3
  <2>3. k = n + 1 \/ k \in 1 .. n
    OBVIOUS
  <2> QED
    BY <2>1, <2>2, <2>3
<1>11. Streams'
  <2> SUFFICES ASSUME NEW x \in Submissions PROVE Stream(x)'
    BY DEF Streams
  <2>1. CASE x = r
    BY <1>4, <1>7, <1>10, <2>1 DEF Stream
  <2>2. CASE x # r
    <3>1. sent'[x] = sent[x] /\ Stream(x)
      BY <1>4, <2>2 DEF LanesInv, Books, Streams
    <3> QED
      BY <3>1 DEF Stream
  <2> QED
    BY <2>1, <2>2
<1> QED
  BY <1>4, <1>5, <1>7, <1>8, <1>11

\* The number of inputs before and after a replay, and whose sampler draws the next token.
LEMMA DeliverCounts ==
    ASSUME LanesInv, where = "deliver", turn # << >>, NEW l, l = Head(turn)
    PROVE  LET r == slot[l].job IN
           /\ slot[l].fed < PromptLen[r] => slot[l].generated = 0 /\ Count(l) = slot[l].fed
           /\ slot[l].fed >= PromptLen[r] =>
                 /\ slot[l].fed = PromptLen[r] /\ slot[l].generated > 0
                 /\ Count(l) + 1 = PromptLen[r] + slot[l].generated
           /\ PromptLen[r] \in Nat \ {0} /\ MaxTokens[r] \in Nat /\ MinTokens[r] \in Nat
           /\ slot[l].generated + 1 <= MaxTokens[r]
<1> DEFINE r == slot[l].job
<1>1. /\ r \in Submissions /\ slot[l].fed \in Nat /\ slot[l].generated \in Nat
      /\ Fitting(r) /\ Counted(l)
  BY NextLane
<1>2. PromptLen[r] \in Nat /\ MaxTokens[r] \in Nat /\ MinTokens[r] \in Nat /\ PromptLen[r] > 0
  BY <1>1, LanesAssumption DEF Fitting, ValidCapacity
<1>3. /\ slot[l].fed <= PromptLen[r] /\ slot[l].generated < MaxTokens[r]
      /\ (slot[l].fed < PromptLen[r]) <=> (slot[l].generated = 0)
  BY <1>1 DEF Counted
<1>4. Count(l) = slot[l].fed + (IF slot[l].generated = 0 THEN 0 ELSE slot[l].generated - 1)
  BY DEF Count
<1> HIDE DEF r
<1>5. /\ slot[l].fed < PromptLen[r] => slot[l].generated = 0 /\ Count(l) = slot[l].fed
      /\ slot[l].fed >= PromptLen[r] =>
            /\ slot[l].fed = PromptLen[r] /\ slot[l].generated > 0
            /\ Count(l) + 1 = PromptLen[r] + slot[l].generated
      /\ slot[l].generated + 1 <= MaxTokens[r]
  BY <1>1, <1>2, <1>3, <1>4
<1> QED
  BY <1>2, <1>5 DEF r

LEMMA DeliverKeeps == LanesInv /\ DeliverTokens => LanesInv'
<1> SUFFICES ASSUME LanesInv, DeliverTokens PROVE LanesInv'
  OBVIOUS
<1>1. where = "deliver" /\ turn # << >>
  BY DEF DeliverTokens
<1>2. PICK l \in Lanes : l = Head(turn)
  BY <1>1, NextLane
<1> DEFINE r == slot[l].job
           n == slot[l].generated
           fed == IF slot[l].fed < PromptLen[r] THEN slot[l].fed + 1 ELSE slot[l].fed
<1>3. /\ UNCHANGED <<admission, client, cancel, roundVars, order, did, awaited, logits, peerVars>>
      /\ \/ Release({l}) /\ turn' = Tail(turn) /\ UNCHANGED <<sent, where>>
         \/ /\ fed < PromptLen[r] /\ slot' = [slot EXCEPT ![l].fed = fed] /\ turn' = Tail(turn)
            /\ UNCHANGED <<current, sentVars, sampler, where, consumed>>
         \/ fed = PromptLen[r] /\ SampleSlot(l, fed)
  BY <1>2 DEF DeliverTokens
<1>4. /\ Occupied(l) /\ Tail(turn) \in Seq(Lanes) /\ Local
      /\ r \in Submissions /\ slot[l].fed \in Nat /\ n \in Nat
      /\ Fitting(r) /\ Counted(l) /\ Told(r, n)
      /\ Sampled(sampler[l], slot[l])
      /\ logits[l] = Fed(r, Count(l) + 1)
  BY <1>1, <1>2, NextLane
<1>5. /\ slot[l].fed < PromptLen[r] => n = 0 /\ Count(l) = slot[l].fed
      /\ slot[l].fed >= PromptLen[r] =>
            slot[l].fed = PromptLen[r] /\ n > 0 /\ Count(l) + 1 = PromptLen[r] + n
      /\ PromptLen[r] \in Nat \ {0} /\ MaxTokens[r] \in Nat /\ MinTokens[r] \in Nat
      /\ n + 1 <= MaxTokens[r]
  BY <1>1, <1>2, DeliverCounts
<1>6. sent \in [Submissions -> Seq(LaneMessages)] /\ Streams
  BY DEF LanesInv, LanesTyped, Books
<1>7. /\ slot \in [Lanes -> Running] /\ slot[l] \in Running /\ DOMAIN sampler = Lanes
      /\ closed \in [Submissions -> BOOLEAN]
  BY DEF LanesInv, LanesTyped
<1>8. UNCHANGED sent => Streams'
  BY <1>6 DEF Streams, Stream
<1> HIDE DEF r, n, fed
<1>9. CASE Release({l}) /\ turn' = Tail(turn) /\ UNCHANGED <<sent, where>>
  BY <1>1, <1>2, <1>3, <1>6, <1>8, <1>9, DeliverReleases
<1>10. CASE /\ fed < PromptLen[r] /\ slot' = [slot EXCEPT ![l].fed = fed] /\ turn' = Tail(turn)
            /\ UNCHANGED <<current, sentVars, sampler, where, consumed>>
  <2> DEFINE s == [slot[l] EXCEPT !.fed = fed]
  <2>1. n = 0 /\ fed = slot[l].fed + 1 /\ Count(l) = slot[l].fed /\ slot[l].fed < PromptLen[r] /\ fed \in Nat
    BY <1>4, <1>5, <1>10 DEF fed
  <2>2. s \in Running /\ s.job = r /\ s.fed = fed /\ s.generated = n
    BY <1>7, <2>1 DEF Running, r, n
  <2>3. slot' = [slot EXCEPT ![l] = s]
    BY <1>10
  <2> HIDE DEF s
  <2>4. slot'[l] = s
    BY <1>7, <2>3
  <2>5. Count(l)' = Count(l) + 1
    BY <2>1, <2>2, <2>4 DEF Count
  <2>6. Counted(l)'
    <3>1. s.fed <= PromptLen[r] /\ s.generated < MaxTokens[r] /\ s.fed < PromptLen[r] /\ s.generated = 0
      BY <1>4, <1>5, <1>10, <2>1, <2>2
    <3> QED
      BY <2>2, <2>4, <3>1 DEF Counted
  <2>7. Sampled(sampler'[l], s)
    BY <1>4, <1>10, <2>2 DEF Sampled, r, n
  <2>8. (Told(slot[l].job, slot[l].generated))'
    BY <1>3, <1>4, <1>10, <2>2, <2>4 DEF Told, sentVars
  <2>9. Streams' /\ sent' = sent /\ closed' = closed
    BY <1>8, <1>10 DEF sentVars
  <2> QED
    BY <1>1, <1>2, <1>3, <1>6, <1>10, <2>2, <2>3, <2>5, <2>6, <2>7, <2>8, <2>9, DeliverGoesOn DEF r
<1>11. CASE /\ where' = "failed" /\ UNCHANGED <<sampler, slot, current, sentVars, turn, consumed>>
  <2>1. LanesTyped'
    BY <1>3, <1>11 DEF LanesInv, LanesTyped, LanePlaces, roundVars, sentVars, peerVars
  <2>2. Books'
    BY <1>1, <1>3, <1>4, <1>11, <2>1, BooksKept DEF LanesInv, LanesTyped, sentVars
  <2> QED
    BY <1>11, <2>1, <2>2, MachineOver DEF LanesInv
<1>12. CASE /\ fed = PromptLen[r] /\ turn' = Tail(turn) /\ UNCHANGED where
            /\ \E token \in IF Unmasked(l).masked THEN {"other"} ELSE {"other", "stop"} :
                  LET f == Finish(r, token, n + 1) IN
                  /\ sent' = IF Room(r) THEN [sent EXCEPT ![r] = Append(@, LaneMessage(logits[l], f))]
                             ELSE sent
                  /\ IF f # "none" \/ ~Room(r) THEN Release({l})
                     ELSE /\ slot' = [slot EXCEPT ![l] = [job |-> r, fed |-> fed, generated |-> n + 1,
                                                          decoded |-> TRUE]]
                          /\ sampler' = [sampler EXCEPT ![l] = [Unmasked(l) EXCEPT !.drawn = @ + 1]]
                          /\ UNCHANGED <<current, closed, consumed>>
  <2>1. PICK token \in IF Unmasked(l).masked THEN {"other"} ELSE {"other", "stop"} :
           LET f == Finish(r, token, n + 1) IN
           /\ sent' = IF Room(r) THEN [sent EXCEPT ![r] = Append(@, LaneMessage(logits[l], f))]
                      ELSE sent
           /\ IF f # "none" \/ ~Room(r) THEN Release({l})
              ELSE /\ slot' = [slot EXCEPT ![l] = [job |-> r, fed |-> fed, generated |-> n + 1,
                                                   decoded |-> TRUE]]
                   /\ sampler' = [sampler EXCEPT ![l] = [Unmasked(l) EXCEPT !.drawn = @ + 1]]
                   /\ UNCHANGED <<current, closed, consumed>>
    BY <1>12
  <2> DEFINE f == Finish(r, token, n + 1)
             s == [job |-> r, fed |-> fed, generated |-> n + 1, decoded |-> TRUE]
             t == [Unmasked(l) EXCEPT !.drawn = @ + 1]
  <2>2. /\ sampler[l].drawn = n /\ sampler[l].min = MinTokens[r]
        /\ sampler[l] \in [drawn : Nat, min : Nat, masked : BOOLEAN]
        /\ sampler[l].masked \/ n >= MinTokens[r]
    BY <1>4 DEF Sampled, n, r
  <2>3. /\ Unmasked(l).drawn = n /\ Unmasked(l).min = MinTokens[r] /\ Unmasked(l).masked \in BOOLEAN
        /\ Unmasked(l).masked \/ n >= MinTokens[r]
        /\ Unmasked(l) \in [drawn : Nat, min : Nat, masked : BOOLEAN]
    <3>1. CASE sampler[l].masked /\ n # MinTokens[r]
      <4>1. Unmasked(l) = [sampler[l] EXCEPT !.masked = TRUE]
        BY <2>2, <3>1 DEF Unmasked
      <4> QED
        BY <2>2, <4>1
    <3>2. CASE ~(sampler[l].masked /\ n # MinTokens[r])
      <4>1. Unmasked(l) = [sampler[l] EXCEPT !.masked = FALSE]
        BY <2>2, <3>2 DEF Unmasked
      <4>2. n >= MinTokens[r]
        BY <1>4, <1>5, <2>2, <3>2
      <4> QED
        BY <2>2, <4>1, <4>2
    <3> QED
      BY <3>1, <3>2
  <2>4. /\ f \in {"none", "stop", "length"} /\ (f = "stop" => token = "stop")
        /\ f = "none" => n + 1 < MaxTokens[r]
    <3>1. "stop" # "none" /\ "length" # "none" /\ "length" # "stop"
      OBVIOUS
    <3> QED
      BY <1>4, <1>5, <3>1 DEF Finish
  <2>5. f = "stop" => n + 1 > MinTokens[r]
    <3>1. token = "stop" => ~Unmasked(l).masked
      <4>1. "stop" # "other"
        OBVIOUS
      <4> QED
        BY <2>1, <4>1
    <3> QED
      BY <1>4, <1>5, <2>3, <2>4, <3>1
  <2>6. fed = slot[l].fed + (IF n = 0 THEN 1 ELSE 0) /\ Count(l) + 1 = PromptLen[r] + n
    BY <1>4, <1>5, <1>12 DEF fed
  <2>7. logits[l] = Fed(r, PromptLen[r] + n)
    BY <1>4, <2>6
  <2> HIDE DEF f, s, t
  <2>8. /\ sent' \in [Submissions -> Seq(LaneMessages)] /\ Streams'
        /\ \A x \in Submissions : sent'[x] = sent[x] \/ (x = r /\ client[x] = "open")
        /\ Room(r) => /\ Len(sent'[r]) = n + 1
                      /\ f = "none" => \A k \in DOMAIN sent'[r] : sent'[r][k].finish = "none"
    <3>1. CASE Room(r)
      <4>1. sent' = [sent EXCEPT ![r] = Append(@, LaneMessage(Fed(r, PromptLen[r] + n), f))]
        BY <2>1, <2>7, <3>1 DEF f
      <4>2. client[r] = "open"
        BY <3>1 DEF Room
      <4> QED
        BY <1>4, <1>5, <2>4, <2>5, <4>1, <4>2, TokenSent
    <3>2. CASE ~Room(r)
      <4>1. sent' = sent
        BY <2>1, <3>2
      <4> QED
        BY <1>6, <1>8, <3>2, <4>1
    <3> QED
      BY <3>1, <3>2
  <2>9. CASE f # "none" \/ ~Room(r)
    <3>1. Release({l})
      BY <2>1, <2>9 DEF f
    <3> QED
      BY <1>1, <1>2, <1>3, <1>12, <2>8, <3>1, DeliverReleases DEF r
  <2>10. CASE f = "none" /\ Room(r)
    <3>1. slot' = [slot EXCEPT ![l] = s] /\ sampler' = [sampler EXCEPT ![l] = t]
          /\ UNCHANGED <<current, closed, consumed>>
      BY <2>1, <2>10 DEF f, s, t
    <3>2. s \in Running /\ s.job = r /\ s.fed = PromptLen[r] /\ s.generated = n + 1
      BY <1>4, <1>5, <1>12 DEF s, Running
    <3>3. Sampled(t, s)
      <4>1. /\ t \in [drawn : Nat, min : Nat, masked : BOOLEAN] /\ t.drawn = n + 1 /\ t.min = MinTokens[r]
            /\ t.masked = Unmasked(l).masked
        BY <1>4, <2>3 DEF t
      <4>2. t.masked \/ t.drawn >= t.min
        BY <1>4, <1>5, <2>3, <4>1
      <4> QED
        BY <3>2, <4>1, <4>2 DEF Sampled
    <3>4. slot'[l] = s /\ sampler'[l] = t /\ DOMAIN sampler' = DOMAIN sampler
          /\ \A m \in Lanes : m # l => sampler'[m] = sampler[m]
      BY <1>7, <3>1
    <3>5. Count(l)' = Count(l) + 1
      <4>1. Count(l)' = s.fed + (IF s.generated = 0 THEN 0 ELSE s.generated - 1)
        BY <3>4 DEF Count
      <4> QED
        BY <1>4, <1>5, <2>6, <3>2, <4>1
    <3>6. Counted(l)'
      <4>1. n + 1 < MaxTokens[r]
        BY <2>4, <2>10
      <4> QED
        BY <1>4, <1>5, <3>2, <3>4, <4>1 DEF Counted
    <3>7. (Told(slot[l].job, slot[l].generated))'
      BY <2>8, <2>10, <3>2, <3>4 DEF Told
    <3>8. s.job = slot[l].job /\ Sampled(sampler'[l], s)
      BY <3>2, <3>3, <3>4 DEF r
    <3>9. \A x \in Submissions : sent'[x] = sent[x] \/ (x = slot[l].job /\ client[x] = "open")
      BY <2>8 DEF r
    <3>10. turn' = Tail(turn) /\ UNCHANGED <<where, current, admission, client, cancel, closed, roundVars, order,
                                            did, awaited, consumed, logits, peerVars>>
      BY <1>3, <1>12, <3>1
    <3> QED
      BY <1>1, <1>2, <2>8, <3>1, <3>2, <3>4, <3>5, <3>6, <3>7, <3>8, <3>9, <3>10, DeliverGoesOn
  <2> QED
    BY <2>4, <2>9, <2>10
<1> QED
  BY <1>3, <1>9, <1>10, <1>11, <1>12 DEF SampleSlot, r, n

----------------------------------------------------------------------------
(* The theorem.                                                            *)

LEMMA LanesNextInv == LanesInv /\ [LanesNext]_laneVars => LanesInv'
<1> SUFFICES ASSUME LanesInv, [LanesNext]_laneVars PROVE LanesInv'
  OBVIOUS
<1>1. CASE LaneThread
  BY <1>1, PrepareKeeps, AwaitPeerKeeps, AnnounceKeeps, CollectReplyKeeps, EndDispatchKeeps, TickKeeps,
     RoundKeeps, AdmitKeeps, ConfigureKeeps, SelectKeeps, DeliverKeeps, EndRoundKeeps, ReportKeeps,
     FinishKeeps, EndingKeeps DEF LaneThread
<1>2. CASE AbandonStart \/ SetStop \/ \E i \in AbortIds : Abort(i)
  BY <1>2, FlagsKeep
<1>3. ASSUME NEW p \in Peers, PeerStep(p) PROVE LanesInv'
  BY <1>3, PeerStartsKeeps, PeerServesKeeps DEF PeerStep
<1>4. ASSUME NEW r \in Submissions, Generate(r) \/ Enqueue(r) \/ LeaveStream(r) PROVE LanesInv'
  BY <1>4, GenerateKeeps, EnqueueKeeps, LeaveKeeps
<1>5. CASE UNCHANGED laneVars
  <2>1. LanesTyped'
    BY <1>5 DEF laneVars, LanesInv, LanesTyped, Distinct
  <2>2. Books'
    BY <1>5, <2>1, BooksKept DEF laneVars, LanesInv, LanesTyped, Local, Engaged, Looping
  <2>3. Machine'
    BY <1>5, MachineKept DEF laneVars, LanesInv, deviceVars, peerVars
  <2> QED
    BY <2>1, <2>2, <2>3 DEF LanesInv
<1> QED
  BY <1>1, <1>2, <1>3, <1>4, <1>5 DEF LanesNext

\* What the invariant says of tokens, of the engine's checks and of the active map.
LEMMA LanesInvSuffices == LanesInv => LanesExact
<1> SUFFICES ASSUME LanesInv PROVE LanesExact
  OBVIOUS
<1>1. TokensExact
  <2>1. where \in {"round", "select"} => \A l \in Lanes : Occupied(l) =>
           \A p \in Peers : consumed[p][l] = consumed[0][l]
    <3> SUFFICES ASSUME where \in {"round", "select"}, NEW l \in Lanes, Occupied(l), NEW p \in Peers
                 PROVE  consumed[p][l] = consumed[0][l]
      OBVIOUS
    <3>1. p \in LaneRanks /\ 0 \in LaneRanks
      BY LanesAssumption DEF Peers, LaneRanks
    <3>2. Before(p, l) /\ Before(0, l)
      BY <3>1 DEF LanesInv, Machine, Contents, Looping
    <3> QED
      BY <3>2 DEF Before
  <2> QED
    BY <2>1 DEF LanesInv, Books, Streams, Stream, TokensExact
<1>2. NeverRefused
  <2>1. ASSUME where = "dispatch", NEW p \in Peers, commands[p] # << >>
        PROVE  ~Refuses(p, Head(commands[p]))
    <3>1. commands[p] = <<order>> /\ Unserved(p)
      <4>1. Commanded(p)
        BY <2>1 DEF LanesInv, Machine, Channels
      <4> QED
        BY <2>1, <4>1 DEF Commanded, Answering, Quiet
    <3>2. Head(commands[p]) = order
      BY <3>1
    <3>3. CASE order = Reset(Head(turn))
      BY <3>2, <3>3, ResetNames
    <3>4. CASE order = Feed(turn)
      <4>1. order.op = "Consume" /\ order.op # "Reset"
        <5>1. "Consume" # "Reset"
          OBVIOUS
        <5> QED
          BY <3>4, <5>1 DEF Feed, Consume
      <4>2. turn \in Seq(Lanes) /\ Distinct(turn) /\ \A l \in ToSet(turn) : l \in Lanes /\ Occupied(l)
        BY <2>1, <4>1 DEF LanesInv, LanesTyped, Machine, Ordered, ToSet
      <4>3. \A l \in ToSet(turn) : Occupied(l) /\ Before(p, l)
        BY <3>1, <4>1, <4>2 DEF Unserved
      <4>4. Placed
        BY <2>1 DEF LanesInv, Books, Local, Engaged
      <4> QED
        BY <3>2, <3>4, <4>2, <4>3, <4>4, FeedAccepted DEF LanesInv
    <3> QED
      BY <2>1, <3>3, <3>4 DEF LanesInv, Machine, Ordered
  <2>2. ASSUME where = "deliver", NEW l \in ToSet(turn)
        PROVE  Len(consumed[0][l]) \in 1 .. Context /\ sampler[l].drawn < Context
    <3>1. l \in Lanes /\ Occupied(l)
      BY <2>2 DEF LanesInv, LanesTyped, Machine, Ordered, ToSet
    <3>2. After(0, l)
      <4>1. 0 \in LaneRanks
        BY LanesAssumption DEF LaneRanks
      <4> QED
        BY <2>2, <3>1, <4>1 DEF LanesInv, Machine, Contents, Looping
    <3>3. Sampled(sampler[l], slot[l])
      BY <2>2, <3>1 DEF LanesInv, Machine, Sampling, Engaged, Looping, Unset
    <3>4. /\ slot[l].generated \in Nat /\ Count(l) \in Nat /\ Count(l) < Context
          /\ slot[l].generated + 1 <= MaxTokens[slot[l].job] /\ MaxTokens[slot[l].job] < Context
          /\ MaxTokens[slot[l].job] \in Nat
      <4>1. Placed
        BY <2>2 DEF LanesInv, Books, Local, Engaged, Looping
      <4>2. /\ slot[l].job \in Submissions /\ slot[l].generated \in Nat /\ Count(l) \in Nat /\ Count(l) < Context
            /\ slot[l].generated + 1 <= MaxTokens[slot[l].job] /\ MaxTokens[slot[l].job] < Context
        BY <3>1, <4>1, CountFits DEF LanesInv
      <4> QED
        BY <4>2, LanesAssumption
    <3>5. Len(consumed[0][l]) = Count(l) + 1
      <4>1. Count(l) + 1 \in Nat
        BY <3>4
      <4>2. Len(Fed(slot[l].job, Count(l) + 1)) = Count(l) + 1
        BY <4>1, FedGrows
      <4> QED
        BY <3>2, <4>2 DEF After
    <3>6. sampler[l].drawn = slot[l].generated
      BY <3>3 DEF Sampled
    <3> QED
      BY <3>4, <3>5, <3>6, LanesAssumption
  <2> QED
    BY <2>1, <2>2 DEF NeverRefused
<1> QED
  BY <1>1, <1>2 DEF LanesInv, Books, LanesExact

\* native_worker.rs, parallel.rs and sampling.rs: every token a stream carries was sampled from
\* exactly its request's prompt and the tokens before it, all ranks hold the same, no check of the
\* engine refuses what the loop asks for, and an id is in the active map while its request lives.
THEOREM LanesAreExact == LanesSpec => []LanesExact
<1>1. LanesInit => LanesInv
  BY LanesInitInv
<1>2. LanesInv /\ [LanesNext]_laneVars => LanesInv'
  BY LanesNextInv
<1>3. LanesInv => LanesExact
  BY LanesInvSuffices
<1> QED
  BY <1>1, <1>2, <1>3, PTL DEF LanesSpec
=============================================================================
