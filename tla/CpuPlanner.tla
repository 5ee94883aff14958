----------------------------- MODULE CpuPlanner -----------------------------
(***************************************************************************)
(* The compiler from a logical graph to a physical plan (planner.rs): type *)
(* the graph, drop what nobody needs, fold constants, number the values    *)
(* that remain, find lifetimes, place the buffers and list the steps.  An  *)
(* author builds a graph node by node, compiles it, and runs the plan.     *)
(* Names are numbers, ordered as the strings of the code are.              *)
(***************************************************************************)
EXTENDS CpuPlan

CONSTANTS Leaf,            \* the leaf tensors: name -> [shape, storage]
          Palette,         \* the nodes an author may write: [name, op, inputs]
          OutputLists, UpdateMaps, OptionSets,   \* and the ends of a graph
          MaxNodes, MaxRuns, MaxBindings,        \* bounds of the model
          FOLD_WORK, BLOCK_WORK            \* the two 4096 of the code

VARIABLES authored,        \* what the author has written so far
          options,         \* debug, and the kernel overrides by node name
          planStage, runs

plannerVars == <<authored, options, planStage, runs, planVars>>

LeafData(name) == [i \in 1..ElementCount(Leaf[name].shape) |-> <<"leaf", name, i>>]
LeafNames(storage) == {n \in DOMAIN Leaf : Leaf[n].storage = storage}
Tensors(storage) ==
  [n \in LeafNames(storage) |-> [shape |-> Leaf[n].shape, data |-> LeafData(n)]]
InputData(r) == [n \in LeafNames("input") |->
                   [i \in 1..ElementCount(Leaf[n].shape) |-> <<"in", n, r, i>>]]

\* The abstract machine the compiled plan implements.
InputTensors(g) ==
  {[n \in LeafNames("input") |-> [shape |-> Leaf[n].shape, data |-> InputData(r)[n]]] :
     r \in 1..MaxRuns}
StateNow ==
  IF plan = Absent THEN <<>>
  ELSE [n \in LeafNames("state") |->
          [shape |-> Leaf[n].shape,
           data  |-> owned[CHOOSE id \in DOMAIN owned : Buf(id).name = n]]]
Logical == INSTANCE LogicalGraph WITH
  NoGraph <- Absent, Inputs <- InputTensors,
  graph <- IF plan = Absent THEN Absent ELSE authored, state <- StateNow

-----------------------------------------------------------------------------
(* Passes.  A pass that returns an error yields Absent. *)

ValueNames(g) == DOMAIN Leaf \cup {g.nodes[i].name : i \in DOMAIN g.nodes}

\* Of the nodes whose operands all have a number, the first by name comes next.
Topological(g) ==
  FoldLeft(LAMBDA seq, unused :
             LET placed == DOMAIN Leaf \cup {seq[i].name : i \in DOMAIN seq}
                 ready  == {n \in {g.nodes[i] : i \in DOMAIN g.nodes} :
                              n.name \notin placed /\ ToSet(n.inputs) \subseteq placed}
             IN  IF ready = {} THEN seq
                 ELSE Append(seq, CHOOSE n \in ready : \A m \in ready : n.name <= m.name),
           <<>>, g.nodes)

LeafValue(name) ==
  [name |-> name, shape |-> Leaf[name].shape, storage |-> Leaf[name].storage,
   initial |-> IF Leaf[name].storage = "input" THEN Absent ELSE LeafData(name)]

\* Inputs, constants and states are numbered first, in that order.
LeafValues ==
  FlattenSeq([k \in 1..3 |->
    LET names == LeafNames(<<"input", "constant", "state">>[k])
    IN  [i \in 1..Cardinality(names) |-> LeafValue(SetToSortSeq(names, <)[i])]])

IdOf(values, name) == CHOOSE i \in DOMAIN values : values[i].name = name

NamesOK(g) ==
  /\ Len(g.nodes) <= MAX_NODES /\ g.outputs # <<>>
  /\ Cardinality(DOMAIN Leaf) + Len(g.nodes) <= 4 * MAX_NODES
  /\ \A i, j \in DOMAIN g.nodes : g.nodes[i].name = g.nodes[j].name => i = j
  /\ \A i \in DOMAIN g.nodes :
       g.nodes[i].name \notin DOMAIN Leaf /\ ToSet(g.nodes[i].inputs) \subseteq ValueNames(g)
  /\ ToSet(g.outputs) \cup DOMAIN g.updates \cup {g.updates[t] : t \in DOMAIN g.updates}
       \subseteq ValueNames(g)
  /\ Cardinality(ToSet(g.outputs)) = Len(g.outputs)

\* Values in order, each node's shape inferred from its operands.
TypedValues(g) ==
  FoldLeft(LAMBDA vals, n :
             Append(vals, [name |-> n.name, storage |-> "arena", initial |-> Absent,
                           shape |-> LET ids == [k \in DOMAIN n.inputs |-> IdOf(vals, n.inputs[k])]
                                     IN  IF \E k \in DOMAIN ids : vals[ids[k]].shape = Absent
                                         THEN Absent
                                         ELSE OutShape(n.op, [k \in DOMAIN ids |-> vals[ids[k]].shape])]),
           LeafValues, Topological(g))

Typed(g) ==
  IF ~NamesOK(g) \/ Len(Topological(g)) < Len(g.nodes) THEN Absent
  ELSE LET vals  == TypedValues(g)
           id(n) == IdOf(vals, n)
       IN  IF \/ \E i \in DOMAIN vals : vals[i].shape = Absent
              \/ \E i \in DOMAIN vals : ~ShapeOK(vals[i].shape)
              \/ FoldLeft(LAMBDA t, v : t + Bytes(v), 0, vals) > MAX_BYTES
              \/ \E t \in DOMAIN g.updates :
                   \/ vals[id(t)].storage # "state"
                   \/ vals[id(g.updates[t])].shape # vals[id(t)].shape
           THEN Absent
           ELSE [values  |-> vals,
                 nodes   |-> [i \in DOMAIN g.nodes |->
                               LET n == Topological(g)[i]
                               IN  [name |-> n.name, op |-> n.op, output |-> id(n.name),
                                    inputs |-> [k \in DOMAIN n.inputs |-> id(n.inputs[k])]]],
                 outputs |-> [k \in DOMAIN g.outputs |-> id(g.outputs[k])],
                 updates |-> {<<id(t), id(g.updates[t])>> : t \in DOMAIN g.updates}]

WantedValues(t) == ToSet(t.outputs) \cup {u[2] : u \in t.updates}

\* Backwards over the nodes: a node stays when its output is needed.
Needed(t) ==
  FoldRight(LAMBDA n, need :
              IF options.debug \/ n.output \in need THEN need \cup ToSet(n.inputs) ELSE need,
            t.nodes, WantedValues(t))

DropUnneeded(t) ==
  [t EXCEPT !.nodes = SelectSeq(@, LAMBDA n : options.debug \/ n.output \in Needed(t))]

Work(t, n) ==
  ElementCount(t.values[n.output].shape)
    * (IF n.op = "matmul" THEN t.values[n.inputs[1]].shape[2] ELSE 1)

\* Mutant: a state with an initializer is taken for a constant.
FoldableInitial(t, n) ==
  /\ ~options.debug /\ n.name \notin DOMAIN options.kernels
  /\ Work(t, n) <= FOLD_WORK
  /\ \A k \in DOMAIN n.inputs : t.values[n.inputs[k]].initial # Absent

Foldable(t, n) ==
  /\ ~options.debug /\ n.name \notin DOMAIN options.kernels
  /\ Work(t, n) <= FOLD_WORK
  /\ \A k \in DOMAIN n.inputs : t.values[n.inputs[k]].storage = "constant"

\* A node of constants becomes a constant and leaves the schedule.
FoldConstants(t) ==
  FoldLeft(LAMBDA acc, n :
             IF Foldable(acc, n)
             THEN [acc EXCEPT
                    !.values[n.output].storage = "constant",
                    !.values[n.output].initial =
                       Logical!Denotes(n.op, [k \in DOMAIN n.inputs |->
                         [shape |-> acc.values[n.inputs[k]].shape,
                          data  |-> acc.values[n.inputs[k]].initial]]).data]
             ELSE [acc EXCEPT !.nodes = Append(@, n)],
           [t EXCEPT !.nodes = <<>>], t.nodes)

\* Does folding replace any node?  Its value may turn out not to be finite.
Folds(t) == Len(FoldConstants(DropUnneeded(t)).nodes) < Len(DropUnneeded(t).nodes)

RuntimeValues(t) ==
  WantedValues(t) \cup UNION {ToSet(t.nodes[i].inputs) \cup {t.nodes[i].output} : i \in DOMAIN t.nodes}

\* Only values something touches, and all inputs and states, keep a number.
Compact(t) ==
  LET kept == {i \in DOMAIN t.values :
                 t.values[i].storage \in {"input", "state"} \/ i \in RuntimeValues(t)}
      order == SetToSortSeq(kept, <)
      new(i) == Cardinality({j \in kept : j <= i})
  IN  [values  |-> [i \in DOMAIN order |-> t.values[order[i]]],
       nodes   |-> [i \in DOMAIN t.nodes |->
                     [t.nodes[i] EXCEPT !.output = new(@),
                        !.inputs = [k \in DOMAIN t.nodes[i].inputs |-> new(t.nodes[i].inputs[k])]]],
       outputs |-> [k \in DOMAIN t.outputs |-> new(t.outputs[k])],
       updates |-> {<<new(u[1]), new(u[2])>> : u \in t.updates}]

Optimized(t) == Compact(FoldConstants(DropUnneeded(t)))

\* First and last position of a node's output.
Lifetime(t, id) ==
  LET first == CHOOSE i \in DOMAIN t.nodes : t.nodes[i].output = id
      uses  == {i \in DOMAIN t.nodes : id \in ToSet(t.nodes[i].inputs)}
  IN  <<first, IF id \in WantedValues(t) THEN Len(t.nodes) + 1 ELSE Max(uses \cup {first})>>

AlignUp(n) == ((n + ALIGNMENT - 1) \div ALIGNMENT) * ALIGNMENT

\* First fit: walk the conflicting buffers by offset until a gap is wide enough.
FirstFit(conflicts, size) ==
  LET byOffset == SetToSortSeq(conflicts, LAMBDA b, c : b.offset < c.offset)
  IN  FoldLeft(LAMBDA acc, b :
                 IF acc.found \/ acc.offset + size <= b.offset
                 THEN [acc EXCEPT !.found = TRUE]
                 ELSE [acc EXCEPT !.offset = Max({@, b.offset + AlignUp(Bytes(b))})],
               [found |-> FALSE, offset |-> 0], byOffset).offset

\* Mutant: an output takes the bytes of an operand its own step still reads.
ConflictsAfterUse(buffers, first) ==
  {b \in ToSet(buffers) : b.life # Absent /\ b.life[2] > first}

Conflicts(buffers, first) == {b \in ToSet(buffers) : b.life # Absent /\ b.life[2] >= first}

Place(t) ==
  FoldLeft(LAMBDA buffers, n :
             LET life == Lifetime(t, n.output)
             IN  [buffers EXCEPT
                   ![n.output].life = life,
                   ![n.output].offset =
                      FirstFit(Conflicts(buffers, life[1]), AlignUp(Bytes(buffers[n.output])))],
           [i \in DOMAIN t.values |->
              [name |-> t.values[i].name, shape |-> t.values[i].shape,
               storage |-> t.values[i].storage, initial |-> t.values[i].initial,
               offset |-> Absent, life |-> Absent]],
           t.nodes)

PlanStep(t, buffers, i) ==
  LET n   == t.nodes[i]
      out == buffers[n.output]
      default == IF n.op = "matmul" /\ Work(t, n) >= BLOCK_WORK THEN "matmul_blocked" ELSE n.op
  IN  [name |-> n.name, inputs |-> n.inputs, output |-> n.output,
       kernel |-> IF n.name \in DOMAIN options.kernels THEN options.kernels[n.name] ELSE default,
       deps  |-> {j \in DOMAIN t.nodes : t.nodes[j].output \in ToSet(n.inputs)},
       reuse |-> {b.life[2] : b \in {c \in ToSet(buffers) :
                    c.life # Absent /\ c.life[2] < i /\ SharesBytes(c, out)}}]

PlanFor(t) ==
  LET buffers == Place(t)
  IN  [supported |-> TRUE,
       buffers   |-> buffers,
       arena     |-> Max({0} \cup {b.offset + AlignUp(Bytes(b)) :
                                     b \in {c \in ToSet(buffers) : c.life # Absent}}),
       steps     |-> [i \in DOMAIN t.nodes |-> PlanStep(t, buffers, i)],
       outputs   |-> t.outputs,
       updates   |-> [s \in {u[1] : u \in t.updates} |->
                        (CHOOSE u \in t.updates : u[1] = s)[2]]]

\* An override must name a node of the graph, keep its operation, and survive.
OverridesOK(t) ==
  \A name \in DOMAIN options.kernels :
    \E i \in DOMAIN t.nodes :
      t.nodes[i].name = name /\ t.nodes[i].op = KernelOp(options.kernels[name])

Compiled ==
  LET t == Typed(authored)
  IN  IF t = Absent THEN Absent
      ELSE LET o == Optimized(t)
           IN  IF OverridesOK(t) /\ OverridesOK(o) THEN PlanFor(o) ELSE Absent

-----------------------------------------------------------------------------
PlannerInit ==
  /\ PlanInit
  /\ authored = [nodes |-> <<>>, outputs |-> <<>>, updates |-> <<>>,
              constants |-> Tensors("constant"), states |-> Tensors("state")]
  /\ options = [debug |-> FALSE, kernels |-> <<>>]
  /\ planStage = "authoring" /\ runs = 0

\* Nodes are written in the order of their names, which is the order in which
\* `typed` looks at them; their operands may come later, or never.
AddNode(n) ==
  /\ planStage = "authoring" /\ Len(authored.nodes) < MaxNodes
  /\ \A i \in DOMAIN authored.nodes : authored.nodes[i].name < n.name
  /\ authored' = [authored EXCEPT !.nodes = Append(@, n)]
  /\ UNCHANGED <<options, planStage, runs, planVars>>

\* The author names outputs and state updates, and picks the compile options.
FinishGraph(outputs, updates, opts) ==
  /\ planStage = "authoring" /\ authored.nodes # <<>>
  /\ authored' = [authored EXCEPT !.outputs = outputs, !.updates = updates]
  /\ options' = opts
  /\ planStage' = "compile"
  /\ UNCHANGED <<runs, planVars>>

\* `compile_with_options` followed by `Executor::new`.
CompileGraph ==
  /\ planStage = "compile"
  /\ LET p == Compiled IN p # Absent /\ NewExecutor(p)
  /\ planStage' = "ready"
  /\ UNCHANGED <<authored, options, runs>>

\* The compiler returns an error: from a pass, for a folded value that is not finite,
\* or because the verifier refuses the plan.
CompileFails ==
  /\ planStage = "compile"
  /\ LET p == Compiled
     IN  p # Absent => Folds(Typed(authored)) \/ ~VerifyPlan(p)
  /\ planStage' = "refused"
  /\ UNCHANGED <<authored, options, runs, planVars>>

\* The same plan read back from a file with other offsets; `verify` decides.
LoadMoved(id, offset) ==
  /\ planStage = "ready" /\ runs = 0
  /\ id \in DOMAIN plan.buffers /\ Buf(id).life # Absent /\ Buf(id).offset # offset
  /\ NewExecutor([plan EXCEPT !.buffers[id].offset = offset])
  /\ planStage' = "moved"
  /\ UNCHANGED <<authored, options, runs>>

\* `override_kernels` on a finished plan.
OverrideKernel(i) ==
  /\ planStage = "ready" /\ runs = 0 /\ i \in DOMAIN plan.steps
  /\ plan.steps[i].kernel = "matmul"
  /\ NewExecutor([plan EXCEPT !.steps[i].kernel = "matmul_blocked"])
  /\ planStage' = "moved"
  /\ UNCHANGED <<authored, options, runs>>

Execute ==
  /\ planStage \in {"ready", "moved"}
  /\ \/ runs < MaxRuns /\ Run(InputData(runs + 1)) /\ runs' = runs + 1
     \/ /\ \/ StoreElement
           \/ CallImplementation
           \/ FinishStep
           \/ AbortRun
           \/ Commit
           \/ /\ runs = 0 /\ Cardinality(implementations) < MaxBindings
              /\ \E i \in DOMAIN plan.steps, op \in Ops : BindImplementation(i, op)
        /\ UNCHANGED runs
  /\ UNCHANGED <<authored, options, planStage>>

PlannerNext ==
  \/ \E n \in Palette : AddNode(n)
  \/ \E o \in OutputLists, u \in UpdateMaps, opts \in OptionSets : FinishGraph(o, u, opts)
  \/ CompileGraph \/ CompileFails
  \/ planStage = "ready" /\ \E id \in DOMAIN plan.buffers : \E k \in 0..(plan.arena \div ALIGNMENT) :
       LoadMoved(id, k * ALIGNMENT)
  \/ \E i \in 1..MaxNodes : OverrideKernel(i)
  \/ Execute

PlannerSpec == PlannerInit /\ [][PlannerNext]_plannerVars

\* The verifier refuses a plan the planner made for one reason only: typing bounds the
\* bytes of all values, the verifier the arena, where each value is rounded up to the
\* alignment, so that a graph inside the one limit may be outside the other.  And in a
\* plan the verifier accepts, edited or not, a step reads what its producer wrote
\* (ReadsAreProduced).
PlansSafe ==
  /\ planStage = "compile" =>
       LET p == Compiled IN p # Absent => (VerifyPlan(p) <=> p.arena <= MAX_BYTES)
  /\ ReadsAreProduced

\* What the executor reports and keeps is what the graph denotes, whatever was
\* dropped, folded, renumbered, moved or run by another kernel; a failed run
\* leaves the states as they were.
Implements == Logical!LogicalSpec
=============================================================================
