---------------------------- MODULE LogicalGraph ----------------------------
(***************************************************************************)
(* What a compiled graph promises to whoever runs it: an invocation        *)
(* returns the outputs the graph denotes and replaces all states at once,  *)
(* or it fails and leaves the states alone.  There is no schedule, no      *)
(* arena and no kernel here.  A tensor is a shape and its elements in      *)
(* row-major order; an element is the term that was computed.              *)
(***************************************************************************)
EXTENDS Integers, Sequences

CONSTANTS NoGraph,         \* before any graph is accepted
          Inputs(_)        \* the input tensors a caller may pass for a graph

VARIABLES graph, state, report

logicalVars == <<graph, state, report>>

\* The four operations on whole tensors (`fold` in the planner).
Denotes(op, a) ==
  CASE op \in {"add", "mul"} ->
         [shape |-> a[1].shape,
          data  |-> [i \in DOMAIN a[1].data |-> <<op, a[1].data[i], a[2].data[i]>>]]
    [] op = "relu" ->
         [shape |-> a[1].shape, data |-> [i \in DOMAIN a[1].data |-> <<op, a[1].data[i]>>]]
    [] op = "matmul" ->
         LET k == a[1].shape[2]
             n == a[2].shape[2]
         IN  [shape |-> <<a[1].shape[1], n>>,
              data  |-> [i \in 1..(a[1].shape[1] * n) |->
                          [z \in 1..k |->
                             <<"mul", a[1].data[((i - 1) \div n) * k + z],
                                      a[2].data[(z - 1) * n + ((i - 1) % n) + 1]>>]]]

NodeNames(g) == {g.nodes[i].name : i \in DOMAIN g.nodes}
NodeNamed(g, name) == g.nodes[CHOOSE i \in DOMAIN g.nodes : g.nodes[i].name = name]

\* The tensor every name of the graph stands for, given the leaves.
Meaning(g, leaves) ==
  LET value[name \in NodeNames(g) \cup DOMAIN leaves] ==
        IF name \in DOMAIN leaves THEN leaves[name]
        ELSE LET n == NodeNamed(g, name)
             IN  Denotes(n.op, [i \in DOMAIN n.inputs |-> value[n.inputs[i]]])
  IN  value

Leaves(g, input, st) ==
  [name \in DOMAIN input \cup DOMAIN g.constants \cup DOMAIN st |->
     IF name \in DOMAIN input THEN input[name]
     ELSE IF name \in DOMAIN st THEN st[name] ELSE g.constants[name]]

LogicalInit ==
  /\ graph = NoGraph
  /\ state = <<>>
  /\ report = [ok |-> TRUE, outputs |-> <<>>]

Accept ==
  /\ graph = NoGraph
  /\ graph' # NoGraph
  /\ state' = graph'.states
  /\ report' = [ok |-> TRUE, outputs |-> <<>>]

Invoke ==
  /\ graph # NoGraph
  /\ \E input \in Inputs(graph) :
       LET value == Meaning(graph, Leaves(graph, input, state))
       IN  /\ report' = [ok |-> TRUE, outputs |->
                        [name \in {graph.outputs[i] : i \in DOMAIN graph.outputs} |->
                           value[name].data]]
           /\ state' = [s \in DOMAIN state |->
                          IF s \in DOMAIN graph.updates THEN value[graph.updates[s]]
                          ELSE state[s]]
  /\ UNCHANGED graph

Fail ==
  /\ graph # NoGraph
  /\ report' = [ok |-> FALSE, outputs |-> <<>>]
  /\ UNCHANGED <<graph, state>>

\* Loading the plan again starts over from the initial states.
Restart ==
  /\ graph # NoGraph
  /\ state' = graph.states
  /\ report' = [ok |-> TRUE, outputs |-> <<>>]
  /\ UNCHANGED graph

LogicalNext == Accept \/ Invoke \/ Fail \/ Restart
LogicalSpec == LogicalInit /\ [][LogicalNext]_logicalVars
=============================================================================
