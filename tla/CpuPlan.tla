------------------------------- MODULE CpuPlan -------------------------------
(***************************************************************************)
(* A physical plan (ir.rs), the verifier every plan passes before it is    *)
(* used (verify.rs) and the executor that owns the arena (execute.rs).     *)
(* Buffer and step indices count from 1, so that the final commit is       *)
(* position Len(steps) + 1.  Element values are the terms that were        *)
(* computed; whether a float is finite is not known here, so that a step   *)
(* may fail its finiteness check at any time.                              *)
(***************************************************************************)
EXTENDS Integers, Sequences, FiniteSets, FiniteSetsExt, SequencesExt

CONSTANTS ALIGNMENT, MAX_BYTES, MAX_NODES,
          MAX_WORK,        \* multiplications one matmul may take
          Absent           \* an absent offset, lifetime, initializer or plan

ASSUME SizesAssumption ==
  /\ ALIGNMENT \in Nat \ {0} /\ ALIGNMENT % 4 = 0
  /\ MAX_BYTES \in Nat /\ MAX_NODES \in Nat /\ MAX_WORK \in Nat

VARIABLES plan, arena, owned, implementations, input, step, done, report,
          written          \* auxiliary: the elements each buffer was given in this run

planVars == <<plan, arena, owned, implementations, input, step, done, report, written>>

ElementCount(shape) == FoldLeft(LAMBDA a, b : a * b, 1, shape)
ShapeOK(shape) ==
  /\ Len(shape) \in 1..8
  /\ \A i \in DOMAIN shape : shape[i] > 0
  /\ 4 * ElementCount(shape) <= MAX_BYTES

Ops == {"add", "mul", "relu", "matmul"}
KernelOp(kernel) == IF kernel = "matmul_blocked" THEN "matmul" ELSE kernel

\* The output shape of an operation, or Absent.
OutShape(op, shapes) ==
  IF Len(shapes) # (IF op = "relu" THEN 1 ELSE 2) THEN Absent
  ELSE IF op = "matmul"
       THEN IF /\ Len(shapes[1]) = 2 /\ Len(shapes[2]) = 2 /\ shapes[1][2] = shapes[2][1]
               /\ shapes[1][1] * shapes[2][2] * shapes[1][2] <= MAX_WORK
            THEN <<shapes[1][1], shapes[2][2]>> ELSE Absent
       ELSE IF \A i \in DOMAIN shapes : shapes[i] = shapes[1] THEN shapes[1] ELSE Absent

Bytes(b) == 4 * ElementCount(b.shape)
SharesBytes(b, c) == b.offset < c.offset + Bytes(c) /\ c.offset < b.offset + Bytes(b)

-----------------------------------------------------------------------------
(* The verifier. *)

VerifyLimits(p) ==
  /\ p.supported          \* version, target, policy, alignment, rank and stream
  /\ Len(p.steps) <= MAX_NODES /\ Len(p.buffers) <= 4 * MAX_NODES
  /\ p.arena <= MAX_BYTES /\ p.arena % ALIGNMENT = 0
  /\ p.outputs # <<>>
  /\ FoldLeft(LAMBDA n, b : n + Bytes(b), 0, p.buffers) <= MAX_BYTES

VerifyBuffer(p, b) ==
  /\ ShapeOK(b.shape)
  /\ IF b.storage = "arena"
     THEN /\ b.initial = Absent /\ b.life # Absent /\ b.offset # Absent
          /\ b.offset % ALIGNMENT = 0 /\ b.offset + Bytes(b) <= p.arena
     ELSE /\ b.offset = Absent /\ b.life = Absent
          /\ IF b.storage = "input" THEN b.initial = Absent
             ELSE b.initial # Absent /\ Len(b.initial) = ElementCount(b.shape)

Produces(p, i, id) == p.steps[i].output = id

\* A step may only read what an earlier step produced, and must name that step.
VerifyStep(p, i) ==
  LET s == p.steps[i]
  IN  /\ s.output \in DOMAIN p.buffers
      /\ p.buffers[s.output].storage = "arena"
      /\ p.buffers[s.output].name = s.name
      /\ \A j \in 1..(i - 1) : ~Produces(p, j, s.output)
      /\ s.deps \cup s.reuse \subseteq 1..(i - 1)
      /\ \A k \in DOMAIN s.inputs :
           /\ s.inputs[k] \in DOMAIN p.buffers
           /\ p.buffers[s.inputs[k]].storage = "arena" =>
                \E j \in s.deps : Produces(p, j, s.inputs[k])
      /\ OutShape(KernelOp(s.kernel), [k \in DOMAIN s.inputs |-> p.buffers[s.inputs[k]].shape])
           = p.buffers[s.output].shape

Results(p) == {p.outputs[k] : k \in DOMAIN p.outputs} \cup {p.updates[t] : t \in DOMAIN p.updates}

VerifyResults(p) ==
  /\ \A k, l \in DOMAIN p.outputs : p.outputs[k] = p.outputs[l] => k = l
  /\ Results(p) \subseteq DOMAIN p.buffers
  /\ \A t \in DOMAIN p.updates :
       /\ t \in DOMAIN p.buffers /\ p.buffers[t].storage = "state"
       /\ p.buffers[t].shape = p.buffers[p.updates[t]].shape
  /\ \A id \in Results(p) : p.buffers[id].storage = "arena" =>
       \E i \in DOMAIN p.steps : Produces(p, i, id)

\* The positions between which a buffer's contents are needed.
Uses(p, id) ==
  {i \in DOMAIN p.steps : \E k \in DOMAIN p.steps[i].inputs : p.steps[i].inputs[k] = id}
     \cup (IF id \in Results(p) THEN {Len(p.steps) + 1} ELSE {})
IsLife(p, id, life) ==
  /\ life[1] \in DOMAIN p.steps /\ Produces(p, life[1], id)
  /\ life[2] \in Uses(p, id) \cup {life[1]}
  /\ \A i \in Uses(p, id) : i <= life[2]

\* Two buffers that share bytes are not needed together, and the later writer
\* waits for the last reader of the earlier contents.
MayShare(p, b, c) ==
  \/ b.life[2] < c.life[1] /\ b.life[2] \in p.steps[c.life[1]].reuse
  \/ c.life[2] < b.life[1] /\ c.life[2] \in p.steps[b.life[1]].reuse

\* Mutant: only the order of the two last positions is looked at.
SharingByLast(p, b, c) == SharesBytes(b, c) => b.life[2] # c.life[2]

VerifySharing(p, b, c) == SharesBytes(b, c) => MayShare(p, b, c)

VerifyLifetimes(p) ==
  \A i \in DOMAIN p.buffers :
    LET b == p.buffers[i]
    IN  b.life # Absent =>
          /\ IsLife(p, i, b.life)
          /\ \A j \in 1..(i - 1) :
               p.buffers[j].life # Absent => VerifySharing(p, b, p.buffers[j])

VerifyPlan(p) ==
  /\ VerifyLimits(p)
  /\ \A i \in DOMAIN p.buffers : VerifyBuffer(p, p.buffers[i])
  /\ \A i, j \in DOMAIN p.buffers : p.buffers[i].name = p.buffers[j].name => i = j
  /\ \A i \in DOMAIN p.steps : VerifyStep(p, i)
  /\ VerifyResults(p)
  /\ VerifyLifetimes(p)

-----------------------------------------------------------------------------
(* The executor. *)

NotRunning == 0
NoReport == [ok |-> TRUE, outputs |-> <<>>]
Failed == [ok |-> FALSE, outputs |-> <<>>]
Buf(id) == plan.buffers[id]
Cells(p, id) == {p.buffers[id].offset \div 4 + i : i \in 0..(ElementCount(p.buffers[id].shape) - 1)}

PlanInit ==
  /\ plan = Absent
  /\ arena = <<>> /\ owned = <<>> /\ input = <<>> /\ written = <<>>
  /\ implementations = {}
  /\ step = NotRunning /\ done = {}
  /\ report = NoReport

\* `Executor::new`, from the compiler or from a decoded file.
NewExecutor(p) ==
  /\ VerifyPlan(p)
  /\ plan' = p
  /\ arena' = [c \in 0..(p.arena \div 4 - 1) |-> "zero"]
  /\ owned' = [id \in {i \in DOMAIN p.buffers : p.buffers[i].initial # Absent} |->
                 p.buffers[id].initial]
  /\ implementations' = {}
  /\ input' = <<>> /\ written' = <<>>
  /\ step' = NotRunning /\ done' = {}
  /\ report' = NoReport

BindImplementation(i, op) ==
  /\ plan # Absent /\ step = NotRunning
  /\ i \in DOMAIN plan.steps \ implementations
  /\ op = KernelOp(plan.steps[i].kernel)
  /\ implementations' = implementations \cup {i}
  /\ UNCHANGED <<plan, arena, owned, input, step, done, report, written>>

\* One element of a buffer as the kernels read it.
Get(id, i) ==
  CASE Buf(id).storage = "arena" -> arena[Buf(id).offset \div 4 + i - 1]
    [] Buf(id).storage = "input" -> input[Buf(id).name][i]
    [] OTHER -> owned[id][i]
Collect(id) == [i \in 1..ElementCount(Buf(id).shape) |-> Get(id, i)]

\* What the step's kernel computes for element i from what it reads now.
Element(s, i) ==
  LET a == s.inputs[1]
      b == s.inputs[2]
  IN  CASE KernelOp(s.kernel) \in {"add", "mul"} -> <<s.kernel, Get(a, i), Get(b, i)>>
        [] KernelOp(s.kernel) = "relu" -> <<s.kernel, Get(a, i)>>
        [] KernelOp(s.kernel) = "matmul" ->
             LET k == Buf(a).shape[2]
                 n == Buf(s.output).shape[2]
             IN  [z \in 1..k |-> <<"mul", Get(a, ((i - 1) \div n) * k + z),
                                          Get(b, (z - 1) * n + ((i - 1) % n) + 1)>>]

OutputCount(i) == ElementCount(Buf(plan.steps[i].output).shape)

\* Names, sizes and finite values must match the plan's inputs.
Run(in) ==
  /\ plan # Absent /\ step = NotRunning
  /\ DOMAIN in = {Buf(i).name : i \in {j \in DOMAIN plan.buffers : Buf(j).storage = "input"}}
  /\ \A i \in DOMAIN plan.buffers :
       Buf(i).storage = "input" => Len(in[Buf(i).name]) = ElementCount(Buf(i).shape)
  /\ input' = in
  /\ step' = 1 /\ done' = {}
  /\ written' = <<>>
  /\ UNCHANGED <<plan, arena, owned, implementations, report>>

Running == plan # Absent /\ step # NotRunning /\ step \in DOMAIN plan.steps
StepOutput == plan.steps[step].output

\* One iteration of a kernel's loop; the blocked kernel goes tile by tile, which
\* is some order of the elements, the others go in the order of the output.
StoreElement ==
  /\ Running /\ step \notin implementations
  /\ \E i \in (1..OutputCount(step)) \ done :
       /\ plan.steps[step].kernel # "matmul_blocked" => \A j \in 1..(i - 1) : j \in done
       /\ LET x == Element(plan.steps[step], i)
          IN  /\ arena' = [arena EXCEPT ![Buf(StepOutput).offset \div 4 + i - 1] = x]
              /\ written' = [b \in DOMAIN written \cup {StepOutput} |->
                               [j \in (IF b = StepOutput THEN done \cup {i} ELSE DOMAIN written[b]) |->
                                  IF b = StepOutput /\ j = i THEN x ELSE written[b][j]]]
       /\ done' = done \cup {i}
  /\ UNCHANGED <<plan, owned, implementations, input, step, report>>

\* A bound implementation gets copies of its inputs and returns the output.
CallImplementation ==
  /\ Running /\ step \in implementations /\ done = {}
  /\ LET x == [i \in 1..OutputCount(step) |-> Element(plan.steps[step], i)]
         o == Buf(StepOutput).offset \div 4
     IN  /\ arena' = [c \in DOMAIN arena |->
                        IF c \in Cells(plan, StepOutput) THEN x[c - o + 1] ELSE arena[c]]
         /\ written' = [b \in DOMAIN written \cup {StepOutput} |->
                          IF b = StepOutput THEN x ELSE written[b]]
  /\ done' = 1..OutputCount(step)
  /\ UNCHANGED <<plan, owned, implementations, input, step, report>>

FinishStep ==
  /\ Running /\ done = 1..OutputCount(step)
  /\ step' = step + 1 /\ done' = {}
  /\ UNCHANGED <<plan, arena, owned, implementations, input, report, written>>

\* A nonfinite result, or an implementation that breaks its contract.
AbortRun ==
  /\ Running
  /\ IF step \in implementations THEN done = {} ELSE done = 1..OutputCount(step)
  /\ step' = NotRunning /\ done' = {}
  /\ report' = Failed
  /\ UNCHANGED <<plan, arena, owned, implementations, input, written>>

\* Outputs and new states are all collected before any state changes.
Commit ==
  /\ plan # Absent /\ step = Len(plan.steps) + 1
  /\ report' = [ok |-> TRUE, outputs |->
                [name \in {Buf(plan.outputs[k]).name : k \in DOMAIN plan.outputs} |->
                   Collect(CHOOSE id \in Results(plan) : Buf(id).name = name)]]
  /\ owned' = [id \in DOMAIN owned |->
                 IF id \in DOMAIN plan.updates THEN Collect(plan.updates[id]) ELSE owned[id]]
  /\ step' = NotRunning /\ done' = {}
  /\ UNCHANGED <<plan, arena, implementations, input, written>>

\* Whatever shared the bytes before, the buffers a step is about to read hold
\* the elements their producers wrote.
ReadsAreProduced ==
  Running => \A k \in DOMAIN plan.steps[step].inputs :
    LET id == plan.steps[step].inputs[k]
    IN  Buf(id).storage = "arena" =>
          /\ id \in DOMAIN written
          /\ Collect(id) = written[id]
=============================================================================
