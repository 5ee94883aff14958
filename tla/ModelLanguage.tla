--------------------------- MODULE ModelLanguage ---------------------------
(***************************************************************************)
(* dsl/src/expand.rs and execution.rs: modules and folds of the model      *)
(* language are expanded away, every primitive call becoming a node named  *)
(* by its instance path, and the nodes are numbered.  A document is a      *)
(* parsed one.  A name is the sequence of its parts between dots, and a    *)
(* path a sequence of such parts; positional arguments have the key << >>. *)
(* Source spans and frames, which nothing after expansion depends on, and  *)
(* the plan's fields are left out.                                         *)
(*                                                                         *)
(* Refusals carry a reason: "language" for a document that is not well     *)
(* formed, "collision" for two nodes with one path, "limit" for the        *)
(* bounds on work and size.  The order in which the code would find two    *)
(* errors is not kept.                                                     *)
(***************************************************************************)
EXTENDS Integers, Sequences, FiniteSets, SequencesExt, Relation, TLC

CONSTANTS Libraries,    \* the sets of modules a document may start with
          MemberSets,   \* the k-th declaration of a model is from MemberSets[k]
          MAX_DEPTH, MAX_PATH, MAX_STEPS, MAX_INSTANCES, MAX_ITERATIONS,
          MAX_FIELDS, MAX_SHAPE, MAX_PARAMETERS

VARIABLES document,   \* what the author has written
          definition  \* what became of it
languageVars == <<document, definition>>

PRIMITIVES ==
    {"embedding", "cast", "quantize", "repeat", "mhc_pre", "mhc_merge", "mhc_input", "mhc_post",
     "norm", "optional_norm", "linear", "gather", "allreduce", "mome", "slice", "rope",
     "rotary_prefix", "concat", "mla_query", "mla_value", "sink_normalize", "cache_append",
     "cache_norm_rope_append", "latent_attention", "index_cache_append", "sparse_index", "swiglu",
     "router", "expert_linear", "expert_swiglu_down", "expert_reduce", "add"}
STATIC == {"weights", "child", "choose", "div", "mod", "eq", "lt", "record"}

NameExpr(n) == [kind |-> "name", name |-> n]
TextExpr(s) == [kind |-> "string", text |-> s]
NumberExpr(n) == [kind |-> "number", number |-> n]
CallExpr(op, args) == [kind |-> "call", op |-> op, args |-> args]
FoldExpr(index, start, end, carry, initial, body) ==
    [kind |-> "fold", index |-> index, start |-> start, end |-> end, carry |-> carry,
     initial |-> initial, body |-> body]
LetMember(n, e) == [kind |-> "let", name |-> n, expr |-> e]
YieldMember(n) == [kind |-> "yield", name |-> n]
FieldMember(n) == [kind |-> "field", name |-> n]

TensorValue(handle) == [kind |-> "tensor", handle |-> handle]
ScalarValue(e) == [kind |-> "scalar", expr |-> e]
ScopeValue(path) == [kind |-> "scope", path |-> path]
RecordValue(fields) == [kind |-> "record", fields |-> fields]
Refusal(why) == [kind |-> "refused", why |-> why]
Ill == Refusal("language")
Refused(v) == v.kind = "refused"

----------------------------------------------------------------------------
(* Values.                                                                 *)

RECURSIVE OnlyHandles(_)
OnlyHandles(v) ==
    \/ v.kind = "tensor"
    \/ v.kind = "record" /\ \A f \in DOMAIN v.fields : OnlyHandles(v.fields[f])

\* handle_shape: the field paths that lead to a handle.
RECURSIVE HandleShape(_)
HandleShape(v) ==
    IF v.kind = "tensor" THEN {<< >>}
    ELSE UNION {{<<f>> \o p : p \in HandleShape(v.fields[f])} : f \in DOMAIN v.fields}

IsInteger(v) == v.kind = "scalar" /\ v.expr.kind = "number" /\ v.expr.number >= 0
IntegerOf(v) == v.expr.number

Scoped(base, component) ==
    IF component = << >> \/ "" \in ToSet(component) THEN Ill
    ELSE IF Len(base \o component) > MAX_PATH THEN Refusal("limit")
    ELSE ScopeValue(base \o component)

RECURSIVE FieldOf(_, _)
FieldOf(v, tail) ==
    IF tail = << >> THEN v
    ELSE IF v.kind = "record" /\ Head(tail) \in DOMAIN v.fields
         THEN FieldOf(v.fields[Head(tail)], Tail(tail))
         ELSE Ill

Resolve(name, env) ==
    LET root == <<Head(name)>> IN
    IF name \in DOMAIN env THEN env[name]
    ELSE IF Len(name) > 1 /\ root \in DOMAIN env
         THEN IF env[root].kind = "scope" THEN Scoped(env[root].path, Tail(name))
              ELSE FieldOf(env[root], Tail(name))
    ELSE IF name \in {<<"true">>, <<"false">>} THEN ScalarValue(NameExpr(name))
    ELSE Ill

\* Selected argument of choose.
Branch(v) ==
    IF v = ScalarValue(NameExpr(<<"true">>)) THEN 2
    ELSE IF v = ScalarValue(NameExpr(<<"false">>)) THEN 3 ELSE 0

Arithmetic(op, a, b) ==
    LET truth(p) == ScalarValue(NameExpr(<<IF p THEN "true" ELSE "false">>)) IN
    CASE op = "div" -> IF b = 0 THEN Ill ELSE IF a % b # 0 THEN Ill ELSE ScalarValue(NumberExpr(a \div b))
      [] op = "mod" -> IF b = 0 THEN Ill ELSE ScalarValue(NumberExpr(a % b))
      [] op = "eq" -> truth(a = b)
      [] op = "lt" -> truth(a < b)

\* One more component of weights or child.
ScopeWith(scope, v) ==
    IF Refused(scope) THEN scope
    ELSE IF v.kind = "scalar" /\ v.expr.kind = "string" THEN Scoped(scope.path, v.expr.text)
    ELSE IF IsInteger(v) THEN Scoped(scope.path, <<ToString(IntegerOf(v))>>)
    ELSE Ill

ScopeOf(op, vs) ==
    IF op = "weights"
    THEN IF vs[1].kind = "scalar" /\ vs[1].expr.kind = "string" THEN Scoped(<< >>, vs[1].expr.text) ELSE Ill
    ELSE IF vs[1].kind = "scope" THEN FoldLeft(ScopeWith, vs[1], Tail(vs)) ELSE Ill

----------------------------------------------------------------------------
(* Calls.                                                                  *)

Positional(args) == \A k \in DOMAIN args : args[k].key = << >>

\* The parameters the arguments go to: positional ones in order, then named ones.
Parameters(params, args) == [k \in DOMAIN args |-> IF args[k].key # << >> THEN args[k].key ELSE params[k]]
CallOK(params, args) ==
    /\ Len(args) = Len(params)
    /\ \A j, k \in DOMAIN args : j < k /\ args[k].key = << >> => args[j].key = << >>
    /\ ToSet(Parameters(params, args)) = ToSet(params)

LocalEnvOfCaller(env, keys, vs) ==
    [n \in ToSet(keys) |-> vs[CHOOSE k \in DOMAIN keys : keys[k] = n]] @@ env

\* A module's body sees its parameters and nothing of its caller.
LocalEnv(env, keys, vs) ==
    [n \in ToSet(keys) |-> vs[CHOOSE k \in DOMAIN keys : keys[k] = n]]

RecordOK(args) ==
    /\ args # << >>
    /\ \A k \in DOMAIN args : Len(args[k].key) = 1
    /\ \A j, k \in DOMAIN args : args[j].key = args[k].key => j = k

\* An attribute that is a bare, unbound name stands for itself and is not evaluated.
BareExpr(n) == [kind |-> "bare", name |-> n]
Bare(arg, env) ==
    arg.key # << >> /\ arg.expr.kind = "name" /\ arg.expr.name \notin DOMAIN env /\ Len(arg.expr.name) = 1

Literal(v) == IF v.kind = "scope" THEN TextExpr(v.path) ELSE v.expr

\* Positional values are handles, named ones compile-time attributes.
OperandsOK(args, vs) ==
    \A k \in DOMAIN args :
        IF args[k].key = << >> THEN vs[k].kind = "tensor" ELSE vs[k].kind \in {"scalar", "scope"}

Operands(vs) == SelectSeq(vs, LAMBDA v : v.kind = "tensor")
Attributes(args, vs) ==
    LET at(k) == [key |-> args[k].key, value |-> IF args[k].key = << >> THEN << >> ELSE Literal(vs[k])]
    IN SelectSeq([k \in DOMAIN args |-> at(k)], LAMBDA a : a.key # << >>)

----------------------------------------------------------------------------
(* The instance paths of arguments and iterations.                         *)

ArgumentPath(path, key) == path \o <<"arg_" \o Head(key)>> \o Tail(key)
OperandPath(path, k) == path \o <<"arg" \o ToString(k - 1)>>
IterationPathShared(path, i) == path \o <<"i">>
IterationPath(path, i) == path \o <<"i" \o ToString(i)>>

----------------------------------------------------------------------------
(* The expander x is its nodes and its count of steps; an evaluation       *)
(* returns the expander it leaves and a value.                             *)

Result(x, v) == [x |-> x, v |-> v]
Then(r, F(_, _)) == IF Refused(r.v) THEN r ELSE F(r.x, r.v)
Tick(x) == [x EXCEPT !.steps = @ + 1]

Emit(x, path, op, args, vs) ==
    IF ~OperandsOK(args, vs) THEN Result(x, Ill)
    ELSE IF Len(x.nodes) >= MAX_INSTANCES THEN Result(x, Refusal("limit"))
    ELSE IF \E k \in DOMAIN x.nodes : x.nodes[k].name = path THEN Result(x, Refusal("collision"))
    ELSE LET in == Operands(vs) IN
         Result([x EXCEPT !.nodes = Append(@,
                    [name |-> path, op |-> op, inputs |-> [k \in DOMAIN in |-> in[k].handle],
                     attrs |-> Attributes(args, vs)])],
                TensorValue(path))

RECURSIVE Eval(_, _, _, _, _), EvalEach(_, _, _, _, _, _), Iterate(_, _, _, _, _, _, _, _), Body(_, _, _, _, _)

\* The expressions from left to right, each at its own path.
EvalEach(x, exprs, vs, env, paths, depth) ==
    IF exprs = << >> THEN Result(x, [kind |-> "values", values |-> vs])
    ELSE Then(Eval(x, Head(exprs), env, Head(paths), depth), LAMBDA y, v :
              EvalEach(y, Tail(exprs), Append(vs, v), env, Tail(paths), depth))

Iterate(x, e, i, end, carried, env, path, depth) ==
    IF i = end THEN Result(x, carried)
    ELSE Then(Body(x, e.body, (e.carry :> carried) @@ (e.index :> ScalarValue(NumberExpr(i))) @@ env,
                   IterationPath(path, i), depth + 1), LAMBDA y, v :
              IF ~OnlyHandles(v) THEN Result(y, Ill)
              ELSE IF HandleShape(v) # HandleShape(carried) THEN Result(y, Ill)
              ELSE Iterate(y, e, i + 1, end, v, env, path, depth))

EvalFold(x, e, env, path, depth) ==
    IF e.index = e.carry THEN Result(x, Ill)
    ELSE Then(EvalEach(x, <<e.start, e.end, e.initial>>, << >>, env, <<path, path, path>>, depth + 1), LAMBDA y, v :
         LET begin == v.values[1]
             end == v.values[2]
             initial == v.values[3] IN
         IF ~IsInteger(begin) \/ ~IsInteger(end) \/ ~OnlyHandles(initial) THEN Result(y, Ill)
         ELSE IF IntegerOf(begin) > IntegerOf(end) THEN Result(y, Ill)
         ELSE IF IntegerOf(end) - IntegerOf(begin) > MAX_ITERATIONS THEN Result(y, Refusal("limit"))
         ELSE Iterate(y, e, IntegerOf(begin), IntegerOf(end), initial, env, path, depth))

Exprs(args) == [k \in DOMAIN args |-> args[k].expr]
SamePath(args, path) == [k \in DOMAIN args |-> path]

EvalStatic(x, op, args, env, path, depth) ==
    CASE op = "record" ->
            IF ~RecordOK(args) THEN Result(x, Ill)
            ELSE IF Len(args) > MAX_FIELDS THEN Result(x, Refusal("limit"))
            ELSE Then(EvalEach(x, Exprs(args), << >>, env, [k \in DOMAIN args |-> path \o args[k].key], depth + 1),
                 LAMBDA y, v :
                 LET r == RecordValue([f \in {args[k].key[1] : k \in DOMAIN args} |->
                                          v.values[CHOOSE k \in DOMAIN args : args[k].key[1] = f]]) IN
                 Result(y, IF ~OnlyHandles(r) THEN Ill
                           ELSE IF Cardinality(HandleShape(r)) > MAX_SHAPE THEN Refusal("limit") ELSE r))
      [] op = "choose" ->
            IF Len(args) # 3 \/ ~Positional(args) THEN Result(x, Ill)
            ELSE Then(Eval(x, args[1].expr, env, path, depth + 1), LAMBDA y, v :
                 IF Branch(v) = 0 THEN Result(y, Ill) ELSE Eval(y, args[Branch(v)].expr, env, path, depth + 1))
      [] op \in {"weights", "child"} ->
            IF ~Positional(args) \/ ~(IF op = "weights" THEN Len(args) = 1 ELSE Len(args) >= 2) THEN Result(x, Ill)
            ELSE Then(EvalEach(x, Exprs(args), << >>, env, SamePath(args, path), depth + 1), LAMBDA y, v :
                 Result(y, ScopeOf(op, v.values)))
      [] OTHER ->
            IF Len(args) # 2 \/ ~Positional(args) THEN Result(x, Ill)
            ELSE Then(EvalEach(x, Exprs(args), << >>, env, SamePath(args, path), depth + 1), LAMBDA y, v :
                 Result(y, IF ~IsInteger(v.values[1]) \/ ~IsInteger(v.values[2]) THEN Ill
                           ELSE Arithmetic(op, IntegerOf(v.values[1]), IntegerOf(v.values[2]))))

EvalModule(x, m, args, env, path, depth) ==
    IF ~CallOK(m.parameters, args) THEN Result(x, Ill)
    ELSE LET keys == Parameters(m.parameters, args) IN
         Then(EvalEach(x, Exprs(args), << >>, env, [k \in DOMAIN args |-> ArgumentPath(path, keys[k])], depth + 1),
              LAMBDA y, v : Body(y, m.body, LocalEnv(env, keys, v.values), path, depth + 1))

EvalPrimitive(x, op, args, env, path, depth) ==
    LET asked == [k \in DOMAIN args |-> IF Bare(args[k], env) THEN BareExpr(args[k].expr.name) ELSE args[k].expr]
    IN Then(EvalEach(x, asked, << >>, env, [k \in DOMAIN args |-> OperandPath(path, k)], depth + 1),
            LAMBDA y, v : Emit(y, path, op, args, v.values))

Eval(x, e, env, path, depth) ==
    LET t == Tick(x) IN
    IF e.kind = "bare" THEN Result(x, ScalarValue(NameExpr(e.name)))
    ELSE IF t.steps > MAX_STEPS \/ depth > MAX_DEPTH \/ Len(path) > MAX_PATH THEN Result(t, Refusal("limit"))
    ELSE CASE e.kind = "name" -> Result(t, Resolve(e.name, env))
           [] e.kind \in {"string", "number"} -> Result(t, ScalarValue(e))
           [] e.kind = "list" -> Result(t, Ill)
           [] e.kind = "fold" -> EvalFold(t, e, env, path, depth)
           [] e.kind = "call" /\ e.op \in STATIC -> EvalStatic(t, e.op, e.args, env, path, depth)
           [] e.kind = "call" /\ e.op \in DOMAIN t.modules -> EvalModule(t, t.modules[e.op], e.args, env, path, depth)
           [] e.kind = "call" /\ e.op \in PRIMITIVES -> EvalPrimitive(t, e.op, e.args, env, path, depth)
           [] OTHER -> Result(t, Ill)

Body(x, members, env, prefix, depth) ==
    LET t == Tick(x)
        m == Head(members) IN
    IF members = << >> THEN Result(x, Ill)   \* no yield
    ELSE IF t.steps > MAX_STEPS THEN Result(t, Refusal("limit"))
    ELSE IF m.kind = "yield" THEN Result(t, IF Len(members) > 1 THEN Ill ELSE Resolve(m.name, env))
    ELSE IF m.kind # "let" \/ m.name \in DOMAIN env THEN Result(t, Ill)
    ELSE Then(Eval(t, m.expr, env, prefix \o m.name, depth + 1), LAMBDA y, v :
              Body(y, Tail(members), (m.name :> v) @@ env, prefix, depth))
----------------------------------------------------------------------------
(* expand: the modules are checked, then the model's members are expanded. *)

RECURSIVE Dependencies(_)
Dependencies(e) ==
    CASE e.kind = "call" -> {e.op} \cup UNION {Dependencies(e.args[k].expr) : k \in DOMAIN e.args}
      [] e.kind = "fold" ->
            UNION {Dependencies(f) : f \in {e.start, e.end, e.initial}}
            \cup UNION {Dependencies(m.expr) : m \in {m \in ToSet(e.body) : m.kind = "let"}}
      [] OTHER -> {}

Called(m) == UNION {Dependencies(b.expr) : b \in {b \in ToSet(m.body) : b.kind = "let"}}

\* visit: no module reaches itself through the modules it calls.
Recursive(modules) ==
    LET names == {m.name : m \in ToSet(modules)}
        calls == [a, b \in names |-> \E m \in ToSet(modules) : m.name = a /\ b \in Called(m)]
    IN names # {} /\ \E n \in names : TransitiveClosure(calls, names)[n, n]

ModulesOK(modules) ==
    LET names == [k \in DOMAIN modules |-> modules[k].name] IN
    /\ IsInjective(names) /\ ToSet(names) \cap (PRIMITIVES \cup STATIC) = {}
    /\ \A m \in ToSet(modules) :
           /\ Len(m.parameters) <= MAX_PARAMETERS /\ IsInjective(m.parameters)
           /\ Called(m) \subseteq ToSet(names) \cup PRIMITIVES \cup STATIC
    /\ ~Recursive(modules)

RECURSIVE ExpandModel(_, _, _)
ExpandModel(x, members, env) ==
    LET m == Head(members)
        v == Resolve(m.name, env) IN
    IF members = << >> THEN Result(x, [kind |-> "no output"])
    ELSE CASE m.kind = "field" -> ExpandModel([x EXCEPT !.fields = Append(@, m.name)], Tail(members), env)
           [] m.kind = "yield" -> Result(x, IF Len(members) > 1 \/ v.kind # "tensor" THEN Ill ELSE v)
           [] m.kind = "let" ->
                 IF m.name \in DOMAIN env THEN Result(x, Ill)
                 ELSE Then(Eval(x, m.expr, env, m.name, 0), LAMBDA y, w :
                           ExpandModel(y, Tail(members), (m.name :> w) @@ env))
           [] OTHER -> Result(x, Ill)

Expand(doc) ==
    LET x == [modules |-> [n \in {m.name : m \in ToSet(doc.modules)} |->
                              CHOOSE m \in ToSet(doc.modules) : m.name = n],
              nodes |-> << >>, fields |-> << >>, steps |-> 0]
    IN IF ModulesOK(doc.modules) THEN ExpandModel(x, doc.model, << >>) ELSE Result(x, Ill)

----------------------------------------------------------------------------
(* elaborate: names become numbers and attributes text.                    *)

AttributeText(e) ==
    CASE e.kind = "name" -> e.name [] e.kind = "string" -> e.text [] e.kind = "number" -> <<ToString(e.number)>>

NodeNamed(nodes, name) == CHOOSE k \in DOMAIN nodes : nodes[k].name = name

NumberedOK(nodes) ==
    \A k \in DOMAIN nodes :
        /\ \A i \in ToSet(nodes[k].inputs) : \E j \in 1 .. k - 1 : nodes[j].name = i
        /\ IsInjective([a \in DOMAIN nodes[k].attrs |-> nodes[k].attrs[a].key])
        /\ \A j \in 1 .. k - 1 : nodes[j].name # nodes[k].name

NumberedNodes(nodes) ==
    [k \in DOMAIN nodes |->
        [name |-> nodes[k].name, op |-> nodes[k].op,
         inputs |-> [s \in DOMAIN nodes[k].inputs |-> NodeNamed(nodes, nodes[k].inputs[s])],
         attrs |-> {<<a.key, AttributeText(a.value)>> : a \in ToSet(nodes[k].attrs)}]]

\* The fields context and eos, each once; validate refuses a graph without an output.
FieldsOK(fields) == IsInjective(fields) /\ ToSet(fields) = {<<"context">>, <<"eos">>}

Elaborated(x, v) ==
    IF Refused(v) THEN v
    ELSE IF v.kind = "no output" \/ ~FieldsOK(x.fields) \/ ~NumberedOK(x.nodes) THEN Ill
    ELSE [kind |-> "graph", nodes |-> NumberedNodes(x.nodes), output |-> NodeNamed(x.nodes, v.handle)]

Elaborate(r) == Elaborated(r.x, r.v)

----------------------------------------------------------------------------
(* An author writes the members of a model one by one and has it elaborated. *)

Unread == [kind |-> "unread"]

LanguageInit ==
    /\ document \in {[modules |-> l, model |-> << >>] : l \in Libraries}
    /\ definition = Unread

Declare ==
    /\ definition = Unread /\ Len(document.model) < Len(MemberSets)
    /\ \E m \in MemberSets[Len(document.model) + 1] : document' = [document EXCEPT !.model = Append(@, m)]
    /\ UNCHANGED definition

ElaborateDocument ==
    /\ definition = Unread /\ Len(document.model) = Len(MemberSets)
    /\ definition' = Elaborate(Expand(document))
    /\ UNCHANGED document

LanguageNext == Declare \/ ElaborateDocument
=============================================================================
