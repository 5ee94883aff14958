---------------------------- MODULE ModelMeaning ----------------------------
(***************************************************************************)
(* What a document means, without paths or an expander: a handle is the    *)
(* term it stands for, and a term is told from its equals by the place of  *)
(* the call that made it.  A place says of every enclosing construct what  *)
(* kind it is and how an instance path spells it.  The meaning of an       *)
(* expression is a set: empty when it is not well formed, else its value   *)
(* with all the terms made on the way.  Limits play no part.  Names,       *)
(* fields, scopes and integers are those of ModelLanguage.                 *)
(***************************************************************************)
EXTENDS ModelLanguage

Meant(v, made) == [v |-> v, made |-> made]
Unless(v, made) == IF Refused(v) THEN {} ELSE {Meant(v, made)}

\* The meanings of several expressions as the meaning of their sequence.
Together(ds) ==
    FoldLeft(LAMBDA all, d : {Meant(Append(a.v, m.v), a.made \cup m.made) : a \in all, m \in d},
             {Meant(<< >>, {})}, ds)

Mark(kind, spelled) == <<kind, spelled>>
Spelled(at) == FlattenSeq([k \in DOMAIN at |-> at[k][2]])

TermOf(op, args, vs, at) ==
    [op |-> op, at |-> at, inputs |-> [k \in DOMAIN Operands(vs) |-> Operands(vs)[k].handle],
     attrs |-> {<<a.key, AttributeText(a.value)>> : a \in ToSet(Attributes(args, vs))}]
DistinctKeys(args) == \A j, k \in DOMAIN args : args[j].key = args[k].key => j = k \/ args[k].key = << >>

RECURSIVE Denote(_, _, _, _), Rounds(_, _, _, _, _, _, _), DenoteBody(_, _, _, _)

DenoteEach(modules, exprs, env, ats) ==
    Together([k \in DOMAIN exprs |-> Denote(modules, exprs[k], env, ats[k])])

\* The body of a fold for the values from i on, each round in a place of its own.
Rounds(modules, e, i, end, from, env, at) ==
    IF i = end THEN {from}
    ELSE UNION {Rounds(modules, e, i + 1, end, Meant(d.v, from.made \cup d.made), env, at) :
            d \in {d \in DenoteBody(modules, e.body,
                              (e.carry :> from.v) @@ (e.index :> ScalarValue(NumberExpr(i))) @@ env,
                              Append(at, Mark("round", <<"i" \o ToString(i)>>))) :
                    OnlyHandles(d.v) /\ HandleShape(d.v) = HandleShape(from.v)}}

FoldRange(v) ==
    /\ IsInteger(v[1]) /\ IsInteger(v[2]) /\ OnlyHandles(v[3])
    /\ IntegerOf(v[1]) <= IntegerOf(v[2])

DenoteFold(modules, e, env, at) ==
    UNION {Rounds(modules, e, IntegerOf(d.v[1]), IntegerOf(d.v[2]), Meant(d.v[3], d.made), env, at) :
        d \in {d \in DenoteEach(modules, <<e.start, e.end, e.initial>>, env,
                          <<Append(at, Mark("start", << >>)), Append(at, Mark("end", << >>)),
                            Append(at, Mark("initial", << >>))>>) :
                e.index # e.carry /\ FoldRange(d.v)}}

\* An argument of a call: how its place is marked and spelled.
ArgumentMark(modules, op, args, k) ==
    LET key == Parameters(modules[op].parameters, args)[k] IN
    CASE op = "record" -> Mark("field", args[k].key)
      [] op \in STATIC \ {"record"} -> Mark("static" \o ToString(k), << >>)
      [] op \in PRIMITIVES -> Mark("operand", <<"arg" \o ToString(k - 1)>>)
      [] OTHER -> Mark("argument", <<"arg_" \o Head(key)>> \o Tail(key))

CallWellFormed(modules, op, args) ==
    CASE op = "record" -> RecordOK(args)
      [] op = "choose" -> Positional(args) /\ Len(args) = 3
      [] op = "weights" -> Positional(args) /\ Len(args) = 1
      [] op = "child" -> Positional(args) /\ Len(args) >= 2
      [] op \in {"div", "mod", "eq", "lt"} -> Positional(args) /\ Len(args) = 2
      [] op \in PRIMITIVES -> DistinctKeys(args)
      [] OTHER -> op \in DOMAIN modules /\ CallOK(modules[op].parameters, args)

\* What a call makes of the values vs of its arguments.
Applied(modules, op, args, vs, made, at) ==
    CASE op = "record" ->
            {m \in {Meant(RecordValue([f \in {args[k].key[1] : k \in DOMAIN args} |->
                                          vs[CHOOSE k \in DOMAIN args : args[k].key[1] = f]]), made)} :
                OnlyHandles(m.v)}
      [] op \in {"weights", "child"} -> Unless(ScopeOf(op, vs), made)
      [] op \in {"div", "mod", "eq", "lt"} ->
            IF IsInteger(vs[1]) /\ IsInteger(vs[2])
            THEN Unless(Arithmetic(op, IntegerOf(vs[1]), IntegerOf(vs[2])), made) ELSE {}
      [] op \in PRIMITIVES ->
            IF OperandsOK(args, vs)
            THEN {Meant(TensorValue(t), made \cup {t}) : t \in {TermOf(op, args, vs, at)}} ELSE {}
      [] OTHER ->
            {Meant(d.v, made \cup d.made) :
                d \in DenoteBody(modules, modules[op].body,
                          [n \in ToSet(modules[op].parameters) |->
                              vs[CHOOSE k \in DOMAIN args : Parameters(modules[op].parameters, args)[k] = n]], at)}

DenoteCall(modules, op, args, env, at) ==
    IF ~CallWellFormed(modules, op, args) THEN {}
    ELSE IF op = "choose"
    THEN UNION {{Meant(b.v, c.made \cup b.made) :
                    b \in Denote(modules, args[Branch(c.v)].expr, env,
                                 Append(at, ArgumentMark(modules, op, args, Branch(c.v))))} :
            c \in {c \in Denote(modules, args[1].expr, env, Append(at, ArgumentMark(modules, op, args, 1))) :
                    Branch(c.v) # 0}}
    ELSE UNION {Applied(modules, op, args, d.v, d.made, at) :
            d \in DenoteEach(modules,
                      [k \in DOMAIN args |-> IF op \in PRIMITIVES /\ Bare(args[k], env)
                                             THEN BareExpr(args[k].expr.name) ELSE args[k].expr],
                      env, [k \in DOMAIN args |-> Append(at, ArgumentMark(modules, op, args, k))])}

Denote(modules, e, env, at) ==
    CASE e.kind = "name" -> Unless(Resolve(e.name, env), {})
      [] e.kind = "bare" -> {Meant(ScalarValue(NameExpr(e.name)), {})}
      [] e.kind \in {"string", "number"} -> {Meant(ScalarValue(e), {})}
      [] e.kind = "list" -> {}
      [] e.kind = "fold" -> DenoteFold(modules, e, env, at)
      [] e.kind = "call" -> DenoteCall(modules, e.op, e.args, env, at)

\* Bindings in order, up to a last yield.
DenoteBody(modules, members, env, at) ==
    IF members = << >> THEN {}
    ELSE LET m == Head(members) IN
         IF m.kind = "yield" THEN IF Len(members) > 1 THEN {} ELSE Unless(Resolve(m.name, env), {})
         ELSE IF m.kind # "let" \/ m.name \in DOMAIN env THEN {}
         ELSE UNION {{Meant(r.v, d.made \cup r.made) :
                         r \in DenoteBody(modules, Tail(members), (m.name :> d.v) @@ env, at)} :
                     d \in Denote(modules, m.expr, env, Append(at, Mark("let", m.name)))}

Meaning(doc) ==
    LET fields == SelectSeq(doc.model, LAMBDA m : m.kind = "field")
        modules == [n \in {m.name : m \in ToSet(doc.modules)} |->
                       CHOOSE m \in ToSet(doc.modules) : m.name = n]
    IN IF ~ModulesOK(doc.modules) \/ ~FieldsOK([k \in DOMAIN fields |-> fields[k].name]) THEN {}
       ELSE {d \in DenoteBody(modules, SelectSeq(doc.model, LAMBDA m : m.kind # "field"), << >>, << >>) :
                Last(doc.model).kind = "yield" /\ d.v.kind = "tensor"}

RECURSIVE Stands(_, _, _)
Stands(nodes, k, term) ==
    /\ nodes[k].name = Spelled(term.at) /\ nodes[k].op = term.op /\ nodes[k].attrs = term.attrs
    /\ Len(nodes[k].inputs) = Len(term.inputs)
    /\ \A s \in DOMAIN term.inputs : nodes[k].inputs[s] < k /\ Stands(nodes, nodes[k].inputs[s], term.inputs[s])

\* The definition is what a document with the meanings ds may become.
Hygienic(ds) ==
    /\ definition.kind = "graph" =>
          \E d \in ds :
             /\ Len(definition.nodes) = Cardinality(d.made)
             /\ \A t \in d.made : \E k \in DOMAIN definition.nodes : Stands(definition.nodes, k, t)
             /\ Stands(definition.nodes, definition.output, d.v.handle)
    /\ definition = Ill => ds = {}
    /\ definition = Refusal("collision") =>
          \A d \in ds : \E s, t \in d.made : s # t /\ Spelled(s.at) = Spelled(t.at)

\* Expansion is hygienic: the graph has one node for every primitive call that
\* the document evaluates, in its own instance and with the inputs and attributes
\* that call has; its output is the yielded term; and a well formed document is
\* refused only for a limit or because two of its calls spell one path.
ExpansionMeans == definition # Unread => Hygienic(Meaning(document))
=============================================================================
