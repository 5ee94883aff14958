--------------------------- MODULE ProgramEngine ---------------------------
(***************************************************************************)
(* The host side of the persistent engine and its prefix cache: Engine in  *)
(* crates/inferfabric-native/src/program.rs, PrefixCache in prefix_cache.rs *)
(* and CachedProgram in frontend/src/program_cached.rs, over the state     *)
(* pool they share.                                                        *)
(*                                                                         *)
(* One thread owns the engine.  A method is a list of steps, todo: a pool  *)
(* call, a native call or a change of host records.  A step that fails     *)
(* drops the rest, as the operator "?" does, and the worker makes no       *)
(* further call.  Native calls may fail at any time.                       *)
(***************************************************************************)
EXTENDS StatePool, Sequences, SequencesExt, FiniteSetsExt

CONSTANTS
    NumRanks,       \* ranks 0 .. NumRanks - 1
    ActiveSlots,    \* residents that serve requests
    SnapshotSlots,  \* further residents that hold snapshots
    Kinds,          \* requests a client may send, any number of times
    Prompt,         \* kind -> its prompt tokens
    Namespace,      \* kind -> its cache namespace
    MaxNew,         \* kind -> its max_tokens
    Alignment,      \* checkpoint_alignment
    PrefillSizes,   \* compiled prefill widths
    TokenBudget,    \* max_num_batched_tokens
    Uncaptured,     \* the prefill variant is packed and not captured in graphs
    Batched         \* whether native batches are available

Residents == 0 .. ActiveSlots + SnapshotSlots - 1
Active == 0 .. ActiveSlots - 1
Snapshots == Residents \ Active
PrefillCapacity == Max({1} \cup PrefillSizes)

\* SharedState::new: every pool holds the pages of every resident at its longest.
ASSUME EngineAssumption ==
    /\ NumRanks \in Nat \ {0} /\ ActiveSlots \in Nat \ {0} /\ SnapshotSlots \in Nat
    /\ Ranks \subseteq 0 .. NumRanks - 1
    /\ \A p \in Pools : Capacity[p] =
          (ActiveSlots + SnapshotSlots)
          * (IF PageTokens[p] = 0 THEN 1 ELSE MaxTokens[p] \div PageTokens[p])
    /\ Requests = 1 .. MaxSerial

\* A batch runs on an uncaptured variant (batch_base_variant), and an uncaptured
\* program has one prefill width, its capacity.
ASSUME VariantAssumption ==
    /\ Alignment \in Nat \ {0} /\ TokenBudget \in Nat \ {0} /\ PrefillSizes \subseteq Nat \ {0}
    /\ Uncaptured \in BOOLEAN /\ Batched \in BOOLEAN
    /\ Batched => Uncaptured
    /\ Uncaptured => \E n \in PrefillSizes : PrefillSizes = {n}

VARIABLES
    leases,        \* resident -> its lease, 0 for none
    token_limits,  \* resident -> tokens reserved
    history,       \* resident -> count and class of its completed invocations
    sealed,        \* resident -> the lease it was sealed under, 0 for none
    next_request,
    device,        \* resident -> the native calls behind its device state: the
                   \* namespace, all members' positions and tokens, and which it was
    entries,       \* cache: checkpoint id -> Entry
    indexes,       \* cache: namespace -> PrefixIndex
    next_index,    \* NEXT_INDEX
    clock,         \* cache: LRU clock
    request,       \* resident -> kind of the request it serves, or Idle
    todo,          \* steps left of the running method
    read, ticket,  \* handles it holds
    result,        \* ok, or why a method failed
    stopped        \* the cache was cleared and the worker has ended

host == <<leases, token_limits, history, sealed, next_request>>
cache == <<entries, indexes, next_index, clock>>
handles == <<read, ticket>>
engineVars == <<vars, host, device, cache, request, todo, handles, result, stopped>>

NoKind == "none"
Corrupt == <<[namespace |-> "corrupt", calls |-> <<>>, member |-> 0]>>

\* Mutant of Class: the other members of the batch are left out.
ClassOfOwnTokens(ran) ==
    IF Batched THEN [digest |-> <<ran.calls[ran.member]>>, member |-> ran.member]
    ELSE "compiled"

\* batch_variant: the arithmetic of a batch depends on the positions and tokens of
\* every member and on the place among them; outside batches the variant is the one
\* compiled for the count.
Class(ran) ==
    IF Batched THEN [digest |-> ran.calls, member |-> ran.member] ELSE "compiled"

\* What the history records of an invocation.
Completed(ran) == [count |-> Len(ran.calls[ran.member].tokens), class |-> Class(ran)]
Tokens(completed) == FoldSeq(LAMBDA c, total : c.count + total, 0, completed)
NoIndex == [number |-> 0, generation |-> 0, entries |-> << >>]

EngineInit ==
    /\ Init
    /\ leases = [s \in Residents |-> 0] /\ token_limits = [s \in Residents |-> 0]
    /\ history = [s \in Residents |-> <<>>] /\ sealed = [s \in Residents |-> 0]
    /\ next_request = 0
    /\ device = [s \in Residents |-> <<>>]
    /\ entries = << >> /\ next_index = 1 /\ clock = 0
    /\ indexes = [n \in {Namespace[k] : k \in Kinds} |-> NoIndex]
    /\ request = [s \in Active |-> NoKind]
    /\ todo = <<>> /\ read = 0 /\ ticket = 0
    /\ result = "ok" /\ stopped = FALSE

----------------------------------------------------------------------------
(* Methods as lists of steps.                                              *)

Step(op, s) == [op |-> op, slot |-> s]

\* Mutant of CompleteAll: the last rank is left out.
CompleteAllButLast == [k \in 1 .. NumRanks - 1 |-> [op |-> "complete", rank |-> k - 1]]

CompleteAll == [k \in 1 .. NumRanks |-> [op |-> "complete", rank |-> k - 1]]

ResetResident(s) == <<Step("check_reset", s), Step("native_reset", s), Step("forget", s)>>

PrepareResident(s, tokens) ==
    ResetResident(s)
    \o <<Step("select", s), [op |-> "reserve", slot |-> s, tokens |-> tokens], Step("bind", s)>>

CopyResident(from, to) ==
    <<[op |-> "borrow", from |-> from, to |-> to], [op |-> "submit", slots |-> {to}],
      [op |-> "native_copy", from |-> from, to |-> to]>>
    \o CompleteAll
    \o <<[op |-> "release"], [op |-> "import", from |-> from, to |-> to]>>

RetireSnapshot(s, lease) ==
    <<[op |-> "unseal", slot |-> s, lease |-> lease]>>
    \o ResetResident(s)
    \o <<[op |-> "retired", slot |-> s, lease |-> lease]>>

\* Mutant of Evict: only the metadata is dropped.
EvictMetadata(id) == <<[op |-> "unindex", id |-> id]>>

Evict(id) == RetireSnapshot(entries[id].slot, entries[id].lease) \o <<[op |-> "unindex", id |-> id]>>

Members(inputs) == {inputs[m].resident : m \in DOMAIN inputs}
Packed(inputs) == FoldSeq(LAMBDA i, total : Len(i.tokens) + total, 0, inputs)

\* The native call of these inputs, as its member m ran it.
Ran(inputs, m) ==
    [namespace |-> Namespace[request[inputs[m].resident]],
     calls |-> [k \in DOMAIN inputs |->
                   [position |-> inputs[k].position, tokens |-> inputs[k].tokens]],
     member |-> m]

\* token(), prefill() or batch(): inputs gives every member its next tokens.
Invocation(inputs) ==
    <<[op |-> "check_run", inputs |-> inputs], [op |-> "submit", slots |-> Members(inputs)],
      [op |-> "native_run", inputs |-> inputs]>>
    \o CompleteAll
    \o (IF Batched THEN <<[op |-> "count"]>> ELSE <<>>)
    \o <<[op |-> "append", inputs |-> inputs]>>

----------------------------------------------------------------------------
(* Running a step.                                                         *)

At(op) == todo # <<>> /\ Head(todo).op = op
Continue == todo' = Tail(todo) /\ UNCHANGED result

\* A failed step: refused by the host's own records, failed by a native call or
\* by audit I/O, or out of serials.  retire_snapshot, once it has unsealed the
\* slot, catches the error and marks the slot again.
Retiring ==
    {k \in DOMAIN todo : /\ todo[k].op = "retired"
                         /\ \A m \in 1 .. k : todo[m].op # "unseal"}

\* Mutant of FailAs: the caller goes on after an error.
FailAsIgnored(cause) ==
    /\ result' = cause
    /\ todo' = Tail(todo)

FailAs(cause) ==
    /\ result' = cause
    /\ todo' = IF Retiring = {} THEN <<>>
               ELSE LET retired == todo[CHOOSE k \in Retiring : TRUE]
                    IN  <<[retired EXCEPT !.op = "reseal"]>>
Refuse == FailAs(IF SerialLeft THEN "host" ELSE "serial")

\* reset_resident up to the native call: sealed state, readers and rank work
\* refuse it.
CheckReset ==
    LET s == Head(todo).slot
    IN  /\ At("check_reset")
        /\ IF sealed[s] = 0 /\ (leases[s] # 0 => Live /\ leases[s] \in Usable /\ Idle(leases[s]))
           THEN Continue ELSE Refuse
        /\ UNCHANGED <<vars, host, device, cache, request, handles, stopped>>

NativeReset ==
    LET s == Head(todo).slot
    IN  /\ At("native_reset")
        /\ \/ /\ device' = [device EXCEPT ![s] = <<>>]
              /\ Continue
              /\ UNCHANGED vars
           \/ /\ device' = [device EXCEPT ![s] = Corrupt]
              /\ FailAs("native")
              /\ Poison
        /\ UNCHANGED <<host, cache, request, handles, stopped>>

\* Mutant of Forget: a failed audit returns between take() and retire().
ForgetStrands ==
    LET s == Head(todo).slot
        owned == leases[s]
    IN  /\ At("forget")
        /\ history' = [history EXCEPT ![s] = <<>>]
        /\ leases' = [leases EXCEPT ![s] = 0]
        /\ \/ Continue /\ IF owned # 0 THEN Retire(owned) ELSE UNCHANGED vars
           \/ history[s] # <<>> /\ FailAs("audit") /\ UNCHANGED vars
        /\ UNCHANGED <<token_limits, sealed, next_request, device, cache, request,
                       handles, stopped>>

\* The audit file may fail; host ownership is given up all the same.
Forget ==
    LET s == Head(todo).slot
        owned == leases[s]
        retirable == Live /\ owned \in Usable
    IN  /\ At("forget")
        /\ history' = [history EXCEPT ![s] = <<>>]
        /\ leases' = [leases EXCEPT ![s] = 0]
        /\ IF owned # 0 /\ retirable THEN Retire(owned) ELSE UNCHANGED vars
        /\ \/ IF owned = 0 \/ retirable THEN Continue ELSE Refuse
           \/ history[s] # <<>> /\ FailAs("audit")
        /\ UNCHANGED <<token_limits, sealed, next_request, device, cache, request,
                       handles, stopped>>

\* select_resident: a native call that only moves the engine's cursor.
Select ==
    /\ At("select")
    /\ Continue \/ FailAs("native")
    /\ UNCHANGED <<vars, host, device, cache, request, handles, stopped>>

\* reserve_at_slot under a new request number, while there is one.
ReserveStep ==
    LET s == Head(todo).slot
        tokens == Head(todo).tokens
        chosen == [p \in Pools |-> IF PageTokens[p] = 0 THEN {s}
                                   ELSE Lowest(free[p], Count(p, tokens))]
    IN  /\ At("reserve")
        /\ next_request' = IF next_request + 1 \in Requests THEN next_request + 1 ELSE next_request
        /\ IF /\ next_request + 1 \in Requests
              /\ tokens \in 1 .. MaxContext /\ Reservable(next_request + 1, tokens, chosen)
           THEN /\ ReserveAtSlot(next_request + 1, tokens, s)
                /\ leases' = [leases EXCEPT ![s] = next + 1]
                /\ token_limits' = [token_limits EXCEPT ![s] = tokens]
                /\ Continue
           ELSE UNCHANGED <<vars, leases, token_limits>> /\ Refuse
        /\ UNCHANGED <<history, sealed, device, cache, request, handles, stopped>>

\* The page tables go to every rank; a failure leaves them half written.
Bind ==
    /\ At("bind")
    /\ \/ Continue /\ UNCHANGED vars
       \/ FailAs("native") /\ Poison
    /\ UNCHANGED <<host, device, cache, request, handles, stopped>>

\* copy_resident up to borrow: the source is complete, the destination reserved
\* and empty.
BorrowSource ==
    LET from == Head(todo).from
        to == Head(todo).to
        boundary == Tokens(history[from])
    IN  /\ At("borrow")
        /\ IF /\ from # to /\ boundary > 0 /\ boundary % Alignment = 0 /\ history[to] = <<>>
              /\ leases[to] # 0 /\ boundary <= token_limits[to]
              /\ Live /\ SerialLeft /\ leases[from] \in Usable
           THEN Borrow(leases[from]) /\ read' = next + 1 /\ Continue
           ELSE UNCHANGED <<vars, read>> /\ Refuse
        /\ UNCHANGED <<host, device, cache, request, ticket, stopped>>

\* submit() of the members' leases, and of the source of a copy as a read.  A
\* copy that is refused gives its borrow back first.
SubmitStep ==
    LET members == {leases[s] : s \in Head(todo).slots}
        reads == IF read = 0 THEN {} ELSE {read}
    IN  /\ At("submit")
        /\ IF /\ Live /\ SerialLeft /\ members \subseteq Usable
              /\ \A l \in members : ~allocations[l].sealed
           THEN Submit(members, reads) /\ ticket' = next + 1 /\ Continue
           ELSE /\ UNCHANGED <<vars, ticket>>
                /\ IF read = 0 THEN Refuse
                   ELSE todo' = <<[op |-> "release"], [op |-> "fail"]>> /\ UNCHANGED result
        /\ UNCHANGED <<host, device, cache, request, read, stopped>>

\* The place of a member among the inputs.
Place(inputs, s) == CHOOSE m \in DOMAIN inputs : inputs[m].resident = s

NativeRun ==
    LET inputs == Head(todo).inputs
    IN  /\ At("native_run")
        /\ \/ /\ device' = [s \in Residents |->
                    IF s \in Members(inputs)
                    THEN Append(device[s], Ran(inputs, Place(inputs, s))) ELSE device[s]]
              /\ Continue
              /\ UNCHANGED vars
           \/ /\ device' = [s \in Residents |->
                              IF s \in Members(inputs) THEN Corrupt ELSE device[s]]
              /\ FailAs("native")
              /\ Poison
        /\ UNCHANGED <<host, cache, request, handles, stopped>>

NativeCopy ==
    LET from == Head(todo).from
        to == Head(todo).to
    IN  /\ At("native_copy")
        /\ \/ /\ device' = [device EXCEPT ![to] = device[from]]
              /\ Continue
              /\ UNCHANGED vars
           \/ /\ device' = [device EXCEPT ![to] = Corrupt]
              /\ FailAs("native")
              /\ Poison
        /\ UNCHANGED <<host, cache, request, handles, stopped>>

\* finish_invocation after a successful native call, rank by rank.
CompleteStep ==
    LET rank == Head(todo).rank
    IN  /\ At("complete")
        /\ IF /\ Live /\ ticket \in DOMAIN flights
              /\ rank \in flights[ticket].remaining_ranks
           THEN Complete(ticket, rank) /\ Continue
           ELSE UNCHANGED vars /\ Refuse
        /\ ticket' = IF rank = NumRanks - 1 THEN 0 ELSE ticket
        /\ UNCHANGED <<host, device, cache, request, read, stopped>>

ReleaseStep ==
    /\ At("release")
    /\ IF Live /\ read \in DOMAIN borrowers
       THEN Release(read) /\ Continue
       ELSE UNCHANGED vars /\ Refuse
    /\ read' = 0
    /\ UNCHANGED <<host, device, cache, request, ticket, stopped>>

\* begin_invocation and batch(): the history continues where the input starts, a
\* reservation has room, no member is sealed and the batch fits its variant.
CheckRun ==
    LET inputs == Head(todo).inputs
    IN  /\ At("check_run")
        /\ IF /\ Batched => Packed(inputs) <= PrefillCapacity
              /\ \A m \in DOMAIN inputs :
                    LET s == inputs[m].resident
                    IN  /\ inputs[m].position = Tokens(history[s])
                        /\ leases[s] # 0 /\ sealed[s] = 0
                        /\ inputs[m].position + Len(inputs[m].tokens) <= token_limits[s]
           THEN Continue ELSE Refuse
        /\ UNCHANGED <<vars, host, device, cache, request, handles, stopped>>

\* Mutant of CheckCount: the error is returned and the pool stays in use.
CheckCountUnpoisoned ==
    /\ At("count")
    /\ Continue \/ FailAs("native")
    /\ UNCHANGED <<vars, host, device, cache, request, handles, stopped>>

\* A batch that sampled another number of tokens than it was asked for.
CheckCount ==
    /\ At("count")
    /\ \/ Continue /\ UNCHANGED vars
       \/ FailAs("native") /\ Poison
    /\ UNCHANGED <<host, device, cache, request, handles, stopped>>

FailStep ==
    /\ At("fail")
    /\ Refuse
    /\ UNCHANGED <<vars, host, device, cache, request, handles, stopped>>

\* Host records that follow a completed copy or invocation.
Import ==
    /\ At("import")
    /\ history' = [history EXCEPT ![Head(todo).to] = history[Head(todo).from]]
    /\ Continue
    /\ UNCHANGED <<vars, leases, token_limits, sealed, next_request, device, cache,
                   request, handles, stopped>>

\* Mutant of AppendCompleted: only the first member's history grows.
AppendCompletedFirst ==
    LET inputs == Head(todo).inputs
    IN  /\ At("append")
        /\ history' = [history EXCEPT ![inputs[1].resident] = Append(@, Completed(Ran(inputs, 1)))]
        /\ Continue
        /\ UNCHANGED <<vars, leases, token_limits, sealed, next_request, device, cache,
                       request, handles, stopped>>

AppendCompleted ==
    LET inputs == Head(todo).inputs
    IN  /\ At("append")
        /\ history' = [s \in Residents |->
              IF s \in Members(inputs)
              THEN Append(history[s], Completed(Ran(inputs, Place(inputs, s)))) ELSE history[s]]
        /\ Continue
        /\ UNCHANGED <<vars, leases, token_limits, sealed, next_request, device, cache,
                       request, handles, stopped>>

\* seal_resident.
SealStep ==
    LET s == Head(todo).slot
    IN  /\ At("seal")
        /\ IF /\ history[s] # <<>> /\ Tokens(history[s]) % Alignment = 0
              /\ Live /\ leases[s] \in Usable /\ allocations[leases[s]].pending = {}
           THEN /\ Seal(leases[s])
                /\ sealed' = [sealed EXCEPT ![s] = leases[s]]
                /\ Continue
           ELSE UNCHANGED <<vars, sealed>> /\ Refuse
        /\ UNCHANGED <<leases, token_limits, history, next_request, device, cache,
                       request, handles, stopped>>

\* retire_snapshot: the slot is an ordinary resident while it is reset.
Unseal ==
    LET s == Head(todo).slot
    IN  /\ At("unseal")
        /\ IF /\ sealed[s] = Head(todo).lease
              /\ leases[s] # 0 /\ Live /\ leases[s] \in Usable /\ Idle(leases[s])
           THEN sealed' = [sealed EXCEPT ![s] = 0] /\ Continue
           ELSE UNCHANGED sealed /\ Refuse
        /\ UNCHANGED <<vars, leases, token_limits, history, next_request, device, cache,
                       request, handles, stopped>>

Retired ==
    /\ At("retired")
    /\ Continue
    /\ UNCHANGED <<vars, host, device, cache, request, handles, stopped>>

\* Its error path: never expose the old checkpoint after a partial teardown.
Reseal ==
    LET s == Head(todo).slot
    IN  /\ At("reseal")
        /\ Poison
        /\ sealed' = [sealed EXCEPT ![s] = Head(todo).lease]
        /\ Continue
        /\ UNCHANGED <<leases, token_limits, history, next_request, device, cache,
                       request, handles, stopped>>

----------------------------------------------------------------------------
(* The prefix cache.                                                       *)

Lcm(m, n) == Min({k \in 1 .. m * n : k % m = 0 /\ k % n = 0})

\* Mutant of Boundary: an uncaptured forward may be split at a checkpoint.
BoundaryCaptured(kind) == ((Len(Prompt[kind]) - 1) \div Alignment) * Alignment

\* Checkpoint boundary of a prompt: at least one token stays for the logits, and an
\* uncaptured program ends it between two whole forwards.
Boundary(kind) ==
    LET unit == IF Uncaptured THEN Lcm(Alignment, Min({PrefillCapacity, TokenBudget}))
                ELSE Alignment
    IN  ((Len(Prompt[kind]) - 1) \div unit) * unit

\* prefill_chunk: any number of tokens, or the largest captured width that fits.
Chunk(limit) ==
    IF Uncaptured THEN Min({limit, PrefillCapacity})
    ELSE Max({1} \cup {n \in PrefillSizes : n <= limit})

\* The invocations of a request that runs alone, up to its boundary.
Alone(kind) ==
    LET from[p \in 0 .. Boundary(kind)] ==
            IF p = Boundary(kind) THEN <<>>
            ELSE LET count == Chunk(Min({Boundary(kind) - p, TokenBudget}))
                     call == [position |-> p, tokens |-> SubSeq(Prompt[kind], p + 1, p + count)]
                 IN  <<[namespace |-> Namespace[kind], calls |-> <<call>>, member |-> 1]>>
                     \o from[p + count]
    IN  from[0]

\* restore_prefix: the history a request would have had it run alone.
Prospective(kind) == [k \in DOMAIN Alone(kind) |-> Completed(Alone(kind)[k])]

\* Mutant of Matches: every namespace is searched.
MatchesAnyNamespace(ns, tokens, completed, maximum) ==
    UNION {LET found == indexes[n].entries
           IN  {id \in DOMAIN found : /\ Len(found[id].tokens) <= maximum
                                      /\ IsPrefix(found[id].tokens, tokens)
                                      /\ IsPrefix(found[id].history, completed)} :
           n \in DOMAIN indexes}

\* Mutant of Matches: the tokens decide, however they were computed.
MatchesByTokens(ns, tokens, completed, maximum) ==
    LET found == indexes[ns].entries
    IN  {id \in DOMAIN found : /\ Len(found[id].tokens) <= maximum
                               /\ IsPrefix(found[id].tokens, tokens)}

\* PrefixIndex::lookup: the longest checkpoint of these tokens, computed by the
\* same invocations.
Matches(ns, tokens, completed, maximum) ==
    LET found == indexes[ns].entries
    IN  {id \in DOMAIN found : /\ Len(found[id].tokens) <= maximum
                               /\ IsPrefix(found[id].tokens, tokens)
                               /\ IsPrefix(found[id].history, completed)}
Key(id) == indexes[CHOOSE ns \in DOMAIN indexes : id \in DOMAIN indexes[ns].entries].entries[id]
Longest(ids) ==
    CHOOSE id \in ids : \A other \in ids : Len(Key(other).tokens) <= Len(Key(id).tokens)

Oldest == CHOOSE id \in DOMAIN entries :
              \A other \in DOMAIN entries : entries[id].touched <= entries[other].touched

\* Mutant of FreeSnapshots: the slots of entries count as free.
FreeSnapshotsAll == Snapshots

FreeSnapshots == Snapshots \ {entries[id].slot : id \in DOMAIN entries}

\* restore_prefix after a successful admit.
Restore ==
    LET s == Head(todo).slot
        kind == request[s]
        ns == Namespace[kind]
        ids == Matches(ns, Prompt[kind], Prospective(kind), Len(Prompt[kind]) - 1)
        id == Longest(ids)
    IN  /\ At("restore")
        /\ IF ids = {} THEN Continue /\ UNCHANGED clock
           ELSE /\ clock' = clock + 1
                /\ IF id \in DOMAIN entries /\ sealed[entries[id].slot] = entries[id].lease
                   THEN /\ todo' = CopyResident(entries[id].slot, s)
                                   \o <<[op |-> "touch", id |-> id, at |-> clock + 1]>>
                                   \o Tail(todo)
                        /\ UNCHANGED result
                   ELSE Refuse
        /\ UNCHANGED <<vars, host, device, entries, indexes, next_index, request, handles,
                       stopped>>

Touch ==
    /\ At("touch")
    /\ entries' = [entries EXCEPT ![Head(todo).id].touched = Head(todo).at]
    /\ Continue
    /\ UNCHANGED <<vars, host, device, indexes, next_index, clock, request, handles, stopped>>

\* checkpoint() and publish(): only at the boundary; a checkpoint that exists is
\* touched, otherwise a free snapshot slot, or the least recently used one, takes
\* a copy.
Publish ==
    LET s == Head(todo).slot
        kind == request[s]
        ns == Namespace[kind]
        boundary == Tokens(history[s])
        tokens == SubSeq(Prompt[kind], 1, boundary)
        same == {id \in Matches(ns, tokens, history[s], boundary) :
                    Len(Key(id).tokens) = boundary}
        slot == IF FreeSnapshots # {} THEN Min(FreeSnapshots) ELSE entries[Oldest].slot
    IN  /\ At("checkpoint")
        /\ IF SnapshotSlots = 0 \/ boundary = 0 \/ boundary # Boundary(kind)
           THEN Continue /\ UNCHANGED clock
           ELSE /\ clock' = clock + 1
                /\ todo' = (IF same # {}
                            THEN <<[op |-> "touch", id |-> CHOOSE id \in same : TRUE,
                                    at |-> clock + 1]>>
                            ELSE (IF FreeSnapshots # {} THEN <<>> ELSE Evict(Oldest))
                                 \o PrepareResident(slot, boundary)
                                 \o CopyResident(s, slot)
                                 \o <<Step("seal", slot),
                                      [op |-> "index", slot |-> slot, namespace |-> ns,
                                       tokens |-> tokens, history |-> history[s],
                                       at |-> clock + 1],
                                      Step("select", s)>>)
                           \o Tail(todo)
                /\ UNCHANGED result
        /\ UNCHANGED <<vars, host, device, entries, indexes, next_index, request, handles,
                       stopped>>

\* Mutant of IndexNumber: every index gets the same number.
IndexNumberFixed == 1

\* NEXT_INDEX.fetch_update: a number no other index has.
IndexNumber == next_index

\* PrefixIndex::insert, with a new index for a namespace that has none.
Index ==
    LET new == Head(todo)
        fresh == indexes[new.namespace].number = 0
        index == IF fresh THEN [NoIndex EXCEPT !.number = IndexNumber]
                 ELSE indexes[new.namespace]
        id == <<index.number, index.generation + 1>>
        units == FoldSet(LAMBDA i, total : Len(index.entries[i].tokens) + total,
                         Len(new.tokens), DOMAIN index.entries)
        full == \/ Cardinality(DOMAIN index.entries) >= SnapshotSlots
                \/ units > SnapshotSlots * MaxContext
    IN  /\ At("index")
        /\ next_index' = IF fresh THEN next_index + 1 ELSE next_index
        /\ IF full
           THEN /\ indexes' = [indexes EXCEPT ![new.namespace] = index]
                /\ todo' = RetireSnapshot(new.slot, sealed[new.slot]) \o <<[op |-> "fail"]>>
                /\ UNCHANGED <<entries, result>>
           ELSE /\ indexes' = [indexes EXCEPT ![new.namespace] =
                      [number |-> index.number, generation |-> index.generation + 1,
                       entries |-> MapInsert(index.entries, id,
                           [tokens |-> new.tokens, history |-> new.history])]]
                /\ entries' = MapInsert(entries, id,
                      [lease |-> sealed[new.slot], slot |-> new.slot, touched |-> new.at,
                       namespace |-> new.namespace])
                /\ Continue
        /\ UNCHANGED <<vars, host, device, clock, request, handles, stopped>>

\* The end of evict(): an index without entries is dropped.
Unindex ==
    LET id == Head(todo).id
        ns == entries[id].namespace
        left == MapRemove(indexes[ns].entries, id)
    IN  /\ At("unindex")
        /\ IF id \in DOMAIN indexes[ns].entries
           THEN /\ indexes' = [indexes EXCEPT ![ns] =
                      IF DOMAIN left = {} THEN NoIndex ELSE [@ EXCEPT !.entries = left]]
                /\ Continue
           ELSE UNCHANGED indexes /\ Refuse
        /\ entries' = MapRemove(entries, id)
        /\ UNCHANGED <<vars, host, device, next_index, clock, request, handles, stopped>>

----------------------------------------------------------------------------
(* Calls of the worker.                                                    *)

Calls == todo = <<>> /\ result = "ok" /\ ~stopped

Admit(s, kind) ==
    /\ Calls
    /\ request[s] = NoKind
    /\ request' = [request EXCEPT ![s] = kind]
    /\ todo' = PrepareResident(s, Len(Prompt[kind]) + MaxNew[kind])
               \o (IF SnapshotSlots = 0 THEN <<>> ELSE <<Step("restore", s)>>)
    /\ UNCHANGED <<vars, host, device, cache, handles, result, stopped>>

\* prefill_limit: up to the boundary first.
PrefillLimit(kind, position) ==
    (IF position < Boundary(kind) /\ SnapshotSlots > 0 THEN Boundary(kind)
     ELSE Len(Prompt[kind])) - position

\* What a round may give a resident: a prefill chunk or one decode token.  A
\* captured chunk shrinks with what is left of the budget; an uncaptured one waits
\* for the next round instead.
Inputs(s) ==
    LET kind == request[s]
        position == Tokens(history[s])
        limit == PrefillLimit(kind, position)
        budgets == IF Uncaptured THEN {TokenBudget} ELSE 1 .. TokenBudget
        Input(tokens) == [resident |-> s, position |-> position, tokens |-> tokens]
    IN  IF position < Len(Prompt[kind])
        THEN {Input(SubSeq(Prompt[kind], position + 1, position + Chunk(Min({limit, b})))) :
                 b \in budgets}
        ELSE {Input(<<0>>)}

\* A request ends, and is released, when its last token was sampled.
Unfinished(s) ==
    /\ request[s] # NoKind
    /\ Tokens(history[s]) < Len(Prompt[request[s]]) + MaxNew[request[s]] - 1

\* The members in the order of a round whose cursor is at first.
Rotated(members, first) ==
    LET turn(s) == (s + ActiveSlots - first) % ActiveSlots
    IN  SetToSortSeq(members, LAMBDA s, other : turn(s) < turn(other))

\* A native call for one resident, or for as many as the budget holds, and the
\* checkpoints of the members not cancelled meanwhile.
Invoke(members, first) ==
    LET order == Rotated(members, first)
    IN  /\ Calls
        /\ members # {} /\ \A s \in members : Unfinished(s)
        /\ IF Batched THEN TRUE ELSE Cardinality(members) = 1
        /\ \E inputs \in [DOMAIN order -> UNION {Inputs(s) : s \in members}] :
              /\ \A m \in DOMAIN order : inputs[m] \in Inputs(order[m])
              /\ Batched => Packed(inputs) <= Min({TokenBudget, PrefillCapacity})
              /\ \E kept \in SUBSET members :
                    todo' = (IF Batched THEN <<>> ELSE <<Step("select", order[1])>>)
                            \o Invocation(inputs)
                            \o [k \in 1 .. Cardinality(kept) |->
                                   Step("checkpoint", Rotated(kept, first)[k])]
        /\ UNCHANGED <<vars, host, device, cache, request, handles, result, stopped>>

ReleaseResident(s) ==
    /\ Calls
    /\ request[s] # NoKind
    /\ request' = [request EXCEPT ![s] = NoKind]
    /\ todo' = ResetResident(s)
    /\ UNCHANGED <<vars, host, device, cache, handles, result, stopped>>

\* The worker has released every resident and clears the cache.
ClearCache ==
    /\ Calls
    /\ \A s \in Active : request[s] = NoKind
    /\ stopped' = TRUE
    /\ todo' = FoldSeq(LAMBDA id, steps : Evict(id) \o steps, <<>>, SetToSeq(DOMAIN entries))
    /\ UNCHANGED <<vars, host, device, cache, request, handles, result>>

Engine ==
    \/ CheckReset \/ NativeReset \/ Forget \/ Select \/ ReserveStep \/ Bind
    \/ BorrowSource \/ SubmitStep \/ NativeRun \/ NativeCopy \/ CompleteStep
    \/ ReleaseStep \/ CheckRun \/ CheckCount \/ FailStep \/ Import \/ AppendCompleted
    \/ SealStep \/ Unseal \/ Retired \/ Reseal
    \/ Restore \/ Touch \/ Publish \/ Index \/ Unindex

EngineNext ==
    \/ Engine
    \/ \E s \in Active : (\E kind \in Kinds : Admit(s, kind)) \/ ReleaseResident(s)
    \/ \E members \in SUBSET Active, first \in Active : Invoke(members, first)
    \/ ClearCache

EngineSpec == EngineInit /\ [][EngineNext]_engineVars

----------------------------------------------------------------------------
(* Properties.                                                             *)

\* The host never refuses its own worker: pages, index entries, snapshots and
\* sealed flags are always there when a step needs them, so only a native call,
\* audit I/O or an exhausted counter can fail a request.
NoHostRefusal == result # "host"

\* Every allocation is some resident's lease and binds that resident's own slot
\* state, through resets, evictions and failed audits; between calls no reader and
\* no rank work is left behind, and a cleared cache gives every unit back
\* ("remaining=0").
NoLeakedLease ==
    ~poisoned =>
        /\ DOMAIN allocations = {leases[s] : s \in Residents} \ {0}
        /\ \A s \in Residents : leases[s] # 0 =>
              /\ \A t \in Residents \ {s} : leases[t] # leases[s]
              /\ \A p \in Pools : PageTokens[p] = 0 => allocations[leases[s]].bindings[p] = {s}
        /\ todo = <<>> => DOMAIN borrowers = {} /\ DOMAIN flights = {}
        /\ stopped /\ todo = <<>> /\ result = "ok" =>
              /\ \A p \in Pools : free[p] = Units(p)
              /\ DOMAIN entries = {} /\ \A s \in Residents : device[s] = <<>>

\* The host's books are right: they refuse no call, and no lease is lost to them.
LeasesAccounted == NoHostRefusal /\ NoLeakedLease

\* The tokens behind a device state, each with the namespace that computed it.
Held(s) == FlattenSeq([k \in DOMAIN device[s] |->
    LET ran == device[s][k]
        own == ran.calls[ran.member].tokens
    IN  [t \in DOMAIN own |-> <<ran.namespace, own[t]>>]])

\* The cache, the index, the sealed slots and the device agree between calls:
\* every entry is one sealed resident whose device state is what its key says.
CacheCoherent ==
    todo = <<>> /\ ~poisoned =>
        /\ \A id \in DOMAIN entries :
              LET e == entries[id]
                  key == indexes[e.namespace].entries[id]
              IN  /\ sealed[e.slot] = e.lease /\ leases[e.slot] = e.lease
                  /\ id \in DOMAIN indexes[e.namespace].entries
                  /\ Held(e.slot) = [k \in DOMAIN key.tokens |-> <<e.namespace, key.tokens[k]>>]
                  /\ history[e.slot] = key.history
                  /\ allocations[e.lease].sealed
        /\ \A s \in Residents : sealed[s] # 0 =>
              Cardinality({id \in DOMAIN entries : entries[id].slot = s}) = 1
        /\ \A ns \in DOMAIN indexes : \A id \in DOMAIN indexes[ns].entries :
              id \in DOMAIN entries /\ entries[id].namespace = ns

\* A request's device state is its own prompt, computed in its own namespace,
\* whether it was computed or restored.
StateIsPrompt ==
    todo = <<>> /\ ~poisoned => \A s \in Active : request[s] # NoKind =>
        LET whole == Prompt[request[s]] \o [k \in 1 .. MaxNew[request[s]] |-> 0]
        IN  IsPrefix(Held(s), [k \in DOMAIN whole |-> <<Namespace[request[s]], whole[k]>>])

\* A history tells how its state was computed: it has a record of every
\* invocation, and in a batched engine equal records stand for calls of the same
\* members in the same places.
HistoryTells ==
    todo = <<>> /\ ~poisoned =>
        /\ \A s \in Residents :
              history[s] = [k \in DOMAIN device[s] |-> Completed(device[s][k])]
        /\ Batched => \A s, t \in Residents :
              \A k \in DOMAIN device[s] \cap DOMAIN device[t] :
                 history[s][k] = history[t][k] =>
                    /\ device[s][k].calls = device[t][k].calls
                    /\ device[s][k].member = device[t][k].member

\* What a hit gives a request is bit for bit what it would have computed alone, and
\* in an uncaptured engine every snapshot was computed without peers, by whole
\* forwards: the work of other requests never decides what the cache can serve.
RestoredAsAlone ==
    ~poisoned =>
        /\ At("import") /\ Head(todo).to \in Active =>
              IsPrefix(device[Head(todo).to], Alone(request[Head(todo).to]))
        /\ todo = <<>> /\ Uncaptured => \A id \in DOMAIN entries :
              \A k \in DOMAIN device[entries[id].slot] :
                 LET calls == device[entries[id].slot][k].calls
                 IN  Len(calls) = 1 /\ Len(calls[1].tokens) = Chunk(TokenBudget)

\* Whatever was restored, evicted, refused or left half done, the device holds for
\* every resident what the host says it holds, computed as the host says it was.
StatesExact == CacheCoherent /\ StateIsPrompt /\ HistoryTells /\ RestoredAsAlone

\* Once a rank failed no native call touches the device again.
PoisonStopsDevice == [][poisoned => UNCHANGED device]_engineVars
=============================================================================
