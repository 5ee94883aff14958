---------------------------- MODULE PrefixIndex ----------------------------
(***************************************************************************)
(* PrefixIndex in crates/inferfabric-runtime/src/prefix_index.rs: a        *)
(* compressed radix tree from token prefixes to checkpoints, with bounds   *)
(* on entries and tokens.  published and issued are not in the code: they  *)
(* are the flat map of prefixes the tree stands for, and every id given    *)
(* out so far.                                                             *)
(***************************************************************************)
EXTENDS ArithmeticHistory, FiniteSetsExt, TLC

CONSTANTS
    Identities, Identity,   \* namespaces of callers, and of this index
    Prompts, Histories,     \* token sequences and histories callers pass
    Index,                  \* this index's number, from NEXT_INDEX
    Alignment, MaxEntries, MaxTokenUnits,
    MaxGeneration           \* bound on the u64 generation

ASSUME IndexAssumption ==
    /\ Identity \in Identities
    /\ Alignment > 0 /\ MaxEntries > 0 /\ MaxTokenUnits > 0

VARIABLES root, entries, generation, token_units, published, issued

indexVars == <<root, entries, generation, token_units, published, issued>>

Without(map, key) == [k \in DOMAIN map \ {key} |-> map[k]]
From(s, n) == SubSeq(s, n + 1, Len(s))

\* The length of the common head of two token slices.
CommonLength(a, b) ==
    Cardinality({n \in DOMAIN a \cap DOMAIN b : SubSeq(a, 1, n) = SubSeq(b, 1, n)})

----------------------------------------------------------------------------
(* The radix tree: Node.                                                   *)

DefaultNode == [edge |-> <<>>, checkpoints |-> {}, children |-> << >>]

\* Cutting a token edge creates metadata, never a checkpoint.
Split(child, common) ==
    IF common = Len(child.edge) THEN child
    ELSE [edge |-> SubSeq(child.edge, 1, common), checkpoints |-> {},
          children |-> child.edge[common + 1] :> [child EXCEPT !.edge = From(@, common)]]

RECURSIVE NodeInsert(_, _, _)
NodeInsert(node, tokens, id) ==
    IF tokens = <<>> THEN [node EXCEPT !.checkpoints = @ \cup {id}]
    ELSE IF Head(tokens) \notin DOMAIN node.children
    THEN [node EXCEPT !.children =
             @ @@ Head(tokens) :> [DefaultNode EXCEPT !.edge = tokens, !.checkpoints = {id}]]
    ELSE LET common == CommonLength(node.children[Head(tokens)].edge, tokens)
         IN  [node EXCEPT !.children[Head(tokens)] =
                 NodeInsert(Split(@, common), From(tokens, common), id)]

\* Mutant of Merged: single children stay apart.
MergedNever(child) == child

\* A node without a checkpoint that has one child takes its place.
Merged(child) ==
    IF child.checkpoints # {} \/ Cardinality(DOMAIN child.children) # 1 THEN child
    ELSE LET suffix == child.children[CHOOSE t \in DOMAIN child.children : TRUE]
         IN  [suffix EXCEPT !.edge = child.edge \o @]

RECURSIVE NodeRemove(_, _)
NodeRemove(node, id) ==
    LET after == [t \in DOMAIN node.children |-> Merged(NodeRemove(node.children[t], id))]
        kept == {t \in DOMAIN after : after[t].checkpoints # {} \/ after[t].children # << >>}
    IN  [node EXCEPT !.checkpoints = @ \ {id}, !.children = [t \in kept |-> after[t]]]

----------------------------------------------------------------------------
(* Operations.                                                             *)

IndexInit ==
    /\ root = DefaultNode /\ entries = << >> /\ generation = 0 /\ token_units = 0
    /\ published = << >> /\ issued = {}

\* Mutant of FreshId: numbered by the entries that are there.
FreshIdByCount == [index |-> Index, generation |-> Cardinality(DOMAIN entries) + 1]

FreshId == [index |-> Index, generation |-> generation + 1]

PublishPrefix(identity, tokens, history) ==
    LET id == FreshId
    IN  /\ identity = Identity
        /\ tokens # <<>> /\ Len(tokens) % Alignment = 0
        /\ HistoryTokens(history) = Len(tokens)
        /\ Cardinality(DOMAIN entries) < MaxEntries
        /\ token_units + Len(tokens) <= MaxTokenUnits
        /\ generation < MaxGeneration
        /\ root' = NodeInsert(root, tokens, id)
        /\ entries' = entries @@ id :> [boundary |-> Len(tokens), history |-> history]
        /\ generation' = generation + 1
        /\ token_units' = token_units + Len(tokens)
        /\ published' = published @@ id :> tokens
        /\ issued' = issued \cup {id}

RemovePrefix(id) ==
    /\ id \in DOMAIN entries
    /\ root' = NodeRemove(root, id)
    /\ entries' = Without(entries, id)
    /\ token_units' = token_units - entries[id].boundary
    /\ published' = Without(published, id)
    /\ UNCHANGED <<generation, issued>>

\* remove returns false for a stale id.
RemoveStale(id) == id \notin DOMAIN entries /\ UNCHANGED indexVars

\* Checkpoints of a node that a request with this history may restore.
Eligible(node, history, max_restore) ==
    {id \in node.checkpoints :
        /\ entries[id].boundary <= max_restore
        /\ SamePrefix(entries[id].history, history, entries[id].boundary)}

NoMatch == [index |-> 0, generation |-> 0]

\* The loop of lookup: descend while edges match completely; a deeper eligible
\* checkpoint replaces a shallower one, and of one node the newest wins.
RECURSIVE Walk(_, _, _, _, _, _)
Walk(node, tokens, offset, history, max_restore, found) ==
    IF offset = Len(tokens) \/ tokens[offset + 1] \notin DOMAIN node.children
    THEN [matched_tokens |-> offset, checkpoint |-> found]
    ELSE LET child == node.children[tokens[offset + 1]]
             common == CommonLength(child.edge, From(tokens, offset))
             here == Eligible(child, history, max_restore)
             best == IF here = {} THEN found
                     ELSE CHOOSE id \in here : \A o \in here : o.generation <= id.generation
         IN  IF common # Len(child.edge)
             THEN [matched_tokens |-> offset + common, checkpoint |-> found]
             ELSE Walk(child, tokens, offset + common, history, max_restore, best)

\* Mutant of Lookup: a request stops at the first checkpoint's depth limit.
LookupCapped(identity, tokens, history, max_restore) ==
    IF identity # Identity THEN [matched_tokens |-> 0, checkpoint |-> NoMatch]
    ELSE Walk(root, SubSeq(tokens, 1, max_restore), 0, history, max_restore, NoMatch)

Lookup(identity, tokens, history, max_restore) ==
    IF identity # Identity THEN [matched_tokens |-> 0, checkpoint |-> NoMatch]
    ELSE Walk(root, tokens, 0, history, max_restore, NoMatch)

IndexNext ==
    \/ \E i \in Identities, t \in Prompts, h \in Histories : PublishPrefix(i, t, h)
    \/ \E id \in issued : RemovePrefix(id) \/ RemoveStale(id)

IndexSpec == IndexInit /\ [][IndexNext]_indexVars

----------------------------------------------------------------------------
(* Properties.                                                             *)

RECURSIVE Marks(_, _), EdgeTokens(_), WellFormed(_)

\* Every checkpoint of the tree with the token path that leads to it.
Marks(node, path) ==
    {<<path, id>> : id \in node.checkpoints}
    \cup UNION {Marks(node.children[t], path \o node.children[t].edge) : t \in DOMAIN node.children}

EdgeTokens(node) ==
    Len(node.edge) + MapThenSumSet(LAMBDA t : EdgeTokens(node.children[t]), DOMAIN node.children)

WellFormed(node) ==
    \A t \in DOMAIN node.children :
        /\ Head(node.children[t].edge) = t
        /\ node.children[t].checkpoints # {} \/ Cardinality(DOMAIN node.children[t].children) > 1
        /\ WellFormed(node.children[t])

\* The tree holds exactly the published prefixes, each under its own tokens, and no
\* node that leads to nothing; what token_units() reports bounds the tokens stored.
TreeExact ==
    /\ Marks(root, <<>>) = {<<published[id], id>> : id \in DOMAIN published}
    /\ DOMAIN entries = DOMAIN published
    /\ WellFormed(root)
    /\ EdgeTokens(root) <= token_units /\ token_units <= MaxTokenUnits

\* A published prefix a request may restore from: its tokens start the prompt and
\* its state was computed by the arithmetic the request would use.
Restorable(tokens, history, max_restore) ==
    {id \in DOMAIN published :
        /\ IsPrefix(published[id], tokens) /\ Len(published[id]) <= max_restore
        /\ SamePrefix(entries[id].history, history, Len(published[id]))}

\* lookup answers as a search of the flat set of published prefixes would.
LookupExact ==
    \A i \in Identities, t \in Prompts, h \in Histories : \A m \in {Len(t) - 1, Len(t)} :
        LET found == Lookup(i, t, h, m)
            usable == Restorable(t, h, m)
        IN  IF i # Identity THEN found.matched_tokens = 0 /\ found.checkpoint = NoMatch
            ELSE /\ found.matched_tokens =
                       Max({0} \cup {CommonLength(t, published[id]) : id \in DOMAIN published})
                 /\ IF usable = {} THEN found.checkpoint = NoMatch
                    ELSE /\ found.checkpoint \in usable
                         /\ \A id \in usable \ {found.checkpoint} :
                              LET best == published[found.checkpoint]
                              IN  \/ Len(best) > Len(published[id])
                                  \/ /\ Len(best) = Len(published[id])
                                     /\ found.checkpoint.generation > id.generation

\* The index is the flat set of prefixes published and not removed.  However edges
\* were split and merged, an evicted checkpoint is never found again, no other one is
\* lost with it, and "tree edge tokens never exceed this count" that insert compares
\* with its limit.  lookup finds the longest restorable prefix, the newest among
\* equals, even when a longer edge matches without a usable checkpoint;
\* matched_tokens is the longest overlap with any published prefix; another namespace
\* finds nothing.  "Stale/foreign IDs cannot remove a newer checkpoint": every
\* publication got an id of its own, so one that left the index never comes back.
IndexExact ==
    TreeExact /\ (generation > 0 => LookupExact) /\ Cardinality(issued) = generation
=============================================================================
