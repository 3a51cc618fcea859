----------------------------- MODULE MergeKeys -----------------------------
(***************************************************************************)
(* Default_Parser::mergeOverrides(): the "<<" entry of a block mapping is  *)
(* replaced by the entries of the mapping, or the sequence of mappings, it *)
(* names.  parseDictionary() calls it on every block mapping it has read,  *)
(* and it calls itself on every value of the mapping.                      *)
(*                                                                         *)
(* Nodes and dictionaries are those of Containers.                         *)
(***************************************************************************)
EXTENDS Containers

CONSTANTS
    Names,          \* the keys of mappings
    Nodes,          \* the nodes the parser makes
    Inputs,         \* those it has just read
    KeyBefore(_, _) \* the order of std::set<std::string>

ASSUME NodesAssumption ==
    /\ Inputs \subseteq Nodes
    /\ \A n \in Nodes :
         /\ isDictionary(n) => WellFormed(n, Names, Nodes) /\ UniqueKeys(n)
         /\ isArray(n) => WellFormedArray(n, Nodes)
    /\ \A k, l \in Names : ~(KeyBefore(k, l) /\ KeyBefore(l, k))

kOverride == "<<"

VARIABLES
    overrideRoot,   \* the node of the outermost call
    calls,          \* the calls under way, the innermost one last
    status          \* "read", "merging", "merged" or "thrown"
\* history: the node as it was read; the calls that returned, with their results
VARIABLES read, answers

vars == <<overrideRoot, calls, status, read, answers>>

Init ==
    /\ read \in Inputs
    /\ overrideRoot = read
    /\ calls = <<>>
    /\ status = "read"
    /\ answers = {}
-----------------------------------------------------------------------------
Explicit(root) == Keys(root) \ {kOverride}
Override(root) == at(root, kOverride)

\* Any other node is returned as it is.
HasOverride(root) ==
    /\ isDictionary(root) /\ contains(root, kOverride)
    /\ isDictionary(Override(root)) \/ isArray(Override(root))

\* A call: the mappings of a sequence that are still to be merged into the base,
\* the rest of the one that is being merged, the explicit keys to be put on top.
Call(root) ==
    LET overrideValue == Override(root)
        single == isDictionary(overrideValue)
    IN  [root |-> root,
         base |-> IF single THEN overrideValue ELSE EmptyDictionary,
         elements |-> IF single THEN <<>> ELSE overrideValue.value,
         entries |-> <<>>,
         overrideKeys |-> Explicit(root)]

call == calls[Len(calls)]
callers == SubSeq(calls, 1, Len(calls) - 1)
goOn(changed) == calls' = Append(callers, changed)

First(key, keys) == key \in keys /\ \A k \in keys \ {key} : KeyBefore(key, k)

Applied(frame, key, node) ==
    [frame EXCEPT !.base = upsertDictEntry(frame.base, key, node),
                  !.overrideKeys = frame.overrideKeys \ {key}]
-----------------------------------------------------------------------------
\* The end of parseDictionary().
begin ==
    /\ status = "read"
    /\ IF HasOverride(overrideRoot)
       THEN calls' = <<Call(overrideRoot)>> /\ status' = "merging"
       ELSE calls' = calls /\ status' = "merged"
    /\ UNCHANGED <<overrideRoot, read, answers>>

nextElement ==
    /\ status = "merging"
    /\ call.entries = <<>>
    /\ call.elements # <<>>
    /\ isDictionary(Head(call.elements))
    /\ goOn([call EXCEPT !.elements = Tail(call.elements),
                         !.entries = Head(call.elements).value])
    /\ UNCHANGED <<overrideRoot, status, read, answers>>

\* "Merge key '<<' sequence must contain only mappings."
refuseElement ==
    /\ status = "merging"
    /\ call.entries = <<>>
    /\ call.elements # <<>>
    /\ ~isDictionary(Head(call.elements))
    /\ calls' = <<>>
    /\ status' = "thrown"
    /\ UNCHANGED <<overrideRoot, read, answers>>

addEntry ==
    /\ status = "merging"
    /\ call.entries # <<>>
    /\ goOn([call EXCEPT !.entries = Tail(call.entries),
                         !.base = addIfAbsent(call.base, Head(call.entries))])
    /\ UNCHANGED <<overrideRoot, status, read, answers>>

AllMerged == status = "merging" /\ call.entries = <<>> /\ call.elements = <<>>

\* The value of an explicit key is merged itself before it is put on top.
applyOuter ==
    /\ AllMerged
    /\ \E key \in call.overrideKeys :
         LET value == at(call.root, key)
         IN  /\ First(key, call.overrideKeys)
             /\ IF HasOverride(value) THEN calls' = Append(calls, Call(value))
                                      ELSE goOn(Applied(call, key, value))
    /\ UNCHANGED <<overrideRoot, status, read, answers>>

\* What a call returns: overrideRoot, or the value of a key of its caller.
return ==
    /\ AllMerged
    /\ call.overrideKeys = {}
    /\ answers' = answers \union {[root |-> call.root, result |-> call.base]}
    /\ IF callers = <<>>
       THEN /\ overrideRoot' = call.base
            /\ calls' = <<>>
            /\ status' = "merged"
       ELSE /\ LET caller == callers[Len(callers)]
               IN  \E key \in caller.overrideKeys :
                     /\ First(key, caller.overrideKeys)
                     /\ calls' = Append(SubSeq(callers, 1, Len(callers) - 1),
                                        Applied(caller, key, call.base))
            /\ UNCHANGED <<overrideRoot, status>>
    /\ UNCHANGED read

Next ==
    \/ begin
    \/ nextElement
    \/ refuseElement
    \/ addEntry
    \/ applyOuter
    \/ return

Spec == Init /\ [][Next]_vars
-----------------------------------------------------------------------------
\* What a call merges, in order of priority.
Sources(root) ==
    IF isDictionary(Override(root)) THEN <<Override(root)>> ELSE Override(root).value

\* The mapping is the first to have the key.
FirstWith(sources, i, key) ==
    key \in Keys(sources[i]) /\ \A j \in 1..(i - 1) : key \notin Keys(sources[j])

LastWith(sources, i, key) ==
    key \in Keys(sources[i]) /\ \A j \in (i + 1)..Len(sources) : key \notin Keys(sources[j])

\* What mergeOverrides() makes of a node.
Answer(root, result) ==
    IF HasOverride(root) THEN [root |-> root, result |-> result] \in answers
                         ELSE result = root

\* A key of the mapping has its own value, with the overrides in it merged, any
\* other key the value of the first mapping of the sequence that has it: the rule
\* of the merge key that the comment of mergeOverrides() states ("first wins";
\* docs/guide.md says the opposite, LaterSourceWins below).  It holds of the
\* outermost call and of every call below it.
EveryKeyFromItsSource ==
    /\ status = "merged" => Answer(read, overrideRoot)
    /\ \A a \in answers :
         LET sources == Sources(a.root)
         IN  /\ \A k \in Explicit(a.root) : Answer(at(a.root, k), at(a.result, k))
             /\ \A i \in DOMAIN sources : \A k \in Keys(sources[i]) \ Explicit(a.root) :
                  FirstWith(sources, i, k) => at(a.result, k) = at(sources[i], k)

\* What docs/guide.md says of "<<: [*base, *overrides]": overrides takes priority
\* over base.  Of the mappings of a sequence the last to have a key gives it its
\* value.
LaterSourceWins ==
    \A a \in answers :
        LET sources == Sources(a.root)
        IN  \A i \in DOMAIN sources : \A k \in Keys(sources[i]) \ Explicit(a.root) :
              LastWith(sources, i, k) => at(a.result, k) = at(sources[i], k)

\* The merged mapping has the keys of the mapping and of its sources, each in one
\* entry, and only a sequence of something else than mappings is refused; the
\* "<<" of the mapping is gone.
KeysAreTheUnion ==
    \A a \in answers :
        LET sources == Sources(a.root)
        IN  /\ Keys(a.result) =
                 Explicit(a.root) \union UNION {Keys(sources[i]) : i \in DOMAIN sources}
            /\ UniqueKeys(a.result)
            /\ \A i \in DOMAIN sources : isDictionary(sources[i])
=============================================================================
