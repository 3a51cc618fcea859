------------------------------ MODULE NodeTree ------------------------------
(***************************************************************************)
(* A document in the hands of a program: read, with its merge keys applied *)
(* (MergeKeys), then indexed and written to through YAML_Impl::operator[]  *)
(* and Node::operator[], which make what is not there, and at last copied  *)
(* into a container of fixed capacity.                                     *)
(***************************************************************************)
EXTENDS MergeKeys

CONSTANTS
    Used,       \* the nodes read that a program goes on with, and perhaps NoDocument
    Steps,      \* the keys and indexes it uses
    Values,     \* the nodes it assigns, and the nodes in them
    Operations, \* bound of the number of expressions
    MaxSteps,   \* bound of the number of operator[] in one
    Places,     \* where the scalars of the tree are looked for
    Depth,      \* how deep its nodes are looked for
    N           \* the capacity of the static containers

VARIABLES
    reference,  \* the path of the Node& an expression has got so far
    accesses,   \* the number of expressions
    static,     \* the static container, and whether it was full
    written     \* history: the scalars of the document by their paths

treeVars == <<vars, reference, accesses, static, written>>

NoNode == Node("none", 0, <<>>)

\* An object that has not parsed anything.
NoDocument == NoNode

\* A step is a key or an index.
ByKey(key) == [key |-> key]
ByIndex(index) == [index |-> index]
isKeyStep(step) == "key" \in DOMAIN step
Step == [key : Names] \union [index : Nat]

ASSUME TreeAssumption ==
    /\ Used \subseteq Nodes \union {NoDocument}
    /\ Steps \subseteq Step
    /\ \A n \in Values :
         /\ isDictionary(n) => WellFormed(n, Names, Values)
         /\ isArray(n) => WellFormedArray(n, Values)
    /\ Places \subseteq Seq(Step)
    /\ Depth \in Nat
    /\ N \in Nat
-----------------------------------------------------------------------------
\* Broken: a scalar gives way to the container the step asks for.
BrokenMade(node, step) ==
    IF isHole(node) \/ node.type = "scalar"
    THEN IF isKeyStep(step) THEN EmptyDictionary ELSE Array(<<>>)
    ELSE node

\* A Hole becomes the container the step asks for.
Made(node, step) ==
    IF isHole(node)
    THEN IF isKeyStep(step) THEN EmptyDictionary ELSE Array(<<>>)
    ELSE node

\* "Not a dictionary variant.", "Not a document or array variant."
Refused(node, step) ==
    IF isKeyStep(step) THEN ~isDictionary(Made(node, step))
                       ELSE ~isArray(Made(node, step))

\* There is something at the step.
Has(node, step) ==
    \/ isKeyStep(step) /\ isDictionary(node) /\ contains(node, step.key)
    \/ ~isKeyStep(step) /\ isArray(node) /\ step.index < Len(node.value)

\* Broken: the entry that is made is not put into the index.
BrokenOpened(node, step) ==
    LET made == Made(node, step)
    IN  IF Has(made, step) THEN made
        ELSE IF isKeyStep(step)
        THEN [made EXCEPT !.value = Append(made.value, Entry(step.key, Hole))]
        ELSE [made EXCEPT !.value = resize(made.value, step.index)]

\* The node with a place for the step.
Opened(node, step) ==
    LET made == Made(node, step)
    IN  IF Has(made, step) THEN made
        ELSE IF isKeyStep(step) THEN add(made, step.key, Hole)
        ELSE [made EXCEPT !.value = resize(made.value, step.index)]

Reached(node, step) ==
    IF isKeyStep(step) THEN at(node, step.key) ELSE node.value[step.index + 1]

Replaced(node, step, child) ==
    IF isKeyStep(step) THEN assign(node, step.key, child)
    ELSE [node EXCEPT !.value[step.index + 1] = child]

\* What a step leads to as things are.
Child(node, step) == IF Has(node, step) THEN Reached(node, step) ELSE NoNode

\* The nodes on a path, the one it starts from at 0, and the last of them.
Walk(node, path) ==
    LET walk[i \in 0..Len(path)] ==
            IF i = 0 THEN node ELSE Child(walk[i - 1], path[i])
    IN  walk
At(node, path) == Walk(node, path)[Len(path)]

\* The tree after its node at the path is written to.
Put(node, path, new) ==
    LET walk == Walk(node, path)
        put[i \in 0..Len(path)] ==
            IF i = Len(path) THEN new ELSE Replaced(walk[i], path[i + 1], put[i + 1])
    IN  put[0]
-----------------------------------------------------------------------------
\* The scalars of a tree, by the paths that operator[] reaches them on.
Contents(node) ==
    {[path |-> p, text |-> At(node, p).text] :
        p \in {q \in Places : At(node, q).type = "scalar"}}

IsAt(path, p) == Len(path) <= Len(p) /\ SubSeq(p, 1, Len(path)) = path
From(path, p) == SubSeq(p, Len(path) + 1, Len(p))

\* What writing a node at a path makes of them.
WrittenAt(path, node) ==
    {w \in written : ~IsAt(path, w.path)} \union
    {[path |-> p, text |-> At(node, From(path, p)).text] :
        p \in {q \in Places : IsAt(path, q) /\ At(node, From(path, q)).type = "scalar"}}
-----------------------------------------------------------------------------
TreeInit ==
    /\ read \in Inputs \union Used
    /\ overrideRoot = read
    /\ calls = <<>>
    /\ status = IF read = NoDocument THEN "merged" ELSE "read"
    /\ answers = {}
    /\ reference = <<>>
    /\ accesses = 0
    /\ static = Static
    /\ written = {}

\* A step of mergeOverrides(), after whose last one parse() returns.
Merge ==
    /\ Next
    /\ written' = IF status' = "merged" THEN Contents(overrideRoot') ELSE {}
    /\ UNCHANGED <<reference, accesses, static>>

\* operator[] on the node that is referred to.
index(root, step) ==
    LET node == At(root, reference)
    IN  IF Refused(node, step)
        THEN /\ overrideRoot' = root
             /\ reference' = <<>>
             /\ status' = "changed"
        ELSE /\ overrideRoot' = Put(root, reference, Opened(node, step))
             /\ reference' = Append(reference, step)
             /\ status' = "indexing"

\* yaml[step].  YAML_Impl::operator[] has the document "---\n...\n" parsed when
\* there is none, and gives it a root.
IndexRoot(step) ==
    /\ status \in {"merged", "changed"}
    /\ read \in Used
    /\ accesses < Operations
    /\ index(IF overrideRoot # NoDocument THEN overrideRoot
             ELSE IF isKeyStep(step) THEN EmptyDictionary ELSE Array(<<>>), step)
    /\ accesses' = accesses + 1
    /\ UNCHANGED <<calls, read, answers, static, written>>

\* ...[step], on the result of the last one.
Index(step) ==
    /\ status = "indexing"
    /\ Len(reference) < MaxSteps
    /\ index(overrideRoot, step)
    /\ UNCHANGED <<calls, read, answers, accesses, static, written>>

\* ... = value.
Assign(value) ==
    /\ status = "indexing"
    /\ overrideRoot' = Put(overrideRoot, reference, value)
    /\ written' = WrittenAt(reference, value)
    /\ reference' = <<>>
    /\ status' = "changed"
    /\ UNCHANGED <<calls, read, answers, accesses, static>>

\* The end of an expression that only looked.
Look ==
    /\ status = "indexing"
    /\ reference' = <<>>
    /\ status' = "changed"
    /\ UNCHANGED <<overrideRoot, calls, read, answers, accesses, static, written>>

\* What the root holds goes into a static container, one thing after the other,
\* until one does not fit.
BeginCopy ==
    /\ status \in {"merged", "changed"}
    /\ read \in Used
    /\ isDictionary(overrideRoot) \/ isArray(overrideRoot)
    /\ status' = "copying"
    /\ UNCHANGED <<overrideRoot, calls, read, answers, reference, accesses, static,
                   written>>

Copy ==
    /\ status = "copying"
    /\ IF Len(static.value) = Len(overrideRoot.value)
       THEN status' = "copied" /\ UNCHANGED static
       ELSE /\ static' = staticAdd(static, overrideRoot.value[Len(static.value) + 1], N)
            /\ status' = IF static'.thrown THEN "copied" ELSE status
    /\ UNCHANGED <<overrideRoot, calls, read, answers, reference, accesses, written>>

\* Both arrays are asked for a place.
Grow(step) ==
    /\ status = "copied"
    /\ ~isKeyStep(step)
    /\ isArray(overrideRoot)
    /\ ~static.thrown
    /\ static' = staticResize(static, step.index, N)
    /\ overrideRoot' = Opened(overrideRoot, step)
    /\ UNCHANGED <<calls, status, read, answers, reference, accesses, written>>

TreeNext ==
    \/ Merge
    \/ \E step \in Steps : IndexRoot(step) \/ Index(step) \/ Grow(step)
    \/ \E value \in Values : Assign(value)
    \/ Look
    \/ BeginCopy
    \/ Copy

TreeSpec == TreeInit /\ [][TreeNext]_treeVars
-----------------------------------------------------------------------------
Below(node) ==
    CASE isDictionary(node) -> {node.value[i].node : i \in DOMAIN node.value}
      [] isArray(node) -> {node.value[i] : i \in DOMAIN node.value}
      [] OTHER -> {}

NodesIn(node) ==
    LET level[i \in 0..Depth] ==
            IF i = 0 THEN {node} ELSE UNION {Below(n) : n \in level[i - 1]}
    IN  UNION {level[i] : i \in 0..Depth}

\* In every dictionary of the tree, however it came about (parsed, merged, made by
\* an access, assigned with a key given twice), the index leads to the last entry
\* of each key and to nothing else.
IndexTrue ==
    \A node \in NodesIn(overrideRoot) : isDictionary(node) => IndexAgrees(node)

\* operator[] finds what was read or assigned last, at its path, until it or
\* something around it is assigned again: an access for its own sake, one that
\* makes room for others, and one that throws on the way disturb no scalar.
ContentsAreWritten ==
    status \notin {"read", "merging", "thrown"} => Contents(overrideRoot) = written

\* A static container holds what the dynamic one does as long as that fits, throws
\* when it does not and keeps what was before, and answers alike for a key that
\* there is one entry for.
StaticAnswersAlike ==
    status = "copied" =>
        /\ Len(static.value) <= N
        /\ static.thrown <=> Len(overrideRoot.value) > N
        /\ IsAt(static.value, overrideRoot.value)
        /\ ~static.thrown => Len(static.value) = Len(overrideRoot.value)
        /\ isDictionary(overrideRoot) /\ ~static.thrown =>
             /\ \A k \in Keys(overrideRoot) : staticContains(static, k)
             /\ UniqueKeys(overrideRoot) =>
                  \A k \in Keys(overrideRoot) : staticAt(static, k) = at(overrideRoot, k)
=============================================================================
