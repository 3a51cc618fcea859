----------------------------- MODULE Containers -----------------------------
(***************************************************************************)
(* The containers nodes are kept in: Dictionary with its entries and its   *)
(* hash index, the sequence behind Array and Document, and the containers  *)
(* of fixed capacity, StaticDictionary<N> and StaticSequenceBase<N>.       *)
(*                                                                         *)
(* A node is a record of its type, the text of a scalar, what a container  *)
(* holds and the index of a dictionary.  Positions count from 1.           *)
(***************************************************************************)
EXTENDS Integers, Sequences

Node(type, text, value) ==
    [type |-> type, text |-> text, value |-> value, index |-> <<>>]
Hole == Node("hole", 0, <<>>)
Scalar(text) == Node("scalar", text, <<>>)
Array(elements) == Node("array", 0, elements)
EmptyDictionary == Node("dictionary", 0, <<>>)
Entry(key, node) == [key |-> key, node |-> node]

isHole(node) == node.type = "hole"
isArray(node) == node.type = "array"
isDictionary(node) == node.type = "dictionary"
-----------------------------------------------------------------------------
\* Dictionary.
Keys(d) == {d.value[i].key : i \in DOMAIN d.value}

contains(d, key) == key \in DOMAIN d.index

add(d, key, node) ==
    [d EXCEPT !.value = Append(d.value, Entry(key, node)),
              !.index = [k \in DOMAIN d.index \union {key} |->
                            IF k = key THEN Len(d.value) + 1 ELSE d.index[k]]]

findKey(d, key) == d.index[key]
at(d, key) == d.value[findKey(d, key)].node
assign(d, key, node) ==
    [d EXCEPT !.value = [i \in DOMAIN d.value |->
        IF i = findKey(d, key) THEN Entry(key, node) ELSE d.value[i]]]

\* The keys of the index are those of the entries, and each is found at the last
\* entry that has it.
IndexAgrees(d) ==
    /\ \A i \in DOMAIN d.value : d.value[i].key \in DOMAIN d.index
    /\ \A k \in DOMAIN d.index :
         /\ d.index[k] \in DOMAIN d.value
         /\ d.value[d.index[k]].key = k
         /\ \A i \in DOMAIN d.value : d.value[i].key = k => i <= d.index[k]

Entries(K, S) == [key : K, node : S]

\* A dictionary of nodes in S under keys in K.
WellFormed(d, K, S) ==
    /\ d \in [type : {"dictionary"}, text : {0}, value : Seq(Entries(K, S)),
              index : {d.index}]
    /\ d.index \in [Keys(d) -> Nat]
    /\ IndexAgrees(d)

\* An array of nodes in S.
WellFormedArray(a, S) ==
    a \in [type : {"array"}, text : {0}, value : Seq(S), index : {<<>>}]

UniqueKeys(d) ==
    \A i, j \in DOMAIN d.value : d.value[i].key = d.value[j].key => i = j

\* Broken: adds the key although it is there.
BrokenUpsert(d, k, node) == add(d, k, node)

upsertDictEntry(d, k, node) ==
    IF contains(d, k) THEN assign(d, k, node) ELSE add(d, k, node)

\* Broken: the last definition of a key wins.
BrokenAddIfAbsent(d, e) == upsertDictEntry(d, e.key, e.node)

\* The first definition of a key wins.
addIfAbsent(d, e) == IF contains(d, e.key) THEN d ELSE add(d, e.key, e.node)
-----------------------------------------------------------------------------
\* SequenceBase: resize() makes index the last position there is, counted from 0.
resize(elements, index) ==
    [i \in 1..(index + 1) |-> IF i \in DOMAIN elements THEN elements[i] ELSE Hole]
-----------------------------------------------------------------------------
\* StaticDictionary<N> and StaticSequenceBase<N>: what one holds, and whether an
\* operation on it has thrown.
Static == [value |-> <<>>, thrown |-> FALSE]

\* Broken: the slot behind the last one is taken.
BrokenStaticFull(count, N) == count > N

StaticFull(count, N) == count >= N

staticAdd(held, thing, N) ==
    IF StaticFull(Len(held.value), N) THEN [held EXCEPT !.thrown = TRUE]
    ELSE [held EXCEPT !.value = Append(held.value, thing)]

findIndex(held, key) ==
    IF \E i \in DOMAIN held.value : held.value[i].key = key
    THEN CHOOSE i \in DOMAIN held.value :
             /\ held.value[i].key = key
             /\ \A j \in 1..(i - 1) : held.value[j].key # key
    ELSE Len(held.value) + 1

staticContains(held, key) == findIndex(held, key) <= Len(held.value)
staticAt(held, key) == held.value[findIndex(held, key)].node

staticResize(held, index, N) ==
    IF index >= N THEN [held EXCEPT !.thrown = TRUE]
    ELSE IF index < Len(held.value) THEN held
    ELSE [held EXCEPT !.value = resize(held.value, index)]
=============================================================================
