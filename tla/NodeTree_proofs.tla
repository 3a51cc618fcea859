--------------------------- MODULE NodeTree_proofs ---------------------------
(***************************************************************************)
(* What the operations of a Dictionary do to it, for every key, every node *)
(* and any number of entries; that mergeOverrides() gives every key to the *)
(* source it belongs to, whatever mappings are merged, however deep; and   *)
(* what operator[], assignments and static containers do to a tree of any  *)
(* width and depth.                                                        *)
(***************************************************************************)
EXTENDS NodeTree, SequenceTheorems, WellFoundedInduction, TLAPS

Entered(K, S) == Seq(Entries(K, S))
Fields(V, I) == [type : {"dictionary"}, text : {0}, value : V, index : I]
Indexes(K) == UNION {[I -> Nat] : I \in SUBSET K}

LEMMA DictionaryFields ==
    ASSUME NEW K, NEW S, NEW d, WellFormed(d, K, S)
    PROVE  /\ d \in Fields(Entered(K, S), Indexes(K))
           /\ d.value \in Seq(Entries(K, S))
           /\ DOMAIN d.value = 1..Len(d.value) /\ Len(d.value) \in Nat
           /\ DOMAIN d.index = Keys(d) /\ Keys(d) \in SUBSET K
           /\ d.index \in [DOMAIN d.index -> Nat]
           /\ \A i \in DOMAIN d.value : d.value[i] \in Entries(K, S)
           /\ IndexAgrees(d) /\ isDictionary(d)
<1>1. /\ d.value \in Seq(Entries(K, S)) /\ d.type = "dictionary" /\ d.text = 0
      /\ d.index \in [Keys(d) -> Nat] /\ IndexAgrees(d)
      /\ d \in [type : {"dictionary"}, text : {0}, value : Seq(Entries(K, S)),
                index : {d.index}]
  BY DEF WellFormed
<1>2. \A i \in DOMAIN d.value : d.value[i] \in Entries(K, S)
  BY <1>1
<1>3. Keys(d) \in SUBSET K
  BY <1>2 DEF Keys, Entries
<1>4. d.index \in Indexes(K)
  BY <1>1, <1>3 DEF Indexes
<1>5. d \in Fields(Entered(K, S), Indexes(K))
  BY <1>1, <1>4 DEF Fields, Entered
<1> QED BY <1>1, <1>2, <1>3, <1>5 DEF isDictionary

LEMMA IsWellFormed ==
    ASSUME NEW K, NEW S, NEW d \in Fields(Entered(K, S), Indexes(K)), IndexAgrees(d)
    PROVE  WellFormed(d, K, S)
<1>1. DOMAIN d.index = Keys(d)
  BY DEF IndexAgrees, Keys
<1>2. d.index \in [DOMAIN d.index -> Nat]
  BY DEF Fields, Indexes
<1>3. d \in [type : {"dictionary"}, text : {0}, value : Seq(Entries(K, S)), index : {d.index}]
  BY DEF Fields, Entered
<1> QED BY <1>1, <1>2, <1>3 DEF WellFormed

LEMMA FieldsReplaced ==
    ASSUME NEW V, NEW I, NEW d \in Fields(V, I), NEW v \in V, NEW i \in I
    PROVE  [d EXCEPT !.value = v, !.index = i] \in Fields(V, I)
BY Zenon DEF Fields

LEMMA ValueReplaced ==
    ASSUME NEW V, NEW I, NEW d \in Fields(V, I), NEW v \in V
    PROVE  /\ [d EXCEPT !.value = v] \in Fields(V, I)
           /\ [d EXCEPT !.value = v].value = v
           /\ [d EXCEPT !.value = v].index = d.index
BY Zenon DEF Fields

\* Whatever is added, a key that is there or not, is found, under the index the
\* entries agree with, and nothing else is found elsewhere than before.
THEOREM AddCorrect ==
    ASSUME NEW K, NEW S, NEW d, WellFormed(d, K, S), NEW k \in K, NEW n \in S
    PROVE  /\ WellFormed(add(d, k, n), K, S)
           /\ Keys(add(d, k, n)) = Keys(d) \union {k}
           /\ at(add(d, k, n), k) = n
           /\ \A j \in Keys(d) \ {k} : at(add(d, k, n), j) = at(d, j)
<1> DEFINE e == add(d, k, n)
           I == DOMAIN d.index \union {k}
           entry == [key |-> k, node |-> n]
<1>0. /\ d.value \in Seq(Entries(K, S)) /\ Len(d.value) \in Nat
      /\ DOMAIN d.value = 1..Len(d.value) /\ DOMAIN d.index \in SUBSET K
      /\ d.index \in [DOMAIN d.index -> Nat] /\ IndexAgrees(d)
  BY DictionaryFields
<1>1. entry \in Entries(K, S)
  BY DEF Entries
<1>2. d \in Fields(Entered(K, S), Indexes(K))
  BY DictionaryFields
<1>3. /\ e.value = Append(d.value, entry)
      /\ e.index = [j \in I |-> IF j = k THEN Len(d.value) + 1 ELSE d.index[j]]
  BY <1>2, SMT DEF add, Entry, Fields
<1>4. /\ e.value \in Seq(Entries(K, S)) /\ DOMAIN e.value = 1..(Len(d.value) + 1)
      /\ e.value[Len(d.value) + 1] = entry
      /\ \A i \in DOMAIN d.value : e.value[i] = d.value[i]
  BY <1>0, <1>1, <1>3
<1>5. DOMAIN e.index = I /\ e.index \in [I -> Nat] /\ I \in SUBSET K
  BY <1>0, <1>3
<1>6. IndexAgrees(e)
  <2>1. \A i \in DOMAIN e.value : e.value[i].key \in DOMAIN e.index
    BY <1>0, <1>4, <1>5 DEF IndexAgrees
  <2>2. ASSUME NEW j \in DOMAIN e.index
        PROVE  /\ e.index[j] \in DOMAIN e.value
               /\ e.value[e.index[j]].key = j
               /\ \A i \in DOMAIN e.value : e.value[i].key = j => i <= e.index[j]
    <3>1. CASE j = k
      BY <3>1, <1>0, <1>3, <1>4, <1>5
    <3>2. CASE j # k
      <4>1. j \in DOMAIN d.index /\ e.index[j] = d.index[j]
        BY <3>2, <1>3, <1>5
      <4>2. /\ d.index[j] \in DOMAIN d.value /\ d.value[d.index[j]].key = j
            /\ \A i \in DOMAIN d.value : d.value[i].key = j => i <= d.index[j]
        BY <4>1, <1>0 DEF IndexAgrees
      <4>3. e.index[j] \in DOMAIN e.value /\ e.value[e.index[j]].key = j
        BY <4>1, <4>2, <1>0, <1>4
      <4>4. ASSUME NEW i \in DOMAIN e.value, e.value[i].key = j
            PROVE  i <= e.index[j]
        <5>1. i # Len(d.value) + 1
          BY <3>2, <4>4, <1>4
        <5>2. i \in DOMAIN d.value /\ d.value[i].key = j
          BY <5>1, <4>4, <1>0, <1>4
        <5> QED BY <5>2, <4>1, <4>2
      <4> QED BY <4>3, <4>4
    <3> QED BY <3>1, <3>2
  <2> QED BY <2>1, <2>2 DEF IndexAgrees
<1>7. WellFormed(e, K, S)
  <2>1. e = [d EXCEPT !.value = e.value, !.index = e.index]
    BY <1>3 DEF add, Entry
  <2>2. e.index \in Indexes(K)
    BY <1>5 DEF Indexes
  <2>3. e.value \in Entered(K, S)
    BY <1>4 DEF Entered
  <2> HIDE DEF e
  <2>4. [d EXCEPT !.value = e.value, !.index = e.index]
            \in Fields(Entered(K, S), Indexes(K))
    BY <2>2, <2>3, <1>2, FieldsReplaced
  <2> QED BY <2>1, <2>4, <1>6, IsWellFormed
<1>8. at(e, k) = n
  BY <1>0, <1>3, <1>4, <1>5 DEF at, findKey
<1>9. Keys(e) = Keys(d) \union {k}
  BY <1>5, <1>7, DictionaryFields
<1>10. ASSUME NEW j \in Keys(d) \ {k}
       PROVE  at(e, j) = at(d, j)
  <2>1. j \in I /\ e.index[j] = d.index[j] /\ d.index[j] \in DOMAIN d.value
    BY <1>0, <1>3, DictionaryFields DEF IndexAgrees
  <2> QED BY <2>1, <1>4 DEF at, findKey
<1> QED BY <1>7, <1>8, <1>9, <1>10

\* An assignment to the node of a key changes that node and nothing else.
THEOREM AssignCorrect ==
    ASSUME NEW K, NEW S, NEW d, WellFormed(d, K, S), NEW k \in Keys(d), NEW n \in S
    PROVE  /\ WellFormed(assign(d, k, n), K, S)
           /\ Keys(assign(d, k, n)) = Keys(d)
           /\ Len(assign(d, k, n).value) = Len(d.value)
           /\ \A i \in DOMAIN d.value : assign(d, k, n).value[i].key = d.value[i].key
           /\ at(assign(d, k, n), k) = n
           /\ \A j \in Keys(d) \ {k} : at(assign(d, k, n), j) = at(d, j)
<1> DEFINE e == assign(d, k, n)
<1>0. /\ d.value \in Seq(Entries(K, S)) /\ Len(d.value) \in Nat
      /\ DOMAIN d.value = 1..Len(d.value) /\ DOMAIN d.index \in SUBSET K
      /\ d.index \in [DOMAIN d.index -> Nat] /\ IndexAgrees(d)
      /\ \A i \in DOMAIN d.value : d.value[i] \in Entries(K, S)
  BY DictionaryFields
<1>1. /\ k \in DOMAIN d.index /\ k \in K
      /\ d.index[k] \in DOMAIN d.value /\ d.value[d.index[k]].key = k
  BY <1>0, DictionaryFields DEF IndexAgrees
<1>2. d \in Fields(Entered(K, S), Indexes(K))
  BY DictionaryFields
<1>3. /\ e.index = d.index
      /\ e.value = [i \in DOMAIN d.value |->
                       IF i = d.index[k] THEN [key |-> k, node |-> n] ELSE d.value[i]]
  BY <1>2, SMT DEF assign, findKey, Entry, Fields
<1>4. /\ e.value \in Seq(Entries(K, S)) /\ DOMAIN e.value = DOMAIN d.value
      /\ Len(e.value) = Len(d.value)
  <2>1. e.value \in [1..Len(d.value) -> Entries(K, S)]
    BY <1>0, <1>1, <1>3 DEF Entries
  <2> QED BY <2>1, <1>0
<1>5. \A i \in DOMAIN d.value : e.value[i].key = d.value[i].key
  BY <1>0, <1>1, <1>3
<1>6. IndexAgrees(e)
  BY <1>0, <1>3, <1>4, <1>5 DEF IndexAgrees
<1>7. WellFormed(e, K, S)
  <2>1. e = [d EXCEPT !.value = e.value]
    BY <1>3 DEF assign, findKey, Entry
  <2>2. e.value \in Entered(K, S)
    BY <1>4 DEF Entered
  <2> HIDE DEF e
  <2>3. [d EXCEPT !.value = e.value] \in Fields(Entered(K, S), Indexes(K))
    BY <2>2, <1>2, ValueReplaced
  <2> QED BY <2>1, <2>3, <1>6, IsWellFormed
<1>8. at(e, k) = n
  BY <1>1, <1>3 DEF at, findKey
<1>9. ASSUME NEW j \in Keys(d) \ {k}
      PROVE  at(e, j) = at(d, j)
  <2>1. d.index[j] \in DOMAIN d.value /\ d.index[j] # d.index[k]
    BY <1>0, <1>1, DictionaryFields DEF IndexAgrees
  <2> QED BY <2>1, <1>3 DEF at, findKey
<1>10. Keys(e) = Keys(d)
  BY <1>4, <1>5 DEF Keys
<1> QED BY <1>4, <1>5, <1>7, <1>8, <1>9, <1>10

LEMMA AddKeepsUnique ==
    ASSUME NEW K, NEW S, NEW d, WellFormed(d, K, S), NEW k \in K, NEW n \in S,
           UniqueKeys(d), k \notin Keys(d)
    PROVE  UniqueKeys(add(d, k, n))
<1>1. /\ d.value \in Seq(Entries(K, S)) /\ Len(d.value) \in Nat
      /\ DOMAIN d.value = 1..Len(d.value)
      /\ d \in Fields(Entered(K, S), Indexes(K))
      /\ IndexAgrees(d)
  BY DictionaryFields
<1>2. add(d, k, n).value = Append(d.value, [key |-> k, node |-> n])
  BY <1>1, SMT DEF add, Entry, Fields
<1>3. \A i \in DOMAIN d.value : d.value[i].key # k
  BY DEF Keys
<1> QED BY <1>1, <1>2, <1>3 DEF UniqueKeys, Entries

LEMMA ContainsKeys ==
    ASSUME NEW K, NEW S, NEW d, WellFormed(d, K, S), NEW k
    PROVE  contains(d, k) <=> k \in Keys(d)
BY DictionaryFields DEF contains

\* What mergeOverrides() builds a mapping with keeps one entry to a key and
\* disturbs no other key.
THEOREM UpsertCorrect ==
    ASSUME NEW K, NEW S, NEW d, WellFormed(d, K, S), NEW k \in K, NEW n \in S
    PROVE  /\ WellFormed(upsertDictEntry(d, k, n), K, S)
           /\ Keys(upsertDictEntry(d, k, n)) = Keys(d) \union {k}
           /\ at(upsertDictEntry(d, k, n), k) = n
           /\ \A j \in Keys(d) \ {k} : at(upsertDictEntry(d, k, n), j) = at(d, j)
           /\ UniqueKeys(d) => UniqueKeys(upsertDictEntry(d, k, n))
<1>1. CASE contains(d, k)
  <2>1. k \in Keys(d) /\ upsertDictEntry(d, k, n) = assign(d, k, n)
    BY <1>1, ContainsKeys DEF upsertDictEntry
  <2>2. DOMAIN assign(d, k, n).value = DOMAIN d.value
    BY <2>1, AssignCorrect, DictionaryFields
  <2>3. UniqueKeys(d) => UniqueKeys(assign(d, k, n))
    BY <2>1, <2>2, AssignCorrect DEF UniqueKeys
  <2> QED BY <2>1, <2>3, AssignCorrect
<1>2. CASE ~contains(d, k)
  <2>1. upsertDictEntry(d, k, n) = add(d, k, n) /\ k \notin Keys(d)
    BY <1>2, ContainsKeys DEF upsertDictEntry
  <2> QED BY <2>1, AddCorrect, AddKeepsUnique
<1> QED BY <1>1, <1>2

\* A key of several mappings keeps the value of the first.
THEOREM AddIfAbsentCorrect ==
    ASSUME NEW K, NEW S, NEW d, WellFormed(d, K, S), NEW e \in Entries(K, S)
    PROVE  /\ WellFormed(addIfAbsent(d, e), K, S)
           /\ Keys(addIfAbsent(d, e)) = Keys(d) \union {e.key}
           /\ e.key \notin Keys(d) => at(addIfAbsent(d, e), e.key) = e.node
           /\ \A j \in Keys(d) : at(addIfAbsent(d, e), j) = at(d, j)
           /\ UniqueKeys(d) => UniqueKeys(addIfAbsent(d, e))
<1>0. e.key \in K /\ e.node \in S
  BY DEF Entries
<1>1. CASE contains(d, e.key)
  BY <1>1, ContainsKeys DEF addIfAbsent
<1>2. CASE ~contains(d, e.key)
  <2>1. addIfAbsent(d, e) = add(d, e.key, e.node) /\ e.key \notin Keys(d)
    BY <1>2, ContainsKeys DEF addIfAbsent
  <2> QED BY <2>1, <1>0, AddCorrect, AddKeepsUnique
<1> QED BY <1>1, <1>2

\* The linear search of a StaticDictionary and the index of a Dictionary find the
\* same node where each key has one entry.
THEOREM StaticFindsTheSame ==
    ASSUME NEW K, NEW S, NEW d, WellFormed(d, K, S), UniqueKeys(d),
           NEW held, held.value = d.value, NEW k \in K
    PROVE  /\ staticContains(held, k) <=> contains(d, k)
           /\ contains(d, k) => staticAt(held, k) = at(d, k)
<1>0. /\ DOMAIN d.value = 1..Len(d.value) /\ Len(d.value) \in Nat /\ IndexAgrees(d)
  BY DictionaryFields
<1>1. CASE contains(d, k)
  <2> DEFINE Leads(i) == /\ held.value[i].key = k
                         /\ \A j \in 1..(i - 1) : held.value[j].key # k
  <2>1. /\ d.index[k] \in DOMAIN d.value /\ d.value[d.index[k]].key = k
    BY <1>0, <1>1 DEF contains, IndexAgrees
  <2>2. \A i \in DOMAIN d.value : d.value[i].key = k => i = d.index[k]
    BY <2>1 DEF UniqueKeys
  <2>3. Leads(d.index[k])
    BY <1>0, <2>1, <2>2
  <2>4. \A i \in DOMAIN held.value : Leads(i) => i = d.index[k]
    BY <2>2
  <2>5. findIndex(held, k) = CHOOSE i \in DOMAIN held.value : Leads(i)
    BY <2>1 DEF findIndex
  <2> HIDE DEF Leads
  <2>6. findIndex(held, k) = d.index[k]
    BY <2>1, <2>3, <2>4, <2>5
  <2> QED BY <2>6, <2>1, <1>0, <1>1 DEF staticContains, staticAt, at, findKey
<1>2. CASE ~contains(d, k)
  <2>1. \A i \in DOMAIN held.value : held.value[i].key # k
    BY <1>0, <1>2 DEF contains, IndexAgrees
  <2>2. findIndex(held, k) = Len(d.value) + 1
    BY <2>1 DEF findIndex
  <2> QED BY <2>2, <1>0, <1>2 DEF staticContains
<1> QED BY <1>1, <1>2

-----------------------------------------------------------------------------
(* mergeOverrides().  A is the set of the calls that returned.                 *)

Results(A) == {a.result : a \in A}
Answered(A, root, result) ==
    IF HasOverride(root) THEN [root |-> root, result |-> result] \in A ELSE result = root

Merging(A, d) == WellFormed(d, Names, Nodes \union Results(A)) /\ UniqueKeys(d)

Frame(base) ==
    [root : Nodes, base : {base}, elements : Seq(Nodes), entries : Seq(Entries(Names, Nodes)),
     overrideKeys : SUBSET Names]

\* The number of mappings that were taken up, the last of them perhaps with entries
\* left; the entries, and their keys, that were given to the base.
Taken(f) == Len(Sources(f.root)) - Len(f.elements)
Given(f, i, m) ==
    /\ i \in 1..Taken(f) /\ m \in DOMAIN Sources(f.root)[i].value
    /\ i = Taken(f) => m <= Len(Sources(f.root)[i].value) - Len(f.entries)
GivenKeys(f) ==
    {k \in Names : \E i \in 1..Taken(f) : \E m \in DOMAIN Sources(f.root)[i].value :
        Given(f, i, m) /\ Sources(f.root)[i].value[m].key = k}

Fresh(f) == Explicit(f.root) \ f.overrideKeys

\* What is left of the sequence is its end, what is left of a mapping the end of it.
Rest(f) ==
    LET sources == Sources(f.root)
        n == Taken(f)
    IN  /\ Len(f.elements) <= Len(sources)
        /\ \A i \in DOMAIN f.elements : f.elements[i] = sources[n + i]
        /\ \A i \in 1..Taken(f) : isDictionary(sources[i])
        /\ f.entries # <<>> =>
             /\ n >= 1
             /\ Len(f.entries) <= Len(sources[n].value)
             /\ \A i \in DOMAIN f.entries :
                  f.entries[i] = sources[n].value[Len(sources[n].value) - Len(f.entries) + i]
        /\ f.entries # <<>> \/ f.elements # <<>> => f.overrideKeys = Explicit(f.root)

\* The explicit keys that were put on the base have their values, the others the
\* value of the first mapping that has them.
Merged(A, f) ==
    LET sources == Sources(f.root)
    IN  /\ Keys(f.base) = Fresh(f) \union GivenKeys(f)
        /\ \A k \in Fresh(f) : Answered(A, at(f.root, k), at(f.base, k))
        /\ \A i \in 1..Taken(f) : \A m \in DOMAIN sources[i].value :
             LET entry == sources[i].value[m]
             IN  Given(f, i, m) /\ entry.key \notin Fresh(f) /\ FirstWith(sources, i, entry.key)
                     => at(f.base, entry.key) = entry.node

FrameInv(A, f) ==
    /\ f \in Frame(f.base)
    /\ HasOverride(f.root)
    /\ f.overrideKeys \subseteq Explicit(f.root)
    /\ Merging(A, f.base)
    /\ Rest(f)
    /\ Merged(A, f)

AnswerInv(A, a) ==
    LET sources == Sources(a.root)
    IN  /\ a \in [root : Nodes, result : {a.result}]
        /\ Merging(A, a.result)
        /\ \A k \in Explicit(a.root) : Answered(A, at(a.root, k), at(a.result, k))
        /\ \A i \in DOMAIN sources :
             /\ isDictionary(sources[i])
             /\ \A k \in Keys(sources[i]) \ Explicit(a.root) :
                  FirstWith(sources, i, k) => at(a.result, k) = at(sources[i], k)
        /\ Keys(a.result) =
             Explicit(a.root) \union UNION {Keys(sources[i]) : i \in DOMAIN sources}

\* Every call but the innermost one waits for the value of its first key.
Waits(f, callee) ==
    /\ f.elements = <<>> /\ f.entries = <<>>
    /\ \E k \in f.overrideKeys : First(k, f.overrideKeys) /\ callee.root = at(f.root, k)

Stack(c, A, root) ==
    /\ c \in Seq({c[i] : i \in DOMAIN c})
    /\ c # <<>> => c[1].root = root
    /\ \A i \in DOMAIN c : FrameInv(A, c[i])
    /\ \A i \in 1..(Len(c) - 1) : Waits(c[i], c[i + 1])

IInv ==
    /\ read \in Nodes
    /\ status \in {"read", "merging", "merged", "thrown"}
    /\ status = "merging" <=> calls # <<>>
    /\ status # "merged" => overrideRoot = read
    /\ status = "merged" => Answered(answers, read, overrideRoot)
    /\ Stack(calls, answers, read)
    /\ \A a \in answers : AnswerInv(answers, a)
-----------------------------------------------------------------------------
LEMMA AtIsNode ==
    ASSUME NEW K, NEW S, NEW d, WellFormed(d, K, S), NEW k \in Keys(d)
    PROVE  /\ at(d, k) \in S
           /\ \A i \in DOMAIN d.value :
                UniqueKeys(d) /\ d.value[i].key = k => at(d, k) = d.value[i].node
<1>1. /\ k \in DOMAIN d.index /\ IndexAgrees(d)
      /\ \A i \in DOMAIN d.value : d.value[i] \in Entries(K, S)
  BY DictionaryFields
<1>2. d.index[k] \in DOMAIN d.value /\ d.value[d.index[k]].key = k
  BY <1>1 DEF IndexAgrees
<1>3. d.value[d.index[k]].node \in S
  BY <1>1, <1>2 DEF Entries
<1>4. \A i \in DOMAIN d.value : UniqueKeys(d) /\ d.value[i].key = k => i = d.index[k]
  BY <1>2 DEF UniqueKeys
<1> QED BY <1>3, <1>4 DEF at, findKey

LEMMA NodesFields ==
    ASSUME NEW n \in Nodes, isDictionary(n)
    PROVE  /\ WellFormed(n, Names, Nodes) /\ UniqueKeys(n) /\ Keys(n) \subseteq Names
           /\ n.value \in Seq(Entries(Names, Nodes))
           /\ \A k \in Keys(n) : at(n, k) \in Nodes
<1>1. WellFormed(n, Names, Nodes) /\ UniqueKeys(n)
  BY NodesAssumption
<1> QED BY <1>1, DictionaryFields, AtIsNode

LEMMA SourcesFields ==
    ASSUME NEW n \in Nodes, HasOverride(n)
    PROVE  /\ isDictionary(n) /\ Explicit(n) \subseteq Names
           /\ Override(n) \in Nodes
           /\ Sources(n) \in Seq(Nodes)
           /\ \A k \in Explicit(n) : at(n, k) \in Nodes
           /\ isDictionary(Override(n)) => Sources(n) = <<Override(n)>>
           /\ ~isDictionary(Override(n)) => Sources(n) = Override(n).value
<1>1. isDictionary(n) /\ contains(n, kOverride)
  BY DEF HasOverride
<1>2. kOverride \in Keys(n)
  BY <1>1, NodesFields, ContainsKeys
<1>3. Override(n) \in Nodes
  BY <1>1, <1>2, NodesFields DEF Override
<1>4. CASE isDictionary(Override(n))
  BY <1>1, <1>3, <1>4, NodesFields DEF Sources, Explicit
<1>5. CASE ~isDictionary(Override(n))
  <2>1. isArray(Override(n))
    BY <1>5 DEF HasOverride
  <2>2. Override(n).value \in Seq(Nodes)
    BY <1>3, <2>1, NodesAssumption DEF WellFormedArray
  <2> QED BY <1>1, <1>3, <1>5, <2>2, NodesFields DEF Sources, Explicit
<1> QED BY <1>4, <1>5

LEMMA WellFormedGrows ==
    ASSUME NEW K, NEW S, NEW T, S \subseteq T, NEW d, WellFormed(d, K, S)
    PROVE  WellFormed(d, K, T)
<1>1. d.value \in Seq(Entries(K, T))
  <2>1. d.value \in Seq(Entries(K, S)) /\ Entries(K, S) \subseteq Entries(K, T)
    BY DEF WellFormed, Entries
  <2> QED BY <2>1
<1>2. d \in [type : {"dictionary"}, text : {0}, value : Seq(Entries(K, T)), index : {d.index}]
  BY <1>1 DEF WellFormed
<1> QED BY <1>2 DEF WellFormed

LEMMA InvGrows ==
    ASSUME NEW A, NEW B, A \subseteq B
    PROVE  /\ \A r, x : Answered(A, r, x) => Answered(B, r, x)
           /\ \A d : Merging(A, d) => Merging(B, d)
           /\ \A f : FrameInv(A, f) => FrameInv(B, f)
           /\ \A a : AnswerInv(A, a) => AnswerInv(B, a)
<1>1. \A r, x : Answered(A, r, x) => Answered(B, r, x)
  BY DEF Answered
<1>2. ASSUME NEW d, Merging(A, d) PROVE Merging(B, d)
  <2>1. Nodes \union Results(A) \subseteq Nodes \union Results(B)
    BY DEF Results
  <2> QED BY <2>1, <1>2, WellFormedGrows DEF Merging
<1>3. ASSUME NEW f, FrameInv(A, f) PROVE FrameInv(B, f)
  BY <1>1, <1>2, <1>3 DEF FrameInv, Merged
<1>4. ASSUME NEW a, AnswerInv(A, a) PROVE AnswerInv(B, a)
  BY <1>1, <1>2, <1>4 DEF AnswerInv
<1> QED BY <1>1, <1>2, <1>3, <1>4

LEMMA EmptyIsMerging ==
    ASSUME NEW A
    PROVE  Merging(A, EmptyDictionary) /\ Keys(EmptyDictionary) = {}
<1>1. /\ EmptyDictionary.value = <<>> /\ EmptyDictionary.index = <<>>
      /\ EmptyDictionary = [type |-> "dictionary", text |-> 0, value |-> <<>>, index |-> <<>>]
  BY DEF EmptyDictionary, Node
<1>2. Keys(EmptyDictionary) = {}
  BY <1>1 DEF Keys
<1>3. EmptyDictionary.index \in [Keys(EmptyDictionary) -> Nat]
  BY <1>1, <1>2
<1>4. IndexAgrees(EmptyDictionary) /\ UniqueKeys(EmptyDictionary)
  BY <1>1 DEF IndexAgrees, UniqueKeys
<1>5. EmptyDictionary \in [type : {"dictionary"}, text : {0},
          value : Seq(Entries(Names, Nodes \union Results(A))), index : {EmptyDictionary.index}]
  BY <1>1
<1> QED BY <1>2, <1>3, <1>4, <1>5 DEF Merging, WellFormed

LEMMA CallCorrect ==
    ASSUME NEW A, NEW n \in Nodes, HasOverride(n)
    PROVE  FrameInv(A, Call(n)) /\ Call(n).root = n
<1> DEFINE f == Call(n)
           o == Override(n)
<1>0. /\ Explicit(n) \subseteq Names /\ o \in Nodes /\ Sources(n) \in Seq(Nodes)
      /\ isDictionary(o) => Sources(n) = <<o>>
      /\ ~isDictionary(o) => Sources(n) = o.value
  BY SourcesFields
<1>1. /\ f.root = n /\ f.entries = <<>> /\ f.overrideKeys = Explicit(n)
      /\ f.base = IF isDictionary(o) THEN o ELSE EmptyDictionary
      /\ f.elements = IF isDictionary(o) THEN <<>> ELSE o.value
      /\ f = [root |-> f.root, base |-> f.base, elements |-> f.elements,
              entries |-> f.entries, overrideKeys |-> f.overrideKeys]
  BY DEF Call
<1> HIDE DEF f
<1>2. f.elements \in Seq(Nodes) /\ f.entries \in Seq(Entries(Names, Nodes))
  BY <1>0, <1>1
<1>3. f \in Frame(f.base)
  BY <1>0, <1>1, <1>2 DEF Frame
<1>4. Fresh(f) = {}
  BY <1>1 DEF Fresh
<1>5. ASSUME isDictionary(o) PROVE FrameInv(A, f)
  <2>1. WellFormed(o, Names, Nodes) /\ UniqueKeys(o) /\ Keys(o) \subseteq Names
    BY <1>0, <1>5, NodesFields
  <2>2. Merging(A, o)
    BY <2>1, WellFormedGrows, Nodes \subseteq Nodes \union Results(A) DEF Merging
  <2>3. Taken(f) = 1 /\ Sources(n) = <<o>> /\ Sources(n)[1] = o /\ Len(Sources(n)) = 1
    BY <1>0, <1>1, <1>5 DEF Taken
  <2>4. \A m \in DOMAIN o.value : Given(f, 1, m)
    BY <1>1, <2>1, <2>3, DictionaryFields DEF Given
  <2>5. GivenKeys(f) = Keys(o)
    BY <1>1, <2>1, <2>3, <2>4 DEF GivenKeys, Keys
  <2>6. \A m \in DOMAIN o.value : at(o, o.value[m].key) = o.value[m].node
    BY <2>1, AtIsNode DEF Keys
  <2>7. Rest(f)
    BY <1>1, <1>5, <2>3 DEF Rest
  <2>8. Merged(A, f)
    BY <1>1, <1>4, <1>5, <2>3, <2>5, <2>6 DEF Merged
  <2> QED BY <1>0, <1>1, <1>3, <1>5, <2>2, <2>7, <2>8 DEF FrameInv
<1>6. ASSUME ~isDictionary(o) PROVE FrameInv(A, f)
  <2>1. Taken(f) = 0 /\ Sources(n) = f.elements
    BY <1>0, <1>1, <1>6 DEF Taken
  <2>2. GivenKeys(f) = {}
    BY <2>1 DEF GivenKeys
  <2>3. Rest(f)
    BY <1>0, <1>1, <2>1 DEF Rest
  <2>4. Merged(A, f)
    BY <1>1, <1>4, <1>6, <2>1, <2>2, EmptyIsMerging DEF Merged
  <2> QED BY <1>0, <1>1, <1>3, <1>6, <2>3, <2>4, EmptyIsMerging DEF FrameInv
<1> QED BY <1>1, <1>5, <1>6 DEF f

LEMMA FrameReplaced ==
    ASSUME NEW R, NEW B, NEW E, NEW T, NEW O,
           NEW f \in [root : R, base : B, elements : E, entries : T, overrideKeys : O],
           NEW e \in E, NEW t \in T, NEW b, NEW o
    PROVE  /\ LET g == [f EXCEPT !.elements = e, !.entries = t]
              IN  /\ g \in [root : R, base : B, elements : E, entries : T, overrideKeys : O]
                  /\ g.root = f.root /\ g.base = f.base /\ g.overrideKeys = f.overrideKeys
                  /\ g.elements = e /\ g.entries = t
           /\ LET g == [f EXCEPT !.entries = t, !.base = b]
              IN  /\ g \in [root : R, base : {b}, elements : E, entries : T, overrideKeys : O]
                  /\ g.root = f.root /\ g.base = b /\ g.overrideKeys = f.overrideKeys
                  /\ g.elements = f.elements /\ g.entries = t
           /\ LET g == [f EXCEPT !.base = b, !.overrideKeys = o]
              IN  /\ g \in [root : R, base : {b}, elements : E, entries : T, overrideKeys : {o}]
                  /\ g.root = f.root /\ g.base = b /\ g.overrideKeys = o
                  /\ g.elements = f.elements /\ g.entries = f.entries
<1>1. LET g == [f EXCEPT !.elements = e, !.entries = t]
      IN  /\ g \in [root : R, base : B, elements : E, entries : T, overrideKeys : O]
          /\ g.root = f.root /\ g.base = f.base /\ g.overrideKeys = f.overrideKeys
          /\ g.elements = e /\ g.entries = t
  OBVIOUS
<1>2. LET g == [f EXCEPT !.entries = t, !.base = b]
      IN  /\ g \in [root : R, base : {b}, elements : E, entries : T, overrideKeys : O]
          /\ g.root = f.root /\ g.base = b /\ g.overrideKeys = f.overrideKeys
          /\ g.elements = f.elements /\ g.entries = t
  OBVIOUS
<1>3. LET g == [f EXCEPT !.base = b, !.overrideKeys = o]
      IN  /\ g \in [root : R, base : {b}, elements : E, entries : T, overrideKeys : {o}]
          /\ g.root = f.root /\ g.base = b /\ g.overrideKeys = o
          /\ g.elements = f.elements /\ g.entries = f.entries
  OBVIOUS
<1> QED BY <1>1, <1>2, <1>3

LEMMA FrameFields ==
    ASSUME NEW A, NEW f, FrameInv(A, f)
    PROVE  /\ f \in Frame(f.base) /\ HasOverride(f.root) /\ Merging(A, f.base)
           /\ f.overrideKeys \subseteq Explicit(f.root) /\ Explicit(f.root) \subseteq Names
           /\ f.root \in Nodes /\ f.elements \in Seq(Nodes)
           /\ f.entries \in Seq(Entries(Names, Nodes))
           /\ Sources(f.root) \in Seq(Nodes)
           /\ Taken(f) \in Nat /\ Len(Sources(f.root)) = Taken(f) + Len(f.elements)
           /\ \A i \in 1..Taken(f) :
                /\ i \in DOMAIN Sources(f.root) /\ Sources(f.root)[i] \in Nodes
                /\ isDictionary(Sources(f.root)[i])
                /\ Sources(f.root)[i].value \in Seq(Entries(Names, Nodes))
<1>1. /\ f \in Frame(f.base) /\ HasOverride(f.root) /\ Merging(A, f.base)
      /\ f.overrideKeys \subseteq Explicit(f.root) /\ Rest(f)
  BY DEF FrameInv
<1>2. f.root \in Nodes /\ f.elements \in Seq(Nodes) /\ f.entries \in Seq(Entries(Names, Nodes))
  BY <1>1 DEF Frame
<1>3. Sources(f.root) \in Seq(Nodes) /\ Explicit(f.root) \subseteq Names
  BY <1>1, <1>2, SourcesFields
<1>4. Len(f.elements) <= Len(Sources(f.root))
  BY <1>1 DEF Rest
<1>5. Taken(f) \in Nat /\ Len(Sources(f.root)) = Taken(f) + Len(f.elements)
  BY <1>2, <1>3, <1>4 DEF Taken
<1>6. ASSUME NEW i \in 1..Taken(f)
      PROVE  /\ i \in DOMAIN Sources(f.root) /\ Sources(f.root)[i] \in Nodes
             /\ isDictionary(Sources(f.root)[i])
             /\ Sources(f.root)[i].value \in Seq(Entries(Names, Nodes))
  <2>1. i \in DOMAIN Sources(f.root) /\ Sources(f.root)[i] \in Nodes
    BY <1>2, <1>3, <1>5
  <2>2. isDictionary(Sources(f.root)[i])
    BY <1>1 DEF Rest
  <2> QED BY <2>1, <2>2, NodesFields
<1> QED BY <1>1, <1>2, <1>3, <1>5, <1>6

LEMMA ElementCorrect ==
    ASSUME NEW A, NEW f, FrameInv(A, f), f.entries = <<>>, f.elements # <<>>,
           isDictionary(Head(f.elements))
    PROVE  LET g == [f EXCEPT !.elements = Tail(f.elements),
                              !.entries = Head(f.elements).value]
           IN  FrameInv(A, g) /\ g.root = f.root
<1> DEFINE g == [f EXCEPT !.elements = Tail(f.elements), !.entries = Head(f.elements).value]
           sources == Sources(f.root)
           n == Taken(f)
           next == Head(f.elements)
<1>1. /\ f \in Frame(f.base) /\ f.elements \in Seq(Nodes) /\ sources \in Seq(Nodes)
      /\ n \in Nat /\ Len(sources) = n + Len(f.elements)
  BY FrameFields
<1>2. n \in Nat
  BY <1>1
<1>3. next = sources[n + 1]
  <2>1. \A i \in DOMAIN f.elements : f.elements[i] = sources[n + i]
    BY DEF FrameInv, Rest
  <2>2. next = f.elements[1] /\ 1 \in DOMAIN f.elements
    BY <1>1
  <2> QED BY <2>1, <2>2
<1>4. next \in Nodes /\ isDictionary(next) /\ next.value \in Seq(Entries(Names, Nodes))
  BY <1>1, NodesFields
<1>5. /\ g.root = f.root /\ g.base = f.base /\ g.overrideKeys = f.overrideKeys
      /\ g.elements = Tail(f.elements) /\ g.entries = next.value
      /\ g \in Frame(f.base)
  <2>1. Tail(f.elements) \in Seq(Nodes)
    BY <1>1
  <2>2. f \in [root : Nodes, base : {f.base}, elements : Seq(Nodes),
               entries : Seq(Entries(Names, Nodes)), overrideKeys : SUBSET Names]
    BY <1>1 DEF Frame
  <2> HIDE DEF next
  <2> QED BY <1>4, <2>1, <2>2, FrameReplaced DEF Frame, next
<1> HIDE DEF g, sources, n, next
<1>6. Len(g.elements) = Len(f.elements) - 1 /\ Len(f.elements) \in Nat \ {0}
      /\ \A i \in DOMAIN g.elements : i + 1 \in DOMAIN f.elements /\ g.elements[i] = f.elements[i + 1]
  BY <1>1, <1>5
<1>7. Taken(g) = n + 1
  <2>1. Taken(g) = Len(sources) - Len(g.elements)
    BY <1>5 DEF Taken, sources
  <2>2. Len(sources) = n + Len(f.elements) /\ Len(f.elements) \in Nat
    BY <1>1
  <2>3. Len(g.elements) = Len(f.elements) - 1
    BY <1>6
  <2> QED BY <2>1, <2>2, <2>3, <1>2 DEF n
<1>8. Fresh(g) = Fresh(f)
  BY <1>5 DEF Fresh
<1>9. Rest(g)
  <2>1. \A i \in DOMAIN g.elements : g.elements[i] = sources[n + 1 + i]
    <3> SUFFICES ASSUME NEW i \in DOMAIN g.elements PROVE g.elements[i] = sources[n + 1 + i]
      OBVIOUS
    <3>1. \A j \in DOMAIN f.elements : f.elements[j] = sources[n + j]
      BY DEF FrameInv, Rest, sources, n
    <3>2. i \in Nat
      BY <1>1, <1>5
    <3>3. n + (i + 1) = n + 1 + i
      BY <1>2, <3>2
    <3> QED BY <3>1, <3>3, <1>6
  <2>2. \A i \in 1..(n + 1) : isDictionary(sources[i])
    <3>1. \A i \in 1..n : isDictionary(sources[i])
      BY FrameFields DEF sources, n
    <3>2. isDictionary(sources[n + 1])
      BY <1>3, <1>4
    <3> QED BY <1>2, <3>1, <3>2
  <2>3. f.overrideKeys = Explicit(f.root)
    BY DEF FrameInv, Rest
  <2>4. Len(g.elements) <= Len(sources)
    BY <1>1, <1>6
  <2>5. /\ n + 1 >= 1 /\ Len(g.entries) <= Len(next.value)
        /\ \A i \in DOMAIN g.entries :
             g.entries[i] = next.value[Len(next.value) - Len(g.entries) + i]
    BY <1>2, <1>4, <1>5
  <2>6. Len(g.elements) <= Len(Sources(g.root)) /\ Taken(g) >= 1
    BY <1>5, <1>7, <2>4, <2>5 DEF sources
  <2>7. /\ \A i \in DOMAIN g.elements : g.elements[i] = Sources(g.root)[Taken(g) + i]
        /\ \A i \in 1..Taken(g) : isDictionary(Sources(g.root)[i])
        /\ Sources(g.root)[Taken(g)] = next
    BY <1>3, <1>5, <1>7, <2>1, <2>2 DEF sources
  <2>8. g.overrideKeys = Explicit(g.root)
    BY <1>5, <2>3
  <2> QED BY <2>5, <2>6, <2>7, <2>8 DEF Rest
<1>10. \A i \in 1..(n + 1) : \A m \in DOMAIN sources[i].value :
        Given(g, i, m) <=> Given(f, i, m)
  <2> SUFFICES ASSUME NEW i \in 1..(n + 1), NEW m \in DOMAIN sources[i].value
               PROVE  Given(g, i, m) <=> Given(f, i, m)
    OBVIOUS
  <2>1. CASE i = n + 1
    <3>1. ~(i \in 1..n)
      BY <2>1, <1>2
    <3>2. ~Given(f, i, m)
      BY <3>1 DEF Given, n
    <3>3. m \in DOMAIN next.value
      BY <2>1, <1>3
    <3>4. ~(m <= Len(next.value) - Len(g.entries))
      BY <3>3, <1>4, <1>5
    <3>5. ~Given(g, i, m)
      BY <2>1, <3>4, <1>3, <1>5, <1>7 DEF Given, sources
    <3> QED BY <3>2, <3>5
  <2>2. CASE i \in 1..n
    <3>1. sources[i].value \in Seq(Entries(Names, Nodes))
      BY <2>2, FrameFields DEF sources, n
    <3>2. m <= Len(sources[i].value) - Len(f.entries)
      BY <3>1
    <3>3. Given(f, i, m)
      BY <2>2, <3>2 DEF Given, sources, n
    <3>4. i # n + 1 /\ i \in 1..(n + 1)
      BY <2>2, <1>2
    <3>5. Given(g, i, m)
      BY <3>4, <1>5, <1>7 DEF Given, sources
    <3> QED BY <3>3, <3>5
  <2> QED BY <2>1, <2>2, <1>2
<1>11. \A i, m : Given(f, i, m) => i \in 1..n /\ i \in 1..(n + 1) /\ m \in DOMAIN sources[i].value
  BY <1>2 DEF Given, n, sources
<1>12. GivenKeys(g) = GivenKeys(f)
  BY <1>5, <1>7, <1>10, <1>11 DEF GivenKeys, n, sources
<1>13. Merged(A, f)
  BY DEF FrameInv
<1>14. Merged(A, g)
  <2>1. Keys(g.base) = Fresh(g) \union GivenKeys(g)
    BY <1>5, <1>8, <1>12, <1>13 DEF Merged
  <2>2. \A k \in Fresh(g) : Answered(A, at(g.root, k), at(g.base, k))
    BY <1>5, <1>8, <1>13 DEF Merged
  <2>3. ASSUME NEW i \in 1..(n + 1), NEW m \in DOMAIN sources[i].value, Given(g, i, m),
               sources[i].value[m].key \notin Fresh(g),
               FirstWith(sources, i, sources[i].value[m].key)
        PROVE  at(g.base, sources[i].value[m].key) = sources[i].value[m].node
    BY <2>3, <1>5, <1>8, <1>10, <1>11, <1>13 DEF Merged, sources, n
  <2> QED BY <2>1, <2>2, <2>3, <1>5, <1>7 DEF Merged, sources
<1>15. g.overrideKeys \subseteq Explicit(g.root) /\ HasOverride(g.root) /\ Merging(A, g.base)
  BY <1>5, FrameFields
<1> QED BY <1>5, <1>9, <1>14, <1>15 DEF FrameInv, g

\* Where the rest of a mapping begins.
LEMMA TakenUp ==
    ASSUME NEW L \in Nat, NEW r \in Nat, r >= 1, r <= L
    PROVE  /\ L - r + 1 \in 1..L /\ L - r + 1 = L - (r - 1) /\ r - 1 <= L
           /\ \A i \in Nat : L - r + (i + 1) = L - (r - 1) + i
           /\ \A m \in Nat : m <= L - (r - 1) <=> m <= L - r \/ m = L - r + 1
OBVIOUS

LEMMA EntryCorrect ==
    ASSUME NEW A, NEW f, FrameInv(A, f), f.entries # <<>>
    PROVE  LET g == [f EXCEPT !.entries = Tail(f.entries),
                              !.base = addIfAbsent(f.base, Head(f.entries))]
           IN  FrameInv(A, g) /\ g.root = f.root
<1> DEFINE e == Head(f.entries)
           b == addIfAbsent(f.base, e)
           g == [f EXCEPT !.entries = Tail(f.entries), !.base = b]
           sources == Sources(f.root)
           n == Taken(f)
           values == sources[n].value
           m0 == Len(values) - Len(f.entries) + 1
           S == Nodes \union Results(A)
<1>1. /\ f \in Frame(f.base) /\ f.entries \in Seq(Entries(Names, Nodes)) /\ n \in Nat
      /\ WellFormed(f.base, Names, S) /\ UniqueKeys(f.base)
  BY FrameFields DEF Merging
<1>2. /\ n >= 1 /\ Len(f.entries) <= Len(values)
      /\ \A i \in DOMAIN f.entries : f.entries[i] = values[Len(values) - Len(f.entries) + i]
      /\ f.overrideKeys = Explicit(f.root)
  BY DEF FrameInv, Rest
<1>3. n \in 1..n /\ values \in Seq(Entries(Names, Nodes)) /\ isDictionary(sources[n])
      /\ sources[n] \in Nodes /\ UniqueKeys(sources[n])
  <2>1. n \in 1..n
    BY <1>1, <1>2
  <2> QED BY <2>1, FrameFields, NodesFields
<1>4. e \in Entries(Names, Nodes) /\ e \in Entries(Names, S) /\ e.key \in Names
  <2>1. e \in Entries(Names, Nodes)
    BY <1>1
  <2> QED BY <2>1 DEF Entries
<1>5. /\ WellFormed(b, Names, S) /\ UniqueKeys(b) /\ Keys(b) = Keys(f.base) \union {e.key}
      /\ e.key \notin Keys(f.base) => at(b, e.key) = e.node
      /\ \A j \in Keys(f.base) : at(b, j) = at(f.base, j)
  BY <1>1, <1>4, AddIfAbsentCorrect
<1>6. /\ g.root = f.root /\ g.base = b /\ g.overrideKeys = f.overrideKeys
      /\ g.elements = f.elements /\ g.entries = Tail(f.entries) /\ g \in Frame(b)
  <2>1. Tail(f.entries) \in Seq(Entries(Names, Nodes))
    BY <1>1
  <2>2. f \in [root : Nodes, base : {f.base}, elements : Seq(Nodes),
               entries : Seq(Entries(Names, Nodes)), overrideKeys : SUBSET Names]
    BY <1>1 DEF Frame
  <2> HIDE DEF b
  <2>3. f.elements \in Seq(Nodes)
    BY FrameFields
  <2> QED BY <2>1, <2>2, <2>3, FrameReplaced DEF Frame
<1> HIDE DEF g, b
<1>7. /\ g.entries \in Seq(Entries(Names, Nodes))
      /\ \A i \in DOMAIN g.entries : i + 1 \in DOMAIN f.entries /\ g.entries[i] = f.entries[i + 1]
  BY <1>1, <1>6
<1>8. Len(g.entries) = Len(f.entries) - 1
  BY <1>1, <1>6
<1>9. /\ m0 \in 1..Len(values) /\ m0 = Len(values) - Len(g.entries)
       /\ Len(g.entries) <= Len(values)
       /\ \A i \in Nat : Len(values) - Len(f.entries) + (i + 1) = Len(values) - Len(g.entries) + i
       /\ \A m \in Nat : m <= Len(values) - Len(g.entries)
                            <=> m <= Len(values) - Len(f.entries) \/ m = m0
  <2>1. Len(f.entries) \in Nat /\ Len(f.entries) >= 1 /\ Len(values) \in Nat
    BY <1>1, <1>3
  <2>2. Len(f.entries) <= Len(values)
    BY <1>2
  <2>3. /\ m0 \in 1..Len(values) /\ m0 = Len(values) - (Len(f.entries) - 1) /\ Len(f.entries) - 1 <= Len(values)
    BY <2>1, <2>2, TakenUp
  <2>4. /\ \A i \in Nat : Len(values) - Len(f.entries) + (i + 1) = Len(values) - (Len(f.entries) - 1) + i
       /\ \A m \in Nat : m <= Len(values) - (Len(f.entries)-1)
                            <=> m <= Len(values) - Len(f.entries) \/ m = m0
    BY <2>1, <2>2, TakenUp
  <2> QED BY <2>3, <2>4, <1>8
<1>10. m0 \in DOMAIN values /\ values[m0] = e /\ m0 = Len(values) - Len(g.entries)
  <2>1. e = f.entries[1] /\ 1 \in DOMAIN f.entries
    BY <1>1
  <2>2. values[m0] = e
    BY <2>1, <1>2
  <2>3. DOMAIN values = 1..Len(values)
    BY <1>3
  <2> QED BY <2>2, <2>3, <1>9
<1>11. Taken(g) = n /\ Fresh(g) = {} /\ Fresh(f) = {}
  BY <1>2, <1>6 DEF Taken, Fresh
<1>12. Rest(g)
  <2>1. Rest(f)
    BY DEF FrameInv
  <2>2. \A i \in DOMAIN g.entries : g.entries[i] = values[Len(values) - Len(g.entries) + i]
    <3> SUFFICES ASSUME NEW i \in DOMAIN g.entries
                 PROVE  g.entries[i] = values[Len(values) - Len(g.entries) + i]
      OBVIOUS
    <3>1. i \in Nat
      BY <1>7
    <3>2. g.entries[i] = values[Len(values) - Len(f.entries) + (i + 1)]
      BY <1>2, <1>7
    <3>3. Len(values) - Len(f.entries) + (i + 1) = Len(values) - Len(g.entries) + i
      BY <3>1, <1>9
    <3> QED BY <3>2, <3>3
  <2>3. Len(g.entries) <= Len(values)
    <3> QED BY <1>9
  <2> QED BY <2>1, <2>2, <2>3, <1>2, <1>6, <1>11 DEF Rest
<1>13. ASSUME NEW i \in 1..n, NEW m \in DOMAIN sources[i].value
       PROVE  Given(g, i, m) <=> Given(f, i, m) \/ (i = n /\ m = m0)
  <2>1. CASE i = n
    <3>1. m \in Nat
      BY <2>1, <1>3
    <3>2. m <= Len(values) - Len(g.entries) <=> m <= Len(values) - Len(f.entries) \/ m = m0
      <4> QED BY <3>1, <1>9
    <3> QED BY <2>1, <3>2, <1>6, <1>11 DEF Given
  <2>2. CASE i # n
    BY <2>2, <1>6, <1>11 DEF Given
  <2> QED BY <2>1, <2>2
<1>14. ~Given(f, n, m0)
  <2>1. ~(m0 <= Len(values) - Len(f.entries))
    <3> QED BY <1>1, <1>3
  <2> QED BY <2>1 DEF Given
<1>15. GivenKeys(g) = GivenKeys(f) \union {e.key}
  <2>1. ASSUME NEW k \in Names
        PROVE  k \in GivenKeys(g) <=> k \in GivenKeys(f) \/ k = e.key
    <3>1. k \in GivenKeys(g) <=>
            \E i \in 1..n : \E m \in DOMAIN sources[i].value :
                Given(g, i, m) /\ sources[i].value[m].key = k
      BY <1>6, <1>11 DEF GivenKeys
    <3>2. k \in GivenKeys(f) <=>
            \E i \in 1..n : \E m \in DOMAIN sources[i].value :
                Given(f, i, m) /\ sources[i].value[m].key = k
      BY DEF GivenKeys
    <3> QED BY <3>1, <3>2, <1>3, <1>10, <1>13
  <2>2. GivenKeys(g) \subseteq Names /\ GivenKeys(f) \subseteq Names
    BY DEF GivenKeys
  <2> QED BY <2>1, <2>2, <1>4
<1>16. Merged(A, f)
  BY DEF FrameInv
<1>17. Keys(f.base) = GivenKeys(f)
  BY <1>11, <1>16 DEF Merged
<1>18. ASSUME NEW i \in 1..n, NEW m \in DOMAIN sources[i].value, Given(g, i, m),
              FirstWith(sources, i, sources[i].value[m].key)
       PROVE  at(b, sources[i].value[m].key) = sources[i].value[m].node
  <2> DEFINE k == sources[i].value[m].key
  <2>1. CASE Given(f, i, m)
    <3>1. k \in Names
      <4>1. sources[i].value \in Seq(Entries(Names, Nodes))
        BY FrameFields
      <4>2. sources[i].value[m] \in Entries(Names, Nodes)
        BY <4>1
      <4> QED BY <4>2 DEF Entries
    <3>2. k \in Keys(f.base)
      BY <2>1, <3>1, <1>17 DEF GivenKeys
    <3>3. at(f.base, k) = sources[i].value[m].node
      BY <2>1, <1>11, <1>16, <1>18 DEF Merged
    <3> QED BY <3>2, <3>3, <1>5
  <2>2. CASE i = n /\ m = m0
    <3>1. k = e.key /\ sources[i].value[m] = e
      BY <2>2, <1>10
    <3>2. e.key \notin Keys(f.base)
      <4> SUFFICES ASSUME e.key \in GivenKeys(f) PROVE FALSE
        BY <1>17
      <4>1. PICK j \in 1..n : \E l \in DOMAIN sources[j].value :
              Given(f, j, l) /\ sources[j].value[l].key = e.key
        BY DEF GivenKeys
      <4>2. PICK l \in DOMAIN sources[j].value :
              Given(f, j, l) /\ sources[j].value[l].key = e.key
        BY <4>1
      <4>3. e.key \in Keys(sources[j])
        BY <4>2 DEF Keys
      <4>4. CASE j = n
        <5>1. l = m0
          BY <4>2, <4>4, <1>3, <1>10 DEF UniqueKeys
        <5> QED BY <4>2, <4>4, <5>1, <1>14
      <4>5. CASE j # n
        <5>1. j \in 1..(n - 1)
          BY <4>5, <1>1
        <5> QED BY <5>1, <4>3, <2>2, <3>1, <1>18 DEF FirstWith
      <4> QED BY <4>4, <4>5
    <3> QED BY <3>1, <3>2, <1>5
  <2> QED BY <2>1, <2>2, <1>13, <1>18
<1>19. Merged(A, g)
  <2>1. Keys(g.base) = Fresh(g) \union GivenKeys(g)
    BY <1>5, <1>6, <1>11, <1>15, <1>17
  <2>2. \A i \in 1..n : \A m \in DOMAIN sources[i].value :
          Given(g, i, m) /\ FirstWith(sources, i, sources[i].value[m].key)
              => at(b, sources[i].value[m].key) = sources[i].value[m].node
    BY <1>18
  <2> QED BY <2>1, <2>2, <1>6, <1>11 DEF Merged
<1>20. g.overrideKeys \subseteq Explicit(g.root) /\ HasOverride(g.root) /\ Merging(A, g.base)
  BY <1>5, <1>6, FrameFields DEF Merging
<1> QED BY <1>6, <1>12, <1>19, <1>20 DEF FrameInv, g, b

LEMMA AppliedCorrect ==
    ASSUME NEW A, NEW f, FrameInv(A, f), f.entries = <<>>, f.elements = <<>>,
           NEW k \in f.overrideKeys, NEW node \in Nodes \union Results(A),
           Answered(A, at(f.root, k), node)
    PROVE  FrameInv(A, Applied(f, k, node)) /\ Applied(f, k, node).root = f.root
<1> DEFINE b == upsertDictEntry(f.base, k, node)
           g == Applied(f, k, node)
           S == Nodes \union Results(A)
<1>1. /\ f \in Frame(f.base) /\ WellFormed(f.base, Names, S) /\ UniqueKeys(f.base)
      /\ k \in Explicit(f.root) /\ k \in Names /\ f.overrideKeys \subseteq Names
      /\ f.elements \in Seq(Nodes) /\ f.entries \in Seq(Entries(Names, Nodes))
  BY FrameFields DEF Merging
<1>2. /\ WellFormed(b, Names, S) /\ UniqueKeys(b) /\ Keys(b) = Keys(f.base) \union {k}
      /\ at(b, k) = node
      /\ \A j \in Keys(f.base) \ {k} : at(b, j) = at(f.base, j)
  BY <1>1, UpsertCorrect
<1>3. /\ g.root = f.root /\ g.base = b /\ g.overrideKeys = f.overrideKeys \ {k}
      /\ g.elements = f.elements /\ g.entries = f.entries /\ g \in Frame(b)
  <2>1. f \in [root : Nodes, base : {f.base}, elements : Seq(Nodes),
               entries : Seq(Entries(Names, Nodes)), overrideKeys : SUBSET Names]
    BY <1>1 DEF Frame
  <2> HIDE DEF b
  <2>2. g = [f EXCEPT !.base = b, !.overrideKeys = f.overrideKeys \ {k}]
    BY DEF Applied, b
  <2> HIDE DEF g
  <2>3. /\ g \in [root : Nodes, base : {b}, elements : Seq(Nodes),
                  entries : Seq(Entries(Names, Nodes)), overrideKeys : {f.overrideKeys \ {k}}]
        /\ g.root = f.root /\ g.base = b /\ g.overrideKeys = f.overrideKeys \ {k}
        /\ g.elements = f.elements /\ g.entries = f.entries
    BY <2>1, <2>2, <1>1, FrameReplaced
  <2>4. f.overrideKeys \ {k} \in SUBSET Names
    BY <1>1
  <2> QED BY <2>3, <2>4 DEF Frame
<1> HIDE DEF g, b
<1>4. Taken(g) = Taken(f) /\ Fresh(g) = Fresh(f) \union {k} /\ k \notin Fresh(f)
  BY <1>1, <1>3 DEF Taken, Fresh
<1>5. \A i, m : Given(g, i, m) <=> Given(f, i, m)
  BY <1>3, <1>4 DEF Given
<1>6. GivenKeys(g) = GivenKeys(f)
  BY <1>3, <1>4, <1>5 DEF GivenKeys
<1>7. Rest(f) /\ Merged(A, f)
  BY DEF FrameInv
<1>8. Rest(g)
  BY <1>3, <1>4, <1>7 DEF Rest
<1>9. Merged(A, g)
  <2>1. Keys(g.base) = Fresh(g) \union GivenKeys(g)
    BY <1>2, <1>3, <1>4, <1>6, <1>7 DEF Merged
  <2>2. ASSUME NEW j \in Fresh(g) PROVE Answered(A, at(g.root, j), at(g.base, j))
    <3>1. CASE j = k
      BY <3>1, <1>2, <1>3
    <3>2. CASE j # k
      <4>1. j \in Fresh(f) /\ j \in Keys(f.base)
        BY <2>2, <3>2, <1>4, <1>7 DEF Merged
      <4>2. Answered(A, at(f.root, j), at(f.base, j))
        BY <4>1, <1>7 DEF Merged
      <4> QED BY <4>1, <4>2, <3>2, <1>2, <1>3
    <3> QED BY <3>1, <3>2
  <2> DEFINE sources == Sources(f.root)
  <2>3. ASSUME NEW i \in 1..Taken(f), NEW m \in DOMAIN sources[i].value, Given(g, i, m),
               sources[i].value[m].key \notin Fresh(g),
               FirstWith(sources, i, sources[i].value[m].key)
        PROVE  at(g.base, sources[i].value[m].key) = sources[i].value[m].node
    <3> DEFINE j == sources[i].value[m].key
    <3>1. j \in Names
      <4>1. sources[i].value \in Seq(Entries(Names, Nodes))
        BY FrameFields
      <4>2. sources[i].value[m] \in Entries(Names, Nodes)
        BY <4>1
      <4> QED BY <4>2 DEF Entries
    <3>2. j \in GivenKeys(f) /\ j \notin Fresh(f) /\ j # k
      BY <2>3, <3>1, <1>4, <1>5 DEF GivenKeys
    <3>3. j \in Keys(f.base)
      BY <3>2, <1>7 DEF Merged
    <3>4. at(f.base, j) = sources[i].value[m].node
      BY <2>3, <3>2, <1>5, <1>7 DEF Merged
    <3> QED BY <3>2, <3>3, <3>4, <1>2, <1>3
  <2> QED BY <2>1, <2>2, <2>3, <1>3, <1>4 DEF Merged
<1>10. g.overrideKeys \subseteq Explicit(g.root) /\ HasOverride(g.root) /\ Merging(A, g.base)
  BY <1>2, <1>3, FrameFields DEF Merging
<1> QED BY <1>3, <1>8, <1>9, <1>10 DEF FrameInv, g

LEMMA ReturnCorrect ==
    ASSUME NEW A, NEW f, FrameInv(A, f), f.entries = <<>>, f.elements = <<>>,
           f.overrideKeys = {}
    PROVE  AnswerInv(A, [root |-> f.root, result |-> f.base])
<1> DEFINE a == [root |-> f.root, result |-> f.base]
           sources == Sources(f.root)
<1>1. a.root = f.root /\ a.result = f.base
  OBVIOUS
<1>2. /\ f.root \in Nodes /\ Merging(A, f.base) /\ Merged(A, f)
      /\ a \in [root : Nodes, result : {a.result}]
  BY FrameFields DEF FrameInv
<1>3. sources \in Seq(Nodes) /\ Taken(f) = Len(sources) /\ Fresh(f) = Explicit(f.root)
  BY FrameFields DEF Fresh
<1>4. DOMAIN sources = 1..Taken(f)
  BY <1>3
<1>5. \A i \in DOMAIN sources : isDictionary(sources[i]) /\ sources[i] \in Nodes
  BY <1>4, FrameFields
<1>6. \A i \in DOMAIN sources :
        /\ WellFormed(sources[i], Names, Nodes) /\ UniqueKeys(sources[i])
        /\ Keys(sources[i]) \subseteq Names /\ sources[i].value \in Seq(Entries(Names, Nodes))
  BY <1>5, NodesFields
<1>7. \A i \in DOMAIN sources : \A m \in DOMAIN sources[i].value : Given(f, i, m)
  <2> SUFFICES ASSUME NEW i \in DOMAIN sources, NEW m \in DOMAIN sources[i].value
               PROVE  Given(f, i, m)
    OBVIOUS
  <2>1. m <= Len(sources[i].value) - Len(f.entries)
    BY <1>6
  <2> QED BY <2>1, <1>4 DEF Given
<1>8. GivenKeys(f) = UNION {Keys(sources[i]) : i \in DOMAIN sources}
  <2>1. \A i \in DOMAIN sources : \A k : k \in Keys(sources[i]) <=>
          k \in Names /\ \E m \in DOMAIN sources[i].value : sources[i].value[m].key = k
    BY <1>6 DEF Keys
  <2> QED BY <2>1, <1>4, <1>7 DEF GivenKeys
<1>9. ASSUME NEW i \in DOMAIN sources, NEW k \in Keys(sources[i]) \ Explicit(f.root),
             FirstWith(sources, i, k)
      PROVE  at(f.base, k) = at(sources[i], k)
  <2>1. PICK m \in DOMAIN sources[i].value : sources[i].value[m].key = k
    BY DEF Keys
  <2>2. at(sources[i], k) = sources[i].value[m].node
    BY <2>1, <1>6, AtIsNode
  <2>3. at(f.base, k) = sources[i].value[m].node
    BY <2>1, <1>2, <1>3, <1>4, <1>7, <1>9 DEF Merged
  <2> QED BY <2>2, <2>3
<1>10. \A k \in Explicit(f.root) : Answered(A, at(f.root, k), at(f.base, k))
  BY <1>2, <1>3 DEF Merged
<1>11. Keys(f.base) = Explicit(f.root) \union UNION {Keys(sources[i]) : i \in DOMAIN sources}
  BY <1>2, <1>3, <1>8 DEF Merged
<1> HIDE DEF a
<1> QED BY <1>1, <1>2, <1>5, <1>9, <1>10, <1>11 DEF AnswerInv, a

LEMMA PopLast ==
    ASSUME NEW S, NEW c \in Seq(S), c # <<>>
    PROVE  /\ SubSeq(c, 1, Len(c) - 1) \in Seq(S)
           /\ Len(SubSeq(c, 1, Len(c) - 1)) = Len(c) - 1 /\ Len(c) - 1 \in Nat
           /\ \A i \in 1..(Len(c) - 1) : SubSeq(c, 1, Len(c) - 1)[i] = c[i]
<1> DEFINE n == Len(c) - 1
<1>1. n \in Nat /\ \A i \in 1..n : c[i] \in S
  OBVIOUS
<1> HIDE DEF n
<1>2. n <= Len(c)
  BY DEF n
<1>3. SubSeq(c, 1, n) \in Seq(S)
  BY <1>1, <1>2, SubSeqProperties
<1>4. Len(SubSeq(c, 1, n)) = (IF 1 <= n THEN n - 1 + 1 ELSE 0)
  BY <1>1, <1>2, SubSeqProperties
<1>5. \A i \in 1..(n - 1 + 1) : SubSeq(c, 1, n)[i] = c[1 + i - 1]
  BY <1>1, <1>2, SubSeqProperties
<1>6. Len(SubSeq(c, 1, n)) = n
  BY <1>1, <1>4
<1>7. \A i \in 1..n : SubSeq(c, 1, n)[i] = c[i]
  <2> SUFFICES ASSUME NEW i \in 1..n PROVE SubSeq(c, 1, n)[i] = c[i]
    OBVIOUS
  <2>1. i \in 1..(n - 1 + 1) /\ 1 + i - 1 = i
    BY <1>1
  <2> QED BY <2>1, <1>5
<1> QED BY <1>1, <1>3, <1>6, <1>7 DEF n

LEMMA SelfTyped ==
    ASSUME NEW S, NEW c \in Seq(S)
    PROVE  c \in Seq({c[i] : i \in DOMAIN c})
OBVIOUS

LEMMA StackGrows ==
    ASSUME NEW A, NEW B, A \subseteq B, NEW c, NEW root, Stack(c, A, root)
    PROVE  Stack(c, B, root)
BY InvGrows DEF Stack

LEMMA EmptyStack ==
    ASSUME NEW A, NEW root
    PROVE  Stack(<<>>, A, root)
BY DEF Stack

LEMMA Pushed ==
    ASSUME NEW A, NEW c, NEW root, Stack(c, A, root), NEW g, FrameInv(A, g),
           c = <<>> => g.root = root,
           c # <<>> => Waits(c[Len(c)], g)
    PROVE  Stack(Append(c, g), A, root)
<1> DEFINE d == Append(c, g)
           S == {c[i] : i \in DOMAIN c}
<1>1. c \in Seq(S)
  BY DEF Stack
<1>2. d \in Seq(S \union {g})
  <2>1. c \in Seq(S \union {g})
    BY <1>1
  <2> QED BY <2>1
<1>3. Len(d) = Len(c) + 1 /\ Len(c) \in Nat
      /\ d[Len(c) + 1] = g /\ \A i \in 1..Len(c) : d[i] = c[i]
      /\ DOMAIN d = 1..(Len(c) + 1) /\ DOMAIN c = 1..Len(c)
  BY <1>1
<1>4. d \in Seq({d[i] : i \in DOMAIN d})
  BY <1>2, SelfTyped
<1> HIDE DEF d
<1>5. d[1].root = root
  <2>1. CASE c = <<>>
    BY <2>1, <1>3
  <2>2. CASE c # <<>>
    <3>1. 1 \in 1..Len(c)
      BY <2>2, <1>1
    <3> QED BY <3>1, <2>2, <1>3 DEF Stack
  <2> QED BY <2>1, <2>2
<1>6. \A i \in DOMAIN d : FrameInv(A, d[i])
  <2>1. \A i \in 1..Len(c) : FrameInv(A, c[i])
    BY <1>3 DEF Stack
  <2>2. \A i \in DOMAIN d : i = Len(c) + 1 \/ i \in 1..Len(c)
    BY <1>3
  <2> QED BY <2>1, <2>2, <1>3
<1>7. \A i \in 1..(Len(d) - 1) : Waits(d[i], d[i + 1])
  <2> SUFFICES ASSUME NEW i \in 1..Len(c) PROVE Waits(d[i], d[i + 1])
    BY <1>3
  <2>1. CASE i = Len(c)
    <3>1. c # <<>> /\ Len(c) \in 1..Len(c)
      BY <2>1, <1>1
    <3> QED BY <2>1, <3>1, <1>3
  <2>2. CASE i # Len(c)
    <3>1. i \in 1..(Len(c) - 1) /\ i + 1 \in 1..Len(c)
      BY <2>2, <1>3
    <3>2. Waits(c[i], c[i + 1])
      BY <3>1 DEF Stack
    <3> QED BY <3>1, <3>2, <1>3
  <2> QED BY <2>1, <2>2
<1> QED BY <1>4, <1>5, <1>6, <1>7 DEF Stack, d

LEMMA Popped ==
    ASSUME NEW A, NEW c, NEW root, Stack(c, A, root), c # <<>>
    PROVE  LET d == SubSeq(c, 1, Len(c) - 1)
           IN  /\ Stack(d, A, root)
               /\ d # <<>> => Waits(d[Len(d)], c[Len(c)]) /\ d[Len(d)] = c[Len(c) - 1]
               /\ d = <<>> => c[Len(c)].root = root
<1> DEFINE d == SubSeq(c, 1, Len(c) - 1)
           S == {c[i] : i \in DOMAIN c}
<1>1. c \in Seq(S)
  BY DEF Stack
<1>2. d \in Seq(S) /\ Len(d) = Len(c) - 1 /\ Len(d) \in Nat /\ Len(c) \in Nat
      /\ \A i \in 1..Len(d) : d[i] = c[i]
  BY <1>1, PopLast
<1>3. d \in Seq({d[i] : i \in DOMAIN d})
  BY <1>2, SelfTyped
<1> HIDE DEF d
<1>4. DOMAIN d = 1..Len(d) /\ 1..Len(d) \subseteq DOMAIN c
  BY <1>1, <1>2
<1>5. \A i \in DOMAIN d : FrameInv(A, d[i])
  BY <1>2, <1>4 DEF Stack
<1>6. d # <<>> => d[1].root = root
  <2> SUFFICES ASSUME d # <<>> PROVE d[1].root = root
    OBVIOUS
  <2>1. 1 \in 1..Len(d) /\ c # <<>>
    BY <1>2
  <2> QED BY <2>1, <1>2 DEF Stack
<1>7. \A i \in 1..(Len(d) - 1) : Waits(d[i], d[i + 1])
  <2> SUFFICES ASSUME NEW i \in 1..(Len(d) - 1) PROVE Waits(d[i], d[i + 1])
    OBVIOUS
  <2>1. i \in 1..(Len(c) - 1) /\ i \in 1..Len(d) /\ i + 1 \in 1..Len(d)
    BY <1>2
  <2>2. Waits(c[i], c[i + 1])
    BY <2>1 DEF Stack
  <2> QED BY <2>1, <2>2, <1>2
<1>8. ASSUME d # <<>> PROVE Waits(d[Len(d)], c[Len(c)]) /\ d[Len(d)] = c[Len(c) - 1]
  <2>1. Len(d) \in 1..Len(d) /\ Len(d) \in 1..(Len(c) - 1) /\ Len(d) + 1 = Len(c)
    BY <1>2, <1>8
  <2>2. Waits(c[Len(d)], c[Len(d) + 1])
    BY <2>1 DEF Stack
  <2>3. d[Len(d)] = c[Len(d)] /\ Len(d) = Len(c) - 1
    BY <2>1, <1>2
  <2> QED BY <2>1, <2>2, <2>3
<1>9. ASSUME d = <<>> PROVE c[Len(c)].root = root
  <2>1. Len(c) = 1
    BY <1>2, <1>9
  <2> QED BY <2>1 DEF Stack
<1>10. Stack(d, A, root)
  BY <1>3, <1>5, <1>6, <1>7 DEF Stack
<1> QED BY <1>8, <1>9, <1>10 DEF d

LEMMA TopReplaced ==
    ASSUME NEW A, NEW c, NEW root, Stack(c, A, root), c # <<>>,
           NEW g, FrameInv(A, g), g.root = c[Len(c)].root
    PROVE  Stack(Append(SubSeq(c, 1, Len(c) - 1), g), A, root)
<1> DEFINE d == SubSeq(c, 1, Len(c) - 1)
<1>1. /\ Stack(d, A, root)
      /\ d # <<>> => Waits(d[Len(d)], c[Len(c)])
      /\ d = <<>> => c[Len(c)].root = root
  BY Popped
<1> HIDE DEF d
<1>2. d # <<>> => Waits(d[Len(d)], g)
  BY <1>1 DEF Waits
<1>3. Stack(Append(d, g), A, root)
  BY <1>1, <1>2, Pushed
<1> QED BY <1>3 DEF d

-----------------------------------------------------------------------------
LEMMA InitInv == Init => IInv
<1> SUFFICES ASSUME Init PROVE IInv
  OBVIOUS
<1>1. read \in Nodes /\ overrideRoot = read /\ calls = <<>> /\ status = "read" /\ answers = {}
  BY NodesAssumption DEF Init
<1> QED BY <1>1, EmptyStack DEF IInv

\* The frame of the innermost call.
LEMMA CallFields ==
    ASSUME IInv, status = "merging"
    PROVE  /\ calls # <<>> /\ FrameInv(answers, call) /\ Stack(calls, answers, read)
           /\ overrideRoot = read /\ read \in Nodes
           /\ call.root \in Nodes /\ call.overrideKeys \subseteq Explicit(call.root)
           /\ \A k \in call.overrideKeys : at(call.root, k) \in Nodes
<1>1. calls # <<>> /\ Stack(calls, answers, read) /\ overrideRoot = read /\ read \in Nodes
  BY DEF IInv
<1>2. Len(calls) \in DOMAIN calls
  BY <1>1 DEF Stack
<1>3. FrameInv(answers, call)
  BY <1>1, <1>2 DEF Stack, call
<1>4. call.root \in Nodes /\ call.overrideKeys \subseteq Explicit(call.root) /\ HasOverride(call.root)
  BY <1>3, FrameFields
<1> QED BY <1>1, <1>3, <1>4, SourcesFields

LEMMA StepInv == IInv /\ [Next]_vars => IInv'
<1> SUFFICES ASSUME IInv, [Next]_vars PROVE IInv'
  OBVIOUS
<1>0. /\ read \in Nodes /\ Stack(calls, answers, read)
      /\ \A a \in answers : AnswerInv(answers, a)
  BY DEF IInv
<1>1. CASE begin
  <2>1. status = "read" /\ calls = <<>> /\ overrideRoot = read
    BY <1>1 DEF begin, IInv
  <2>2. CASE HasOverride(overrideRoot)
    <3>1. calls' = Append(<<>>, Call(read)) /\ status' = "merging"
          /\ overrideRoot' = read /\ read' = read /\ answers' = answers
      BY <1>1, <2>1, <2>2 DEF begin
    <3>2. FrameInv(answers, Call(read)) /\ Call(read).root = read
      BY <1>0, <2>1, <2>2, CallCorrect
    <3>3. Stack(Append(<<>>, Call(read)), answers, read)
      BY <1>0, <2>1, <3>2, Pushed
    <3>4. Append(<<>>, Call(read)) # <<>>
      OBVIOUS
    <3> QED BY <1>0, <3>1, <3>3, <3>4 DEF IInv
  <2>3. CASE ~HasOverride(overrideRoot)
    <3>1. calls' = <<>> /\ status' = "merged"
          /\ overrideRoot' = read /\ read' = read /\ answers' = answers
      BY <1>1, <2>1, <2>3 DEF begin
    <3>2. Answered(answers, read, read)
      BY <2>1, <2>3 DEF Answered
    <3> QED BY <1>0, <2>1, <3>1, <3>2 DEF IInv
  <2> QED BY <2>2, <2>3
\* A step of the innermost call that leaves the others alone.
<1>2. ASSUME status = "merging", NEW g, goOn(g), FrameInv(answers, g), g.root = call.root,
             UNCHANGED <<overrideRoot, status, read, answers>>
      PROVE  IInv'
  <2>1. calls' = Append(SubSeq(calls, 1, Len(calls) - 1), g)
    BY <1>2 DEF goOn, callers
  <2>2. Stack(Append(SubSeq(calls, 1, Len(calls) - 1), g), answers, read)
    BY <1>2, CallFields, TopReplaced DEF call
  <2>3. calls' # <<>>
    <3>1. SubSeq(calls, 1, Len(calls) - 1) \in Seq({calls[i] : i \in DOMAIN calls})
      BY <1>2, CallFields, PopLast DEF Stack
    <3> QED BY <2>1, <3>1
  <2>4. status' = "merging" /\ overrideRoot' = read /\ read' = read /\ answers' = answers
    BY <1>2, CallFields
  <2> QED BY <1>0, <2>1, <2>2, <2>3, <2>4 DEF IInv
<1>3. CASE nextElement
  <2> DEFINE g == [call EXCEPT !.elements = Tail(call.elements),
                               !.entries = Head(call.elements).value]
  <2>1. status = "merging" /\ goOn(g) /\ UNCHANGED <<overrideRoot, status, read, answers>>
        /\ call.entries = <<>> /\ call.elements # <<>> /\ isDictionary(Head(call.elements))
    BY <1>3 DEF nextElement
  <2>2. FrameInv(answers, call)
    BY <2>1, CallFields
  <2>3. FrameInv(answers, g) /\ g.root = call.root
    BY <2>1, <2>2, ElementCorrect
  <2> HIDE DEF g
  <2> QED BY <1>2, <2>1, <2>3
<1>4. CASE refuseElement
  <2>1. calls' = <<>> /\ status' = "thrown" /\ overrideRoot' = read
        /\ read' = read /\ answers' = answers
    BY <1>4, CallFields DEF refuseElement
  <2>2. Stack(<<>>, answers, read)
    BY EmptyStack
  <2> QED BY <1>0, <2>1, <2>2 DEF IInv
<1>5. CASE addEntry
  <2> DEFINE g == [call EXCEPT !.entries = Tail(call.entries),
                               !.base = addIfAbsent(call.base, Head(call.entries))]
  <2>1. status = "merging" /\ goOn(g) /\ UNCHANGED <<overrideRoot, status, read, answers>>
        /\ call.entries # <<>>
    BY <1>5 DEF addEntry
  <2>2. FrameInv(answers, call)
    BY <2>1, CallFields
  <2>3. FrameInv(answers, g) /\ g.root = call.root
    BY <2>1, <2>2, EntryCorrect
  <2> HIDE DEF g
  <2> QED BY <1>2, <2>1, <2>3
<1>6. CASE applyOuter
  <2>1. status = "merging" /\ call.entries = <<>> /\ call.elements = <<>>
        /\ UNCHANGED <<overrideRoot, status, read, answers>>
    BY <1>6 DEF applyOuter, AllMerged
  <2>2. PICK key \in call.overrideKeys :
          /\ First(key, call.overrideKeys)
          /\ IF HasOverride(at(call.root, key))
             THEN calls' = Append(calls, Call(at(call.root, key)))
             ELSE goOn(Applied(call, key, at(call.root, key)))
    BY <1>6 DEF applyOuter
  <2> DEFINE value == at(call.root, key)
  <2>3. value \in Nodes /\ FrameInv(answers, call) /\ calls # <<>> /\ overrideRoot = read
    BY <2>1, CallFields
  <2>4. CASE HasOverride(value)
    <3>1. FrameInv(answers, Call(value)) /\ Call(value).root = value
      BY <2>3, <2>4, CallCorrect
    <3>2. Waits(call, Call(value))
      BY <2>1, <2>2, <3>1 DEF Waits
    <3>3. Stack(Append(calls, Call(value)), answers, read)
      BY <1>0, <2>3, <3>1, <3>2, Pushed DEF call
    <3>4. calls' = Append(calls, Call(value))
      BY <2>2, <2>4
    <3>5. calls' # <<>>
      BY <1>0, <3>4 DEF Stack
    <3>6. status' = "merging" /\ overrideRoot' = read /\ read' = read /\ answers' = answers
      BY <2>1, <2>3
    <3> HIDE DEF value
    <3> QED BY <1>0, <3>3, <3>4, <3>5, <3>6 DEF IInv
  <2>5. CASE ~HasOverride(value)
    <3> DEFINE g == Applied(call, key, value)
    <3>1. Answered(answers, value, value)
      BY <2>5 DEF Answered
    <3>2. FrameInv(answers, g) /\ g.root = call.root
      BY <2>1, <2>3, <3>1, AppliedCorrect
    <3>3. goOn(g)
      BY <2>2, <2>5
    <3> HIDE DEF g
    <3> QED BY <1>2, <2>1, <3>2, <3>3
  <2> QED BY <2>4, <2>5
<1>7. CASE return
  <2> DEFINE a == [root |-> call.root, result |-> call.base]
             B == answers \union {a}
  <2>1. /\ status = "merging" /\ call.entries = <<>> /\ call.elements = <<>>
        /\ call.overrideKeys = {} /\ answers' = B /\ read' = read
    BY <1>7 DEF return, AllMerged
  <2>2. /\ FrameInv(answers, call) /\ calls # <<>> /\ overrideRoot = read
        /\ HasOverride(call.root)
    BY <2>1, CallFields, FrameFields
  <2>3. AnswerInv(answers, a)
    BY <2>1, <2>2, ReturnCorrect
  <2>4. \A x \in B : AnswerInv(B, x)
    BY <1>0, <2>3, InvGrows, answers \subseteq B
  <2>5. Answered(B, call.root, call.base) /\ call.base \in Results(B)
    <3>1. a \in B /\ a.result = call.base
      OBVIOUS
    <3>2. Answered(B, call.root, call.base)
      BY <2>2, <3>1 DEF Answered
    <3> HIDE DEF B, a
    <3>3. call.base \in Results(B)
      BY <3>1 DEF Results
    <3> QED BY <3>2, <3>3
  <2>6. Stack(calls, B, read)
    BY <1>0, StackGrows, answers \subseteq B
  <2>7. /\ Stack(callers, B, read)
        /\ callers # <<>> => Waits(callers[Len(callers)], call)
        /\ callers = <<>> => call.root = read
    BY <2>2, <2>6, Popped DEF callers, call
  <2>8. CASE callers = <<>>
    <3>1. overrideRoot' = call.base /\ calls' = <<>> /\ status' = "merged"
      BY <1>7, <2>8 DEF return
    <3>2. Answered(B, read, call.base)
      BY <2>5, <2>7, <2>8
    <3>3. Stack(<<>>, B, read)
      BY EmptyStack
    <3> HIDE DEF B
    <3> QED BY <1>0, <2>1, <2>4, <3>1, <3>2, <3>3 DEF IInv
  <2>9. CASE callers # <<>>
    <3> DEFINE caller == callers[Len(callers)]
               rest == SubSeq(callers, 1, Len(callers) - 1)
    <3>1. PICK key \in caller.overrideKeys :
            First(key, caller.overrideKeys) /\ calls' = Append(rest, Applied(caller, key, call.base))
      BY <1>7, <2>9 DEF return
    <3>2. UNCHANGED <<overrideRoot, status>>
      BY <1>7, <2>9 DEF return
    <3>3. FrameInv(B, caller)
      <4>1. Len(callers) \in DOMAIN callers
        BY <2>7, <2>9 DEF Stack
      <4> QED BY <4>1, <2>7 DEF Stack
    <3>4. caller.elements = <<>> /\ caller.entries = <<>>
      BY <2>7, <2>9 DEF Waits
    <3>5. call.root = at(caller.root, key)
      <4>1. PICK k \in caller.overrideKeys :
              First(k, caller.overrideKeys) /\ call.root = at(caller.root, k)
        BY <2>7, <2>9 DEF Waits
      <4>2. k \in Names /\ key \in Names
        BY <3>1, <4>1, <3>3, FrameFields
      <4>3. k = key
        BY <3>1, <4>1, <4>2, NodesAssumption DEF First
      <4> QED BY <4>1, <4>3
    <3>6. FrameInv(B, Applied(caller, key, call.base))
          /\ Applied(caller, key, call.base).root = caller.root
      BY <2>5, <3>1, <3>3, <3>4, <3>5, AppliedCorrect
    <3>7. Stack(Append(rest, Applied(caller, key, call.base)), B, read)
      BY <2>7, <2>9, <3>6, TopReplaced
    <3>8. calls' # <<>>
      <4>1. rest \in Seq({callers[i] : i \in DOMAIN callers})
        BY <2>7, <2>9, PopLast DEF Stack
      <4> QED BY <3>1, <4>1
    <3>9. status' = "merging" /\ overrideRoot' = read
      BY <2>1, <2>2, <3>2
    <3> HIDE DEF B, caller, rest
    <3> QED BY <1>0, <2>1, <2>4, <3>1, <3>7, <3>8, <3>9 DEF IInv
  <2> QED BY <2>8, <2>9
<1>8. CASE UNCHANGED vars
  BY <1>8 DEF vars, IInv
<1> QED BY <1>1, <1>3, <1>4, <1>5, <1>6, <1>7, <1>8 DEF Next

LEMMA Invariant == Spec => []IInv
BY InitInv, StepInv, PTL DEF Spec

\* Every key of what mergeOverrides() returns has its value from the mapping itself
\* or from the first source that has it, and an explicit value has its own overrides
\* merged, for all mappings and sources, nested as deep as they may be.
THEOREM EveryKeyCorrect == Spec => []EveryKeyFromItsSource
<1>1. IInv => EveryKeyFromItsSource
  BY DEF IInv, EveryKeyFromItsSource, AnswerInv, Answered, Answer
<1> QED BY <1>1, Invariant, PTL

\* It has the keys of the mapping and of its sources, each once, and no "<<" of its
\* own; a sequence of something else than mappings gives no result.
THEOREM UnionCorrect == Spec => []KeysAreTheUnion
<1>1. IInv => KeysAreTheUnion
  BY DEF IInv, KeysAreTheUnion, AnswerInv, Merging
<1> QED BY <1>1, Invariant, PTL
-----------------------------------------------------------------------------
(* Recursion on a path, proved by induction on how far it is followed.          *)

LEMMA Least ==
    ASSUME NEW T, T \subseteq Nat, T # {}
    PROVE  \E m \in T : \A k \in T : m <= k
<1> DEFINE R == OpToRel(<, Nat)
<1>1. IsWellFoundedOn(R, Nat)
  BY NatLessThanWellFounded
<1>2. \A x, y \in Nat : y < x => <<y, x>> \in R
  BY DEF OpToRel
<1> HIDE DEF R
<1>3. PICK m \in T : \A k \in T : ~ (<<k, m>> \in R)
  BY <1>1, WFMin
<1>4. \A k \in T : ~ (k < m)
  BY <1>2, <1>3
<1> QED BY <1>4

LEMMA Upward ==
    ASSUME NEW n \in Nat, NEW T, 0 \in T, \A i \in 0..(n - 1) : i \in T => i + 1 \in T
    PROVE  \A i \in 0..n : i \in T
<1> SUFFICES ASSUME NEW j \in 0..n, j \notin T PROVE FALSE
  OBVIOUS
<1> DEFINE B == {i \in Nat : i \in 0..n /\ i \notin T}
<1>1. B \subseteq Nat /\ B # {}
  OBVIOUS
<1>2. PICK m \in B : \A k \in B : m <= k
  <2> HIDE DEF B
  <2> QED BY <1>1, Least
<1>3. m # 0 /\ m \in 1..n /\ m - 1 \in 0..(n - 1)
  BY <1>2
<1>4. m - 1 \notin B /\ m - 1 + 1 = m
  BY <1>2, <1>3
<1> QED BY <1>2, <1>3, <1>4

\* From n down to 0.
LEMMA Downward ==
    ASSUME NEW n \in Nat, NEW T, n \in T, \A i \in 0..(n - 1) : i + 1 \in T => i \in T
    PROVE  \A i \in 0..n : i \in T
<1> DEFINE U == {j \in 0..n : n - j \in T}
<1>1. 0 \in U
  OBVIOUS
<1>2. ASSUME NEW j \in 0..(n - 1), j \in U PROVE j + 1 \in U
  <2>1. n - j = (n - (j + 1)) + 1 /\ n - (j + 1) \in 0..(n - 1) /\ j + 1 \in 0..n
    OBVIOUS
  <2>2. n - j \in T
    BY <1>2
  <2> QED BY <2>1, <2>2
<1>3. \A j \in 0..n : j \in U
  <2> HIDE DEF U
  <2> QED BY <1>1, <1>2, Upward
<1>4. ASSUME NEW i \in 0..n PROVE i \in T
  <2>1. n - i \in 0..n /\ n - (n - i) = i
    OBVIOUS
  <2>2. n - i \in U
    BY <1>3, <2>1
  <2> QED BY <2>1, <2>2
<1> QED BY <1>4

\* The functions that are defined by recursion satisfy their definitions.
LEMMA WalkIs ==
    ASSUME NEW node, NEW path, Len(path) \in Nat
    PROVE  Walk(node, path) = [i \in 0..Len(path) |->
              IF i = 0 THEN node ELSE Child(Walk(node, path)[i - 1], path[i])]
<1> DEFINE L == Len(path)
           T == {n \in Nat : \E g : g = [i \in 0..n |->
                    IF i = 0 THEN node ELSE Child(g[i - 1], path[i])]}
<1>1. 0 \in T
  <2> DEFINE h == [i \in 0..0 |-> node]
  <2>1. h = [i \in 0..0 |-> IF i = 0 THEN node ELSE Child(h[i - 1], path[i])]
    OBVIOUS
  <2> QED BY <2>1
<1>2. ASSUME NEW n \in 0..(L - 1), n \in T PROVE n + 1 \in T
  <2>1. n \in Nat /\ n + 1 \in Nat
    OBVIOUS
  <2>2. PICK g : g = [i \in 0..n |-> IF i = 0 THEN node ELSE Child(g[i - 1], path[i])]
    BY <1>2
  <2> DEFINE h == [i \in 0..(n + 1) |->
                      IF i = n + 1 THEN Child(g[n], path[n + 1]) ELSE g[i]]
  <2>3. ASSUME NEW i \in 0..(n + 1)
        PROVE  h[i] = IF i = 0 THEN node ELSE Child(h[i - 1], path[i])
    <3>1. CASE i = n + 1
      BY <3>1, <2>1
    <3>2. CASE i # n + 1
      <4>1. /\ i \in 0..n /\ h[i] = g[i]
            /\ i # 0 => i - 1 \in 0..n /\ i - 1 # n + 1 /\ i - 1 \in 0..(n + 1)
        BY <3>2, <2>1
      <4> QED BY <2>2, <4>1
    <3> QED BY <3>1, <3>2
  <2>4. h = [i \in 0..(n + 1) |-> h[i]]
    OBVIOUS
  <2>5. h = [i \in 0..(n + 1) |-> IF i = 0 THEN node ELSE Child(h[i - 1], path[i])]
    <3> HIDE DEF h
    <3> QED BY <2>3, <2>4
  <2> QED BY <2>1, <2>5
<1>3. L \in T
  <2> HIDE DEF T
  <2>1. L \in Nat /\ L \in 0..L
    OBVIOUS
  <2> QED BY <1>1, <1>2, <2>1, Upward
<1>4. PICK g : g = [i \in 0..L |-> IF i = 0 THEN node ELSE Child(g[i - 1], path[i])]
  BY <1>3
<1> QED BY <1>4 DEF Walk

Puts(node, path, new) ==
    LET walk == Walk(node, path)
        put[i \in 0..Len(path)] ==
            IF i = Len(path) THEN new ELSE Replaced(walk[i], path[i + 1], put[i + 1])
    IN  put

LEMMA PutsIs ==
    ASSUME NEW node, NEW path, Len(path) \in Nat, NEW new
    PROVE  /\ Puts(node, path, new) = [i \in 0..Len(path) |->
                IF i = Len(path) THEN new
                ELSE Replaced(Walk(node, path)[i], path[i + 1], Puts(node, path, new)[i + 1])]
           /\ Put(node, path, new) = Puts(node, path, new)[0]
<1> DEFINE L == Len(path)
           R(i, x) == Replaced(Walk(node, path)[i], path[i + 1], x)
           T == {n \in Nat : \E g : g = [i \in n..L |-> IF i = L THEN new ELSE R(i, g[i + 1])]}
<1>0. L \in Nat
  OBVIOUS
<1> HIDE DEF L, R
<1>1. L \in T
  <2> DEFINE h == [i \in L..L |-> new]
  <2>1. h = [i \in L..L |-> IF i = L THEN new ELSE R(i, h[i + 1])]
    BY <1>0
  <2> QED BY <1>0, <2>1
<1>2. ASSUME NEW n \in 0..(L - 1), n + 1 \in T PROVE n \in T
  <2>1. n \in Nat /\ n + 1 \in Nat
    OBVIOUS
  <2>2. PICK g : g = [i \in (n + 1)..L |-> IF i = L THEN new ELSE R(i, g[i + 1])]
    BY <1>2
  <2> DEFINE h == [i \in n..L |-> IF i = n THEN R(n, g[n + 1]) ELSE g[i]]
  <2>3. ASSUME NEW i \in n..L
        PROVE  h[i] = IF i = L THEN new ELSE R(i, h[i + 1])
    <3>1. CASE i = n
      <4>1. n + 1 \in n..L /\ n + 1 # n /\ n # L
        BY <1>0, <2>1
      <4>2. h[n] = R(n, g[n + 1]) /\ h[n + 1] = g[n + 1]
        BY <4>1, <3>1
      <4> QED BY <3>1, <4>1, <4>2
    <3>2. CASE i # n
      <4>1. /\ i \in (n + 1)..L /\ h[i] = g[i]
            /\ i # L => i + 1 \in (n + 1)..L /\ i + 1 # n /\ i + 1 \in n..L
        BY <3>2, <2>1, <1>0
      <4>2. i # L => h[i + 1] = g[i + 1]
        BY <4>1
      <4> QED BY <2>2, <4>1, <4>2
    <3> QED BY <3>1, <3>2
  <2>4. h = [i \in n..L |-> h[i]]
    OBVIOUS
  <2>5. h = [i \in n..L |-> IF i = L THEN new ELSE R(i, h[i + 1])]
    <3> HIDE DEF h
    <3> QED BY <2>3, <2>4
  <2> QED BY <2>1, <2>5
<1>3. 0 \in T
  <2> HIDE DEF T
  <2>1. 0 \in 0..L
    BY <1>0
  <2> QED BY <1>0, <1>1, <1>2, <2>1, Downward
<1>4. PICK g : g = [i \in 0..L |-> IF i = L THEN new ELSE R(i, g[i + 1])]
  BY <1>3
<1> QED BY <1>4 DEF Puts, Put, L, R
-----------------------------------------------------------------------------
(* Where operator[] leads.                                                     *)

LEMMA WalkFacts ==
    ASSUME NEW node, NEW path \in Seq(Step)
    PROVE  /\ Len(path) \in Nat
           /\ Walk(node, path)[0] = node
           /\ \A i \in 1..Len(path) :
                Walk(node, path)[i] = Child(Walk(node, path)[i - 1], path[i])
<1>0. Len(path) \in Nat /\ 0 \in 0..Len(path) /\ \A i \in 1..Len(path) : i \in 0..Len(path) /\ i # 0
  OBVIOUS
<1> QED BY <1>0, WalkIs

\* Two paths lead to the same node as long as they agree.
LEMMA WalkSame ==
    ASSUME NEW t, NEW p \in Seq(Step), NEW q \in Seq(Step), NEW n \in Nat,
           n <= Len(p), n <= Len(q), \A i \in 1..n : p[i] = q[i]
    PROVE  \A i \in 0..n : Walk(t, p)[i] = Walk(t, q)[i]
<1> DEFINE T == {i \in 0..n : Walk(t, p)[i] = Walk(t, q)[i]}
<1>1. 0 \in T
  BY WalkFacts
<1>2. ASSUME NEW i \in 0..(n - 1), i \in T PROVE i + 1 \in T
  <2>1. /\ i + 1 \in 0..n /\ i + 1 \in 1..n /\ (i + 1) - 1 = i
        /\ i + 1 \in 1..Len(p) /\ i + 1 \in 1..Len(q)
    BY WalkFacts
  <2>2. /\ Walk(t, p)[i + 1] = Child(Walk(t, p)[i], p[i + 1])
        /\ Walk(t, q)[i + 1] = Child(Walk(t, q)[i], q[i + 1])
    BY <2>1, WalkFacts
  <2> QED BY <1>2, <2>1, <2>2
<1> HIDE DEF T
<1>3. \A i \in 0..n : i \in T
  BY <1>1, <1>2, Upward
<1> QED BY <1>3 DEF T

\* A path can be followed in two parts.
LEMMA WalkOn ==
    ASSUME NEW t, NEW p \in Seq(Step), NEW k \in 0..Len(p)
    PROVE  LET r == SubSeq(p, k + 1, Len(p))
           IN  /\ r \in Seq(Step) /\ Len(r) = Len(p) - k
               /\ \A i \in 1..Len(r) : r[i] = p[k + i]
               /\ At(t, p) = At(Walk(t, p)[k], r)
<1> DEFINE r == SubSeq(p, k + 1, Len(p))
           n == Walk(t, p)[k]
<1>0. /\ Len(p) \in Nat /\ k \in Nat
      /\ r \in Seq(Step) /\ Len(r) = Len(p) - k /\ Len(r) \in Nat
      /\ \A i \in 1..Len(r) : r[i] = p[k + i]
  OBVIOUS
<1> HIDE DEF r
<1> DEFINE T == {j \in 0..Len(r) : Walk(t, p)[k + j] = Walk(n, r)[j]}
<1>1. 0 \in T
  BY <1>0, WalkFacts
<1>2. ASSUME NEW j \in 0..(Len(r) - 1), j \in T PROVE j + 1 \in T
  <2>1. /\ j + 1 \in 0..Len(r) /\ j + 1 \in 1..Len(r) /\ (j + 1) - 1 = j
        /\ k + (j + 1) \in 1..Len(p) /\ k + (j + 1) - 1 = k + j
    BY <1>0
  <2>2. /\ Walk(t, p)[k + (j + 1)] = Child(Walk(t, p)[k + j], p[k + (j + 1)])
        /\ Walk(n, r)[j + 1] = Child(Walk(n, r)[j], r[j + 1])
    BY <1>0, <2>1, WalkFacts
  <2> QED BY <1>0, <1>2, <2>1, <2>2
<1>3. \A j \in 0..Len(r) : j \in T
  <2> HIDE DEF T
  <2> QED BY <1>0, <1>1, <1>2, Upward
<1>4. k + Len(r) = Len(p) /\ Len(r) \in 0..Len(r)
  BY <1>0
<1> QED BY <1>0, <1>3, <1>4 DEF At, r

LEMMA AtEmpty ==
    ASSUME NEW t
    PROVE  <<>> \in Seq(Step) /\ At(t, <<>>) = t
<1>1. <<>> \in Seq(Step) /\ Len(<<>>) = 0
  OBVIOUS
<1> QED BY <1>1, WalkFacts DEF At

LEMMA AtAppend ==
    ASSUME NEW t, NEW p \in Seq(Step), NEW s \in Step
    PROVE  /\ Append(p, s) \in Seq(Step)
           /\ \A i \in 0..Len(p) : Walk(t, Append(p, s))[i] = Walk(t, p)[i]
           /\ At(t, Append(p, s)) = Child(At(t, p), s)
<1> DEFINE q == Append(p, s)
<1>1. /\ q \in Seq(Step) /\ Len(q) = Len(p) + 1 /\ q[Len(p) + 1] = s
      /\ \A i \in 1..Len(p) : q[i] = p[i]
      /\ Len(p) \in Nat /\ Len(p) + 1 \in 1..Len(q) /\ Len(p) + 1 - 1 = Len(p)
  OBVIOUS
<1> HIDE DEF q
<1>2. \A i \in 0..Len(p) : Walk(t, q)[i] = Walk(t, p)[i]
  BY <1>1, WalkSame
<1>3. Walk(t, q)[Len(p) + 1] = Child(Walk(t, q)[Len(p)], s)
  BY <1>1, WalkFacts
<1> QED BY <1>1, <1>2, <1>3 DEF At, q

\* From a node that holds nothing no path leads anywhere.
Barren(node) == ~isDictionary(node) /\ ~isArray(node)

LEMMA BarrenChild ==
    ASSUME NEW node, Barren(node), NEW step
    PROVE  Child(node, step) = NoNode /\ Barren(NoNode) /\ NoNode.type # "scalar"
BY DEF Child, Has, Barren, NoNode, Node, isDictionary, isArray

LEMMA BarrenPath ==
    ASSUME NEW node, Barren(node), node.type # "scalar", NEW path \in Seq(Step)
    PROVE  At(node, path).type # "scalar"
<1> DEFINE T == {i \in 0..Len(path) :
                    Barren(Walk(node, path)[i]) /\ Walk(node, path)[i].type # "scalar"}
<1>0. Len(path) \in Nat
  OBVIOUS
<1>1. 0 \in T
  BY <1>0, WalkFacts
<1>2. ASSUME NEW i \in 0..(Len(path) - 1), i \in T PROVE i + 1 \in T
  <2>1. i + 1 \in 1..Len(path) /\ i + 1 \in 0..Len(path) /\ (i + 1) - 1 = i
    BY <1>0
  <2>2. Walk(node, path)[i + 1] = Child(Walk(node, path)[i], path[i + 1])
    BY <2>1, WalkFacts
  <2> QED BY <1>2, <2>1, <2>2, BarrenChild
<1>3. \A i \in 0..Len(path) : i \in T
  <2> HIDE DEF T
  <2> QED BY <1>0, <1>1, <1>2, Upward
<1>4. Len(path) \in T
  <2> HIDE DEF T
  <2> QED BY <1>0, <1>3
<1> QED BY <1>4 DEF At
-----------------------------------------------------------------------------
(* Trees.  A node is sound when a set of nodes it is in holds all that the     *)
(* dictionaries and arrays of the set hold.                                    *)

Holds(n, S) ==
    /\ isDictionary(n) => WellFormed(n, Names, S)
    /\ isArray(n) => WellFormedArray(n, S)
Forest(S) == \A n \in S : Holds(n, S)
Sound(n) == \E S : n \in S /\ Forest(S)

LEMMA ArrayFields ==
    ASSUME NEW S, NEW a, WellFormedArray(a, S)
    PROVE  /\ a.value \in Seq(S) /\ Len(a.value) \in Nat
           /\ DOMAIN a.value = 1..Len(a.value)
           /\ \A i \in DOMAIN a.value : a.value[i] \in S
           /\ a.type = "array" /\ isArray(a) /\ ~isDictionary(a)
           /\ a = [type |-> "array", text |-> 0, value |-> a.value, index |-> <<>>]
<1>1. a.value \in Seq(S) /\ a.type = "array" /\ a.text = 0 /\ a.index = <<>>
      /\ a = [type |-> a.type, text |-> a.text, value |-> a.value, index |-> a.index]
  BY DEF WellFormedArray
<1> QED BY <1>1 DEF isArray, isDictionary

LEMMA IsArrayOf ==
    ASSUME NEW S, NEW v \in Seq(S)
    PROVE  WellFormedArray([type |-> "array", text |-> 0, value |-> v, index |-> <<>>], S)
<1>1. ASSUME NEW V, NEW w \in V, NEW e
      PROVE  [type |-> "array", text |-> 0, value |-> w, index |-> e]
                 \in [type : {"array"}, text : {0}, value : V, index : {e}]
  OBVIOUS
<1> QED BY <1>1 DEF WellFormedArray

LEMMA HoldsGrows ==
    ASSUME NEW S, NEW T, S \subseteq T, NEW n, Holds(n, S)
    PROVE  Holds(n, T)
<1>1. ASSUME isArray(n) PROVE WellFormedArray(n, T)
  <2>1. n \in [type : {"array"}, text : {0}, value : Seq(S), index : {<<>>}]
    BY <1>1 DEF Holds, WellFormedArray
  <2>2. n.value \in Seq(T)
    BY <2>1
  <2> QED BY <2>1, <2>2 DEF WellFormedArray
<1> QED BY <1>1, WellFormedGrows DEF Holds

LEMMA ForestsMerge ==
    ASSUME NEW S, Forest(S), NEW T, Forest(T)
    PROVE  Forest(S \union T)
<1>1. ASSUME NEW n \in S PROVE Holds(n, S \union T)
  BY HoldsGrows, S \subseteq S \union T DEF Forest
<1>2. ASSUME NEW n \in T PROVE Holds(n, S \union T)
  BY HoldsGrows, T \subseteq S \union T DEF Forest
<1> QED BY <1>1, <1>2 DEF Forest

LEMMA SoundNode ==
    ASSUME NEW S, Forest(S), NEW n, Holds(n, S)
    PROVE  Sound(n)
<1> DEFINE T == S \union {n}
<1>1. \A m \in T : Holds(m, T)
  BY HoldsGrows, S \subseteq T DEF Forest
<1> QED BY <1>1 DEF Sound, Forest

\* What two sound nodes have in common.
LEMMA SoundTogether ==
    ASSUME NEW n, Sound(n), NEW m, Sound(m)
    PROVE  \E S : n \in S /\ m \in S /\ Forest(S) /\ Holds(n, S)
<1>1. PICK S : n \in S /\ Forest(S)
  BY DEF Sound
<1>2. PICK T : m \in T /\ Forest(T)
  BY DEF Sound
<1>3. Forest(S \union T)
  BY <1>1, <1>2, ForestsMerge
<1>4. n \in S \union T /\ m \in S \union T
  BY <1>1, <1>2
<1>5. Holds(n, S \union T)
  BY <1>3, <1>4 DEF Forest
<1> QED BY <1>3, <1>4, <1>5

LEMMA BarrenSound ==
    ASSUME NEW n, Barren(n)
    PROVE  Sound(n)
<1>1. Forest({})
  BY DEF Forest
<1> QED BY <1>1, SoundNode DEF Holds, Barren

LEMMA Leaves ==
    /\ Sound(NoNode) /\ Sound(Hole) /\ Barren(NoNode) /\ Barren(Hole)
    /\ Hole.type # "scalar" /\ NoNode.type # "scalar"
    /\ Sound(EmptyDictionary) /\ isDictionary(EmptyDictionary)
    /\ Sound(Array(<<>>)) /\ isArray(Array(<<>>))
    /\ Array(<<>>).value = <<>> /\ EmptyDictionary.index = <<>>
<1>1. /\ Barren(NoNode) /\ Barren(Hole) /\ Hole.type # "scalar" /\ NoNode.type # "scalar"
      /\ isDictionary(EmptyDictionary) /\ ~isArray(EmptyDictionary)
      /\ isArray(Array(<<>>)) /\ ~isDictionary(Array(<<>>))
      /\ Array(<<>>).value = <<>> /\ EmptyDictionary.index = <<>>
  BY DEF Barren, NoNode, Hole, Node, EmptyDictionary, Array, isDictionary, isArray
<1>2. Forest({})
  BY DEF Forest
<1>3. WellFormedArray(Array(<<>>), {})
  <2>1. Array(<<>>) = [type |-> "array", text |-> 0, value |-> <<>>, index |-> <<>>]
    BY DEF Array, Node
  <2>2. <<>> \in Seq({})
    OBVIOUS
  <2> QED BY <2>1, <2>2, IsArrayOf
<1>4. EmptyDictionary \in Fields(Entered(Names, {}), Indexes(Names))
  <2>1. EmptyDictionary = [type |-> "dictionary", text |-> 0, value |-> <<>>, index |-> <<>>]
    BY DEF EmptyDictionary, Node
  <2>2. <<>> \in Entered(Names, {})
    BY DEF Entered
  <2>3. <<>> \in Indexes(Names)
    <3>1. <<>> \in [{} -> Nat]
      OBVIOUS
    <3> QED BY <3>1 DEF Indexes
  <2> QED BY <2>1, <2>2, <2>3 DEF Fields
<1>5. IndexAgrees(EmptyDictionary)
  BY EmptyIsMerging DEF Merging, WellFormed
<1>6. WellFormed(EmptyDictionary, Names, {})
  BY <1>4, <1>5, IsWellFormed
<1> QED BY <1>1, <1>2, <1>3, <1>6, SoundNode, BarrenSound DEF Holds
-----------------------------------------------------------------------------
(* What operator[] makes of one node.                                          *)

LEMMA StepFields ==
    ASSUME NEW s \in Step
    PROVE  /\ isKeyStep(s) => s.key \in Names /\ s = [key |-> s.key]
           /\ ~isKeyStep(s) => s.index \in Nat /\ s = [index |-> s.index]
<1>1. CASE s \in [key : Names]
  BY <1>1 DEF isKeyStep
<1>2. CASE s \in [index : Nat]
  <2>1. DOMAIN s = {"index"} /\ "key" # "index"
    BY <1>2
  <2> QED BY <1>2, <2>1 DEF isKeyStep
<1> QED BY <1>1, <1>2 DEF Step

LEMMA DictionaryChild ==
    ASSUME NEW S, NEW d, WellFormed(d, Names, S), NEW s \in Step
    PROVE  /\ isDictionary(d) /\ ~isArray(d) /\ d.type = "dictionary"
           /\ Has(d, s) <=> isKeyStep(s) /\ s.key \in Keys(d)
           /\ Has(d, s) => Child(d, s) = at(d, s.key) /\ Child(d, s) \in S
           /\ ~Has(d, s) => Child(d, s) = NoNode
<1>1. isDictionary(d) /\ ~isArray(d) /\ d.type = "dictionary"
  BY DictionaryFields DEF isDictionary, isArray
<1>2. Has(d, s) <=> isKeyStep(s) /\ s.key \in Keys(d)
  BY <1>1, ContainsKeys DEF Has
<1> QED BY <1>1, <1>2, AtIsNode DEF Child, Reached

LEMMA ArrayChild ==
    ASSUME NEW S, NEW a, WellFormedArray(a, S), NEW s \in Step
    PROVE  /\ isArray(a) /\ ~isDictionary(a) /\ a.type = "array"
           /\ Has(a, s) <=> ~isKeyStep(s) /\ s.index < Len(a.value)
           /\ Has(a, s) => Child(a, s) = a.value[s.index + 1] /\ Child(a, s) \in S
           /\ ~Has(a, s) => Child(a, s) = NoNode
<1>1. isArray(a) /\ ~isDictionary(a) /\ a.type = "array"
  BY ArrayFields
<1>2. Has(a, s) <=> ~isKeyStep(s) /\ s.index < Len(a.value)
  BY <1>1 DEF Has
<1>3. Has(a, s) => s.index + 1 \in DOMAIN a.value
  BY <1>2, ArrayFields, StepFields
<1> QED BY <1>1, <1>2, <1>3, ArrayFields DEF Child, Reached

LEMMA ChildSound ==
    ASSUME NEW n, Sound(n), NEW s \in Step
    PROVE  /\ Sound(Child(n, s))
           /\ Has(n, s) => isDictionary(n) \/ isArray(n)
<1>1. PICK S : n \in S /\ Forest(S)
  BY DEF Sound
<1>2. Has(n, s) => isDictionary(n) \/ isArray(n)
  BY DEF Has
<1>3. Has(n, s) => Child(n, s) \in S
  BY <1>1, <1>2, DictionaryChild, ArrayChild DEF Forest, Holds
<1>4. ~Has(n, s) => Child(n, s) = NoNode
  BY DEF Child
<1> QED BY <1>1, <1>2, <1>3, <1>4, Leaves DEF Sound

\* A node that is replaced is found at its step, every other one where it was.
THEOREM ReplacedCorrect ==
    ASSUME NEW n, Sound(n), NEW s \in Step, Has(n, s), NEW c, Sound(c)
    PROVE  /\ Sound(Replaced(n, s, c))
           /\ Replaced(n, s, c).type \in {"dictionary", "array"}
           /\ Has(Replaced(n, s, c), s) /\ Child(Replaced(n, s, c), s) = c
           /\ \A o \in Step \ {s} : Child(Replaced(n, s, c), o) = Child(n, o)
<1> DEFINE e == Replaced(n, s, c)
<1>1. PICK S : n \in S /\ c \in S /\ Forest(S) /\ Holds(n, S)
  BY SoundTogether
<1>2. CASE isDictionary(n)
  <2>1. WellFormed(n, Names, S) /\ isKeyStep(s) /\ s.key \in Keys(n)
    BY <1>1, <1>2, DictionaryChild DEF Holds
  <2>2. e = assign(n, s.key, c)
    BY <2>1 DEF Replaced
  <2>3. /\ WellFormed(e, Names, S) /\ Keys(e) = Keys(n) /\ at(e, s.key) = c
        /\ \A j \in Keys(n) \ {s.key} : at(e, j) = at(n, j)
    BY <1>1, <2>1, <2>2, AssignCorrect
  <2> HIDE DEF e
  <2>4. Holds(e, S) /\ e.type = "dictionary"
    BY <2>3, DictionaryChild DEF Holds
  <2>5. Has(e, s) /\ Child(e, s) = c
    BY <2>1, <2>3, DictionaryChild
  <2>6. ASSUME NEW o \in Step \ {s} PROVE Child(e, o) = Child(n, o)
    <3>1. isKeyStep(o) => o.key # s.key
      BY <2>1, StepFields
    <3> QED BY <2>1, <2>3, <3>1, DictionaryChild
  <2>7. Sound(e)
    BY <1>1, <2>4, SoundNode
  <2> QED BY <2>4, <2>5, <2>6, <2>7 DEF e
<1>3. CASE isArray(n)
  <2>1. WellFormedArray(n, S) /\ ~isKeyStep(s) /\ s.index < Len(n.value) /\ s.index \in Nat
    BY <1>1, <1>3, ArrayChild, StepFields DEF Holds
  <2> DEFINE v == [n.value EXCEPT ![s.index + 1] = c]
  <2>2. /\ n.value \in Seq(S) /\ Len(n.value) \in Nat /\ DOMAIN n.value = 1..Len(n.value)
        /\ n = [type |-> "array", text |-> 0, value |-> n.value, index |-> <<>>]
    BY <2>1, ArrayFields
  <2>3. /\ v \in Seq(S) /\ Len(v) = Len(n.value) /\ v[s.index + 1] = c
        /\ \A i \in 1..Len(n.value) : i # s.index + 1 => v[i] = n.value[i]
    BY <1>1, <2>1, <2>2
  <2>4. e = [n EXCEPT !.value = v]
    BY <2>1, Zenon DEF Replaced
  <2> HIDE DEF v, e
  <2>5. e = [type |-> "array", text |-> 0, value |-> v, index |-> <<>>] /\ e.value = v
    BY <2>2, <2>4
  <2>6. WellFormedArray(e, S)
    BY <2>3, <2>5, IsArrayOf
  <2>7. Holds(e, S) /\ e.type = "array"
    BY <2>6, ArrayChild DEF Holds
  <2>8. Has(e, s) /\ Child(e, s) = c
    BY <2>1, <2>3, <2>5, <2>6, ArrayChild
  <2>9. ASSUME NEW o \in Step \ {s} PROVE Child(e, o) = Child(n, o)
    <3>1. ~isKeyStep(o) => o.index # s.index /\ o.index \in Nat
      BY <2>1, StepFields
    <3>2. ~isKeyStep(o) /\ o.index < Len(n.value) => v[o.index + 1] = n.value[o.index + 1]
      BY <2>1, <2>2, <2>3, <3>1
    <3> QED BY <2>1, <2>3, <2>5, <2>6, <3>2, ArrayChild
  <2>10. Sound(e)
    BY <1>1, <2>7, SoundNode
  <2> QED BY <2>7, <2>8, <2>9, <2>10 DEF e
<1> QED BY <1>2, <1>3, ChildSound

LEMMA MadeCorrect ==
    ASSUME NEW n, Sound(n), NEW s \in Step, ~Refused(n, s)
    PROVE  /\ Sound(Made(n, s)) /\ n.type # "scalar"
           /\ isKeyStep(s) => isDictionary(Made(n, s))
           /\ ~isKeyStep(s) => isArray(Made(n, s))
           /\ \A o \in Step : Child(Made(n, s), o) = Child(n, o)
<1>1. /\ isKeyStep(s) => isDictionary(Made(n, s))
      /\ ~isKeyStep(s) => isArray(Made(n, s))
  BY DEF Refused
<1>2. CASE isHole(n)
  <2> DEFINE m == IF isKeyStep(s) THEN EmptyDictionary ELSE Array(<<>>)
  <2>1. Made(n, s) = m
    BY <1>2 DEF Made
  <2>2. Barren(n) /\ n.type # "scalar"
    BY <1>2 DEF Barren, isHole, isDictionary, isArray
  <2>3. Sound(m)
    BY Leaves
  <2>4. ASSUME NEW o \in Step PROVE Child(m, o) = NoNode
    <3>1. ~Has(EmptyDictionary, o)
      <4>1. ~contains(EmptyDictionary, o.key)
        BY Leaves DEF contains
      <4>2. ~isArray(EmptyDictionary)
        BY DEF isArray, EmptyDictionary, Node
      <4> QED BY <4>1, <4>2 DEF Has
    <3>2. ~Has(Array(<<>>), o)
      <4>1. /\ ~isDictionary(Array(<<>>))
            /\ isKeyStep(o) \/ ~(o.index < Len(Array(<<>>).value))
        BY Leaves, StepFields DEF isDictionary, isArray
      <4> QED BY <4>1 DEF Has
    <3> QED BY <3>1, <3>2 DEF Child
  <2>5. ASSUME NEW o \in Step PROVE Child(n, o) = NoNode
    BY <2>2, BarrenChild
  <2> QED BY <1>1, <2>1, <2>2, <2>3, <2>4, <2>5
<1>3. CASE ~isHole(n)
  <2>1. Made(n, s) = n
    BY <1>3 DEF Made
  <2>2. n.type # "scalar"
    BY <1>1, <2>1 DEF isDictionary, isArray
  <2> QED BY <1>1, <2>1, <2>2
<1> QED BY <1>2, <1>3

LEMMA ResizeCorrect ==
    ASSUME NEW S, NEW v \in Seq(S), Hole \in S, NEW last \in Nat, last >= Len(v)
    PROVE  /\ resize(v, last) \in Seq(S) /\ Len(resize(v, last)) = last + 1
           /\ \A i \in 1..Len(v) : resize(v, last)[i] = v[i]
           /\ \A i \in (Len(v) + 1)..(last + 1) : resize(v, last)[i] = Hole
<1> DEFINE r == resize(v, last)
<1>0. Len(v) \in Nat /\ DOMAIN v = 1..Len(v) /\ \A i \in DOMAIN v : v[i] \in S
  OBVIOUS
<1>1. r = [i \in 1..(last + 1) |-> IF i \in DOMAIN v THEN v[i] ELSE Hole]
  BY DEF resize
<1>2. r \in [1..(last + 1) -> S]
  BY <1>0, <1>1
<1>3. r \in Seq(S) /\ Len(r) = last + 1
  BY <1>2
<1>4. \A i \in 1..Len(v) : i \in 1..(last + 1) /\ i \in DOMAIN v
  BY <1>0
<1>5. \A i \in (Len(v) + 1)..(last + 1) : i \in 1..(last + 1) /\ i \notin DOMAIN v
  BY <1>0
<1> QED BY <1>1, <1>3, <1>4, <1>5

\* operator[] makes room and disturbs nothing: there is a node at its step, and at
\* every other step the node that was there, or a Hole where there was none.
THEOREM OpenedCorrect ==
    ASSUME NEW n, Sound(n), NEW s \in Step, ~Refused(n, s)
    PROVE  /\ Sound(Opened(n, s)) /\ Has(Opened(n, s), s)
           /\ n.type # "scalar" /\ Opened(n, s).type # "scalar"
           /\ \A o \in Step : \/ Child(Opened(n, s), o) = Child(n, o)
                              \/ Child(n, o) = NoNode /\ Child(Opened(n, s), o) = Hole
<1> DEFINE m == Made(n, s)
           e == Opened(n, s)
<1>0. /\ Sound(m) /\ n.type # "scalar"
      /\ isKeyStep(s) => isDictionary(m)
      /\ ~isKeyStep(s) => isArray(m)
      /\ \A o \in Step : Child(m, o) = Child(n, o)
  BY MadeCorrect
<1>1. e = IF Has(m, s) THEN m
          ELSE IF isKeyStep(s) THEN add(m, s.key, Hole)
          ELSE [m EXCEPT !.value = resize(m.value, s.index)]
  BY DEF Opened
<1> HIDE DEF m, e
<1>2. CASE Has(m, s)
  BY <1>0, <1>1, <1>2 DEF isDictionary, isArray, m, e
<1>3. PICK S : m \in S /\ Hole \in S /\ Forest(S) /\ Holds(m, S)
  BY <1>0, Leaves, SoundTogether
<1>4. CASE ~Has(m, s) /\ isKeyStep(s)
  <2>1. WellFormed(m, Names, S) /\ s.key \in Names /\ s.key \notin Keys(m)
    BY <1>0, <1>3, <1>4, StepFields, DictionaryChild DEF Holds
  <2>2. e = add(m, s.key, Hole)
    BY <1>1, <1>4
  <2>3. /\ WellFormed(e, Names, S) /\ Keys(e) = Keys(m) \union {s.key}
        /\ at(e, s.key) = Hole /\ \A j \in Keys(m) \ {s.key} : at(e, j) = at(m, j)
    BY <1>3, <2>1, <2>2, AddCorrect
  <2>4. Has(e, s) /\ e.type # "scalar" /\ Holds(e, S)
    BY <1>4, <2>3, DictionaryChild DEF Holds
  <2>5. ASSUME NEW o \in Step
        PROVE  \/ Child(e, o) = Child(m, o)
               \/ Child(m, o) = NoNode /\ Child(e, o) = Hole
    BY <2>1, <2>3, StepFields, DictionaryChild
  <2>6. Sound(e)
    BY <1>3, <2>4, SoundNode
  <2> QED BY <1>0, <2>4, <2>5, <2>6 DEF e
<1>5. CASE ~Has(m, s) /\ ~isKeyStep(s)
  <2>1. WellFormedArray(m, S) /\ s.index \in Nat /\ ~(s.index < Len(m.value))
    BY <1>0, <1>3, <1>5, StepFields, ArrayChild DEF Holds
  <2> DEFINE v == resize(m.value, s.index)
  <2>2. /\ m.value \in Seq(S) /\ Len(m.value) \in Nat
        /\ m = [type |-> "array", text |-> 0, value |-> m.value, index |-> <<>>]
    BY <2>1, ArrayFields
  <2>3. /\ v \in Seq(S) /\ Len(v) = s.index + 1
        /\ \A i \in 1..Len(m.value) : v[i] = m.value[i]
        /\ \A i \in (Len(m.value) + 1)..(s.index + 1) : v[i] = Hole
    BY <1>3, <2>1, <2>2, ResizeCorrect
  <2>4. e = [m EXCEPT !.value = v]
    BY <1>1, <1>5
  <2> HIDE DEF v
  <2>5. e = [type |-> "array", text |-> 0, value |-> v, index |-> <<>>] /\ e.value = v
    BY <2>2, <2>4
  <2>6. WellFormedArray(e, S)
    BY <2>3, <2>5, IsArrayOf
  <2>7. Has(e, s) /\ e.type # "scalar" /\ Holds(e, S)
    BY <1>5, <2>1, <2>3, <2>5, <2>6, ArrayChild DEF Holds
  <2>8. ASSUME NEW o \in Step
        PROVE  \/ Child(e, o) = Child(m, o)
               \/ Child(m, o) = NoNode /\ Child(e, o) = Hole
    <3>1. CASE ~isKeyStep(o) /\ o.index < Len(m.value)
      <4>1. o.index + 1 \in 1..Len(m.value) /\ o.index < s.index + 1
        BY <2>1, <2>2, <3>1, StepFields
      <4>2. v[o.index + 1] = m.value[o.index + 1]
        BY <4>1, <2>3
      <4>3. Child(e, o) = v[o.index + 1]
        BY <2>3, <2>5, <2>6, <3>1, <4>1, ArrayChild
      <4>4. Child(m, o) = m.value[o.index + 1]
        BY <2>1, <3>1, ArrayChild
      <4> QED BY <4>2, <4>3, <4>4
    <3>2. CASE ~isKeyStep(o) /\ ~(o.index < Len(m.value)) /\ o.index < s.index + 1
      <4>1. o.index + 1 \in (Len(m.value) + 1)..(s.index + 1)
        BY <2>1, <2>2, <3>2, StepFields
      <4>2. v[o.index + 1] = Hole
        BY <4>1, <2>3
      <4>3. Child(e, o) = v[o.index + 1]
        BY <2>3, <2>5, <2>6, <3>2, ArrayChild
      <4>4. Child(m, o) = NoNode
        BY <2>1, <3>2, ArrayChild
      <4> QED BY <4>2, <4>3, <4>4
    <3>3. CASE isKeyStep(o) \/ (~(o.index < Len(m.value)) /\ ~(o.index < s.index + 1))
      BY <2>1, <2>3, <2>5, <2>6, <3>3, ArrayChild
    <3> QED BY <3>1, <3>2, <3>3
  <2>9. Sound(e)
    BY <1>3, <2>7, SoundNode
  <2> QED BY <1>0, <2>7, <2>8, <2>9 DEF e
<1> QED BY <1>2, <1>4, <1>5
-----------------------------------------------------------------------------
(* What writing a node does to the tree.                                       *)

\* Every step of the path leads to something.
Valid(t, r) == \A i \in 1..Len(r) : Has(Walk(t, r)[i - 1], r[i])

LEMMA WalkSound ==
    ASSUME NEW t, Sound(t), NEW p \in Seq(Step)
    PROVE  \A i \in 0..Len(p) : Sound(Walk(t, p)[i])
<1> DEFINE T == {i \in 0..Len(p) : Sound(Walk(t, p)[i])}
<1>0. Len(p) \in Nat
  OBVIOUS
<1>1. 0 \in T
  BY <1>0, WalkFacts
<1>2. ASSUME NEW i \in 0..(Len(p) - 1), i \in T PROVE i + 1 \in T
  <2>1. i + 1 \in 1..Len(p) /\ i + 1 \in 0..Len(p) /\ (i + 1) - 1 = i /\ p[i + 1] \in Step
    BY <1>0
  <2>2. Walk(t, p)[i + 1] = Child(Walk(t, p)[i], p[i + 1])
    BY <2>1, WalkFacts
  <2> QED BY <1>2, <2>1, <2>2, ChildSound
<1>3. \A i \in 0..Len(p) : i \in T
  <2> HIDE DEF T
  <2> QED BY <1>0, <1>1, <1>2, Upward
<1> QED BY <1>3

LEMMA PutsCorrect ==
    ASSUME NEW t, Sound(t), NEW r \in Seq(Step), Valid(t, r), NEW new, Sound(new)
    PROVE  LET P == Puts(t, r, new)
               W == Walk(t, r)
           IN  /\ P[0] = Put(t, r, new) /\ P[Len(r)] = new
               /\ \A i \in 0..Len(r) : Sound(P[i])
               /\ \A i \in 0..(Len(r) - 1) :
                    /\ P[i].type \in {"dictionary", "array"} /\ Has(P[i], r[i + 1])
                    /\ Child(P[i], r[i + 1]) = P[i + 1]
                    /\ \A o \in Step \ {r[i + 1]} : Child(P[i], o) = Child(W[i], o)
<1> DEFINE P == Puts(t, r, new)
           W == Walk(t, r)
           T == {i \in 0..Len(r) : Sound(P[i])}
<1>0. Len(r) \in Nat /\ Len(r) \in 0..Len(r)
  OBVIOUS
<1>1. P[0] = Put(t, r, new) /\ P[Len(r)] = new
  <2>1. P[0] = Put(t, r, new)
    BY <1>0, PutsIs
  <2>2. P = [i \in 0..Len(r) |->
              IF i = Len(r) THEN new ELSE Replaced(W[i], r[i + 1], P[i + 1])]
    BY <1>0, PutsIs
  <2> HIDE DEF P, W
  <2>3. P[Len(r)] = new
    BY <1>0, <2>2
  <2> QED BY <2>1, <2>3
<1>2. ASSUME NEW i \in 0..(Len(r) - 1)
      PROVE  /\ P[i] = Replaced(W[i], r[i + 1], P[i + 1])
             /\ Sound(W[i]) /\ r[i + 1] \in Step /\ Has(W[i], r[i + 1])
  <2>1. /\ i \in 0..Len(r) /\ i # Len(r) /\ i + 1 \in 1..Len(r) /\ (i + 1) - 1 = i
        /\ r[i + 1] \in Step
    BY <1>0
  <2>2. P[i] = Replaced(W[i], r[i + 1], P[i + 1])
    BY <1>0, <2>1, PutsIs
  <2>3. Sound(W[i])
    BY <2>1, WalkSound
  <2>4. Has(W[i], r[i + 1])
    BY <2>1 DEF Valid
  <2> QED BY <2>1, <2>2, <2>3, <2>4
<1> HIDE DEF P, W
<1>3. Len(r) \in T
  BY <1>0, <1>1
<1>4. ASSUME NEW i \in 0..(Len(r) - 1), i + 1 \in T PROVE i \in T
  <2>1. i \in 0..Len(r)
    BY <1>0
  <2> QED BY <1>2, <1>4, <2>1, ReplacedCorrect
<1>5. \A i \in 0..Len(r) : i \in T
  <2> HIDE DEF T
  <2> QED BY <1>0, <1>3, <1>4, Downward
<1>6. ASSUME NEW i \in 0..(Len(r) - 1)
      PROVE  /\ P[i].type \in {"dictionary", "array"} /\ Has(P[i], r[i + 1])
             /\ Child(P[i], r[i + 1]) = P[i + 1]
             /\ \A o \in Step \ {r[i + 1]} : Child(P[i], o) = Child(W[i], o)
  <2>1. i + 1 \in 0..Len(r)
    BY <1>0
  <2>2. Sound(P[i + 1])
    BY <1>5, <2>1
  <2> HIDE DEF T
  <2> QED BY <1>2, <2>2, ReplacedCorrect
<1> QED BY <1>1, <1>5, <1>6 DEF P, W

\* A path leads through what was put as far as it agrees with that node's.
LEMMA PutWalk ==
    ASSUME NEW t, Sound(t), NEW r \in Seq(Step), Valid(t, r), NEW new, Sound(new),
           NEW q \in Seq(Step), NEW n \in Nat, n <= Len(r), n <= Len(q),
           \A i \in 1..n : q[i] = r[i]
    PROVE  \A i \in 0..n : Walk(Put(t, r, new), q)[i] = Puts(t, r, new)[i]
<1> DEFINE P == Puts(t, r, new)
           X == Walk(Put(t, r, new), q)
           T == {i \in 0..n : X[i] = P[i]}
<1>0. Len(r) \in Nat /\ Len(q) \in Nat
  OBVIOUS
<1>1. 0 \in T
  BY PutsCorrect, WalkFacts
<1>2. ASSUME NEW i \in 0..(n - 1), i \in T PROVE i + 1 \in T
  <2>1. /\ i + 1 \in 0..n /\ i + 1 \in 1..n /\ i + 1 \in 1..Len(q) /\ (i + 1) - 1 = i
        /\ i \in 0..(Len(r) - 1)
    BY <1>0
  <2>2. X[i + 1] = Child(X[i], r[i + 1])
    BY <2>1, WalkFacts
  <2>3. Child(P[i], r[i + 1]) = P[i + 1]
    BY <2>1, PutsCorrect
  <2> QED BY <1>2, <2>1, <2>2, <2>3
<1>3. \A i \in 0..n : i \in T
  <2> HIDE DEF T
  <2> QED BY <1>1, <1>2, Upward
<1> QED BY <1>3

\* Either a path goes on from r, or it ends on the way, or it leaves r somewhere.
LEMMA HowPathsMeet ==
    ASSUME NEW r \in Seq(Step), NEW q \in Seq(Step)
    PROVE  /\ IsAt(r, q) <=> Len(r) <= Len(q) /\ \A i \in 1..Len(r) : q[i] = r[i]
           /\ ~IsAt(r, q) =>
                \E n \in 0..Len(q) :
                   /\ n < Len(r) /\ \A i \in 1..n : q[i] = r[i]
                   /\ n < Len(q) => q[n + 1] # r[n + 1]
<1>0. Len(r) \in Nat /\ Len(q) \in Nat
  OBVIOUS
<1>1. IsAt(r, q) <=> Len(r) <= Len(q) /\ \A i \in 1..Len(r) : q[i] = r[i]
  <2>1. ASSUME Len(r) <= Len(q)
        PROVE  SubSeq(q, 1, Len(r)) = r <=> \A i \in 1..Len(r) : q[i] = r[i]
    <3> DEFINE u == SubSeq(q, 1, Len(r))
    <3>1. /\ u \in Seq(Step) /\ Len(u) = Len(r) /\ \A i \in 1..Len(r) : u[i] = q[i]
      BY <1>0, <2>1
    <3> HIDE DEF u
    <3>2. ASSUME \A i \in 1..Len(r) : q[i] = r[i] PROVE u = r
      BY <3>1, <3>2, SeqEqual
    <3> QED BY <3>1, <3>2 DEF u
  <2> QED BY <2>1 DEF IsAt
<1>2. ASSUME ~IsAt(r, q)
      PROVE  \E n \in 0..Len(q) :
                /\ n < Len(r) /\ \A i \in 1..n : q[i] = r[i]
                /\ n < Len(q) => q[n + 1] # r[n + 1]
  <2> DEFINE T == {n \in 1..Len(r) : n <= Len(q) => q[n] # r[n]}
  <2>1. T # {}
    BY <1>0, <1>1, <1>2
  <2>2. T \subseteq Nat
    BY <1>0
  <2>3. PICK m \in T : \A k \in T : m <= k
    <3> HIDE DEF T
    <3> QED BY <2>1, <2>2, Least
  <2>4. \A i \in 1..(m - 1) : i <= Len(q) /\ q[i] = r[i]
    <3>1. ASSUME NEW i \in 1..(m - 1) PROVE i \notin T /\ i \in 1..Len(r)
      BY <1>0, <2>2, <2>3
    <3> QED BY <3>1
  <2>5. m - 1 \in 0..Len(q) /\ m - 1 < Len(r) /\ (m - 1) + 1 = m
    BY <1>0, <2>3, <2>4
  <2>6. m - 1 < Len(q) => q[(m - 1) + 1] # r[(m - 1) + 1]
    BY <1>0, <2>3, <2>5
  <2> QED BY <2>4, <2>5, <2>6
<1> QED BY <1>1, <1>2

\* A path that goes on from where a node was put is a path from that node; a path
\* that leaves the way there leads to what it led to before, and one that ends on the
\* way leads to a container, as it did.
THEOREM PutCorrect ==
    ASSUME NEW t, Sound(t), NEW r \in Seq(Step), Valid(t, r), NEW new, Sound(new),
           NEW q \in Seq(Step)
    PROVE  LET u == Put(t, r, new)
           IN  /\ Sound(u)
               /\ IsAt(r, q) => /\ From(r, q) \in Seq(Step)
                                /\ At(u, q) = At(new, From(r, q))
                                /\ At(t, q) = At(At(t, r), From(r, q))
               /\ ~IsAt(r, q) => \/ At(u, q) = At(t, q)
                                 \/ At(u, q).type # "scalar" /\ At(t, q).type # "scalar"
<1> DEFINE P == Puts(t, r, new)
           u == Put(t, r, new)
<1>0. Len(r) \in Nat /\ Len(q) \in Nat
  OBVIOUS
<1>1. Sound(u)
  <2>1. 0 \in 0..Len(r)
    BY <1>0
  <2> QED BY <2>1, PutsCorrect
<1>2. ASSUME IsAt(r, q)
      PROVE  /\ From(r, q) \in Seq(Step)
             /\ At(u, q) = At(new, From(r, q))
             /\ At(t, q) = At(At(t, r), From(r, q))
  <2>1. Len(r) \in 0..Len(q) /\ Len(r) \in 0..Len(r) /\ \A i \in 1..Len(r) : q[i] = r[i]
    BY <1>0, <1>2, HowPathsMeet
  <2>2. Walk(u, q)[Len(r)] = new
    <3>1. Walk(u, q)[Len(r)] = P[Len(r)]
      BY <1>0, <2>1, PutWalk
    <3>2. P[Len(r)] = new
      BY PutsCorrect
    <3> QED BY <3>1, <3>2
  <2>3. Walk(t, q)[Len(r)] = At(t, r)
    BY <1>0, <2>1, WalkSame DEF At
  <2> QED BY <2>1, <2>2, <2>3, WalkOn DEF From
<1>3. ASSUME ~IsAt(r, q)
      PROVE  \/ At(u, q) = At(t, q)
             \/ At(u, q).type # "scalar" /\ At(t, q).type # "scalar"
  <2>1. PICK n \in 0..Len(q) : /\ n < Len(r) /\ \A i \in 1..n : q[i] = r[i]
                               /\ n < Len(q) => q[n + 1] # r[n + 1]
    BY <1>3, HowPathsMeet
  <2>2. /\ n \in Nat /\ n <= Len(r) /\ n <= Len(q) /\ n \in 0..n
        /\ n \in 0..(Len(r) - 1) /\ n \in 0..Len(r) /\ n + 1 \in 1..Len(r)
        /\ n + 1 - 1 = n /\ r[n + 1] \in Step
    BY <1>0, <2>1
  <2>3. Walk(u, q)[n] = P[n]
    BY <2>1, <2>2, PutWalk
  <2>4. Walk(t, q)[n] = Walk(t, r)[n]
    BY <2>1, <2>2, WalkSame
  <2>5. CASE n = Len(q)
    <3>1. P[n].type # "scalar"
      BY <2>2, PutsCorrect
    <3>2. Walk(t, r)[n].type # "scalar"
      <4>1. Has(Walk(t, r)[n], r[n + 1])
        BY <2>2 DEF Valid
      <4> QED BY <4>1 DEF Has, isDictionary, isArray
    <3> QED BY <2>3, <2>4, <2>5, <3>1, <3>2 DEF At
  <2>6. CASE n < Len(q)
    <3>1. n + 1 \in 1..Len(q) /\ n + 1 \in 0..Len(q) /\ q[n + 1] \in Step \ {r[n + 1]}
      BY <1>0, <2>1, <2>2, <2>6
    <3>2. Child(P[n], q[n + 1]) = Child(Walk(t, r)[n], q[n + 1])
      BY <2>2, <3>1, PutsCorrect
    <3>3. Walk(u, q)[n + 1] = Walk(t, q)[n + 1]
      BY <2>2, <2>3, <2>4, <3>1, <3>2, WalkFacts
    <3>4. At(u, q) = At(t, q)
      BY <3>1, <3>3, WalkOn
    <3> QED BY <3>4
  <2> QED BY <1>0, <2>1, <2>5, <2>6
<1> QED BY <1>1, <1>2, <1>3

\* What an expression refers to stays there when it is written to, and the next step
\* leads to something when there is a place for it.
LEMMA PutValid ==
    ASSUME NEW t, Sound(t), NEW r \in Seq(Step), Valid(t, r), NEW new, Sound(new),
           NEW s \in Step, Has(new, s)
    PROVE  Append(r, s) \in Seq(Step) /\ Valid(Put(t, r, new), Append(r, s))
<1> DEFINE u == Put(t, r, new)
           q == Append(r, s)
<1>0. /\ Len(r) \in Nat /\ q \in Seq(Step) /\ Len(q) = Len(r) + 1 /\ q[Len(r) + 1] = s
      /\ \A i \in 1..Len(r) : q[i] = r[i]
  OBVIOUS
<1> HIDE DEF q, u
<1>1. \A i \in 0..Len(r) : Walk(u, q)[i] = Puts(t, r, new)[i]
  <2>1. Len(r) <= Len(r) /\ Len(r) <= Len(q)
    BY <1>0
  <2> QED BY <1>0, <2>1, PutWalk DEF u
<1>2. ASSUME NEW i \in 1..Len(q) PROVE Has(Walk(u, q)[i - 1], q[i])
  <2>1. CASE i = Len(r) + 1
    <3>1. i - 1 = Len(r) /\ Len(r) \in 0..Len(r)
      BY <1>0, <2>1
    <3>2. Puts(t, r, new)[Len(r)] = new
      BY PutsCorrect
    <3>3. Walk(u, q)[i - 1] = new
      BY <1>1, <3>1, <3>2
    <3> QED BY <1>0, <2>1, <3>3
  <2>2. CASE i # Len(r) + 1
    <3>1. /\ i \in 1..Len(r) /\ i - 1 \in 0..(Len(r) - 1) /\ i - 1 \in 0..Len(r)
          /\ (i - 1) + 1 = i /\ q[i] = r[i]
      BY <1>0, <2>2
    <3>2. Has(Puts(t, r, new)[i - 1], r[(i - 1) + 1])
      BY <3>1, PutsCorrect
    <3> QED BY <1>1, <3>1, <3>2
  <2> QED BY <2>1, <2>2
<1> QED BY <1>0, <1>2 DEF Valid, q, u
-----------------------------------------------------------------------------
(* The scalars of a tree.                                                      *)

Alike(x, y) ==
    /\ x.type = "scalar" <=> y.type = "scalar"
    /\ x.type = "scalar" => x.text = y.text

LEMMA InContents ==
    ASSUME NEW t
    PROVE  \A x : x \in Contents(t) <=>
              \E p \in Places : /\ At(t, p).type = "scalar"
                                /\ x = [path |-> p, text |-> At(t, p).text]
<1> DEFINE Q == {q \in Places : At(t, q).type = "scalar"}
           f(p) == [path |-> p, text |-> At(t, p).text]
<1>1. Contents(t) = {f(p) : p \in Q}
  BY DEF Contents
<1>2. \A p : p \in Q <=> p \in Places /\ At(t, p).type = "scalar"
  OBVIOUS
<1> HIDE DEF Q
<1> QED BY <1>1, <1>2

LEMMA ContentsAlike ==
    ASSUME NEW t, NEW u, \A q \in Places : Alike(At(t, q), At(u, q))
    PROVE  Contents(t) = Contents(u)
<1>1. ASSUME NEW x PROVE x \in Contents(t) <=> x \in Contents(u)
  BY InContents DEF Alike
<1> QED BY <1>1

LEMMA ChildrenAlike ==
    ASSUME NEW n, n.type # "scalar", NEW e, e.type # "scalar",
           \A o \in Step : \/ Child(e, o) = Child(n, o)
                           \/ Child(n, o) = NoNode /\ Child(e, o) = Hole,
           NEW q \in Seq(Step)
    PROVE  Alike(At(n, q), At(e, q))
<1>0. Len(q) \in Nat
  OBVIOUS
<1>1. CASE Len(q) = 0
  <2>1. At(n, q) = n /\ At(e, q) = e
    BY <1>1, WalkFacts DEF At
  <2> QED BY <2>1 DEF Alike
<1>2. CASE Len(q) # 0
  <2>1. 1 \in 1..Len(q) /\ 1 \in 0..Len(q) /\ 1 - 1 = 0 /\ q[1] \in Step
    BY <1>0, <1>2
  <2> DEFINE r == SubSeq(q, 1 + 1, Len(q))
  <2>2. /\ r \in Seq(Step)
        /\ At(n, q) = At(Walk(n, q)[1], r) /\ At(e, q) = At(Walk(e, q)[1], r)
    BY <2>1, WalkOn
  <2>3. Walk(n, q)[1] = Child(n, q[1]) /\ Walk(e, q)[1] = Child(e, q[1])
    BY <2>1, WalkFacts
  <2> HIDE DEF r
  <2>4. CASE Child(e, q[1]) = Child(n, q[1])
    BY <2>2, <2>3, <2>4 DEF Alike
  <2>5. CASE Child(n, q[1]) = NoNode /\ Child(e, q[1]) = Hole
    BY <2>2, <2>3, <2>5, BarrenPath, Leaves DEF Alike
  <2> QED BY <2>1, <2>4, <2>5
<1> QED BY <1>1, <1>2

LEMMA OpenedAlike ==
    ASSUME NEW n, Sound(n), NEW s \in Step, ~Refused(n, s), NEW q \in Seq(Step)
    PROVE  Alike(At(n, q), At(Opened(n, s), q))
BY OpenedCorrect, ChildrenAlike

\* A new root holds no scalars.
LEMMA NewRoot ==
    ASSUME NEW s \in Step
    PROVE  LET root == IF isKeyStep(s) THEN EmptyDictionary ELSE Array(<<>>)
           IN  Sound(root) /\ Contents(root) = {} /\ Contents(NoNode) = {}
<1> DEFINE root == IF isKeyStep(s) THEN EmptyDictionary ELSE Array(<<>>)
<1>1. Made(Hole, s) = root
  BY DEF Made, isHole, Hole, Node
<1>2. ~Refused(Hole, s)
  BY <1>1, Leaves DEF Refused
<1> HIDE DEF root
<1>3. Sound(root) /\ \A o \in Step : Child(root, o) = Child(Hole, o)
  BY <1>1, <1>2, Leaves, MadeCorrect
<1>4. root.type # "scalar"
  BY Leaves DEF root, isDictionary, isArray
<1>5. \A q \in Places : At(root, q).type # "scalar"
  <2>1. ASSUME NEW q \in Seq(Step) PROVE At(root, q).type # "scalar"
    BY <1>3, <1>4, Leaves, ChildrenAlike, BarrenPath DEF Alike
  <2> QED BY <2>1, TreeAssumption
<1>6. \A q \in Places : At(NoNode, q).type # "scalar"
  BY TreeAssumption, Leaves, BarrenPath
<1> QED BY <1>3, <1>5, <1>6, InContents DEF root

\* An access that makes what is not there disturbs no scalar.
THEOREM IndexKeepsContents ==
    ASSUME NEW t, Sound(t), NEW r \in Seq(Step), Valid(t, r), NEW s \in Step,
           ~Refused(At(t, r), s)
    PROVE  Contents(Put(t, r, Opened(At(t, r), s))) = Contents(t)
<1> DEFINE n == At(t, r)
           e == Opened(n, s)
           u == Put(t, r, e)
<1>1. Sound(n)
  <2>1. Len(r) \in 0..Len(r)
    OBVIOUS
  <2> QED BY <2>1, WalkSound DEF At
<1>2. Sound(e)
  BY <1>1, OpenedCorrect
<1> HIDE DEF n
<1>3. ASSUME NEW q \in Seq(Step) PROVE Alike(At(u, q), At(t, q))
  <2>1. CASE IsAt(r, q)
    <3>1. /\ From(r, q) \in Seq(Step)
          /\ At(u, q) = At(e, From(r, q)) /\ At(t, q) = At(n, From(r, q))
      BY <1>2, <2>1, PutCorrect DEF n
    <3>2. Alike(At(n, From(r, q)), At(e, From(r, q)))
      BY <1>1, <3>1, OpenedAlike DEF n
    <3> QED BY <3>1, <3>2 DEF Alike
  <2>2. CASE ~IsAt(r, q)
    <3>1. \/ At(u, q) = At(t, q)
          \/ At(u, q).type # "scalar" /\ At(t, q).type # "scalar"
      BY <1>2, <2>2, PutCorrect
    <3> QED BY <3>1 DEF Alike
  <2> QED BY <2>1, <2>2
<1>4. \A q \in Places : Alike(At(u, q), At(t, q))
  BY <1>3, TreeAssumption
<1> HIDE DEF u
<1> QED BY <1>4, ContentsAlike DEF u, n

\* An assignment changes the scalars at and below the node that is written, to those
\* of the value, and no other.
THEOREM AssignChangesContents ==
    ASSUME NEW t, Sound(t), NEW r \in Seq(Step), Valid(t, r), NEW v, Sound(v),
           Contents(t) = written
    PROVE  Contents(Put(t, r, v)) = WrittenAt(r, v)
<1> DEFINE u == Put(t, r, v)
           old == {w \in written : ~IsAt(r, w.path)}
           Q == {q \in Places : IsAt(r, q) /\ At(v, From(r, q)).type = "scalar"}
           f(p) == [path |-> p, text |-> At(v, From(r, p)).text]
           new == {f(p) : p \in Q}
<1>1. ASSUME NEW q \in Places
      PROVE  /\ IsAt(r, q) => At(u, q) = At(v, From(r, q))
             /\ ~IsAt(r, q) => Alike(At(u, q), At(t, q))
  <2>1. q \in Seq(Step)
    BY TreeAssumption
  <2> QED BY <2>1, PutCorrect DEF Alike
<1>2. WrittenAt(r, v) = old \union new
  BY DEF WrittenAt
<1>3. ASSUME NEW x PROVE x \in old <=>
        \E p \in Places : /\ ~IsAt(r, p) /\ At(t, p).type = "scalar"
                          /\ x = [path |-> p, text |-> At(t, p).text]
  <2>1. x \in old <=> x \in Contents(t) /\ ~IsAt(r, x.path)
    OBVIOUS
  <2> QED BY <2>1, InContents
<1>4. ASSUME NEW x PROVE x \in new <=>
        \E p \in Places : /\ IsAt(r, p) /\ At(v, From(r, p)).type = "scalar"
                          /\ x = [path |-> p, text |-> At(v, From(r, p)).text]
  <2>1. \A p : p \in Q <=> p \in Places /\ IsAt(r, p) /\ At(v, From(r, p)).type = "scalar"
    OBVIOUS
  <2> HIDE DEF Q
  <2> QED BY <2>1
<1> HIDE DEF u, old, new
<1>5. ASSUME NEW x PROVE x \in Contents(u) <=> x \in old \union new
  BY <1>1, <1>3, <1>4, InContents DEF Alike
<1> QED BY <1>2, <1>5 DEF u
-----------------------------------------------------------------------------
(* The nodes of a tree.                                                        *)

Levels(node) ==
    LET level[i \in 0..Depth] ==
            IF i = 0 THEN {node} ELSE UNION {Below(n) : n \in level[i - 1]}
    IN  level

LEMMA LevelsIs ==
    ASSUME NEW node
    PROVE  /\ Levels(node) = [i \in 0..Depth |->
                IF i = 0 THEN {node} ELSE UNION {Below(n) : n \in Levels(node)[i - 1]}]
           /\ NodesIn(node) = UNION {Levels(node)[i] : i \in 0..Depth}
<1> DEFINE D(x) == UNION {Below(n) : n \in x}
           T == {n \in Nat : \E g : g = [i \in 0..n |->
                    IF i = 0 THEN {node} ELSE D(g[i - 1])]}
<1> HIDE DEF D
<1>1. 0 \in T
  <2> DEFINE h == [i \in 0..0 |-> {node}]
  <2>1. h = [i \in 0..0 |-> IF i = 0 THEN {node} ELSE D(h[i - 1])]
    OBVIOUS
  <2> QED BY <2>1
<1>2. ASSUME NEW n \in 0..(Depth - 1), n \in T PROVE n + 1 \in T
  <2>1. n \in Nat /\ n + 1 \in Nat
    OBVIOUS
  <2>2. PICK g : g = [i \in 0..n |-> IF i = 0 THEN {node} ELSE D(g[i - 1])]
    BY <1>2
  <2> DEFINE h == [i \in 0..(n + 1) |-> IF i = n + 1 THEN D(g[n]) ELSE g[i]]
  <2>3. ASSUME NEW i \in 0..(n + 1)
        PROVE  h[i] = IF i = 0 THEN {node} ELSE D(h[i - 1])
    <3>1. CASE i = n + 1
      BY <3>1, <2>1
    <3>2. CASE i # n + 1
      <4>1. /\ i \in 0..n /\ h[i] = g[i]
            /\ i # 0 => i - 1 \in 0..n /\ i - 1 # n + 1 /\ i - 1 \in 0..(n + 1)
        BY <3>2, <2>1
      <4> QED BY <2>2, <4>1
    <3> QED BY <3>1, <3>2
  <2>4. h = [i \in 0..(n + 1) |-> h[i]]
    OBVIOUS
  <2>5. h = [i \in 0..(n + 1) |-> IF i = 0 THEN {node} ELSE D(h[i - 1])]
    <3> HIDE DEF h
    <3> QED BY <2>3, <2>4
  <2> QED BY <2>1, <2>5
<1>3. Depth \in T
  <2> HIDE DEF T
  <2>1. Depth \in Nat /\ Depth \in 0..Depth
    BY TreeAssumption
  <2> QED BY <1>1, <1>2, <2>1, Upward
<1>4. PICK g : g = [i \in 0..Depth |-> IF i = 0 THEN {node} ELSE D(g[i - 1])]
  BY <1>3
<1>5. Levels(node) = [i \in 0..Depth |->
          IF i = 0 THEN {node} ELSE UNION {Below(n) : n \in Levels(node)[i - 1]}]
  BY <1>4 DEF Levels, D
<1>6. NodesIn(node) = UNION {Levels(node)[i] : i \in 0..Depth}
  BY DEF NodesIn, Levels
<1> QED BY <1>5, <1>6

LEMMA BelowInForest ==
    ASSUME NEW S, Forest(S), NEW n \in S
    PROVE  Below(n) \subseteq S
<1>1. CASE isDictionary(n)
  <2>1. \A i \in DOMAIN n.value : n.value[i].node \in S
    BY <1>1, DictionaryFields DEF Forest, Holds, Entries
  <2>2. Below(n) = {n.value[i].node : i \in DOMAIN n.value}
    BY <1>1 DEF Below, isDictionary, isArray
  <2> QED BY <2>1, <2>2
<1>2. CASE isArray(n)
  <2>1. \A i \in DOMAIN n.value : n.value[i] \in S
    BY <1>2, ArrayFields DEF Forest, Holds
  <2>2. Below(n) = {n.value[i] : i \in DOMAIN n.value}
    BY <1>2 DEF Below, isDictionary, isArray
  <2> QED BY <2>1, <2>2
<1>3. CASE ~isDictionary(n) /\ ~isArray(n)
  BY <1>3 DEF Below
<1> QED BY <1>1, <1>2, <1>3

\* In a sound tree every dictionary has an index that agrees with its entries.
LEMMA SoundIndexes ==
    ASSUME NEW t, Sound(t)
    PROVE  \A n \in NodesIn(t) : isDictionary(n) => IndexAgrees(n)
<1>1. PICK S : t \in S /\ Forest(S)
  BY DEF Sound
<1> DEFINE T == {i \in 0..Depth : Levels(t)[i] \subseteq S}
<1>2. Depth \in Nat
  BY TreeAssumption
<1>3. 0 \in T
  <2>1. 0 \in 0..Depth
    BY <1>2
  <2>2. Levels(t)[0] = {t}
    BY <2>1, LevelsIs
  <2> QED BY <1>1, <2>1, <2>2
<1>4. ASSUME NEW i \in 0..(Depth - 1), i \in T PROVE i + 1 \in T
  <2>1. i + 1 \in 0..Depth /\ i + 1 # 0 /\ (i + 1) - 1 = i
    BY <1>2
  <2>2. Levels(t)[i + 1] = UNION {Below(n) : n \in Levels(t)[i]}
    <3> DEFINE D(x) == UNION {Below(n) : n \in x}
    <3>1. Levels(t) = [k \in 0..Depth |-> IF k = 0 THEN {t} ELSE D(Levels(t)[k - 1])]
      BY LevelsIs
    <3> HIDE DEF D
    <3>2. Levels(t)[i + 1] = D(Levels(t)[i])
      BY <2>1, <3>1
    <3> QED BY <3>2 DEF D
  <2>3. \A n \in Levels(t)[i] : Below(n) \subseteq S
    BY <1>1, <1>4, BelowInForest
  <2> QED BY <2>1, <2>2, <2>3
<1>5. \A i \in 0..Depth : i \in T
  <2> HIDE DEF T
  <2> QED BY <1>2, <1>3, <1>4, Upward
<1>6. NodesIn(t) \subseteq S
  <2>1. \A i \in 0..Depth : Levels(t)[i] \subseteq S
    BY <1>5
  <2>2. NodesIn(t) = UNION {Levels(t)[i] : i \in 0..Depth}
    BY LevelsIs
  <2> QED BY <2>1, <2>2
<1>7. \A n \in S : isDictionary(n) => IndexAgrees(n)
  BY <1>1 DEF Forest, Holds, WellFormed
<1> QED BY <1>6, <1>7
-----------------------------------------------------------------------------
(* The static containers.                                                      *)

\* The first things of the root are in the static container, and nothing else.
Copied(held, whole, k) ==
    /\ k \in 0..Len(whole) /\ k <= N
    /\ held = [value |-> SubSeq(whole, 1, k), thrown |-> held.thrown]
    /\ held.thrown \in BOOLEAN

CopyInv ==
    /\ isDictionary(overrideRoot) \/ isArray(overrideRoot)
    /\ \E k \in 0..Len(overrideRoot.value) : Copied(static, overrideRoot.value, k)
    /\ static.thrown <=> (status = "copied" /\ Len(overrideRoot.value) > N)
    /\ status = "copied" /\ ~static.thrown => Copied(static, overrideRoot.value, Len(overrideRoot.value))

LEMMA RootFields ==
    ASSUME NEW n, Sound(n), isDictionary(n) \/ isArray(n)
    PROVE  \E S : n.value \in Seq(S)
<1>1. PICK S : n \in S /\ Forest(S)
  BY DEF Sound
<1>2. CASE isDictionary(n)
  BY <1>1, <1>2, DictionaryFields DEF Forest, Holds
<1>3. CASE isArray(n)
  BY <1>1, <1>3, ArrayFields DEF Forest, Holds
<1> QED BY <1>2, <1>3

LEMMA Taking ==
    ASSUME NEW S, NEW v \in Seq(S), NEW k \in 0..Len(v)
    PROVE  /\ SubSeq(v, 1, k) \in Seq(S) /\ Len(SubSeq(v, 1, k)) = k
           /\ \A i \in 1..k : SubSeq(v, 1, k)[i] = v[i]
           /\ SubSeq(v, 1, Len(v)) = v /\ SubSeq(v, 1, 0) = <<>>
           /\ k < Len(v) => Append(SubSeq(v, 1, k), v[k + 1]) = SubSeq(v, 1, k + 1)
<1>0. Len(v) \in Nat /\ k \in Nat
  OBVIOUS
<1>1. /\ SubSeq(v, 1, k) \in Seq(S) /\ Len(SubSeq(v, 1, k)) = k
      /\ \A i \in 1..k : SubSeq(v, 1, k)[i] = v[i]
  OBVIOUS
<1>2. SubSeq(v, 1, Len(v)) = v
  <2> DEFINE u == SubSeq(v, 1, Len(v))
  <2>1. u \in Seq(S) /\ Len(u) = Len(v) /\ \A i \in 1..Len(v) : u[i] = v[i]
    BY <1>0
  <2> HIDE DEF u
  <2>2. u = v
    BY <2>1, SeqEqual
  <2> QED BY <2>2 DEF u
<1>3. SubSeq(v, 1, 0) = <<>>
  OBVIOUS
<1>4. ASSUME k < Len(v) PROVE Append(SubSeq(v, 1, k), v[k + 1]) = SubSeq(v, 1, k + 1)
  <2> DEFINE u == SubSeq(v, 1, k)
             a == Append(u, v[k + 1])
             w == SubSeq(v, 1, k + 1)
  <2>1. /\ w \in Seq(S) /\ Len(w) = k + 1 /\ \A i \in 1..(k + 1) : w[i] = v[i]
        /\ v[k + 1] \in S
    BY <1>0, <1>4
  <2>2. u \in Seq(S) /\ Len(u) = k /\ \A i \in 1..k : u[i] = v[i]
    BY <1>1
  <2> HIDE DEF u, w
  <2>3. /\ a \in Seq(S) /\ Len(a) = k + 1 /\ a[k + 1] = v[k + 1]
        /\ \A i \in 1..k : a[i] = u[i]
    BY <1>0, <2>1, <2>2
  <2> HIDE DEF a
  <2>4. \A i \in 1..(k + 1) : a[i] = w[i]
    BY <1>0, <2>1, <2>2, <2>3
  <2>5. a = w
    BY <2>1, <2>3, <2>4, SeqEqual
  <2> QED BY <2>5 DEF a, u, w
<1> QED BY <1>1, <1>2, <1>3, <1>4

\* The linear search finds a key that is there, whatever else is.
LEMMA SearchFinds ==
    ASSUME NEW held, Len(held.value) \in Nat, DOMAIN held.value = 1..Len(held.value),
           NEW i \in DOMAIN held.value
    PROVE  staticContains(held, held.value[i].key)
<1> DEFINE key == held.value[i].key
           T == {j \in DOMAIN held.value : held.value[j].key = key}
           Leads(j) == /\ held.value[j].key = key
                       /\ \A l \in 1..(j - 1) : held.value[l].key # key
<1>1. i \in T /\ T \subseteq Nat /\ T # {}
  OBVIOUS
<1>2. PICK m \in T : \A l \in T : m <= l
  <2> HIDE DEF T
  <2> QED BY <1>1, Least
<1>3. m \in DOMAIN held.value /\ Leads(m)
  <2>1. m \in 1..Len(held.value)
    BY <1>2
  <2>2. ASSUME NEW l \in 1..(m - 1) PROVE held.value[l].key # key
    <3>1. l \in DOMAIN held.value /\ ~(m <= l)
      BY <2>1
    <3>2. l \notin T
      <4> HIDE DEF T
      <4> QED BY <1>2, <3>1
    <3> QED BY <3>1, <3>2
  <2> QED BY <1>2, <2>2
<1>4. findIndex(held, key) = CHOOSE j \in DOMAIN held.value : Leads(j)
  BY DEF findIndex
<1> HIDE DEF Leads
<1>5. findIndex(held, key) \in DOMAIN held.value
  BY <1>3, <1>4
<1> QED BY <1>5 DEF staticContains

LEMMA CopiedAlike ==
    ASSUME Sound(overrideRoot), status = "copied" => CopyInv
    PROVE  StaticAnswersAlike
<1> SUFFICES ASSUME status = "copied", CopyInv
             PROVE  /\ Len(static.value) <= N
                    /\ static.thrown <=> Len(overrideRoot.value) > N
                    /\ IsAt(static.value, overrideRoot.value)
                    /\ ~static.thrown => Len(static.value) = Len(overrideRoot.value)
                    /\ isDictionary(overrideRoot) /\ ~static.thrown =>
                         /\ \A k \in Keys(overrideRoot) : staticContains(static, k)
                         /\ UniqueKeys(overrideRoot) =>
                              \A k \in Keys(overrideRoot) :
                                  staticAt(static, k) = at(overrideRoot, k)
  BY DEF StaticAnswersAlike
<1> DEFINE v == overrideRoot.value
<1>1. PICK S : v \in Seq(S)
  BY RootFields DEF CopyInv
<1>2. PICK k \in 0..Len(v) : Copied(static, v, k)
  BY DEF CopyInv
<1>3. Len(v) \in Nat /\ DOMAIN v = 1..Len(v) /\ Len(v) \in 0..Len(v)
  BY <1>1
<1>4. Len(static.value) = k /\ static.value = SubSeq(v, 1, k) /\ k <= N
  BY <1>1, <1>2, Taking DEF Copied
<1>5. IsAt(static.value, v)
  BY <1>3, <1>4 DEF IsAt
<1>6. ASSUME ~static.thrown PROVE static.value = v
  <2>1. Copied(static, v, Len(v))
    BY <1>6 DEF CopyInv
  <2>2. static.value = SubSeq(v, 1, Len(v))
    BY <2>1 DEF Copied
  <2> QED BY <1>1, <1>3, <2>2, Taking
<1>7. ASSUME isDictionary(overrideRoot), ~static.thrown
      PROVE  /\ \A j \in Keys(overrideRoot) : staticContains(static, j)
             /\ UniqueKeys(overrideRoot) =>
                  \A j \in Keys(overrideRoot) : staticAt(static, j) = at(overrideRoot, j)
  <2>1. PICK T : overrideRoot \in T /\ Forest(T)
    BY DEF Sound
  <2>2. WellFormed(overrideRoot, Names, T)
    BY <1>7, <2>1 DEF Forest, Holds
  <2>3. ASSUME NEW j \in Keys(overrideRoot) PROVE staticContains(static, j)
    <3>1. PICK i \in DOMAIN v : v[i].key = j
      BY DEF Keys
    <3> QED BY <1>3, <1>6, <1>7, <3>1, SearchFinds
  <2>4. ASSUME UniqueKeys(overrideRoot), NEW j \in Keys(overrideRoot)
        PROVE  staticAt(static, j) = at(overrideRoot, j)
    <3>1. j \in Names /\ contains(overrideRoot, j)
      BY <2>2, DictionaryFields, ContainsKeys
    <3> QED BY <1>6, <1>7, <2>2, <2>4, <3>1, StaticFindsTheSame
  <2> QED BY <2>3, <2>4
<1>8. static.thrown <=> Len(v) > N
  BY DEF CopyInv
<1> QED BY <1>4, <1>5, <1>6, <1>7, <1>8

LEMMA CopyKeeps ==
    ASSUME CopyInv, Sound(overrideRoot), Copy
    PROVE  CopyInv'
<1> DEFINE v == overrideRoot.value
<1>1. PICK S : v \in Seq(S)
  BY RootFields DEF CopyInv
<1>2. PICK k \in 0..Len(v) : Copied(static, v, k)
  BY DEF CopyInv
<1>3. Len(v) \in Nat /\ k \in Nat /\ N \in Nat /\ Len(v) \in 0..Len(v)
  BY <1>1, TreeAssumption
<1>4. status = "copying" /\ static.thrown = FALSE /\ overrideRoot' = overrideRoot
  BY <1>2 DEF CopyInv, Copy, Copied
<1> DEFINE u == SubSeq(v, 1, k)
<1>5. static = [value |-> u, thrown |-> FALSE] /\ k <= N
  BY <1>2, <1>4 DEF Copied
<1>6. u \in Seq(S) /\ Len(u) = k /\ (k < Len(v) => Append(u, v[k + 1]) = SubSeq(v, 1, k + 1))
  BY <1>1, Taking
<1> HIDE DEF u
<1>7. static.value = u
  BY <1>5
<1>8. CASE k = Len(v)
  <2>1. status' = "copied" /\ static' = static
    BY <1>6, <1>7, <1>8 DEF Copy
  <2>2. ~(Len(v) > N)
    BY <1>3, <1>5, <1>8
  <2> QED BY <1>2, <1>4, <1>8, <2>1, <2>2 DEF CopyInv
<1>9. CASE k # Len(v)
  <2>1. /\ static' = staticAdd(static, v[k + 1], N)
        /\ status' = IF static'.thrown THEN "copied" ELSE "copying"
        /\ k < Len(v) /\ k + 1 \in 0..Len(v)
    BY <1>3, <1>4, <1>6, <1>7, <1>9 DEF Copy
  <2>2. CASE k >= N
    <3>1. static' = [value |-> u, thrown |-> TRUE]
      BY <1>5, <1>6, <1>7, <2>1, <2>2 DEF staticAdd, StaticFull
    <3>2. Copied(static', v, k)
      BY <1>5, <3>1 DEF Copied, u
    <3>3. static'.thrown = TRUE /\ status' = "copied" /\ Len(v) > N
      BY <1>3, <1>5, <2>1, <2>2, <3>1
    <3> QED BY <1>4, <3>2, <3>3 DEF CopyInv
  <2>3. CASE ~(k >= N)
    <3>1. static' = [value |-> Append(u, v[k + 1]), thrown |-> FALSE]
      BY <1>5, <1>6, <1>7, <2>1, <2>3 DEF staticAdd, StaticFull
    <3>2. Copied(static', v, k + 1)
      <4>1. static' = [value |-> SubSeq(v, 1, k + 1), thrown |-> FALSE]
        BY <1>6, <2>1, <3>1
      <4>2. static'.thrown = FALSE /\ k + 1 <= N
        BY <1>3, <2>3, <3>1
      <4> QED BY <2>1, <4>1, <4>2 DEF Copied
    <3>3. static'.thrown = FALSE /\ status' = "copying"
      BY <2>1, <3>1
    <3> QED BY <1>4, <2>1, <3>2, <3>3 DEF CopyInv
  <2> QED BY <2>2, <2>3
<1> QED BY <1>8, <1>9

LEMMA GrowKeeps ==
    ASSUME CopyInv, Sound(overrideRoot), NEW step \in Step, Grow(step)
    PROVE  /\ CopyInv' /\ Sound(overrideRoot')
           /\ Contents(overrideRoot') = Contents(overrideRoot)
<1> DEFINE v == overrideRoot.value
           last == step.index
           w == resize(v, last)
<1>0. /\ status = "copied" /\ status' = "copied" /\ ~isKeyStep(step)
      /\ isArray(overrideRoot) /\ ~static.thrown
      /\ static' = staticResize(static, last, N)
      /\ overrideRoot' = Opened(overrideRoot, step)
  BY DEF Grow
<1>1. Made(overrideRoot, step) = overrideRoot
  BY <1>0 DEF Made, isHole, isArray
<1>2. ~Refused(overrideRoot, step)
  BY <1>0, <1>1 DEF Refused
<1>3. Sound(overrideRoot')
  BY <1>0, <1>2, OpenedCorrect
<1>4. Contents(overrideRoot') = Contents(overrideRoot)
  <2>1. \A q \in Places : Alike(At(overrideRoot, q), At(overrideRoot', q))
    BY <1>0, <1>2, OpenedAlike, TreeAssumption
  <2> QED BY <2>1, ContentsAlike
<1>5. PICK S : overrideRoot \in S /\ Hole \in S /\ Forest(S) /\ Holds(overrideRoot, S)
  BY Leaves, SoundTogether
<1>6. /\ WellFormedArray(overrideRoot, S) /\ v \in Seq(S) /\ Len(v) \in Nat
      /\ overrideRoot = [type |-> "array", text |-> 0, value |-> v, index |-> <<>>]
  BY <1>0, <1>5, ArrayFields DEF Holds
<1>7. last \in Nat /\ N \in Nat
  BY <1>0, StepFields, TreeAssumption
<1>8. Has(overrideRoot, step) <=> last < Len(v)
  BY <1>0 DEF Has
<1>9. overrideRoot' = IF last < Len(v) THEN overrideRoot
                      ELSE [type |-> "array", text |-> 0, value |-> w, index |-> <<>>]
  <2>1. overrideRoot' = IF last < Len(v) THEN overrideRoot
                        ELSE [overrideRoot EXCEPT !.value = w]
    BY <1>0, <1>1, <1>8 DEF Opened
  <2> QED BY <1>6, <2>1
<1>10. Copied(static, v, Len(v)) /\ ~(Len(v) > N)
  BY <1>0 DEF CopyInv
<1>11. static = [value |-> v, thrown |-> FALSE]
  BY <1>0, <1>6, <1>10, Taking DEF Copied
<1>12. ~(last < Len(v)) =>
         /\ w \in Seq(S) /\ Len(w) = last + 1 /\ \A i \in 1..Len(v) : w[i] = v[i]
  BY <1>5, <1>6, <1>7, ResizeCorrect
<1> HIDE DEF last, w
<1>13. CASE last < Len(v)
  <2>1. static' = static /\ overrideRoot' = overrideRoot
    BY <1>0, <1>7, <1>6, <1>9, <1>10, <1>11, <1>13 DEF staticResize
  <2>2. CopyInv'
    BY <1>0, <2>1 DEF CopyInv
  <2> QED BY <1>3, <1>4, <2>2
<1>14. CASE ~(last < Len(v)) /\ last >= N
  <2>1. static' = [value |-> v, thrown |-> TRUE]
    BY <1>0, <1>11, <1>14 DEF staticResize
  <2>2. /\ w \in Seq(S) /\ Len(w) = last + 1 /\ \A i \in 1..Len(v) : w[i] = v[i]
    BY <1>12, <1>14
  <2>3. SubSeq(w, 1, Len(v)) = v /\ Len(v) \in 0..Len(w)
    <3> DEFINE x == SubSeq(w, 1, Len(v))
    <3>1. Len(v) \in 0..Len(w)
      BY <1>6, <1>7, <1>14, <2>2
    <3>2. x \in Seq(S) /\ Len(x) = Len(v) /\ \A i \in 1..Len(v) : x[i] = w[i]
      BY <2>2, <3>1, Taking
    <3> HIDE DEF x
    <3>3. x = v
      BY <1>6, <2>2, <3>2, SeqEqual
    <3> QED BY <3>1, <3>3 DEF x
  <2>4. overrideRoot'.value = w /\ isArray(overrideRoot')
    BY <1>9, <1>14 DEF isArray
  <2>5. Copied(static', w, Len(v)) /\ static'.thrown = TRUE
    BY <1>6, <1>7, <1>10, <2>1, <2>3 DEF Copied
  <2>6. Len(w) > N
    BY <1>7, <1>14, <2>2
  <2>7. CopyInv'
    BY <1>0, <2>3, <2>4, <2>5, <2>6 DEF CopyInv
  <2> QED BY <1>3, <1>4, <2>7
<1>15. CASE ~(last < Len(v)) /\ ~(last >= N)
  <2>1. static' = [value |-> w, thrown |-> FALSE]
    BY <1>0, <1>11, <1>15 DEF staticResize, w
  <2>2. w \in Seq(S) /\ Len(w) = last + 1 /\ Len(w) \in 0..Len(w)
    BY <1>7, <1>12, <1>15
  <2>3. overrideRoot'.value = w /\ isArray(overrideRoot')
    BY <1>9, <1>15 DEF isArray
  <2>4. SubSeq(w, 1, Len(w)) = w
    BY <2>2, Taking
  <2>5. Len(w) <= N /\ ~(Len(w) > N)
    BY <1>7, <1>15, <2>2
  <2>6. Copied(static', w, Len(w)) /\ static'.thrown = FALSE
    BY <2>1, <2>2, <2>4, <2>5 DEF Copied
  <2>7. CopyInv'
    BY <1>0, <2>2, <2>3, <2>5, <2>6 DEF CopyInv
  <2> QED BY <1>3, <1>4, <2>7
<1> QED BY <1>13, <1>14, <1>15
-----------------------------------------------------------------------------
(* The document in the hands of a program.                                     *)

Merges == {"read", "merging", "thrown"}

TreeInv ==
    /\ status \in Merges \union {"merged", "indexing", "changed", "copying", "copied"}
    /\ status \in Merges => IInv
    /\ \A a \in answers : AnswerInv(answers, a)
    /\ status = "merged" => Answered(answers, read, overrideRoot)
    /\ Sound(overrideRoot)
    /\ status \notin Merges => Contents(overrideRoot) = written
    /\ reference \in Seq(Step) /\ Valid(overrideRoot, reference)
    /\ status # "indexing" => reference = <<>>
    /\ status \notin {"copying", "copied"} => static = Static
    /\ status \in {"copying", "copied"} => CopyInv

LEMMA EmptyPath ==
    ASSUME NEW t
    PROVE  <<>> \in Seq(Step) /\ Valid(t, <<>>)
BY DEF Valid

LEMMA NodesSound ==
    /\ \A n \in Nodes : Sound(n)
    /\ \A v \in Values : Sound(v)
<1>1. Forest(Nodes)
  BY NodesAssumption DEF Forest, Holds
<1>2. Forest(Values)
  BY TreeAssumption DEF Forest, Holds
<1> QED BY <1>1, <1>2 DEF Sound

LEMMA MergedSound ==
    ASSUME NEW A, \A a \in A : AnswerInv(A, a),
           NEW root \in Nodes, NEW result, Answered(A, root, result)
    PROVE  Sound(result)
<1> DEFINE S == Nodes \union Results(A)
<1>1. ASSUME NEW n \in Nodes PROVE Holds(n, S)
  <2>1. Holds(n, Nodes)
    BY NodesAssumption DEF Holds
  <2> QED BY <2>1, HoldsGrows, Nodes \subseteq S
<1>2. ASSUME NEW n \in Results(A) PROVE Holds(n, S)
  <2>1. WellFormed(n, Names, S)
    BY DEF Results, AnswerInv, Merging
  <2> QED BY <2>1, DictionaryFields DEF Holds, isArray, isDictionary
<1>3. Forest(S)
  BY <1>1, <1>2 DEF Forest
<1>4. result \in S
  <2>1. CASE HasOverride(root)
    BY <2>1 DEF Answered, Results
  <2>2. CASE ~HasOverride(root)
    BY <2>2 DEF Answered
  <2> QED BY <2>1, <2>2
<1> QED BY <1>3, <1>4 DEF Sound

LEMMA TreeInitInv == TreeInit => TreeInv
<1> SUFFICES ASSUME TreeInit PROVE TreeInv
  OBVIOUS
<1>0. /\ read \in Inputs \union Used /\ overrideRoot = read /\ calls = <<>>
      /\ status = IF read = NoDocument THEN "merged" ELSE "read"
      /\ answers = {} /\ reference = <<>> /\ static = Static /\ written = {}
  BY DEF TreeInit
<1>1. <<>> \in Seq(Step) /\ Valid(overrideRoot, <<>>)
  BY EmptyPath
<1>2. CASE read = NoDocument
  <2>1. status = "merged" /\ overrideRoot = NoNode
    BY <1>0, <1>2 DEF NoDocument
  <2>2. Sound(NoNode) /\ ~HasOverride(NoNode)
    BY Leaves DEF HasOverride, Barren
  <2>3. Contents(NoNode) = {}
    BY TreeAssumption, Leaves, BarrenPath, InContents
  <2>4. Answered(answers, read, overrideRoot)
    BY <1>0, <2>1, <2>2 DEF Answered
  <2> QED BY <1>0, <1>1, <2>1, <2>2, <2>3, <2>4 DEF TreeInv, Merges
<1>3. CASE read # NoDocument
  <2>1. read \in Nodes /\ status = "read"
    BY <1>0, <1>3, NodesAssumption, TreeAssumption
  <2>2. Stack(<<>>, {}, read)
    BY EmptyStack
  <2>3. IInv
    BY <1>0, <2>1, <2>2 DEF IInv
  <2> QED BY <1>0, <1>1, <2>1, <2>3, NodesSound DEF TreeInv, Merges
<1> QED BY <1>2, <1>3

LEMMA MergeKeeps == TreeInv /\ Merge => TreeInv'
<1> SUFFICES ASSUME TreeInv, Merge PROVE TreeInv'
  OBVIOUS
<1>1. Next /\ status \in {"read", "merging"}
  BY DEF Merge, Next, begin, nextElement, refuseElement, addEntry, applyOuter, return, AllMerged
<1>2. IInv'
  <2>1. IInv
    BY <1>1 DEF TreeInv, Merges
  <2> QED BY <1>1, <2>1, StepInv
<1>3. /\ reference' = <<>> /\ static' = Static
      /\ written' = IF status' = "merged" THEN Contents(overrideRoot') ELSE {}
  BY <1>1 DEF Merge, TreeInv
<1>4. /\ status' \in {"read", "merging", "merged", "thrown"}
      /\ \A a \in answers' : AnswerInv(answers', a)
      /\ read' \in Nodes
      /\ status' = "merged" => Answered(answers', read', overrideRoot')
      /\ status' # "merged" => overrideRoot' = read'
  BY <1>2 DEF IInv
<1>5. Sound(overrideRoot')
  BY <1>4, MergedSound, NodesSound
<1>6. <<>> \in Seq(Step) /\ Valid(overrideRoot', <<>>)
  BY EmptyPath
<1> QED BY <1>2, <1>3, <1>4, <1>5, <1>6 DEF TreeInv, Merges

\* What index() does to a root that the reference leads into.
LEMMA IndexKeeps ==
    ASSUME NEW root, Sound(root), reference \in Seq(Step), Valid(root, reference),
           NEW s \in Step, index(root, s)
    PROVE  /\ Sound(overrideRoot') /\ Contents(overrideRoot') = Contents(root)
           /\ reference' \in Seq(Step) /\ Valid(overrideRoot', reference')
           /\ status' = "indexing" \/ (status' = "changed" /\ reference' = <<>>)
<1> DEFINE n == At(root, reference)
<1>1. Sound(n)
  <2>1. Len(reference) \in 0..Len(reference)
    OBVIOUS
  <2> QED BY <2>1, WalkSound DEF At
<1>2. CASE Refused(n, s)
  <2>1. overrideRoot' = root /\ reference' = <<>> /\ status' = "changed"
    BY <1>2 DEF index
  <2> QED BY <2>1, EmptyPath
<1>3. CASE ~Refused(n, s)
  <2>1. /\ overrideRoot' = Put(root, reference, Opened(n, s))
        /\ reference' = Append(reference, s) /\ status' = "indexing"
    BY <1>3 DEF index
  <2>2. Sound(Opened(n, s)) /\ Has(Opened(n, s), s)
    BY <1>1, <1>3, OpenedCorrect
  <2> HIDE DEF n
  <2>3. Sound(Put(root, reference, Opened(n, s)))
    BY <2>2, PutCorrect
  <2>4. Append(reference, s) \in Seq(Step)
        /\ Valid(Put(root, reference, Opened(n, s)), Append(reference, s))
    BY <2>2, PutValid
  <2>5. Contents(Put(root, reference, Opened(n, s))) = Contents(root)
    BY <1>3, IndexKeepsContents DEF n
  <2> QED BY <2>1, <2>3, <2>4, <2>5
<1> QED BY <1>2, <1>3

LEMMA TreeStepInv == TreeInv /\ [TreeNext]_treeVars => TreeInv'
<1> SUFFICES ASSUME TreeInv, [TreeNext]_treeVars PROVE TreeInv'
  OBVIOUS
<1>1. CASE Merge
  BY <1>1, MergeKeeps
<1>2. ASSUME NEW step \in Steps, IndexRoot(step) PROVE TreeInv'
  <2> DEFINE root == IF overrideRoot # NoDocument THEN overrideRoot
                     ELSE IF isKeyStep(step) THEN EmptyDictionary ELSE Array(<<>>)
  <2>1. step \in Step /\ status \in {"merged", "changed"} /\ index(root, step)
    BY <1>2, TreeAssumption DEF IndexRoot
  <2>2. UNCHANGED <<calls, read, answers, static, written>>
    BY <1>2 DEF IndexRoot
  <2>3. Sound(root) /\ Contents(root) = written
    <3>1. CASE overrideRoot # NoDocument
      BY <2>1, <3>1 DEF TreeInv, Merges
    <3>2. CASE overrideRoot = NoDocument
      <4>1. Contents(NoNode) = written
        BY <2>1, <3>2 DEF TreeInv, Merges, NoDocument
      <4> QED BY <2>1, <3>2, <4>1, NewRoot
    <3> QED BY <3>1, <3>2
  <2>4. reference = <<>> /\ reference \in Seq(Step) /\ Valid(root, reference) /\ static = Static
    BY <2>1, EmptyPath DEF TreeInv
  <2> HIDE DEF root
  <2>5. /\ Sound(overrideRoot') /\ Contents(overrideRoot') = written
        /\ reference' \in Seq(Step) /\ Valid(overrideRoot', reference')
        /\ status' = "indexing" \/ (status' = "changed" /\ reference' = <<>>)
    BY <2>1, <2>3, <2>4, IndexKeeps
  <2> QED BY <2>2, <2>4, <2>5 DEF TreeInv, Merges
<1>3. ASSUME NEW step \in Steps, Index(step) PROVE TreeInv'
  <2>1. /\ step \in Step /\ status = "indexing" /\ index(overrideRoot, step)
        /\ UNCHANGED <<calls, read, answers, accesses, static, written>>
    BY <1>3, TreeAssumption DEF Index
  <2>2. /\ Sound(overrideRoot) /\ Contents(overrideRoot) = written /\ static = Static
        /\ reference \in Seq(Step) /\ Valid(overrideRoot, reference)
    BY <2>1 DEF TreeInv, Merges
  <2>3. /\ Sound(overrideRoot') /\ Contents(overrideRoot') = written
        /\ reference' \in Seq(Step) /\ Valid(overrideRoot', reference')
        /\ status' = "indexing" \/ (status' = "changed" /\ reference' = <<>>)
    BY <2>1, <2>2, IndexKeeps
  <2> QED BY <2>1, <2>2, <2>3 DEF TreeInv, Merges
<1>4. ASSUME NEW value \in Values, Assign(value) PROVE TreeInv'
  <2>1. /\ status = "indexing" /\ status' = "changed" /\ reference' = <<>>
        /\ overrideRoot' = Put(overrideRoot, reference, value)
        /\ written' = WrittenAt(reference, value)
        /\ UNCHANGED <<calls, read, answers, accesses, static>>
    BY <1>4 DEF Assign
  <2>2. /\ Sound(overrideRoot) /\ Contents(overrideRoot) = written /\ static = Static
        /\ reference \in Seq(Step) /\ Valid(overrideRoot, reference)
    BY <2>1 DEF TreeInv, Merges
  <2>3. Sound(value)
    BY NodesSound
  <2>4. Sound(overrideRoot')
    BY <2>1, <2>2, <2>3, PutCorrect
  <2>5. Contents(overrideRoot') = written'
    BY <2>1, <2>2, <2>3, AssignChangesContents
  <2>6. <<>> \in Seq(Step) /\ Valid(overrideRoot', <<>>)
    BY EmptyPath
  <2> QED BY <2>1, <2>2, <2>4, <2>5, <2>6 DEF TreeInv, Merges
<1>5. CASE Look
  <2>1. /\ status = "indexing" /\ status' = "changed" /\ reference' = <<>>
        /\ UNCHANGED <<overrideRoot, calls, read, answers, accesses, static, written>>
    BY <1>5 DEF Look
  <2>2. <<>> \in Seq(Step) /\ Valid(overrideRoot, <<>>)
    BY EmptyPath
  <2> QED BY <2>1, <2>2 DEF TreeInv, Merges
<1>6. CASE BeginCopy
  <2>1. /\ status \in {"merged", "changed"} /\ status' = "copying"
        /\ isDictionary(overrideRoot) \/ isArray(overrideRoot)
        /\ UNCHANGED <<overrideRoot, calls, read, answers, reference, accesses, static,
                       written>>
    BY <1>6 DEF BeginCopy
  <2>2. Sound(overrideRoot) /\ static = Static /\ reference = <<>>
    BY <2>1 DEF TreeInv
  <2>3. PICK S : overrideRoot.value \in Seq(S)
    BY <2>1, <2>2, RootFields
  <2>4. 0 \in 0..Len(overrideRoot.value) /\ 0 <= N
    BY <2>3, TreeAssumption
  <2>5. static.thrown = FALSE /\ Copied(static, overrideRoot.value, 0)
    BY <2>2, <2>3, <2>4, Taking DEF Copied, Static
  <2>6. CopyInv'
    BY <2>1, <2>4, <2>5 DEF CopyInv
  <2> QED BY <2>1, <2>6 DEF TreeInv, Merges
<1>7. CASE Copy
  <2>1. /\ status = "copying" /\ status' \in {"copying", "copied"}
        /\ UNCHANGED <<overrideRoot, calls, read, answers, reference, accesses, written>>
    BY <1>7 DEF Copy
  <2>2. CopyInv'
    BY <1>7, <2>1, CopyKeeps DEF TreeInv
  <2> QED BY <2>1, <2>2 DEF TreeInv, Merges
<1>8. ASSUME NEW step \in Steps, Grow(step) PROVE TreeInv'
  <2>1. /\ step \in Step /\ status = "copied"
        /\ UNCHANGED <<calls, status, read, answers, reference, accesses, written>>
    BY <1>8, TreeAssumption DEF Grow
  <2>2. /\ CopyInv' /\ Sound(overrideRoot')
        /\ Contents(overrideRoot') = Contents(overrideRoot)
    BY <1>8, <2>1, GrowKeeps DEF TreeInv
  <2>3. reference = <<>> /\ <<>> \in Seq(Step) /\ Valid(overrideRoot', <<>>)
    BY <2>1, EmptyPath DEF TreeInv
  <2> QED BY <2>1, <2>2, <2>3 DEF TreeInv, Merges
<1>9. CASE UNCHANGED treeVars
  <2>1. UNCHANGED <<overrideRoot, calls, status, read, answers, reference, static, written>>
    BY <1>9 DEF treeVars, vars
  <2>2. IInv' <=> IInv
    BY <2>1 DEF IInv
  <2>3. CopyInv' <=> CopyInv
    BY <2>1 DEF CopyInv
  <2> QED BY <2>1, <2>2, <2>3 DEF TreeInv
<1> QED BY <1>1, <1>2, <1>3, <1>4, <1>5, <1>6, <1>7, <1>8, <1>9 DEF TreeNext

LEMMA TreeInvariant == TreeSpec => []TreeInv
BY TreeInitInv, TreeStepInv, PTL DEF TreeSpec

\* The same of a document that is then indexed, written to and copied: a merge that
\* is done stays the answer it was.
THEOREM TreeEveryKeyCorrect == TreeSpec => []EveryKeyFromItsSource
<1>1. TreeInv => EveryKeyFromItsSource
  BY DEF TreeInv, EveryKeyFromItsSource, AnswerInv, Answered, Answer
<1> QED BY <1>1, TreeInvariant, PTL

\* The keys of a merged mapping stay the union of the keys it was made of.
THEOREM TreeUnionCorrect == TreeSpec => []KeysAreTheUnion
<1>1. TreeInv => KeysAreTheUnion
  BY DEF TreeInv, KeysAreTheUnion, AnswerInv, Merging
<1> QED BY <1>1, TreeInvariant, PTL

\* Every dictionary of a document, at every depth, has an index that leads to the
\* last entry of each key: what is read, merged, made by operator[], assigned or grown
\* keeps it true.
THEOREM IndexCorrect == TreeSpec => []IndexTrue
<1>1. TreeInv => IndexTrue
  BY SoundIndexes DEF TreeInv, IndexTrue
<1> QED BY <1>1, TreeInvariant, PTL

\* operator[] finds at every path the scalar that was read or assigned last there, after
\* any number of accesses and assignments with paths of any length.
THEOREM ContentsCorrect == TreeSpec => []ContentsAreWritten
<1>1. TreeInv => ContentsAreWritten
  BY DEF TreeInv, ContentsAreWritten, Merges
<1> QED BY <1>1, TreeInvariant, PTL

\* A static container of any capacity holds the front of what the dynamic one does,
\* throws exactly when that does not fit, and finds the same nodes.
THEOREM StaticCorrect == TreeSpec => []StaticAnswersAlike
<1>1. TreeInv => StaticAnswersAlike
  BY CopiedAlike DEF TreeInv
<1> QED BY <1>1, TreeInvariant, PTL
=============================================================================
