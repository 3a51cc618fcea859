----------------------------- MODULE MCNodeTree -----------------------------
(***************************************************************************)
(* The inputs of MergeKeys: mappings of the keys "p" and "q" in either     *)
(* order, "<<" before or after them, naming a mapping, a scalar or up to   *)
(* two elements; a source may hold a "<<" that a flow mapping left in it,  *)
(* an explicit value may be a flow mapping with a "<<" of its own.         *)
(* A program goes on with some of them, with an array, a scalar, an empty  *)
(* document and none.                                                      *)
(***************************************************************************)
EXTENDS NodeTree, SequencesExt

\* As the parser and an initializer list fill one.
DictionaryOf(entries) ==
    LET Added(d, e) == add(d, e.key, e.node) IN FoldLeft(Added, EmptyDictionary, entries)

KeySequences == {<<>>, <<"p">>, <<"q">>, <<"p", "q">>, <<"q", "p">>}
EntriesOf(keys, node) == [i \in DOMAIN keys |-> Entry(keys[i], node)]

SourceOf(v) == {DictionaryOf(EntriesOf(s, Scalar(v))) : s \in KeySequences} \union
               {DictionaryOf(<<Entry("<<", Scalar(v))>>)}

Elements(v) == SourceOf(v) \union {Scalar(v)}

Overrides ==
    Elements(1) \union
    {Array(s) : s \in {<<>>} \union {<<e>> : e \in Elements(1)} \union
                      (Elements(1) \X Elements(2))}

\* A flow mapping that is merged with the mapping around it.
Flow == DictionaryOf(<<Entry("<<", DictionaryOf(EntriesOf(<<"p">>, Scalar(1)))),
                       Entry("q", Scalar(0))>>)
\* One whose sequence has a scalar.
BadFlow == DictionaryOf(<<Entry("<<", Array(<<Scalar(1)>>))>>)

Explicits == {EntriesOf(s, v) : s \in KeySequences, v \in {Scalar(0), Flow, BadFlow}}

MCInputs ==
    {DictionaryOf(<<Entry("<<", o)>> \o e) : o \in Overrides, e \in Explicits}
    \union {DictionaryOf(e \o <<Entry("<<", o)>>) : o \in Overrides, e \in Explicits}
    \union {DictionaryOf(e) : e \in Explicits}

MCUsed ==
    {NoDocument, Hole, Scalar(0), Array(<<Scalar(0), Hole>>), Array(<<Flow, Scalar(1)>>)}
    \union {DictionaryOf(<<Entry("<<", o)>> \o EntriesOf(<<"p">>, v)) :
                o \in {Scalar(1), DictionaryOf(EntriesOf(<<"q">>, Scalar(1))),
                       Array(<<DictionaryOf(EntriesOf(<<"p">>, Scalar(1))),
                               DictionaryOf(EntriesOf(<<"q", "p">>, Scalar(2)))>>)},
                v \in {Scalar(0), Flow}}

MCNodes ==
    MCInputs \union Overrides \union Elements(2) \union (MCUsed \ {NoDocument}) \union
    {Scalar(0), Flow, at(Flow, "<<"), BadFlow, at(BadFlow, "<<")}

MCKeyBefore(k, l) == k = "p" /\ l = "q"

MCSteps == {ByKey("p"), ByKey("r"), ByIndex(0), ByIndex(2)}

\* Every path of up to three steps through the trees there are.
AllSteps == {ByKey(k) : k \in {"<<", "p", "q", "r"}} \union {ByIndex(i) : i \in 0..2}
MCPlaces == UNION {[1..n -> AllSteps] : n \in 0..3}

MCValues == {Scalar(5), Scalar(6), Array(<<Scalar(5), Scalar(6)>>),
             DictionaryOf(<<Entry("p", Scalar(5)), Entry("p", Scalar(6))>>)}
=============================================================================
