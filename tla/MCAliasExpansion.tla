-------------------------- MODULE MCAliasExpansion --------------------------
(***************************************************************************)
(* Instances of AliasExpansion: two names, two anchored texts (outer may   *)
(* hold an anchor of inner), one document that begins with an anchor.      *)
(***************************************************************************)
EXTENDS AliasExpansion, TLC

CONSTANTS a, b, doc, outer, inner, empty

MCName == {a, b}
MCText == {doc, outer, inner, empty}

NodeOf(k, t) == [kind : {k}, name : MCName, text : {t}]
Scalar == [kind |-> "scalar", name |-> a, text |-> empty]

References == NodeOf("alias", empty)
Overrides == NodeOf("override", empty)

\* The texts: inner ones hold one node, outer ones up to two.
InnerTexts(nodes) == {<<n>> : n \in nodes}
OuterTexts(nodes) == {<<n>> : n \in nodes} \union (nodes \X nodes)

ContentsOf(references) ==
    LET inners == {Scalar} \union references \union NodeOf("anchor", empty)
        outers == references \union NodeOf("anchor", inner)
        tops   == outers \union NodeOf("anchor", outer)
    IN  {(doc :> <<d, e, f>>) @@ (outer :> o) @@ (inner :> i) @@ (empty :> <<>>) :
            d \in NodeOf("anchor", outer), e \in tops, f \in tops,
            o \in OuterTexts(outers), i \in InnerTexts(inners)}

\* Aliases only.
MCContents == ContentsOf(References)
\* Aliases and "<<:*name" overrides.
MCContentsWithOverrides == ContentsOf(References \union Overrides)

Symmetry == Permutations(MCName)
=============================================================================
