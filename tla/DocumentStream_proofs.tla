----------------------- MODULE DocumentStream_proofs -----------------------
(***************************************************************************)
(* For every set of names and handles, every option and every number of    *)
(* parses: documents are parsed with their own declarations, with all      *)
(* their directives, and no directive is left without a document.          *)
(***************************************************************************)
EXTENDS DocumentStream, SequenceTheorems, TLAPS

Live == status \in {"between", "content"}

\* The document the tables belong to: the open one, or the one to come.
Here == IF inDocument THEN Current ELSE Upcoming

OwnTables ==
    Live => /\ \A n \in Name : yamlAliasMap[n] \in {Undefined, Here}
            /\ \A h \in Handle : yamlTagPrefixes[h] \in {Undefined, Here}
            /\ yamlDirectiveMinor \in {Undefined, Here}
            /\ ~yamlDirectiveSeen => yamlDirectiveMinor = Undefined

\* What a directive set is still set.
Holds(d) == IF d.what = "%YAML" THEN yamlDirectiveMinor = d.for
                                ELSE yamlTagPrefixes[d.what] = d.for

InForce == Live => \A d \in declared : d.for = Here => Holds(d)

\* Only while directives are pending is one for a document not begun yet.
DeclaredFor ==
    \A d \in declared :
        /\ d.for.parse = parseNo
        /\ d.for.document <= Len(yNodeTree) + (IF pendingDirectives THEN 1 ELSE 0)

LoopShape ==
    /\ inDocument => ~pendingDirectives /\ Len(yNodeTree) >= 1
    /\ status = "content" => inDocument
    /\ status = "between" /\ ~more => ~pendingDirectives
    /\ status = "returned" => ~pendingDirectives

TreeOwned ==
    \A k \in 1..Len(yNodeTree) : yNodeTree[k].owner = Numbered(k)

IInv ==
    /\ TypeOK
    /\ OwnDeclarationsOnly
    /\ OwnTables
    /\ InForce
    /\ DeclaredFor
    /\ LoopShape
    /\ TreeOwned
-----------------------------------------------------------------------------
\* Documents are numbered by their place.
LEMMA OwnersAreOwners ==
    ASSUME TypeOK
    PROVE  /\ Current \in Owner /\ Upcoming \in Owner /\ Here \in Owner
           /\ Len(yNodeTree) \in Nat
BY DEF TypeOK, Current, Upcoming, Here, Numbered, Owner

\* The invariant holds when the first parse() begins.
LEMMA InitIInv == Init => IInv
<1> SUFFICES ASSUME Init PROVE IInv
  OBVIOUS
<1>1. <<>> \in Seq(DocumentNode) /\ Len(<<>>) = 0
  OBVIOUS
<1>2. TypeOK
  BY <1>1 DEF Init, TypeOK
<1> QED
  BY <1>1, <1>2 DEF Init, IInv, OwnDeclarationsOnly, OwnTables, InForce,
     DeclaredFor, LoopShape, TreeOwned

\* An exception: only the tables may have changed, and the next parse() drops them.
LEMMA ThrowIInv ==
    ASSUME IInv, status' = "thrown", more' = more,
           UNCHANGED <<loop, yamlTree, parseNo, declared>>,
           uses' \in SUBSET Owner,
           yamlAliasMap' \in [Name -> Owner \union {Undefined}],
           yamlTagPrefixes' \in [Handle -> Owner \union {Undefined}],
           yamlDirectiveMinor' \in Owner \union {Undefined},
           yamlDirectiveSeen' \in BOOLEAN
    PROVE  IInv'
<1>1. TypeOK'
  BY DEF IInv, TypeOK, loop
<1>2. OwnDeclarationsOnly'
  BY DEF IInv, OwnDeclarationsOnly, loop, Numbered
<1>3. OwnTables' /\ InForce'
  BY DEF OwnTables, InForce, Live
<1>4. DeclaredFor' /\ LoopShape' /\ TreeOwned'
  BY DEF IInv, DeclaredFor, LoopShape, TreeOwned, loop, Numbered
<1> QED
  BY <1>1, <1>2, <1>3, <1>4 DEF IInv

\* A document is appended.
LEMMA AppendedTree ==
    ASSUME IInv, yNodeTree' = Append(yNodeTree, EmptyDocument),
           UNCHANGED <<parseNo, yamlTree>>, status' # "content" \/ uses' = {}
    PROVE  /\ yNodeTree' \in Seq(DocumentNode)
           /\ Len(yNodeTree') = Len(yNodeTree) + 1
           /\ TreeOwned'
           /\ OwnDeclarationsOnly'
           /\ Current' = Upcoming
<1>1. Len(yNodeTree) \in Nat /\ yNodeTree \in Seq(DocumentNode)
  BY DEF IInv, TypeOK
<1>2. EmptyDocument \in DocumentNode
  BY OwnersAreOwners DEF IInv, EmptyDocument, DocumentNode
<1>3. yNodeTree' \in Seq(DocumentNode) /\ Len(yNodeTree') = Len(yNodeTree) + 1
  BY <1>1, <1>2
<1>4. /\ \A k \in 1..Len(yNodeTree) : yNodeTree'[k] = yNodeTree[k]
      /\ yNodeTree'[Len(yNodeTree) + 1] = EmptyDocument
  BY <1>1, <1>2
<1>5. TreeOwned'
  <2> SUFFICES ASSUME NEW k \in 1..Len(yNodeTree')
               PROVE  yNodeTree'[k].owner = Numbered(k)
    BY DEF TreeOwned, Numbered
  <2>1. CASE k = Len(yNodeTree) + 1
    BY <1>4, <2>1 DEF EmptyDocument, Upcoming
  <2>2. CASE k # Len(yNodeTree) + 1
    BY <1>1, <1>3, <1>4, <2>2 DEF IInv, TreeOwned
  <2> QED
    BY <2>1, <2>2
<1>6. \A k \in 1..Len(yNodeTree') : yNodeTree'[k].uses \subseteq {Numbered(k)}
  <2> SUFFICES ASSUME NEW k \in 1..Len(yNodeTree')
               PROVE  yNodeTree'[k].uses \subseteq {Numbered(k)}
    OBVIOUS
  <2>1. CASE k = Len(yNodeTree) + 1
    BY <1>4, <2>1 DEF EmptyDocument
  <2>2. CASE k # Len(yNodeTree) + 1
    BY <1>1, <1>3, <1>4, <2>2 DEF IInv, OwnDeclarationsOnly
  <2> QED
    BY <2>1, <2>2
<1>7. OwnDeclarationsOnly'
  BY <1>6 DEF IInv, OwnDeclarationsOnly, Numbered
<1>8. Current' = Upcoming
  BY <1>3 DEF Current, Upcoming, Numbered
<1> QED
  BY <1>3, <1>5, <1>7, <1>8

\* The tables are emptied: nothing leaks whatever Here becomes, as long as no
\* directive is pending.
LEMMA EmptiedTables ==
    ASSUME EmptyContext
    PROVE  /\ yamlAliasMap' \in [Name -> Owner \union {Undefined}]
           /\ yamlTagPrefixes' \in [Handle -> Owner \union {Undefined}]
           /\ yamlDirectiveMinor' \in Owner \union {Undefined}
           /\ yamlDirectiveSeen' \in BOOLEAN
           /\ OwnTables'
BY DEF EmptyContext, OwnTables

\* While no directive is pending none is for the document to come.
LEMMA NothingForUpcoming ==
    ASSUME IInv, ~pendingDirectives
    PROVE  \A d \in declared : d.for # Upcoming
<1>1. Len(yNodeTree) \in Nat
  BY DEF IInv, TypeOK
<1>2. Upcoming.document = Len(yNodeTree) + 1
  BY DEF Upcoming, Numbered
<1>3. \A d \in declared : d.for.document \in Nat
  BY DEF IInv, TypeOK, Directive, Owner
<1> QED
  BY <1>1, <1>2, <1>3 DEF IInv, DeclaredFor
-----------------------------------------------------------------------------
\* A directive is read for the document to come.
LEMMA DirectiveIInv == ASSUME IInv, parseDirective PROVE IInv'
<1>1. /\ Upcoming \in Owner /\ Len(yNodeTree) \in Nat
  BY OwnersAreOwners DEF IInv
<1>2. /\ ~inDocument /\ ~inDocument' /\ Here = Upcoming /\ Here' = Upcoming
      /\ status = "between" /\ status' \in {"between", "thrown"}
      /\ more' \in BOOLEAN /\ pendingDirectives' = TRUE
      /\ inDocument' = inDocument
      /\ ~more' => status' = "thrown"
      /\ UNCHANGED <<yNodeTree, yamlAliasMap, yamlTree, parseNo, uses>>
  BY DEF parseDirective, Turn, EndTurn, Here, Upcoming, Numbered
<1>3. Upcoming.parse = parseNo /\ Upcoming.document = Len(yNodeTree) + 1
  BY DEF Upcoming, Numbered
<1>4. OwnDeclarationsOnly' /\ LoopShape' /\ TreeOwned'
  BY <1>2 DEF IInv, OwnDeclarationsOnly, LoopShape, TreeOwned, Numbered
<1>5. CASE /\ ~yamlDirectiveSeen /\ yamlDirectiveSeen' = TRUE
           /\ yamlDirectiveMinor' = Upcoming
           /\ Declare("%YAML")
           /\ UNCHANGED yamlTagPrefixes
  <2>1. DirectiveFor("%YAML") \in Directive
    BY <1>1 DEF DirectiveFor, Directive
  <2>2. TypeOK'
    BY <1>1, <1>2, <1>5, <2>1 DEF IInv, TypeOK, Declare
  <2>3. OwnTables'
    BY <1>2, <1>5 DEF IInv, OwnTables, Live
  <2>4. InForce'
    <3> SUFFICES ASSUME NEW d \in declared', d.for = Upcoming
                 PROVE  Holds(d)'
      BY <1>2 DEF InForce
    <3>1. CASE d = DirectiveFor("%YAML")
      BY <1>5, <3>1 DEF DirectiveFor, Holds
    <3>2. CASE d # DirectiveFor("%YAML")
      <4>1. d \in declared
        BY <1>5, <3>2 DEF Declare
      <4>2. Holds(d)
        BY <1>2, <4>1 DEF IInv, InForce, Live
      <4> QED
        BY <1>5, <4>2 DEF Holds
    <3> QED
      BY <3>1, <3>2
  <2>5. DeclaredFor'
    BY <1>1, <1>2, <1>3, <1>5 DEF DeclaredFor, Declare, DirectiveFor
  <2> QED
    BY <1>4, <2>2, <2>3, <2>4, <2>5 DEF IInv
<1>6. ASSUME NEW h \in Handle,
             /\ yamlTagPrefixes' = [yamlTagPrefixes EXCEPT ![h] = Upcoming]
             /\ Declare(h)
             /\ UNCHANGED <<yamlDirectiveSeen, yamlDirectiveMinor>>
      PROVE  IInv'
  <2>1. DirectiveFor(h) \in Directive
    BY <1>1 DEF DirectiveFor, Directive
  <2>2. TypeOK'
    BY <1>1, <1>2, <1>6, <2>1 DEF IInv, TypeOK, Declare
  <2>3. OwnTables'
    BY <1>2, <1>6 DEF IInv, TypeOK, OwnTables, Live
  <2>4. InForce'
    <3> SUFFICES ASSUME NEW d \in declared', d.for = Upcoming
                 PROVE  Holds(d)'
      BY <1>2 DEF InForce
    <3>1. CASE d.what = h
      BY <1>6, <3>1, DocumentAssumption DEF IInv, TypeOK, Holds
    <3>2. CASE d.what # h
      <4>1. d \in declared
        BY <1>6, <3>2 DEF Declare, DirectiveFor
      <4>2. Holds(d) /\ d.what \in Handle \union {"%YAML"}
        BY <1>2, <4>1 DEF IInv, InForce, Live, TypeOK, Directive
      <4> QED
        BY <1>6, <3>2, <4>2 DEF IInv, TypeOK, Holds
    <3> QED
      BY <3>1, <3>2
  <2>5. DeclaredFor'
    BY <1>1, <1>2, <1>3, <1>6 DEF DeclaredFor, Declare, DirectiveFor
  <2> QED
    BY <1>4, <2>2, <2>3, <2>4, <2>5 DEF IInv
<1>7. CASE UNCHANGED <<yamlDirectiveSeen, yamlDirectiveMinor, yamlTagPrefixes,
                       declared>>
  <2>1. TypeOK'
    BY <1>2, <1>7 DEF IInv, TypeOK
  <2>2. OwnTables' /\ InForce'
    BY <1>2, <1>7 DEF IInv, OwnTables, InForce, Holds, Live
  <2>3. DeclaredFor'
    <3>1. \A d \in declared : d.for.document \in Nat
      BY DEF IInv, TypeOK, Directive, Owner
    <3> QED
      BY <1>1, <1>2, <1>7, <3>1 DEF IInv, DeclaredFor
  <2> QED
    BY <1>4, <2>1, <2>2, <2>3 DEF IInv
<1> QED
  BY <1>5, <1>6, <1>7 DEF parseDirective

\* A document that begins, at "---" or by its content, without one open: the
\* declarations for the document to come are those of the document that begins.
LEMMA BeginIInv ==
    ASSUME IInv, ~inDocument, inDocument', ~pendingDirectives',
           status = "between", status' \in {"between", "content"},
           more' \in BOOLEAN, inDocument' \in BOOLEAN,
           pendingDirectives' \in BOOLEAN,
           yNodeTree' = Append(yNodeTree, EmptyDocument),
           status' = "content" => uses' = {}, uses' \in SUBSET Owner,
           UNCHANGED <<context, yamlTree, parseNo, declared>>
    PROVE  IInv'
<1>1. /\ yNodeTree' \in Seq(DocumentNode)
      /\ Len(yNodeTree') = Len(yNodeTree) + 1
      /\ TreeOwned' /\ OwnDeclarationsOnly' /\ Current' = Upcoming
      /\ Len(yNodeTree) \in Nat
  BY AppendedTree DEF IInv, TypeOK
<1>2. Here = Upcoming /\ Here' = Here
  BY <1>1 DEF Here
<1>3. TypeOK'
  BY <1>1 DEF IInv, TypeOK, context
<1>4. OwnTables' /\ InForce'
  BY <1>2 DEF IInv, OwnTables, InForce, Holds, Live, context
<1>5. DeclaredFor'
  <2>1. \A d \in declared : d.for.document \in Nat
    BY DEF IInv, TypeOK, Directive, Owner
  <2> QED
    BY <1>1, <2>1 DEF IInv, DeclaredFor
<1>6. LoopShape'
  BY <1>1 DEF LoopShape
<1> QED
  BY <1>1, <1>3, <1>4, <1>5, <1>6 DEF IInv

\* The tables are emptied at a marker: no directive is pending, so none is for
\* the document that follows.
LEMMA MarkerIInv ==
    ASSUME IInv, ~pendingDirectives, ~pendingDirectives',
           status = "between", status' = "between", more' \in BOOLEAN,
           EmptyContext, inDocument' \in BOOLEAN, pendingDirectives' \in BOOLEAN,
           \/ /\ yNodeTree' = Append(yNodeTree, EmptyDocument)
              /\ inDocument' => inDocument
           \/ yNodeTree' = yNodeTree /\ ~inDocument',
           UNCHANGED <<yamlTree, parseNo, declared, uses>>
    PROVE  IInv'
<1>0. Len(yNodeTree) \in Nat /\ \A d \in declared : d.for.document \in Nat
  BY DEF IInv, TypeOK, Directive, Owner
<1>1. /\ yNodeTree' \in Seq(DocumentNode)
      /\ Len(yNodeTree') \in {Len(yNodeTree), Len(yNodeTree) + 1}
      /\ inDocument' => Len(yNodeTree') = Len(yNodeTree) + 1
      /\ TreeOwned' /\ OwnDeclarationsOnly'
  <2>1. CASE yNodeTree' = Append(yNodeTree, EmptyDocument)
    BY <2>1, AppendedTree
  <2>2. CASE yNodeTree' = yNodeTree /\ ~inDocument'
    BY <2>2 DEF IInv, TypeOK, OwnDeclarationsOnly, TreeOwned, Numbered
  <2> QED
    BY <2>1, <2>2
<1>2. TypeOK'
  BY <1>1, EmptiedTables DEF IInv, TypeOK
<1>3. DeclaredFor'
  BY <1>0, <1>1 DEF IInv, DeclaredFor
<1>4. InForce'
  <2>1. Here'.document > Len(yNodeTree)
    BY <1>0, <1>1 DEF Here, Current, Upcoming, Numbered
  <2>2. \A d \in declared : d.for.document <= Len(yNodeTree)
    BY <1>0 DEF IInv, DeclaredFor
  <2>3. \A d \in declared' : d.for # Here'
    BY <1>0, <2>1, <2>2
  <2> QED
    BY <2>3 DEF InForce
<1>5. LoopShape'
  BY <1>0, <1>1 DEF LoopShape
<1> QED
  BY <1>1, <1>2, <1>3, <1>4, <1>5, EmptiedTables DEF IInv
-----------------------------------------------------------------------------
\* A step that consumes input between documents changes nothing else.
LEMMA BetweenIInv == ASSUME IInv, betweenDocuments PROVE IInv'
<1>1. /\ status = "between" /\ more' \in BOOLEAN
      /\ status' = IF ~more' /\ pendingDirectives THEN "thrown" ELSE "between"
      /\ UNCHANGED <<loop, context, yamlTree, parseNo, uses, declared>>
  BY DEF betweenDocuments, Turn, EndTurn, loop
<1>2. TypeOK'
  BY <1>1 DEF IInv, TypeOK, loop, context
<1> QED
  BY <1>1, <1>2 DEF IInv, OwnDeclarationsOnly, OwnTables, InForce, Holds,
     DeclaredFor, LoopShape, TreeOwned, Live, Here, Current, Upcoming, Numbered,
     loop, context

\* The content of a document that was open before it.
LEMMA ResumeIInv ==
    ASSUME IInv, status = "between", inDocument, status' = "content", uses' = {},
           UNCHANGED <<more, loop, context, yamlTree, parseNo, declared>>
    PROVE  IInv'
<1>1. TypeOK'
  BY DEF IInv, TypeOK, loop, context
<1>2. OwnDeclarationsOnly'
  BY DEF IInv, OwnDeclarationsOnly, loop, Numbered
<1>3. OwnTables' /\ InForce'
  BY DEF IInv, OwnTables, InForce, Holds, Live, Here, Current, Upcoming,
     Numbered, loop, context
<1>4. DeclaredFor' /\ LoopShape' /\ TreeOwned'
  BY DEF IInv, DeclaredFor, LoopShape, TreeOwned, Numbered, loop
<1> QED
  BY <1>1, <1>2, <1>3, <1>4 DEF IInv

\* The content uses what the tables hold: declarations of this document.
LEMMA UseIInv ==
    ASSUME IInv, status = "content", status' = "content",
           NEW o \in {Current}, uses' = uses \union {o},
           UNCHANGED <<more, loop, context, yamlTree, parseNo, declared>>
    PROVE  IInv'
<1>1. Current \in Owner
  BY OwnersAreOwners DEF IInv
<1>2. TypeOK'
  BY <1>1 DEF IInv, TypeOK, loop, context
<1>3. OwnDeclarationsOnly'
  BY DEF IInv, OwnDeclarationsOnly, loop, Current, Numbered
<1>4. OwnTables' /\ InForce'
  BY DEF IInv, OwnTables, InForce, Holds, Live, Here, Current, Upcoming,
     Numbered, loop, context
<1>5. DeclaredFor' /\ LoopShape' /\ TreeOwned'
  BY DEF IInv, DeclaredFor, LoopShape, TreeOwned, Numbered, loop
<1> QED
  BY <1>2, <1>3, <1>4, <1>5 DEF IInv

\* While content is parsed the tables hold declarations of its document only.
LEMMA ContentTables ==
    ASSUME IInv, status = "content"
    PROVE  /\ inDocument /\ Len(yNodeTree) \in Nat \ {0} /\ Here = Current
           /\ ~pendingDirectives
           /\ \A n \in Name : yamlAliasMap[n] \in {Undefined, Current}
           /\ \A h \in Handle : yamlTagPrefixes[h] \in {Undefined, Current}
           /\ yamlDirectiveMinor \in {Undefined, Current}
BY DEF IInv, TypeOK, LoopShape, OwnTables, Live, Here

\* An anchor is declared in the document whose content holds it.
LEMMA AnchorIInv == ASSUME IInv, NEW n \in Name, parseAnchor(n) PROVE IInv'
<1>1. /\ status = "content"
      /\ yamlAliasMap' = [yamlAliasMap EXCEPT ![n] = Current]
      /\ UNCHANGED <<more, status, loop, yamlTagPrefixes, yamlDirectiveMinor,
                     yamlDirectiveSeen, yamlTree, parseNo, uses, declared>>
  BY DEF parseAnchor
<1>2. Current \in Owner
  BY OwnersAreOwners DEF IInv
<1>3. TypeOK'
  BY <1>1, <1>2 DEF IInv, TypeOK, loop
<1>4. Here' = Here /\ Here = Current
  BY <1>1, ContentTables DEF Here, Current, Upcoming, Numbered, loop
<1>5. OwnTables'
  BY <1>1, <1>4 DEF IInv, TypeOK, OwnTables, Live
<1>6. InForce'
  BY <1>1, <1>4 DEF IInv, InForce, Holds, Live
<1>7. OwnDeclarationsOnly' /\ DeclaredFor' /\ LoopShape' /\ TreeOwned'
  BY <1>1 DEF IInv, OwnDeclarationsOnly, DeclaredFor, LoopShape, TreeOwned,
     Current, Numbered, loop
<1> QED
  BY <1>3, <1>5, <1>6, <1>7 DEF IInv

\* The root is added to the document that is open.
LEMMA EndIInv == ASSUME IInv, contentEnd PROVE IInv'
<1> DEFINE n == Len(yNodeTree)
           d == [yNodeTree[n] EXCEPT !.root = TRUE, !.uses = uses]
<1>1. /\ status = "content" /\ more' \in BOOLEAN
      /\ yNodeTree' = [yNodeTree EXCEPT ![n] = d]
      /\ status' = IF ~more' /\ pendingDirectives THEN "thrown" ELSE "between"
      /\ UNCHANGED <<inDocument, pendingDirectives, context, yamlTree, parseNo,
                     uses, declared>>
  BY DEF contentEnd, EndTurn
<1>2. inDocument /\ n \in Nat \ {0} /\ ~pendingDirectives
  BY <1>1, ContentTables
<1>3. yNodeTree \in Seq(DocumentNode) /\ yNodeTree[n] \in DocumentNode
  BY <1>2 DEF IInv, TypeOK
<1>4. d \in DocumentNode /\ d.uses = uses /\ d.owner = yNodeTree[n].owner
  BY <1>3 DEF IInv, TypeOK, DocumentNode
<1>5. /\ yNodeTree' \in Seq(DocumentNode) /\ Len(yNodeTree') = n
      /\ yNodeTree'[n] = d
      /\ \A k \in 1..n : k # n => yNodeTree'[k] = yNodeTree[k]
  <2> HIDE DEF d
  <2> QED
    BY <1>1, <1>2, <1>3, <1>4
<1> HIDE DEF d, n
<1>6. TypeOK'
  BY <1>1, <1>5 DEF IInv, TypeOK, context
<1>7. \A k \in 1..Len(yNodeTree') : yNodeTree'[k].uses \subseteq {Numbered(k)}
  <2> SUFFICES ASSUME NEW k \in 1..Len(yNodeTree')
               PROVE  yNodeTree'[k].uses \subseteq {Numbered(k)}
    OBVIOUS
  <2>1. CASE k = n
    BY <1>1, <1>4, <1>5, <2>1 DEF IInv, OwnDeclarationsOnly, Current, n
  <2>2. CASE k # n
    BY <1>5, <2>2 DEF IInv, OwnDeclarationsOnly, n
  <2> QED
    BY <2>1, <2>2
<1>8. OwnDeclarationsOnly'
  BY <1>1, <1>7 DEF IInv, OwnDeclarationsOnly, Numbered
<1>9. TreeOwned'
  <2> SUFFICES ASSUME NEW k \in 1..Len(yNodeTree')
               PROVE  yNodeTree'[k].owner = Numbered(k)
    BY <1>1 DEF TreeOwned, Numbered
  <2>1. CASE k = n
    BY <1>4, <1>5, <2>1 DEF IInv, TreeOwned, n
  <2>2. CASE k # n
    BY <1>5, <2>2 DEF IInv, TreeOwned, n
  <2> QED
    BY <2>1, <2>2
<1>10. Here' = Here
  BY <1>1, <1>5 DEF Here, Current, Upcoming, Numbered, n
<1>11. OwnTables' /\ InForce'
  BY <1>1, <1>10 DEF IInv, OwnTables, InForce, Holds, Live, context
<1>12. DeclaredFor' /\ LoopShape'
  BY <1>1, <1>2, <1>5 DEF IInv, DeclaredFor, LoopShape, n
<1> QED
  BY <1>6, <1>8, <1>9, <1>11, <1>12 DEF IInv

\* YAML_Impl keeps the documents of the parse that returned.
LEMMA ReturnIInv == ASSUME IInv, return PROVE IInv'
<1>1. /\ status = "between" /\ ~more /\ status' = "returned"
      /\ yamlTree' = yNodeTree
      /\ UNCHANGED <<more, loop, context, parseNo, uses, declared>>
  BY DEF return
<1>2. TypeOK'
  BY <1>1 DEF IInv, TypeOK, loop, context
<1>3. OwnDeclarationsOnly'
  <2>1. \A k \in 1..Len(yNodeTree) :
          /\ yNodeTree[k].owner = Numbered(k)
          /\ yNodeTree[k].uses \subseteq {Numbered(k)}
    BY DEF IInv, TreeOwned, OwnDeclarationsOnly
  <2>2. Len(yNodeTree) \in Nat
    BY DEF IInv, TypeOK
  <2>3. yamlTree' = yNodeTree /\ yNodeTree' = yNodeTree /\ parseNo' = parseNo
    BY <1>1 DEF loop
  <2>4. \A k \in 1..Len(yNodeTree) : 1 \in 1..Len(yNodeTree)
    BY <2>2
  <2>5. \A k \in 1..Len(yamlTree') :
          /\ yamlTree'[k].owner.document = k
          /\ yamlTree'[k].owner.parse = yamlTree'[1].owner.parse
          /\ yamlTree'[k].uses \subseteq {yamlTree'[k].owner}
    <3> SUFFICES ASSUME NEW k \in 1..Len(yNodeTree)
                 PROVE  /\ yNodeTree[k].owner.document = k
                        /\ yNodeTree[k].owner.parse = yNodeTree[1].owner.parse
                        /\ yNodeTree[k].uses \subseteq {yNodeTree[k].owner}
      BY <2>3
    <3>1. yNodeTree[1].owner = Numbered(1) /\ yNodeTree[k].owner = Numbered(k)
      BY <2>1, <2>4
    <3>2. /\ Numbered(k).document = k
          /\ Numbered(k).parse = parseNo /\ Numbered(1).parse = parseNo
      BY DEF Numbered
    <3> QED
      BY <2>1, <3>1, <3>2
  <2>6. \A k \in 1..Len(yNodeTree') : yNodeTree'[k].uses \subseteq {Numbered(k)'}
    BY <2>1, <2>3 DEF Numbered
  <2>7. status' # "content"
    BY <1>1
  <2> QED
    BY <2>5, <2>6, <2>7 DEF OwnDeclarationsOnly
<1>4. OwnTables' /\ InForce'
  BY <1>1 DEF OwnTables, InForce, Live
<1>5. DeclaredFor' /\ LoopShape' /\ TreeOwned'
  BY <1>1 DEF IInv, DeclaredFor, LoopShape, TreeOwned, Numbered, loop
<1> QED
  BY <1>2, <1>3, <1>4, <1>5 DEF IInv

\* A new parse() begins with empty tables, whatever the last one left in them.
LEMMA ParseIInv == ASSUME IInv, parse PROVE IInv'
<1>1. <<>> \in Seq(DocumentNode) /\ Len(<<>>) = 0
  OBVIOUS
<1>2. TypeOK'
  <2>1. /\ more' \in BOOLEAN /\ status' = "between" /\ inDocument' = FALSE
        /\ pendingDirectives' = FALSE /\ yNodeTree' = <<>> /\ EmptyContext
        /\ parseNo' = parseNo + 1 /\ uses' = {} /\ declared' = {}
        /\ yamlTree' = yamlTree
    BY DEF parse
  <2>2. /\ yamlAliasMap' \in [Name -> Owner \union {Undefined}]
        /\ yamlTagPrefixes' \in [Handle -> Owner \union {Undefined}]
        /\ yamlDirectiveMinor' \in Owner \union {Undefined}
        /\ yamlDirectiveSeen' \in BOOLEAN
    BY <2>1, EmptiedTables
  <2>3. yNodeTree' \in Seq(DocumentNode) /\ yamlTree' \in Seq(DocumentNode)
    BY <1>1, <2>1 DEF IInv, TypeOK
  <2>4. parseNo' \in Nat
    BY <2>1 DEF IInv, TypeOK
  <2> QED
    BY <2>1, <2>2, <2>3, <2>4 DEF TypeOK
<1>3. OwnDeclarationsOnly' /\ InForce' /\ DeclaredFor' /\ LoopShape' /\ TreeOwned'
  BY <1>1 DEF parse, IInv, OwnDeclarationsOnly, InForce, DeclaredFor, LoopShape,
     TreeOwned
<1> QED
  BY <1>2, <1>3, EmptiedTables DEF parse, IInv
-----------------------------------------------------------------------------
\* One step per action.
LEMMA NextIInv == IInv /\ [Next]_vars => IInv'
<1> SUFFICES ASSUME IInv, [Next]_vars PROVE IInv'
  OBVIOUS
<1>0. TypeOK
  BY DEF IInv
<1>1. CASE parseDirective
  BY <1>1, DirectiveIInv
<1>2. CASE directiveRefused
  BY <1>0, <1>2, ThrowIInv DEF directiveRefused, Throw, context, TypeOK
<1>3. CASE documentStart
  <2>1. CASE inDocument
    BY <1>3, <2>1, MarkerIInv
    DEF documentStart, Turn, BeginTables, resetDocumentState, EndTurn, IInv,
        LoopShape
  <2>2. CASE ~inDocument
    BY <1>0, <1>3, <2>2, BeginIInv
    DEF documentStart, Turn, BeginTables, EndTurn, TypeOK
  <2> QED
    BY <2>1, <2>2
<1>4. CASE documentStartRefused
  <2>1. CASE resetDocumentState
    BY <1>0, <1>4, <2>1, ThrowIInv, EmptiedTables
    DEF documentStartRefused, Throw, resetDocumentState, TypeOK
  <2>2. CASE UNCHANGED context
    BY <1>0, <1>4, <2>2, ThrowIInv
    DEF documentStartRefused, Throw, context, TypeOK
  <2> QED
    BY <1>4, <2>1, <2>2 DEF documentStartRefused, BeginTables
<1>5. CASE documentEnd
  <2>1. ~pendingDirectives
    BY <1>5 DEF documentEnd, IInv, LoopShape
  <2> QED
    BY <1>0, <1>5, <2>1, MarkerIInv
    DEF documentEnd, Turn, resetDocumentState, EndTurn, TypeOK
<1>6. CASE documentEndRefused
  BY <1>0, <1>6, ThrowIInv DEF documentEndRefused, Throw, context, TypeOK
<1>7. CASE betweenDocuments
  BY <1>7, BetweenIInv
<1>8. CASE contentBegin
  <2>1. CASE ~inDocument
    BY <1>0, <1>8, <2>1, BeginIInv DEF contentBegin, Turn, TypeOK
  <2>2. CASE inDocument
    <3>1. inDocument' = inDocument
      BY <1>0, <1>8, <2>2 DEF contentBegin, TypeOK
    <3> QED
      BY <1>8, <2>2, <3>1, ResumeIInv DEF contentBegin, Turn, loop
  <2> QED
    BY <2>1, <2>2
<1>9. CASE contentRefused
  BY <1>0, <1>9, ThrowIInv DEF contentRefused, Throw, context, TypeOK
<1>10. ASSUME NEW n \in Name, parseAnchor(n) PROVE IInv'
  BY <1>10, AnchorIInv
<1>11. ASSUME NEW n \in Name, parseAlias(n) PROVE IInv'
  <2>1. CASE yamlAliasMap[n] # Undefined
    <3>1. status = "content" /\ yamlAliasMap[n] \in {Current}
      BY <1>11, <2>1, ContentTables DEF parseAlias
    <3> QED
      BY <1>11, <2>1, <3>1, UseIInv DEF parseAlias
  <2>2. CASE yamlAliasMap[n] = Undefined
    BY <1>0, <1>11, <2>2, ThrowIInv DEF parseAlias, Throw, context, TypeOK
  <2> QED
    BY <1>11, <2>1, <2>2 DEF parseAlias, Throw
<1>12. ASSUME NEW h \in Handle, parseTagged(h) PROVE IInv'
  <2>1. CASE yamlTagPrefixes[h] # Undefined
    <3>1. status = "content" /\ yamlTagPrefixes[h] \in {Current}
      BY <1>12, <2>1, ContentTables DEF parseTagged
    <3> QED
      BY <1>12, <2>1, <3>1, UseIInv DEF parseTagged
  <2>2. CASE yamlTagPrefixes[h] = Undefined
    BY <1>0, <1>12, <2>2, ThrowIInv DEF parseTagged, Throw, context, TypeOK
  <2> QED
    BY <1>12, <2>1, <2>2 DEF parseTagged, Throw
<1>13. CASE parseVersioned
  <2>1. status = "content" /\ yamlDirectiveMinor \in {Current}
    BY <1>13, ContentTables DEF parseVersioned
  <2> QED
    BY <1>13, <2>1, UseIInv DEF parseVersioned
<1>14. CASE contentMalformed
  BY <1>0, <1>14, ThrowIInv DEF contentMalformed, Throw, context, TypeOK
<1>15. CASE contentEnd
  BY <1>15, EndIInv
<1>16. CASE return
  BY <1>16, ReturnIInv
<1>17. CASE parse
  BY <1>17, ParseIInv
<1>18. CASE UNCHANGED vars
  <2>1. TypeOK'
    BY <1>0, <1>18 DEF vars, loop, context, TypeOK
  <2> QED
    BY <1>18, <2>1 DEF vars, loop, context, IInv, OwnDeclarationsOnly, OwnTables,
       InForce, Holds, DeclaredFor, LoopShape, TreeOwned, Live, Here, Current,
       Upcoming, Numbered
<1> QED
  BY <1>1, <1>2, <1>3, <1>4, <1>5, <1>6, <1>7, <1>8, <1>9, <1>10, <1>11, <1>12,
     <1>13, <1>14, <1>15, <1>16, <1>17, <1>18 DEF Next

\* IInv holds in every state of every sequence of parses.
THEOREM Inductive == Spec => []IInv
BY InitIInv, NextIInv, PTL DEF Spec

\* The context, the loop and the tree keep their types.
THEOREM TypeCorrect == Spec => []TypeOK
<1>1. IInv => TypeOK
  BY DEF IInv
<1> QED
  BY <1>1, Inductive, PTL

\* No document of any stream is parsed with an anchor, a tag prefix or a version
\* of another document or of another parse.
THEOREM IsolationCorrect == Spec => []OwnDeclarationsOnly
<1>1. IInv => OwnDeclarationsOnly
  BY DEF IInv
<1> QED
  BY <1>1, Inductive, PTL

\* Every directive is in force in the content of its document, and a parse that
\* returns had a document for each.
THEOREM DirectivesCorrect == Spec => [](DirectivesInForce /\ DirectivesHaveDocument)
<1>1. IInv => DirectivesInForce
  <2> SUFFICES ASSUME IInv, status = "content", NEW d \in declared,
                      d.for = Current
               PROVE  Holds(d)
    BY DEF DirectivesInForce, Holds
  <2>1. Here = Current
    BY ContentTables
  <2> QED
    BY <2>1 DEF IInv, InForce, Live
<1>2. IInv => DirectivesHaveDocument
  BY DEF IInv, TypeOK, LoopShape, DeclaredFor, DirectivesHaveDocument
<1> QED
  BY <1>1, <1>2, Inductive, PTL

\* No parse that returns has dropped a directive that was read in it.
THEOREM DirectivesKept == Spec => []DirectivesHaveDocument
<1>1. (DirectivesInForce /\ DirectivesHaveDocument) => DirectivesHaveDocument
  OBVIOUS
<1> QED
  BY <1>1, DirectivesCorrect, PTL
-----------------------------------------------------------------------------
(* The documents of a parse under its steps. *)

\* Content is parsed for an open document without a root.
OpenIsBare ==
    status = "content" => Len(yNodeTree) >= 1 /\ ~yNodeTree[Len(yNodeTree)].root

\* Only contentBegin leads to content, and only contentEnd changes a document.
LEMMA StepOpenIsBare ==
    ASSUME TypeOK, OpenIsBare, [Next]_vars
    PROVE  OpenIsBare'
<1>1. CASE contentBegin
  <2>1. yNodeTree \in Seq(DocumentNode) /\ (inDocument => yNodeTree # <<>>)
    BY DEF TypeOK
  <2>2. CASE ~inDocument
    <3>1. yNodeTree' = Append(yNodeTree, EmptyDocument)
      BY <1>1, <2>2 DEF contentBegin
    <3>2. Len(yNodeTree') = Len(yNodeTree) + 1 /\ Len(yNodeTree) \in Nat
          /\ yNodeTree'[Len(yNodeTree')] = EmptyDocument
      BY <2>1, <3>1
    <3> QED
      BY <3>2 DEF OpenIsBare, EmptyDocument
  <2>3. CASE inDocument
    <3>1. yNodeTree' = yNodeTree /\ ~yNodeTree[Len(yNodeTree)].root
      BY <1>1, <2>3 DEF contentBegin
    <3>2. Len(yNodeTree) >= 1
      BY <2>1, <2>3, EmptySeq
    <3> QED
      BY <3>1, <3>2 DEF OpenIsBare
  <2> QED
    BY <2>2, <2>3
<1>2. CASE status' # "content"
  BY <1>2 DEF OpenIsBare
<1>3. CASE UNCHANGED <<status, yNodeTree>>
  BY <1>3 DEF OpenIsBare
<1>4. CASE contentEnd
  BY <1>2, <1>4 DEF contentEnd, EndTurn
<1> QED
  BY <1>1, <1>2, <1>3, <1>4
  DEF Next, parseDirective, directiveRefused, documentStart,
      documentStartRefused, documentEnd, documentEndRefused, betweenDocuments,
      contentRefused, parseAnchor, parseAlias, parseTagged, parseVersioned,
      contentMalformed, return, parse, EndTurn, Throw, loop, vars

\* No step takes a document back or writes to one that has its root.
LEMMA StepAppends ==
    ASSUME TypeOK, OpenIsBare, [Next]_vars, parseNo' = parseNo,
           NEW k \in 1..Len(yNodeTree),
           yNodeTree[k].root \/ k < Len(yNodeTree)
    PROVE  yNodeTree'[k] = yNodeTree[k]
<1>1. yNodeTree \in Seq(DocumentNode) /\ Len(yNodeTree) \in Nat
  BY DEF TypeOK
<1>2. CASE yNodeTree' = yNodeTree
  BY <1>2
<1>3. CASE yNodeTree' = Append(yNodeTree, EmptyDocument)
  BY <1>1, <1>3
<1>4. CASE contentEnd
  <2>1. status = "content"
    BY <1>4 DEF contentEnd
  <2>2. k # Len(yNodeTree)
    BY <2>1 DEF OpenIsBare
  <2> QED
    BY <1>1, <1>4, <2>2 DEF contentEnd
<1>5. CASE parse
  BY <1>5 DEF parse, TypeOK
<1> QED
  BY <1>2, <1>3, <1>4, <1>5
  DEF Next, parseDirective, directiveRefused, documentStart,
      documentStartRefused, documentEnd, documentEndRefused, betweenDocuments,
      contentBegin, contentRefused, parseAnchor, parseAlias, parseTagged,
      parseVersioned, contentMalformed, return, loop, vars

\* No step makes the tree shorter.
LEMMA StepGrows ==
    ASSUME TypeOK, [Next]_vars, parseNo' = parseNo
    PROVE  Len(yNodeTree') >= Len(yNodeTree)
<1>1. yNodeTree \in Seq(DocumentNode) /\ Len(yNodeTree) \in Nat
  BY DEF TypeOK
<1>2. CASE yNodeTree' = yNodeTree
  BY <1>1, <1>2
<1>3. CASE yNodeTree' = Append(yNodeTree, EmptyDocument)
  BY <1>1, <1>3
<1>4. CASE contentEnd
  BY <1>1, <1>4 DEF contentEnd
<1>5. CASE parse
  BY <1>5 DEF parse, TypeOK
<1> QED
  BY <1>2, <1>3, <1>4, <1>5
  DEF Next, parseDirective, directiveRefused, documentStart,
      documentStartRefused, documentEnd, documentEndRefused, betweenDocuments,
      contentBegin, contentRefused, parseAnchor, parseAlias, parseTagged,
      parseVersioned, contentMalformed, return, loop, vars

\* For every stream: within a parse documents are only added at the end, and one
\* that has its root stays as it is.
THEOREM AppendedCorrect == Spec => DocumentsAppended
<1>1. Init => OpenIsBare
  BY DEF Init, OpenIsBare
<1>2. TypeOK /\ OpenIsBare /\ [Next]_vars => OpenIsBare'
  BY StepOpenIsBare
<1>3. TypeOK /\ OpenIsBare /\ [Next]_vars =>
          [parseNo' = parseNo =>
              /\ Len(yNodeTree') >= Len(yNodeTree)
              /\ \A k \in 1..Len(yNodeTree) :
                    yNodeTree[k].root \/ k < Len(yNodeTree) =>
                        yNodeTree'[k] = yNodeTree[k]]_vars
  BY StepAppends, StepGrows
<1> QED
  BY <1>1, <1>2, <1>3, TypeCorrect, PTL DEF Spec, DocumentsAppended
=============================================================================
