--------------------------- MODULE DocumentStream ---------------------------
(***************************************************************************)
(* Default_Parser::parse(): the loop that cuts a stream into documents,    *)
(* with the directives, anchors and tag prefixes of ParseContext, and      *)
(* YAML_Impl::parse(), which keeps its result.                             *)
(*                                                                         *)
(* The input is what the loop meets next, chosen step by step.  A stored   *)
(* anchor text, tag prefix or version stands for the document that         *)
(* declares it (its Owner), which is all the properties ask of it.  Inside *)
(* a document, comments and blank lines are skipped by moveToNextIndent(), *)
(* so the loop meets them only between documents.                          *)
(***************************************************************************)
EXTENDS Integers, Sequences

CONSTANTS
    Name,               \* anchor names
    Handle,             \* tag handles
    BuiltInHandle,      \* those with a meaning of their own: "!" and "!!"
    MaxDocuments,       \* Options::max_documents, 0 for unlimited
    Undefined,          \* not in the table; of the version: 1.2, the default
    MaxTree,            \* bound: documents in one stream
    MaxParses           \* bound: calls of YAML_Impl::parse()

ASSUME DocumentAssumption ==
    /\ BuiltInHandle \subseteq Handle
    /\ MaxDocuments \in Nat
    /\ MaxTree \in Nat /\ MaxParses \in Nat \ {0}
    /\ Undefined \notin [parse : Nat, document : Nat]
    /\ "%YAML" \notin Handle

VARIABLES
    more,                   \* source.more()
    status,                 \* "between", "content", "returned" or "thrown"
    inDocument,
    pendingDirectives,
    yNodeTree,              \* the documents of this parse
    yamlAliasMap,
    yamlTagPrefixes,
    yamlDirectiveMinor,
    yamlDirectiveSeen,
    yamlTree                \* YAML_Impl::yamlTree
\* history: the call of parse(), the owners of what the content being parsed has
\* used, and the directives read for the document to come or just begun
VARIABLES parseNo, uses, declared

context == <<yamlAliasMap, yamlTagPrefixes, yamlDirectiveMinor,
             yamlDirectiveSeen>>
loop == <<inDocument, pendingDirectives, yNodeTree>>
vars == <<more, status, loop, context, yamlTree, parseNo, uses, declared>>

Owner == [parse : Nat, document : Nat]
DocumentNode == [root : BOOLEAN, uses : SUBSET Owner, owner : Owner]
Directive == [for : Owner, what : Handle \union {"%YAML"}]

EmptyContext ==
    /\ yamlAliasMap' = [n \in Name |-> Undefined]
    /\ yamlTagPrefixes' = [h \in Handle |-> Undefined]
    /\ yamlDirectiveMinor' = Undefined
    /\ yamlDirectiveSeen' = FALSE

Init ==
    /\ more \in BOOLEAN
    /\ status = "between"
    /\ inDocument = FALSE
    /\ pendingDirectives = FALSE
    /\ yNodeTree = <<>>
    /\ yamlAliasMap = [n \in Name |-> Undefined]
    /\ yamlTagPrefixes = [h \in Handle |-> Undefined]
    /\ yamlDirectiveMinor = Undefined
    /\ yamlDirectiveSeen = FALSE
    /\ yamlTree = <<>>
    /\ parseNo = 1
    /\ uses = {}
    /\ declared = {}
-----------------------------------------------------------------------------
\* The document directives are read for, or that content belongs to.
Numbered(k) == [parse |-> parseNo, document |-> k]
Upcoming == Numbered(Len(yNodeTree) + 1)
Current == Numbered(Len(yNodeTree))

EmptyDocument == [root |-> FALSE, uses |-> {}, owner |-> Upcoming]

\* Length of the tree when the iteration has a document to put content in.
Room == Len(yNodeTree) < MaxTree

Turn == status = "between" /\ more

\* Broken: directives at the end of the source are let through.
BrokenEndTurn ==
    /\ more' \in BOOLEAN
    /\ status' = "between"

\* The end of an iteration, the source being at its end or not.
EndTurn ==
    /\ more' \in BOOLEAN
    /\ status' = IF ~more' /\ pendingDirectives' THEN "thrown" ELSE "between"

Throw ==
    /\ status' = "thrown"
    /\ UNCHANGED more

resetDocumentState == EmptyContext

DirectiveFor(w) == [for |-> Upcoming, what |-> w]

Declare(w) ==
    declared' = {d \in declared : d.for = Upcoming} \union {DirectiveFor(w)}

\* parseDirective(): %YAML, %TAG, or another name, which is ignored.
parseDirective ==
    /\ Turn
    /\ ~inDocument
    /\ pendingDirectives' = TRUE
    /\ EndTurn
    /\ \/ /\ ~yamlDirectiveSeen
          /\ yamlDirectiveSeen' = TRUE
          /\ yamlDirectiveMinor' = Upcoming
          /\ Declare("%YAML")
          /\ UNCHANGED yamlTagPrefixes
       \/ \E h \in Handle :
          /\ yamlTagPrefixes' = [yamlTagPrefixes EXCEPT ![h] = Upcoming]
          /\ Declare(h)
          /\ UNCHANGED <<yamlDirectiveSeen, yamlDirectiveMinor>>
       \/ UNCHANGED <<yamlDirectiveSeen, yamlDirectiveMinor, yamlTagPrefixes,
                      declared>>
    /\ UNCHANGED <<inDocument, yNodeTree, yamlAliasMap, yamlTree, parseNo, uses>>

\* A directive inside a document, a second %YAML, or a version that is none.
directiveRefused ==
    /\ Turn
    /\ Throw
    /\ UNCHANGED <<loop, context, yamlTree, parseNo, uses, declared>>

OverLimit == MaxDocuments # 0 /\ Len(yNodeTree) + 1 > MaxDocuments

\* Broken: the tables of the document before stay; or those of the directives
\* before the first document are dropped.
BrokenTablesStay == UNCHANGED context
BrokenTablesDropped == resetDocumentState

\* The tables of the document before are dropped, those of the directives before
\* the first document are kept.
BeginTables ==
    \/ inDocument /\ resetDocumentState
    \/ ~inDocument /\ UNCHANGED context

\* "---", alone or before content that the next iteration parses.
documentStart ==
    /\ Turn
    /\ Room
    /\ ~OverLimit
    /\ BeginTables
    /\ inDocument' = TRUE
    /\ pendingDirectives' = FALSE
    /\ yNodeTree' = Append(yNodeTree, EmptyDocument)
    /\ EndTurn
    /\ UNCHANGED <<yamlTree, parseNo, uses, declared>>

\* "---" beyond the limit, or with a block collection on its line.
documentStartRefused ==
    /\ Turn
    /\ BeginTables
    /\ Throw
    /\ UNCHANGED <<loop, yamlTree, parseNo, uses, declared>>

\* "...": the document ends; without one, an empty document is added.
documentEnd ==
    /\ Turn
    /\ inDocument \/ (~pendingDirectives /\ Room)
    /\ yNodeTree' = IF inDocument THEN yNodeTree
                                  ELSE Append(yNodeTree, EmptyDocument)
    /\ inDocument' = FALSE
    /\ resetDocumentState
    /\ UNCHANGED <<pendingDirectives, yamlTree, parseNo, uses, declared>>
    /\ EndTurn

\* "..." with directives but no document before it, or with content after it.
documentEndRefused ==
    /\ Turn
    /\ Throw
    /\ UNCHANGED <<loop, context, yamlTree, parseNo, uses, declared>>

\* A comment, a space, a tab or a line feed between documents.
betweenDocuments ==
    /\ Turn
    /\ ~inDocument
    /\ UNCHANGED <<loop, context, yamlTree, parseNo, uses, declared>>
    /\ EndTurn
-----------------------------------------------------------------------------
\* Broken: the open document may have its root already.
BrokenContentBegin ==
    /\ Turn
    /\ \/ /\ ~inDocument
          /\ Room
          /\ yNodeTree' = Append(yNodeTree, EmptyDocument)
          /\ pendingDirectives' = FALSE
       \/ /\ inDocument
          /\ UNCHANGED <<yNodeTree, pendingDirectives>>
    /\ inDocument' = TRUE
    /\ status' = "content"
    /\ uses' = {}
    /\ UNCHANGED <<more, context, yamlTree, parseNo, declared>>

\* Anything else is content: of a new document when none is open, of the open
\* one when it has no root yet.
contentBegin ==
    /\ Turn
    /\ \/ /\ ~inDocument
          /\ Room
          /\ yNodeTree' = Append(yNodeTree, EmptyDocument)
          /\ pendingDirectives' = FALSE
       \/ /\ inDocument
          /\ ~yNodeTree[Len(yNodeTree)].root
          /\ UNCHANGED <<yNodeTree, pendingDirectives>>
    /\ inDocument' = TRUE
    /\ status' = "content"
    /\ uses' = {}
    /\ UNCHANGED <<more, context, yamlTree, parseNo, declared>>

contentRefused ==
    /\ Turn
    /\ inDocument
    /\ yNodeTree[Len(yNodeTree)].root
    /\ Throw
    /\ UNCHANGED <<loop, context, yamlTree, parseNo, uses, declared>>

\* parseAnchor() in the content.
parseAnchor(n) ==
    /\ status = "content"
    /\ yamlAliasMap' = [yamlAliasMap EXCEPT ![n] = Current]
    /\ UNCHANGED <<more, status, loop, yamlTagPrefixes, yamlDirectiveMinor,
                   yamlDirectiveSeen, yamlTree, parseNo, uses, declared>>

\* parseAlias() and parseOverride(): resolveAlias() finds the text or throws.
parseAlias(n) ==
    /\ status = "content"
    /\ \/ /\ yamlAliasMap[n] # Undefined
          /\ uses' = uses \union {yamlAliasMap[n]}
          /\ UNCHANGED <<more, status>>
       \/ /\ yamlAliasMap[n] = Undefined
          /\ Throw
          /\ UNCHANGED uses
    /\ UNCHANGED <<loop, context, yamlTree, parseNo, declared>>

\* parseTagged(): the handle's prefix, its built-in meaning, or an error.
parseTagged(h) ==
    /\ status = "content"
    /\ \/ /\ yamlTagPrefixes[h] # Undefined
          /\ uses' = uses \union {yamlTagPrefixes[h]}
          /\ UNCHANGED <<more, status>>
       \/ /\ yamlTagPrefixes[h] = Undefined
          /\ h \notin BuiltInHandle
          /\ Throw
          /\ UNCHANGED uses
    /\ UNCHANGED <<loop, context, yamlTree, parseNo, declared>>

\* isBoolean(), parseBoolean() and parseNumber() ask for the version.
parseVersioned ==
    /\ status = "content"
    /\ yamlDirectiveMinor # Undefined
    /\ uses' = uses \union {yamlDirectiveMinor}
    /\ UNCHANGED <<more, status, loop, context, yamlTree, parseNo, declared>>

contentMalformed ==
    /\ status = "content"
    /\ Throw
    /\ UNCHANGED <<loop, context, yamlTree, parseNo, uses, declared>>

\* parseDocument() has returned: the root is added to the last document.
contentEnd ==
    /\ status = "content"
    /\ yNodeTree' = [yNodeTree EXCEPT ![Len(yNodeTree)] =
                        [@ EXCEPT !.root = TRUE, !.uses = uses]]
    /\ UNCHANGED <<inDocument, pendingDirectives, context, yamlTree, parseNo,
                   uses, declared>>
    /\ EndTurn
-----------------------------------------------------------------------------
\* parse() returns and YAML_Impl::parse() assigns its tree.
return ==
    /\ status = "between"
    /\ ~more
    /\ status' = "returned"
    /\ yamlTree' = yNodeTree
    /\ UNCHANGED <<more, loop, context, parseNo, uses, declared>>

\* Broken: a parse that threw inside a document leaves inDocument set.
BrokenParse ==
    /\ status \in {"returned", "thrown"}
    /\ parseNo < MaxParses
    /\ parseNo' = parseNo + 1
    /\ more' \in BOOLEAN
    /\ status' = "between"
    /\ pendingDirectives' = FALSE
    /\ yNodeTree' = <<>>
    /\ EmptyContext
    /\ uses' = {}
    /\ declared' = {}
    /\ UNCHANGED <<inDocument, yamlTree>>

\* The next call of YAML_Impl::parse(), the last one having returned or thrown.
parse ==
    /\ status \in {"returned", "thrown"}
    /\ parseNo < MaxParses
    /\ parseNo' = parseNo + 1
    /\ more' \in BOOLEAN
    /\ status' = "between"
    /\ inDocument' = FALSE
    /\ pendingDirectives' = FALSE
    /\ yNodeTree' = <<>>
    /\ EmptyContext
    /\ uses' = {}
    /\ declared' = {}
    /\ UNCHANGED yamlTree

Next ==
    \/ parseDirective
    \/ directiveRefused
    \/ documentStart
    \/ documentStartRefused
    \/ documentEnd
    \/ documentEndRefused
    \/ betweenDocuments
    \/ contentBegin
    \/ contentRefused
    \/ \E n \in Name : parseAnchor(n) \/ parseAlias(n)
    \/ \E h \in Handle : parseTagged(h)
    \/ parseVersioned
    \/ contentMalformed
    \/ contentEnd
    \/ return
    \/ parse

Spec == Init /\ [][Next]_vars
-----------------------------------------------------------------------------
\* The state has the types of ParseContext, of the loop and of YAML_Impl; the loop
\* asks for the last document of the tree only when there is one.
TypeOK ==
    /\ more \in BOOLEAN
    /\ status \in {"between", "content", "returned", "thrown"}
    /\ inDocument \in BOOLEAN
    /\ pendingDirectives \in BOOLEAN
    /\ yNodeTree \in Seq(DocumentNode)
    /\ inDocument => yNodeTree # <<>>
    /\ yamlAliasMap \in [Name -> Owner \union {Undefined}]
    /\ yamlTagPrefixes \in [Handle -> Owner \union {Undefined}]
    /\ yamlDirectiveMinor \in Owner \union {Undefined}
    /\ yamlDirectiveSeen \in BOOLEAN
    /\ yamlTree \in Seq(DocumentNode)
    /\ parseNo \in Nat
    /\ uses \in SUBSET Owner
    /\ declared \in SUBSET Directive

\* Anchors, tag prefixes and the version never leak: what a document is parsed
\* with was declared in it or by the directives before it, not by another
\* document of the stream and not by an earlier parse, whether that one returned
\* or threw in the middle of a document.
OwnDeclarationsOnly ==
    /\ status = "content" => uses \subseteq {Current}
    /\ \A k \in 1..Len(yNodeTree) : yNodeTree[k].uses \subseteq {Numbered(k)}
    /\ \A k \in 1..Len(yamlTree) :
           /\ yamlTree[k].owner.document = k
           /\ yamlTree[k].owner.parse = yamlTree[1].owner.parse
           /\ yamlTree[k].uses \subseteq {yamlTree[k].owner}

\* The directives of a document are all in force while its content is parsed:
\* no reset comes between a directive and the content it is for.
DirectivesInForce ==
    status = "content" =>
        \A d \in declared :
            d.for = Current =>
                IF d.what = "%YAML" THEN yamlDirectiveMinor = Current
                                    ELSE yamlTagPrefixes[d.what] = Current

\* A parse that returns has a document for every directive it read.
DirectivesHaveDocument ==
    status = "returned" =>
        \A d \in declared : d.for.document <= Len(yNodeTree)

\* Within a parse documents are only added at the end, and one that has its root
\* stays as it is.
DocumentsAppended ==
    [][parseNo' = parseNo =>
          /\ Len(yNodeTree') >= Len(yNodeTree)
          /\ \A k \in 1..Len(yNodeTree) :
                yNodeTree[k].root \/ k < Len(yNodeTree) =>
                    yNodeTree'[k] = yNodeTree[k]]_vars
=============================================================================
