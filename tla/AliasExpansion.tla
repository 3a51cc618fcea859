--------------------------- MODULE AliasExpansion ---------------------------
(***************************************************************************)
(* Anchors, aliases and "<<:*name" overrides of Default_Parser: textual    *)
(* substitution.  An anchor stores the unparsed text of its node under its *)
(* name and parses it on the spot; an alias parses the stored text again,  *)
(* with the anchors and aliases inside it.                                 *)
(*                                                                         *)
(* A text is an identifier; contents gives the nodes it holds in order     *)
(* (the elements of a collection): a scalar, an anchored text, an alias or *)
(* an override; the empty text holds none.  stack holds the nested         *)
(* parseDocument() calls: the document and every buffer being parsed       *)
(* (parseFromBuffer).                                                      *)
(***************************************************************************)
EXTENDS Integers, Sequences, FiniteSets

CONSTANTS
    Name,                   \* anchor names
    Text,                   \* texts
    EmptyText,              \* the text of an anchor with nothing after it
    Document,               \* the texts that are whole documents
    Contents,               \* the possible contents of the texts
    Undefined,              \* "no such name" in yamlAliasMap
    MaxParseDepth,          \* Options::max_parse_depth, 0 for unlimited
    MaxAliasExpansions      \* Options::max_alias_expansions, 0 for unlimited

Node == [kind : {"scalar", "anchor", "alias", "override"},
         name : Name, text : Text]

ASSUME AliasAssumption ==
    /\ EmptyText \in Text
    /\ Undefined \notin Text
    /\ Document \subseteq Text
    /\ Contents \subseteq [Text -> Seq(Node)]
    /\ \A c \in Contents : c[EmptyText] = <<>>
    /\ MaxParseDepth \in Nat
    /\ MaxAliasExpansions \in Nat

VARIABLES
    contents,               \* what the texts hold
    stack,                  \* the texts being parsed, the document first
    yamlAliasMap,           \* ctx_.yamlAliasMap
    activeAliasExpansions,  \* ctx_.activeAliasExpansions
    aliasExpansionCount,
    parseDepth,
    status                  \* "parsing", "done", or the error thrown
\* history: buffers parsed for an alias or an override since parse() began, one
\* past the limit standing for all that are
VARIABLE expansions

vars == <<contents, stack, yamlAliasMap, activeAliasExpansions,
          aliasExpansionCount, parseDepth, status, expansions>>

Errors == {"depth", "recursive", "limit", "undefined", "syntax"}

Frame == [text : Text, at : Nat \ {0}, name : Name \union {Undefined},
          via : {"document", "anchor", "alias", "override"}]

DocumentFrame(d) ==
    [text |-> d, at |-> 1, name |-> Undefined, via |-> "document"]

Init ==
    /\ contents \in Contents
    /\ \E d \in Document : stack = <<DocumentFrame(d)>>
    /\ yamlAliasMap = [n \in Name |-> Undefined]
    /\ activeAliasExpansions = {}
    /\ aliasExpansionCount = 0
    /\ parseDepth = 1
    /\ status = "parsing"
    /\ expansions = 0
-----------------------------------------------------------------------------
Top == stack[Len(stack)]

\* Broken: compares before it counts.
BrokenDepthAllows(k) == MaxParseDepth = 0 \/ parseDepth <= MaxParseDepth

\* The DepthGuards of k further parseDocument() calls are granted.
DepthAllows(k) == MaxParseDepth = 0 \/ parseDepth + k <= MaxParseDepth

\* parseDocument() has dispatched on the next node of the text: it is one of
\* kind k, read under a DepthGuard of its own.
AtNode(k) ==
    /\ status = "parsing"
    /\ stack # <<>>
    /\ Top.at <= Len(contents[Top.text])
    /\ contents[Top.text][Top.at].kind = k
    /\ DepthAllows(1)

This == contents[Top.text][Top.at]

Passed == [stack EXCEPT ![Len(stack)].at = @ + 1]

\* The node is read; nothing was nested in it.
PassNode ==
    /\ stack' = Passed
    /\ UNCHANGED <<parseDepth, status>>

\* Broken: the alias stays in front of the source.
BrokenParseBuffer(how, t) ==
    /\ DepthAllows(2)
    /\ stack' = Append(stack, [text |-> t, at |-> 1, name |-> This.name,
                               via |-> how])
    /\ parseDepth' = parseDepth + 2
    /\ UNCHANGED status

\* parseFromBuffer(t): a nested parseDocument(), below the node's own.
ParseBuffer(how, t) ==
    /\ DepthAllows(2)
    /\ stack' = Append(Passed, [text |-> t, at |-> 1, name |-> This.name,
                                via |-> how])
    /\ parseDepth' = parseDepth + 2
    /\ UNCHANGED status

Throw(error) ==
    /\ status' = error
    /\ UNCHANGED <<stack, parseDepth>>

BufferTooDeep == ~DepthAllows(2) /\ Throw("depth")
-----------------------------------------------------------------------------
ParseScalar ==
    /\ AtNode("scalar")
    /\ PassNode
    /\ UNCHANGED <<contents, yamlAliasMap, activeAliasExpansions,
                   aliasExpansionCount, expansions>>

\* A syntax error: the node's own, that of an anchor on an alias or on another
\* anchor, a missing "*" after "<<:", or anything after the node.
NodeMalformed ==
    /\ status = "parsing"
    /\ stack # <<>>
    /\ Throw("syntax")
    /\ UNCHANGED <<contents, yamlAliasMap, activeAliasExpansions,
                   aliasExpansionCount, expansions>>

NodeTooDeep ==
    /\ status = "parsing"
    /\ stack # <<>>
    /\ Top.at <= Len(contents[Top.text])
    /\ ~DepthAllows(1)
    /\ Throw("depth")
    /\ UNCHANGED <<contents, yamlAliasMap, activeAliasExpansions,
                   aliasExpansionCount, expansions>>

\* parseAnchor(): the text is stored before it is parsed.
parseAnchor ==
    /\ AtNode("anchor")
    /\ yamlAliasMap' = [yamlAliasMap EXCEPT ![This.name] = This.text]
    /\ \/ This.text = EmptyText /\ PassNode
       \/ This.text # EmptyText /\ ParseBuffer("anchor", This.text)
       \/ This.text # EmptyText /\ BufferTooDeep
    /\ UNCHANGED <<contents, activeAliasExpansions, aliasExpansionCount,
                   expansions>>

Counted == IF MaxAliasExpansions = 0 THEN aliasExpansionCount
                                     ELSE aliasExpansionCount + 1

\* Broken: compares before it counts.
BrokenOverLimit ==
    MaxAliasExpansions # 0 /\ aliasExpansionCount > MaxAliasExpansions

OverLimit == MaxAliasExpansions # 0 /\ Counted > MaxAliasExpansions

aliasRecursive ==
    /\ AtNode("alias")
    /\ This.name \in activeAliasExpansions
    /\ Throw("recursive")
    /\ UNCHANGED <<contents, yamlAliasMap, activeAliasExpansions,
                   aliasExpansionCount, expansions>>

aliasOverLimit ==
    /\ AtNode("alias")
    /\ This.name \notin activeAliasExpansions
    /\ OverLimit
    /\ aliasExpansionCount' = Counted
    /\ Throw("limit")
    /\ UNCHANGED <<contents, yamlAliasMap, activeAliasExpansions, expansions>>

OneMoreExpansion ==
    expansions' = IF expansions > MaxAliasExpansions THEN expansions
                                                     ELSE expansions + 1

\* resolveAlias(): the name was never anchored, or its text is empty (a null
\* node), or the text is parsed while the name is marked active.
aliasResolved ==
    /\ AtNode("alias")
    /\ This.name \notin activeAliasExpansions
    /\ ~OverLimit
    /\ aliasExpansionCount' = Counted
    /\ LET unparsed == yamlAliasMap[This.name]
       IN  \/ /\ unparsed = Undefined
              /\ Throw("undefined")
              /\ UNCHANGED <<activeAliasExpansions, expansions>>
           \/ /\ unparsed = EmptyText
              /\ PassNode
              /\ UNCHANGED <<activeAliasExpansions, expansions>>
           \/ /\ unparsed \notin {Undefined, EmptyText}
              /\ ParseBuffer("alias", unparsed)
              /\ activeAliasExpansions' = activeAliasExpansions \union {This.name}
              /\ OneMoreExpansion
           \/ /\ unparsed \notin {Undefined, EmptyText}
              /\ BufferTooDeep
              /\ UNCHANGED <<activeAliasExpansions, expansions>>
    /\ UNCHANGED <<contents, yamlAliasMap>>

\* parseOverride(): resolves the name and parses its text, and nothing else.
parseOverride ==
    /\ AtNode("override")
    /\ LET unparsed == yamlAliasMap[This.name]
       IN  \/ /\ unparsed = Undefined
              /\ Throw("undefined")
              /\ UNCHANGED expansions
           \/ /\ unparsed # Undefined
              /\ ParseBuffer("override", unparsed)
              /\ OneMoreExpansion
           \/ /\ unparsed # Undefined
              /\ BufferTooDeep
              /\ UNCHANGED expansions
    /\ UNCHANGED <<contents, yamlAliasMap, activeAliasExpansions,
                   aliasExpansionCount>>
-----------------------------------------------------------------------------
\* Broken: the document is taken to be below a node, too; or an exception passes
\* the count by, as it would without DepthGuard.
BrokenDepthDocument == parseDepth - 2
BrokenDepthThrown == IF status \in Errors THEN parseDepth ELSE parseDepth - 2

\* The DepthGuards of the innermost parseDocument() and of the node it belongs
\* to are destroyed ...
DepthLeft == IF Len(stack) = 1 THEN parseDepth - 1 ELSE parseDepth - 2

\* Broken: an exception passes the mark by, as it would without AliasGuard.
BrokenMarksLeft ==
    IF Top.via = "alias" /\ status \notin Errors
    THEN activeAliasExpansions \ {Top.name} ELSE activeAliasExpansions

\* ... and the AliasGuard of an alias.
MarksLeft ==
    IF Top.via = "alias" THEN activeAliasExpansions \ {Top.name}
                         ELSE activeAliasExpansions

\* Broken: the anchor is stored once more when its text has been parsed.
BrokenLeaveText ==
    /\ stack' = SubSeq(stack, 1, Len(stack) - 1)
    /\ activeAliasExpansions' = MarksLeft
    /\ yamlAliasMap' = IF Top.via = "anchor"
                       THEN [yamlAliasMap EXCEPT ![Top.name] = Top.text]
                       ELSE yamlAliasMap
    /\ parseDepth' = DepthLeft
    /\ UNCHANGED <<contents, aliasExpansionCount, expansions>>

LeaveText ==
    /\ stack' = SubSeq(stack, 1, Len(stack) - 1)
    /\ activeAliasExpansions' = MarksLeft
    /\ parseDepth' = DepthLeft
    /\ UNCHANGED <<contents, yamlAliasMap, aliasExpansionCount, expansions>>

TextParsed ==
    /\ status = "parsing"
    /\ stack # <<>>
    /\ Top.at > Len(contents[Top.text])
    /\ LeaveText
    /\ status' = IF Len(stack) = 1 THEN "done" ELSE "parsing"

\* An exception unwinds the calls one by one.
Unwind ==
    /\ status \in Errors
    /\ stack # <<>>
    /\ LeaveText
    /\ UNCHANGED status

\* resetDocumentState() and the next document of the stream.
NextDocument ==
    /\ status = "done"
    /\ \E d \in Document : stack' = <<DocumentFrame(d)>>
    /\ yamlAliasMap' = [n \in Name |-> Undefined]
    /\ activeAliasExpansions' = {}
    /\ parseDepth' = parseDepth + 1
    /\ status' = "parsing"
    /\ UNCHANGED <<contents, aliasExpansionCount, expansions>>

\* Another call of parse() on the same parser, whatever the last one left.
ParseAgain ==
    /\ status \in Errors \union {"done"}
    /\ stack = <<>>
    /\ \E d \in Document : stack' = <<DocumentFrame(d)>>
    /\ yamlAliasMap' = [n \in Name |-> Undefined]
    /\ activeAliasExpansions' = {}
    /\ aliasExpansionCount' = 0
    /\ parseDepth' = 1
    /\ status' = "parsing"
    /\ expansions' = 0
    /\ UNCHANGED contents

ParseStep ==
    \/ ParseScalar
    \/ NodeMalformed
    \/ NodeTooDeep
    \/ parseAnchor
    \/ aliasRecursive
    \/ aliasOverLimit
    \/ aliasResolved
    \/ parseOverride
    \/ TextParsed
    \/ Unwind

Next == ParseStep \/ NextDocument \/ ParseAgain

\* A parse is one call on one thread: it runs until it returns or throws.
Fairness == WF_vars(ParseStep)

Spec == Init /\ [][Next]_vars
FairSpec == Spec /\ Fairness
-----------------------------------------------------------------------------
\* The state has the types of ParseContext and of the parser's counters.
TypeOK ==
    /\ contents \in [Text -> Seq(Node)]
    /\ stack \in Seq(Frame)
    /\ yamlAliasMap \in [Name -> Text \union {Undefined}]
    /\ activeAliasExpansions \in SUBSET Name
    /\ aliasExpansionCount \in Nat
    /\ parseDepth \in Nat
    /\ status \in Errors \union {"parsing", "done"}
    /\ expansions \in Nat

AliasFrames == {i \in 1..Len(stack) : stack[i].via = "alias"}

\* The names marked active are exactly those of the aliases being expanded, and
\* none is expanded inside itself: the marks that decide "Recursive anchor" are
\* neither lost nor left behind by a return, by an exception, by the next
\* document or by the next parse.
ActiveAreExpanding ==
    /\ activeAliasExpansions = {stack[i].name : i \in AliasFrames}
    /\ \A i, j \in AliasFrames : stack[i].name = stack[j].name => i = j

\* Every grant of depth is returned, on every way out: parseDepth counts the
\* parseDocument() calls that are on the stack.
DepthBalanced ==
    parseDepth = IF stack = <<>> THEN 0 ELSE 2 * Len(stack) - 1

\* Options::max_parse_depth bounds the nesting of calls whatever the anchors
\* and aliases of the input.
DepthBounded == MaxParseDepth # 0 => parseDepth <= MaxParseDepth

\* While a stored text is being parsed for an alias or an override, the map
\* still holds it: an anchor inside the text does not replace the string under
\* the BufferSource that reads it.
ExpandedTextKept ==
    \A i \in 1..Len(stack) :
        stack[i].via \in {"alias", "override"} =>
            yamlAliasMap[stack[i].name] = stack[i].text

\* Options::max_alias_expansions bounds how often a stored text is parsed again
\* in one call of parse().
ExpansionsWithinLimit ==
    MaxAliasExpansions # 0 => expansions <= MaxAliasExpansions

OverrideFree ==
    \A t \in Text : \A i \in DOMAIN contents[t] : contents[t][i].kind # "override"

\* The limit does so for texts without overrides, over all the documents of the
\* parse and whatever the depth of the expansions.
AliasesWithinLimit == OverrideFree => ExpansionsWithinLimit

\* A parse ends: aliases cannot make it expand texts forever, whatever the
\* anchors name.
Termination == status = "parsing" ~> status # "parsing"
=============================================================================
