----------------------------- MODULE NodeParser -----------------------------
(***************************************************************************)
(* The recursive descent of Default_Parser: which parser a character leads *)
(* to (YAML_Parser_Router.cpp, the table of Default_Parser.hpp), block and *)
(* flow sequences and mappings, their keys, and the scalars that are       *)
(* tokens.  A parser maps a source to the source behind the node and the   *)
(* node; an exception is a source that is nowhere (module ParserText).     *)
(*                                                                         *)
(* Anchors, aliases, overrides and merge keys, tags, timestamps and        *)
(* directives are not part of the texts (AliasExpansion, MergeKeys and     *)
(* DocumentStream model them), and strictBooleans is off as it is after a  *)
(* start, with yamlDirectiveMinor 2.  No depth limit is set.               *)
(***************************************************************************)
EXTENDS KeyText

Array(items) == [kind |-> "array", items |-> items]
Dictionary(entries) == [kind |-> "dictionary", entries |-> entries]
DictionaryEntry(key, quote, node) == [key |-> key, quote |-> quote, node |-> node]
Null == [kind |-> "null"]
Boolean(text) == [kind |-> "boolean", text |-> text]
Number(text) == [kind |-> "number", text |-> text]
-----------------------------------------------------------------------------
\* Token scalars.  The numbers here are decimal integers without leading
\* zeros; a sign '+' is not kept.
Digits == DOMAIN Digit
isNumberText(token) ==
    LET digits == IF token # <<>> /\ token[1] \in {"+", "-"} THEN Tail(token) ELSE token
    IN digits # <<>> /\ ToSet(digits) \subseteq Digits
TrueText == <<"t", "r", "u", "e">>
FalseText == <<"f", "a", "l", "s", "e">>
NullText == <<"n", "u", "l", "l">>

TokenNode(token) ==
    IF token \in {TrueText, FalseText} THEN Boolean(token)
    ELSE IF isNumberText(token)
    THEN Number(IF token[1] = "+" THEN Tail(token) ELSE token)
    ELSE IF token \in {NullText, <<"~">>} THEN Null
    ELSE NoNode

\* parseBoolean, parseNumber and parseNone: no node when the token is none of
\* theirs, or when a plain scalar goes on below it.
tryParseToken(s, delimiters) ==
    LET e == moveToNext(s, delimiters)
    IN IF hasPlainScalarContinuation(e, column(s)) THEN Parsed(s, NoNode)
       ELSE Parsed(e, TokenNode(rightTrim(Between(s, e))))
-----------------------------------------------------------------------------
\* Node::toKey and Node::toString: what a node is as a key, and as a part of
\* one.  An element that is null shows its name, a key that is null is empty.
RECURSIVE NodeText(_)
NodeText(node) ==
    LET Joined(parts) ==
            FlattenSeq([i \in 1..Len(parts) |->
                IF i = 1 THEN parts[i] ELSE <<",", Space>> \o parts[i]])
        Entry(e) == e.key \o <<":", Space>> \o NodeText(e.node)
    IN CASE node.kind \in {"string", "boolean", "number"} -> node.text
         [] node.kind = "null" -> NullText
         [] node.kind = "array" ->
              <<"[">> \o Joined([i \in DOMAIN node.items |-> NodeText(node.items[i])])
              \o <<"]">>
         [] node.kind = "dictionary" ->
              <<"{">> \o Joined([i \in DOMAIN node.entries |-> Entry(node.entries[i])])
              \o <<"}">>
toKey(node) == IF node.kind = "null" THEN <<>> ELSE NodeText(node)

\* The key of an entry: its text and the quote it is printed with.
KeyNode(node) ==
    [text |-> toKey(node),
     quote |-> IF node.kind = "string" /\ toKey(node) # <<>> THEN node.quote ELSE "\""]
-----------------------------------------------------------------------------
\* Entries of a mapping are kept in the order they are added.
Holds(entries, key) == \E i \in DOMAIN entries : entries[i].key = key
Replaced(entries, entry) ==
    [i \in DOMAIN entries |->
        IF entries[i].key = entry.key THEN [entries[i] EXCEPT !.node = entry.node]
                                      ELSE entries[i]]

\* A key that is there already: the empty one is replaced in a block mapping,
\* one that is a collection in a flow mapping, any other is an error.
DuplicateThrows(entries, key) == Holds(entries, key) /\ key # <<>>
InlineDuplicateThrows(entries, key) ==
    Holds(entries, key) /\ ~(key # <<>> /\ key[1] \in {"[", "{"})
WithEntry(entries, entry) ==
    IF Holds(entries, entry.key) THEN Replaced(entries, entry) ELSE Append(entries, entry)
-----------------------------------------------------------------------------
RECURSIVE parseDocument(_, _, _, _)

parseFromBuffer(text, delimiters, indentation, c) ==
    parseDocument(Opened(text), delimiters, indentation, c)

isValidKey(key, c) ==
    LET first == skipAll(Opened(key), Blank)
    IN \/ ~more(first)
       \/ /\ ~isComment(first)
          /\ isQuotedString(first) =>
                ~thrown(parseFromBuffer(Append(key, LF), {LF}, 0, c).src)

\* Whether what was extracted is a key: the answer may be an exception.
KeyFound(k, c) ==
    LET key == k.text
        ends == EndsIn(key, {":"})
        n == next(k.src)
        front == IF key = <<>> THEN NoChar ELSE key[1]
        quoted == front \in {"'", "\""}
        inFlow == c.inlineDictionaryDepth > 0
        throws == \/ thrown(k.src)
                  \/ /\ current(k.src) = ":" \/ ends
                     /\ \/ /\ LF \in ToSet(key)
                           /\ front \in {"{", "["} \/ (quoted /\ ~inFlow)
                        \/ ~inFlow /\ current(n) = Tab /\ ~Separates(n)
        separated == \/ current(n) \in Blank \union {LF, NoChar}
                     \/ ends
                     \/ isInsideFlowContext(c) /\ (quoted \/ front \in {"[", "{"})
    IN [throws |-> throws,
        found |-> /\ ~throws
                  /\ current(k.src) = ":" \/ ends
                  /\ separated
                  /\ isValidKey(rightTrim(IF ends THEN Front(key) ELSE key), c)]

isKey(s, c) == KeyFound(extractKey(s, c), c)
isNoKey(key) == ~key.throws /\ ~key.found

\* In a flow collection a key may go on over the next lines.
RECURSIVE FlowKeyLines(_)
FlowKeyLines(k) ==
    LET n == skipAll(next(k.src), {Space})
        e == moveToNext(n, {":", LF} \union FlowEnd)
    IN IF current(k.src) # LF \/ current(n) \in {":"} \union FlowEnd THEN k
       ELSE FlowKeyLines(Extracted(e, k.text \o <<Space>> \o Between(n, e)))

\* The key is parsed as a document of its own; a quoted one in a block is
\* told its column.
KeyParsed(k, quoteColumn, c) ==
    LET key == rightTrim(IF EndsIn(k.text, {":"}) THEN Front(k.text) ELSE k.text)
        parsed == parseFromBuffer(Append(key, LF), {LF}, quoteColumn, c)
    IN IF thrown(k.src) \/ ~isValidKey(key, c) \/ thrown(parsed.src) THEN Failed(k.src)
       ELSE Parsed(IF current(k.src) \in {":", LF} THEN next(k.src) ELSE k.src,
                   KeyNode(parsed.node))

KeyExtracted(s, k, c) ==
    IF isInsideFlowContext(c) THEN KeyParsed(FlowKeyLines(k), 0, c)
    ELSE KeyParsed(k, IF isQuotedString(s) THEN column(s) ELSE 0, c)
parseKey(s, c) == KeyExtracted(s, extractKey(s, c), c)
-----------------------------------------------------------------------------
\* Behind the key of a block entry: over its ':' if parseKey left it there.
\* The answer may be an exception, also for a second key on the line.
SecondKey(w, key, keyIndent, c) ==
    \/ key.throws
    \/ /\ key.found
       /\ ~isMapping(w)
       /\ c.inlineDictionaryDepth > 0 \/ column(w) > keyIndent

BehindKey(s, keyIndent, c) ==
    LET w == ignoreWS(s)
        n == next(w)
        t == skipAll(n, {Tab})
        inFlow == c.inlineDictionaryDepth > 0
    IN IF current(w) = ":"
       THEN IF current(n) = Space THEN next(n)
            ELSE IF inFlow \/ current(n) # Tab THEN n
            ELSE IF current(t) = Space THEN t
            ELSE IF current(t) \in {LF, "#", NoChar} THEN n
            ELSE Throw(n)
       ELSE IF SecondKey(w, isKey(w, c), keyIndent, c) THEN Throw(w) ELSE w

\* An entry with its key and the value read for it, if there is one.
EntryOf(k, hasValue, v) ==
    IF hasValue /\ thrown(v.src) THEN Failed(v.src)
    ELSE Parsed(v.src, DictionaryEntry(k.node.text, k.node.quote,
                                       IF hasValue THEN v.node ELSE Null))

\* The value of a block entry from its place on.  A sequence may start in any
\* column.
ValueAt(m, s, k, delimiters, c) ==
    LET keyIndent == column(s)
        sameLine == c.inlineDictionaryDepth = 0 /\ line(m) = line(s)
        c1 == IF sameLine /\ isInlineCollection(m)
              THEN [c EXCEPT !.blockFlowValueIndent = keyIndent] ELSE c
        hasValue == more(m) /\ (column(m) > keyIndent \/ isInlineCollection(m) \/ isArray(m))
    IN IF thrown(k.src) \/ thrown(m) \/ (sameLine /\ isArray(m)) THEN Failed(s)
       ELSE EntryOf(k, hasValue, IF hasValue THEN parseDocument(m, delimiters, keyIndent, c1)
                                             ELSE Parsed(m, Null))

\* An entry of a block mapping.
KeyAndValue(s, k, delimiters, c) ==
    ValueAt(moveToNextIndent(BehindKey(k.src, column(s), c)), s, k, delimiters, c)
parseKeyValue(s, delimiters, c) == KeyAndValue(s, parseKey(s, c), delimiters, c)

RECURSIVE BlockEntries(_, _, _, _, _)
RECURSIVE MoreEntries(_, _, _, _, _)
MoreEntries(e, entries, delimiters, dictionaryIndent, c) ==
    IF thrown(e.src) \/ DuplicateThrows(entries, e.node.key) THEN Failed(e.src)
    ELSE BlockEntries(moveToNextIndent(e.src), WithEntry(entries, e.node),
                      delimiters, dictionaryIndent, c)

RECURSIVE EntryOrEnd(_, _, _, _, _, _)
EntryOrEnd(key, s, entries, delimiters, dictionaryIndent, c) ==
    IF ~more(s) \/ column(s) # dictionaryIndent THEN Parsed(s, Dictionary(entries))
    ELSE IF key.found
    THEN MoreEntries(parseKeyValue(s, delimiters, c), entries, delimiters,
                     dictionaryIndent, c)
    ELSE IF /\ ~key.throws
            /\ \/ isInsideFlowContext(c) /\ current(s) \in FlowEnd
               \/ isDocumentBoundary(s)
    THEN Parsed(s, Dictionary(entries))
    ELSE Failed(s)

BlockEntries(s, entries, delimiters, dictionaryIndent, c) ==
    EntryOrEnd(isKey(s, c), s, entries, delimiters, dictionaryIndent, c)

\* A mapping may not be followed by a key that is deeper.
DeeperKey(s, key, dictionaryIndent) ==
    key.throws \/ (key.found /\ dictionaryIndent < column(s))
BlockDictionary(got, dictionaryIndent, c) ==
    IF \/ thrown(got.src)
       \/ DeeperKey(got.src, isKey(got.src, c), dictionaryIndent)
    THEN Failed(got.src) ELSE got
parseDictionary(s, delimiters, c) ==
    BlockDictionary(BlockEntries(s, <<>>, delimiters, column(s), c), column(s), c)
-----------------------------------------------------------------------------
\* An entry of a flow mapping: its ':' may be on another line than its key.
InlineEntry(k, delimiters, indentation, c) ==
    LET w == ignoreWS(k.src)
        b == IF current(w) \in {LF, "#"} THEN moveToNextIndent(w) ELSE w
        n == IF current(b) = ":" THEN ignoreWS(next(b)) ELSE b
        hasValue == current(n) \notin {",", "}", NoChar}
    IN IF thrown(k.src) \/ thrown(n) THEN Failed(n)
       ELSE EntryOf(k, hasValue, IF hasValue THEN parseDocument(n, delimiters, indentation, c)
                                             ELSE Parsed(n, Null))
parseInlineKeyValue(s, delimiters, indentation, c) ==
    InlineEntry(parseKey(s, c), delimiters, indentation, c)

\* From the '{' or a ',': an entry, if there is one, and on at the next ','.
RECURSIVE FlowEntries(_, _, _, _, _)
RECURSIVE MoreFlowEntries(_, _, _, _, _)
MoreFlowEntries(e, entries, delimiters, indentation, c) ==
    LET all == WithEntry(entries, e.node)
    IN IF thrown(e.src) \/ InlineDuplicateThrows(entries, e.node.key) THEN Failed(e.src)
       ELSE IF current(e.src) = "," THEN FlowEntries(e.src, all, delimiters, indentation, c)
       ELSE Parsed(e.src, Dictionary(all))

FlowEntries(s, entries, delimiters, indentation, c) ==
    LET n == moveToNextIndent(next(s))
    IN IF thrown(n) \/ current(n) = "," THEN Failed(s)
       ELSE IF current(n) = "}" THEN Parsed(n, Dictionary(entries))
       ELSE IF line(n) > line(s) /\ column(n) <= indentation THEN Failed(s)
       ELSE MoreFlowEntries(parseInlineKeyValue(n, delimiters, indentation, c),
                            entries, delimiters, indentation, c)

\* A flow mapping with its '}' is not a key.
FlowDictionary(got, delimiters, c) ==
    LET close == checkForEnd(got.src, "}")
        e == checkAtFlowClose(close, delimiters, c.inlineDictionaryDepth)
    IN IF thrown(got.src) \/ thrown(close) \/ current(close) = ":" \/ thrown(e)
       THEN Failed(e) ELSE Parsed(e, got.node)
parseInlineDictionary(s, delimiters, indentation, c) ==
    LET c1 == [c EXCEPT !.inlineDictionaryDepth = @ + 1]
    IN FlowDictionary(FlowEntries(s, <<>>, delimiters \union {",", "}"}, indentation, c1),
                      delimiters, c)
-----------------------------------------------------------------------------
\* A flow sequence that is the value on the line of its key may not go on at
\* the column of the key or in front of it.
ContinuationThrows(n, c) ==
    LET p == skipAll(n, {LF})
        q == skipAll(p, {Space})
    IN /\ c.inlineArrayDepth = 1
       /\ current(n) = LF
       /\ c.blockFlowValueIndent > 0
       /\ current(q) \notin {"]", NoChar}
       /\ 1 + (q.at - p.at) <= c.blockFlowValueIndent

\* From the '[' or a ',': an item, and on at the next ','.  Nothing at all may
\* be the item only in front of the ']', and then there is none.
RECURSIVE FlowItems(_, _, _, _, _)
FlowItems(s, items, delimiters, indentation, c) ==
    LET n == next(s)
        r == parseDocument(n, delimiters, indentation, c)
        nothing == r.node = String(<<>>, NoQuote)
        all == IF nothing THEN items ELSE Append(items, r.node)
    IN IF \/ isComment(n)
          \/ ContinuationThrows(n, c)
          \/ thrown(r.src)
          \/ r.node = String(<<"-">>, NoQuote)
          \/ nothing /\ current(r.src) # "]"
       THEN Failed(s)
       ELSE IF current(r.src) = "," THEN FlowItems(r.src, all, delimiters, indentation, c)
       ELSE Parsed(r.src, Array(all))

parseInlineArray(s, delimiters, indentation, c) ==
    LET c1 == [c EXCEPT !.inlineArrayDepth = @ + 1]
        got == FlowItems(s, <<>>, delimiters \union {",", "]"}, indentation, c1)
        e == checkAtFlowClose(checkForEnd(got.src, "]"), delimiters, c.inlineArrayDepth)
    IN IF thrown(got.src) \/ thrown(e) THEN Failed(s) ELSE Parsed(e, got.node)
-----------------------------------------------------------------------------
\* The items of a block sequence: one that is empty, and has nothing deeper
\* below it, is null.
RECURSIVE BlockItems(_, _, _, _, _)
BlockItems(s, items, delimiters, arrayIndent, c) ==
    LET w == ignoreWS(next(s))
        m == IF current(w) = LF THEN moveToNextIndent(w) ELSE w
        empty == current(w) = LF /\ column(m) <= arrayIndent
        r == IF empty THEN Parsed(m, Null) ELSE parseDocument(m, delimiters, arrayIndent, c)
        tabbed == Tab \in ToSet(Between(next(s), w)) /\ isArray(w)
    IN IF ~isArray(s) \/ column(s) # arrayIndent THEN Parsed(s, Array(items))
       ELSE IF tabbed \/ thrown(m) \/ thrown(r.src) THEN Failed(s)
       ELSE BlockItems(moveToNextIndent(r.src), Append(items, r.node),
                       delimiters, arrayIndent, c)

\* An outer sequence may not be followed by an item that is less deep.
BlockArray(got, arrayIndent, c) ==
    IF \/ thrown(got.src)
       \/ isArray(got.src) /\ c.arrayIndentLevel = 0 /\ arrayIndent > column(got.src)
    THEN Failed(got.src) ELSE got
parseArray(s, delimiters, c) ==
    LET c1 == [c EXCEPT !.arrayIndentLevel = @ + 1]
    IN BlockArray(BlockItems(s, <<>>, delimiters, column(s), c1), column(s), c)
-----------------------------------------------------------------------------
\* The table of parsers, in its order; the last one takes anything.
NodeBy(key, s, delimiters, indentation, c) ==
    LET token == tryParseToken(s, delimiters)
    IN IF isArray(s) THEN parseArray(s, delimiters, c)
       ELSE IF key.throws THEN Failed(s)
       ELSE IF key.found THEN parseDictionary(s, delimiters, c)
       ELSE IF current(s) = "{" THEN parseInlineDictionary(s, delimiters, indentation, c)
       ELSE IF current(s) = "[" THEN parseInlineArray(s, delimiters, indentation, c)
       ELSE IF isQuotedString(s) THEN parseQuotedFlowString(s, delimiters, indentation)
       ELSE IF token.node # NoNode THEN token
       ELSE IF isFoldedBlockString(s) THEN parseFoldedBlockString(s, delimiters, indentation)
       ELSE IF isPipedBlockString(s) THEN parseLiteralBlockString(s, delimiters, indentation)
       ELSE parsePlainFlowString(s, delimiters, indentation, c)
Node(s, delimiters, indentation, c) ==
    NodeBy(isKey(s, c), s, delimiters, indentation, c)

BehindNode(got) ==
    LET e == moveToNextIndent(got.src)
    IN IF thrown(got.src) \/ thrown(e) THEN Failed(e) ELSE Parsed(e, got.node)

parseDocument(s, delimiters, indentation, c) ==
    LET m == moveToNextIndent(s)
    IN IF thrown(m) \/ (isInsideFlowContext(c) /\ isDocumentBoundary(m)) THEN Failed(s)
       ELSE BehindNode(Node(m, delimiters, indentation, c))
-----------------------------------------------------------------------------
\* Default_Parser::parse on a text without directives and without a limit on
\* the number of documents: the documents, each with its node if it has one.
Delivered(s, docs) == [src |-> s, docs |-> docs]
Contents(s) == parseDocument(s, {LF, "#"}, 0, NoContext)

\* Behind "---": no block collection may begin on its line.
BehindStart(s) ==
    LET w == ignoreWS(next(next(next(s))))
    IN IF current(w) \in {LF, "#", NoChar} THEN moveToNextIndent(w)
       ELSE IF isNoKey(isKey(w, NoContext)) /\ ~isMapping(w) /\ ~isArray(w) THEN w
       ELSE Throw(w)

\* Behind "...": a comment may follow on its line, or text without a blank.
BehindEnd(s) ==
    LET e == next(next(next(s)))
        w == ignoreWS(e)
    IN IF w # e /\ current(w) \notin {LF, "#", NoChar} THEN Throw(w)
       ELSE moveToNextIndent(skipLine(w))

RECURSIVE Documents(_, _, _)
RECURSIVE WithContents(_, _)
WithContents(got, docs) ==
    IF Last(docs) # <<>> \/ thrown(got.src) THEN Delivered(Throw(got.src), docs)
    ELSE Documents(got.src, Front(docs) \o <<<<got.node>>>>, TRUE)

Documents(s, docs, inDocument) ==
    LET opened == IF inDocument THEN docs ELSE Append(docs, <<>>)
    IN IF ~more(s) THEN Delivered(s, docs)
       ELSE IF isDocumentStart(s)
       THEN Documents(BehindStart(s), Append(docs, <<>>), TRUE)
       ELSE IF isDocumentEnd(s) THEN Documents(BehindEnd(s), opened, FALSE)
       ELSE IF ~inDocument /\ isComment(s) THEN Documents(skipLine(s), docs, FALSE)
       ELSE IF ~inDocument /\ current(s) \in Blank \union {LF}
       THEN Documents(next(s), docs, FALSE)
       ELSE WithContents(Contents(s), opened)

parse(text) == Documents(Opened(text), <<>>, FALSE)
=============================================================================
