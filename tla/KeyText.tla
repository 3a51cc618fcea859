------------------------------ MODULE KeyText -------------------------------
(***************************************************************************)
(* How the text of a mapping key is cut out of the source, before it is    *)
(* parsed: extractKey and extractMapping of YAML_Parser_Dictionary.cpp.    *)
(* Keys that begin with an anchor or a tag are not modelled.               *)
(***************************************************************************)
EXTENDS BlockString

\* Behind a ':', what makes it the separator of key and value.
Separates(n) ==
    \/ current(n) \in {Space, LF, "#", NoChar}
    \/ /\ current(n) = Tab
       /\ current(skipAll(n, {Tab})) \in {Space, LF, "#", "|", ">", NoChar}

RECURSIVE extractPlainKeyTail(_, _, _)
extractPlainKeyTail(s, str, c) ==
    LET e == moveToNext(s, keyStopDelimiters(c) \union {"#"})
        got == str \o Between(s, e)
        ofTheKey == \/ isComment(e) /\ ~EndsIn(got, Blank)
                    \/ current(e) = ":" /\ ~Separates(next(e))
    IN IF ofTheKey THEN extractPlainKeyTail(next(e), Append(got, current(e)), c)
                   ELSE Extracted(e, got)
-----------------------------------------------------------------------------
\* An explicit key.  Its text is handed on with a ':' at the end.
Explicit(s, text) == Extracted(s, Append(text, ":"))

\* From the mark to the key: the spaces in front of it are part of the text.
RECURSIVE KeyBegin(_)
KeyBegin(s) ==
    LET b == skipAll(s, {Space})
    IN IF isComment(b) THEN KeyBegin(skipLine(b)) ELSE Extracted(b, Between(s, b))

\* Whole lines, up to one that begins with the ':' of the key: only a key at
\* the start of a line has one, any other takes the rest of the source.
LinesToColon(n, questionCol) ==
    LET ends == {p \in n.at..Len(n.text) :
                    /\ questionCol = 1
                    /\ n.text[p] = ":"
                    /\ p = n.at \/ n.text[p - 1] = LF}
    IN [n EXCEPT !.at = Min(ends \union {Len(n.text) + 1})]

\* A collection below the mark.
BlockNodeKey(b, questionCol) ==
    LET n == next(b.src)
        e == LinesToColon(n, questionCol)
    IN Explicit(e, b.text \o Between(n, e))

FlowKey(b) ==
    LET k == extractInlineCollectionAt(b.src)
    IN Explicit(moveToNext(k.src, {":", LF}), b.text \o k.text)

\* A sequence behind the mark.  The columns of its later lines are compared
\* at the start of the line: there is only one of them, or the mark is at the
\* start of its line.
SequenceKey(b, questionCol) ==
    LET e == moveToNext(b.src, {LF})
        n == IF questionCol = 1 THEN LinesToColon(next(e), 1) ELSE next(e)
    IN Explicit(n, b.text \o Between(b.src, n))

\* A block scalar: the lines that are indented to the mark or deeper.
RECURSIVE BlockScalarLines(_, _)
BlockScalarLines(s, questionCol) ==
    LET b == skipAll(s, {Space})
        e == moveToNext(s, {LF})
    IN IF current(b) \in {LF, NoChar} \/ b.at - s.at < questionCol THEN s
       ELSE BlockScalarLines(next(e), questionCol)
BlockScalarKey(b, questionCol) ==
    LET e == BlockScalarLines(next(moveToNext(b.src, {LF})), questionCol)
    IN Explicit(e, b.text \o Between(b.src, e))

\* The lines behind the first of any other key.  The key ends at its ':' at
\* the start of a line or at a separator within one ("found"); the mapping
\* goes on without one when a line is not indented deeper than the mark.
RECURSIVE KeyLines(_, _)
KeyLines(s, questionCol) ==
    LET e == moveToNext(s, {LF})
        separators == {p \in s.at..(e.at - 1) :
                          /\ s.text[p] = ":"
                          /\ p + 1 = e.at \/ s.text[p + 1] \in Blank \union {"#"}}
    IN IF ~more(s) THEN [src |-> s, found |-> FALSE]
       ELSE IF column(s) = questionCol /\ current(s) = ":" THEN [src |-> s, found |-> TRUE]
       ELSE IF column(ignoreWS(s)) <= questionCol THEN [src |-> s, found |-> FALSE]
       ELSE IF separators # {}
       THEN [src |-> [s EXCEPT !.at = Min(separators)], found |-> TRUE]
       ELSE KeyLines(next(e), questionCol)

\* The comment is cut from the first line only when no ':' was found.
WithoutComment(text) ==
    LET comments == {i \in 2..Len(text) : text[i] = "#" /\ text[i - 1] \in Blank}
    IN SubSeq(text, 1, Min(comments \union {Len(text) + 2}) - 2)

PlainKey(b, questionCol) ==
    LET e == moveToNext(b.src, {LF})
        got == KeyLines(next(e), questionCol)
        first == Between(b.src, e)
    IN Explicit(got.src, b.text \o (IF got.found THEN first ELSE WithoutComment(first))
                                \o Between(e, got.src))

extractMapping(s, c) ==
    LET b == KeyBegin(next(s))
        questionCol == column(s)
    IN IF c.inlineDictionaryDepth = 0 /\ current(b.src) = LF
       THEN BlockNodeKey(b, questionCol)
       ELSE IF isInlineCollection(b.src) THEN FlowKey(b)
       ELSE IF isArray(b.src) THEN SequenceKey(b, questionCol)
       ELSE IF isPipedBlockString(b.src) \/ isFoldedBlockString(b.src)
       THEN BlockScalarKey(b, questionCol)
       ELSE PlainKey(b, questionCol)

extractKey(s, c) ==
    IF isInlineCollection(s) THEN extractInlineCollectionAt(s)
    ELSE IF isQuotedString(s) THEN extractString(s)
    ELSE IF MappingThrows(s) THEN Unreadable(s)
    ELSE IF isMapping(s) THEN extractMapping(s, c)
    ELSE extractPlainKeyTail(s, <<>>, c)
=============================================================================
