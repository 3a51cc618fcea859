----------------------------- MODULE FlowString -----------------------------
(***************************************************************************)
(* The flow scalars of YAML_Parser_FlowString.cpp: plain, single quoted    *)
(* and double quoted, over several lines, with the folding of line breaks, *)
(* the comments between and behind the lines, and the escapes of           *)
(* Default_Translator.                                                     *)
(*                                                                         *)
(* A parser maps a source to the source behind the node and the node.      *)
(***************************************************************************)
EXTENDS Translator

\* Nodes.  A plain string has the quote kNull, here NoQuote.
NoQuote == "0"
String(text, quote) == [kind |-> "string", text |-> text, quote |-> quote]
NoNode == [kind |-> "empty"]
Parsed(s, node) == [src |-> s, node |-> node]
Failed(s) == Parsed(Throw(s), NoNode)
-----------------------------------------------------------------------------
\* The start of the next line of a quoted scalar.
prepareQuotedContinuationLine(s, minIndent) ==
    LET w == ignoreWS(s)
    IN IF /\ minIndent > 0
          /\ \/ current(s) = Tab
             \/ current(w) \notin {LF, NoChar} /\ column(w) <= minIndent
       THEN Throw(s) ELSE w

\* A line folds without its trailing blanks, but for one that is escaped.
FoldedLine(str, escapeAware) ==
    LET kept == {i \in 1..Len(str) :
                    \/ str[i] \notin Blank
                    \/ escapeAware /\ i > 1 /\ str[i - 1] = "\\"}
    IN SubSeq(str, 1, Max(kept \union {0}))

\* One character, or a line break: a single one is a space, an empty line a
\* line break.
appendCharacterToString(s, str, escapeAware, minIndent) ==
    LET w == prepareQuotedContinuationLine(next(s), minIndent)
        folded == FoldedLine(str, escapeAware)
    IN IF current(s) # LF THEN Extracted(next(s), Append(str, current(s)))
       ELSE IF current(w) = LF THEN Extracted(ignoreWS(next(w)), Append(folded, LF))
       ELSE Extracted(w, Append(folded, Space))

isInlineComment(s, str) == isComment(s) /\ EndsIn(str, Blank)
WithoutFold(str) == IF EndsIn(str, {Space}) THEN Front(str) ELSE str
-----------------------------------------------------------------------------
\* The first line of a plain scalar: a '#' that follows no blank is content.
RECURSIVE PlainLine(_, _, _, _)
PlainLine(s, str, delimiters, c) ==
    LET e == moveToNext(s, delimiters)
        got == str \o Between(s, e)
    IN IF ~isComment(e) \/ got = <<>> \/ isInlineComment(e, got)
       THEN Extracted(e, got)
       ELSE IF isInsideFlowContext(c) /\ EndsIn(got, {","}) THEN Unreadable(e)
       ELSE PlainLine(next(e), Append(got, "#"), delimiters, c)

FlowEnd == {",", "]", "}"}
StopsAtFlowIndicator(s, c) ==
    /\ isInsideFlowContext(c)
    /\ \/ current(s) \in FlowEnd
       \/ current(s) = ":" /\ current(next(s)) \in FlowEnd \union Blank \union {LF, NoChar}

\* The lines after the first, while they are indented deeper.
RECURSIVE PlainTail(_, _, _, _)
PlainTail(s, str, indentation, c) ==
    LET a == appendCharacterToString(s, str, FALSE, 0)
        w == moveToNextIndent(skipLine(s))     \* behind an inline comment
        goesOn == IF isInsideFlowContext(c)
                  THEN more(w) /\ current(w) \notin FlowEnd
                  ELSE more(w) /\ indentation < column(w) /\ ~isDocumentBoundary(w)
    IN IF \/ ~more(s)
          \/ column(s) <= indentation
          \/ StopsAtFlowIndicator(s, c)
          \/ column(s) = 1 /\ isDocumentBoundary(s)
       THEN Extracted(s, str)
       ELSE IF isInlineComment(s, str)
       THEN IF goesOn THEN Unreadable(s) ELSE Extracted(w, WithoutFold(str))
       ELSE IF match(a.src, <<":", Space>>) THEN Unreadable(s)
       ELSE PlainTail(a.src, a.text, indentation, c)

WithoutLastFold(got) ==
    Extracted(got.src, IF EndsIn(got.text, {Space, LF}) THEN Front(got.text) ELSE got.text)

\* The text of a plain scalar whose first line ends in a line break.
PlainLines(first, indentation, c) ==
    LET s == first.src
        line1 == rightTrim(first.text)
        m == moveToNextIndent(s)
        commentOnly == isInsideFlowContext(c) /\ isComment(skipAll(s, Blank \union {LF}))
    IN IF ~isInsideFlowContext(c) /\ isComment(skipAll(next(s), {Space}))
       THEN Extracted(s, line1)
       ELSE IF commentOnly /\ more(m) /\ current(m) \notin FlowEnd
       THEN Unreadable(m)
       ELSE WithoutLastFold(PlainTail(m, IF commentOnly THEN line1
                                                        ELSE Append(line1, Space),
                                      indentation, c))

\* A lone indicator is not a scalar of a flow collection.
PlainNode(got, c) ==
    IF \/ thrown(got.src)
       \/ isInsideFlowContext(c) /\ got.text \in {<<"-">>, <<"?">>, <<":">>}
    THEN Failed(got.src)
    ELSE Parsed(got.src, String(got.text, NoQuote))

parsePlainFlowString(s, delimiters, indentation, c) ==
    LET first == PlainLine(s, <<>>, delimiters, c)
    IN PlainNode(IF current(first.src) = LF THEN PlainLines(first, indentation, c)
                 ELSE Extracted(first.src, rightTrim(first.text)), c)
-----------------------------------------------------------------------------
\* A document marker at the start of a line of a quoted scalar.
MarkerInside(s) ==
    /\ column(s) = 1
    /\ \/ isDocumentStart(s)
       \/ isDocumentEnd(s) /\ current(next(next(next(s)))) \in Blank \union {LF, NoChar}

\* The text up to the closing quote, or to the end when there is none.
RECURSIVE DoubleQuoted(_, _, _)
DoubleQuoted(s, str, indentation) ==
    LET a == appendCharacterToString(s, str, TRUE, indentation)
        n == next(s)
    IN IF current(s) \in {"\"", NoChar} THEN Extracted(s, str)
       ELSE IF MarkerInside(s) THEN Unreadable(s)
       ELSE IF current(s) # "\\" THEN DoubleQuoted(a.src, a.text, indentation)
       ELSE IF current(n) = LF
       THEN DoubleQuoted(prepareQuotedContinuationLine(next(n), indentation),
                         str, indentation)
       ELSE DoubleQuoted(next(n), str \o <<"\\">> \o Between(n, next(n)), indentation)

RECURSIVE SingleQuoted(_, _, _)
SingleQuoted(s, str, isKeyContext) ==
    LET a == appendCharacterToString(s, str, FALSE, 0)
    IN IF ~more(s) \/ MarkerInside(s) THEN Unreadable(s)
       ELSE IF current(s) = "'"
       THEN IF current(next(s)) = "'"
            THEN SingleQuoted(next(next(s)), Append(str, "'"), isKeyContext)
            ELSE Extracted(next(s), str)
       ELSE IF current(s) = LF /\ isKeyContext THEN Unreadable(s)
       ELSE SingleQuoted(a.src, a.text, isKeyContext)

\* The look for a ':' that is meant to be behind the closing quote starts
\* behind the opening one.
Quoted(s, indentation) ==
    LET open == next(s)
        raw == DoubleQuoted(open, <<>>, indentation)
    IN IF current(s) = "'"
       THEN SingleQuoted(open, <<>>, current(ignoreWS(open)) = ":")
       ELSE IF ~more(raw.src) \/ fromThrows(raw.text) THEN Unreadable(s)
       ELSE Extracted(next(raw.src), from(raw.text))

\* Only a comment may be behind the closing quote, and not directly.
QuotedNode(got, quote, delimiters) ==
    LET w == ignoreWS(got.src)
    IN IF \/ thrown(got.src)
          \/ isComment(w) /\ w = got.src
          \/ current(w) \notin delimiters \union {LF, "#", NoChar}
       THEN Failed(w)
       ELSE Parsed(moveToNext(w, delimiters), String(got.text, quote))

parseQuotedFlowString(s, delimiters, indentation) ==
    QuotedNode(Quoted(s, indentation), current(s), delimiters)
=============================================================================
