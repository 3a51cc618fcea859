----------------------------- MODULE ParserText -----------------------------
(***************************************************************************)
(* How Default_Parser reads a text, below the level of nodes: the moves    *)
(* and extractions of YAML_Parser_Util.cpp and the predicates of           *)
(* YAML_Parser_Router.cpp that look at a character or two.                 *)
(*                                                                         *)
(* A source is a text and the place in it, as a BufferSource keeps it; an  *)
(* operator maps a source to the source after it.  An exception leaves the *)
(* source nowhere, from where nothing can be read and nothing leads back.  *)
(* A SourceGuard needs no counterpart: what it returns to is still there.  *)
(***************************************************************************)
EXTENDS Integers, Sequences, FiniteSetsExt, SequencesExt

LF == "\n"
Space == " "
Tab == "\t"
Blank == {Space, Tab}
NoChar == ""     \* current() at the end

Opened(text) == [text |-> text, at |-> 1]
Throw(s) == [s EXCEPT !.at = 0]
thrown(s) == s.at = 0

more(s) == s.at \in 1..Len(s.text)
current(s) == IF more(s) THEN s.text[s.at] ELSE NoChar
next(s) == IF more(s) THEN [s EXCEPT !.at = @ + 1] ELSE s

LineBreaks(s) == {i \in 1..(s.at - 1) : s.text[i] = LF}
line(s) == 1 + Cardinality(LineBreaks(s))
column(s) == s.at - Max(LineBreaks(s) \union {0})

\* The text from one place to a later one.
Between(s, e) == SubSeq(s.text, s.at, e.at - 1)

moveToNext(s, delimiters) ==
    LET found == {i \in s.at..Len(s.text) : s.text[i] \in delimiters}
    IN IF thrown(s) THEN s
       ELSE [s EXCEPT !.at = Min(found \union {Len(s.text) + 1})]

\* The loops that skip all characters of a set.
skipAll(s, chars) ==
    LET left == {i \in s.at..Len(s.text) : s.text[i] \notin chars}
    IN IF thrown(s) THEN s
       ELSE [s EXCEPT !.at = Min(left \union {Len(s.text) + 1})]

ignoreWS(s) == skipAll(s, Blank)
skipLine(s) == next(moveToNext(s, {LF}))
extractToNext(s, delimiters) == Between(s, moveToNext(s, delimiters))
match(s, target) ==
    more(s) /\ IsPrefix(target, SubSeq(s.text, s.at, Len(s.text)))

rightTrim(str) ==
    LET kept == {i \in 1..Len(str) : str[i] \notin Blank \union {LF}}
    IN SubSeq(str, 1, Max(kept \union {0}))

\* What an extraction returns: the source after it and the text.
Extracted(s, text) == [src |-> s, text |-> text]
Unreadable(s) == Extracted(Throw(s), <<>>)
EndsIn(str, chars) == str # <<>> /\ Last(str) \in chars
-----------------------------------------------------------------------------
isArray(s) == current(s) = "-" /\ current(next(s)) \in Blank \union {LF}
isQuotedString(s) == current(s) \in {"'", "\""}
isInlineCollection(s) == current(s) \in {"[", "{"}
isComment(s) == current(s) = "#"
isDocumentStart(s) == match(s, <<"-", "-", "-">>)
isDocumentEnd(s) == match(s, <<".", ".", ".">>)
isDocumentBoundary(s) == isDocumentStart(s) \/ isDocumentEnd(s)

\* "? ": the answer may be an exception, for a tab behind the mark.
isMapping(s) ==
    /\ current(s) = "?"
    /\ current(next(s)) \in {Space, LF, NoChar}
MappingThrows(s) == current(s) = "?" /\ current(next(s)) = Tab
-----------------------------------------------------------------------------
\* Over blanks, line breaks and comments to the next content.
RECURSIVE NextContent(_)
NextContent(s) ==
    LET content == skipAll(s, Blank \union {LF})
    IN IF isComment(content) THEN NextContent(skipLine(content)) ELSE content

\* The line that content is on is indented with a tab first, in front of
\* something else than a flow indicator.
TabIndents(s, content) ==
    LET begin == content.at - column(content) + 1
    IN /\ begin \in s.at..(content.at - 1)
       /\ more(content)
       /\ s.text[begin] = Tab
       /\ current(content) \notin {"[", "]", "{", "}", ","}

RECURSIVE moveToNextIndent(_)
moveToNextIndent(s) ==
    LET content == skipAll(s, Blank \union {LF})
    IN IF TabIndents(s, content) THEN Throw(s)
       ELSE IF isComment(content) THEN moveToNextIndent(skipLine(content))
       ELSE content

\* Broken: a comment counts as content.
BrokenContinuation(s, indentation) ==
    LET content == skipAll(next(s), Blank \union {LF})
    IN /\ current(s) = LF
       /\ more(content)
       /\ ~isDocumentBoundary(content)
       /\ column(content) >= indentation

hasPlainScalarContinuation(s, indentation) ==
    LET content == NextContent(next(s))
    IN /\ current(s) = LF
       /\ more(content)
       /\ ~isDocumentBoundary(content)
       /\ column(content) >= indentation

\* The quote that closes: a doubled apostrophe does not.
RECURSIVE ClosingQuote(_, _)
ClosingQuote(s, quote) ==
    LET q == moveToNext(s, {quote})
    IN IF quote = "'" /\ current(q) = quote /\ current(next(q)) = quote
       THEN ClosingQuote(next(next(q)), quote)
       ELSE q

\* A quoted string as it is written, with its quotes.
extractString(s) ==
    LET close == ClosingQuote(next(s), current(s))
    IN IF ~more(close) THEN Unreadable(s)
       ELSE Extracted(ignoreWS(next(close)), Between(s, next(close)))

\* A flow collection as it is written: to the bracket that balances the first,
\* or to the end, whatever is quoted in between.
extractInLine(s, open, close) ==
    LET Count(ch, i) == Cardinality({j \in s.at..i : s.text[j] = ch})
        balanced == {i \in s.at..Len(s.text) : Count(open, i) = Count(close, i)}
        e == [s EXCEPT !.at = Min(balanced \union {Len(s.text)}) + 1]
    IN Extracted(ignoreWS(e), Between(s, e))

extractInlineCollectionAt(s) ==
    IF current(s) = "{" THEN extractInLine(s, "{", "}")
                        ELSE extractInLine(s, "[", "]")
-----------------------------------------------------------------------------
\* What ParseContext says of the place: the open flow sequences and mappings,
\* the open block sequences, and the column of the key whose value on the same
\* line is a flow collection (0 when there is none).
NoContext == [inlineArrayDepth |-> 0, inlineDictionaryDepth |-> 0,
              arrayIndentLevel |-> 0, blockFlowValueIndent |-> 0]

isInsideFlowContext(c) ==
    c.inlineArrayDepth > 0 \/ c.inlineDictionaryDepth > 0

\* Broken: a key in a flow mapping does not stop at its ',' or '}'.
BrokenKeyStopDelimiters(c) == {":", LF}

keyStopDelimiters(c) ==
    IF c.inlineDictionaryDepth > 0 THEN {":", ",", "}", LF} ELSE {":", LF}

\* After the bracket that closed a flow collection of the given delimiters.
checkAtFlowClose(s, delimiters, depth) ==
    LET w == ignoreWS(s)
    IN IF \/ isComment(w) /\ w = s
          \/ depth = 0 /\ more(w) /\ current(w) \notin delimiters
       THEN Throw(w) ELSE w

\* Broken: whatever ends the collection is taken for its bracket.
BrokenCheckForEnd(s, close) == next(s)

checkForEnd(s, close) == IF current(s) = close THEN next(s) ELSE Throw(s)
=============================================================================
