----------------------------- MODULE BlockString ----------------------------
(***************************************************************************)
(* The block scalars of YAML_Parser_BlockString.cpp: literal and folded,   *)
(* with the chomping and the indentation that the header states or the     *)
(* first line of the content implies.                                      *)
(***************************************************************************)
EXTENDS FlowString

Digit == [d \in {"1", "2", "3", "4", "5", "6", "7", "8", "9"} |->
              CHOOSE n \in 1..9 : ToString(n) = d]
Spaces(n) == [i \in 1..n |-> Space]
LineFeeds(n) == [i \in 1..n |-> LF]

\* One of the (at most two) indicators behind '|' or '>'.
Indicator(h) ==
    LET ch == current(h.src)
        n == next(h.src)
    IN IF ch = "0" THEN [h EXCEPT !.src = Throw(h.src)]
       ELSE IF ch \in DOMAIN Digit /\ h.explicitIndent = 0
       THEN [h EXCEPT !.src = n, !.explicitIndent = Digit[ch]]
       ELSE IF ch = "-" /\ h.chomping = "clip"
       THEN [h EXCEPT !.src = n, !.chomping = "strip"]
       ELSE IF ch = "+" /\ h.chomping = "clip"
       THEN [h EXCEPT !.src = n, !.chomping = "keep"]
       ELSE h

parseBlockChomping(s) ==
    Indicator(Indicator([src |-> next(s), chomping |-> "clip", explicitIndent |-> 0]))

\* The end of the header line: blanks and then a comment may follow.
HeaderEnd(s) ==
    LET w == ignoreWS(s)
    IN IF current(s) \in {LF, NoChar} THEN s
       ELSE IF w = s \/ current(w) \notin {LF, "#", NoChar} THEN Throw(s)
       ELSE moveToNext(w, {LF})

\* The first content, and the most spaces on the blank lines in front of it.
scanToFirstBlockContent(s) == skipAll(s, {LF, Space})
maxBlankLeadingSpaces(s, content) ==
    LET blankEnds == {p \in (s.at + 1)..(content.at - 1) : s.text[p] = LF}
    IN Max({column([s EXCEPT !.at = p]) - 1 : p \in blankEnds} \union {0})

\* The lines of the content.  A line starts where the blanks end, and ends at
\* any delimiter; one that starts deeper keeps the spaces in front of it.
RECURSIVE BlockLines(_, _, _, _, _)
BlockLines(s, str, delimiters, blockIndent, fillerDefault) ==
    LET deeper == blockIndent < column(s)
        e == moveToNext(s, delimiters)
        indent == IF ~deeper THEN <<>>
                  ELSE (IF str # <<>> /\ Last(str) # LF THEN <<LF>> ELSE <<>>)
                       \o Spaces(column(s) - 1)
        filled == str \o indent \o Between(s, e)
                  \o <<IF deeper THEN LF ELSE fillerDefault>>
        w == skipAll(next(e), Blank \union {LF})
        breaks == Cardinality({p \in next(e).at..(w.at - 1) : s.text[p] = LF})
        lines == IF breaks = 0 THEN filled ELSE Front(filled) \o LineFeeds(breaks + 1)
    IN IF more(w) /\ blockIndent <= column(w)
       THEN BlockLines(w, lines, delimiters, blockIndent, fillerDefault)
       ELSE Extracted(w, lines)

\* What chomping leaves.  "keep" would add a line break if the content were
\* followed by one, but the lines have skipped them all.  The text that is
\* looked at after the first character is dropped may be empty: back() then
\* reads the byte in front of the buffer, which is no line break.
Chomped(str, chomping) ==
    LET one == Front(IF IsSuffix(LineFeeds(3), str) THEN Front(str) ELSE str)
    IN CASE chomping = "keep" -> str
         [] chomping = "clip" -> one
         [] chomping = "strip" -> IF EndsIn(one, {LF}) THEN Front(one) ELSE one

parseBlockString(s, delimiters, indentation, fillerDefault) ==
    LET h == parseBlockChomping(s)
        header == moveToNext(HeaderEnd(h.src), delimiters)
        content == scanToFirstBlockContent(header)
        blockIndent == IF h.explicitIndent > 0 THEN indentation + h.explicitIndent
                                               ELSE column(content)
        got == BlockLines(content, <<>>, delimiters, blockIndent, fillerDefault)
    IN IF \/ thrown(h.src) \/ thrown(header)
          \/ /\ h.explicitIndent = 0
             /\ current(content) = Tab
             /\ column(content) <= indentation
          \/ more(content) /\ maxBlankLeadingSpaces(header, content) >= blockIndent
       THEN Failed(s)
       ELSE Parsed(got.src, String(Chomped(got.text, h.chomping), current(s)))

isFoldedBlockString(s) == current(s) = ">"
isPipedBlockString(s) == current(s) = "|"

parseFoldedBlockString(s, delimiters, indentation) ==
    parseBlockString(s, delimiters, indentation, Space)
parseLiteralBlockString(s, delimiters, indentation) ==
    parseBlockString(s, delimiters, indentation, LF)
=============================================================================
