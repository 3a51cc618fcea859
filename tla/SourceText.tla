----------------------------- MODULE SourceText -----------------------------
(***************************************************************************)
(* What every ISource reads: a text of characters, and the line and column *)
(* that belong to a byte offset of it.  A character is a value of a small  *)
(* set; the classes the sources distinguish are the constants below.       *)
(***************************************************************************)
EXTENDS Integers, Sequences, FiniteSets

CONSTANTS
    Char,       \* the characters of the texts
    LF,         \* kLineFeed
    Blank,      \* the characters isWS() answers true for
    Forbidden,  \* the control characters of kForbiddenChar
    EOF,        \* what current() answers past the last character
    Texts,      \* the texts a source may be opened on
    Targets,    \* the strings the parser hands to match()
    MaxMarks    \* bound: save() calls outstanding at a time

ASSUME SourceAssumption ==
    /\ LF \in Char
    /\ Blank \subseteq Char \ {LF}
    /\ Forbidden \subseteq Char \ ({LF} \union Blank)
    /\ EOF \notin Char
    /\ Texts \subseteq Seq(Char)
    /\ Targets \subseteq Seq(Char) \ {<<>>}
    /\ MaxMarks \in Nat

NoTarget == <<>>

CharAt(t, p) == IF p < Len(t) THEN t[p + 1] ELSE EOF

LineFeedsBefore(t, p) == {i \in 1..p : t[i] = LF}

\* The line that holds offset p: one more than the line feeds before it.
LineAt(t, p) == Cardinality(LineFeedsBefore(t, p)) + 1

\* Column col names offset p: the line starts col - 1 characters before p,
\* at the start of the text or right after a line feed, and no line feed lies
\* between.
IsColumnAt(t, p, col) ==
    /\ col \in 1..(p + 1)
    /\ \A i \in (p - col + 2)..p : t[i] # LF
    /\ col <= p => t[p - col + 1] = LF

\* (line, col) is the position an error message should show for offset p.
IsPosition(t, p, line, col) ==
    /\ p \in 0..Len(t)
    /\ line = LineAt(t, p)
    /\ IsColumnAt(t, p, col)

=============================================================================
