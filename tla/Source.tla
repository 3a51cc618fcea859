------------------------------- MODULE Source -------------------------------
(***************************************************************************)
(* What ISource promises to the parser, whatever it reads from: a cursor   *)
(* that moves forward one character at a time, and a stack of marks that   *)
(* restore() returns to, innermost first.  match() either consumes its     *)
(* string whole or leaves the cursor where it was.  Failures (end of       *)
(* input, a control character) leave the cursor where it was.              *)
(***************************************************************************)
EXTENDS SourceText

VARIABLES text, pos, marks

vars == <<text, pos, marks>>

Init ==
    /\ text \in Texts
    /\ pos = 0
    /\ marks = <<>>

\* next(): a control character is refused, never stepped over.
Advance ==
    /\ pos < Len(text)
    /\ text[pos + 1] \notin Forbidden
    /\ pos' = pos + 1
    /\ UNCHANGED <<text, marks>>

\* ignoreWS(): over the blanks, and no further.
SkipBlanks ==
    \E q \in pos..Len(text) :
        /\ \A i \in (pos + 1)..q : text[i] \in Blank
        /\ CharAt(text, q) \notin Blank
        /\ pos' = q
        /\ UNCHANGED <<text, marks>>

Consume(t) ==
    /\ pos + Len(t) <= Len(text)
    /\ \A i \in 1..Len(t) : text[pos + i] = t[i]
    /\ pos' = pos + Len(t)
    /\ UNCHANGED <<text, marks>>

Save ==
    /\ Len(marks) < MaxMarks
    /\ marks' = Append(marks, pos)
    /\ UNCHANGED <<text, pos>>

Restore ==
    /\ marks # <<>>
    /\ pos' = marks[Len(marks)]
    /\ marks' = SubSeq(marks, 1, Len(marks) - 1)
    /\ UNCHANGED text

DiscardSave ==
    /\ marks # <<>>
    /\ marks' = SubSeq(marks, 1, Len(marks) - 1)
    /\ UNCHANGED <<text, pos>>

Reset ==
    /\ marks = <<>>
    /\ pos' = 0
    /\ UNCHANGED <<text, marks>>

Next ==
    \/ Advance
    \/ SkipBlanks
    \/ \E t \in Targets : Consume(t)
    \/ Save
    \/ Restore
    \/ DiscardSave
    \/ Reset

Spec == Init /\ [][Next]_vars
=============================================================================
