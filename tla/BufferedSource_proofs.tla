----------------------- MODULE BufferedSource_proofs -----------------------
(***************************************************************************)
(* The cursor of BufferedSourceBase, for every text, every set of match    *)
(* strings and every nesting of guards: its line and column are those of   *)
(* its offset, its saved contexts can be returned to, and it implements    *)
(* Source.                                                                 *)
(***************************************************************************)
EXTENDS BufferedSource, SourceText_proofs

-----------------------------------------------------------------------------
(* What holds while a match runs: the characters matched so far are the     *)
(* ones just passed.  It is what keeps backup() on its line.                *)

MatchedPrefix ==
    \A i \in 1..index : target[i] = text[bufferPosition - index + i]

IInv == TypeOK /\ PositionTrue /\ ContextsTrue /\ BackupStaysOnLine /\ MatchedPrefix

LEMMA InitIInv == Init => IInv
<1> SUFFICES ASSUME Init PROVE IInv
    OBVIOUS
<1>1. text \in Seq(Char) /\ Len(text) \in Nat
    BY SourceAssumption DEF Init
<1>4. IsPosition(text, 0, 1, 1)
    BY <1>1, PositionZero
<1>5. contexts \in Seq(Context) /\ Len(contexts) = 0
    BY DEF Init
<1>6. TypeOK
    BY <1>1, <1>5, SourceAssumption DEF Init, TypeOK, NoTarget
<1>7. PositionTrue
    BY <1>4 DEF Init, PositionTrue
<1>8. ContextsTrue /\ BackupStaysOnLine /\ MatchedPrefix
    BY <1>5 DEF Init, ContextsTrue, BackupStaysOnLine, MatchedPrefix
<1>9. QED
    BY <1>6, <1>7, <1>8 DEF IInv

\* next(), alone or inside match(), moves to the position of the next offset.
LEMMA StepOverTrue ==
    ASSUME TypeOK, PositionTrue, thrown = "no", StepOver
    PROVE  /\ IsPosition(text, bufferPosition', lineNo', column')
           /\ bufferPosition' \in 0..Len(text)
           /\ bufferPosition' = bufferPosition + 1
           /\ lineNo' \in Nat /\ column' \in Nat
<1>1. IsPosition(text, bufferPosition, lineNo, column)
    BY DEF PositionTrue
<1>2. /\ text \in Seq(Char) /\ Len(text) \in Nat
      /\ bufferPosition \in Nat /\ bufferPosition < Len(text)
      /\ bufferPosition' = bufferPosition + 1
      /\ current = text[bufferPosition + 1]
    BY DEF TypeOK, StepOver, more, current, CharAt
<1>3. CASE current = LF
    <2>1. lineNo' = lineNo + 1 /\ column' = 1
        BY <1>3 DEF StepOver
    <2>2. IsPosition(text, bufferPosition', lineNo', column')
        BY <1>1, <1>2, <1>3, <2>1, PositionStep
    <2>3. QED
        BY <1>2, <2>2, PositionRange
<1>4. CASE current # LF
    <2>1. lineNo' = lineNo /\ column' = column + 1
        BY <1>4 DEF StepOver
    <2>2. IsPosition(text, bufferPosition', lineNo', column')
        BY <1>1, <1>2, <1>4, <2>1, PositionStep
    <2>3. QED
        BY <1>2, <2>2, PositionRange
<1>5. QED
    BY <1>3, <1>4

\* Where match() gives up it goes back to the position it began at.
LEMMA BackupTrue ==
    ASSUME TypeOK, PositionTrue, MatchBackup
    PROVE  /\ IsPosition(text, bufferPosition', lineNo', column')
           /\ bufferPosition' \in 0..Len(text)
           /\ column' \in Nat
<1>1. IsPosition(text, bufferPosition, lineNo, column)
    BY DEF PositionTrue, MatchBackup
<1>2. index \in Nat /\ text \in Seq(Char)
    BY DEF TypeOK
<1>3. IsPosition(text, bufferPosition - index, lineNo, column - index)
    BY <1>1, <1>2, PositionBack DEF MatchBackup
<1>4. QED
    BY <1>2, <1>3, PositionRange DEF MatchBackup

\* A match that backup() refuses has passed the line feed before this line.
LEMMA BackupThrowsTrue ==
    ASSUME TypeOK, PositionTrue, MatchedPrefix, MatchBackupThrows
    PROVE  \E i \in 1..index : target[i] = LF
<1>1. IsPosition(text, bufferPosition, lineNo, column)
    BY DEF PositionTrue, MatchBackupThrows
<1>2. /\ index \in Nat /\ index <= bufferPosition
      /\ bufferPosition \in Nat /\ text \in Seq(Char)
    BY DEF TypeOK
<1>3. column \in Nat /\ column >= 1 /\ column <= index
    BY <1>1, <1>2, PositionRange DEF MatchBackupThrows
<1>4. text[bufferPosition - column + 1] = LF
    BY <1>1, <1>2, <1>3 DEF IsPosition, IsColumnAt
<1> DEFINE i == index - column + 1
<1>5. i \in 1..index /\ bufferPosition - index + i = bufferPosition - column + 1
    BY <1>2, <1>3
<1>6. target[i] = text[bufferPosition - index + i]
    BY <1>5 DEF MatchedPrefix
<1>7. QED
    BY <1>4, <1>5, <1>6

\* Taking the last element off the stack of contexts.
LEMMA PopContexts ==
    ASSUME TypeOK, contexts # <<>>,
           contexts' = SubSeq(contexts, 1, Len(contexts) - 1)
    PROVE  /\ contexts' \in Seq(Context)
           /\ Len(contexts') = Len(contexts) - 1
           /\ Len(contexts) \in Nat \ {0}
           /\ \A i \in 1..Len(contexts') : contexts'[i] = contexts[i]
           /\ contexts[Len(contexts)] \in Context
<1>1. contexts \in Seq(Context)
    BY DEF TypeOK
<1>2. QED
    BY <1>1, PopLast

LEMMA StepIInv == IInv /\ [Next]_vars => IInv'
<1> SUFFICES ASSUME IInv, [Next]_vars PROVE IInv'
    OBVIOUS
<1> USE DEF IInv
<1>0. /\ text \in Seq(Char) /\ Len(text) \in Nat
      /\ NoTarget \notin Targets
    BY SourceAssumption DEF TypeOK, NoTarget
<1>1. CASE NextStep
    <2>1. /\ IsPosition(text, bufferPosition', lineNo', column')
          /\ bufferPosition' \in 0..Len(text)
          /\ bufferPosition' = bufferPosition + 1
          /\ lineNo' \in Nat /\ column' \in Nat
        BY <1>1, StepOverTrue DEF NextStep, Idle
    <2>2. UNCHANGED <<text, contexts, thrown, target, index>>
        BY <1>1 DEF NextStep, StepOver, matching
    <2>3. thrown = "no" /\ target = NoTarget
        BY <1>1 DEF NextStep, Idle
    <2>4. TypeOK'
        BY <2>1, <2>2, <2>3 DEF TypeOK
    <2>5. PositionTrue' /\ ContextsTrue' /\ BackupStaysOnLine'
        BY <2>1, <2>2 DEF PositionTrue, ContextsTrue, BackupStaysOnLine
    <2>6. MatchedPrefix'
        BY <2>2, <2>3 DEF MatchedPrefix, TypeOK
    <2>7. QED
        BY <2>4, <2>5, <2>6
<1>2. CASE NextForbidden
    <2>1. TypeOK'
        BY <1>2 DEF NextForbidden, TypeOK, cursor, matching
    <2>2. PositionTrue' /\ ContextsTrue' /\ BackupStaysOnLine' /\ MatchedPrefix'
        BY <1>2 DEF NextForbidden, Idle, cursor, matching, PositionTrue,
                    ContextsTrue, BackupStaysOnLine, MatchedPrefix
    <2>3. QED
        BY <2>1, <2>2
<1>3. CASE NextPastEnd
    <2>1. TypeOK'
        BY <1>3 DEF NextPastEnd, TypeOK, matching
    <2>2. PositionTrue' /\ ContextsTrue' /\ BackupStaysOnLine' /\ MatchedPrefix'
        BY <1>3 DEF NextPastEnd, matching, PositionTrue,
                    ContextsTrue, BackupStaysOnLine, MatchedPrefix
    <2>3. QED
        BY <2>1, <2>2
<1>4. CASE ignoreWS
    <2>1. PICK q \in bufferPosition..Len(text) :
             /\ \A i \in (bufferPosition + 1)..q : text[i] \in Blank
             /\ bufferPosition' = q
             /\ column' = column + (q - bufferPosition)
        BY <1>4 DEF ignoreWS
    <2>2. /\ UNCHANGED <<text, lineNo, contexts, target, index, thrown>>
          /\ thrown = "no" /\ target = NoTarget /\ index = 0
        BY <1>4 DEF ignoreWS, matching, Idle, TypeOK
    <2>3. IsPosition(text, bufferPosition, lineNo, column)
        BY <2>2 DEF PositionTrue
    <2>4. \A i \in (bufferPosition + 1)..q : text[i] # LF
        BY <2>1, SourceAssumption
    <2>5. IsPosition(text, q, lineNo, column + (q - bufferPosition))
        BY <1>0, <2>3, <2>4, PositionSkip
    <2>6. q \in 0..Len(text) /\ column' \in Nat /\ q >= 0
        BY <1>0, <2>1, <2>5, PositionRange
    <2>7. TypeOK'
        BY <2>1, <2>2, <2>6 DEF TypeOK
    <2>8. PositionTrue'
        BY <2>1, <2>2, <2>5 DEF PositionTrue
    <2>9. ContextsTrue' /\ BackupStaysOnLine' /\ MatchedPrefix'
        BY <2>2 DEF ContextsTrue, BackupStaysOnLine, MatchedPrefix
    <2>10. QED
        BY <2>7, <2>8, <2>9
<1>5. ASSUME NEW t \in Targets, MatchBegin(t)
      PROVE  IInv'
    <2>1. t \in Seq(Char) /\ Len(t) > 0 /\ t # NoTarget
        BY SourceAssumption DEF NoTarget
    <2>2. TypeOK'
        BY <1>5, <2>1 DEF MatchBegin, TypeOK, cursor
    <2>3. PositionTrue' /\ ContextsTrue'
        BY <1>5 DEF MatchBegin, cursor, PositionTrue, ContextsTrue
    <2>4. BackupStaysOnLine' /\ MatchedPrefix'
        BY <1>5 DEF MatchBegin, Idle, BackupStaysOnLine, MatchedPrefix
    <2>5. QED
        BY <2>2, <2>3, <2>4
<1>6. CASE MatchNext
    <2>1. /\ IsPosition(text, bufferPosition', lineNo', column')
          /\ bufferPosition' \in 0..Len(text)
          /\ bufferPosition' = bufferPosition + 1
          /\ lineNo' \in Nat /\ column' \in Nat
        BY <1>6, StepOverTrue DEF MatchNext
    <2>2. UNCHANGED <<text, contexts, thrown>> /\ thrown = "no"
        BY <1>6 DEF MatchNext, StepOver
    <2>3. /\ index \in Nat /\ index <= bufferPosition /\ bufferPosition \in Nat
          /\ target \in Targets /\ index < Len(target) /\ Len(target) \in Nat
        BY <1>6, SourceAssumption DEF MatchNext, TypeOK
    <2>4. text[bufferPosition + 1] = target[index + 1]
        BY <1>6 DEF MatchNext, Matches, more, current, CharAt
    <2>5. TypeOK' /\ MatchedPrefix'
        <3>1. CASE index + 1 = Len(target)
            <4>1. target' = NoTarget /\ index' = 0
                BY <1>6, <3>1 DEF MatchNext
            <4>2. QED
                BY <2>1, <2>2, <2>3, <4>1 DEF TypeOK, MatchedPrefix
        <3>2. CASE index + 1 # Len(target)
            <4>1. target' = target /\ index' = index + 1
                BY <1>6, <3>2 DEF MatchNext
            <4>a. /\ index' \in Nat /\ index' <= bufferPosition'
                  /\ index' < Len(target')
                BY <2>1, <2>3, <3>2, <4>1
            <4>b. target' \in Targets /\ target' # NoTarget
                BY <1>0, <2>3, <4>1
            <4>2. TypeOK'
                BY <2>1, <2>2, <4>a, <4>b DEF TypeOK
            <4>3. \A i \in 1..(index + 1) :
                     target[i] = text[bufferPosition - index + i]
                BY <2>3, <2>4 DEF MatchedPrefix
            <4>4. bufferPosition' - index' = bufferPosition - index
                BY <2>1, <2>3, <4>1
            <4>5. MatchedPrefix'
                BY <2>2, <4>1, <4>3, <4>4 DEF MatchedPrefix
            <4>6. QED
                BY <4>2, <4>5
        <3>3. QED
            BY <3>1, <3>2
    <2>6. PositionTrue' /\ ContextsTrue' /\ BackupStaysOnLine'
        BY <2>1, <2>2 DEF PositionTrue, ContextsTrue, BackupStaysOnLine
    <2>7. QED
        BY <2>5, <2>6
<1>7. CASE MatchBackup
    <2>1. /\ IsPosition(text, bufferPosition', lineNo', column')
          /\ bufferPosition' \in 0..Len(text)
          /\ column' \in Nat
        BY <1>7, BackupTrue
    <2>2. /\ UNCHANGED <<text, lineNo, contexts, thrown>>
          /\ thrown = "no" /\ target' = NoTarget /\ index' = 0
        BY <1>7 DEF MatchBackup
    <2>3. TypeOK'
        BY <2>1, <2>2 DEF TypeOK
    <2>4. PositionTrue' /\ ContextsTrue' /\ BackupStaysOnLine' /\ MatchedPrefix'
        BY <2>1, <2>2 DEF PositionTrue, ContextsTrue, BackupStaysOnLine,
                          MatchedPrefix
    <2>5. QED
        BY <2>3, <2>4
<1>8. CASE MatchBackupThrows
    <2>1. \E i \in 1..index : target[i] = LF
        BY <1>8, BackupThrowsTrue
    <2>2. TypeOK'
        BY <1>8 DEF MatchBackupThrows, TypeOK, cursor, matching
    <2>3. PositionTrue' /\ ContextsTrue' /\ BackupStaysOnLine' /\ MatchedPrefix'
        BY <1>8, <2>1 DEF MatchBackupThrows, cursor, matching, PositionTrue,
                          ContextsTrue, BackupStaysOnLine, MatchedPrefix
    <2>4. QED
        BY <2>2, <2>3
<1>9. CASE save
    <2> DEFINE ctx == [lineNo |-> lineNo, column |-> column,
                       bufferPosition |-> bufferPosition]
    <2>1. /\ UNCHANGED <<text, bufferPosition, lineNo, column, target, index, thrown>>
          /\ thrown = "no" /\ contexts' = Append(contexts, ctx)
          /\ Len(contexts) < MaxMarks
        BY <1>9 DEF save, Idle, cursor, matching
    <2>2. ctx \in Context
        BY DEF Context, TypeOK
    <2>3. /\ contexts' \in Seq(Context) /\ Len(contexts') = Len(contexts) + 1
          /\ \A i \in 1..Len(contexts) : contexts'[i] = contexts[i]
          /\ contexts'[Len(contexts) + 1] = ctx
          /\ Len(contexts) \in Nat
        BY <2>1, <2>2 DEF TypeOK
    <2>4. TypeOK'
        BY <2>1, <2>3, SourceAssumption DEF TypeOK
    <2>5. PositionTrue' /\ BackupStaysOnLine' /\ MatchedPrefix'
        BY <2>1 DEF PositionTrue, BackupStaysOnLine, MatchedPrefix
    <2>6. IsPosition(text, bufferPosition, lineNo, column)
        BY <2>1 DEF PositionTrue
    <2>7. ASSUME NEW i \in 1..Len(contexts')
          PROVE  IsPosition(text, contexts'[i].bufferPosition,
                            contexts'[i].lineNo, contexts'[i].column)
        <3>1. CASE i = Len(contexts) + 1
            BY <2>3, <2>6, <3>1
        <3>2. CASE i # Len(contexts) + 1
            BY <2>3, <3>2 DEF ContextsTrue
        <3>3. QED
            BY <3>1, <3>2
    <2>8. ContextsTrue'
        BY <2>1, <2>7 DEF ContextsTrue
    <2>9. QED
        BY <2>4, <2>5, <2>8
<1>10. CASE restore
    <2> DEFINE ctx == contexts[Len(contexts)]
    <2>1. /\ contexts # <<>> /\ contexts' = SubSeq(contexts, 1, Len(contexts) - 1)
          /\ lineNo' = ctx.lineNo /\ column' = ctx.column
          /\ bufferPosition' = ctx.bufferPosition
          /\ target' = NoTarget /\ index' = 0 /\ text' = text
          /\ thrown' \in {"no", "unwinding"}
        BY <1>10 DEF restore
    <2>2. /\ contexts' \in Seq(Context)
          /\ Len(contexts') = Len(contexts) - 1
          /\ Len(contexts) \in Nat \ {0}
          /\ \A i \in 1..Len(contexts') : contexts'[i] = contexts[i]
          /\ ctx \in Context
        BY <2>1, PopContexts
    <2>3. IsPosition(text, bufferPosition', lineNo', column')
        BY <2>1, <2>2 DEF ContextsTrue
    <2>4. TypeOK'
        BY <1>0, <2>1, <2>2, <2>3, PositionRange, SourceAssumption DEF TypeOK
    <2>5. ContextsTrue'
        BY <2>1, <2>2 DEF ContextsTrue
    <2>6. PositionTrue' /\ BackupStaysOnLine' /\ MatchedPrefix'
        BY <2>1, <2>3 DEF PositionTrue, BackupStaysOnLine, MatchedPrefix
    <2>7. QED
        BY <2>4, <2>5, <2>6
<1>11. CASE discardSave
    <2>1. /\ contexts # <<>> /\ contexts' = SubSeq(contexts, 1, Len(contexts) - 1)
          /\ UNCHANGED <<text, bufferPosition, lineNo, column, target, index, thrown>>
        BY <1>11 DEF discardSave, cursor, matching
    <2>2. /\ contexts' \in Seq(Context)
          /\ Len(contexts') = Len(contexts) - 1
          /\ Len(contexts) \in Nat \ {0}
          /\ \A i \in 1..Len(contexts') : contexts'[i] = contexts[i]
        BY <2>1, PopContexts
    <2>3. TypeOK'
        BY <2>1, <2>2, SourceAssumption DEF TypeOK
    <2>4. ContextsTrue'
        BY <2>1, <2>2 DEF ContextsTrue
    <2>5. PositionTrue' /\ BackupStaysOnLine' /\ MatchedPrefix'
        BY <2>1 DEF PositionTrue, BackupStaysOnLine, MatchedPrefix
    <2>6. QED
        BY <2>3, <2>4, <2>5
<1>12. CASE reset
    <2>1. /\ bufferPosition' = 0 /\ lineNo' = 1 /\ column' = 1
          /\ target' = NoTarget /\ index' = 0 /\ thrown' = "no"
          /\ UNCHANGED <<text, contexts>>
        BY <1>12 DEF reset
    <2>3. IsPosition(text, 0, 1, 1)
        BY <1>0, PositionZero
    <2>4. TypeOK'
        BY <1>0, <2>1 DEF TypeOK
    <2>5. PositionTrue' /\ ContextsTrue' /\ BackupStaysOnLine' /\ MatchedPrefix'
        BY <2>1, <2>3 DEF PositionTrue, ContextsTrue, BackupStaysOnLine,
                          MatchedPrefix
    <2>6. QED
        BY <2>4, <2>5
<1>13. CASE UNCHANGED vars
    BY <1>13 DEF vars, TypeOK, PositionTrue, ContextsTrue, BackupStaysOnLine,
                 MatchedPrefix
<1>14. QED
    BY <1>1, <1>2, <1>3, <1>4, <1>5, <1>6, <1>7, <1>8, <1>9, <1>10, <1>11,
       <1>12, <1>13 DEF Next

\* In every state of every use of a BufferedSourceBase the state is well typed.
THEOREM TypeCorrect == Spec => []TypeOK
<1>1. Spec => []IInv
    BY InitIInv, StepIInv, PTL DEF Spec
<1>2. IInv => TypeOK
    BY DEF IInv
<1>3. QED
    BY <1>1, <1>2, PTL

\* The line and column of the cursor, and of every saved context, are those of
\* its byte offset (next, match, backup, save and restore of
\* BufferedSourceBase), and backup() refuses only a string with a line feed.
THEOREM CursorCorrect ==
    Spec => [](PositionTrue /\ ContextsTrue /\ BackupStaysOnLine)
<1>1. Spec => []IInv
    BY InitIInv, StepIInv, PTL DEF Spec
<1>2. IInv => PositionTrue /\ ContextsTrue /\ BackupStaysOnLine
    BY DEF IInv
<1>3. QED
    BY <1>1, <1>2, PTL

\* Whatever guards are open, the line and column a SourceGuard will restore are
\* those of the offset it will restore.
THEOREM ContextsCorrect == Spec => []ContextsTrue
<1>1. (PositionTrue /\ ContextsTrue /\ BackupStaysOnLine) => ContextsTrue
    OBVIOUS
<1>2. QED
    BY <1>1, CursorCorrect, PTL

\* backup() gives up, with its exception, only in a match that crossed a line.
THEOREM BackupCorrect == Spec => []BackupStaysOnLine
<1>1. (PositionTrue /\ ContextsTrue /\ BackupStaysOnLine) => BackupStaysOnLine
    OBVIOUS
<1>2. QED
    BY <1>1, CursorCorrect, PTL
-----------------------------------------------------------------------------
(* BufferedSource implements Source: a match in progress is not visible.    *)

Marks == [i \in 1..Len(contexts) |-> contexts[i].bufferPosition]
Cursor == bufferPosition - index

LEMMA InitRefines == Init => Abstract!Init
BY SourceAssumption DEF Init, Abstract!Init

LEMMA ContextOffsets ==
    ASSUME TypeOK
    PROVE  \A i \in 1..Len(contexts) : contexts[i].bufferPosition \in Nat
<1>1. ASSUME NEW i \in 1..Len(contexts)
      PROVE  contexts[i].bufferPosition \in Nat
    <2>1. contexts[i] \in Context
        BY DEF TypeOK
    <2>2. QED
        BY <2>1 DEF Context
<1>2. QED
    BY <1>1

\* The marks are those of the contexts that stay when the innermost is popped.
LEMMA PopMarks ==
    ASSUME TypeOK, contexts # <<>>,
           contexts' = SubSeq(contexts, 1, Len(contexts) - 1)
    PROVE  /\ Marks # <<>>
           /\ Marks' = SubSeq(Marks, 1, Len(Marks) - 1)
           /\ Marks[Len(Marks)] = contexts[Len(contexts)].bufferPosition
<1>1. /\ contexts' \in Seq(Context)
      /\ Len(contexts') = Len(contexts) - 1
      /\ Len(contexts) \in Nat \ {0}
      /\ \A i \in 1..Len(contexts') : contexts'[i] = contexts[i]
    BY PopContexts
<1> DEFINE n == Len(contexts) - 1
<1>2. n \in Nat /\ Len(contexts) = n + 1 /\ Len(contexts') = n
    BY <1>1
<1> HIDE DEF n
<1>3. \A i \in 1..(n + 1) : contexts[i].bufferPosition \in Nat
    BY <1>2, ContextOffsets
<1>4. Marks \in [1..(n + 1) -> Nat]
    BY <1>2, <1>3 DEF Marks
<1>5. Len(Marks) = n + 1 /\ Marks # <<>>
    BY <1>2, <1>4, PopOffsets
<1>6. SubSeq(Marks, 1, Len(Marks) - 1) = [i \in 1..n |-> Marks[i]]
    BY <1>2, <1>4, PopOffsets
<1>7. Marks' = [i \in 1..n |-> Marks[i]]
    BY <1>1, <1>2 DEF Marks
<1>8. Marks[Len(Marks)] = contexts[Len(contexts)].bufferPosition
    BY <1>2, <1>5 DEF Marks
<1>9. QED
    BY <1>5, <1>6, <1>7, <1>8

LEMMA StepRefines == IInv /\ [Next]_vars => [Abstract!Next]_Abstract!vars
<1> SUFFICES ASSUME IInv, [Next]_vars
             PROVE  [Abstract!Next]_Abstract!vars
    OBVIOUS
<1>0. /\ text \in Seq(Char) /\ Len(text) \in Nat
      /\ bufferPosition \in Nat /\ bufferPosition <= Len(text)
      /\ index \in Nat /\ index <= bufferPosition
      /\ target = NoTarget => index = 0
      /\ TypeOK
    BY DEF IInv, TypeOK
<1>1. CASE NextStep
    <2>1. Abstract!Advance
        BY <1>0, <1>1 DEF NextStep, Idle, StepOver, more, current, CharAt,
                          matching, Abstract!Advance
    <2>2. QED
        BY <2>1 DEF Abstract!Next
<1>2. CASE NextForbidden \/ NextPastEnd \/ MatchBackupThrows
    BY <1>2 DEF NextForbidden, NextPastEnd, MatchBackupThrows, cursor, matching,
                Abstract!vars
<1>3. CASE ignoreWS
    <2>1. index = 0 /\ index' = 0 /\ UNCHANGED <<text, contexts>>
        BY <1>0, <1>3 DEF ignoreWS, Idle, matching
    <2>2. Abstract!SkipBlanks
        BY <1>0, <1>3, <2>1 DEF ignoreWS, Abstract!SkipBlanks, Abstract!CharAt, CharAt
    <2>3. QED
        BY <2>2 DEF Abstract!Next
<1>4. ASSUME NEW t \in Targets, MatchBegin(t)
      PROVE  UNCHANGED Abstract!vars
    BY <1>0, <1>4 DEF MatchBegin, Idle, cursor, Abstract!vars
<1>5. CASE MatchNext
    <2>1. /\ bufferPosition' = bufferPosition + 1
          /\ UNCHANGED <<text, contexts>>
          /\ bufferPosition < Len(text)
          /\ text[bufferPosition + 1] = target[index + 1]
          /\ target \in Targets
        BY <1>0, <1>5 DEF MatchNext, StepOver, Matches, more, current, CharAt, TypeOK
    <2>2. CASE index + 1 = Len(target)
        <3>1. index' = 0
            BY <1>5, <2>2 DEF MatchNext
        <3>2. \A i \in 1..Len(target) : text[Cursor + i] = target[i]
            BY <1>0, <2>1, <2>2 DEF IInv, MatchedPrefix, Cursor
        <3>3. Cursor + Len(target) <= Len(text) /\ Cursor' = Cursor + Len(target)
            BY <1>0, <2>1, <2>2, <3>1 DEF Cursor
        <3>4. Abstract!Consume(target)
            BY <2>1, <3>2, <3>3 DEF Abstract!Consume, Cursor
        <3>5. QED
            BY <2>1, <3>4 DEF Abstract!Next
    <2>3. CASE index + 1 # Len(target)
        <3>1. index' = index + 1
            BY <1>5, <2>3 DEF MatchNext
        <3>2. UNCHANGED Abstract!vars
            BY <1>0, <2>1, <3>1 DEF Abstract!vars
        <3>3. QED
            BY <3>2
    <2>4. QED
        BY <2>2, <2>3
<1>6. CASE MatchBackup
    BY <1>0, <1>6 DEF MatchBackup, Abstract!vars
<1>7. CASE save
    <2>1. /\ Len(contexts) \in Nat /\ Len(contexts') = Len(contexts) + 1
          /\ \A i \in 1..Len(contexts) : contexts'[i] = contexts[i]
          /\ contexts'[Len(contexts) + 1].bufferPosition = bufferPosition
          /\ UNCHANGED <<text, bufferPosition, index>> /\ index = 0
          /\ Len(contexts) < MaxMarks
        BY <1>0, <1>7 DEF save, Idle, cursor, matching, TypeOK
    <2>2. Marks \in Seq(Nat) /\ Len(Marks) = Len(contexts)
        <3>1. \A i \in 1..Len(contexts) : contexts[i].bufferPosition \in Nat
            BY <1>0, ContextOffsets
        <3>2. QED
            BY <2>1, <3>1 DEF Marks
    <2>3. Marks' = Append(Marks, bufferPosition)
        BY <1>0, <2>1, <2>2 DEF Marks
    <2>4. Abstract!Save
        BY <1>0, <2>1, <2>2, <2>3 DEF Abstract!Save, Marks
    <2>5. QED
        BY <2>4 DEF Abstract!Next
<1>8. CASE restore
    <2>1. /\ Marks # <<>>
          /\ Marks' = SubSeq(Marks, 1, Len(Marks) - 1)
          /\ Marks[Len(Marks)] = contexts[Len(contexts)].bufferPosition
        BY <1>0, <1>8, PopMarks DEF restore
    <2>2. bufferPosition' - index' = Marks[Len(Marks)] /\ text' = text
        <3>1. contexts[Len(contexts)].bufferPosition \in Nat
            BY <1>0, <1>8, PopContexts DEF restore, Context
        <3>2. QED
            BY <1>8, <2>1, <3>1 DEF restore
    <2>3. Abstract!Restore
        BY <2>1, <2>2 DEF Abstract!Restore, Marks
    <2>4. QED
        BY <2>3 DEF Abstract!Next
<1>9. CASE discardSave
    <2>1. /\ Marks # <<>>
          /\ Marks' = SubSeq(Marks, 1, Len(Marks) - 1)
        BY <1>0, <1>9, PopMarks DEF discardSave
    <2>2. UNCHANGED <<text, bufferPosition, index>>
        BY <1>9 DEF discardSave, cursor, matching
    <2>3. Abstract!DiscardSave
        BY <2>1, <2>2 DEF Abstract!DiscardSave, Marks
    <2>4. QED
        BY <2>3 DEF Abstract!Next
<1>10. CASE reset
    <2>1. Marks = <<>>
        BY <1>10 DEF reset, Marks
    <2>2. Abstract!Reset
        BY <1>10, <2>1 DEF reset, Abstract!Reset, Marks
    <2>3. QED
        BY <2>2 DEF Abstract!Next
<1>11. CASE UNCHANGED vars
    BY <1>11 DEF vars, Abstract!vars
<1>12. QED
    BY <1>1, <1>2, <1>3, <1>4, <1>5, <1>6, <1>7, <1>8, <1>9, <1>10, <1>11 DEF Next

\* Whatever is read through a BufferedSourceBase is read through a Source:
\* restore() returns to the mark of its save(), a failed match() has not moved,
\* and no character is skipped or read twice.
THEOREM ImplementsSource == Spec => RefinesSource
<1>1. Spec => []IInv
    BY InitIInv, StepIInv, PTL DEF Spec
<1>2. QED
    BY <1>1, InitRefines, StepRefines, PTL DEF Spec, RefinesSource, Abstract!Spec
=============================================================================
