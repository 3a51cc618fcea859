--------------------------- MODULE BufferedSource ---------------------------
(***************************************************************************)
(* BufferedSourceBase, the cursor shared by BufferSource, SpanSource and   *)
(* FileSource, under ISource::match() and ISource::ignoreWS().             *)
(*                                                                         *)
(* match() runs one character per step: target is the string being matched *)
(* (NoTarget between calls) and index the characters matched so far.       *)
(* thrown records an exception on its way out of the parser; the           *)
(* SourceGuards on the stack still restore while it travels.               *)
(***************************************************************************)
EXTENDS SourceText

VARIABLES text, bufferPosition, lineNo, column, contexts, target, index, thrown

vars == <<text, bufferPosition, lineNo, column, contexts, target, index, thrown>>

cursor == <<bufferPosition, lineNo, column>>
matching == <<target, index>>

Context == [lineNo : Nat, column : Nat, bufferPosition : Nat]

Init ==
    /\ text \in Texts
    /\ bufferPosition = 0
    /\ lineNo = 1
    /\ column = 1
    /\ contexts = <<>>
    /\ target = NoTarget
    /\ index = 0
    /\ thrown = "no"

more == bufferPosition < Len(text)
current == CharAt(text, bufferPosition)

Idle == target = NoTarget /\ thrown = "no"
-----------------------------------------------------------------------------
\* Broken: a line feed leaves the column as it was.
BrokenStepOver ==
    /\ more
    /\ current \notin Forbidden
    /\ bufferPosition' = bufferPosition + 1
    /\ lineNo' = IF current = LF THEN lineNo + 1 ELSE lineNo
    /\ column' = column + 1
    /\ UNCHANGED <<text, contexts, thrown>>

\* next() past a character it accepts.
StepOver ==
    /\ more
    /\ current \notin Forbidden
    /\ bufferPosition' = bufferPosition + 1
    /\ IF current = LF
          THEN lineNo' = lineNo + 1 /\ column' = 1
          ELSE lineNo' = lineNo /\ column' = column + 1
    /\ UNCHANGED <<text, contexts, thrown>>

NextStep == Idle /\ StepOver /\ UNCHANGED matching

\* next() on a control character throws before it changes anything.
NextForbidden ==
    /\ Idle
    /\ current \in Forbidden
    /\ thrown' = "forbidden"
    /\ UNCHANGED <<text, cursor, contexts, matching>>

\* Broken: the end is noticed after the position has been moved.
BrokenNextPastEnd ==
    /\ Idle
    /\ ~more
    /\ column' = column + 1
    /\ bufferPosition' = bufferPosition + 1
    /\ thrown' = "end"
    /\ UNCHANGED <<text, lineNo, contexts, matching>>

\* next() at the end throws after it has moved the column.
NextPastEnd ==
    /\ Idle
    /\ ~more
    /\ column' = column + 1
    /\ thrown' = "end"
    /\ UNCHANGED <<text, bufferPosition, lineNo, contexts, matching>>

ignoreWS ==
    /\ Idle
    /\ \E q \in bufferPosition..Len(text) :
        /\ \A i \in (bufferPosition + 1)..q : text[i] \in Blank
        /\ CharAt(text, q) \notin Blank
        /\ bufferPosition' = q
        /\ column' = column + (q - bufferPosition)
    /\ UNCHANGED <<text, lineNo, contexts, matching, thrown>>
-----------------------------------------------------------------------------
Matches == more /\ current = target[index + 1]

MatchBegin(t) ==
    /\ Idle
    /\ target' = t
    /\ index' = 0
    /\ UNCHANGED <<text, cursor, contexts, thrown>>

MatchNext ==
    /\ target # NoTarget
    /\ thrown = "no"
    /\ Matches
    /\ StepOver
    /\ IF index + 1 = Len(target)
          THEN target' = NoTarget /\ index' = 0
          ELSE target' = target /\ index' = index + 1

\* match() gives up: backup(index) to where it began.
MatchBackup ==
    /\ target # NoTarget
    /\ thrown = "no"
    /\ ~Matches
    /\ column - index >= 1
    /\ bufferPosition' = bufferPosition - index
    /\ column' = column - index
    /\ target' = NoTarget
    /\ index' = 0
    /\ UNCHANGED <<text, lineNo, contexts, thrown>>

\* Broken: refuses to go back to the first column, too.
BrokenMatchBackupThrows ==
    /\ target # NoTarget
    /\ thrown = "no"
    /\ ~Matches
    /\ column - index <= 1
    /\ thrown' = "backup"
    /\ UNCHANGED <<text, cursor, contexts, matching>>

\* backup() refuses to cross the start of the line.
MatchBackupThrows ==
    /\ target # NoTarget
    /\ thrown = "no"
    /\ ~Matches
    /\ column - index < 1
    /\ thrown' = "backup"
    /\ UNCHANGED <<text, cursor, contexts, matching>>
-----------------------------------------------------------------------------
\* Broken: line and column change places in the saved context.
BrokenSave ==
    /\ Idle
    /\ Len(contexts) < MaxMarks
    /\ contexts' = Append(contexts, [lineNo |-> column, column |-> lineNo,
                                     bufferPosition |-> bufferPosition])
    /\ UNCHANGED <<text, cursor, matching, thrown>>

save ==
    /\ Idle
    /\ Len(contexts) < MaxMarks
    /\ contexts' = Append(contexts, [lineNo |-> lineNo, column |-> column,
                                     bufferPosition |-> bufferPosition])
    /\ UNCHANGED <<text, cursor, matching, thrown>>

\* Broken: goes back to the outermost mark.
BrokenRestore ==
    /\ Idle \/ thrown # "no"
    /\ contexts # <<>>
    /\ lineNo' = contexts[1].lineNo
    /\ column' = contexts[1].column
    /\ bufferPosition' = contexts[1].bufferPosition
    /\ contexts' = SubSeq(contexts, 1, Len(contexts) - 1)
    /\ target' = NoTarget
    /\ index' = 0
    /\ thrown' = IF thrown = "no" THEN "no" ELSE "unwinding"
    /\ UNCHANGED text

\* restore(), by a SourceGuard that leaves its scope, normally or while an
\* exception unwinds the parser.
restore ==
    /\ Idle \/ thrown # "no"
    /\ contexts # <<>>
    /\ LET ctx == contexts[Len(contexts)]
       IN  /\ lineNo' = ctx.lineNo
           /\ column' = ctx.column
           /\ bufferPosition' = ctx.bufferPosition
    /\ contexts' = SubSeq(contexts, 1, Len(contexts) - 1)
    /\ target' = NoTarget
    /\ index' = 0
    /\ thrown' = IF thrown = "no" THEN "no" ELSE "unwinding"
    /\ UNCHANGED text

discardSave ==
    /\ Idle
    /\ contexts # <<>>
    /\ contexts' = SubSeq(contexts, 1, Len(contexts) - 1)
    /\ UNCHANGED <<text, cursor, matching, thrown>>

\* reset() by the owner of the source: no guard is open outside a parse, and an
\* exception reaches the owner once every guard is unwound.
reset ==
    /\ Idle \/ thrown # "no"
    /\ contexts = <<>>
    /\ bufferPosition' = 0
    /\ lineNo' = 1
    /\ column' = 1
    /\ target' = NoTarget
    /\ index' = 0
    /\ thrown' = "no"
    /\ UNCHANGED <<text, contexts>>

Next ==
    \/ NextStep
    \/ NextForbidden
    \/ NextPastEnd
    \/ ignoreWS
    \/ \E t \in Targets : MatchBegin(t)
    \/ MatchNext
    \/ MatchBackup
    \/ MatchBackupThrows
    \/ save
    \/ restore
    \/ discardSave
    \/ reset

Spec == Init /\ [][Next]_vars
-----------------------------------------------------------------------------
\* The members of ISource and of BufferedSourceBase have their types; the offset
\* and a match in progress stay within the text.
TypeOK ==
    /\ text \in Seq(Char)
    /\ bufferPosition \in 0..Len(text)
    /\ lineNo \in Nat
    /\ column \in Nat
    /\ contexts \in Seq(Context)
    /\ Len(contexts) <= MaxMarks
    /\ target \in Targets \union {NoTarget}
    /\ index \in Nat
    /\ index <= bufferPosition
    /\ target = NoTarget => index = 0
    /\ target # NoTarget => index < Len(target)
    /\ thrown \in {"no", "forbidden", "end", "backup", "unwinding"}

\* The line and column an error message quotes, and the indentation decisions
\* compare, are those of the byte the cursor is on, through any nesting of
\* save/restore, failed matches and resets.  Only the exception of next() at the
\* end of the input leaves a column one too far, until a guard restores.
PositionTrue ==
    thrown # "end" => IsPosition(text, bufferPosition, lineNo, column)

\* Every saved context can be returned to: it holds a position of the text.
ContextsTrue ==
    \A i \in 1..Len(contexts) :
        IsPosition(text, contexts[i].bufferPosition,
                   contexts[i].lineNo, contexts[i].column)

\* backup() refuses only a string with a line feed: one without cannot carry
\* the cursor to another line before it fails, whatever was read before.
BackupStaysOnLine ==
    thrown = "backup" => \E i \in 1..index : target[i] = LF

\* The cursor as the parser sees it between two calls: a match in progress has
\* not moved it yet.
Abstract == INSTANCE Source WITH
    pos <- bufferPosition - index,
    marks <- [i \in 1..Len(contexts) |-> contexts[i].bufferPosition]

\* BufferedSourceBase keeps the promise of ISource.
RefinesSource == Abstract!Spec
=============================================================================
