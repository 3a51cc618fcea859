---------------------------- MODULE StreamSource ----------------------------
(***************************************************************************)
(* StreamSource, the ISource over a seekable std::istream, under           *)
(* ISource::match().  The first section is the part of the stream's own    *)
(* behaviour the source relies on: peek, tellg and seekg, and the state    *)
(* bits they leave behind (a second peek at the end finds the stream       *)
(* already not good and adds failbit; only clear() removes it).            *)
(***************************************************************************)
EXTENDS SourceText

CONSTANTS
    CR,                 \* kCarriageReturn
    NestedSaveAtEnd     \* may a guard be opened inside another at the end?

ASSUME StreamAssumption ==
    /\ CR # LF
    /\ CR \notin Blank \union Forbidden
    /\ NestedSaveAtEnd \in BOOLEAN

VARIABLES
    text, stream, lineNo, column, contexts, target, index, thrown,
    bufferPosition, \* what position() answers when there is nothing more
    began           \* history: where the match in progress began

vars == <<text, stream, lineNo, column, contexts, target, index, thrown,
          bufferPosition, began>>

coordinates == <<lineNo, column>>
matching == <<target, index, began>>

NoPosition == -1
-----------------------------------------------------------------------------
(* The stream: get is the read coordinates, eof and fail the state bits.       *)

Good(s) == ~s.eof /\ ~s.fail

PeekChar(s) == IF Good(s) THEN CharAt(text, s.get) ELSE EOF

AfterPeek(s) ==
    IF ~Good(s) THEN [s EXCEPT !.fail = TRUE]
    ELSE [s EXCEPT !.eof = (s.get = Len(text))]

Tell(s) == IF Good(s) THEN s.get ELSE NoPosition

AfterTell(s) == IF Good(s) THEN s ELSE [s EXCEPT !.fail = TRUE]

Clear(s) == [s EXCEPT !.eof = FALSE, !.fail = FALSE]

\* seekg drops eofbit first and gives up when failbit is set.
SeekTo(s, p) ==
    IF ~s.fail /\ p \in 0..Len(text)
    THEN [s EXCEPT !.eof = FALSE, !.get = p]
    ELSE [s EXCEPT !.eof = FALSE, !.fail = TRUE]
-----------------------------------------------------------------------------
Init ==
    /\ text \in Texts
    /\ stream = [get |-> 0, eof |-> FALSE, fail |-> FALSE]
    /\ lineNo = 1
    /\ column = 1
    /\ contexts = <<>>
    /\ target = NoTarget
    /\ index = 0
    /\ thrown = "no"
    /\ bufferPosition = 0
    /\ began = 0

current == PeekChar(stream)
more == PeekChar(stream) # EOF

Idle == target = NoTarget /\ thrown = "no"

\* After get(), next() looks at the following character: the carriage return
\* of a CR LF is read as well, a lone one is put back.
AfterGet(s) ==
    LET g == s.get + 1
    IN  IF CharAt(text, g) = CR /\ CharAt(text, g + 1) = LF
        THEN [s EXCEPT !.get = g + 1]
        ELSE AfterPeek([s EXCEPT !.get = g])

\* Broken: a line feed leaves the column as it was.
BrokenStepOver ==
    /\ more
    /\ stream' = AfterGet(stream)
    /\ bufferPosition' = stream.get + 1
    /\ lineNo' = IF current = LF THEN lineNo + 1 ELSE lineNo
    /\ column' = column + 1
    /\ UNCHANGED <<text, contexts, thrown>>

StepOver ==
    /\ more
    /\ stream' = AfterGet(stream)
    /\ bufferPosition' = stream.get + 1
    /\ IF current = LF
          THEN lineNo' = lineNo + 1 /\ column' = 1
          ELSE lineNo' = lineNo /\ column' = column + 1
    /\ UNCHANGED <<text, contexts, thrown>>

NextStep == Idle /\ StepOver /\ UNCHANGED matching

NextPastEnd ==
    /\ Idle
    /\ ~more
    /\ column' = column + 1
    /\ stream' = AfterPeek(AfterPeek(stream))
    /\ thrown' = "end"
    /\ UNCHANGED <<text, lineNo, contexts, matching, bufferPosition>>

\* more() asked on its own, as every loop of the parser ends: at the end of
\* the text the look leaves eofbit behind.
LookForMore ==
    /\ Idle
    /\ stream' = AfterPeek(stream)
    /\ UNCHANGED <<text, coordinates, contexts, matching, thrown, bufferPosition>>
-----------------------------------------------------------------------------
Matches == more /\ current = target[index + 1]

MatchBegin(t) ==
    /\ Idle
    /\ target' = t
    /\ index' = 0
    /\ began' = stream.get
    /\ UNCHANGED <<text, stream, coordinates, contexts, thrown, bufferPosition>>

MatchNext ==
    /\ target # NoTarget
    /\ thrown = "no"
    /\ Matches
    /\ StepOver
    /\ IF index + 1 = Len(target)
          THEN target' = NoTarget /\ index' = 0
          ELSE target' = target /\ index' = index + 1
    /\ UNCHANGED began

\* Broken: backs up one character more than were matched.
BrokenMatchBackup ==
    /\ target # NoTarget
    /\ thrown = "no"
    /\ ~Matches
    /\ column # index
    /\ LET s == Clear(stream)
       IN  stream' = SeekTo(s, s.get - index - 1)
    /\ column' = column - index - 1
    /\ target' = NoTarget
    /\ index' = 0
    /\ UNCHANGED <<text, lineNo, contexts, thrown, bufferPosition, began>>

\* match() gives up: backup(index), by a seek of index bytes.
MatchBackup ==
    /\ target # NoTarget
    /\ thrown = "no"
    /\ ~Matches
    /\ column # index
    /\ LET s == Clear(stream)
       IN  stream' = SeekTo(s, s.get - index)
    /\ column' = column - index
    /\ target' = NoTarget
    /\ index' = 0
    /\ UNCHANGED <<text, lineNo, contexts, thrown, bufferPosition, began>>

\* column - length is computed unsigned, so it is below 1 only when it is 0.
MatchBackupThrows ==
    /\ target # NoTarget
    /\ thrown = "no"
    /\ ~Matches
    /\ column = index
    /\ stream' = AfterPeek(stream)
    /\ thrown' = "backup"
    /\ UNCHANGED <<text, coordinates, contexts, matching, bufferPosition>>
-----------------------------------------------------------------------------
\* Broken: saves the offset position() last answered with, not that of the stream.
BrokenSave ==
    /\ Idle
    /\ Len(contexts) < MaxMarks
    /\ NestedSaveAtEnd \/ more \/ contexts = <<>>
    /\ contexts' = Append(contexts, [lineNo |-> lineNo, column |-> column,
                                     bufferPosition |-> bufferPosition])
    /\ UNCHANGED <<text, stream, coordinates, matching, thrown, bufferPosition>>

save ==
    /\ Idle
    /\ Len(contexts) < MaxMarks
    /\ NestedSaveAtEnd \/ more \/ contexts = <<>>
    /\ contexts' = Append(contexts, [lineNo |-> lineNo, column |-> column,
                                     bufferPosition |-> Tell(stream)])
    /\ stream' = AfterTell(stream)
    /\ bufferPosition' = Tell(stream)
    /\ UNCHANGED <<text, coordinates, matching, thrown>>

\* Broken: seeks without clearing the state bits first.
BrokenRestore ==
    /\ Idle \/ thrown # "no"
    /\ contexts # <<>>
    /\ LET ctx == contexts[Len(contexts)]
       IN  /\ lineNo' = ctx.lineNo
           /\ column' = ctx.column
           /\ stream' = AfterTell(SeekTo(stream, ctx.bufferPosition))
           /\ bufferPosition' = Tell(SeekTo(stream, ctx.bufferPosition))
    /\ contexts' = SubSeq(contexts, 1, Len(contexts) - 1)
    /\ target' = NoTarget
    /\ index' = 0
    /\ thrown' = IF thrown = "no" THEN "no" ELSE "unwinding"
    /\ UNCHANGED <<text, began>>

restore ==
    /\ Idle \/ thrown # "no"
    /\ contexts # <<>>
    /\ LET ctx == contexts[Len(contexts)]
           s == IF stream.eof THEN Clear(stream) ELSE stream
       IN  /\ lineNo' = ctx.lineNo
           /\ column' = ctx.column
           /\ stream' = AfterTell(SeekTo(s, ctx.bufferPosition))
           /\ bufferPosition' = Tell(SeekTo(s, ctx.bufferPosition))
    /\ contexts' = SubSeq(contexts, 1, Len(contexts) - 1)
    /\ target' = NoTarget
    /\ index' = 0
    /\ thrown' = IF thrown = "no" THEN "no" ELSE "unwinding"
    /\ UNCHANGED <<text, began>>

discardSave ==
    /\ Idle
    /\ contexts # <<>>
    /\ contexts' = SubSeq(contexts, 1, Len(contexts) - 1)
    /\ UNCHANGED <<text, stream, coordinates, matching, thrown, bufferPosition>>

\* reset() by the owner of the source: no guard is open outside a parse.
reset ==
    /\ Idle \/ thrown # "no"
    /\ contexts = <<>>
    /\ lineNo' = 1
    /\ column' = 1
    /\ stream' = SeekTo(Clear(stream), 0)
    /\ bufferPosition' = 0
    /\ target' = NoTarget
    /\ index' = 0
    /\ thrown' = "no"
    /\ UNCHANGED <<text, contexts, began>>

Next ==
    \/ NextStep
    \/ NextPastEnd
    \/ LookForMore
    \/ \E t \in Targets : MatchBegin(t)
    \/ MatchNext
    \/ MatchBackup
    \/ MatchBackupThrows
    \/ save
    \/ restore
    \/ discardSave
    \/ reset

Spec == Init /\ [][Next]_vars
-----------------------------------------------------------------------------
Context == [lineNo : Nat, column : Nat \ {0}, bufferPosition : Nat \union {NoPosition}]

\* tellg() answers -1 when it is asked at the end; that mark stands for the end.
Offset(ctx) ==
    IF ctx.bufferPosition = NoPosition THEN Len(text) ELSE ctx.bufferPosition

\* The members of StreamSource have their types; the column, unsigned in the code,
\* never comes to 0.
TypeOK ==
    /\ text \in Seq(Char)
    /\ stream \in [get : 0..Len(text), eof : BOOLEAN, fail : BOOLEAN]
    /\ lineNo \in Nat
    /\ column \in Nat \ {0}
    /\ contexts \in Seq(Context)
    /\ Len(contexts) <= MaxMarks
    /\ target \in Targets \union {NoTarget}
    /\ index \in Nat
    /\ target = NoTarget => index = 0
    /\ target # NoTarget => index < Len(target)
    /\ thrown \in {"no", "end", "backup", "unwinding"}
    /\ bufferPosition \in Nat \union {NoPosition}
    /\ began \in 0..Len(text)

\* As BufferedSource!PositionTrue: on a text without carriage returns the line
\* and the column stay those of the byte the stream will deliver next, although
\* they are kept apart from the stream and the stream is moved by seeks.
PositionTrue ==
    thrown # "end" => IsPosition(text, stream.get, lineNo, column)

\* Every saved context holds the line and column of the offset that restore() will
\* seek to, the end of the text for a tellg() of -1, through any nesting of guards,
\* failed matches and exceptions.
ContextsTrue ==
    \A i \in 1..Len(contexts) :
        IsPosition(text, Offset(contexts[i]), contexts[i].lineNo, contexts[i].column)

\* The stream is never left unreadable with text still ahead: failbit, which
\* only clear() removes, is set at the end of the text or not at all.
FailOnlyAtEnd == stream.fail => stream.get = Len(text)

\* restore() brings the stream back to where the matching save() was called.
RestoreSeeksBack ==
    [][restore => stream'.get = Offset(contexts[Len(contexts)])]_vars

Abstract == INSTANCE Source WITH
    pos <- IF target = NoTarget THEN stream.get ELSE began,
    marks <- [i \in 1..Len(contexts) |-> Offset(contexts[i])]

\* StreamSource keeps the promise of ISource on texts without carriage returns
\* and control characters, while no guard is opened at the end of the text
\* inside another.
RefinesSource == Abstract!Spec
=============================================================================
