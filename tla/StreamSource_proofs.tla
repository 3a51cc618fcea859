------------------------ MODULE StreamSource_proofs ------------------------
(***************************************************************************)
(* StreamSource for every text and every nesting of guards it is meant     *)
(* for: its members keep their types, its line and column are those of the *)
(* byte the stream delivers next, the stream is never left unreadable with *)
(* text ahead, and it implements Source.                                   *)
(***************************************************************************)
EXTENDS StreamSource, SourceText_proofs

(* What the theorems ask of the use.  A line feed may only begin a string  *)
(* the parser matches: next() sets the column to 1 there, and backup()     *)
(* would take more than that from it.  No string of the parser has one.    *)
LineFeedFirst == \A t \in Targets : \A i \in 2..Len(t) : t[i] # LF

(* The texts on which the stream and the buffers agree, and the guards the *)
(* parser can open: see the differences the README lists.                  *)
IsPlain(t) ==
    /\ \A i \in 1..Len(t) : t[i] \notin Forbidden
    /\ \A i \in 1..(Len(t) - 1) : t[i] = CR => t[i + 1] # LF

PlainUse ==
    /\ LineFeedFirst
    /\ \A t \in Texts : IsPlain(t)
    /\ ~NestedSaveAtEnd
-----------------------------------------------------------------------------
(* Types.  While a match runs, the characters it has read are all on the   *)
(* line: backup() can take them back from the offset and from the column.  *)

Behind == target # NoTarget => index <= stream.get /\ index <= column

TypeInv == TypeOK /\ Behind

StreamType == [get : 0..Len(text), eof : BOOLEAN, fail : BOOLEAN]

\* What the source does to the stream keeps its offset inside the text.
LEMMA StreamKept ==
    ASSUME NEW s \in StreamType, Len(text) \in Nat
    PROVE  /\ AfterPeek(s) \in StreamType /\ AfterPeek(s).get = s.get
           /\ AfterTell(s) \in StreamType /\ AfterTell(s).get = s.get
           /\ Clear(s) \in StreamType /\ Clear(s).get = s.get
           /\ ~Clear(s).eof /\ ~Clear(s).fail
           /\ Tell(s) \in Nat \union {NoPosition}
           /\ \A p : SeekTo(s, p) \in StreamType /\ ~SeekTo(s, p).eof
           /\ Good(s) => /\ ~AfterPeek(s).fail
                         /\ AfterPeek(s).eof => s.get = Len(text)
<1>1. /\ s.get \in 0..Len(text) /\ s.eof \in BOOLEAN /\ s.fail \in BOOLEAN
      /\ s = [get |-> s.get, eof |-> s.eof, fail |-> s.fail]
    BY DEF StreamType
<1>2. AfterPeek(s) \in StreamType /\ AfterPeek(s).get = s.get
    BY <1>1 DEF AfterPeek, Good, StreamType
<1>3. AfterTell(s) \in StreamType /\ AfterTell(s).get = s.get
    BY <1>1 DEF AfterTell, Good, StreamType
<1>4. /\ Clear(s) \in StreamType /\ Clear(s).get = s.get
      /\ ~Clear(s).eof /\ ~Clear(s).fail
    BY <1>1 DEF Clear, StreamType
<1>5. Tell(s) \in Nat \union {NoPosition}
    BY <1>1 DEF Tell
<1>6. ASSUME NEW p
      PROVE  SeekTo(s, p) \in StreamType /\ ~SeekTo(s, p).eof
    BY <1>1 DEF SeekTo, StreamType
<1>7. ASSUME Good(s)
      PROVE  /\ ~AfterPeek(s).fail
             /\ AfterPeek(s).eof => s.get = Len(text)
    BY <1>1, <1>7 DEF AfterPeek, Good
<1>8. QED
    BY <1>2, <1>3, <1>4, <1>5, <1>6, <1>7

\* next() over a character: one byte on, or two over the pair CR LF.
LEMMA AfterGetKept ==
    ASSUME NEW s \in StreamType, Len(text) \in Nat, s.get < Len(text), Good(s),
           EOF # LF
    PROVE  /\ AfterGet(s) \in StreamType
           /\ AfterGet(s).get \in {s.get + 1, s.get + 2}
           /\ AfterGet(s).get = s.get + 2 =>
                 s.get + 2 < Len(text) /\ text[s.get + 2] = CR /\ text[s.get + 3] = LF
           /\ AfterGet(s).eof => AfterGet(s).get = Len(text)
           /\ ~AfterGet(s).fail
<1> DEFINE g == s.get + 1
<1>1. /\ s.get \in 0..Len(text) /\ s.eof = FALSE /\ s.fail = FALSE
      /\ s = [get |-> s.get, eof |-> s.eof, fail |-> s.fail]
      /\ g \in 0..Len(text) /\ g + 1 = s.get + 2 /\ g + 2 = s.get + 3
      /\ s.get # s.get + 2 /\ g # s.get + 2
    BY DEF StreamType, Good
<1>2. CASE CharAt(text, g) = CR /\ CharAt(text, g + 1) = LF
    <2>1. AfterGet(s) = [s EXCEPT !.get = g + 1]
        BY <1>2 DEF AfterGet
    <2>2. g + 1 < Len(text) /\ text[g + 2] = LF
        BY <1>1, <1>2 DEF CharAt
    <2>3. text[g + 1] = CR
        BY <1>1, <1>2, <2>2 DEF CharAt
    <2>4. QED
        BY <1>1, <2>1, <2>2, <2>3 DEF StreamType
<1>3. CASE ~(CharAt(text, g) = CR /\ CharAt(text, g + 1) = LF)
    <2>1. AfterGet(s) = AfterPeek([s EXCEPT !.get = g])
        BY <1>3 DEF AfterGet
    <2>2. /\ [s EXCEPT !.get = g] \in StreamType
          /\ [s EXCEPT !.get = g].get = g
          /\ Good([s EXCEPT !.get = g])
        BY <1>1 DEF StreamType, Good
    <2>3. /\ AfterGet(s) \in StreamType /\ AfterGet(s).get = g
          /\ ~AfterGet(s).fail
          /\ AfterGet(s).eof => g = Len(text)
        BY <2>1, <2>2, StreamKept
    <2>4. QED
        BY <1>1, <2>3
<1>4. QED
    BY <1>2, <1>3

\* Something more to read: the stream is good and not at the end of the text.
LEMMA MoreToRead ==
    ASSUME more, TypeOK
    PROVE  /\ Good(stream) /\ stream.get < Len(text)
           /\ current = text[stream.get + 1]
BY DEF more, current, PeekChar, CharAt, TypeOK

LEMMA StepOverType ==
    ASSUME TypeOK, StepOver
    PROVE  /\ stream' \in StreamType
           /\ stream'.get \in {stream.get + 1, stream.get + 2}
           /\ lineNo' \in Nat /\ column' \in Nat \ {0}
           /\ current # LF => column' = column + 1
           /\ bufferPosition' \in Nat
           /\ UNCHANGED <<text, contexts, thrown>>
<1>1. stream \in StreamType /\ Len(text) \in Nat
    BY DEF TypeOK, StreamType
<1>2. Good(stream) /\ stream.get < Len(text)
    BY MoreToRead DEF StepOver
<1>3. EOF # LF
    BY SourceAssumption
<1>4. stream' = AfterGet(stream)
    BY DEF StepOver
<1>5. stream' \in StreamType /\ stream'.get \in {stream.get + 1, stream.get + 2}
    BY <1>1, <1>2, <1>3, <1>4, AfterGetKept
<1>6. stream.get \in Nat
    BY DEF TypeOK
<1>7. QED
    BY <1>5, <1>6 DEF StepOver, TypeOK

LEMMA InitTypeInv == Init => TypeInv
<1> SUFFICES ASSUME Init PROVE TypeInv
    OBVIOUS
<1>1. text \in Seq(Char) /\ Len(text) \in Nat
    BY SourceAssumption DEF Init
<1>2. contexts \in Seq(Context) /\ Len(contexts) = 0
    BY DEF Init
<1>3. stream \in [get : 0..Len(text), eof : BOOLEAN, fail : BOOLEAN]
    BY <1>1 DEF Init
<1>4. QED
    BY <1>1, <1>2, <1>3, SourceAssumption DEF Init, TypeInv, TypeOK, Behind, NoTarget

\* Taking the innermost context off the stack.
LEMMA PopContexts ==
    ASSUME TypeOK, contexts # <<>>,
           contexts' = SubSeq(contexts, 1, Len(contexts) - 1)
    PROVE  /\ contexts' \in Seq(Context)
           /\ Len(contexts') = Len(contexts) - 1
           /\ Len(contexts) \in Nat \ {0}
           /\ \A i \in 1..Len(contexts') : contexts'[i] = contexts[i]
           /\ contexts[Len(contexts)] \in Context
<1>1. contexts \in Seq(Context)
    BY DEF TypeOK
<1>2. QED
    BY <1>1, PopLast

LEMMA StepTypeInv ==
    ASSUME LineFeedFirst
    PROVE  TypeInv /\ [Next]_vars => TypeInv'
<1> SUFFICES ASSUME TypeInv, [Next]_vars PROVE TypeInv'
    OBVIOUS
<1> USE DEF TypeInv
<1>0. /\ text \in Seq(Char) /\ Len(text) \in Nat
      /\ NoTarget \notin Targets
      /\ stream \in StreamType
      /\ NoPosition \notin Nat
    BY SourceAssumption DEF TypeOK, NoTarget, StreamType, NoPosition
<1>1. CASE NextStep
    <2>1. /\ stream' \in StreamType
          /\ lineNo' \in Nat /\ column' \in Nat \ {0} /\ bufferPosition' \in Nat
          /\ UNCHANGED <<text, contexts, thrown, target, index, began>>
          /\ target = NoTarget
        BY <1>1, StepOverType DEF NextStep, matching, Idle
    <2>2. QED
        BY <1>0, <2>1 DEF TypeOK, Behind, StreamType
<1>2. CASE NextPastEnd
    <2>1. AfterPeek(AfterPeek(stream)) \in StreamType
        BY <1>0, StreamKept
    <2>2. QED
        BY <1>0, <1>2, <2>1 DEF NextPastEnd, Idle, matching, TypeOK, Behind,
                                StreamType
<1>3. CASE LookForMore
    <2>1. AfterPeek(stream) \in StreamType
        BY <1>0, StreamKept
    <2>2. QED
        BY <1>0, <1>3, <2>1 DEF LookForMore, Idle, coordinates, matching, TypeOK,
                                Behind, StreamType
<1>4. ASSUME NEW t \in Targets, MatchBegin(t)
      PROVE  TypeInv'
    <2>1. t \in Seq(Char) /\ Len(t) > 0 /\ t # NoTarget
        BY SourceAssumption DEF NoTarget
    <2>2. stream.get \in Nat /\ column \in Nat
        BY DEF TypeOK
    <2>3. QED
        BY <1>4, <2>1, <2>2 DEF MatchBegin, coordinates, TypeOK, Behind
<1>5. CASE MatchNext
    <2>1. /\ stream' \in StreamType
          /\ stream'.get \in {stream.get + 1, stream.get + 2}
          /\ lineNo' \in Nat /\ column' \in Nat \ {0} /\ bufferPosition' \in Nat
          /\ current # LF => column' = column + 1
          /\ UNCHANGED <<text, contexts, thrown, began>>
        BY <1>5, StepOverType DEF MatchNext
    <2>2. /\ target \in Targets /\ target # NoTarget
          /\ index \in Nat /\ index < Len(target) /\ Len(target) \in Nat
          /\ current = target[index + 1]
        BY <1>5, SourceAssumption DEF MatchNext, Matches, TypeOK, NoTarget
    <2>3. CASE index + 1 = Len(target)
        <3>1. target' = NoTarget /\ index' = 0
            BY <1>5, <2>3 DEF MatchNext
        <3>2. QED
            BY <1>0, <2>1, <3>1 DEF TypeOK, Behind, StreamType
    <2>4. CASE index + 1 # Len(target)
        <3>1. target' = target /\ index' = index + 1
            BY <1>5, <2>4 DEF MatchNext
        <3>2. stream.get \in Nat /\ column \in Nat \ {0}
              /\ index <= stream.get /\ index <= column
            BY <2>2 DEF TypeOK, Behind
        <3>3. index + 1 <= stream'.get
            BY <2>1, <2>2, <3>2
        <3>4. index + 1 <= column'
            <4>1. CASE index = 0
                BY <2>1, <4>1
            <4>2. CASE index # 0
                <5>1. index + 1 \in 2..Len(target)
                    BY <2>2, <4>2
                <5>2. current # LF
                    BY <2>2, <5>1 DEF LineFeedFirst
                <5>3. QED
                    BY <2>1, <2>2, <3>2, <5>2
            <4>3. QED
                BY <4>1, <4>2
        <3>5. index + 1 < Len(target)
            BY <2>2, <2>4
        <3>6. QED
            BY <1>0, <2>1, <2>2, <3>1, <3>3, <3>4, <3>5
            DEF TypeOK, Behind, StreamType
    <2>5. QED
        BY <2>3, <2>4
<1>6. CASE MatchBackup
    <2>1. /\ target # NoTarget /\ column # index
          /\ stream' = SeekTo(Clear(stream), Clear(stream).get - index)
          /\ column' = column - index /\ target' = NoTarget /\ index' = 0
          /\ UNCHANGED <<text, lineNo, contexts, thrown, bufferPosition, began>>
        BY <1>6 DEF MatchBackup
    <2>2. stream' \in StreamType
        BY <1>0, <2>1, StreamKept
    <2>3. column' \in Nat \ {0}
        BY <2>1 DEF TypeOK, Behind
    <2>4. QED
        BY <1>0, <2>1, <2>2, <2>3 DEF TypeOK, Behind, StreamType
<1>7. CASE MatchBackupThrows
    <2>1. AfterPeek(stream) \in StreamType /\ AfterPeek(stream).get = stream.get
        BY <1>0, StreamKept
    <2>2. QED
        BY <1>0, <1>7, <2>1 DEF MatchBackupThrows, coordinates, matching, TypeOK,
                                Behind, StreamType
<1>8. CASE save
    <2> DEFINE ctx == [lineNo |-> lineNo, column |-> column,
                       bufferPosition |-> Tell(stream)]
    <2>1. /\ contexts' = Append(contexts, ctx) /\ Len(contexts) < MaxMarks
          /\ stream' = AfterTell(stream) /\ bufferPosition' = Tell(stream)
          /\ target = NoTarget
          /\ UNCHANGED <<text, lineNo, column, target, index, began, thrown>>
        BY <1>8 DEF save, Idle, coordinates, matching
    <2>2. /\ AfterTell(stream) \in StreamType
          /\ Tell(stream) \in Nat \union {NoPosition}
        BY <1>0, StreamKept
    <2>3. ctx \in Context
        BY <2>2 DEF Context, TypeOK
    <2>4. /\ contexts' \in Seq(Context) /\ Len(contexts') = Len(contexts) + 1
          /\ Len(contexts) \in Nat
        BY <2>1, <2>3 DEF TypeOK
    <2>5. QED
        BY <1>0, <2>1, <2>2, <2>4, SourceAssumption DEF TypeOK, Behind, StreamType
<1>9. CASE restore
    <2> DEFINE ctx == contexts[Len(contexts)]
               s == IF stream.eof THEN Clear(stream) ELSE stream
    <2>1. /\ contexts # <<>> /\ contexts' = SubSeq(contexts, 1, Len(contexts) - 1)
          /\ lineNo' = ctx.lineNo /\ column' = ctx.column
          /\ stream' = AfterTell(SeekTo(s, ctx.bufferPosition))
          /\ bufferPosition' = Tell(SeekTo(s, ctx.bufferPosition))
          /\ target' = NoTarget /\ index' = 0
          /\ thrown' \in {"no", "unwinding"}
          /\ UNCHANGED <<text, began>>
        BY <1>9 DEF restore
    <2>2. /\ contexts' \in Seq(Context)
          /\ Len(contexts') = Len(contexts) - 1 /\ Len(contexts) \in Nat \ {0}
          /\ ctx \in Context
        BY <2>1, PopContexts
    <2>3. SeekTo(s, ctx.bufferPosition) \in StreamType
        BY <1>0, StreamKept
    <2>4. /\ stream' \in StreamType
          /\ bufferPosition' \in Nat \union {NoPosition}
        BY <1>0, <2>1, <2>3, StreamKept
    <2>5. lineNo' \in Nat /\ column' \in Nat \ {0}
        BY <2>1, <2>2 DEF Context
    <2>6. QED
        BY <1>0, <2>1, <2>2, <2>4, <2>5, SourceAssumption
        DEF TypeOK, Behind, StreamType
<1>10. CASE discardSave
    <2>1. /\ contexts # <<>> /\ contexts' = SubSeq(contexts, 1, Len(contexts) - 1)
          /\ UNCHANGED <<text, stream, lineNo, column, target, index, began,
                         thrown, bufferPosition>>
        BY <1>10 DEF discardSave, coordinates, matching
    <2>2. /\ contexts' \in Seq(Context)
          /\ Len(contexts') = Len(contexts) - 1 /\ Len(contexts) \in Nat \ {0}
        BY <2>1, PopContexts
    <2>3. QED
        BY <2>1, <2>2, SourceAssumption DEF TypeOK, Behind
<1>11. CASE reset
    <2>1. SeekTo(Clear(stream), 0) \in StreamType
        BY <1>0, StreamKept
    <2>2. QED
        BY <1>0, <1>11, <2>1 DEF reset, TypeOK, Behind, StreamType
<1>12. CASE UNCHANGED vars
    BY <1>12 DEF vars, TypeOK, Behind
<1>13. QED
    BY <1>1, <1>2, <1>3, <1>4, <1>5, <1>6, <1>7, <1>8, <1>9, <1>10, <1>11,
       <1>12 DEF Next

\* The members of StreamSource keep their types on every text, with carriage
\* returns and control characters too, and with guards opened anywhere: a failed
\* match() never takes the column, which is unsigned, below 1.
THEOREM StreamTypeCorrect == LineFeedFirst => (Spec => []TypeOK)
<1> SUFFICES ASSUME LineFeedFirst PROVE Spec => []TypeOK
    OBVIOUS
<1>1. TypeInv /\ [Next]_vars => TypeInv'
    BY StepTypeInv
<1>2. TypeInv => TypeOK
    BY DEF TypeInv
<1>3. QED
    BY <1>1, <1>2, InitTypeInv, PTL DEF Spec
-----------------------------------------------------------------------------
(* The state bits.  peek() and tellg() leave eofbit and failbit behind, and *)
(* a failbit without eofbit survives restore(): what saves the source is    *)
(* that it is only ever set at the end of the text, with no mark before it. *)

Marks == [i \in 1..Len(contexts) |-> Offset(contexts[i])]

EofOnlyAtEnd == stream.eof => stream.get = Len(text)

\* A guard opened at the end is the only one, and the stream has not moved since.
MarkAtEnd ==
    \A i \in 1..Len(contexts) :
        Offset(contexts[i]) = Len(text) =>
            stream.get = Len(text) /\ index = 0 /\ Len(contexts) = 1

FailKept ==
    stream.fail /\ ~stream.eof =>
        \A i \in 1..Len(contexts) : Offset(contexts[i]) = Len(text)

\* The characters matched so far are the ones just read.
MatchedPrefix ==
    target # NoTarget =>
        /\ stream.get = began + index
        /\ \A i \in 1..index : target[i] = text[began + i]

StreamInv == FailOnlyAtEnd /\ EofOnlyAtEnd /\ MarkAtEnd /\ FailKept

IInv ==
    /\ TypeInv
    /\ IsPlain(text)
    /\ PositionTrue
    /\ ContextsTrue
    /\ StreamInv
    /\ MatchedPrefix

LEMMA InitIInv ==
    ASSUME PlainUse
    PROVE  Init => IInv
<1> SUFFICES ASSUME Init PROVE IInv
    OBVIOUS
<1>1. TypeInv
    BY InitTypeInv
<1>2. text \in Seq(Char) /\ IsPlain(text)
    BY SourceAssumption DEF Init, PlainUse
<1>3. PositionTrue
    BY <1>2, PositionZero DEF Init, PositionTrue
<1>4. ContextsTrue /\ MarkAtEnd /\ FailKept
    BY DEF Init, ContextsTrue, MarkAtEnd, FailKept
<1>5. FailOnlyAtEnd /\ EofOnlyAtEnd /\ MatchedPrefix
    BY DEF Init, FailOnlyAtEnd, EofOnlyAtEnd, MatchedPrefix
<1>6. QED
    BY <1>1, <1>2, <1>3, <1>4, <1>5 DEF IInv, StreamInv

\* On a plain text next() moves one byte, to that byte's line and column.
LEMMA StepOverTrue ==
    ASSUME TypeOK, IsPlain(text), PositionTrue, thrown = "no", StepOver
    PROVE  /\ stream'.get = stream.get + 1
           /\ stream.get < Len(text)
           /\ current = text[stream.get + 1]
           /\ stream'.eof => stream'.get = Len(text)
           /\ ~stream'.fail
           /\ IsPosition(text, stream'.get, lineNo', column')
<1>1. /\ text \in Seq(Char) /\ Len(text) \in Nat
      /\ stream \in StreamType /\ stream.get \in Nat
    BY DEF TypeOK, StreamType
<1>2. /\ Good(stream) /\ stream.get < Len(text)
      /\ current = text[stream.get + 1]
      /\ stream' = AfterGet(stream)
    BY MoreToRead DEF StepOver
<1>3. EOF # LF
    BY SourceAssumption
<1>4. stream'.get # stream.get + 2
    <2>1. SUFFICES ASSUME stream'.get = stream.get + 2 PROVE FALSE
        OBVIOUS
    <2>2. /\ stream.get + 2 < Len(text)
          /\ text[stream.get + 2] = CR /\ text[stream.get + 3] = LF
        BY <1>1, <1>2, <1>3, <2>1, AfterGetKept
    <2>3. stream.get + 3 \in 1..Len(text)
        BY <1>1, <2>2
    <2>4. stream.get + 2 \in 1..(Len(text) - 1)
        BY <1>1, <2>3
    <2>5. (stream.get + 2) + 1 = stream.get + 3
        BY <1>1
    <2>6. QED
        BY <2>2, <2>4, <2>5 DEF IsPlain
<1>5. /\ stream'.get = stream.get + 1
      /\ stream'.eof => stream'.get = Len(text)
      /\ ~stream'.fail
    BY <1>1, <1>2, <1>3, <1>4, AfterGetKept
<1>6. IsPosition(text, stream.get, lineNo, column)
    BY DEF PositionTrue
<1>7. IsPosition(text, stream'.get, lineNo', column')
    <2>1. CASE current = LF
        <3>1. lineNo' = lineNo + 1 /\ column' = 1
            BY <2>1 DEF StepOver
        <3>2. QED
            BY <1>1, <1>2, <1>5, <1>6, <2>1, <3>1, PositionStep
    <2>2. CASE current # LF
        <3>1. lineNo' = lineNo /\ column' = column + 1
            BY <2>2 DEF StepOver
        <3>2. QED
            BY <1>1, <1>2, <1>5, <1>6, <2>2, <3>1, PositionStep
    <2>3. QED
        BY <2>1, <2>2
<1>8. QED
    BY <1>2, <1>5, <1>7

LEMMA OffsetInText ==
    ASSUME TypeOK, ContextsTrue, NEW i \in 1..Len(contexts)
    PROVE  Offset(contexts[i]) \in Nat /\ Offset(contexts[i]) <= Len(text)
<1>1. IsPosition(text, Offset(contexts[i]), contexts[i].lineNo, contexts[i].column)
    BY DEF ContextsTrue
<1>2. text \in Seq(Char)
    BY DEF TypeOK
<1>3. QED
    BY <1>1, <1>2, PositionRange

\* peek() and tellg() set a bit only at the end of the text, and failbit without
\* eofbit only where it was so.
LEMMA BitsTrue ==
    ASSUME NEW s \in StreamType,
           s.fail => s.get = Len(text),
           s.eof => s.get = Len(text)
    PROVE  /\ AfterPeek(s).fail => s.get = Len(text)
           /\ AfterPeek(s).eof => s.get = Len(text)
           /\ AfterPeek(s).fail /\ ~AfterPeek(s).eof => s.fail /\ ~s.eof
           /\ AfterTell(s).fail => s.get = Len(text)
           /\ AfterTell(s).eof => s.get = Len(text)
           /\ AfterTell(s).fail /\ ~AfterTell(s).eof => s.fail /\ ~s.eof
<1>1. s.get \in 0..Len(text) /\ s.eof \in BOOLEAN /\ s.fail \in BOOLEAN
    BY DEF StreamType
<1>2. CASE Good(s)
    <2>1. /\ AfterPeek(s) = [s EXCEPT !.eof = (s.get = Len(text))]
          /\ AfterTell(s) = s
        BY <1>2 DEF AfterPeek, AfterTell
    <2>2. ~s.eof /\ ~s.fail
        BY <1>2 DEF Good
    <2>3. ~AfterPeek(s).fail /\ (AfterPeek(s).eof => s.get = Len(text))
        BY <2>1, <2>2 DEF StreamType
    <2>4. QED
        BY <2>1, <2>2, <2>3
<1>3. CASE ~Good(s)
    <2>1. /\ AfterPeek(s) = [s EXCEPT !.fail = TRUE]
          /\ AfterTell(s) = [s EXCEPT !.fail = TRUE]
        BY <1>3 DEF AfterPeek, AfterTell
    <2>2. [s EXCEPT !.fail = TRUE].eof = s.eof
        BY DEF StreamType
    <2>3. s.get = Len(text) /\ (~s.eof => s.fail)
        BY <1>3 DEF Good
    <2>4. QED
        BY <2>1, <2>2, <2>3
<1>4. QED
    BY <1>2, <1>3

LEMMA ContextsKept ==
    ASSUME ContextsTrue, UNCHANGED <<text, contexts>>
    PROVE  ContextsTrue'
BY DEF ContextsTrue, Offset

\* A step that leaves the offset alone and sets its bits as peek() does.
LEMMA StreamInvKept ==
    ASSUME StreamInv, UNCHANGED <<text, contexts>>,
           stream'.get = stream.get, index' = index \/ index' = 0,
           stream'.fail => stream.get = Len(text),
           stream'.eof => stream.get = Len(text),
           stream'.fail /\ ~stream'.eof => stream.fail /\ ~stream.eof
    PROVE  StreamInv'
<1>1. FailOnlyAtEnd' /\ EofOnlyAtEnd'
    BY DEF FailOnlyAtEnd, EofOnlyAtEnd
<1>2. MarkAtEnd'
    BY DEF StreamInv, MarkAtEnd, Offset
<1>3. FailKept'
    BY DEF StreamInv, FailKept, Offset
<1>4. QED
    BY <1>1, <1>2, <1>3 DEF StreamInv

\* A step that reads a character, or comes back with no bit set.
LEMMA StreamInvMoved ==
    ASSUME TypeOK, StreamInv, UNCHANGED <<text, contexts>>,
           stream.get < Len(text),
           stream'.eof => stream'.get = Len(text),
           ~stream'.fail
    PROVE  StreamInv'
<1>1. FailOnlyAtEnd' /\ EofOnlyAtEnd' /\ FailKept'
    BY DEF FailOnlyAtEnd, EofOnlyAtEnd, FailKept
<1>2. \A i \in 1..Len(contexts) : Offset(contexts[i]) # Len(text)
    BY DEF StreamInv, MarkAtEnd, TypeOK
<1>3. MarkAtEnd'
    BY <1>2 DEF MarkAtEnd, Offset
<1>4. QED
    BY <1>1, <1>3 DEF StreamInv

\* restore() seeks to the offset its context stands for.  The seek fails, and
\* leaves failbit, only for a context saved at the end, and only when it was
\* the last guard.
LEMMA SeekBack ==
    ASSUME TypeOK, ContextsTrue, StreamInv, contexts # <<>>,
           NEW ctx, ctx = contexts[Len(contexts)],
           NEW s, s = IF stream.eof THEN Clear(stream) ELSE stream,
           NEW r, r = SeekTo(s, ctx.bufferPosition)
    PROVE  /\ r \in StreamType
           /\ r.get = Offset(ctx)
           /\ ~r.eof
           /\ r.fail => Offset(ctx) = Len(text) /\ Len(contexts) = 1
<1>1. /\ Len(text) \in Nat /\ stream \in StreamType
      /\ contexts \in Seq(Context) /\ Len(contexts) \in Nat
    BY DEF TypeOK, StreamType
<1>2. Len(contexts) \in 1..Len(contexts) /\ ctx \in Context
    BY <1>1
<1>3. Offset(ctx) \in 0..Len(text)
    BY <1>1, <1>2, OffsetInText
<1>4. s \in StreamType /\ s.get = stream.get
    BY <1>1, StreamKept
<1>5. s.get \in 0..Len(text) /\ s.eof \in BOOLEAN /\ s.fail \in BOOLEAN
    BY <1>4 DEF StreamType
<1>6. r \in StreamType /\ ~r.eof
    BY <1>1, <1>4, StreamKept
<1>7. CASE s.fail
    <2>1. stream.fail /\ ~stream.eof
        BY <1>1, <1>7, StreamKept
    <2>2. Offset(ctx) = Len(text) /\ stream.get = Len(text) /\ Len(contexts) = 1
        BY <1>2, <2>1 DEF StreamInv, FailKept, MarkAtEnd
    <2>3. r.get = s.get
        BY <1>4, <1>7 DEF SeekTo, StreamType
    <2>4. QED
        BY <1>4, <1>6, <2>2, <2>3
<1>8. CASE ~s.fail /\ ctx.bufferPosition = NoPosition
    <2>1. Offset(ctx) = Len(text)
        BY <1>8 DEF Offset
    <2>2. stream.get = Len(text) /\ Len(contexts) = 1
        BY <1>2, <2>1 DEF StreamInv, MarkAtEnd
    <2>3. NoPosition \notin 0..Len(text)
        BY <1>1 DEF NoPosition
    <2>4. r.get = s.get
        BY <1>4, <1>8, <2>3 DEF SeekTo, StreamType
    <2>5. QED
        BY <1>4, <1>6, <2>1, <2>2, <2>4
<1>9. CASE ~s.fail /\ ctx.bufferPosition # NoPosition
    <2>1. Offset(ctx) = ctx.bufferPosition
        BY <1>9 DEF Offset
    <2>2. r = [s EXCEPT !.eof = FALSE, !.get = ctx.bufferPosition]
        BY <1>3, <1>9, <2>1 DEF SeekTo
    <2>3. r.get = ctx.bufferPosition /\ r.fail = s.fail
        BY <1>4, <2>2 DEF StreamType
    <2>4. QED
        BY <1>6, <1>9, <2>1, <2>3
<1>10. QED
    BY <1>7, <1>8, <1>9

\* A failed match() seeks back to where it began.
LEMMA BackupTrue ==
    ASSUME TypeInv, PositionTrue, MatchBackup
    PROVE  /\ stream'.get = stream.get - index
           /\ ~stream'.eof /\ ~stream'.fail
           /\ IsPosition(text, stream'.get, lineNo', column')
<1>1. /\ text \in Seq(Char) /\ Len(text) \in Nat /\ stream \in StreamType
      /\ index \in Nat /\ column \in Nat \ {0}
      /\ index <= stream.get /\ index <= column /\ column # index
    BY DEF TypeInv, TypeOK, StreamType, Behind, MatchBackup
<1> DEFINE c == Clear(stream)
<1>2. /\ c \in StreamType /\ c.get = stream.get /\ ~c.eof /\ ~c.fail
      /\ stream.get \in 0..Len(text)
    BY <1>1, StreamKept DEF StreamType
<1>3. stream.get - index \in 0..Len(text)
    BY <1>1, <1>2
<1>4. stream' = SeekTo(c, c.get - index)
    BY DEF MatchBackup
<1> HIDE DEF c
<1>5. stream' = [c EXCEPT !.eof = FALSE, !.get = stream.get - index]
    BY <1>2, <1>3, <1>4 DEF SeekTo
<1>6. stream'.get = stream.get - index /\ ~stream'.eof /\ ~stream'.fail
    BY <1>2, <1>5 DEF StreamType
<1>7. IsPosition(text, stream.get, lineNo, column)
    BY DEF PositionTrue, MatchBackup
<1>8. IsPosition(text, stream.get - index, lineNo, column - index)
    <2>1. column - index >= 1
        BY <1>1
    <2>2. QED
        BY <1>1, <1>7, <2>1, PositionBack
<1>9. QED
    BY <1>6, <1>8 DEF MatchBackup

LEMMA StepIInv ==
    ASSUME PlainUse
    PROVE  IInv /\ [Next]_vars => IInv'
<1> SUFFICES ASSUME IInv, [Next]_vars PROVE IInv'
    OBVIOUS
<1>0. /\ TypeInv /\ TypeOK /\ PositionTrue /\ ContextsTrue /\ StreamInv
      /\ MatchedPrefix /\ IsPlain(text)
      /\ stream \in StreamType
      /\ text \in Seq(Char) /\ Len(text) \in Nat
      /\ NoTarget \notin Targets
      /\ stream.fail => stream.get = Len(text)
      /\ stream.eof => stream.get = Len(text)
      /\ stream.get \in 0..Len(text)
    BY SourceAssumption DEF IInv, TypeInv, TypeOK, StreamInv, StreamType,
                            FailOnlyAtEnd, EofOnlyAtEnd, NoTarget
<1>a. TypeInv'
    BY StepTypeInv DEF IInv, PlainUse
<1>b. IsPlain(text)'
    BY <1>0 DEF Next, vars, NextStep, StepOver, NextPastEnd, LookForMore,
                MatchBegin, MatchNext, MatchBackup, MatchBackupThrows, save,
                restore, discardSave, reset
<1> SUFFICES PositionTrue' /\ ContextsTrue' /\ StreamInv' /\ MatchedPrefix'
    BY <1>a, <1>b DEF IInv
<1>1. CASE NextStep
    <2>1. /\ thrown = "no" /\ target = NoTarget
          /\ UNCHANGED <<text, contexts, thrown, target, index, began>>
          /\ StepOver
        BY <1>1 DEF NextStep, Idle, matching, StepOver
    <2>2. /\ stream'.get = stream.get + 1 /\ stream.get < Len(text)
          /\ stream'.eof => stream'.get = Len(text)
          /\ ~stream'.fail
          /\ IsPosition(text, stream'.get, lineNo', column')
        BY <1>0, <2>1, StepOverTrue
    <2>3. ContextsTrue'
        BY <1>0, <2>1, ContextsKept
    <2>4. StreamInv'
        BY <1>0, <2>1, <2>2, StreamInvMoved
    <2>5. QED
        BY <2>1, <2>2, <2>3, <2>4 DEF PositionTrue, MatchedPrefix
<1>2. CASE NextPastEnd
    <2>1. /\ target' = NoTarget /\ thrown' = "end"
          /\ stream' = AfterPeek(AfterPeek(stream))
          /\ UNCHANGED <<text, contexts, index>>
        BY <1>2 DEF NextPastEnd, Idle, matching
    <2> DEFINE s == AfterPeek(stream)
    <2>2. /\ s \in StreamType /\ s.get = stream.get
          /\ AfterPeek(s).get = s.get
        BY <1>0, StreamKept
    <2>3. /\ s.fail => s.get = Len(text)
          /\ s.eof => s.get = Len(text)
          /\ s.fail /\ ~s.eof => stream.fail /\ ~stream.eof
        BY <1>0, <2>2, BitsTrue
    <2> HIDE DEF s
    <2>4. /\ AfterPeek(s).fail => s.get = Len(text)
          /\ AfterPeek(s).eof => s.get = Len(text)
          /\ AfterPeek(s).fail /\ ~AfterPeek(s).eof => s.fail /\ ~s.eof
        BY <2>2, <2>3, BitsTrue
    <2>5. stream' = AfterPeek(s)
        BY <2>1 DEF s
    <2>6. StreamInv'
        BY <1>0, <2>1, <2>2, <2>3, <2>4, <2>5, StreamInvKept
    <2>7. ContextsTrue'
        BY <1>0, <2>1, ContextsKept
    <2>8. QED
        BY <2>1, <2>6, <2>7 DEF PositionTrue, MatchedPrefix
<1>3. CASE LookForMore
    <2>1. /\ target' = NoTarget /\ stream' = AfterPeek(stream)
          /\ UNCHANGED <<text, lineNo, column, contexts, index, thrown>>
        BY <1>3 DEF LookForMore, Idle, coordinates, matching
    <2>2. stream'.get = stream.get
        BY <1>0, <2>1, StreamKept
    <2>3. StreamInv'
        BY <1>0, <2>1, <2>2, BitsTrue, StreamInvKept
    <2>4. ContextsTrue'
        BY <1>0, <2>1, ContextsKept
    <2>5. QED
        BY <1>0, <2>1, <2>2, <2>3, <2>4 DEF PositionTrue, MatchedPrefix
<1>4. ASSUME NEW t \in Targets, MatchBegin(t)
      PROVE  PositionTrue' /\ ContextsTrue' /\ StreamInv' /\ MatchedPrefix'
    <2>1. /\ index' = 0 /\ began' = stream.get
          /\ UNCHANGED <<text, stream, lineNo, column, contexts, thrown>>
        BY <1>4 DEF MatchBegin, coordinates
    <2>2. StreamInv'
        <3>1. stream'.get = stream.get
            BY <2>1
        <3>2. QED
            BY <1>0, <2>1, <3>1, StreamInvKept
    <2>3. ContextsTrue'
        BY <1>0, <2>1, ContextsKept
    <2>4. MatchedPrefix'
        BY <1>0, <2>1 DEF MatchedPrefix
    <2>5. QED
        BY <1>0, <2>1, <2>2, <2>3, <2>4 DEF PositionTrue
<1>5. CASE MatchNext
    <2>1. /\ thrown = "no" /\ target # NoTarget /\ StepOver
          /\ UNCHANGED <<text, contexts, thrown, began>>
          /\ current = target[index + 1]
          /\ \/ target' = NoTarget
             \/ target' = target /\ index' = index + 1
        BY <1>5 DEF MatchNext, StepOver, Matches
    <2>2. /\ stream'.get = stream.get + 1 /\ stream.get < Len(text)
          /\ current = text[stream.get + 1]
          /\ stream'.eof => stream'.get = Len(text)
          /\ ~stream'.fail
          /\ IsPosition(text, stream'.get, lineNo', column')
        BY <1>0, <2>1, StepOverTrue
    <2>3. ContextsTrue'
        BY <1>0, <2>1, ContextsKept
    <2>4. StreamInv'
        BY <1>0, <2>1, <2>2, StreamInvMoved
    <2>5. MatchedPrefix'
        <3>1. CASE target' = NoTarget
            BY <3>1 DEF MatchedPrefix
        <3>2. CASE target' = target /\ index' = index + 1
            <4>1. /\ index \in Nat /\ began \in Nat
                  /\ stream.get = began + index
                  /\ \A i \in 1..index : target[i] = text[began + i]
                BY <1>0, <2>1 DEF MatchedPrefix, TypeOK
            <4>2. target[index + 1] = text[began + (index + 1)]
                BY <2>1, <2>2, <4>1
            <4>3. \A i \in 1..(index + 1) : target[i] = text[began + i]
                BY <4>1, <4>2
            <4>4. stream'.get = began + (index + 1)
                BY <2>2, <4>1
            <4>5. QED
                BY <2>1, <3>2, <4>3, <4>4 DEF MatchedPrefix
        <3>3. QED
            BY <2>1, <3>1, <3>2
    <2>6. QED
        BY <2>1, <2>2, <2>3, <2>4, <2>5 DEF PositionTrue
<1>6. CASE MatchBackup
    <2>1. /\ stream'.get = stream.get - index
          /\ ~stream'.eof /\ ~stream'.fail
          /\ IsPosition(text, stream'.get, lineNo', column')
        BY <1>0, <1>6, BackupTrue
    <2>2. /\ target' = NoTarget /\ index' = 0
          /\ UNCHANGED <<text, contexts, thrown>>
        BY <1>6 DEF MatchBackup
    <2>3. ContextsTrue'
        BY <1>0, <2>2, ContextsKept
    <2>4. StreamInv'
        <3>1. FailOnlyAtEnd' /\ EofOnlyAtEnd' /\ FailKept'
            BY <2>1 DEF FailOnlyAtEnd, EofOnlyAtEnd, FailKept
        <3>2. MarkAtEnd'
            BY <1>0, <2>1, <2>2 DEF StreamInv, MarkAtEnd, Offset
        <3>3. QED
            BY <3>1, <3>2 DEF StreamInv
    <2>5. QED
        BY <2>1, <2>2, <2>3, <2>4 DEF PositionTrue, MatchedPrefix
<1>7. CASE MatchBackupThrows
    <2>1. /\ stream' = AfterPeek(stream) /\ thrown = "no"
          /\ UNCHANGED <<text, lineNo, column, contexts, target, index, began>>
        BY <1>7 DEF MatchBackupThrows, coordinates, matching
    <2>2. stream'.get = stream.get
        BY <1>0, <2>1, StreamKept
    <2>3. StreamInv'
        BY <1>0, <2>1, <2>2, BitsTrue, StreamInvKept
    <2>4. ContextsTrue'
        BY <1>0, <2>1, ContextsKept
    <2>5. QED
        BY <1>0, <2>1, <2>2, <2>3, <2>4 DEF PositionTrue, MatchedPrefix
<1>8. CASE save
    <2> DEFINE ctx == [lineNo |-> lineNo, column |-> column,
                       bufferPosition |-> Tell(stream)]
    <2>1. /\ contexts' = Append(contexts, ctx)
          /\ thrown = "no" /\ target = NoTarget /\ index = 0
          /\ more \/ contexts = <<>>
          /\ stream' = AfterTell(stream)
          /\ UNCHANGED <<text, lineNo, column, target, index, thrown>>
        BY <1>0, <1>8 DEF save, Idle, coordinates, matching, PlainUse, TypeOK
    <2>2. ctx \in Context
        BY <1>0, StreamKept DEF Context, TypeOK
    <2>3. /\ Len(contexts') = Len(contexts) + 1 /\ Len(contexts) \in Nat
          /\ \A i \in 1..Len(contexts) : contexts'[i] = contexts[i]
          /\ contexts'[Len(contexts) + 1] = ctx
        BY <1>0, <2>1, <2>2 DEF TypeOK
    <2>4. stream'.get = stream.get
        BY <1>0, <2>1, StreamKept
    <2>5. Offset(ctx) = stream.get
        BY <1>0 DEF Offset, Tell, Good, NoPosition
    <2>6. ASSUME NEW i \in 1..Len(contexts')
          PROVE  \/ i = Len(contexts) + 1 /\ contexts'[i] = ctx
                 \/ i \in 1..Len(contexts) /\ contexts'[i] = contexts[i]
        BY <2>3
    <2>7. ContextsTrue'
        <3>1. IsPosition(text, Offset(ctx), lineNo, column)
            BY <1>0, <2>1, <2>5 DEF PositionTrue
        <3> HIDE DEF ctx
        <3>2. ctx.lineNo = lineNo /\ ctx.column = column
            BY DEF ctx
        <3>3. ASSUME NEW i \in 1..Len(contexts')
              PROVE  IsPosition(text, Offset(contexts'[i]), contexts'[i].lineNo,
                                contexts'[i].column)
            BY <1>0, <2>6, <3>1, <3>2 DEF ContextsTrue
        <3>4. QED
            BY <2>1, <3>3 DEF ContextsTrue, Offset
    <2>8. stream.get = Len(text) => contexts = <<>>
        BY <1>0, <2>1, MoreToRead
    <2>9. \A i \in 1..Len(contexts) : Offset(contexts[i]) # Len(text)
        BY <1>0, <2>8 DEF StreamInv, MarkAtEnd
    <2>10. /\ stream'.fail => stream.get = Len(text)
           /\ stream'.eof => stream.get = Len(text)
        BY <1>0, <2>1, BitsTrue
    <2>11. FailOnlyAtEnd' /\ EofOnlyAtEnd'
        BY <2>1, <2>4, <2>10 DEF FailOnlyAtEnd, EofOnlyAtEnd
    <2> HIDE DEF ctx
    <2>12. MarkAtEnd'
        <3>1. ASSUME NEW i \in 1..Len(contexts'),
                     Offset(contexts'[i]) = Len(text)
              PROVE  stream'.get = Len(text) /\ index' = 0 /\ Len(contexts') = 1
            BY <2>1, <2>3, <2>4, <2>5, <2>6, <2>8, <2>9, <3>1
        <3>2. QED
            BY <2>1, <3>1 DEF MarkAtEnd, Offset
    <2>13. FailKept'
        <3>1. ASSUME stream'.fail, NEW i \in 1..Len(contexts')
              PROVE  Offset(contexts'[i]) = Len(text)
            <4>1. contexts = <<>> /\ stream.get = Len(text)
                BY <2>8, <2>10, <3>1
            <4>2. QED
                BY <2>5, <2>6, <4>1
        <3>2. QED
            BY <2>1, <3>1 DEF FailKept, Offset
    <2>14. PositionTrue' /\ MatchedPrefix'
        BY <1>0, <2>1, <2>4 DEF PositionTrue, MatchedPrefix
    <2>15. QED
        BY <2>7, <2>11, <2>12, <2>13, <2>14 DEF StreamInv
<1>9. CASE restore
    <2> DEFINE ctx == contexts[Len(contexts)]
               s == IF stream.eof THEN Clear(stream) ELSE stream
               r == SeekTo(s, ctx.bufferPosition)
    <2>1. /\ contexts # <<>> /\ contexts' = SubSeq(contexts, 1, Len(contexts) - 1)
          /\ lineNo' = ctx.lineNo /\ column' = ctx.column
          /\ stream' = AfterTell(r)
          /\ target' = NoTarget /\ index' = 0
          /\ UNCHANGED <<text, began>>
        BY <1>9 DEF restore
    <2>2. /\ Len(contexts') = Len(contexts) - 1 /\ Len(contexts) \in Nat \ {0}
          /\ \A i \in 1..Len(contexts') : contexts'[i] = contexts[i]
        BY <1>0, <2>1, PopContexts
    <2>3. /\ r \in StreamType /\ r.get = Offset(ctx) /\ ~r.eof
          /\ r.fail => Offset(ctx) = Len(text) /\ Len(contexts) = 1
        BY <1>0, <2>1, SeekBack
    <2>4. IsPosition(text, Offset(ctx), ctx.lineNo, ctx.column)
        BY <1>0, <2>2 DEF ContextsTrue
    <2> HIDE DEF ctx, s, r
    <2>5. /\ stream'.get = Offset(ctx)
          /\ stream'.fail => r.fail
          /\ ~stream'.eof
        BY <1>0, <2>1, <2>3, StreamKept DEF AfterTell, Good
    <2>6. ContextsTrue'
        BY <1>0, <2>1, <2>2 DEF ContextsTrue, Offset
    <2>7. FailOnlyAtEnd' /\ EofOnlyAtEnd'
        BY <2>1, <2>3, <2>5 DEF FailOnlyAtEnd, EofOnlyAtEnd
    <2>8. MarkAtEnd'
        <3>1. ASSUME NEW i \in 1..Len(contexts')
              PROVE  Offset(contexts[i]) # Len(text)
            BY <1>0, <2>2 DEF StreamInv, MarkAtEnd
        <3>2. QED
            BY <2>1, <2>2, <3>1 DEF MarkAtEnd, Offset
    <2>9. FailKept'
        BY <2>2, <2>3, <2>5 DEF FailKept
    <2>10. PositionTrue' /\ MatchedPrefix'
        BY <2>1, <2>4, <2>5 DEF PositionTrue, MatchedPrefix
    <2>11. QED
        BY <2>6, <2>7, <2>8, <2>9, <2>10 DEF StreamInv
<1>10. CASE discardSave
    <2>1. /\ contexts # <<>> /\ contexts' = SubSeq(contexts, 1, Len(contexts) - 1)
          /\ UNCHANGED <<text, stream, lineNo, column, target, index, began, thrown>>
        BY <1>10 DEF discardSave, coordinates, matching
    <2>2. /\ Len(contexts') = Len(contexts) - 1 /\ Len(contexts) \in Nat \ {0}
          /\ \A i \in 1..Len(contexts') : contexts'[i] = contexts[i]
        BY <1>0, <2>1, PopContexts
    <2>3. ContextsTrue'
        BY <1>0, <2>1, <2>2 DEF ContextsTrue, Offset
    <2>4. MarkAtEnd'
        <3>1. ASSUME NEW i \in 1..Len(contexts')
              PROVE  Offset(contexts[i]) # Len(text)
            BY <1>0, <2>2 DEF StreamInv, MarkAtEnd
        <3>2. QED
            BY <2>1, <2>2, <3>1 DEF MarkAtEnd, Offset
    <2>5. FailKept' /\ FailOnlyAtEnd' /\ EofOnlyAtEnd'
        BY <1>0, <2>1, <2>2 DEF StreamInv, FailKept, FailOnlyAtEnd, EofOnlyAtEnd, Offset
    <2>6. PositionTrue' /\ MatchedPrefix'
        BY <1>0, <2>1 DEF PositionTrue, MatchedPrefix
    <2>7. QED
        BY <2>3, <2>4, <2>5, <2>6 DEF StreamInv
<1>11. CASE reset
    <2> DEFINE c == Clear(stream)
    <2>1. /\ contexts = <<>> /\ contexts' = <<>> /\ text' = text
          /\ lineNo' = 1 /\ column' = 1 /\ target' = NoTarget
          /\ stream' = SeekTo(c, 0)
        BY <1>11 DEF reset
    <2>2. c \in StreamType /\ ~c.fail /\ 0 \in 0..Len(text)
        BY <1>0, StreamKept
    <2> HIDE DEF c
    <2>3. stream' = [c EXCEPT !.eof = FALSE, !.get = 0]
        BY <2>1, <2>2 DEF SeekTo
    <2>4. stream'.get = 0 /\ ~stream'.eof /\ ~stream'.fail
        BY <2>2, <2>3 DEF StreamType
    <2>5. IsPosition(text, 0, 1, 1)
        BY <1>0, PositionZero
    <2>6. ContextsTrue' /\ MarkAtEnd' /\ FailKept'
        BY <2>1 DEF ContextsTrue, MarkAtEnd, FailKept
    <2>7. QED
        BY <2>1, <2>4, <2>5, <2>6
        DEF PositionTrue, MatchedPrefix, StreamInv, FailOnlyAtEnd, EofOnlyAtEnd
<1>12. CASE UNCHANGED vars
    BY <1>0, <1>12 DEF vars, PositionTrue, ContextsTrue, StreamInv, MatchedPrefix,
                       FailOnlyAtEnd, EofOnlyAtEnd, MarkAtEnd, FailKept, Offset
<1>13. QED
    BY <1>1, <1>2, <1>3, <1>4, <1>5, <1>6, <1>7, <1>8, <1>9, <1>10, <1>11,
       <1>12 DEF Next

\* The line and column StreamSource keeps are those of the byte its stream will
\* deliver next, through every seek of restore() and of a failed match().
THEOREM StreamPositionCorrect == PlainUse => (Spec => []PositionTrue)
<1> SUFFICES ASSUME PlainUse PROVE Spec => []PositionTrue
    OBVIOUS
<1>1. (Init => IInv) /\ (IInv /\ [Next]_vars => IInv')
    BY InitIInv, StepIInv
<1>2. IInv => PositionTrue
    BY DEF IInv
<1>3. QED
    BY <1>1, <1>2, PTL DEF Spec

\* What is saved is a position of the text, however guards were nested, left by a
\* match that failed or unwound by an exception before.
THEOREM StreamContextsCorrect == PlainUse => (Spec => []ContextsTrue)
<1> SUFFICES ASSUME PlainUse PROVE Spec => []ContextsTrue
    OBVIOUS
<1>1. (Init => IInv) /\ (IInv /\ [Next]_vars => IInv')
    BY InitIInv, StepIInv
<1>2. IInv => ContextsTrue
    BY DEF IInv
<1>3. QED
    BY <1>1, <1>2, PTL DEF Spec

\* failbit, which only clear() removes, is set at the end of the text or not at
\* all: no sequence of looks, guards and failed matches leaves text unread.
THEOREM FailOnlyAtEndCorrect == PlainUse => (Spec => []FailOnlyAtEnd)
<1> SUFFICES ASSUME PlainUse PROVE Spec => []FailOnlyAtEnd
    OBVIOUS
<1>1. (Init => IInv) /\ (IInv /\ [Next]_vars => IInv')
    BY InitIInv, StepIInv
<1>2. IInv => FailOnlyAtEnd
    BY DEF IInv, StreamInv
<1>3. QED
    BY <1>1, <1>2, PTL DEF Spec

\* restore() brings the stream back to where the matching save() was called.
THEOREM RestoreCorrect == PlainUse => (Spec => RestoreSeeksBack)
<1> SUFFICES ASSUME PlainUse PROVE Spec => RestoreSeeksBack
    OBVIOUS
<1>1. (Init => IInv) /\ (IInv /\ [Next]_vars => IInv')
    BY InitIInv, StepIInv
<1>2. ASSUME IInv, restore
      PROVE  stream'.get = Offset(contexts[Len(contexts)])
    <2> DEFINE ctx == contexts[Len(contexts)]
               s == IF stream.eof THEN Clear(stream) ELSE stream
               r == SeekTo(s, ctx.bufferPosition)
    <2>1. contexts # <<>> /\ stream' = AfterTell(r) /\ Len(text) \in Nat
        BY <1>2 DEF restore, IInv, TypeInv, TypeOK
    <2>2. r \in StreamType /\ r.get = Offset(ctx)
        BY <1>2, <2>1, SeekBack DEF IInv, TypeInv
    <2>3. QED
        BY <2>1, <2>2, StreamKept
<1>3. IInv /\ [Next]_vars =>
         [restore => stream'.get = Offset(contexts[Len(contexts)])]_vars
    BY <1>2
<1>4. QED
    BY <1>1, <1>3, PTL DEF Spec, RestoreSeeksBack
-----------------------------------------------------------------------------
(* StreamSource implements Source: a match in progress is not visible, and  *)
(* the state bits of the stream are not either.                             *)

Cursor == IF target = NoTarget THEN stream.get ELSE began

LEMMA InitRefines == Init => Abstract!Init
BY SourceAssumption DEF Init, Abstract!Init

\* The marks are those of the contexts that stay when the innermost is popped.
LEMMA PopMarks ==
    ASSUME TypeOK, ContextsTrue, contexts # <<>>, text' = text,
           contexts' = SubSeq(contexts, 1, Len(contexts) - 1)
    PROVE  /\ Marks # <<>>
           /\ Marks' = SubSeq(Marks, 1, Len(Marks) - 1)
           /\ Marks[Len(Marks)] = Offset(contexts[Len(contexts)])
<1>1. /\ Len(contexts') = Len(contexts) - 1
      /\ Len(contexts) \in Nat \ {0}
      /\ \A i \in 1..Len(contexts') : contexts'[i] = contexts[i]
    BY PopContexts
<1> DEFINE n == Len(contexts) - 1
<1>2. n \in Nat /\ Len(contexts) = n + 1 /\ Len(contexts') = n
    BY <1>1
<1> HIDE DEF n
<1>3. \A i \in 1..(n + 1) : Offset(contexts[i]) \in Nat
    BY <1>2, OffsetInText
<1>4. Marks \in [1..(n + 1) -> Nat]
    BY <1>2, <1>3 DEF Marks
<1>5. Len(Marks) = n + 1 /\ Marks # <<>>
    BY <1>2, <1>4, PopOffsets
<1>6. SubSeq(Marks, 1, Len(Marks) - 1) = [i \in 1..n |-> Marks[i]]
    BY <1>2, <1>4, PopOffsets
<1>7. Marks' = [i \in 1..n |-> Marks[i]]
    BY <1>1, <1>2 DEF Marks, Offset
<1>8. Marks[Len(Marks)] = Offset(contexts[Len(contexts)])
    BY <1>2, <1>5 DEF Marks
<1>9. QED
    BY <1>5, <1>6, <1>7, <1>8

LEMMA StepRefines ==
    ASSUME PlainUse
    PROVE  IInv /\ [Next]_vars => [Abstract!Next]_Abstract!vars
<1> SUFFICES ASSUME IInv, [Next]_vars
             PROVE  [Abstract!Next]_Abstract!vars
    OBVIOUS
<1>0. /\ TypeInv /\ TypeOK /\ PositionTrue /\ ContextsTrue /\ StreamInv
      /\ MatchedPrefix /\ IsPlain(text)
      /\ stream \in StreamType
      /\ text \in Seq(Char) /\ Len(text) \in Nat
      /\ stream.get \in 0..Len(text) /\ began \in 0..Len(text)
      /\ index \in Nat /\ (target = NoTarget => index = 0)
    BY DEF IInv, TypeInv, TypeOK, StreamType
<1>1. CASE NextStep
    <2>1. /\ thrown = "no" /\ target = NoTarget /\ StepOver
          /\ UNCHANGED <<text, contexts, target, began>>
        BY <1>1 DEF NextStep, Idle, matching, StepOver
    <2>2. stream'.get = stream.get + 1 /\ stream.get < Len(text)
        BY <1>0, <2>1, StepOverTrue
    <2>3. text[stream.get + 1] \notin Forbidden
        BY <1>0, <2>2 DEF IsPlain
    <2>4. UNCHANGED Marks
        BY <2>1 DEF Marks, Offset
    <2>5. Abstract!Advance
        BY <2>1, <2>2, <2>3, <2>4 DEF Abstract!Advance, Marks
    <2>6. QED
        BY <2>5 DEF Abstract!Next
<1>2. CASE NextPastEnd \/ LookForMore \/ MatchBackupThrows
    <2>1. /\ stream' \in {AfterPeek(stream), AfterPeek(AfterPeek(stream))}
          /\ UNCHANGED <<text, contexts, target, began>>
        BY <1>2 DEF NextPastEnd, LookForMore, MatchBackupThrows, matching
    <2>2. AfterPeek(stream) \in StreamType /\ AfterPeek(stream).get = stream.get
        BY <1>0, StreamKept
    <2>3. AfterPeek(AfterPeek(stream)).get = stream.get
        BY <1>0, <2>2, StreamKept
    <2>4. stream'.get = stream.get
        BY <2>1, <2>2, <2>3
    <2>5. UNCHANGED Marks
        BY <2>1 DEF Marks, Offset
    <2>6. QED
        BY <2>1, <2>4, <2>5 DEF Abstract!vars, Marks
<1>3. ASSUME NEW t \in Targets, MatchBegin(t)
      PROVE  UNCHANGED Abstract!vars
    <2>1. /\ began' = stream.get /\ target = NoTarget
          /\ UNCHANGED <<text, stream, contexts>>
        BY <1>3 DEF MatchBegin, Idle
    <2>2. UNCHANGED Marks
        BY <2>1 DEF Marks, Offset
    <2>3. QED
        BY <2>1, <2>2 DEF Abstract!vars, Marks
<1>4. CASE MatchNext
    <2>1. /\ thrown = "no" /\ target # NoTarget /\ StepOver
          /\ UNCHANGED <<text, contexts, began>>
          /\ current = target[index + 1]
        BY <1>4 DEF MatchNext, StepOver, Matches
    <2>2. /\ stream'.get = stream.get + 1 /\ stream.get < Len(text)
          /\ current = text[stream.get + 1]
        BY <1>0, <2>1, StepOverTrue
    <2>3. /\ stream.get = began + index
          /\ \A i \in 1..index : target[i] = text[began + i]
        BY <1>0, <2>1 DEF MatchedPrefix
    <2>4. UNCHANGED Marks
        BY <2>1 DEF Marks, Offset
    <2>5. CASE index + 1 = Len(target)
        <3>1. target' = NoTarget
            BY <1>4, <2>5 DEF MatchNext
        <3>2. \A i \in 1..Len(target) : text[began + i] = target[i]
            <4>1. began \in Nat /\ stream.get + 1 = began + (index + 1)
                BY <1>0, <2>3
            <4>2. text[began + (index + 1)] = target[index + 1]
                BY <2>1, <2>2, <4>1
            <4>3. \A i \in 1..(index + 1) : text[began + i] = target[i]
                BY <1>0, <2>3, <4>1, <4>2
            <4>4. QED
                BY <2>5, <4>3
        <3>3. /\ began + Len(target) <= Len(text)
              /\ stream'.get = began + Len(target)
            <4>1. /\ began \in Nat /\ stream.get \in Nat
                  /\ stream.get + 1 = began + (index + 1)
                BY <1>0, <2>3
            <4>2. stream.get + 1 <= Len(text)
                BY <1>0, <2>2, <4>1
            <4>3. QED
                BY <2>2, <2>5, <4>1, <4>2
        <3>4. target \in Targets
            BY <1>0, <2>1 DEF TypeOK
        <3>5. Abstract!Consume(target)
            BY <2>1, <2>4, <3>1, <3>2, <3>3 DEF Abstract!Consume, Marks
        <3>6. QED
            BY <3>4, <3>5 DEF Abstract!Next
    <2>6. CASE index + 1 # Len(target)
        <3>1. target' = target
            BY <1>4, <2>6 DEF MatchNext
        <3>2. UNCHANGED Abstract!vars
            BY <2>1, <2>4, <3>1 DEF Abstract!vars, Marks
        <3>3. QED
            BY <3>2
    <2>7. QED
        BY <2>5, <2>6
<1>5. CASE MatchBackup
    <2>1. /\ target # NoTarget /\ target' = NoTarget
          /\ UNCHANGED <<text, contexts>>
        BY <1>5 DEF MatchBackup
    <2>2. stream'.get = stream.get - index
        BY <1>0, <1>5, BackupTrue
    <2>3. stream'.get = began
        BY <1>0, <2>1, <2>2 DEF MatchedPrefix
    <2>4. UNCHANGED Marks
        BY <2>1 DEF Marks, Offset
    <2>5. QED
        BY <2>1, <2>3, <2>4 DEF Abstract!vars, Marks
<1>6. CASE save
    <2> DEFINE ctx == [lineNo |-> lineNo, column |-> column,
                       bufferPosition |-> Tell(stream)]
    <2>1. /\ contexts' = Append(contexts, ctx) /\ Len(contexts) < MaxMarks
          /\ target = NoTarget /\ stream' = AfterTell(stream)
          /\ UNCHANGED <<text, target, began>>
        BY <1>6 DEF save, Idle, matching
    <2>2. ctx \in Context
        BY <1>0, StreamKept DEF Context, TypeOK
    <2>3. /\ Len(contexts') = Len(contexts) + 1 /\ Len(contexts) \in Nat
          /\ \A i \in 1..Len(contexts) : contexts'[i] = contexts[i]
          /\ contexts'[Len(contexts) + 1] = ctx
        BY <1>0, <2>1, <2>2 DEF TypeOK
    <2>4. stream'.get = stream.get
        BY <1>0, <2>1, StreamKept
    <2>5. Offset(ctx) = stream.get
        BY <1>0 DEF Offset, Tell, Good, NoPosition, StreamInv, FailOnlyAtEnd,
                    EofOnlyAtEnd
    <2> HIDE DEF ctx
    <2>6. Marks \in Seq(Nat) /\ Len(Marks) = Len(contexts)
        <3>1. \A i \in 1..Len(contexts) : Offset(contexts[i]) \in Nat
            BY <1>0, OffsetInText
        <3>2. QED
            BY <2>3, <3>1 DEF Marks
    <2>7. Marks' = Append(Marks, stream.get)
        <3>1. Marks' = [i \in 1..(Len(contexts) + 1) |-> Offset(contexts'[i])]
            BY <2>1, <2>3 DEF Marks, Offset
        <3>2. \A i \in 1..Len(contexts) : Offset(contexts'[i]) = Marks[i]
            BY <2>3 DEF Marks
        <3>3. Offset(contexts'[Len(contexts) + 1]) = stream.get
            BY <2>3, <2>5
        <3>4. QED
            BY <1>0, <2>3, <2>6, <3>1, <3>2, <3>3
    <2>8. Abstract!Save
        BY <2>1, <2>4, <2>6, <2>7 DEF Abstract!Save, Marks
    <2>9. QED
        BY <2>8 DEF Abstract!Next
<1>7. CASE restore
    <2> DEFINE ctx == contexts[Len(contexts)]
               s == IF stream.eof THEN Clear(stream) ELSE stream
               r == SeekTo(s, ctx.bufferPosition)
    <2>1. /\ contexts # <<>> /\ contexts' = SubSeq(contexts, 1, Len(contexts) - 1)
          /\ stream' = AfterTell(r) /\ target' = NoTarget /\ text' = text
        BY <1>7 DEF restore
    <2>2. r \in StreamType /\ r.get = Offset(ctx)
        BY <1>0, <2>1, SeekBack
    <2>3. stream'.get = Offset(ctx)
        BY <1>0, <2>1, <2>2, StreamKept
    <2>4. /\ Marks # <<>>
          /\ Marks' = SubSeq(Marks, 1, Len(Marks) - 1)
          /\ Marks[Len(Marks)] = Offset(ctx)
        BY <1>0, <2>1, PopMarks
    <2>5. Abstract!Restore
        BY <2>1, <2>3, <2>4 DEF Abstract!Restore, Marks
    <2>6. QED
        BY <2>5 DEF Abstract!Next
<1>8. CASE discardSave
    <2>1. /\ contexts # <<>> /\ contexts' = SubSeq(contexts, 1, Len(contexts) - 1)
          /\ UNCHANGED <<text, stream, target, began>>
        BY <1>8 DEF discardSave, matching
    <2>2. Marks # <<>> /\ Marks' = SubSeq(Marks, 1, Len(Marks) - 1)
        BY <1>0, <2>1, PopMarks
    <2>3. Abstract!DiscardSave
        BY <2>1, <2>2 DEF Abstract!DiscardSave, Marks
    <2>4. QED
        BY <2>3 DEF Abstract!Next
<1>9. CASE reset
    <2> DEFINE c == Clear(stream)
    <2>1. /\ contexts = <<>> /\ contexts' = <<>> /\ text' = text
          /\ target' = NoTarget /\ stream' = SeekTo(c, 0)
        BY <1>9 DEF reset
    <2>2. c \in StreamType /\ ~c.fail /\ 0 \in 0..Len(text)
        BY <1>0, StreamKept
    <2> HIDE DEF c
    <2>3. stream'.get = 0
        BY <2>1, <2>2 DEF SeekTo, StreamType
    <2>4. Marks = <<>> /\ Marks' = <<>>
        BY <2>1 DEF Marks
    <2>5. Abstract!Reset
        BY <2>1, <2>3, <2>4 DEF Abstract!Reset, Marks
    <2>6. QED
        BY <2>5 DEF Abstract!Next
<1>10. CASE UNCHANGED vars
    BY <1>10 DEF vars, Abstract!vars, Offset
<1>11. QED
    BY <1>1, <1>2, <1>3, <1>4, <1>5, <1>6, <1>7, <1>8, <1>9, <1>10 DEF Next

\* Whatever is read through a StreamSource is read through a Source, as it is
\* through a buffer: restore() returns to the mark of its save(), although that
\* mark may be the -1 tellg() answers at the end, and a failed match() has not
\* moved.
THEOREM StreamImplementsSource == PlainUse => (Spec => RefinesSource)
<1> SUFFICES ASSUME PlainUse PROVE Spec => RefinesSource
    OBVIOUS
<1>1. (Init => IInv) /\ (IInv /\ [Next]_vars => IInv')
    BY InitIInv, StepIInv
<1>2. IInv /\ [Next]_vars => [Abstract!Next]_Abstract!vars
    BY StepRefines
<1>3. QED
    BY <1>1, <1>2, InitRefines, PTL DEF Spec, RefinesSource, Abstract!Spec
=============================================================================
