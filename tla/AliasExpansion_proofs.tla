----------------------- MODULE AliasExpansion_proofs -----------------------
(***************************************************************************)
(* For every set of names and texts, every contents and every limit: the   *)
(* marks of active aliases and the depth counter follow the stack of       *)
(* nested parses, on every return, exception, document and parse; and the  *)
(* map holds every text that is being expanded.                            *)
(***************************************************************************)
EXTENDS AliasExpansion, SequenceTheorems, WellFoundedInduction, TLAPS

\* resetDocumentState() runs between documents: no text is still being parsed.
DoneIsUnwound == status = "done" => stack = <<>>

IInv ==
    /\ TypeOK
    /\ ActiveAreExpanding
    /\ DepthBalanced
    /\ DepthBounded
    /\ DoneIsUnwound

\* The part of IInv' that the outcome of a node decides.
Shape ==
    /\ stack \in Seq(Frame)
    /\ parseDepth \in Nat
    /\ status \in Errors \union {"parsing", "done"}
    /\ ActiveAreExpanding
    /\ DepthBalanced
    /\ DepthBounded
    /\ DoneIsUnwound
-----------------------------------------------------------------------------
\* The node parseDocument() dispatches on is a node of the text on top.
LEMMA ThisIsNode ==
    ASSUME TypeOK, stack # <<>>, Top.at <= Len(contents[Top.text])
    PROVE  Top \in Frame /\ This \in Node
<1>1. Len(stack) \in Nat \ {0} /\ stack \in Seq(Frame)
  BY DEF TypeOK
<1>2. Top \in Frame
  BY <1>1 DEF Top
<1>3. Top.text \in Text /\ Top.at \in Nat \ {0}
  BY <1>2 DEF Frame
<1>4. contents[Top.text] \in Seq(Node)
  BY <1>3 DEF TypeOK
<1> QED
  BY <1>2, <1>3, <1>4 DEF This

\* Passing a node advances the frame on top and touches nothing else of it.
LEMMA PassedStack ==
    ASSUME TypeOK, stack # <<>>
    PROVE  /\ Passed \in Seq(Frame)
           /\ Len(Passed) = Len(stack)
           /\ \A i \in 1..Len(stack) : /\ Passed[i].name = stack[i].name
                                       /\ Passed[i].via = stack[i].via
<1>1. Len(stack) \in Nat \ {0} /\ stack \in Seq(Frame)
  BY DEF TypeOK
<1>2. stack[Len(stack)] \in Frame
  BY <1>1
<1>3. [stack[Len(stack)] EXCEPT !.at = @ + 1] \in Frame
  BY <1>2 DEF Frame
<1>4. Passed = [stack EXCEPT ![Len(stack)] =
                    [stack[Len(stack)] EXCEPT !.at = @ + 1]]
  BY DEF Passed
<1>5. Passed \in Seq(Frame) /\ Len(Passed) = Len(stack)
  BY <1>1, <1>3, <1>4
<1>6. ASSUME NEW i \in 1..Len(stack)
      PROVE  Passed[i].name = stack[i].name /\ Passed[i].via = stack[i].via
  <2>1. CASE i = Len(stack)
    BY <1>1, <1>2, <1>4, <2>1 DEF Frame
  <2>2. CASE i # Len(stack)
    BY <1>1, <1>4, <2>2
  <2> QED
    BY <2>1, <2>2
<1> QED
  BY <1>5, <1>6

\* A step that keeps the names and the ways of the frames keeps the invariant on
\* the active names.
LEMMA SameFramesSameActive ==
    ASSUME TypeOK, ActiveAreExpanding,
           Len(stack') = Len(stack),
           \A i \in 1..Len(stack) : /\ stack'[i].name = stack[i].name
                                    /\ stack'[i].via = stack[i].via,
           activeAliasExpansions' = activeAliasExpansions
    PROVE  ActiveAreExpanding'
BY DEF ActiveAreExpanding, AliasFrames

\* A frame that is no alias's is pushed: the active names stay.
LEMMA PushOther ==
    ASSUME TypeOK, ActiveAreExpanding, stack # <<>>,
           NEW f \in Frame, f.via # "alias",
           stack' = Append(Passed, f),
           activeAliasExpansions' = activeAliasExpansions
    PROVE  ActiveAreExpanding'
<1>1. /\ Passed \in Seq(Frame) /\ Len(Passed) = Len(stack) /\ Len(stack) \in Nat
      /\ \A i \in 1..Len(stack) : /\ Passed[i].name = stack[i].name
                                  /\ Passed[i].via = stack[i].via
  BY PassedStack DEF TypeOK
<1>2. Len(stack') = Len(stack) + 1 /\ stack'[Len(stack) + 1] = f
  BY <1>1
<1>3. \A i \in 1..Len(stack) : /\ stack'[i].name = stack[i].name
                               /\ stack'[i].via = stack[i].via
  BY <1>1
<1>4. AliasFrames' = AliasFrames
  BY <1>1, <1>2, <1>3 DEF AliasFrames
<1>5. \A i \in AliasFrames : stack'[i].name = stack[i].name
  BY <1>3 DEF AliasFrames
<1>6. {stack'[i].name : i \in AliasFrames'} = {stack[i].name : i \in AliasFrames}
  BY <1>4, <1>5
<1>7. ASSUME NEW i \in AliasFrames', NEW j \in AliasFrames',
             stack'[i].name = stack'[j].name
      PROVE  i = j
  <2>1. stack[i].name = stack[j].name /\ i \in AliasFrames /\ j \in AliasFrames
    BY <1>4, <1>5, <1>7
  <2> QED
    BY <2>1 DEF ActiveAreExpanding
<1> QED
  BY <1>6, <1>7 DEF ActiveAreExpanding

\* An alias whose name is not active is pushed and its name is marked.
LEMMA PushAlias ==
    ASSUME TypeOK, ActiveAreExpanding, stack # <<>>,
           NEW f \in Frame, f.via = "alias",
           f.name \notin activeAliasExpansions,
           stack' = Append(Passed, f),
           activeAliasExpansions' = activeAliasExpansions \union {f.name}
    PROVE  ActiveAreExpanding'
<1>1. /\ Passed \in Seq(Frame) /\ Len(Passed) = Len(stack) /\ Len(stack) \in Nat
      /\ \A i \in 1..Len(stack) : /\ Passed[i].name = stack[i].name
                                  /\ Passed[i].via = stack[i].via
  BY PassedStack DEF TypeOK
<1>2. Len(stack') = Len(stack) + 1 /\ stack'[Len(stack) + 1] = f
  BY <1>1
<1>3. \A i \in 1..Len(stack) : /\ stack'[i].name = stack[i].name
                               /\ stack'[i].via = stack[i].via
  BY <1>1
<1>4. AliasFrames' = AliasFrames \union {Len(stack) + 1}
  BY <1>1, <1>2, <1>3 DEF AliasFrames
<1>5. \A i \in AliasFrames : /\ stack'[i].name = stack[i].name
                             /\ stack[i].name \in activeAliasExpansions
  BY <1>3 DEF AliasFrames, ActiveAreExpanding
<1>6. activeAliasExpansions' = {stack'[i].name : i \in AliasFrames'}
  <2>1. activeAliasExpansions = {stack[i].name : i \in AliasFrames}
    BY DEF ActiveAreExpanding
  <2>2. {stack'[i].name : i \in AliasFrames'} =
            {stack'[i].name : i \in AliasFrames} \union {stack'[Len(stack) + 1].name}
    BY <1>4
  <2>3. {stack'[i].name : i \in AliasFrames} = {stack[i].name : i \in AliasFrames}
    BY <1>5
  <2> QED
    BY <1>2, <2>1, <2>2, <2>3
<1>7. ASSUME NEW i \in AliasFrames', NEW j \in AliasFrames',
             stack'[i].name = stack'[j].name
      PROVE  i = j
  BY <1>2, <1>4, <1>5, <1>7 DEF ActiveAreExpanding
<1> QED
  BY <1>6, <1>7 DEF ActiveAreExpanding

\* Leaving a text removes its frame and, if it is an alias's, its mark; the name
\* of no other frame loses its mark.
LEMMA PopFrame ==
    ASSUME TypeOK, ActiveAreExpanding, stack # <<>>, LeaveText
    PROVE  /\ ActiveAreExpanding'
           /\ stack' \in Seq(Frame) /\ Len(stack') = Len(stack) - 1
<1>1. Len(stack) \in Nat \ {0} /\ stack \in Seq(Frame)
  BY DEF TypeOK
<1>2. /\ stack' \in Seq(Frame) /\ Len(stack') = Len(stack) - 1
      /\ \A i \in 1..(Len(stack) - 1) : stack'[i] = stack[i]
  <2>1. stack' = SubSeq(stack, 1, Len(stack) - 1)
    BY DEF LeaveText, DepthLeft, MarksLeft
  <2>2. stack' = [i \in 1..(Len(stack) - 1) |-> stack[i]]
    BY <1>1, <2>1
  <2>3. \A i \in 1..(Len(stack) - 1) : stack[i] \in Frame
    BY <1>1
  <2>4. Len(stack) - 1 \in Nat
    BY <1>1
  <2>5. stack' \in [1..(Len(stack) - 1) -> Frame]
    BY <2>2, <2>3
  <2>6. stack' \in Seq(Frame)
    BY <2>4, <2>5
  <2> QED
    BY <2>2, <2>4, <2>5, <2>6
<1>3. AliasFrames' = AliasFrames \ {Len(stack)}
  BY <1>1, <1>2 DEF AliasFrames
<1>4. \A i \in AliasFrames' : stack'[i] = stack[i]
  BY <1>1, <1>2, <1>3 DEF AliasFrames
<1>5. \A i, j \in AliasFrames' : stack'[i].name = stack'[j].name => i = j
  BY <1>3, <1>4 DEF ActiveAreExpanding
<1>6. activeAliasExpansions' = {stack'[i].name : i \in AliasFrames'}
  <2>1. CASE Top.via = "alias"
    <3>1. Len(stack) \in AliasFrames
      BY <1>1, <2>1 DEF AliasFrames, Top
    <3>2. activeAliasExpansions' =
              activeAliasExpansions \ {stack[Len(stack)].name}
      BY <2>1 DEF LeaveText, DepthLeft, MarksLeft, Top
    <3>3. \A i \in AliasFrames \ {Len(stack)} :
              stack[i].name # stack[Len(stack)].name
      BY <3>1 DEF ActiveAreExpanding
    <3>4. activeAliasExpansions = {stack[i].name : i \in AliasFrames}
      BY DEF ActiveAreExpanding
    <3> QED
      BY <1>3, <1>4, <3>1, <3>2, <3>3, <3>4
  <2>2. CASE Top.via # "alias"
    <3>1. Len(stack) \notin AliasFrames
      BY <1>1, <2>2 DEF AliasFrames, Top
    <3>2. activeAliasExpansions' = activeAliasExpansions
      BY <2>2 DEF LeaveText, DepthLeft, MarksLeft
    <3>3. activeAliasExpansions = {stack[i].name : i \in AliasFrames}
      BY DEF ActiveAreExpanding
    <3>4. AliasFrames' = AliasFrames
      BY <1>3, <3>1
    <3> QED
      BY <1>4, <3>2, <3>3, <3>4
  <2> QED
    BY <2>1, <2>2
<1> QED
  BY <1>2, <1>5, <1>6 DEF ActiveAreExpanding
-----------------------------------------------------------------------------
\* A node that nests nothing.
LEMMA PassNodeShape ==
    ASSUME IInv, stack # <<>>, status = "parsing", PassNode,
           activeAliasExpansions' = activeAliasExpansions
    PROVE  Shape'
<1>1. /\ stack' \in Seq(Frame) /\ Len(stack') = Len(stack)
      /\ \A i \in 1..Len(stack) : /\ stack'[i].name = stack[i].name
                                  /\ stack'[i].via = stack[i].via
  BY PassedStack DEF IInv, PassNode
<1>2. ActiveAreExpanding'
  BY <1>1, SameFramesSameActive DEF IInv
<1>3. stack' # <<>>
  BY <1>1 DEF IInv, TypeOK
<1>4. DepthBalanced' /\ DepthBounded' /\ DoneIsUnwound'
  BY <1>1, <1>3 DEF IInv, DepthBalanced, DepthBounded, DoneIsUnwound, PassNode
<1> QED
  BY <1>1, <1>2, <1>4 DEF IInv, TypeOK, Shape, PassNode

\* An exception leaves the stack to Unwind.
LEMMA ThrowShape ==
    ASSUME IInv, NEW error \in Errors, Throw(error),
           activeAliasExpansions' = activeAliasExpansions
    PROVE  Shape'
<1>1. ActiveAreExpanding'
  BY DEF IInv, Throw, ActiveAreExpanding, AliasFrames
<1>2. DepthBalanced' /\ DepthBounded' /\ DoneIsUnwound'
  BY DEF IInv, Throw, DepthBalanced, DepthBounded, DoneIsUnwound, Errors
<1> QED
  BY <1>1, <1>2 DEF IInv, TypeOK, Throw, Shape

\* A buffer that is parsed under the two DepthGuards it asks for.
LEMMA ParseBufferShape ==
    ASSUME IInv, stack # <<>>, status = "parsing",
           Top.at <= Len(contents[Top.text]),
           NEW how \in {"anchor", "alias", "override"}, NEW t \in Text,
           ParseBuffer(how, t),
           IF how = "alias"
           THEN /\ This.name \notin activeAliasExpansions
                /\ activeAliasExpansions' =
                       activeAliasExpansions \union {This.name}
           ELSE activeAliasExpansions' = activeAliasExpansions
    PROVE  Shape'
<1> DEFINE f == [text |-> t, at |-> 1, name |-> This.name, via |-> how]
<1>1. This.name \in Name
  BY ThisIsNode DEF IInv, Node
<1>2. f \in Frame
  BY <1>1 DEF Frame
<1>3. stack' = Append(Passed, f)
  BY DEF ParseBuffer
<1>4. /\ Passed \in Seq(Frame) /\ Len(Passed) = Len(stack)
      /\ Len(stack) \in Nat \ {0}
  BY PassedStack DEF IInv, TypeOK
<1>5. /\ stack' \in Seq(Frame) /\ Len(stack') = Len(stack) + 1
      /\ stack' # <<>>
  <2> HIDE DEF f
  <2> QED
    BY <1>2, <1>3, <1>4
<1>6. f.via = how /\ f.name = This.name
  OBVIOUS
<1>7. ActiveAreExpanding'
  <2>1. CASE how = "alias"
    <3> HIDE DEF f
    <3> QED
      BY <1>2, <1>3, <1>6, <2>1, PushAlias DEF IInv
  <2>2. CASE how # "alias"
    <3> HIDE DEF f
    <3> QED
      BY <1>2, <1>3, <1>6, <2>2, PushOther DEF IInv
  <2> QED
    BY <2>1, <2>2
<1>8. DepthBalanced' /\ DepthBounded'
  <2>1. /\ parseDepth' = parseDepth + 2 /\ parseDepth \in Nat
        /\ MaxParseDepth = 0 \/ parseDepth + 2 <= MaxParseDepth
    BY DEF IInv, TypeOK, ParseBuffer, DepthAllows
  <2>2. parseDepth = 2 * Len(stack) - 1
    BY DEF IInv, DepthBalanced
  <2>3. parseDepth' = 2 * Len(stack') - 1
    <3> HIDE DEF f
    <3> QED
      BY <1>4, <1>5, <2>1, <2>2
  <2> QED
    BY <1>5, <2>1, <2>3, AliasAssumption DEF DepthBalanced, DepthBounded
<1>9. DoneIsUnwound' /\ status' = status /\ parseDepth' \in Nat
  BY DEF IInv, TypeOK, DoneIsUnwound, ParseBuffer
<1> QED
  BY <1>5, <1>7, <1>8, <1>9 DEF IInv, TypeOK, Shape

\* A text that is left, at its end or by an exception.
LEMMA LeaveTextShape ==
    ASSUME IInv, stack # <<>>, LeaveText,
           status' \in Errors \union {"parsing", "done"},
           status' = "done" => Len(stack) = 1
    PROVE  Shape'
<1>1. /\ ActiveAreExpanding'
      /\ stack' \in Seq(Frame) /\ Len(stack') = Len(stack) - 1
  BY PopFrame DEF IInv
<1>2. Len(stack) \in Nat \ {0}
  BY DEF IInv, TypeOK
<1>3. parseDepth = 2 * Len(stack) - 1 /\ parseDepth \in Nat
  BY DEF IInv, TypeOK, DepthBalanced
<1>4. parseDepth' = IF Len(stack) = 1 THEN parseDepth - 1 ELSE parseDepth - 2
  BY DEF LeaveText, DepthLeft, MarksLeft
<1>5. stack' = <<>> <=> Len(stack) = 1
  BY <1>1, <1>2, EmptySeq
<1>6. DepthBalanced' /\ parseDepth' \in Nat
  BY <1>1, <1>2, <1>3, <1>4, <1>5 DEF DepthBalanced
<1>7. DepthBounded'
  BY <1>3, <1>4, AliasAssumption DEF IInv, DepthBounded
<1>8. DoneIsUnwound'
  BY <1>5 DEF DoneIsUnwound
<1> QED
  BY <1>1, <1>6, <1>7, <1>8 DEF Shape

\* A document begins on an empty stack.
LEMMA NewDocumentShape ==
    ASSUME NEW d \in Document, stack' = <<DocumentFrame(d)>>,
           activeAliasExpansions' = {}, parseDepth' = 1, status' = "parsing"
    PROVE  Shape'
<1>1. DocumentFrame(d) \in Frame
  BY AliasAssumption DEF DocumentFrame, Frame
<1>2. stack' \in Seq(Frame) /\ Len(stack') = 1 /\ stack' # <<>>
  <2> HIDE DEF DocumentFrame
  <2> QED
    BY <1>1
<1>3. AliasFrames' = {}
  BY <1>2 DEF AliasFrames, DocumentFrame
<1>4. ActiveAreExpanding'
  BY <1>3 DEF ActiveAreExpanding
<1>5. DepthBalanced' /\ DepthBounded' /\ DoneIsUnwound'
  BY <1>2, AliasAssumption DEF DepthBalanced, DepthBounded, DoneIsUnwound
<1> QED
  BY <1>2, <1>4, <1>5 DEF Shape
-----------------------------------------------------------------------------
\* The types of the variables that a node's outcome does not decide.
Tables ==
    /\ contents \in [Text -> Seq(Node)]
    /\ yamlAliasMap \in [Name -> Text \union {Undefined}]
    /\ activeAliasExpansions \in SUBSET Name
    /\ aliasExpansionCount \in Nat
    /\ expansions \in Nat

\* What a node decides and what it leaves alone make up the invariant.
LEMMA ShapeAndTables == ASSUME Shape', Tables' PROVE IInv'
BY DEF Shape, Tables, IInv, TypeOK

\* The invariant holds when parse() begins.
LEMMA InitIInv == Init => IInv
<1> SUFFICES ASSUME Init PROVE IInv
  OBVIOUS
<1>1. PICK d \in Document : stack = <<DocumentFrame(d)>>
  BY DEF Init
<1>2. DocumentFrame(d) \in Frame
  BY AliasAssumption DEF DocumentFrame, Frame
<1>3. stack \in Seq(Frame) /\ Len(stack) = 1 /\ stack # <<>>
  <2> HIDE DEF DocumentFrame
  <2> QED
    BY <1>1, <1>2
<1>4. AliasFrames = {}
  BY <1>1, <1>3 DEF AliasFrames, DocumentFrame
<1>5. ActiveAreExpanding
  BY <1>4 DEF Init, ActiveAreExpanding
<1>6. TypeOK
  BY <1>3, AliasAssumption DEF Init, TypeOK
<1>7. DepthBalanced /\ DepthBounded /\ DoneIsUnwound
  BY <1>3, AliasAssumption
  DEF Init, DepthBalanced, DepthBounded, DoneIsUnwound
<1> QED
  BY <1>5, <1>6, <1>7 DEF IInv

\* One step per action: the node outcomes by the lemmas above.
LEMMA NextIInv == IInv /\ [Next]_vars => IInv'
<1> SUFFICES ASSUME IInv, [Next]_vars PROVE IInv'
  OBVIOUS
<1>1. Tables /\ Shape
  BY DEF IInv, TypeOK, Tables, Shape
<1>2. CASE ParseScalar
  <2>1. Shape'
    BY <1>2, PassNodeShape DEF ParseScalar, AtNode
  <2> QED
    BY <1>1, <1>2, <2>1, ShapeAndTables DEF ParseScalar, Tables
<1>3. CASE NodeMalformed
  <2>1. Shape'
    BY <1>3, ThrowShape DEF NodeMalformed, Errors
  <2> QED
    BY <1>1, <1>3, <2>1, ShapeAndTables DEF NodeMalformed, Tables
<1>4. CASE NodeTooDeep
  <2>1. Shape'
    BY <1>4, ThrowShape DEF NodeTooDeep, Errors
  <2> QED
    BY <1>1, <1>4, <2>1, ShapeAndTables DEF NodeTooDeep, Tables
<1>5. CASE parseAnchor
  <2>1. stack # <<>> /\ status = "parsing" /\ Top.at <= Len(contents[Top.text])
    BY <1>5 DEF parseAnchor, AtNode
  <2>2. This.name \in Name /\ This.text \in Text
    BY <2>1, ThisIsNode DEF IInv, Node
  <2>3. Shape'
    <3>1. CASE PassNode
      BY <1>5, <2>1, <3>1, PassNodeShape DEF parseAnchor
    <3>2. CASE ParseBuffer("anchor", This.text)
      BY <1>5, <2>1, <2>2, <3>2, ParseBufferShape DEF parseAnchor
    <3>3. CASE BufferTooDeep
      BY <1>5, <3>3, ThrowShape DEF parseAnchor, BufferTooDeep, Errors
    <3> QED
      BY <1>5, <3>1, <3>2, <3>3 DEF parseAnchor
  <2>4. yamlAliasMap' \in [Name -> Text \union {Undefined}]
    BY <1>1, <1>5, <2>2 DEF parseAnchor, Tables
  <2> QED
    BY <1>1, <1>5, <2>3, <2>4, ShapeAndTables DEF parseAnchor, Tables
<1>6. CASE aliasRecursive
  <2>1. Shape'
    BY <1>6, ThrowShape DEF aliasRecursive, Errors
  <2> QED
    BY <1>1, <1>6, <2>1, ShapeAndTables DEF aliasRecursive, Tables
<1>7. CASE aliasOverLimit
  <2>1. Shape'
    BY <1>7, ThrowShape DEF aliasOverLimit, Errors
  <2> QED
    BY <1>1, <1>7, <2>1, ShapeAndTables DEF aliasOverLimit, Tables, Counted
<1>8. CASE aliasResolved
  <2>1. stack # <<>> /\ status = "parsing" /\ Top.at <= Len(contents[Top.text])
    BY <1>8 DEF aliasResolved, AtNode
  <2>2. This.name \in Name
    BY <2>1, ThisIsNode DEF IInv, Node
  <2>3. yamlAliasMap[This.name] \in Text \union {Undefined}
    BY <1>1, <2>2 DEF Tables
  <2>4. Tables'
    BY <1>1, <1>8, <2>2, AliasAssumption
    DEF aliasResolved, Tables, Counted, OneMoreExpansion
  <2>5. Shape'
    <3>1. CASE Throw("undefined") /\ UNCHANGED activeAliasExpansions
      BY <3>1, ThrowShape DEF Errors
    <3>2. CASE PassNode /\ UNCHANGED activeAliasExpansions
      BY <2>1, <3>2, PassNodeShape
    <3>3. CASE /\ yamlAliasMap[This.name] # Undefined
               /\ ParseBuffer("alias", yamlAliasMap[This.name])
               /\ activeAliasExpansions' =
                      activeAliasExpansions \union {This.name}
      <4>1. yamlAliasMap[This.name] \in Text
        BY <2>3, <3>3
      <4>2. This.name \notin activeAliasExpansions
        BY <1>8 DEF aliasResolved
      <4> QED
        BY <2>1, <3>3, <4>1, <4>2, ParseBufferShape
    <3>4. CASE BufferTooDeep /\ UNCHANGED activeAliasExpansions
      BY <3>4, ThrowShape DEF BufferTooDeep, Errors
    <3> QED
      BY <1>8, <3>1, <3>2, <3>3, <3>4 DEF aliasResolved
  <2> QED
    BY <2>4, <2>5, ShapeAndTables
<1>9. CASE parseOverride
  <2>1. stack # <<>> /\ status = "parsing" /\ Top.at <= Len(contents[Top.text])
    BY <1>9 DEF parseOverride, AtNode
  <2>2. This.name \in Name
    BY <2>1, ThisIsNode DEF IInv, Node
  <2>3. yamlAliasMap[This.name] \in Text \union {Undefined}
    BY <1>1, <2>2 DEF Tables
  <2>4. Tables'
    BY <1>1, <1>9, AliasAssumption DEF parseOverride, Tables, OneMoreExpansion
  <2>5. activeAliasExpansions' = activeAliasExpansions
    BY <1>9 DEF parseOverride
  <2>6. Shape'
    <3>1. CASE Throw("undefined")
      BY <2>5, <3>1, ThrowShape DEF Errors
    <3>2. CASE /\ yamlAliasMap[This.name] # Undefined
               /\ ParseBuffer("override", yamlAliasMap[This.name])
      BY <2>1, <2>3, <2>5, <3>2, ParseBufferShape
    <3>3. CASE BufferTooDeep
      BY <2>5, <3>3, ThrowShape DEF BufferTooDeep, Errors
    <3> QED
      BY <1>9, <3>1, <3>2, <3>3 DEF parseOverride
  <2> QED
    BY <2>4, <2>6, ShapeAndTables
<1>10. CASE TextParsed
  <2>1. status' \in {"parsing", "done"} /\ (status' = "done" => Len(stack) = 1)
    BY <1>10 DEF TextParsed
  <2>2. Shape'
    BY <1>10, <2>1, LeaveTextShape DEF TextParsed
  <2> QED
    BY <1>1, <1>10, <2>2, ShapeAndTables
       DEF TextParsed, LeaveText, DepthLeft, MarksLeft, Tables
<1>11. CASE Unwind
  <2>1. status' \in Errors /\ status' # "done"
    BY <1>11 DEF Unwind, Errors
  <2>2. Shape'
    BY <1>11, <2>1, LeaveTextShape DEF Unwind
  <2> QED
    BY <1>1, <1>11, <2>2, ShapeAndTables
       DEF Unwind, LeaveText, DepthLeft, MarksLeft, Tables
<1>12. CASE NextDocument
  <2>1. parseDepth' = 1
    BY <1>12 DEF NextDocument, IInv, DoneIsUnwound, DepthBalanced
  <2>2. Shape'
    BY <1>12, <2>1, NewDocumentShape DEF NextDocument
  <2> QED
    BY <1>1, <1>12, <2>2, ShapeAndTables DEF NextDocument, Tables
<1>13. CASE ParseAgain
  <2>1. Shape'
    BY <1>13, NewDocumentShape DEF ParseAgain
  <2> QED
    BY <1>1, <1>13, <2>1, ShapeAndTables DEF ParseAgain, Tables
<1>14. CASE UNCHANGED vars
  BY <1>14 DEF vars, IInv, TypeOK, ActiveAreExpanding, AliasFrames,
     DepthBalanced, DepthBounded, DoneIsUnwound
<1> QED
  BY <1>2, <1>3, <1>4, <1>5, <1>6, <1>7, <1>8, <1>9, <1>10, <1>11, <1>12,
     <1>13, <1>14 DEF Next, ParseStep

\* IInv holds in every state the parser can be in.
THEOREM Inductive == Spec => []IInv
BY InitIInv, NextIInv, PTL DEF Spec

\* The parser's tables and counters keep their types.
THEOREM TypeCorrect == Spec => []TypeOK
<1>1. IInv => TypeOK
  BY DEF IInv
<1> QED
  BY <1>1, Inductive, PTL

\* For every document, set of anchors and kind of exit: a name is marked active
\* exactly while its alias is being expanded, and only once.
THEOREM ActiveCorrect == Spec => []ActiveAreExpanding
<1>1. IInv => ActiveAreExpanding
  BY DEF IInv
<1> QED
  BY <1>1, Inductive, PTL

\* For every document and every limit: the depth counter counts the calls on the
\* stack and stays within Options::max_parse_depth.
THEOREM DepthCorrect == Spec => [](DepthBalanced /\ DepthBounded)
<1>1. IInv => DepthBalanced /\ DepthBounded
  BY DEF IInv
<1> QED
  BY <1>1, Inductive, PTL

\* The part of DepthCorrect that is Options::max_parse_depth.
THEOREM DepthLimitCorrect == Spec => []DepthBounded
<1>1. (DepthBalanced /\ DepthBounded) => DepthBounded
  OBVIOUS
<1> QED
  BY <1>1, DepthCorrect, PTL
-----------------------------------------------------------------------------
(* Options::max_alias_expansions, for texts without overrides: every buffer *)
(* parsed again was counted, and the count was within the limit.            *)

CountInv ==
    (OverrideFree /\ MaxAliasExpansions # 0) =>
        /\ expansions <= aliasExpansionCount
        /\ expansions <= MaxAliasExpansions

\* A text without overrides has no override in front of the parser.
LEMMA NoOverrideInFront ==
    ASSUME TypeOK, OverrideFree, AtNode("override")
    PROVE  FALSE
<1>1. Len(stack) \in Nat \ {0} /\ stack \in Seq(Frame)
  BY DEF TypeOK, AtNode
<1>2. Top \in Frame
  BY <1>1 DEF Top
<1>3. Top.text \in Text /\ Top.at \in Nat \ {0}
  BY <1>2 DEF Frame
<1>4. contents[Top.text] \in Seq(Node)
  BY <1>3 DEF TypeOK
<1>5. Top.at \in DOMAIN contents[Top.text]
  BY <1>3, <1>4 DEF AtNode
<1> QED
  BY <1>3, <1>5 DEF AtNode, OverrideFree

\* Every step keeps the count ahead of the expansions.
LEMMA StepCountInv ==
    ASSUME TypeOK, CountInv, [Next]_vars
    PROVE  CountInv'
<1> SUFFICES ASSUME OverrideFree', MaxAliasExpansions # 0
             PROVE  /\ expansions' <= aliasExpansionCount'
                    /\ expansions' <= MaxAliasExpansions
  BY DEF CountInv
<1>1. contents' = contents
  BY DEF Next, ParseStep, ParseScalar, NodeMalformed, NodeTooDeep, parseAnchor,
         aliasRecursive, aliasOverLimit, aliasResolved, parseOverride,
         TextParsed, Unwind, LeaveText, NextDocument, ParseAgain, vars
<1>2. OverrideFree
  BY <1>1 DEF OverrideFree
<1>3. /\ expansions \in Nat /\ aliasExpansionCount \in Nat
      /\ MaxAliasExpansions \in Nat
      /\ expansions <= aliasExpansionCount
      /\ expansions <= MaxAliasExpansions
  BY <1>2, AliasAssumption DEF TypeOK, CountInv
<1>4. CASE aliasOverLimit
  <2>1. aliasExpansionCount' = aliasExpansionCount + 1
    BY <1>4 DEF aliasOverLimit, Counted
  <2>2. expansions' = expansions
    BY <1>4 DEF aliasOverLimit
  <2> QED
    BY <1>3, <2>1, <2>2
<1>5. CASE aliasResolved
  <2>1. /\ aliasExpansionCount' = aliasExpansionCount + 1
        /\ aliasExpansionCount + 1 <= MaxAliasExpansions
    BY <1>3, <1>5 DEF aliasResolved, OverLimit, Counted
  <2>2. expansions' = expansions \/ expansions' = expansions + 1
    BY <1>5 DEF aliasResolved, OneMoreExpansion
  <2> QED
    BY <1>3, <2>1, <2>2
<1>6. CASE parseOverride
  BY <1>2, <1>6, NoOverrideInFront DEF parseOverride
<1>7. CASE ParseAgain
  BY <1>3, <1>7 DEF ParseAgain
<1>8. CASE UNCHANGED <<aliasExpansionCount, expansions>>
  BY <1>3, <1>8
<1> QED
  BY <1>4, <1>5, <1>6, <1>7, <1>8
  DEF Next, ParseStep, ParseScalar, NodeMalformed, NodeTooDeep, parseAnchor,
      aliasRecursive, TextParsed, Unwind, LeaveText, NextDocument, vars

\* For every document without "<<:*name" and every limit: aliases are parsed
\* again at most max_alias_expansions times in one call of parse(), over all of
\* its documents.
THEOREM ExpansionsCorrect == Spec => []AliasesWithinLimit
<1>1. Init => CountInv
  BY AliasAssumption DEF Init, CountInv
<1>2. CountInv => AliasesWithinLimit
  BY DEF CountInv, AliasesWithinLimit, ExpansionsWithinLimit
<1>3. TypeOK /\ CountInv /\ [Next]_vars => CountInv'
  BY StepCountInv
<1> QED
  BY <1>1, <1>2, <1>3, TypeCorrect, PTL DEF Spec
-----------------------------------------------------------------------------
(* The text being parsed for an alias or an override stays in the map.  A   *)
(* name is bound again only by a text that an earlier parse of the same     *)
(* nodes has not gone through: the anchor parses its text on the spot, so   *)
(* that a text with an anchor of its own name in it loses the name before   *)
(* the parse ends.                                                          *)
(*                                                                          *)
(* In the operators C is the contents of the texts, c the stack, A the map. *)

\* The node that frame j is in, or, of the innermost frame, the next one.
Cur(c, j) == IF j = Len(c) THEN c[j].at ELSE c[j].at - 1
NodeOf(C, c, j) == C[c[j].text][Cur(c, j)]

Expanded(f) == f.via \in {"alias", "override"}

\* What is proved: the map holds the texts being expanded.
Kept(c, A) ==
    \A i \in 1..Len(c) : Expanded(c[i]) => c[i].name \in Name /\ A[c[i].name] = c[i].text

\* A frame is that of the node its caller is in.
IsOf(f, node) ==
    /\ f.via = node.kind
    /\ f.name = node.name
    /\ f.via = "anchor" => f.text = node.text
    /\ f.via # "override" => f.text # EmptyText

\* Every frame but the document's is that of the node below it.
Nested(C, c) ==
    \A j \in 1..(Len(c) - 1) :
        /\ Cur(c, j) \in 1..Len(C[c[j].text])
        /\ IsOf(c[j + 1], NodeOf(C, c, j))

\* A text that is parsed inside itself does not get further than outside.
NoneAhead(c) ==
    \A j \in 1..Len(c) : \A i \in 1..(j - 1) :
        c[i].text = c[j].text => Cur(c, j) <= Cur(c, i)

\* Since a name was bound to another text the nodes in done were parsed; the
\* frames above low began after that.  Node q of the text of m is parsed, or will
\* be before the anchor that gave m its text ends, and no one used m before.
Starting(c, low, m, text, q) ==
    \E b \in (low + 1)..Len(c) :
        /\ c[b].via = "anchor" /\ c[b].name = m /\ c[b].text = text
        /\ Cur(c, b) <= q
        /\ \A k \in 1..(b - 1) : ~(Expanded(c[k]) /\ c[k].name = m)

Covered(C, c, done, low, m, text) ==
    \A q \in 1..Len(C[text]) : <<text, q>> \in done \/ Starting(c, low, m, text, q)

\* What parsing the node again could do: no anchor in it binds n to another text.
Harmless(C, c, A, n, done, low, node) ==
    /\ node.kind = "anchor" =>
         /\ node.name = n => node.text = A[n]
         /\ \A q \in 1..Len(C[node.text]) : <<node.text, q>> \in done
    /\ node.kind \in {"alias", "override"} =>
         /\ A[node.name] # Undefined
         /\ Covered(C, c, done, low, node.name, A[node.name])

\* The record of what was parsed since n was bound to its text is true.
Since(C, c, A, n, done, low) ==
    /\ low \in 0..Len(c)
    /\ A[n] # Undefined => Covered(C, c, done, low, n, A[n])
    /\ \A t \in Text : \A q \in 1..Len(C[t]) :
         <<t, q>> \in done => Harmless(C, c, A, n, done, low, C[t][q])
    /\ \A j \in (low + 1)..Len(c) : \A q \in 1..(Cur(c, j) - 1) : <<c[j].text, q>> \in done
    /\ \A j \in 1..(Len(c) - 1) :
         LET node == NodeOf(C, c, j)
         IN  node.kind = "anchor" /\ node.name = n => low >= j \/ A[n] = node.text

\* The invariant of the replays: there is such a record for every name.
Replayed(C, c, A) ==
    /\ Nested(C, c)
    /\ NoneAhead(c)
    /\ \A n \in Name : \E done \in SUBSET (Text \X Nat) : \E low \in Nat :
         Since(C, c, A, n, done, low)

\* The types of the three.
Typed(C, c, A) ==
    /\ C \in [Text -> Seq(Node)] /\ C[EmptyText] = <<>>
    /\ c \in Seq(Frame) /\ c # <<>>
    /\ A \in [Name -> Text \union {Undefined}]
-----------------------------------------------------------------------------
\* The types of a frame, of its node and of its text.
LEMMA FrameFields ==
    ASSUME NEW C, NEW c, NEW A, Typed(C, c, A), NEW j \in 1..Len(c)
    PROVE  /\ c[j] \in Frame
           /\ c[j].text \in Text /\ c[j].at \in Nat /\ c[j].at >= 1
           /\ c[j].name \in Name \union {Undefined}
           /\ c[j].via \in {"document", "anchor", "alias", "override"}
           /\ Cur(c, j) \in Nat
           /\ Len(c) \in Nat
           /\ C[c[j].text] \in Seq(Node) /\ Len(C[c[j].text]) \in Nat
           /\ Cur(c, j) \in 1..Len(C[c[j].text]) => NodeOf(C, c, j) \in Node
<1>1. c[j] \in Frame /\ Len(c) \in Nat
  BY DEF Typed
<1>2. c[j].text \in Text /\ c[j].at \in Nat /\ c[j].at >= 1
      /\ c[j].name \in Name \union {Undefined}
      /\ c[j].via \in {"document", "anchor", "alias", "override"}
  BY <1>1 DEF Frame
<1>3. Cur(c, j) \in Nat
  BY <1>2 DEF Cur
<1>4. C[c[j].text] \in Seq(Node) /\ Len(C[c[j].text]) \in Nat
  BY <1>2 DEF Typed
<1> QED BY <1>1, <1>2, <1>3, <1>4 DEF NodeOf

\* The types of a node.
LEMMA NodeFields ==
    ASSUME NEW node \in Node
    PROVE  /\ node.kind \in {"scalar", "anchor", "alias", "override"}
           /\ node.name \in Name /\ node.text \in Text
BY DEF Node

\* Two frames of one node parse one text.
LEMMA SameNodeSameText ==
    ASSUME NEW A, NEW node, NEW f, NEW g, IsOf(f, node), IsOf(g, node),
           node.kind \in {"anchor", "alias", "override"},
           Expanded(f) => A[f.name] = f.text, Expanded(g) => A[g.name] = g.text
    PROVE  f.text = g.text
BY DEF IsOf, Expanded

\* Only such nodes have frames, and those of a stack are of its nodes.
LEMMA NestedFields ==
    ASSUME NEW C, NEW c, NEW A, Typed(C, c, A), Nested(C, c), Kept(c, A),
           NEW j \in 1..(Len(c) - 1)
    PROVE  LET node == NodeOf(C, c, j)
               f    == c[j + 1]
           IN  /\ j \in 1..Len(c) /\ j + 1 \in 1..Len(c)
               /\ Cur(c, j) \in 1..Len(C[c[j].text])
               /\ node \in Node
               /\ node.kind \in {"anchor", "alias", "override"}
               /\ IsOf(f, node)
               /\ f.text \in Text
               /\ node.kind = "anchor" => f.text = node.text
               /\ node.kind # "anchor" => Expanded(f) /\ A[node.name] = f.text
               /\ Expanded(f) => A[f.name] = f.text
<1>1. j \in 1..Len(c) /\ j + 1 \in 1..Len(c)
  BY DEF Typed
<1>2. Cur(c, j) \in 1..Len(C[c[j].text]) /\ IsOf(c[j + 1], NodeOf(C, c, j))
  BY DEF Nested
<1>3. NodeOf(C, c, j) \in Node
  BY <1>1, <1>2, FrameFields
<1>4. c[j + 1].via \in {"document", "anchor", "alias", "override"} /\ c[j + 1].text \in Text
  BY <1>1, FrameFields
<1>5. NodeOf(C, c, j).kind \in {"anchor", "alias", "override"}
  BY <1>2, <1>3, <1>4, NodeFields DEF IsOf
<1>6. Expanded(c[j + 1]) => A[c[j + 1].name] = c[j + 1].text
  BY <1>1 DEF Kept
<1> QED BY <1>1, <1>2, <1>3, <1>4, <1>5, <1>6 DEF IsOf, Expanded

\* A set of numbers has a least one.
LEMMA Least ==
    ASSUME NEW T, T \subseteq Nat, T # {}
    PROVE  \E m \in T : \A k \in T : m <= k
<1> DEFINE R == OpToRel(<, Nat)
<1>1. IsWellFoundedOn(R, Nat)
  BY NatLessThanWellFounded
<1>2. \A x, y \in Nat : y < x => <<y, x>> \in R
  BY DEF OpToRel
<1> HIDE DEF R
<1>3. PICK m \in T : \A k \in T : ~ (<<k, m>> \in R)
  BY <1>1, WFMin
<1>4. \A k \in T : ~ (k < m)
  BY <1>2, <1>3
<1> QED BY <1>4

\* Where a frame for m is covered, its node was parsed, or a frame below is in the
\* same one.
LEMMA Meets ==
    ASSUME NEW C, NEW c, NEW A, Typed(C, c, A), NoneAhead(c),
           NEW done, NEW low \in Nat, NEW k \in 1..Len(c), Expanded(c[k]),
           Covered(C, c, done, low, c[k].name, c[k].text),
           Cur(c, k) \in 1..Len(C[c[k].text])
    PROVE  \/ <<c[k].text, Cur(c, k)>> \in done
           \/ \E b \in (low + 1)..(k - 1) :
                c[b].text = c[k].text /\ Cur(c, b) = Cur(c, k)
<1> SUFFICES ASSUME <<c[k].text, Cur(c, k)>> \notin done
             PROVE  \E b \in (low + 1)..(k - 1) :
                        c[b].text = c[k].text /\ Cur(c, b) = Cur(c, k)
  OBVIOUS
<1>1. Starting(c, low, c[k].name, c[k].text, Cur(c, k))
  BY DEF Covered
<1>2. PICK b \in (low + 1)..Len(c) :
        /\ c[b].via = "anchor" /\ c[b].text = c[k].text /\ Cur(c, b) <= Cur(c, k)
        /\ \A i \in 1..(b - 1) : ~(Expanded(c[i]) /\ c[i].name = c[k].name)
  BY <1>1 DEF Starting
<1>3. b \in 1..Len(c) /\ Len(c) \in Nat
  BY DEF Typed
<1>4. b # k
  BY <1>2 DEF Expanded
<1>5. ~(b > k)
  BY <1>2, <1>3
<1>6. b \in (low + 1)..(k - 1) /\ b \in 1..(k - 1)
  BY <1>3, <1>4, <1>5
<1>7. Cur(c, k) <= Cur(c, b)
  BY <1>2, <1>6 DEF NoneAhead
<1>8. Cur(c, k) = Cur(c, b)
  BY <1>2, <1>3, <1>7, FrameFields
<1> QED BY <1>2, <1>6, <1>8

\* An anchor that gives its name another text finds no text of that name being
\* parsed for an alias or an override.
LEMMA NoConflict ==
    ASSUME NEW C, NEW c, NEW A, Typed(C, c, A), Kept(c, A), Nested(C, c), NoneAhead(c),
           NEW n \in Name, NEW done, NEW low \in Nat, Since(C, c, A, n, done, low),
           Cur(c, Len(c)) \in 1..Len(C[c[Len(c)].text]),
           NodeOf(C, c, Len(c)).kind = "anchor", NodeOf(C, c, Len(c)).name = n,
           NodeOf(C, c, Len(c)).text # A[n],
           NEW i \in 1..Len(c), Expanded(c[i]), c[i].name = n
    PROVE  FALSE
<1> DEFINE Seen(k) ==
             \/ <<c[k].text, Cur(c, k)>> \in done
             \/ \E b \in (low + 1)..(k - 1) :
                  c[b].text = c[k].text /\ Cur(c, b) = Cur(c, k)
           T == {k \in Nat : k \in i..Len(c) /\ ~Seen(k)}
<1>0. Len(c) \in Nat /\ i \in Nat /\ Len(c) \in 1..Len(c) /\ i <= Len(c)
  BY DEF Typed
<1>1. \A k \in 1..Len(c) : Cur(c, k) \in 1..Len(C[c[k].text]) /\ c[k].text \in Text
  <2> SUFFICES ASSUME NEW k \in 1..Len(c)
               PROVE  Cur(c, k) \in 1..Len(C[c[k].text]) /\ c[k].text \in Text
    OBVIOUS
  <2>1. CASE k = Len(c)
    BY <2>1, FrameFields
  <2>2. CASE k # Len(c)
    <3>1. k \in 1..(Len(c) - 1)
      BY <1>0, <2>2
    <3> QED BY <3>1, NestedFields, FrameFields
  <2> QED BY <2>1, <2>2
<1>2. Seen(i)
  <2>1. A[n] = c[i].text /\ c[i].text \in Text
    BY <1>1 DEF Kept
  <2>2. A[n] # Undefined
    BY <2>1, AliasAssumption
  <2>3. Covered(C, c, done, low, c[i].name, c[i].text)
    BY <2>1, <2>2 DEF Since
  <2>4. Cur(c, i) \in 1..Len(C[c[i].text])
    BY <1>1
  <2>5. \/ <<c[i].text, Cur(c, i)>> \in done
        \/ \E b \in (low + 1)..(i - 1) :
             c[b].text = c[i].text /\ Cur(c, b) = Cur(c, i)
    BY <2>3, <2>4, Meets
  <2> QED BY <2>5
<1>3. ASSUME NEW k \in i..(Len(c) - 1), Seen(k)
      PROVE  Seen(k + 1)
  <2> DEFINE node == NodeOf(C, c, k)
             f    == c[k + 1]
  <2>1. /\ k \in 1..(Len(c) - 1) /\ k \in 1..Len(c) /\ k + 1 \in 1..Len(c) /\ k + 1 - 1 = k
    BY <1>0
  <2>2. /\ node \in Node /\ node.kind \in {"anchor", "alias", "override"}
        /\ IsOf(f, node)
        /\ node.kind = "anchor" => f.text = node.text
        /\ node.kind # "anchor" => Expanded(f) /\ A[node.name] = f.text
        /\ Expanded(f) => A[f.name] = f.text
    BY <2>1, NestedFields
  <2>3. Cur(c, k + 1) \in 1..Len(C[f.text])
    BY <1>1, <2>1
  <2>4. CASE <<c[k].text, Cur(c, k)>> \in done
    <3>1. Harmless(C, c, A, n, done, low, node)
      BY <1>1, <2>1, <2>4 DEF Since, NodeOf
    <3>2. CASE node.kind = "anchor"
      BY <2>2, <2>3, <3>1, <3>2 DEF Harmless
    <3>3. CASE node.kind # "anchor"
      <4>1. Covered(C, c, done, low, f.name, f.text)
        BY <2>2, <3>1, <3>3 DEF Harmless, IsOf
      <4> QED BY <2>1, <2>2, <2>3, <3>3, <4>1, Meets
    <3> QED BY <3>2, <3>3
  <2>5. ASSUME NEW b \in (low + 1)..(k - 1), c[b].text = c[k].text, Cur(c, b) = Cur(c, k)
        PROVE  Seen(k + 1)
    <3> DEFINE g == c[b + 1]
    <3>1. b \in 1..(Len(c) - 1) /\ b + 1 \in (low + 1)..Len(c) /\ b + 1 \in 1..(k + 1 - 1)
          /\ b + 1 \in 1..Len(c) /\ b + 1 \in (low + 1)..(k + 1 - 1)
      BY <1>0
    <3>2. NodeOf(C, c, b) = node
      BY <2>5 DEF NodeOf
    <3>3. IsOf(g, node) /\ (Expanded(g) => A[g.name] = g.text)
      BY <3>1, <3>2, NestedFields
    <3>4. g.text = f.text
      <4> HIDE DEF node, f, g
      <4> QED BY <2>2, <3>3, SameNodeSameText
    <3>5. Cur(c, k + 1) <= Cur(c, b + 1)
      BY <2>1, <3>1, <3>4 DEF NoneAhead
    <3>6. CASE Cur(c, k + 1) = Cur(c, b + 1)
      BY <3>1, <3>4, <3>6
    <3>7. CASE Cur(c, k + 1) # Cur(c, b + 1)
      <4>1. Cur(c, b + 1) \in Nat /\ Cur(c, k + 1) \in Nat
        BY <2>1, <3>1, FrameFields
      <4>2. Cur(c, k + 1) \in 1..(Cur(c, b + 1) - 1)
        BY <2>3, <3>5, <3>7, <4>1
      <4>3. <<g.text, Cur(c, k + 1)>> \in done
        BY <3>1, <4>2 DEF Since
      <4> QED BY <3>4, <4>3
    <3> QED BY <3>6, <3>7
  <2> QED BY <1>3, <2>4, <2>5
<1> HIDE DEF Seen
<1>4. T = {}
  <2> SUFFICES ASSUME T # {} PROVE FALSE
    OBVIOUS
  <2>1. PICK k \in T : \A l \in T : k <= l
    BY Least
  <2>2. k # i
    BY <1>2, <2>1
  <2>3. k - 1 \in i..(Len(c) - 1) /\ k - 1 \in Nat /\ k - 1 + 1 = k /\ k - 1 \in i..Len(c)
    BY <1>0, <2>1, <2>2
  <2>4. k - 1 \notin T
    BY <2>1, <2>3
  <2>5. Seen(k - 1)
    BY <2>3, <2>4
  <2>6. Seen(k - 1 + 1)
    BY <1>3, <2>3, <2>5
  <2> QED BY <2>1, <2>3, <2>6
<1>5. Seen(Len(c))
  BY <1>0, <1>4
<1> DEFINE top == NodeOf(C, c, Len(c))
<1>6. CASE <<c[Len(c)].text, Cur(c, Len(c))>> \in done
  <2>1. Harmless(C, c, A, n, done, low, top)
    BY <1>0, <1>1, <1>6 DEF Since, NodeOf
  <2> QED BY <2>1 DEF Harmless
<1>7. ASSUME NEW b \in (low + 1)..(Len(c) - 1), c[b].text = c[Len(c)].text,
             Cur(c, b) = Cur(c, Len(c))
      PROVE  FALSE
  <2>1. b \in 1..(Len(c) - 1) /\ ~(low >= b)
    BY <1>0
  <2>2. NodeOf(C, c, b) = top
    BY <1>7 DEF NodeOf
  <2> QED BY <2>1, <2>2 DEF Since
<1> QED BY <1>5, <1>6, <1>7 DEF Seen

-----------------------------------------------------------------------------
(* A node was parsed: the frame it belongs to is the innermost one now, and *)
(* one node further.  The node had no frame, or that frame has ended.       *)

\* The frames that stay parse what they parsed.
Alike(c, d) ==
    \A j \in 1..Len(d) :
        j <= Len(c) => d[j].text = c[j].text /\ d[j].name = c[j].name /\ d[j].via = c[j].via

\* Only the innermost of them has moved, past one node.
Advanced(c, d) ==
    /\ Len(d) \in 1..Len(c)
    /\ Alike(c, d)
    /\ \A j \in 1..(Len(d) - 1) : Cur(d, j) = Cur(c, j)
    /\ Cur(d, Len(d)) = Cur(c, Len(d)) + 1

\* The node is read without a nested parse.
NoFrame(node, B) ==
    /\ node.kind # "override"
    /\ node.kind = "anchor" => node.text = EmptyText
    /\ node.kind \in {"anchor", "alias"} => B[node.name] = EmptyText

\* The node of the innermost frame that stays is read, on its own or with the
\* nested parse that ends.
Parsed(C, c, d, B) ==
    LET j == Len(d)
    IN  /\ Cur(c, j) \in 1..Len(C[c[j].text])
        /\ \/ j = Len(c) /\ NoFrame(NodeOf(C, c, j), B)
           \/ j + 1 = Len(c) /\ Cur(c, j + 1) > Len(C[c[j + 1].text])

\* The anchor of an empty text is the only node without a frame that binds a name.
Bound(C, c, d, A, B) ==
    \A n \in Name :
        B[n] # A[n] =>
            /\ Len(d) = Len(c)
            /\ NodeOf(C, c, Len(c)).kind = "anchor" /\ NodeOf(C, c, Len(c)).name = n
            /\ B[n] = EmptyText

\* From stack c and map A to stack d and map B by reading a node.
Step(C, c, d, A, B) ==
    /\ Typed(C, c, A) /\ Typed(C, d, B) /\ Kept(c, A) /\ Nested(C, c) /\ NoneAhead(c)
    /\ Advanced(c, d) /\ Parsed(C, c, d, B) /\ Bound(C, c, d, A, B)

\* What a read node and a left text do to the frames that stay.
LEMMA StepFields ==
    ASSUME NEW C, NEW c, NEW d, NEW A, NEW B, Step(C, c, d, A, B)
    PROVE  /\ Len(c) \in Nat /\ Len(d) \in Nat /\ Len(d) >= 1 /\ Len(d) <= Len(c)
           /\ Len(d) = Len(c) \/ Len(d) + 1 = Len(c)
           /\ \A j \in 1..Len(d) :
                /\ d[j].text = c[j].text /\ d[j].name = c[j].name /\ d[j].via = c[j].via
                /\ j # Len(d) => Cur(d, j) = Cur(c, j) /\ NodeOf(C, d, j) = NodeOf(C, c, j)
                /\ j = Len(d) => Cur(d, j) = Cur(c, j) + 1
<1>1. Len(c) \in Nat /\ Len(d) \in Nat /\ Len(d) >= 1 /\ Len(d) <= Len(c)
  BY DEF Step, Typed, Advanced
<1>2. Len(d) = Len(c) \/ Len(d) + 1 = Len(c)
  BY DEF Step, Parsed
<1>3. ASSUME NEW j \in 1..Len(d)
      PROVE  /\ d[j].text = c[j].text /\ d[j].name = c[j].name /\ d[j].via = c[j].via
             /\ j # Len(d) => Cur(d, j) = Cur(c, j) /\ NodeOf(C, d, j) = NodeOf(C, c, j)
             /\ j = Len(d) => Cur(d, j) = Cur(c, j) + 1
  <2>1. d[j].text = c[j].text /\ d[j].name = c[j].name /\ d[j].via = c[j].via
    BY <1>1 DEF Step, Advanced, Alike
  <2>2. ASSUME j # Len(d) PROVE Cur(d, j) = Cur(c, j) /\ NodeOf(C, d, j) = NodeOf(C, c, j)
    <3>1. j \in 1..(Len(d) - 1)
      BY <1>1, <2>2
    <3>2. Cur(d, j) = Cur(c, j)
      BY <3>1 DEF Step, Advanced
    <3> QED BY <2>1, <3>2 DEF NodeOf
  <2>3. j = Len(d) => Cur(d, j) = Cur(c, j) + 1
    BY DEF Step, Advanced
  <2> QED BY <2>1, <2>2, <2>3
<1> QED BY <1>1, <1>2, <1>3

\* The frames that stay are still of the nodes below them.
LEMMA StepNested ==
    ASSUME NEW C, NEW c, NEW d, NEW A, NEW B, Step(C, c, d, A, B)
    PROVE  Nested(C, d)
<1> SUFFICES ASSUME NEW j \in 1..(Len(d) - 1)
             PROVE  /\ Cur(d, j) \in 1..Len(C[d[j].text])
                    /\ IsOf(d[j + 1], NodeOf(C, d, j))
  BY DEF Nested
<1>1. j \in 1..Len(d) /\ j # Len(d) /\ j + 1 \in 1..Len(d) /\ j \in 1..(Len(c) - 1)
  BY StepFields
<1>2. Cur(c, j) \in 1..Len(C[c[j].text]) /\ IsOf(c[j + 1], NodeOf(C, c, j))
  BY <1>1 DEF Step, Nested
<1>3. IsOf(d[j + 1], NodeOf(C, c, j))
  BY <1>1, <1>2, StepFields DEF IsOf
<1> QED BY <1>1, <1>2, <1>3, StepFields

\* A frame below that is in the same node still has the frame of that node on it.
LEMMA StepNoneAhead ==
    ASSUME NEW C, NEW c, NEW d, NEW A, NEW B, Step(C, c, d, A, B)
    PROVE  NoneAhead(d)
<1> DEFINE l    == Len(d)
           node == NodeOf(C, c, l)
<1>1. /\ Len(c) \in Nat /\ l \in Nat /\ l >= 1 /\ l <= Len(c) /\ l \in 1..Len(d)
      /\ l = Len(c) \/ l + 1 = Len(c)
  BY StepFields
<1> HIDE DEF l
<1>2. ASSUME NEW i \in 1..(l - 1), c[i].text = c[l].text
      PROVE  Cur(c, i) # Cur(c, l)
  <2> SUFFICES ASSUME Cur(c, i) = Cur(c, l) PROVE FALSE
    OBVIOUS
  <2>1. i \in 1..(Len(c) - 1) /\ i + 1 \in 1..l /\ i + 1 \in 1..Len(c)
    BY <1>1
  <2>2. NodeOf(C, c, i) = node
    BY <1>2 DEF NodeOf
  <2>3. /\ IsOf(c[i + 1], node) /\ node.kind \in {"anchor", "alias", "override"}
        /\ node \in Node
        /\ Expanded(c[i + 1]) => A[c[i + 1].name] = c[i + 1].text
        /\ node.kind = "anchor" => c[i + 1].text = node.text
        /\ node.kind # "anchor" => Expanded(c[i + 1]) /\ A[node.name] = c[i + 1].text
    BY <2>1, <2>2, NestedFields DEF Step
  <2>4. CASE l = Len(c)
    <3>1. NoFrame(node, B)
      BY <2>4 DEF Step, Parsed, l
    <3>2. node.kind = "alias"
      BY <2>3, <3>1 DEF NoFrame, IsOf
    <3>3. B[node.name] = EmptyText /\ node.name \in Name
      BY <2>3, <3>1, <3>2, NodeFields DEF NoFrame
    <3>4. A[node.name] = EmptyText
      BY <2>4, <3>2, <3>3 DEF Step, Bound
    <3> QED BY <2>3, <3>2, <3>4 DEF IsOf
  <2>5. CASE l + 1 = Len(c)
    <3>1. l \in 1..(Len(c) - 1) /\ l + 1 \in 1..Len(c) /\ i + 1 \in 1..(l + 1 - 1)
      BY <1>1, <2>5
    <3>2. IsOf(c[l + 1], node) /\ (Expanded(c[l + 1]) => A[c[l + 1].name] = c[l + 1].text)
      BY <3>1, NestedFields DEF Step
    <3>3. c[i + 1].text = c[l + 1].text
      <4> HIDE DEF node
      <4> QED BY <2>3, <3>2, SameNodeSameText
    <3>4. Cur(c, l + 1) <= Cur(c, i + 1)
      BY <3>1, <3>3 DEF Step, NoneAhead
    <3>5. Cur(c, l + 1) > Len(C[c[l + 1].text])
      BY <2>5, <1>1 DEF Step, Parsed, l
    <3>6. i + 1 \in 1..(Len(c) - 1)
      BY <1>1, <2>5
    <3>7. Cur(c, i + 1) \in 1..Len(C[c[i + 1].text])
      BY <3>6, NestedFields DEF Step
    <3>8. Cur(c, l + 1) \in Nat /\ Len(C[c[l + 1].text]) \in Nat
      BY <3>1, FrameFields DEF Step
    <3> QED BY <3>3, <3>4, <3>5, <3>7, <3>8
  <2> QED BY <1>1, <2>4, <2>5
<1>3. SUFFICES ASSUME NEW j \in 1..l, NEW i \in 1..(j - 1), d[i].text = d[j].text
               PROVE  Cur(d, j) <= Cur(d, i)
  BY DEF NoneAhead, l
<1>4. /\ i \in 1..Len(d) /\ i # l /\ j \in 1..Len(d) /\ j \in 1..Len(c) /\ i \in 1..Len(c)
      /\ i \in 1..(l - 1)
  BY <1>1 DEF l
<1>5. c[i].text = c[j].text /\ Cur(d, i) = Cur(c, i)
  BY <1>3, <1>4, StepFields DEF l
<1>6. Cur(c, j) <= Cur(c, i) /\ Cur(c, j) \in Nat /\ Cur(c, i) \in Nat
  BY <1>4, <1>5, FrameFields DEF Step, NoneAhead
<1>7. CASE j # l
  BY <1>4, <1>5, <1>6, <1>7, StepFields DEF l
<1>8. CASE j = l
  <2>1. Cur(d, j) = Cur(c, j) + 1
    BY <1>4, <1>8, StepFields DEF l
  <2>2. Cur(c, i) # Cur(c, j)
    BY <1>2, <1>4, <1>5, <1>8
  <2> QED BY <1>5, <1>6, <2>1, <2>2
<1> QED BY <1>7, <1>8

\* What was parsed since, and how far the stack goes back to that moment, after
\* the step.
LowAfter(d, low) == IF low < Len(d) THEN low ELSE Len(d)

\* The node just read was parsed since, if its frame began after the binding.
DoneAfter(c, d, done, low) ==
    IF low < Len(d) THEN done \union {<<c[Len(d)].text, Cur(c, Len(d))>>} ELSE done

\* What was covered is covered by the nodes parsed and the anchors that stay.
LEMMA StepCovered ==
    ASSUME NEW C, NEW c, NEW d, NEW A, NEW B, Step(C, c, d, A, B),
           NEW done, NEW low \in Nat, NEW m, NEW text, Covered(C, c, done, low, m, text)
    PROVE  Covered(C, d, DoneAfter(c, d, done, low), LowAfter(d, low), m, text)
<1> DEFINE l     == Len(d)
           done2 == DoneAfter(c, d, done, low)
           low2  == LowAfter(d, low)
<1>1. /\ Len(c) \in Nat /\ l \in Nat /\ l >= 1 /\ l <= Len(c) /\ l \in 1..Len(d)
      /\ l = Len(c) \/ l + 1 = Len(c)
  BY StepFields
<1>2. /\ low2 \in Nat /\ low2 <= low /\ low2 <= l
      /\ low < l => low2 = low /\ done2 = done \union {<<c[l].text, Cur(c, l)>>}
      /\ done \subseteq done2
  BY <1>1 DEF LowAfter, DoneAfter
<1> SUFFICES ASSUME NEW q \in 1..Len(C[text]), <<text, q>> \notin done2
             PROVE  Starting(d, low2, m, text, q)
  BY DEF Covered
<1> HIDE DEF l, done2, low2
<1>3. Starting(c, low, m, text, q)
  BY <1>2 DEF Covered
<1>4. PICK b \in (low + 1)..Len(c) :
        /\ c[b].via = "anchor" /\ c[b].name = m /\ c[b].text = text
        /\ Cur(c, b) <= q
        /\ \A k \in 1..(b - 1) : ~(Expanded(c[k]) /\ c[k].name = m)
  BY <1>3 DEF Starting
<1>5. b \in 1..Len(c) /\ Cur(c, b) \in Nat
  BY <1>1, FrameFields DEF Step
<1>6. b # l + 1
  <2> SUFFICES ASSUME b = l + 1 PROVE FALSE
    OBVIOUS
  <2>1. Cur(c, b) > Len(C[text])
    BY <1>1, <1>4, <1>5 DEF Step, Parsed, l
  <2>2. Len(C[text]) \in Nat
    BY <1>4, <1>5, FrameFields DEF Step
  <2> QED BY <1>4, <1>5, <2>1, <2>2
<1>7. b \in 1..l /\ b \in (low + 1)..l /\ low < l /\ low2 = low /\ low2 + 1 = low + 1
  BY <1>1, <1>2, <1>5, <1>6
<1>8. d[b].via = "anchor" /\ d[b].name = m /\ d[b].text = text
  BY <1>4, <1>7, StepFields DEF l
<1>9. Cur(d, b) <= q
  <2>1. CASE b # l
    BY <1>4, <1>7, <2>1, StepFields DEF l
  <2>2. CASE b = l
    <3>1. Cur(c, b) # q
      BY <1>2, <1>4, <1>7, <2>2
    <3>2. Cur(d, b) = Cur(c, b) + 1
      BY <1>7, <2>2, StepFields DEF l
    <3> QED BY <1>4, <1>5, <3>1, <3>2
  <2> QED BY <2>1, <2>2
<1>10. ASSUME NEW k \in 1..(b - 1)
       PROVE  ~(Expanded(d[k]) /\ d[k].name = m)
  <2>1. k \in 1..l
    BY <1>1, <1>7
  <2>2. d[k].via = c[k].via /\ d[k].name = c[k].name
    BY <2>1, StepFields DEF l
  <2> QED BY <1>4, <2>2 DEF Expanded
<1> QED BY <1>7, <1>8, <1>9, <1>10 DEF Starting, l

\* The node just read joins those parsed since the name was bound.
LEMMA StepSince ==
    ASSUME NEW C, NEW c, NEW d, NEW A, NEW B, Step(C, c, d, A, B),
           NEW n \in Name, NEW done, NEW low \in Nat, Since(C, c, A, n, done, low),
           B[n] = A[n]
    PROVE  Since(C, d, B, n, DoneAfter(c, d, done, low), LowAfter(d, low))
<1> DEFINE l     == Len(d)
           done2 == DoneAfter(c, d, done, low)
           low2  == LowAfter(d, low)
           last  == <<c[l].text, Cur(c, l)>>
           node  == NodeOf(C, c, l)
<1>1. /\ Len(c) \in Nat /\ l \in Nat /\ l >= 1 /\ l <= Len(c) /\ l \in 1..Len(d) /\ l \in 1..Len(c)
      /\ l = Len(c) \/ l + 1 = Len(c)
  BY StepFields
<1>2. /\ low2 \in Nat /\ low2 <= low /\ low2 <= l
      /\ low < l => low2 = low /\ done2 = done \union {last}
      /\ ~(low < l) => low2 = l /\ done2 = done
      /\ done \subseteq done2
  BY <1>1 DEF LowAfter, DoneAfter
<1>3. C[EmptyText] = <<>>
  BY DEF Step, Typed
<1>4. ASSUME NEW m \in Name, A[m] # Undefined, Covered(C, c, done, low, m, A[m])
      PROVE  B[m] # Undefined /\ Covered(C, d, done2, low2, m, B[m])
  <2>1. CASE B[m] = A[m]
    BY <1>4, <2>1, StepCovered
  <2>2. CASE B[m] # A[m]
    <3>1. B[m] = EmptyText
      BY <2>2 DEF Step, Bound
    <3> QED BY <1>3, <3>1, AliasAssumption DEF Covered
  <2> QED BY <2>1, <2>2
<1>5. low2 \in 0..l
  BY <1>1, <1>2
<1>6. B[n] # Undefined => Covered(C, d, done2, low2, n, B[n])
  BY <1>4 DEF Since
<1>7. ASSUME NEW t \in Text, NEW q \in 1..Len(C[t]), <<t, q>> \in done2
      PROVE  Harmless(C, d, B, n, done2, low2, C[t][q])
  <2>0. C[t][q] \in Node
    <3>1. C[t] \in Seq(Node)
      BY DEF Step, Typed
    <3> QED BY <3>1
  <2>1. CASE <<t, q>> \in done
    <3>1. Harmless(C, c, A, n, done, low, C[t][q])
      BY <2>1 DEF Since
    <3>2. C[t][q].name \in Name
      BY <2>0, NodeFields
    <3> HIDE DEF done2, low2
    <3> QED BY <1>2, <1>4, <3>1, <3>2 DEF Harmless
  <2>2. CASE <<t, q>> \notin done
    <3>1. low < l /\ C[t][q] = node
      BY <1>2, <1>7, <2>2 DEF NodeOf
    <3>2. node \in Node /\ node.name \in Name /\ node.text \in Text
      BY <2>0, <3>1, NodeFields
    <3>3. CASE l = Len(c)
      <4>1. NoFrame(node, B)
        BY <3>3 DEF Step, Parsed
      <4> HIDE DEF node, done2, low2
      <4> QED BY <1>3, <3>1, <3>2, <4>1, AliasAssumption DEF NoFrame, Harmless, Covered
    <3>4. CASE l + 1 = Len(c)
      <4>1. l \in 1..(Len(c) - 1) /\ l + 1 \in (low + 1)..Len(c) /\ l + 1 \in 1..Len(c)
        BY <1>1, <3>1, <3>4
      <4>2. /\ node.kind = "anchor" => c[l + 1].text = node.text
            /\ node.kind # "anchor" => A[node.name] = c[l + 1].text
            /\ c[l + 1].text \in Text
        BY <4>1, NestedFields DEF Step
      <4>3. \A q2 \in 1..(Cur(c, l + 1) - 1) : <<c[l + 1].text, q2>> \in done
        BY <4>1 DEF Since
      <4>4. Cur(c, l + 1) > Len(C[c[l + 1].text])
        BY <1>1, <3>4 DEF Step, Parsed
      <4>5. Cur(c, l + 1) \in Nat /\ Len(C[c[l + 1].text]) \in Nat
        BY <4>1, FrameFields DEF Step
      <4>6. \A q2 \in 1..Len(C[c[l + 1].text]) : <<c[l + 1].text, q2>> \in done2
        <5>1. \A q2 \in 1..Len(C[c[l + 1].text]) : q2 \in 1..(Cur(c, l + 1) - 1)
          BY <4>4, <4>5
        <5> QED BY <1>2, <4>3, <5>1
      <4>7. node.kind = "anchor" /\ node.name = n => node.text = A[n]
        BY <3>1, <4>1 DEF Since
      <4>8. B[node.name] = A[node.name]
        BY <1>1, <3>2, <3>4 DEF Step, Bound
      <4> HIDE DEF node, done2, low2
      <4>9. node.kind # "anchor" => B[node.name] # Undefined
        BY <4>2, <4>8, AliasAssumption
      <4> QED BY <3>1, <4>2, <4>6, <4>7, <4>8, <4>9 DEF Harmless, Covered
    <3> QED BY <1>1, <3>3, <3>4
  <2> QED BY <2>1, <2>2
<1>8. ASSUME NEW j \in (low2 + 1)..Len(d), NEW q \in 1..(Cur(d, j) - 1)
      PROVE  <<d[j].text, q>> \in done2
  <2>1. j \in 1..Len(d) /\ j \in 1..Len(c) /\ low < l /\ j \in (low + 1)..Len(c)
    BY <1>1, <1>2
  <2>2. d[j].text = c[j].text /\ Cur(c, j) \in Nat
    BY <2>1, StepFields, FrameFields DEF Step
  <2>3. \A q2 \in 1..(Cur(c, j) - 1) : <<c[j].text, q2>> \in done
    BY <2>1 DEF Since
  <2>4. CASE j # l
    BY <1>2, <2>1, <2>2, <2>3, <2>4, StepFields
  <2>5. CASE j = l
    <3>1. Cur(d, j) = Cur(c, j) + 1
      BY <2>1, <2>5, StepFields
    <3>2. q \in 1..(Cur(c, j) - 1) \/ q = Cur(c, j)
      BY <2>2, <3>1
    <3> QED BY <1>2, <2>1, <2>2, <2>3, <2>5, <3>2
  <2> QED BY <2>4, <2>5
<1>9. ASSUME NEW j \in 1..(Len(d) - 1), NodeOf(C, d, j).kind = "anchor", NodeOf(C, d, j).name = n
      PROVE  low2 >= j \/ B[n] = NodeOf(C, d, j).text
  <2>1. j \in 1..Len(d) /\ j # Len(d) /\ j \in 1..(Len(c) - 1)
    BY <1>1
  <2>2. NodeOf(C, d, j) = NodeOf(C, c, j)
    BY <2>1, StepFields
  <2>3. low >= j \/ A[n] = NodeOf(C, c, j).text
    BY <1>9, <2>1, <2>2 DEF Since
  <2> QED BY <1>1, <1>2, <2>1, <2>2, <2>3
<1> HIDE DEF done2, low2
<1> QED BY <1>5, <1>6, <1>7, <1>8, <1>9 DEF Since, done2, low2, l

\* A name that is bound to the empty text has nothing in it that could bind it.
LEMMA StepBinds ==
    ASSUME NEW C, NEW c, NEW d, NEW A, NEW B, Step(C, c, d, A, B),
           NEW n \in Name, B[n] # A[n]
    PROVE  Since(C, d, B, n, {}, Len(d))
<1>1. B[n] = EmptyText /\ C[EmptyText] = <<>>
  BY DEF Step, Bound, Typed
<1>2. Len(d) \in Nat
  BY StepFields
<1>3. Covered(C, d, {}, Len(d), n, B[n])
  BY <1>1 DEF Covered
<1>4. \A j \in (Len(d) + 1)..Len(d) : FALSE
  BY <1>2
<1>5. \A j \in 1..(Len(d) - 1) : Len(d) >= j
  BY <1>2
<1> QED BY <1>2, <1>3, <1>4, <1>5 DEF Since

\* Reading a node and leaving a text keep the invariant of the replays.
LEMMA StepReplayed ==
    ASSUME NEW C, NEW c, NEW d, NEW A, NEW B, Step(C, c, d, A, B), Replayed(C, c, A)
    PROVE  Replayed(C, d, B)
<1>1. ASSUME NEW n \in Name
      PROVE  \E done \in SUBSET (Text \X Nat) : \E low \in Nat : Since(C, d, B, n, done, low)
  <2>1. Len(d) \in Nat /\ Len(d) \in 1..Len(c)
    BY StepFields
  <2>2. CASE B[n] # A[n]
    BY <2>1, <2>2, StepBinds
  <2>3. CASE B[n] = A[n]
    <3>1. PICK done \in SUBSET (Text \X Nat), low \in Nat : Since(C, c, A, n, done, low)
      BY DEF Replayed
    <3>2. c[Len(d)].text \in Text /\ Cur(c, Len(d)) \in Nat
      BY <2>1, FrameFields DEF Step
    <3>3. DoneAfter(c, d, done, low) \in SUBSET (Text \X Nat) /\ LowAfter(d, low) \in Nat
      BY <2>1, <3>2 DEF DoneAfter, LowAfter
    <3>4. Since(C, d, B, n, DoneAfter(c, d, done, low), LowAfter(d, low))
      BY <2>3, <3>1, StepSince
    <3> QED BY <3>3, <3>4
  <2> QED BY <2>2, <2>3
<1> QED BY <1>1, StepNested, StepNoneAhead DEF Replayed

\* A text that is used under a name keeps it.
LEMMA BindingKept ==
    ASSUME NEW C, NEW c, NEW A, Typed(C, c, A), Kept(c, A), Replayed(C, c, A),
           Cur(c, Len(c)) \in 1..Len(C[c[Len(c)].text]),
           NodeOf(C, c, Len(c)).kind = "anchor",
           NEW i \in 1..Len(c), Expanded(c[i]), c[i].name = NodeOf(C, c, Len(c)).name
    PROVE  NodeOf(C, c, Len(c)).text = A[c[i].name]
<1> DEFINE node == NodeOf(C, c, Len(c))
<1>1. Len(c) \in 1..Len(c)
  BY DEF Typed
<1>2. node.name \in Name
  BY <1>1, FrameFields, NodeFields
<1>3. PICK done \in SUBSET (Text \X Nat), low \in Nat : Since(C, c, A, node.name, done, low)
  BY <1>2 DEF Replayed
<1>4. Nested(C, c) /\ NoneAhead(c)
  BY DEF Replayed
<1> HIDE DEF node
<1> SUFFICES ASSUME node.text # A[node.name] PROVE FALSE
  BY DEF node
<1> QED BY <1>2, <1>3, <1>4, NoConflict DEF node
-----------------------------------------------------------------------------
(* The frame of a node is entered.                                          *)

\* The node in front of the parser is parsed from a buffer.
Entered(C, c, d, A, B) ==
    LET node == NodeOf(C, c, Len(c))
        f    == d[Len(d)]
    IN  /\ Len(d) = Len(c) + 1
        /\ \A j \in 1..Len(c) :
             /\ d[j].text = c[j].text /\ d[j].name = c[j].name /\ d[j].via = c[j].via
             /\ Cur(d, j) = Cur(c, j)
        /\ Cur(d, Len(d)) = 1
        /\ Cur(c, Len(c)) \in 1..Len(C[c[Len(c)].text])
        /\ IsOf(f, node)
        /\ Expanded(f) => B = A /\ A[f.name] = f.text
        /\ f.via = "anchor" => B = [A EXCEPT ![f.name] = f.text]

Enter(C, c, d, A, B) ==
    /\ Typed(C, c, A) /\ Typed(C, d, B) /\ Kept(c, A) /\ Replayed(C, c, A)
    /\ Entered(C, c, d, A, B)

\* What a nested parse does to the frames below it.
LEMMA EnterFields ==
    ASSUME NEW C, NEW c, NEW d, NEW A, NEW B, Enter(C, c, d, A, B)
    PROVE  LET node == NodeOf(C, c, Len(c))
               f    == d[Len(d)]
           IN  /\ Len(c) \in Nat /\ Len(c) \in 1..Len(c) /\ Len(d) = Len(c) + 1
               /\ node \in Node /\ node.name \in Name /\ IsOf(f, node)
               /\ Cur(c, Len(c)) \in 1..Len(C[c[Len(c)].text])
               /\ \A j \in 1..Len(c) :
                    /\ d[j].text = c[j].text /\ d[j].name = c[j].name /\ d[j].via = c[j].via
                    /\ Cur(d, j) = Cur(c, j) /\ NodeOf(C, d, j) = NodeOf(C, c, j)
               /\ Cur(d, Len(d)) = 1
               /\ \A n \in Name : B[n] # A[n] =>
                    /\ f.via = "anchor" /\ node.kind = "anchor" /\ node.name = n /\ f.name = n
                    /\ B[n] = f.text /\ f.text = node.text
                    /\ \A i \in 1..Len(c) : ~(Expanded(c[i]) /\ c[i].name = n)
<1> DEFINE node == NodeOf(C, c, Len(c))
           f    == d[Len(d)]
<1>1. Len(c) \in Nat /\ Len(c) \in 1..Len(c) /\ Len(d) = Len(c) + 1
  BY DEF Enter, Entered, Typed
<1>2. Cur(c, Len(c)) \in 1..Len(C[c[Len(c)].text]) /\ IsOf(f, node)
  BY DEF Enter, Entered
<1>3. node \in Node
  BY <1>1, <1>2, FrameFields DEF Enter
<1>4. node.name \in Name /\ node.kind \in {"scalar", "anchor", "alias", "override"}
  BY <1>3, NodeFields
<1>5. \A j \in 1..Len(c) :
        /\ d[j].text = c[j].text /\ d[j].name = c[j].name /\ d[j].via = c[j].via
        /\ Cur(d, j) = Cur(c, j) /\ NodeOf(C, d, j) = NodeOf(C, c, j)
  BY DEF Enter, Entered, NodeOf
<1>6. Cur(d, Len(d)) = 1
  BY DEF Enter, Entered
<1>7. f.via \in {"document", "anchor", "alias", "override"}
  <2>1. Len(d) \in 1..Len(d)
    BY <1>1
  <2> QED BY <2>1, FrameFields DEF Enter
<1>8. ASSUME NEW n \in Name, B[n] # A[n]
      PROVE  /\ f.via = "anchor" /\ node.kind = "anchor" /\ node.name = n /\ f.name = n
             /\ B[n] = f.text /\ f.text = node.text
             /\ \A i \in 1..Len(c) : ~(Expanded(c[i]) /\ c[i].name = n)
  <2>1. f.via = "anchor" /\ node.kind = "anchor" /\ f.text = node.text /\ f.name = node.name
    <3>1. ~Expanded(f)
      BY <1>8 DEF Enter, Entered
    <3>2. f.via = node.kind /\ f.via # "alias" /\ f.via # "override"
      BY <1>2, <3>1 DEF Expanded, IsOf
    <3>3. f.via = "anchor"
      <4> HIDE DEF f, node
      <4> QED BY <1>4, <1>7, <3>2
    <3> QED BY <1>2, <3>3 DEF IsOf
  <2>2. B = [A EXCEPT ![f.name] = f.text] /\ A \in [Name -> Text \union {Undefined}]
    BY <2>1 DEF Enter, Entered, Typed
  <2>3. f.name = n /\ B[n] = f.text
    BY <1>8, <2>2
  <2>4. ASSUME NEW i \in 1..Len(c), Expanded(c[i]), c[i].name = n
        PROVE  FALSE
    <3>1. c[i].name = node.name
      BY <2>1, <2>3, <2>4
    <3>2. node.text = A[c[i].name]
      BY <1>2, <2>1, <2>4, <3>1, BindingKept DEF Enter
    <3> QED BY <1>8, <2>1, <2>3, <2>4, <3>2
  <2> QED BY <2>1, <2>3, <2>4
<1> QED BY <1>1, <1>2, <1>3, <1>4, <1>5, <1>6, <1>8

\* The frame of a nested parse is of the node in front of its caller.
LEMMA EnterNested ==
    ASSUME NEW C, NEW c, NEW d, NEW A, NEW B, Enter(C, c, d, A, B)
    PROVE  Nested(C, d)
<1> SUFFICES ASSUME NEW j \in 1..(Len(d) - 1)
             PROVE  /\ Cur(d, j) \in 1..Len(C[d[j].text])
                    /\ IsOf(d[j + 1], NodeOf(C, d, j))
  BY DEF Nested
<1>1. Len(c) \in Nat /\ Len(d) = Len(c) + 1 /\ j \in 1..Len(c)
  BY EnterFields
<1>2. d[j].text = c[j].text /\ Cur(d, j) = Cur(c, j) /\ NodeOf(C, d, j) = NodeOf(C, c, j)
  BY <1>1, EnterFields
<1>3. CASE j = Len(c)
  BY <1>1, <1>2, <1>3, EnterFields
<1>4. CASE j # Len(c)
  <2>1. j \in 1..(Len(c) - 1) /\ j + 1 \in 1..Len(c)
    BY <1>1, <1>4
  <2>2. Cur(c, j) \in 1..Len(C[c[j].text]) /\ IsOf(c[j + 1], NodeOf(C, c, j))
    BY <2>1 DEF Enter, Replayed, Nested
  <2>3. IsOf(d[j + 1], NodeOf(C, c, j))
    BY <2>1, <2>2, EnterFields DEF IsOf
  <2> QED BY <1>2, <2>2, <2>3
<1> QED BY <1>3, <1>4

\* A nested parse begins with the first node, where none is ahead of it.
LEMMA EnterNoneAhead ==
    ASSUME NEW C, NEW c, NEW d, NEW A, NEW B, Enter(C, c, d, A, B)
    PROVE  NoneAhead(d)
<1> SUFFICES ASSUME NEW j \in 1..Len(d), NEW i \in 1..(j - 1), d[i].text = d[j].text
             PROVE  Cur(d, j) <= Cur(d, i)
  BY DEF NoneAhead
<1>1. Len(c) \in Nat /\ Len(d) = Len(c) + 1 /\ i \in 1..Len(c) /\ i \in 1..(Len(d) - 1)
  BY EnterFields
<1>2. CASE j = Len(d)
  <2>1. Cur(d, j) = 1
    BY <1>2, EnterFields
  <2>2. Cur(d, i) \in 1..Len(C[d[i].text])
    BY <1>1, EnterNested DEF Nested
  <2> QED BY <2>1, <2>2
<1>3. CASE j # Len(d)
  <2>1. j \in 1..Len(c)
    BY <1>1, <1>3
  <2>2. /\ c[i].text = c[j].text /\ Cur(d, i) = Cur(c, i) /\ Cur(d, j) = Cur(c, j)
    BY <1>1, <2>1, EnterFields
  <2>3. NoneAhead(c)
    BY DEF Enter, Replayed
  <2> QED BY <2>1, <2>2, <2>3 DEF NoneAhead
<1> QED BY <1>2, <1>3

\* An anchor binds no name whose text is being expanded below it.
LEMMA EnterKept ==
    ASSUME NEW C, NEW c, NEW d, NEW A, NEW B, Enter(C, c, d, A, B)
    PROVE  Kept(d, B)
<1> SUFFICES ASSUME NEW i \in 1..Len(d), Expanded(d[i])
             PROVE  d[i].name \in Name /\ B[d[i].name] = d[i].text
  BY DEF Kept
<1>1. Len(c) \in Nat /\ Len(d) = Len(c) + 1
  BY EnterFields
<1>2. CASE i = Len(d)
  <2>1. B[d[i].name] = d[i].text
    BY <1>2 DEF Enter, Entered
  <2>2. d[i].name \in Name
    BY <1>2, EnterFields DEF IsOf
  <2> QED BY <2>1, <2>2
<1>3. CASE i # Len(d)
  <2>1. i \in 1..Len(c)
    BY <1>1, <1>3
  <2>2. d[i].text = c[i].text /\ d[i].name = c[i].name /\ d[i].via = c[i].via
    BY <2>1, EnterFields
  <2>3. c[i].name \in Name /\ A[c[i].name] = c[i].text /\ Expanded(c[i])
    BY <2>1, <2>2 DEF Enter, Kept, Expanded
  <2>4. B[c[i].name] = A[c[i].name]
    BY <2>1, <2>3, EnterFields
  <2> QED BY <2>2, <2>3, <2>4
<1> QED BY <1>2, <1>3

\* What was covered is covered below the frame of a nested parse.
LEMMA EnterCovered ==
    ASSUME NEW C, NEW c, NEW d, NEW A, NEW B, Enter(C, c, d, A, B),
           NEW done, NEW low \in 0..Len(c), NEW m, NEW text,
           Covered(C, c, done, low, m, text)
    PROVE  Covered(C, d, done, low, m, text)
<1> SUFFICES ASSUME NEW q \in 1..Len(C[text]), Starting(c, low, m, text, q)
             PROVE  Starting(d, low, m, text, q)
  BY DEF Covered
<1>1. PICK b \in (low + 1)..Len(c) :
        /\ c[b].via = "anchor" /\ c[b].name = m /\ c[b].text = text
        /\ Cur(c, b) <= q
        /\ \A k \in 1..(b - 1) : ~(Expanded(c[k]) /\ c[k].name = m)
  BY DEF Starting
<1>2. /\ Len(c) \in Nat /\ Len(d) = Len(c) + 1 /\ b \in 1..Len(c) /\ b \in (low + 1)..Len(d)
  BY EnterFields
<1>3. /\ d[b].via = "anchor" /\ d[b].name = m /\ d[b].text = text /\ Cur(d, b) <= q
  BY <1>1, <1>2, EnterFields
<1>4. ASSUME NEW k \in 1..(b - 1) PROVE ~(Expanded(d[k]) /\ d[k].name = m)
  <2>1. k \in 1..Len(c)
    BY <1>2
  <2>2. d[k].via = c[k].via /\ d[k].name = c[k].name
    BY <2>1, EnterFields
  <2> QED BY <1>1, <2>2 DEF Expanded
<1> QED BY <1>2, <1>3, <1>4 DEF Starting

\* The text of the frame is about to be parsed under the name it is now bound to.
LEMMA EnterStarts ==
    ASSUME NEW C, NEW c, NEW d, NEW A, NEW B, Enter(C, c, d, A, B),
           NEW done, NEW low \in 0..Len(c), NEW m \in Name, B[m] # A[m]
    PROVE  Covered(C, d, done, low, m, B[m])
<1> SUFFICES ASSUME NEW q \in 1..Len(C[B[m]]) PROVE Starting(d, low, m, B[m], q)
  BY DEF Covered
<1> DEFINE b == Len(d)
<1>1. Len(c) \in Nat /\ b = Len(c) + 1
  BY EnterFields
<1>2. b \in (low + 1)..Len(d) /\ b - 1 = Len(c)
  BY <1>1
<1>3. /\ d[b].via = "anchor" /\ d[b].name = m /\ d[b].text = B[m]
      /\ \A i \in 1..Len(c) : ~(Expanded(c[i]) /\ c[i].name = m)
  BY EnterFields
<1>4. Cur(d, b) <= q
  BY EnterFields
<1>5. \A i \in 1..Len(c) : d[i].via = c[i].via /\ d[i].name = c[i].name
  BY EnterFields
<1>6. \A k \in 1..(b - 1) : ~(Expanded(d[k]) /\ d[k].name = m)
  BY <1>2, <1>3, <1>5 DEF Expanded
<1> HIDE DEF b
<1> QED BY <1>2, <1>3, <1>4, <1>6 DEF Starting

\* A nested parse that binds nothing to the name keeps what was parsed since.
LEMMA EnterSince ==
    ASSUME NEW C, NEW c, NEW d, NEW A, NEW B, Enter(C, c, d, A, B),
           NEW n \in Name, NEW done, NEW low \in Nat, Since(C, c, A, n, done, low),
           B[n] = A[n]
    PROVE  Since(C, d, B, n, done, low)
<1>1. Len(c) \in Nat /\ Len(d) = Len(c) + 1 /\ low \in 0..Len(c) /\ low \in 0..Len(d)
  BY EnterFields DEF Since
<1>2. ASSUME NEW m \in Name, A[m] # Undefined, Covered(C, c, done, low, m, A[m])
      PROVE  B[m] # Undefined /\ Covered(C, d, done, low, m, B[m])
  <2>1. CASE B[m] = A[m]
    BY <1>1, <1>2, <2>1, EnterCovered
  <2>2. CASE B[m] # A[m]
    <3>1. Covered(C, d, done, low, m, B[m])
      BY <1>1, <2>2, EnterStarts
    <3>2. B[m] = NodeOf(C, c, Len(c)).text /\ NodeOf(C, c, Len(c)) \in Node
      BY <2>2, EnterFields
    <3> QED BY <3>1, <3>2, NodeFields, AliasAssumption
  <2> QED BY <2>1, <2>2
<1>3. B[n] # Undefined => Covered(C, d, done, low, n, B[n])
  BY <1>2 DEF Since
<1>4. ASSUME NEW t \in Text, NEW q \in 1..Len(C[t]), <<t, q>> \in done
      PROVE  Harmless(C, d, B, n, done, low, C[t][q])
  <2>1. Harmless(C, c, A, n, done, low, C[t][q])
    BY <1>4 DEF Since
  <2>2. C[t] \in Seq(Node)
    BY DEF Enter, Typed
  <2>3. C[t][q] \in Node
    BY <2>2
  <2>4. C[t][q].name \in Name
    BY <2>3, NodeFields
  <2> QED BY <1>2, <2>1, <2>4 DEF Harmless
<1>5. ASSUME NEW j \in (low + 1)..Len(d), NEW q \in 1..(Cur(d, j) - 1)
      PROVE  <<d[j].text, q>> \in done
  <2>1. j # Len(d)
    <3>1. Cur(d, Len(d)) = 1
      BY EnterFields
    <3> QED BY <1>5, <3>1
  <2>2. j \in 1..Len(c) /\ j \in (low + 1)..Len(c)
    BY <1>1, <2>1
  <2>3. d[j].text = c[j].text /\ Cur(d, j) = Cur(c, j)
    BY <2>2, EnterFields
  <2> QED BY <1>5, <2>2, <2>3 DEF Since
<1>6. ASSUME NEW j \in 1..(Len(d) - 1), NodeOf(C, d, j).kind = "anchor", NodeOf(C, d, j).name = n
      PROVE  low >= j \/ B[n] = NodeOf(C, d, j).text
  <2>1. j \in 1..Len(c)
    BY <1>1
  <2>2. NodeOf(C, d, j) = NodeOf(C, c, j)
    BY <2>1, EnterFields
  <2>3. CASE j = Len(c)
    <3> DEFINE node == NodeOf(C, c, Len(c))
               f    == d[Len(d)]
    <3>1. IsOf(f, node) /\ node.kind = "anchor" /\ node.name = n
      BY <1>6, <2>2, <2>3, EnterFields
    <3>2. f.via = "anchor" /\ f.text = node.text /\ f.name = n
      BY <3>1 DEF IsOf
    <3>3. B = [A EXCEPT ![n] = f.text] /\ A \in [Name -> Text \union {Undefined}]
      BY <3>2 DEF Enter, Entered, Typed
    <3> QED BY <2>2, <2>3, <3>2, <3>3
  <2>4. CASE j # Len(c)
    <3>1. j \in 1..(Len(c) - 1)
      BY <1>1, <2>4
    <3> QED BY <1>6, <2>2, <3>1 DEF Since
  <2> QED BY <2>3, <2>4
<1> QED BY <1>1, <1>3, <1>4, <1>5, <1>6 DEF Since

\* A nested parse that binds the name starts the record of it anew.
LEMMA EnterBinds ==
    ASSUME NEW C, NEW c, NEW d, NEW A, NEW B, Enter(C, c, d, A, B),
           NEW n \in Name, B[n] # A[n]
    PROVE  Since(C, d, B, n, {}, Len(c))
<1>1. Len(c) \in Nat /\ Len(d) = Len(c) + 1
  BY EnterFields
<1>2. Len(c) \in 0..Len(c) /\ Len(c) \in 0..Len(d)
  BY <1>1
<1>3. Covered(C, d, {}, Len(c), n, B[n])
  BY <1>2, EnterStarts
<1>4. ASSUME NEW j \in (Len(c) + 1)..Len(d), NEW q \in 1..(Cur(d, j) - 1)
      PROVE  FALSE
  <2>1. j = Len(d)
    BY <1>1
  <2>2. Cur(d, Len(d)) = 1
    BY EnterFields
  <2> QED BY <1>4, <2>1, <2>2
<1>5. \A j \in 1..(Len(d) - 1) : Len(c) >= j
  BY <1>1
<1> QED BY <1>2, <1>3, <1>4, <1>5 DEF Since

\* A nested parse keeps the invariant of the replays.
LEMMA EnterReplayed ==
    ASSUME NEW C, NEW c, NEW d, NEW A, NEW B, Enter(C, c, d, A, B)
    PROVE  Replayed(C, d, B)
<1>1. ASSUME NEW n \in Name
      PROVE  \E done \in SUBSET (Text \X Nat) : \E low \in Nat : Since(C, d, B, n, done, low)
  <2>1. CASE B[n] # A[n]
    BY <2>1, EnterBinds, EnterFields
  <2>2. CASE B[n] = A[n]
    <3>1. PICK done \in SUBSET (Text \X Nat), low \in Nat : Since(C, c, A, n, done, low)
      BY DEF Enter, Replayed
    <3> QED BY <2>2, <3>1, EnterSince
  <2> QED BY <2>1, <2>2
<1> QED BY <1>1, EnterNested, EnterNoneAhead DEF Replayed

\* An anchor in front of the parser binds no name that is being expanded.
LEMMA BoundKept ==
    ASSUME NEW C, NEW c, NEW A, Typed(C, c, A), Kept(c, A), Replayed(C, c, A),
           Cur(c, Len(c)) \in 1..Len(C[c[Len(c)].text]),
           NodeOf(C, c, Len(c)).kind = "anchor",
           NEW B, B = [A EXCEPT ![NodeOf(C, c, Len(c)).name] = NodeOf(C, c, Len(c)).text]
    PROVE  Kept(c, B)
<1> DEFINE node == NodeOf(C, c, Len(c))
<1> SUFFICES ASSUME NEW i \in 1..Len(c), Expanded(c[i])
             PROVE  c[i].name \in Name /\ B[c[i].name] = c[i].text
  BY DEF Kept
<1>1. c[i].name \in Name /\ A[c[i].name] = c[i].text
  BY DEF Kept
<1>2. CASE c[i].name = node.name
  <2>1. node.text = A[c[i].name]
    BY <1>2, BindingKept
  <2> QED BY <1>1, <2>1 DEF Typed
<1>3. CASE c[i].name # node.name
  BY <1>1, <1>3 DEF Typed
<1> QED BY <1>2, <1>3

\* A document is begun with no names, and with one frame.
LEMMA StartReplayed ==
    ASSUME NEW C, NEW c, NEW A, Typed(C, c, A), Len(c) = 1, c[1].at = 1,
           c[1].via = "document", \A n \in Name : A[n] = Undefined
    PROVE  Kept(c, A) /\ Replayed(C, c, A)
<1>1. Cur(c, 1) = 1 /\ DOMAIN c = {1}
  BY DEF Cur, Typed
<1>2. Kept(c, A)
  BY DEF Kept, Expanded
<1>3. Nested(C, c)
  BY DEF Nested
<1>4. NoneAhead(c)
  BY DEF NoneAhead
<1>5. ASSUME NEW n \in Name PROVE Since(C, c, A, n, {}, 0)
  <2>1. \A j \in (0 + 1)..Len(c) : \A q \in 1..(Cur(c, j) - 1) : FALSE
    BY <1>1
  <2>2. \A j \in 1..(Len(c) - 1) : FALSE
    OBVIOUS
  <2>3. 0 \in 0..Len(c)
    OBVIOUS
  <2> QED BY <2>1, <2>2, <2>3 DEF Since
<1> QED BY <1>2, <1>3, <1>4, <1>5 DEF Replayed
-----------------------------------------------------------------------------
\* The inductive invariant: the map keeps the texts expanded, and, while there
\* are nodes to come, every frame replays what was parsed before.
KInv ==
    /\ contents \in Contents
    /\ Kept(stack, yamlAliasMap)
    /\ status = "parsing" /\ stack # <<>> => Replayed(contents, stack, yamlAliasMap)

\* The state of the parser has the types of the lemmas above.
LEMMA StateTyped ==
    ASSUME TypeOK, contents \in Contents, stack # <<>>
    PROVE  Typed(contents, stack, yamlAliasMap)
BY AliasAssumption DEF TypeOK, Typed

\* The node in front of the parser is that of the innermost frame.
LEMMA InFront ==
    ASSUME TypeOK, stack # <<>>, Top.at <= Len(contents[Top.text])
    PROVE  /\ NodeOf(contents, stack, Len(stack)) = This
           /\ Cur(stack, Len(stack)) \in 1..Len(contents[stack[Len(stack)].text])
           /\ This \in Node
<1>1. This \in Node /\ Top \in Frame
  BY ThisIsNode
<1>2. Top.at \in Nat \ {0} /\ contents[Top.text] \in Seq(Node)
  BY <1>1 DEF Frame, TypeOK
<1> QED BY <1>1, <1>2 DEF NodeOf, This, Top, Cur

\* The frames after a node is read.
LEMMA PassedFields ==
    ASSUME TypeOK, stack # <<>>
    PROVE  /\ Passed \in Seq(Frame) /\ Len(Passed) = Len(stack) /\ Passed # <<>>
           /\ \A j \in 1..Len(stack) :
                /\ Passed[j].text = stack[j].text /\ Passed[j].name = stack[j].name
                /\ Passed[j].via = stack[j].via
                /\ j # Len(stack) => Passed[j].at = stack[j].at
                /\ j = Len(stack) => Passed[j].at = stack[j].at + 1
<1>1. Len(stack) \in Nat \ {0} /\ stack \in Seq(Frame)
  BY DEF TypeOK
<1>2. Passed \in Seq(Frame) /\ Len(Passed) = Len(stack)
  BY PassedStack
<1>3. Passed = [stack EXCEPT ![Len(stack)] = [stack[Len(stack)] EXCEPT !.at = @ + 1]]
  BY DEF Passed
<1>4. stack[Len(stack)] \in Frame /\ DOMAIN stack = 1..Len(stack)
  BY <1>1
<1>5. ASSUME NEW j \in 1..Len(stack)
      PROVE  /\ Passed[j].text = stack[j].text /\ Passed[j].name = stack[j].name
             /\ Passed[j].via = stack[j].via
             /\ j # Len(stack) => Passed[j].at = stack[j].at
             /\ j = Len(stack) => Passed[j].at = stack[j].at + 1
  <2>1. CASE j = Len(stack)
    <3>1. Passed[j] = [stack[j] EXCEPT !.at = @ + 1]
      BY <1>3, <1>4, <2>1
    <3> QED BY <1>4, <2>1, <3>1 DEF Frame
  <2>2. CASE j # Len(stack)
    BY <1>3, <1>4, <2>2
  <2> QED BY <2>1, <2>2
<1> QED BY <1>1, <1>2, <1>5

\* The node needs no frame: the next one is in front.
LEMMA PassNodeKInv ==
    ASSUME TypeOK, KInv, status = "parsing", stack # <<>>, Top.at <= Len(contents[Top.text]),
           PassNode, contents' = contents, TypeOK',
           NoFrame(This, yamlAliasMap'),
           \A n \in Name : yamlAliasMap'[n] # yamlAliasMap[n] =>
               This.kind = "anchor" /\ This.name = n /\ yamlAliasMap'[n] = EmptyText,
           This.kind = "anchor" => yamlAliasMap' = [yamlAliasMap EXCEPT ![This.name] = This.text],
           This.kind # "anchor" => yamlAliasMap' = yamlAliasMap
    PROVE  KInv'
<1> DEFINE C == contents
           c == stack
           d == stack'
           A == yamlAliasMap
           B == yamlAliasMap'
<1>1. /\ d = Passed /\ d \in Seq(Frame) /\ Len(d) = Len(c) /\ d # <<>>
      /\ Len(c) \in Nat /\ Len(c) >= 1
  BY PassedFields DEF PassNode, TypeOK
<1>2. \A j \in 1..Len(c) :
        /\ d[j].text = c[j].text /\ d[j].name = c[j].name /\ d[j].via = c[j].via
        /\ j # Len(c) => Cur(d, j) = Cur(c, j)
        /\ j = Len(c) => Cur(d, j) = Cur(c, j) + 1
  BY <1>1, PassedFields DEF Cur
<1>3. Typed(C, c, A) /\ Kept(c, A) /\ Replayed(C, c, A)
  BY StateTyped DEF KInv
<1>4. Typed(C, d, B)
  BY <1>1, <1>3 DEF Typed, TypeOK
<1>5. NodeOf(C, c, Len(c)) = This /\ Cur(c, Len(c)) \in 1..Len(C[c[Len(c)].text])
  BY InFront
<1>6. Advanced(c, d)
  <2>1. Alike(c, d)
    BY <1>1, <1>2 DEF Alike
  <2>2. \A j \in 1..(Len(d) - 1) : j \in 1..Len(c) /\ j # Len(c)
    BY <1>1
  <2>3. Len(d) \in 1..Len(c)
    BY <1>1
  <2> QED BY <1>1, <1>2, <2>1, <2>2, <2>3 DEF Advanced
<1>7. Parsed(C, c, d, B)
  BY <1>1, <1>5 DEF Parsed
<1>8. Bound(C, c, d, A, B)
  BY <1>1, <1>5 DEF Bound
<1>9. Step(C, c, d, A, B)
  BY <1>3, <1>4, <1>6, <1>7, <1>8 DEF Step, Replayed
<1>10. Replayed(C, d, B)
  BY <1>3, <1>9, StepReplayed
<1>11. Kept(c, B)
  BY <1>3, <1>5, BoundKept
<1>12. Kept(d, B)
  BY <1>1, <1>2, <1>11 DEF Kept, Expanded
<1> QED BY <1>10, <1>12 DEF KInv

\* Its text is parsed.
LEMMA ParseBufferKInv ==
    ASSUME TypeOK, KInv, status = "parsing", stack # <<>>, Top.at <= Len(contents[Top.text]),
           NEW how, NEW t, ParseBuffer(how, t), contents' = contents, TypeOK',
           how = This.kind, how # "override" => t # EmptyText,
           how = "anchor" => /\ t = This.text
                             /\ yamlAliasMap' = [yamlAliasMap EXCEPT ![This.name] = t],
           how # "anchor" => /\ t = yamlAliasMap[This.name]
                             /\ yamlAliasMap' = yamlAliasMap
    PROVE  KInv'
<1> DEFINE C == contents
           c == stack
           d == stack'
           A == yamlAliasMap
           B == yamlAliasMap'
           f == [text |-> t, at |-> 1, name |-> This.name, via |-> how]
<1>1. /\ d = Append(Passed, f) /\ Passed \in Seq(Frame) /\ Len(Passed) = Len(c)
      /\ Len(c) \in Nat /\ Len(c) >= 1
  BY PassedFields DEF ParseBuffer, TypeOK
<1>2. Len(d) = Len(c) + 1 /\ d[Len(c) + 1] = f /\ \A j \in 1..Len(c) : d[j] = Passed[j]
  BY <1>1
<1>3. \A j \in 1..Len(c) :
        /\ d[j].text = c[j].text /\ d[j].name = c[j].name /\ d[j].via = c[j].via
        /\ Cur(d, j) = Cur(c, j)
  <2> SUFFICES ASSUME NEW j \in 1..Len(c)
               PROVE  /\ d[j].text = c[j].text /\ d[j].name = c[j].name /\ d[j].via = c[j].via
                      /\ Cur(d, j) = Cur(c, j)
    OBVIOUS
  <2>1. d[j].text = c[j].text /\ d[j].name = c[j].name /\ d[j].via = c[j].via
    BY <1>2, PassedFields
  <2>2. Cur(d, j) = d[j].at - 1
    BY <1>1, <1>2 DEF Cur
  <2>3. c[j].at \in Nat
    <3>1. c[j] \in Frame
      BY DEF TypeOK
    <3> QED BY <3>1 DEF Frame
  <2>4. CASE j = Len(c)
    BY <1>2, <2>2, <2>3, <2>4, PassedFields DEF Cur
  <2>5. CASE j # Len(c)
    BY <1>2, <2>2, <2>5, PassedFields DEF Cur
  <2> QED BY <2>1, <2>4, <2>5
<1>4. Typed(C, c, A) /\ Kept(c, A) /\ Replayed(C, c, A)
  BY StateTyped DEF KInv
<1>5. Typed(C, d, B)
  <2>1. d # <<>>
    BY <1>1
  <2> QED BY <1>4, <2>1 DEF Typed, TypeOK
<1>6. /\ NodeOf(C, c, Len(c)) = This /\ Cur(c, Len(c)) \in 1..Len(C[c[Len(c)].text])
  BY InFront
<1>7. Cur(d, Len(d)) = 1
  BY <1>2 DEF Cur
<1>8. IsOf(f, This)
  BY DEF IsOf
<1>9. Expanded(f) => B = A /\ A[f.name] = f.text
  BY DEF Expanded
<1>10. f.via = "anchor" => B = [A EXCEPT ![f.name] = f.text]
  OBVIOUS
<1> HIDE DEF f
<1>11. Entered(C, c, d, A, B)
  BY <1>2, <1>3, <1>6, <1>7, <1>8, <1>9, <1>10 DEF Entered
<1>12. Enter(C, c, d, A, B)
  BY <1>4, <1>5, <1>11 DEF Enter
<1>13. Kept(d, B) /\ Replayed(C, d, B)
  BY <1>12, EnterKept, EnterReplayed
<1> QED BY <1>13 DEF KInv

\* A text was parsed, or is left by an exception.
LEMMA LeaveTextKInv ==
    ASSUME TypeOK, KInv, stack # <<>>, LeaveText, TypeOK',
           \/ status' # "parsing"
           \/ status = "parsing" /\ Top.at > Len(contents[Top.text])
    PROVE  KInv'
<1> DEFINE C == contents
           c == stack
           d == stack'
           A == yamlAliasMap
           l == Len(c) - 1
<1>1. d = SubSeq(c, 1, l) /\ contents' = C /\ yamlAliasMap' = A
  BY DEF LeaveText
<1>2. Len(c) \in Nat /\ l \in Nat /\ l + 1 = Len(c) /\ c \in Seq(Frame)
  BY DEF TypeOK
<1> HIDE DEF l
<1>3. Len(d) = (IF 1 <= l THEN l - 1 + 1 ELSE 0) /\ d \in Seq(Frame)
  BY <1>1, <1>2, SubSeqProperties
<1>4. \A j \in 1..(l - 1 + 1) : d[j] = c[1 + j - 1]
  BY <1>1, <1>2, SubSeqProperties
<1>5. Len(d) = l
  BY <1>2, <1>3
<1>6. \A j \in 1..l : d[j] = c[j]
  <2> SUFFICES ASSUME NEW j \in 1..l PROVE d[j] = c[j]
    OBVIOUS
  <2>1. j \in 1..(l - 1 + 1) /\ 1 + j - 1 = j
    BY <1>2
  <2> QED BY <1>4, <2>1
<1>7. Kept(d, A)
  <2>1. \A j \in 1..l : j \in 1..Len(c)
    BY <1>2
  <2> QED BY <1>5, <1>6, <2>1 DEF KInv, Kept
<1>8. ASSUME status = "parsing", Top.at > Len(C[Top.text]), d # <<>>
      PROVE  Replayed(C, d, A)
  <2>1. l >= 1 /\ l \in 1..(Len(c) - 1) /\ l \in 1..Len(c) /\ l + 1 = Len(c)
    <3>1. l # 0
      BY <1>3, <1>5, <1>8
    <3> QED BY <1>2, <3>1
  <2>2. Typed(C, c, A) /\ Kept(c, A) /\ Replayed(C, c, A)
    BY <1>8, StateTyped DEF KInv
  <2>3. Typed(C, d, A)
    BY <1>3, <1>8, <2>2 DEF Typed
  <2>4. \A j \in 1..l :
          /\ d[j].text = c[j].text /\ d[j].name = c[j].name /\ d[j].via = c[j].via
          /\ j # l => Cur(d, j) = Cur(c, j)
          /\ j = l => Cur(d, j) = Cur(c, j) + 1
    <3> SUFFICES ASSUME NEW j \in 1..l
                 PROVE  /\ j # l => Cur(d, j) = Cur(c, j)
                        /\ j = l => Cur(d, j) = Cur(c, j) + 1
      BY <1>6
    <3>1. j # Len(c) /\ j \in 1..Len(c)
      BY <2>1
    <3>2. Cur(c, j) = c[j].at - 1 /\ c[j].at \in Nat
      BY <2>2, <3>1, FrameFields DEF Cur
    <3> QED BY <1>5, <1>6, <3>2 DEF Cur
  <2>5. Advanced(c, d)
    <3>1. Alike(c, d)
      BY <1>5, <2>4 DEF Alike
    <3>2. \A j \in 1..(Len(d) - 1) : j \in 1..l /\ j # l
      BY <1>2, <1>5
    <3> QED BY <1>5, <2>1, <2>4, <3>1, <3>2 DEF Advanced
  <2>6. Parsed(C, c, d, A)
    <3>1. Cur(c, l) \in 1..Len(C[c[l].text])
      BY <2>1, <2>2 DEF Replayed, Nested
    <3>2. Cur(c, l + 1) > Len(C[c[l + 1].text])
      BY <1>8, <2>1 DEF Cur, Top
    <3> QED BY <1>5, <2>1, <3>1, <3>2 DEF Parsed
  <2>7. Step(C, c, d, A, A)
    BY <2>2, <2>3, <2>5, <2>6 DEF Step, Replayed, Bound
  <2> QED BY <2>2, <2>7, StepReplayed
<1> QED BY <1>1, <1>7, <1>8 DEF KInv

\* An exception begins; an anchor may have bound its name before.
LEMMA ThrowKInv ==
    ASSUME KInv, contents' = contents, stack' = stack, status' # "parsing",
           Kept(stack, yamlAliasMap')
    PROVE  KInv'
BY DEF KInv

\* A document starts with an empty map.
LEMMA NewDocumentKInv ==
    ASSUME contents \in Contents, contents' = contents, TypeOK',
           NEW doc, stack' = <<DocumentFrame(doc)>>,
           yamlAliasMap' = [n \in Name |-> Undefined]
    PROVE  KInv'
<1>1. /\ stack' # <<>> /\ Len(stack') = 1 /\ stack'[1].at = 1 /\ stack'[1].via = "document"
  BY DEF DocumentFrame
<1>2. Typed(contents', stack', yamlAliasMap')
  BY <1>1, AliasAssumption DEF TypeOK, Typed
<1>3. Kept(stack', yamlAliasMap') /\ Replayed(contents', stack', yamlAliasMap')
  BY <1>1, <1>2, StartReplayed
<1> QED BY <1>3 DEF KInv

\* Every step keeps the invariant.
LEMMA NextKInv ==
    ASSUME TypeOK, TypeOK', KInv, [Next]_vars
    PROVE  KInv'
<1>1. contents' = contents /\ contents \in Contents
  BY DEF Next, ParseStep, ParseScalar, NodeMalformed, NodeTooDeep, parseAnchor,
         aliasRecursive, aliasOverLimit, aliasResolved, parseOverride,
         TextParsed, Unwind, LeaveText, NextDocument, ParseAgain, vars, KInv
<1>2. "parsing" \notin Errors
  BY DEF Errors
<1>3. ASSUME NEW error \in Errors, Throw(error), yamlAliasMap' = yamlAliasMap
      PROVE  KInv'
  BY <1>1, <1>2, <1>3, ThrowKInv DEF Throw, KInv
<1>4. ASSUME NEW k, AtNode(k)
      PROVE  /\ status = "parsing" /\ stack # <<>> /\ Top.at <= Len(contents[Top.text])
             /\ This.kind = k /\ This \in Node /\ This.name \in Name /\ This.text \in Text
             /\ yamlAliasMap \in [Name -> Text \union {Undefined}]
  <2>1. /\ status = "parsing" /\ stack # <<>> /\ Top.at <= Len(contents[Top.text])
        /\ This.kind = k
    BY <1>4 DEF AtNode, This
  <2>2. This \in Node
    BY <2>1, ThisIsNode
  <2> QED BY <2>1, <2>2, NodeFields DEF TypeOK
<1>5. CASE ParseScalar
  <2>1. AtNode("scalar") /\ PassNode /\ yamlAliasMap' = yamlAliasMap
    BY <1>5 DEF ParseScalar
  <2>2. NoFrame(This, yamlAliasMap)
    BY <1>4, <2>1 DEF NoFrame
  <2> QED BY <1>1, <1>4, <2>1, <2>2, PassNodeKInv
<1>6. CASE NodeMalformed
  BY <1>3, <1>6 DEF NodeMalformed, Errors
<1>7. CASE NodeTooDeep
  BY <1>3, <1>7 DEF NodeTooDeep, Errors
<1>8. CASE parseAnchor
  <2>1. AtNode("anchor") /\ yamlAliasMap' = [yamlAliasMap EXCEPT ![This.name] = This.text]
    BY <1>8 DEF parseAnchor
  <2>2. /\ status = "parsing" /\ stack # <<>> /\ Top.at <= Len(contents[Top.text])
        /\ This.kind = "anchor" /\ This.name \in Name
        /\ yamlAliasMap \in [Name -> Text \union {Undefined}]
    BY <1>4, <2>1
  <2>3. CASE This.text = EmptyText /\ PassNode
    <3>1. NoFrame(This, yamlAliasMap')
      BY <2>1, <2>2, <2>3 DEF NoFrame
    <3>2. \A n \in Name : yamlAliasMap'[n] # yamlAliasMap[n] =>
              This.name = n /\ yamlAliasMap'[n] = EmptyText
      BY <2>1, <2>2, <2>3
    <3> QED BY <1>1, <2>1, <2>2, <2>3, <3>1, <3>2, PassNodeKInv
  <2>4. CASE This.text # EmptyText /\ ParseBuffer("anchor", This.text)
    BY <1>1, <2>1, <2>2, <2>4, ParseBufferKInv
  <2>5. CASE BufferTooDeep
    <3>1. Kept(stack, yamlAliasMap')
      BY <2>1, <2>2, StateTyped, InFront, BoundKept DEF KInv
    <3> QED BY <1>1, <1>2, <2>5, <3>1, ThrowKInv DEF BufferTooDeep, Throw, Errors
  <2> QED BY <1>8, <2>3, <2>4, <2>5 DEF parseAnchor
<1>9. CASE aliasRecursive
  BY <1>3, <1>9 DEF aliasRecursive, Errors
<1>10. CASE aliasOverLimit
  BY <1>3, <1>10 DEF aliasOverLimit, Errors
<1>11. CASE aliasResolved
  <2>1. AtNode("alias") /\ yamlAliasMap' = yamlAliasMap
    BY <1>11 DEF aliasResolved
  <2>2. /\ status = "parsing" /\ stack # <<>> /\ Top.at <= Len(contents[Top.text])
        /\ This.kind = "alias"
    BY <1>4, <2>1
  <2>3. CASE yamlAliasMap[This.name] = EmptyText /\ PassNode
    <3>1. NoFrame(This, yamlAliasMap)
      BY <2>2, <2>3 DEF NoFrame
    <3> QED BY <1>1, <2>1, <2>2, <2>3, <3>1, PassNodeKInv
  <2>4. CASE /\ yamlAliasMap[This.name] # EmptyText
             /\ ParseBuffer("alias", yamlAliasMap[This.name])
    BY <1>1, <2>1, <2>2, <2>4, ParseBufferKInv
  <2>5. CASE Throw("undefined")
    BY <1>3, <2>1, <2>5 DEF Errors
  <2>6. CASE BufferTooDeep
    BY <1>3, <2>1, <2>6 DEF BufferTooDeep, Errors
  <2> QED BY <1>11, <2>3, <2>4, <2>5, <2>6 DEF aliasResolved
<1>12. CASE parseOverride
  <2>1. AtNode("override") /\ yamlAliasMap' = yamlAliasMap
    BY <1>12 DEF parseOverride
  <2>2. /\ status = "parsing" /\ stack # <<>> /\ Top.at <= Len(contents[Top.text])
        /\ This.kind = "override"
    BY <1>4, <2>1
  <2>3. CASE ParseBuffer("override", yamlAliasMap[This.name])
    BY <1>1, <2>1, <2>2, <2>3, ParseBufferKInv
  <2>4. CASE Throw("undefined")
    BY <1>3, <2>1, <2>4 DEF Errors
  <2>5. CASE BufferTooDeep
    BY <1>3, <2>1, <2>5 DEF BufferTooDeep, Errors
  <2> QED BY <1>12, <2>3, <2>4, <2>5 DEF parseOverride
<1>13. CASE TextParsed
  BY <1>13, LeaveTextKInv DEF TextParsed
<1>14. CASE Unwind
  BY <1>2, <1>14, LeaveTextKInv DEF Unwind
<1>15. CASE NextDocument
  BY <1>1, <1>15, NewDocumentKInv DEF NextDocument
<1>16. CASE ParseAgain
  BY <1>1, <1>16, NewDocumentKInv DEF ParseAgain
<1>17. CASE UNCHANGED vars
  BY <1>17 DEF vars, KInv
<1> QED
  BY <1>5, <1>6, <1>7, <1>8, <1>9, <1>10, <1>11, <1>12, <1>13, <1>14, <1>15,
     <1>16, <1>17 DEF Next, ParseStep


\* For all names, texts, contents and limits: the string that the BufferSource
\* of an alias or an override reads is the one the map holds, until the parse of
\* it returns or throws.
THEOREM ExpandedCorrect == Spec => []ExpandedTextKept
<1>1. Init => KInv
  <2> SUFFICES ASSUME Init PROVE KInv
    OBVIOUS
  <2>1. TypeOK /\ contents \in Contents
    BY InitIInv DEF IInv, Init
  <2>2. PICK d : stack = <<DocumentFrame(d)>>
    BY DEF Init
  <2>3. /\ stack # <<>> /\ Len(stack) = 1 /\ stack[1].at = 1
        /\ stack[1].via = "document"
    BY <2>2 DEF DocumentFrame
  <2>4. yamlAliasMap = [n \in Name |-> Undefined]
    BY DEF Init
  <2>5. Typed(contents, stack, yamlAliasMap)
    BY <2>1, <2>3, AliasAssumption DEF TypeOK, Typed
  <2>6. Kept(stack, yamlAliasMap) /\ Replayed(contents, stack, yamlAliasMap)
    BY <2>3, <2>4, <2>5, StartReplayed
  <2> QED BY <2>1, <2>6 DEF KInv
<1>2. TypeOK /\ TypeOK' /\ KInv /\ [Next]_vars => KInv'
  BY NextKInv
<1>3. KInv => ExpandedTextKept
  BY DEF KInv, Kept, Expanded, ExpandedTextKept
<1> QED
  BY <1>1, <1>2, <1>3, TypeCorrect, PTL DEF Spec
=============================================================================
