------------------------ MODULE Destinations_proofs ------------------------
(***************************************************************************)
(* For every capacity and every sequence of calls: the bounded destination *)
(* never writes outside its array, keeps a prefix of what it was given and *)
(* says when it is a proper one; the file holds what was written, line     *)
(* ends translated; all destinations hold the same text and answer last()  *)
(* alike, so that a stringifier writes the same to each of them.           *)
(***************************************************************************)
EXTENDS Destinations, FiniteSetTheorems, SequenceTheorems, TLAPS
-----------------------------------------------------------------------------
(* The bounded destination.                                                 *)

FixedInv ==
    /\ TypeOK
    /\ ViewIsPrefix
    /\ OverflowTellsLoss

\* An empty array.
LEMMA InitFixedInv == Init => FixedInv
<1>1. <<>> \in Seq(Byte) /\ Len(<<>>) = 0
  OBVIOUS
<1> SUFFICES ASSUME Init PROVE FixedInv
  OBVIOUS
<1>2. TypeOK
  <2>1. buf \in [1..N -> Byte \union {Unset}] /\ written \in Seq(Byte)
    BY <1>1 DEF Init
  <2>2. pos \in 0..N
    BY FixedAssumption DEF Init
  <2>3. overflow \in BOOLEAN
    BY DEF Init
  <2> QED
    BY <2>1, <2>2, <2>3 DEF TypeOK
<1>3. ViewIsPrefix
  BY <1>1 DEF Init, ViewIsPrefix, size, view
<1>4. OverflowTellsLoss
  <2>1. ~(size < Len(written)) /\ overflow = FALSE
    BY <1>1 DEF Init, size
  <2> QED
    BY <2>1 DEF OverflowTellsLoss
<1> QED
  BY <1>2, <1>3, <1>4 DEF FixedInv

\* One step per action.
LEMMA StepFixedInv == FixedInv /\ [Next]_vars => FixedInv'
<1> SUFFICES ASSUME FixedInv, [Next]_vars PROVE FixedInv'
  OBVIOUS
<1> USE FixedAssumption
<1>1. ASSUME NEW ch \in Byte, add(ch) PROVE FixedInv'
  <2>1. /\ written' = Append(written, ch) /\ written \in Seq(Byte)
        /\ Len(written) \in Nat /\ pos \in 0..N
    BY <1>1 DEF add, FixedInv, TypeOK
  <2>2. /\ written' \in Seq(Byte) /\ Len(written') = Len(written) + 1
        /\ \A i \in 1..Len(written) : written'[i] = written[i]
        /\ written'[Len(written) + 1] = ch
    BY <2>1
  <2>3. CASE addFits(ch)
    <3>1. pos < N /\ pos' = pos + 1 /\ overflow' = overflow
      BY <2>3 DEF addFits
    <3>2. Len(written) = pos
      BY <2>1, <3>1 DEF FixedInv, ViewIsPrefix, size
    <3>3. /\ buf' \in [1..N -> Byte \union {Unset}] /\ buf'[pos + 1] = ch
          /\ \A i \in 1..pos : buf'[i] = buf[i]
      BY <2>1, <2>3, <3>1 DEF addFits, FixedInv, TypeOK
    <3>4. TypeOK'
      BY <2>1, <2>2, <3>1, <3>3 DEF FixedInv, TypeOK
    <3>5. \A i \in 1..pos : buf[i] = written[i]
      BY DEF FixedInv, ViewIsPrefix, size, view
    <3>6. \A i \in 1..pos' : buf'[i] = written'[i]
      <4> SUFFICES ASSUME NEW i \in 1..(pos + 1) PROVE buf'[i] = written'[i]
        BY <3>1
      <4>1. CASE i = pos + 1
        BY <2>2, <3>2, <3>3, <4>1
      <4>2. CASE i # pos + 1
        BY <2>1, <2>2, <3>2, <3>3, <3>5, <4>2
      <4> QED
        BY <4>1, <4>2
    <3>7. ViewIsPrefix'
      BY <2>1, <2>2, <3>1, <3>2, <3>6 DEF ViewIsPrefix, size, view
    <3>8. OverflowTellsLoss'
      BY <2>1, <2>2, <3>1, <3>2 DEF FixedInv, OverflowTellsLoss, size
    <3> QED
      BY <3>4, <3>7, <3>8 DEF FixedInv
  <2>4. CASE addDropped
    <3>1. pos = N /\ pos' = pos /\ buf' = buf /\ overflow' = TRUE
      BY <2>1, <2>4 DEF addDropped
    <3>2. TypeOK'
      BY <2>2, <3>1 DEF FixedInv, TypeOK
    <3>3. ViewIsPrefix'
      BY <2>1, <2>2, <3>1 DEF FixedInv, ViewIsPrefix, size, view
    <3>4. OverflowTellsLoss'
      BY <2>1, <2>2, <3>1 DEF FixedInv, ViewIsPrefix, OverflowTellsLoss, size
    <3> QED
      BY <3>2, <3>3, <3>4 DEF FixedInv
  <2> QED
    BY <1>1, <2>3, <2>4 DEF add
<1>2. CASE clear
  <2>1. <<>> \in Seq(Byte) /\ Len(<<>>) = 0
    OBVIOUS
  <2>2. TypeOK'
    <3>1. buf' \in [1..N -> Byte \union {Unset}] /\ written' \in Seq(Byte)
      BY <1>2, <2>1 DEF clear, FixedInv, TypeOK
    <3>2. pos' \in 0..N
      BY <1>2 DEF clear
    <3>3. overflow' \in BOOLEAN
      BY <1>2 DEF clear
    <3> QED
      BY <3>1, <3>2, <3>3 DEF TypeOK
  <2>3. ViewIsPrefix'
    BY <1>2, <2>1 DEF clear, ViewIsPrefix, size, view
  <2>4. OverflowTellsLoss'
    <3>1. ~(size' < Len(written')) /\ overflow' = FALSE
      BY <1>2, <2>1 DEF clear, size
    <3> QED
      BY <3>1 DEF OverflowTellsLoss
  <2> QED
    BY <2>2, <2>3, <2>4 DEF FixedInv
<1>3. CASE UNCHANGED vars
  BY <1>3 DEF vars, FixedInv, TypeOK, ViewIsPrefix, OverflowTellsLoss, size, view
<1> QED
  BY <1>1, <1>2, <1>3 DEF Next

\* For every capacity and every sequence of writes and clears: no write leaves
\* the array.
THEOREM TypeCorrect == Spec => []TypeOK
<1>1. FixedInv => TypeOK
  BY DEF FixedInv
<1> QED
  BY <1>1, InitFixedInv, StepFixedInv, PTL DEF Spec

\* For every capacity: the text is a prefix of what was written, and overflow()
\* is true exactly when it is not all of it.
THEOREM TruncationCorrect == Spec => [](ViewIsPrefix /\ OverflowTellsLoss)
<1>1. FixedInv => ViewIsPrefix /\ OverflowTellsLoss
  BY DEF FixedInv
<1> QED
  BY <1>1, InitFixedInv, StepFixedInv, PTL DEF Spec

\* What a FixedDestination shows is a prefix of what was written to it.
THEOREM PrefixCorrect == Spec => []ViewIsPrefix
<1>1. (ViewIsPrefix /\ OverflowTellsLoss) => ViewIsPrefix
  OBVIOUS
<1> QED
  BY <1>1, TruncationCorrect, PTL
-----------------------------------------------------------------------------
(* The file.  A byte is dropped exactly while the stream is not good, and a *)
(* stream that was closed or failed to open only clear() makes good again:  *)
(* so as long as it is good the file has been given what the string has.    *)

LineFeeds(bytes, i) == {j \in 1..i : bytes[j] = kLineFeed}

FileInv ==
    /\ File!TypeOK
    /\ File!IsWhatWasWritten
    /\ good => given = buffer
    /\ ~astray /\ ~dropped => given = buffer

LEMMA PlaceIs ==
    ASSUME NEW bytes, NEW i
    PROVE  File!Place(bytes, i) = i + Cardinality(LineFeeds(bytes, i))
BY DEF File!Place, LineFeeds, File!Cardinality, Cardinality

\* Line feeds up to a byte are finitely many, and at least one if it is one.
LEMMA LineFeedsCounted ==
    ASSUME NEW bytes, NEW i \in Nat
    PROVE  /\ IsFiniteSet(LineFeeds(bytes, i))
           /\ Cardinality(LineFeeds(bytes, i)) \in Nat
           /\ i > 0 /\ bytes[i] = kLineFeed => Cardinality(LineFeeds(bytes, i)) > 0
<1>1. IsFiniteSet(1..i)
  BY FS_Interval
<1>2. LineFeeds(bytes, i) \subseteq 1..i
  BY DEF LineFeeds
<1>3. /\ IsFiniteSet(LineFeeds(bytes, i))
      /\ Cardinality(LineFeeds(bytes, i)) \in Nat
  BY <1>1, <1>2, FS_Subset, FS_CardinalityType
<1>4. ASSUME i > 0, bytes[i] = kLineFeed
      PROVE  Cardinality(LineFeeds(bytes, i)) > 0
  <2>1. i \in LineFeeds(bytes, i)
    BY <1>4 DEF LineFeeds
  <2>2. Cardinality(LineFeeds(bytes, i)) # 0
    BY <1>3, <2>1, FS_EmptySet
  <2> QED
    BY <1>3, <2>2
<1> QED
  BY <1>3, <1>4

\* Every byte of a text, and the carriage return before a line feed, has its
\* place before the place of the last.
LEMMA PlaceInFile ==
    ASSUME NEW bytes, NEW n \in Nat, NEW i \in 1..n
    PROVE  /\ File!Place(bytes, i) \in 1..File!Place(bytes, n)
           /\ File!Place(bytes, n) \in Nat
           /\ bytes[i] = kLineFeed => File!Place(bytes, i) - 1 \in 1..File!Place(bytes, n)
<1>1. LineFeeds(bytes, i) \subseteq LineFeeds(bytes, n)
  BY DEF LineFeeds
<1>2. /\ Cardinality(LineFeeds(bytes, i)) \in Nat
      /\ Cardinality(LineFeeds(bytes, n)) \in Nat
      /\ Cardinality(LineFeeds(bytes, i)) <= Cardinality(LineFeeds(bytes, n))
  BY <1>1, LineFeedsCounted, FS_Subset
<1>3. bytes[i] = kLineFeed => Cardinality(LineFeeds(bytes, i)) > 0
  BY LineFeedsCounted
<1>4. /\ File!Place(bytes, i) = i + Cardinality(LineFeeds(bytes, i))
      /\ File!Place(bytes, n) = n + Cardinality(LineFeeds(bytes, n))
  BY PlaceIs
<1> QED
  BY <1>2, <1>3, <1>4

\* add(ch) writes the next byte of the encoding.
LEMMA EncodingAppends ==
    ASSUME NEW S, NEW f \in Seq(S), NEW bytes \in Seq(Byte), NEW ch \in Byte,
           kLineFeed \in S, kCarriageReturn \in S, ch \in S,
           File!IsEncoding(f, bytes)
    PROVE  File!IsEncoding(f \o File!encode(ch), Append(bytes, ch))
<1> DEFINE n == Len(bytes)
           more == Append(bytes, ch)
           g == f \o File!encode(ch)
<1>1. /\ n \in Nat /\ Len(more) = n + 1
      /\ \A i \in 1..n : more[i] = bytes[i]
      /\ more[n + 1] = ch
  OBVIOUS
<1> HIDE DEF n, more
<1>2. ASSUME NEW i \in 0..n
      PROVE  /\ LineFeeds(more, i) = LineFeeds(bytes, i)
             /\ File!Place(more, i) = File!Place(bytes, i)
  <2>1. LineFeeds(more, i) = LineFeeds(bytes, i)
    BY <1>1 DEF LineFeeds
  <2> QED
    BY <2>1, PlaceIs
<1>3. Len(f) \in Nat /\ Len(f) = File!Place(bytes, n)
  BY DEF File!IsEncoding, n
<1>4. n \in 0..n /\ n + 1 \in Nat
  BY <1>1
<1>5. ASSUME ch = kLineFeed
      PROVE  /\ Len(g) = File!Place(more, n + 1)
             /\ g[File!Place(more, n + 1)] = ch
             /\ ch = kLineFeed => g[File!Place(more, n + 1) - 1] = kCarriageReturn
             /\ \A i \in 1..Len(f) : g[i] = f[i]
  <2>1. LineFeeds(more, n + 1) = LineFeeds(bytes, n) \union {n + 1}
    <3>1. LineFeeds(more, n + 1) = LineFeeds(more, n) \union {n + 1}
      BY <1>1, <1>5 DEF LineFeeds
    <3> QED
      BY <1>2, <1>4, <3>1
  <2>2. n + 1 \notin LineFeeds(bytes, n)
    BY <1>1 DEF LineFeeds
  <2>3. Cardinality(LineFeeds(more, n + 1)) = Cardinality(LineFeeds(bytes, n)) + 1
    BY <1>1, <2>1, <2>2, LineFeedsCounted, FS_AddElement
  <2>4. Cardinality(LineFeeds(bytes, n)) \in Nat
    BY <1>1, LineFeedsCounted
  <2>5. File!Place(more, n + 1) = Len(f) + 2
    BY <1>1, <1>3, <2>3, <2>4, PlaceIs
  <2>6. File!encode(ch) = <<kCarriageReturn, ch>>
    BY <1>5 DEF File!encode
  <2>7. /\ Len(g) = Len(f) + 2
        /\ g[Len(f) + 1] = kCarriageReturn /\ g[Len(f) + 2] = ch
        /\ \A i \in 1..Len(f) : g[i] = f[i]
    BY <2>6
  <2>8. /\ Len(g) = File!Place(more, n + 1)
        /\ g[File!Place(more, n + 1)] = ch
        /\ g[File!Place(more, n + 1) - 1] = kCarriageReturn
        /\ \A i \in 1..Len(f) : g[i] = f[i]
    BY <1>3, <2>5, <2>7
  <2> QED
    BY <2>8
<1>6. ASSUME ch # kLineFeed
      PROVE  /\ Len(g) = File!Place(more, n + 1)
             /\ g[File!Place(more, n + 1)] = ch
             /\ ch = kLineFeed => g[File!Place(more, n + 1) - 1] = kCarriageReturn
             /\ \A i \in 1..Len(f) : g[i] = f[i]
  <2>1. LineFeeds(more, n + 1) = LineFeeds(bytes, n)
    <3>1. LineFeeds(more, n + 1) = LineFeeds(more, n)
      BY <1>1, <1>6 DEF LineFeeds
    <3> QED
      BY <1>2, <1>4, <3>1
  <2>2. Cardinality(LineFeeds(bytes, n)) \in Nat
    BY <1>1, LineFeedsCounted
  <2>3. File!Place(more, n + 1) = Len(f) + 1
    BY <1>1, <1>3, <2>1, <2>2, PlaceIs
  <2>4. File!encode(ch) = <<ch>>
    BY <1>6 DEF File!encode
  <2>5. /\ Len(g) = Len(f) + 1
        /\ g[Len(f) + 1] = ch
        /\ \A i \in 1..Len(f) : g[i] = f[i]
    BY <2>4
  <2> QED
    BY <1>3, <1>6, <2>3, <2>5
<1>7. /\ Len(g) = File!Place(more, n + 1)
      /\ g[File!Place(more, n + 1)] = ch
      /\ ch = kLineFeed => g[File!Place(more, n + 1) - 1] = kCarriageReturn
      /\ \A i \in 1..Len(f) : g[i] = f[i]
  BY <1>5, <1>6
<1> HIDE DEF g
<1>8. ASSUME NEW i \in 1..Len(more)
      PROVE  /\ g[File!Place(more, i)] = more[i]
             /\ more[i] = kLineFeed => g[File!Place(more, i) - 1] = kCarriageReturn
  <2>1. CASE i = n + 1
    BY <1>1, <1>7, <2>1
  <2>2. CASE i # n + 1
    <3>1. i \in 1..n /\ i \in 0..n
      BY <1>1, <2>2
    <3>2. /\ File!Place(more, i) = File!Place(bytes, i)
          /\ more[i] = bytes[i]
      BY <1>1, <1>2, <3>1
    <3>3. /\ File!Place(bytes, i) \in 1..Len(f)
          /\ bytes[i] = kLineFeed => File!Place(bytes, i) - 1 \in 1..Len(f)
      BY <1>1, <1>3, <3>1, PlaceInFile
    <3>4. /\ f[File!Place(bytes, i)] = bytes[i]
          /\ bytes[i] = kLineFeed => f[File!Place(bytes, i) - 1] = kCarriageReturn
      BY <3>1 DEF File!IsEncoding, n
    <3> QED
      BY <1>7, <3>2, <3>3, <3>4
  <2> QED
    BY <2>1, <2>2
<1>9. File!IsEncoding(g, more)
  BY <1>1, <1>7, <1>8 DEF File!IsEncoding
<1> QED
  BY <1>9 DEF g, more

\* Nothing is encoded as nothing.
LEMMA EncodingEmpty == File!IsEncoding(<<>>, <<>>)
<1>1. LineFeeds(<<>>, 0) = {}
  BY DEF LineFeeds
<1>2. File!Place(<<>>, 0) = 0
  BY <1>1, FS_EmptySet, PlaceIs
<1> QED
  BY <1>2 DEF File!IsEncoding
-----------------------------------------------------------------------------
(* The destinations side by side.                                           *)

\* The bounded destination is given what the string is given.
Together ==
    /\ written = buffer
    /\ sinkLast = lastOf(buffer)
    /\ ~astray => lastChar = lastOf(buffer)

\* A step of the destinations is a step of the bounded one.
LEMMA StepIsFixed == [DestinationsNext]_destinations => [Next]_vars
BY DEF DestinationsNext, Add, AddNothing, Clear, CloseFile, GoOn, Next,
       destinations

\* The last byte of a text is the one added last.
LEMMA LastAppended ==
    ASSUME NEW text \in Seq(Byte), NEW ch \in Byte
    PROVE  lastOf(Append(text, ch)) = ch
<1>1. /\ Len(Append(text, ch)) = Len(text) + 1 /\ Len(text) \in Nat
      /\ Append(text, ch)[Len(text) + 1] = ch
  OBVIOUS
<1>2. Append(text, ch) # <<>>
  BY <1>1, EmptySeq
<1> QED
  BY <1>1, <1>2 DEF lastOf

\* Every call keeps the destinations together.
LEMMA StepTogether ==
    ASSUME FixedInv, Together, [DestinationsNext]_destinations
    PROVE  Together'
<1>1. ASSUME NEW ch \in Byte, Add(ch)
      PROVE  Together'
  <2>1. /\ written' = Append(written, ch)
        /\ buffer' = Append(buffer, ch)
        /\ sinkLast' = ch
        /\ lastChar' = ch
    BY <1>1 DEF Add, add, addOthers, File!add
  <2>2. buffer \in Seq(Byte)
    BY DEF Together, FixedInv, TypeOK
  <2>3. lastOf(buffer') = ch
    BY <2>1, <2>2, LastAppended
  <2>4. lastOf(buffer)' = lastOf(buffer')
    BY DEF lastOf
  <2> QED
    BY <2>1, <2>3, <2>4 DEF Together
<1>2. CASE AddNothing
  <2>1. /\ UNCHANGED <<written, buffer, sinkLast>>
        /\ astray' = TRUE
    BY <1>2 DEF AddNothing, File!addNothing, vars, others
  <2> QED
    BY <2>1 DEF Together, lastOf
<1>3. CASE Clear
  <2>1. /\ written' = <<>> /\ buffer' = <<>> /\ sinkLast' = kNull
        /\ astray' = TRUE \/ lastChar' = kNull
    BY <1>3 DEF Clear, clear, clearOthers, File!clear, File!clearFails
  <2> QED
    BY <2>1 DEF Together, lastOf
<1>4. CASE CloseFile
  BY <1>4 DEF CloseFile, File!close, vars, others, Together, lastOf
<1>5. CASE GoOn
  BY <1>5 DEF GoOn, File!goOn, vars, others, Together, lastOf
<1>6. CASE UNCHANGED destinations
  BY <1>6 DEF destinations, vars, others, File!vars, Together, lastOf
<1> QED
  BY <1>1, <1>2, <1>3, <1>4, <1>5, <1>6 DEF DestinationsNext

\* The bounded destination's last byte, while nothing has been lost.
LEMMA FixedLast ==
    ASSUME FixedInv, ~overflow
    PROVE  last = lastOf(written)
<1>1. pos = Len(written) /\ pos \in Nat /\ \A i \in 1..pos : buf[i] = written[i]
  BY FixedAssumption
  DEF FixedInv, TypeOK, ViewIsPrefix, OverflowTellsLoss, size, view
<1>2. written = <<>> <=> pos = 0
  BY <1>1, EmptySeq DEF FixedInv, TypeOK
<1> QED
  BY <1>1, <1>2 DEF last, lastOf

-----------------------------------------------------------------------------
(* The text that each of them holds.                                        *)

\* What was sent is what was sent before the last clear(), and the buffer.
SentInv ==
    /\ buffer \in Seq(Byte) /\ sent \in Seq(Byte) /\ cleared \in Seq(Byte)
    /\ sent = cleared \o buffer

DestinationsInv == FixedInv /\ Together /\ FileInv /\ SentInv

LEMMA InitDestinationsInv == DestinationsInit => DestinationsInv
<1> SUFFICES ASSUME DestinationsInit PROVE DestinationsInv
  OBVIOUS
<1>1. FixedInv
  BY InitFixedInv DEF DestinationsInit
<1>2. Together
  BY DEF DestinationsInit, Init, File!Init, Together, lastOf
<1>3. /\ file = <<>> /\ given = <<>> /\ fileSize = 0 /\ buffer = <<>>
      /\ sent = <<>> /\ cleared = <<>>
  BY DEF DestinationsInit, File!Init
<1>4. File!TypeOK
  <2>1. /\ file \in Seq(Byte \union {kCarriageReturn}) /\ given \in Seq(Byte)
        /\ fileSize \in Nat
    BY <1>3
  <2>2. dropped \in BOOLEAN /\ astray \in BOOLEAN
    BY DEF DestinationsInit, File!Init
  <2>3. isOpen \in BOOLEAN /\ good \in BOOLEAN
    BY DEF DestinationsInit, File!Init
  <2>4. lastChar = kNull /\ status = "running"
    BY DEF DestinationsInit, File!Init
  <2> QED
    BY <2>1, <2>2, <2>3, <2>4 DEF File!TypeOK
<1>5. File!IsWhatWasWritten
  BY <1>3, EncodingEmpty DEF File!IsWhatWasWritten
<1>6. SentInv
  BY <1>3 DEF SentInv
<1> QED
  BY <1>1, <1>2, <1>3, <1>4, <1>5, <1>6 DEF DestinationsInv, FileInv

\* What the next state must show.
LEMMA WrittenNext ==
    ASSUME ~dropped' => File!IsEncoding(file', given') /\ fileSize' = Len(file')
    PROVE  File!IsWhatWasWritten'
BY DEF File!IsWhatWasWritten, File!IsEncoding, File!Place, File!Cardinality

LEMMA WrittenKept ==
    ASSUME File!IsWhatWasWritten, UNCHANGED <<file, fileSize, given, dropped>>
    PROVE  File!IsWhatWasWritten'
<1>1. ~dropped => File!IsEncoding(file, given) /\ fileSize = Len(file)
  BY DEF File!IsWhatWasWritten
<1> QED
  BY <1>1, WrittenNext

\* add() of the file.
LEMMA FileAdds ==
    ASSUME FileInv, NEW ch \in Byte, File!add(ch), buffer' = Append(buffer, ch)
    PROVE  FileInv'
<1>1. /\ file \in Seq(Byte \union {kCarriageReturn}) /\ given \in Seq(Byte)
      /\ fileSize \in Nat /\ good \in BOOLEAN /\ dropped \in BOOLEAN
      /\ kLineFeed \in Byte
  BY DestinationsAssumption DEF FileInv, File!TypeOK
<1>2. /\ file' = IF good THEN file \o File!encode(ch) ELSE file
      /\ dropped' = (dropped \/ ~good)
      /\ fileSize' = fileSize + Len(File!encode(ch))
      /\ lastChar' = ch /\ given' = Append(given, ch) /\ astray' = FALSE
      /\ UNCHANGED <<isOpen, good, status>>
  BY DEF File!add, File!Put
<1>3. File!encode(ch) \in Seq(Byte \union {kCarriageReturn})
  <2> DEFINE S == Byte \union {kCarriageReturn}
  <2>1. kLineFeed \in S /\ kCarriageReturn \in S /\ ch \in S
    BY <1>1
  <2> HIDE DEF S
  <2>2. <<kCarriageReturn, kLineFeed>> \in Seq(S) /\ <<ch>> \in Seq(S)
    BY <2>1
  <2> QED
    BY <2>2 DEF File!encode, S
<1>4. Len(File!encode(ch)) \in Nat
  BY <1>3
<1>5. file' \in Seq(Byte \union {kCarriageReturn})
  BY <1>1, <1>2, <1>3
<1>6. given' \in Seq(Byte)
  BY <1>1, <1>2
<1>7. dropped' \in BOOLEAN /\ astray' \in BOOLEAN
  BY <1>2
<1>8. File!TypeOK'
  BY <1>1, <1>2, <1>4, <1>5, <1>6, <1>7 DEF FileInv, File!TypeOK
<1>9. ASSUME ~dropped'
      PROVE  File!IsEncoding(file', given') /\ fileSize' = Len(file')
  <2>1. good /\ ~dropped
    BY <1>2, <1>9
  <2>2. File!IsEncoding(file, given) /\ fileSize = Len(file)
    BY <2>1 DEF FileInv, File!IsWhatWasWritten
  <2>3. file' = file \o File!encode(ch)
    BY <1>2, <2>1
  <2>4. File!IsEncoding(file', given')
    <3> DEFINE S == Byte \union {kCarriageReturn}
    <3>1. kLineFeed \in S /\ kCarriageReturn \in S /\ ch \in S /\ file \in Seq(S)
      BY <1>1
    <3> HIDE DEF S
    <3> QED
      BY <1>1, <1>2, <2>2, <2>3, <3>1, EncodingAppends
  <2>5. Len(file') = Len(file) + Len(File!encode(ch))
    BY <1>1, <1>3, <2>3
  <2> QED
    BY <1>2, <2>2, <2>4, <2>5
<1>10. File!IsWhatWasWritten'
  BY <1>9, WrittenNext
<1>11. good' => given' = buffer'
  BY <1>2 DEF FileInv
<1>12. ~dropped' => given' = buffer'
  BY <1>2, <1>11
<1> QED
  BY <1>8, <1>10, <1>11, <1>12 DEF FileInv

LEMMA StepFileInv ==
    ASSUME FileInv, [DestinationsNext]_destinations
    PROVE  FileInv'
<1>1. ASSUME NEW ch \in Byte, Add(ch)
      PROVE  FileInv'
  BY <1>1, FileAdds DEF Add, addOthers
<1>2. CASE AddNothing
  <2>1. /\ UNCHANGED <<file, isOpen, good, fileSize, given, dropped, buffer>>
        /\ lastChar' \in Byte \union {kNull} \/ lastChar' = lastChar
        /\ status' = status \/ status' = "undefined"
        /\ astray' = TRUE
    BY <1>2 DEF AddNothing, File!addNothing, others
  <2> QED
    BY <2>1, WrittenKept DEF FileInv, File!TypeOK
<1>3. CASE Clear /\ File!clear
  <2>1. /\ file' = <<>> /\ given' = <<>> /\ fileSize' = 0 /\ buffer' = <<>>
        /\ isOpen' = TRUE /\ good' = TRUE /\ dropped' = FALSE /\ astray' = FALSE
        /\ lastChar' = kNull /\ status' = status
    BY <1>3 DEF Clear, clearOthers, File!clear
  <2>2. /\ <<>> \in Seq(Byte \union {kCarriageReturn}) /\ <<>> \in Seq(Byte)
    OBVIOUS
  <2>3. File!TypeOK'
    BY <2>1, <2>2 DEF FileInv, File!TypeOK
  <2>4. File!IsEncoding(file', given')
    BY <2>1, EncodingEmpty
  <2>5. File!IsWhatWasWritten'
    <3>1. fileSize' = Len(file')
      BY <2>1
    <3> QED
      BY <2>4, <3>1, WrittenNext
  <2> QED
    BY <2>1, <2>3, <2>5 DEF FileInv
<1>4. CASE File!clearFails
  <2>1. /\ UNCHANGED <<file, fileSize, lastChar, given, dropped>>
        /\ isOpen' = FALSE /\ good' = FALSE /\ status' = "thrown" /\ astray' = TRUE
    BY <1>4 DEF File!clearFails
  <2> QED
    BY <2>1, WrittenKept DEF FileInv, File!TypeOK
<1>5. CASE CloseFile
  <2>1. /\ UNCHANGED <<file, fileSize, lastChar, status, given, dropped, astray, buffer>>
        /\ isOpen' = FALSE /\ good' = FALSE
    BY <1>5 DEF CloseFile, File!close, others
  <2> QED
    BY <2>1, WrittenKept DEF FileInv, File!TypeOK
<1>6. CASE GoOn
  <2>1. /\ UNCHANGED <<file, isOpen, good, fileSize, lastChar, given, dropped,
                       astray, buffer>>
        /\ status' = "running"
    BY <1>6 DEF GoOn, File!goOn, others
  <2> QED
    BY <2>1, WrittenKept DEF FileInv, File!TypeOK
<1>7. CASE UNCHANGED destinations
  BY <1>7, WrittenKept DEF destinations, others, File!vars, FileInv, File!TypeOK
<1> QED
  BY <1>1, <1>2, <1>3, <1>4, <1>5, <1>6, <1>7 DEF DestinationsNext, Clear

LEMMA StepSentInv ==
    ASSUME SentInv, [DestinationsNext]_destinations
    PROVE  SentInv'
<1>1. ASSUME NEW ch \in Byte, Add(ch)
      PROVE  SentInv'
  <2>1. /\ buffer' = Append(buffer, ch) /\ sent' = Append(sent, ch)
        /\ cleared' = cleared
    BY <1>1 DEF Add, addOthers
  <2>2. /\ buffer' \in Seq(Byte) /\ sent' \in Seq(Byte)
    BY <2>1 DEF SentInv
  <2>3. Append(cleared \o buffer, ch) = cleared \o Append(buffer, ch)
    <3>1. Append(buffer, ch) = buffer \o <<ch>>
      BY DEF SentInv
    <3>2. Append(cleared \o buffer, ch) = (cleared \o buffer) \o <<ch>>
      BY DEF SentInv
    <3>3. (cleared \o buffer) \o <<ch>> = cleared \o (buffer \o <<ch>>)
      BY ConcatAssociative DEF SentInv
    <3> QED
      BY <3>1, <3>2, <3>3
  <2> QED
    BY <2>1, <2>2, <2>3 DEF SentInv
<1>2. CASE Clear
  <2>1. buffer' = <<>> /\ sent' = sent /\ cleared' = sent
    BY <1>2 DEF Clear, clearOthers
  <2>2. <<>> \in Seq(Byte) /\ sent = sent \o <<>>
    BY DEF SentInv
  <2> QED
    BY <2>1, <2>2 DEF SentInv
<1>3. CASE AddNothing \/ CloseFile \/ GoOn \/ UNCHANGED destinations
  <2>1. UNCHANGED <<buffer, sent, cleared>>
    BY <1>3 DEF AddNothing, CloseFile, GoOn, destinations, others
  <2> QED
    BY <2>1 DEF SentInv
<1> QED
  BY <1>1, <1>2, <1>3 DEF DestinationsNext

LEMMA StepDestinationsInv ==
    DestinationsInv /\ [DestinationsNext]_destinations => DestinationsInv'
BY StepIsFixed, StepFixedInv, StepTogether, StepFileInv, StepSentInv
DEF DestinationsInv

\* For every sequence of writes, clears, closes and failures of the file: until a
\* byte is dropped the file is what was written since the last clear(), its line
\* ends translated, and size() is its size.
THEOREM FileCorrect == DestinationsSpec => []FileIsWhatWasWritten
<1>1. DestinationsInv => FileIsWhatWasWritten
  BY DEF DestinationsInv, FileInv, FileIsWhatWasWritten
<1> QED
  BY <1>1, InitDestinationsInv, StepDestinationsInv, PTL DEF DestinationsSpec

\* For every capacity and every sequence of calls: all destinations hold the same
\* text, the bounded one its beginning, the file its encoding.
THEOREM TextsCorrect == DestinationsSpec => []SameText
<1>1. DestinationsInv => SameText
  <2> SUFFICES ASSUME DestinationsInv PROVE SameText
    OBVIOUS
  <2>1. sent = cleared \o buffer /\ buffer \in Seq(Byte) /\ written = buffer
    BY DEF DestinationsInv, SentInv, Together
  <2>2. /\ size \in Nat /\ size <= Len(buffer) /\ size = pos
        /\ \A i \in 1..size : view[i] = buffer[i]
        /\ view = [i \in 1..size |-> buf[i]]
    BY <2>1, FixedAssumption
    DEF DestinationsInv, FixedInv, TypeOK, ViewIsPrefix, size, view
  <2>3. view = [i \in 1..size |-> buffer[i]]
    BY <2>2
  <2>4. SubSeq(buffer, 1, size) = [i \in 1..size |-> buffer[i]]
    BY <2>1, <2>2
  <2>5. ~astray /\ ~dropped => File!IsEncoding(file, buffer)
    BY DEF DestinationsInv, FileInv, File!IsWhatWasWritten
  <2> QED
    BY <2>1, <2>2, <2>3, <2>4, <2>5 DEF SameText
<1> QED
  BY <1>1, InitDestinationsInv, StepDestinationsInv, PTL DEF DestinationsSpec

\* For every capacity and every sequence of calls: last() is the same everywhere,
\* until the bounded destination has lost a byte or the file was given nothing
\* or could not be cleared.
THEOREM LastsCorrect == DestinationsSpec => []LastsAgree
<1>1. DestinationsInv => LastsAgree
  <2> SUFFICES ASSUME DestinationsInv PROVE LastsAgree
    OBVIOUS
  <2>1. ~overflow => last = lastOf(buffer)
    BY FixedLast DEF DestinationsInv, Together
  <2> QED
    BY <2>1 DEF DestinationsInv, Together, LastsAgree
<1> QED
  BY <1>1, InitDestinationsInv, StepDestinationsInv, PTL DEF DestinationsSpec
=============================================================================
