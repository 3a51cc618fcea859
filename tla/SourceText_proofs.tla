-------------------------- MODULE SourceText_proofs --------------------------
(***************************************************************************)
(* Lemmas about the line and column of an offset, and about taking the     *)
(* innermost mark off a stack, that the proofs about every source use.     *)
(***************************************************************************)
EXTENDS SourceText, FiniteSetTheorems, SequenceTheorems, TLAPS

\* Line feeds before an offset are finitely many.
LEMMA LineFeedsFinite ==
    ASSUME NEW t, NEW p \in Nat
    PROVE  /\ IsFiniteSet(LineFeedsBefore(t, p))
           /\ Cardinality(LineFeedsBefore(t, p)) \in Nat
<1>1. IsFiniteSet(1..p)
    BY FS_Interval
<1>2. LineFeedsBefore(t, p) \subseteq 1..p
    BY DEF LineFeedsBefore
<1>3. QED
    BY <1>1, <1>2, FS_Subset, FS_CardinalityType

\* A text begins on line 1 at column 1.
LEMMA PositionZero ==
    ASSUME NEW t \in Seq(Char)
    PROVE  IsPosition(t, 0, 1, 1)
<1>1. Len(t) \in Nat
    OBVIOUS
<1>2. LineFeedsBefore(t, 0) = {}
    BY DEF LineFeedsBefore
<1>3. LineAt(t, 0) = 1
    BY <1>2, FS_EmptySet DEF LineAt
<1>4. QED
    BY <1>1, <1>3 DEF IsPosition, IsColumnAt

\* Moving over characters that are not line feeds stays on the line.
LEMMA PositionSkip ==
    ASSUME NEW t \in Seq(Char), NEW p, NEW line, NEW col,
           IsPosition(t, p, line, col),
           NEW q \in p..Len(t),
           \A i \in (p + 1)..q : t[i] # LF
    PROVE  IsPosition(t, q, line, col + (q - p))
<1>0. p \in Nat /\ q \in Nat /\ p <= q /\ q <= Len(t) /\ Len(t) \in Nat
    BY DEF IsPosition
<1>1. LineFeedsBefore(t, q) = LineFeedsBefore(t, p)
    BY <1>0 DEF LineFeedsBefore
<1>2. line = LineAt(t, q)
    BY <1>1 DEF IsPosition, LineAt
<1>3. IsColumnAt(t, q, col + (q - p))
    BY <1>0 DEF IsPosition, IsColumnAt
<1>4. QED
    BY <1>0, <1>2, <1>3 DEF IsPosition

\* next(): over a line feed to the start of the next line, else one column on.
LEMMA PositionStep ==
    ASSUME NEW t \in Seq(Char), NEW p, NEW line, NEW col,
           IsPosition(t, p, line, col), p < Len(t)
    PROVE  /\ t[p + 1] = LF => IsPosition(t, p + 1, line + 1, 1)
           /\ t[p + 1] # LF => IsPosition(t, p + 1, line, col + 1)
<1>0. p \in Nat /\ Len(t) \in Nat
    BY DEF IsPosition
<1>1. ASSUME t[p + 1] = LF
      PROVE  IsPosition(t, p + 1, line + 1, 1)
    <2>1. LineFeedsBefore(t, p + 1) = LineFeedsBefore(t, p) \union {p + 1}
        BY <1>0, <1>1 DEF LineFeedsBefore
    <2>2. p + 1 \notin LineFeedsBefore(t, p)
        BY <1>0 DEF LineFeedsBefore
    <2>3. Cardinality(LineFeedsBefore(t, p + 1))
             = Cardinality(LineFeedsBefore(t, p)) + 1
        BY <1>0, <2>1, <2>2, LineFeedsFinite, FS_AddElement
    <2>4. line + 1 = LineAt(t, p + 1)
        BY <2>3 DEF IsPosition, LineAt
    <2>5. IsColumnAt(t, p + 1, 1)
        BY <1>0, <1>1 DEF IsColumnAt
    <2>6. QED
        BY <1>0, <2>4, <2>5 DEF IsPosition
<1>2. ASSUME t[p + 1] # LF
      PROVE  IsPosition(t, p + 1, line, col + 1)
    <2>1. p + 1 \in p..Len(t) /\ \A i \in (p + 1)..(p + 1) : t[i] # LF
        BY <1>0, <1>2
    <2>2. IsPosition(t, p + 1, line, col + ((p + 1) - p))
        BY <2>1, PositionSkip
    <2>3. (p + 1) - p = 1
        BY <1>0
    <2>4. QED
        BY <2>2, <2>3
<1>3. QED
    BY <1>1, <1>2

\* backup(k) with fewer than col characters stays on the line.
LEMMA PositionBack ==
    ASSUME NEW t \in Seq(Char), NEW p, NEW line, NEW col,
           IsPosition(t, p, line, col),
           NEW k \in Nat, col - k >= 1
    PROVE  IsPosition(t, p - k, line, col - k)
<1>0. /\ p \in Nat /\ Len(t) \in Nat /\ p <= Len(t)
      /\ col \in Nat /\ col <= p + 1
      /\ p - k \in Nat
    BY DEF IsPosition, IsColumnAt
<1>1. \A i \in (p - k + 1)..p : t[i] # LF
    BY <1>0 DEF IsPosition, IsColumnAt
<1>2. LineFeedsBefore(t, p - k) = LineFeedsBefore(t, p)
    BY <1>0, <1>1 DEF LineFeedsBefore
<1>3. line = LineAt(t, p - k)
    BY <1>2 DEF IsPosition, LineAt
<1>4. IsColumnAt(t, p - k, col - k)
    BY <1>0 DEF IsPosition, IsColumnAt
<1>5. QED
    BY <1>0, <1>3, <1>4 DEF IsPosition

\* Facts about a position that the arithmetic of the steps needs.
LEMMA PositionRange ==
    ASSUME NEW t \in Seq(Char), NEW p, NEW line, NEW col,
           IsPosition(t, p, line, col)
    PROVE  /\ p \in Nat /\ p <= Len(t) /\ Len(t) \in Nat
           /\ line \in Nat
           /\ col \in Nat /\ col >= 1 /\ col <= p + 1
<1>1. p \in Nat /\ p <= Len(t) /\ Len(t) \in Nat
    BY DEF IsPosition
<1>2. line \in Nat
    BY <1>1, LineFeedsFinite DEF IsPosition, LineAt
<1>3. QED
    BY <1>1, <1>2 DEF IsPosition, IsColumnAt
-----------------------------------------------------------------------------
\* Taking the last element off a stack leaves the others as they were.
LEMMA PopLast ==
    ASSUME NEW S, NEW s \in Seq(S), s # <<>>
    PROVE  /\ SubSeq(s, 1, Len(s) - 1) \in Seq(S)
           /\ Len(SubSeq(s, 1, Len(s) - 1)) = Len(s) - 1
           /\ Len(s) \in Nat \ {0}
           /\ \A i \in 1..(Len(s) - 1) : SubSeq(s, 1, Len(s) - 1)[i] = s[i]
           /\ s[Len(s)] \in S
<1>1. Len(s) \in Nat \ {0} /\ s[Len(s)] \in S
    OBVIOUS
<1> DEFINE n == Len(s) - 1
<1>2. n \in Nat /\ \A i \in 1..n : s[i] \in S
    BY <1>1
<1> HIDE DEF n
<1>3. /\ SubSeq(s, 1, n) \in Seq(S)
      /\ Len(SubSeq(s, 1, n)) = (IF 1 <= n THEN n - 1 + 1 ELSE 0)
      /\ \A i \in 1..(n - 1 + 1) : SubSeq(s, 1, n)[i] = s[1 + i - 1]
    BY <1>2, SubSeqProperties
<1>4. /\ SubSeq(s, 1, n) \in Seq(S)
      /\ Len(SubSeq(s, 1, n)) = n
      /\ \A i \in 1..n : SubSeq(s, 1, n)[i] = s[i]
    BY <1>2, <1>3
<1>5. QED
    BY <1>1, <1>4 DEF n

\* The offsets of a stack without its innermost mark.
LEMMA PopOffsets ==
    ASSUME NEW n \in Nat, NEW m \in [1..(n + 1) -> Nat]
    PROVE  /\ Len(m) = n + 1
           /\ m # <<>>
           /\ SubSeq(m, 1, Len(m) - 1) = [i \in 1..n |-> m[i]]
<1>1. m \in Seq(Nat) /\ Len(m) = n + 1 /\ m # <<>>
    OBVIOUS
<1>2. Len(m) - 1 = n
    BY <1>1
<1>3. /\ SubSeq(m, 1, n) \in Seq(Nat)
      /\ Len(SubSeq(m, 1, n)) = n
      /\ \A i \in 1..n : SubSeq(m, 1, n)[i] = m[i]
    BY <1>1, <1>2, PopLast
<1>4. SubSeq(m, 1, n) = [i \in 1..n |-> m[i]]
    BY <1>3
<1>5. QED
    BY <1>1, <1>2, <1>4
=============================================================================
