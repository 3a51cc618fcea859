-------------------------- MODULE FixedDestination --------------------------
(***************************************************************************)
(* FixedDestination<N>: the bounded destination, a caller's array of N     *)
(* bytes that keeps what fits and drops the rest.                          *)
(***************************************************************************)
EXTENDS Integers, Sequences

CONSTANTS
    Byte,               \* the bytes that are written
    N,                  \* the capacity
    Unset,              \* a byte of the array nobody has written
    kNull,
    MaxWritten          \* bound: bytes written between two clears

ASSUME FixedAssumption ==
    /\ N \in Nat \ {0}          \* the static_assert
    /\ MaxWritten \in Nat

VARIABLES buf, pos, overflow
\* history: the bytes given to add() since construction or clear()
VARIABLE written

vars == <<buf, pos, overflow, written>>

Init ==
    /\ buf = [i \in 1..N |-> Unset]
    /\ pos = 0
    /\ overflow = FALSE
    /\ written = <<>>

\* Broken: accepts one byte more than there is room for.
BrokenAddFits(ch) ==
    /\ pos <= N
    /\ buf' = [buf EXCEPT ![pos + 1] = ch]
    /\ pos' = pos + 1
    /\ UNCHANGED overflow

addFits(ch) ==
    /\ pos < N
    /\ buf' = [buf EXCEPT ![pos + 1] = ch]
    /\ pos' = pos + 1
    /\ UNCHANGED overflow

addDropped ==
    /\ ~(pos < N)
    /\ overflow' = TRUE
    /\ UNCHANGED <<buf, pos>>

\* add(ch); the string forms of IDestination::add() call it for each byte.
add(ch) ==
    /\ Len(written) < MaxWritten
    /\ addFits(ch) \/ addDropped
    /\ written' = Append(written, ch)

\* Broken: forgets the position, or the flag.
BrokenClearPosition ==
    /\ overflow' = FALSE
    /\ written' = <<>>
    /\ UNCHANGED <<buf, pos>>
BrokenClearFlag ==
    /\ pos' = 0
    /\ written' = <<>>
    /\ UNCHANGED <<buf, overflow>>

\* The bytes stay in the array.
clear ==
    /\ pos' = 0
    /\ overflow' = FALSE
    /\ written' = <<>>
    /\ UNCHANGED buf

Next == (\E ch \in Byte : add(ch)) \/ clear

Spec == Init /\ [][Next]_vars

view == [i \in 1..pos |-> buf[i]]

last == IF pos > 0 THEN buf[pos] ELSE kNull

size == pos
-----------------------------------------------------------------------------
\* The array, the position and the flag have their types; no write was out of
\* the array.
TypeOK ==
    /\ buf \in [1..N -> Byte \union {Unset}]
    /\ pos \in 0..N
    /\ overflow \in BOOLEAN
    /\ written \in Seq(Byte)

\* What the caller reads is the beginning of what was written, with nothing left
\* of what was written before a clear().
ViewIsPrefix ==
    /\ size <= Len(written)
    /\ size < Len(written) => size = N
    /\ \A i \in 1..size : view[i] = written[i]

\* "True if at least one byte was discarded because the buffer was full": the
\* flag tells a text that just fits from one that was cut.
OverflowTellsLoss == overflow <=> size < Len(written)
=============================================================================
