---------------------------- MODULE Destinations ----------------------------
(***************************************************************************)
(* The implementations of IDestination side by side, given the same calls: *)
(* a stringifier asks last() before it writes indentation or a line feed,  *)
(* so that its output is the same on all of them only if they answer the   *)
(* same.                                                                   *)
(*                                                                         *)
(* FixedDestination and FileDestination are modules of their own, the      *)
(* first extended here.  BufferDestination keeps the text in a string.     *)
(* StreamDestination and CallbackDestination pass each byte on and keep    *)
(* the last: what is sent is not recalled by clear().                      *)
(***************************************************************************)
EXTENDS FixedDestination

CONSTANTS
    kLineFeed, kCarriageReturn,
    MaxSent             \* bound: bytes written in all

ASSUME DestinationsAssumption ==
    /\ kLineFeed \in Byte
    /\ kCarriageReturn \notin Byte
    /\ MaxSent \in Nat

VARIABLES
    buffer,             \* BufferDestination
    sent, sinkLast,     \* what a sink was sent, and last() of its destination
    file, isOpen, good, fileSize, lastChar, status, given, dropped, astray
\* history: what had been sent at the last clear()
VARIABLE cleared

File == INSTANCE FileDestination

others == <<buffer, sent, sinkLast, cleared>>
destinations == <<vars, others, File!vars>>

DestinationsInit ==
    /\ Init
    /\ buffer = <<>>
    /\ sent = <<>>
    /\ sinkLast = kNull
    /\ File!Init
    /\ cleared = <<>>
-----------------------------------------------------------------------------
lastOf(text) == IF text = <<>> THEN kNull ELSE text[Len(text)]

\* add(ch) of BufferDestination, and of the two that pass it on.
addOthers(ch) ==
    /\ Len(sent) < MaxSent
    /\ buffer' = Append(buffer, ch)
    /\ sent' = Append(sent, ch)
    /\ sinkLast' = ch
    /\ UNCHANGED cleared

\* Broken: only the last byte is forgotten.
BrokenClearOthers ==
    /\ sinkLast' = kNull
    /\ cleared' = sent
    /\ UNCHANGED <<sent, buffer>>

\* clear() of the three.
clearOthers ==
    /\ buffer' = <<>>
    /\ sinkLast' = kNull
    /\ cleared' = sent
    /\ UNCHANGED sent

Add(ch) == add(ch) /\ addOthers(ch) /\ File!add(ch)

\* An empty string, the indentation of the outermost level: nothing to the
\* others, a read out of bounds to the file.
AddNothing == File!addNothing /\ UNCHANGED <<vars, others>>

Clear ==
    /\ clear
    /\ clearOthers
    /\ File!clear \/ File!clearFails

CloseFile == File!close /\ UNCHANGED <<vars, others>>

GoOn == File!goOn /\ UNCHANGED <<vars, others>>

DestinationsNext ==
    \/ \E ch \in Byte : Add(ch)
    \/ AddNothing
    \/ Clear
    \/ CloseFile
    \/ GoOn

DestinationsSpec == DestinationsInit /\ [][DestinationsNext]_destinations
-----------------------------------------------------------------------------
\* All destinations answer last() alike, whatever was written and cleared before:
\* the bounded one until it has dropped a byte, the file unless it was given an
\* empty string after the last byte or could not be cleared.
LastsAgree ==
    /\ sinkLast = lastOf(buffer)
    /\ ~overflow => last = lastOf(buffer)
    /\ ~astray => lastChar = lastOf(buffer)

\* The file holds the text and size() is its size until a byte is dropped, however
\* often it was closed, cleared, or failed to open before.
FileIsWhatWasWritten == File!IsWhatWasWritten

\* The same text everywhere: what the sink was sent since the last clear() is what
\* the buffer holds, the bounded array its beginning, the file all of it, its
\* line ends translated, unless it could not be cleared or written.
SameText ==
    /\ sent = cleared \o buffer
    /\ size <= Len(buffer) /\ view = SubSeq(buffer, 1, size)
    /\ ~astray /\ ~dropped => File!IsEncoding(file, buffer)
=============================================================================
