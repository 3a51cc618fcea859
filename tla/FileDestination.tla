--------------------------- MODULE FileDestination ---------------------------
(***************************************************************************)
(* FileDestination: a file written byte by byte, every line feed as CR LF, *)
(* with the size of what was written and the last byte.  The std::ofstream *)
(* is external: it may fail to open, and drops what it is given while it   *)
(* is not good.                                                            *)
(***************************************************************************)
EXTENDS Integers, Sequences, FiniteSets

CONSTANTS
    Byte, kLineFeed, kCarriageReturn, kNull,
    MaxWritten          \* bound: bytes written between two clears

VARIABLES
    file,               \* the bytes that reached the file
    isOpen, good,       \* the state of the std::ofstream
    fileSize, lastChar,
    status              \* "running", "thrown", or "undefined" behaviour
\* history: the bytes given to add() since construction or clear(), whether some
\* of them were not written, and whether lastChar is that of another text: an
\* empty string was added after the last byte, or clear() failed
VARIABLES given, dropped, astray

vars == <<file, isOpen, good, fileSize, lastChar, status, given, dropped, astray>>

\* The constructor: open() truncates, or fails without a word.
Init ==
    /\ file = <<>>
    /\ isOpen \in BOOLEAN
    /\ good = isOpen
    /\ fileSize = 0
    /\ lastChar = kNull
    /\ status = "running"
    /\ given = <<>>
    /\ dropped = FALSE
    /\ astray = FALSE
-----------------------------------------------------------------------------
\* A line feed is written as two bytes.
encode(ch) == IF ch = kLineFeed THEN <<kCarriageReturn, kLineFeed>> ELSE <<ch>>

\* std::ofstream::put() and write(): a stream that is not open goes bad.
Put(bytes) ==
    /\ file' = IF good THEN file \o bytes ELSE file
    /\ dropped' = (dropped \/ ~good)
    /\ UNCHANGED <<isOpen, good>>

\* Broken: remembers the byte a line feed is written as first.
BrokenAddLast(ch) ==
    /\ status = "running"
    /\ Len(given) < MaxWritten
    /\ Put(encode(ch))
    /\ fileSize' = fileSize + Len(encode(ch))
    /\ lastChar' = encode(ch)[1]
    /\ given' = Append(given, ch)
    /\ astray' = FALSE
    /\ UNCHANGED status

\* add(ch); the string forms of add() call it for each byte and set lastChar to
\* the last of them once more.
add(ch) ==
    /\ status = "running"
    /\ Len(given) < MaxWritten
    /\ Put(encode(ch))
    /\ fileSize' = fileSize + Len(encode(ch))
    /\ lastChar' = ch
    /\ given' = Append(given, ch)
    /\ astray' = FALSE
    /\ UNCHANGED status

\* The string forms given nothing read the byte before the first: any byte, or
\* the end of the program.
addNothing ==
    /\ status = "running"
    /\ \/ lastChar' \in Byte \union {kNull} /\ UNCHANGED status
       \/ status' = "undefined" /\ UNCHANGED lastChar
    /\ astray' = TRUE
    /\ UNCHANGED <<file, isOpen, good, fileSize, given, dropped>>

close ==
    /\ status = "running"
    /\ isOpen' = FALSE
    /\ good' = FALSE
    /\ UNCHANGED <<file, fileSize, lastChar, status, given, dropped, astray>>

\* Broken: goes on counting from the size of the text before.
BrokenClear ==
    /\ status = "running"
    /\ isOpen' = TRUE
    /\ good' = TRUE
    /\ file' = <<>>
    /\ lastChar' = kNull
    /\ given' = <<>>
    /\ dropped' = FALSE
    /\ astray' = FALSE
    /\ UNCHANGED <<fileSize, status>>

\* clear(): the file is opened again, empty, or the error is thrown.
clear ==
    /\ status = "running"
    /\ isOpen' = TRUE
    /\ good' = TRUE
    /\ file' = <<>>
    /\ fileSize' = 0
    /\ lastChar' = kNull
    /\ given' = <<>>
    /\ dropped' = FALSE
    /\ astray' = FALSE
    /\ UNCHANGED status

clearFails ==
    /\ status = "running"
    /\ isOpen' = FALSE
    /\ good' = FALSE
    /\ status' = "thrown"
    /\ astray' = TRUE
    /\ UNCHANGED <<file, fileSize, lastChar, given, dropped>>

\* The caller that catches the error may go on with the object.
goOn ==
    /\ status = "thrown"
    /\ status' = "running"
    /\ UNCHANGED <<file, isOpen, good, fileSize, lastChar, given, dropped, astray>>
-----------------------------------------------------------------------------
\* The members have their types.
TypeOK ==
    /\ file \in Seq(Byte \union {kCarriageReturn})
    /\ isOpen \in BOOLEAN /\ good \in BOOLEAN
    /\ fileSize \in Nat
    /\ lastChar \in Byte \union {kNull}
    /\ status \in {"running", "thrown", "undefined"}
    /\ given \in Seq(Byte)
    /\ dropped \in BOOLEAN /\ astray \in BOOLEAN

\* Where byte i of a text stands in the file: one further for each line feed up
\* to it.
Place(bytes, i) == i + Cardinality({j \in 1..i : bytes[j] = kLineFeed})

\* f is the text with every line end translated, and nothing more.
IsEncoding(f, bytes) ==
    /\ Len(f) = Place(bytes, Len(bytes))
    /\ \A i \in 1..Len(bytes) :
        /\ f[Place(bytes, i)] = bytes[i]
        /\ bytes[i] = kLineFeed => f[Place(bytes, i) - 1] = kCarriageReturn

\* Until a byte is dropped, the file holds what was written since the last
\* clear(), its line ends translated, and size() is the size of the file: a
\* clear() leaves nothing of the text before it and the count restarts with it.
IsWhatWasWritten ==
    ~dropped => IsEncoding(file, given) /\ fileSize = Len(file)
=============================================================================
