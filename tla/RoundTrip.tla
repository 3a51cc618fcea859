------------------------------ MODULE RoundTrip ------------------------------
(***************************************************************************)
(* A tree goes into a text and comes back: the parser (NodeParser) and the *)
(* stringifier (Stringify) composed, with a person who writes and edits    *)
(* texts in between.                                                       *)
(*                                                                         *)
(* A program builds documents or reads them, and has the library print     *)
(* them, as YAML or as JSON.  Or a person writes the same documents by     *)
(* hand, in any of the styles YAML offers.  Either text may be edited in   *)
(* ways that mean nothing to YAML (a comment, an empty line), go through a *)
(* file (YamlFile) or be put below a key as it is; then it is read, and    *)
(* what was read may be printed and read once more.                        *)
(*                                                                         *)
(* What a person does is not code of the library; it is defined here as    *)
(* part of the environment.                                                *)
(***************************************************************************)
EXTENDS JsonStringify, YamlFile

CONSTANTS Held,        \* what a program may hold at the start: sequences of
                       \* documents, each with its node
          ByHand,      \* those of them that a person writes and edits too
          Steps,       \* the indentations that are set
          Styles,      \* the styles a person writes in
          Avoided      \* the KnownLimits that nobody runs into

VARIABLES docs,        \* the documents the library holds
          accepted,    \* whether the last text was read without an exception
          text,        \* the text, when there is one to read
          phase,       \* "held", "text" or "read"
          meant,       \* history: the documents the text stands for
          how          \* history: who wrote the text, and whether it was edited

roundTrip == <<docs, accepted, text, phase, meant, how>>
-----------------------------------------------------------------------------
\* Trees.
Children(node) ==
    CASE node.kind = "array" -> node.items
      [] node.kind = "dictionary" ->
           [i \in DOMAIN node.entries |-> node.entries[i].node]
      [] OTHER -> <<>>

RECURSIVE Nodes(_)
Nodes(node) ==
    {node} \union UNION {Nodes(Children(node)[i]) : i \in DOMAIN Children(node)}
NodesOf(contents) ==
    UNION {Nodes(contents[i][1]) : i \in {j \in DOMAIN contents : contents[j] # <<>>}}

-----------------------------------------------------------------------------
\* How a person writes a tree.  A scalar is written as it is printed; in the
\* style "folded" its spaces are line breaks, in the style "numbers" a double
\* quoted one has the number of every character.
Scalar(node) == stringifyNodes(<<>>, node, 0, 2)
Numbered(chars) ==
    LET units == toUtf16(chars)
        Escape(i) ==
            IF Lower(units[i]) THEN <<>>
            ELSE IF Upper(units[i])
            THEN <<"\\", "U">> \o Hex(65536 + (units[i] - 55296) * 1024 + units[i + 1] - 56320, 8)
            ELSE IF units[i] < 256 THEN <<"\\", "x">> \o Hex(units[i], 2)
            ELSE encodeUTF16(units[i])
    IN InQuotes("\"", FlattenSeq([i \in DOMAIN units |-> Escape(i)]))
Folded(scalar, indent) ==
    FlattenSeq([i \in 1..Len(scalar) |->
        IF scalar[i] = Space THEN <<LF>> \o Spaces(indent) ELSE <<scalar[i]>>])

WrittenScalar(node, indent, style) ==
    IF style = "folded" THEN Folded(Scalar(node), indent)
    ELSE IF style = "numbers" /\ node.kind = "string" /\ node.quote = "\""
    THEN Numbered(node.text)
    ELSE Scalar(node)

\* In flow style, on one line or with a line of its own for every element.
RECURSIVE WrittenFlow(_, _)
WrittenFlow(node, gap) ==
    LET Joined(parts) == FlattenSeq([i \in DOMAIN parts |->
            (IF i = 1 THEN <<>> ELSE <<",">>) \o gap \o parts[i]])
        Entry(e) == KeyInQuotes(e) \o <<":", Space>> \o WrittenFlow(e.node, gap)
    IN CASE node.kind = "array" ->
              <<"[">> \o Joined([i \in DOMAIN node.items |->
                                    WrittenFlow(node.items[i], gap)]) \o <<"]">>
         [] node.kind = "dictionary" ->
              <<"{">> \o Joined([i \in DOMAIN node.entries |->
                                    Entry(node.entries[i])]) \o <<"}">>
         [] OTHER -> Scalar(node)

\* In block style: every collection on lines of its own, a sequence as deep as
\* the key it belongs to; in the style "explicit" with marked keys.
RECURSIVE WrittenBlock(_, _, _)
WrittenBlock(node, indent, style) ==
    LET Value(v, deeper) ==
            IF isCollection(v)
            THEN <<LF>> \o WrittenBlock(v, IF deeper THEN indent + 2 ELSE indent, style)
            ELSE <<Space>> \o WrittenScalar(v, indent + 1, style) \o <<LF>>
        Key(e) == IF style = "explicit"
                  THEN <<"?", Space>> \o KeyInQuotes(e) \o <<LF>> \o Spaces(indent) \o <<":">>
                  ELSE KeyInQuotes(e) \o <<":">>
        Entry(e) == Spaces(indent) \o Key(e) \o Value(e.node, e.node.kind # "array")
        Item(n) == Spaces(indent) \o <<"-">> \o Value(n, TRUE)
    IN CASE node.kind = "array" ->
              FlattenSeq([i \in DOMAIN node.items |-> Item(node.items[i])])
         [] node.kind = "dictionary" ->
              FlattenSeq([i \in DOMAIN node.entries |-> Entry(node.entries[i])])
         [] OTHER -> Append(WrittenScalar(node, indent, style), LF)

FlowStyles == {"flow", "flow lines"}
Written(node, style) ==
    CASE style = "flow" -> Append(WrittenFlow(node, <<>>), LF)
      [] style = "flow lines" -> Append(WrittenFlow(node, <<LF, Space, Space>>), LF)
      [] OTHER -> WrittenBlock(node, 0, style)
-----------------------------------------------------------------------------
\* Edits of a text.
LineStarts(t) == {1} \union {i + 1 : i \in {j \in DOMAIN t : t[j] = LF}}
LineEnds(t) == {i \in DOMAIN t : t[i] = LF}
Inserted(t, i, part) == SubSeq(t, 1, i - 1) \o part \o SubSeq(t, i, Len(t))

\* The line ends of another editor.
WithLineEnds(t, end) ==
    FlattenSeq([i \in DOMAIN t |-> IF t[i] = LF THEN end ELSE <<t[i]>>])

CommentLine == <<"#", "c", LF>>
Comment == <<Space, "#", "c">>

\* Every line but an empty one deeper, below a key.
Nested(t, key) ==
    key \o <<":", LF>> \o
    FlattenSeq([i \in DOMAIN t |->
        (IF i \in LineStarts(t) /\ t[i] # LF THEN <<Space, Space>> ELSE <<>>) \o <<t[i]>>])
-----------------------------------------------------------------------------
\* Where texts are known not to come back.  A block scalar is not written in
\* these styles, and a comment in one, or in a folded scalar, is content.
KnownLimits == {"colon in a flow sequence", "collection in a sequence",
                "comment in an explicit key", "beyond ASCII in a quoted key",
                "beyond ASCII in UTF-16"}
ASSUME AvoidedAssumption == Avoided \subseteq KnownLimits

isBlockString(node) == node.kind = "string" /\ node.quote \in {"|", ">"}

\* A ':' behind a ',' of a flow sequence on one line.
ColonInArray(node) ==
    /\ node.kind = "array"
    /\ \E i \in 2..Len(node.items) : ":" \in ToSet(WrittenFlow(node.items[i], <<>>))
\* A key in double quotes is printed as it is, and read with its escapes.
BeyondASCII(str) == \E i \in DOMAIN str : Code[str[i]] >= 128
QuotedKeyBeyondASCII(node) ==
    /\ node.kind = "dictionary"
    /\ \E i \in DOMAIN node.entries :
          node.entries[i].quote = "\"" /\ BeyondASCII(node.entries[i].key)

MayWrite(style) ==
    \A node \in NodesOf(docs) :
        /\ ~isBlockString(node)
        /\ style = "flow" /\ "colon in a flow sequence" \in Avoided => ~ColonInArray(node)
        /\ "beyond ASCII in a quoted key" \in Avoided => ~QuotedKeyBeyondASCII(node)

\* A collection in a sequence, printed at an indentation other than two.
CollectionInArray(node) ==
    node.kind = "array" /\ \E i \in DOMAIN node.items : isCollection(node.items[i])
MayPrint(step) ==
    \A node \in NodesOf(docs) :
        /\ step # 2 /\ "collection in a sequence" \in Avoided => ~CollectionInArray(node)
        /\ "beyond ASCII in a quoted key" \in Avoided => ~QuotedKeyBeyondASCII(node)
MayPrintJson ==
    \A node \in NodesOf(docs) :
        "colon in a flow sequence" \in Avoided => ~ColonInArray(node)

\* A unit of UTF-16 with a low byte above 127.
MaySave(format) ==
    format \in {"utf16BE", "utf16LE"} /\ "beyond ASCII in UTF-16" \in Avoided
        => \A unit \in ToSet(toUtf16(text)) : unit % 256 < 128

\* A comment between an explicit key and its ':'.
MayComment ==
    /\ how # "folded"
    /\ how = "explicit" => "comment in an explicit key" \notin Avoided
    /\ ~\E node \in NodesOf(docs) : isBlockString(node)
-----------------------------------------------------------------------------
RoundTripInit ==
    /\ docs \in Held
    /\ meant = docs
    /\ accepted = TRUE
    /\ text = <<>>
    /\ phase = "held"
    /\ how = "nobody"

\* YAML::stringify, of what a program built or read.
PrintDocuments(step) ==
    /\ phase = "held" \/ (phase = "read" /\ accepted)
    /\ MayPrint(step)
    /\ text' = stringify(docs, step)
    /\ meant' = docs
    /\ phase' = "text"
    /\ how' = "printer"
    /\ UNCHANGED <<docs, accepted>>

\* YAML::stringify with a JSON_Stringify, which has no quotes but one and no
\* mark between documents.
RECURSIVE InJson(_)
InJson(node) ==
    CASE node.kind = "string" -> String(node.text, "\"")
      [] node.kind = "array" ->
           Array([i \in DOMAIN node.items |-> InJson(node.items[i])])
      [] node.kind = "dictionary" ->
           Dictionary([i \in DOMAIN node.entries |->
               DictionaryEntry(node.entries[i].key, "\"", InJson(node.entries[i].node))])
      [] OTHER -> node
PrintJson ==
    /\ phase = "held"
    /\ Len(docs) = 1
    /\ MayPrintJson
    /\ text' = stringifyJson(docs[1][1])
    /\ meant' = <<<<InJson(docs[1][1])>>>>
    /\ phase' = "text"
    /\ how' = "printer"
    /\ UNCHANGED <<docs, accepted>>

\* A person writes a document.
Write(style) ==
    /\ phase = "held"
    /\ docs \in ByHand
    /\ MayWrite(style)
    /\ text' = Written(docs[1][1], style)
    /\ phase' = "text"
    /\ how' = style
    /\ UNCHANGED <<docs, accepted, meant>>

\* A person edits a text, once.
Edit(edited) ==
    /\ phase = "text"
    /\ docs \in ByHand
    /\ how \notin {"edited", "broken"}
    /\ text' = edited
    /\ how' = "edited"
    /\ UNCHANGED <<docs, accepted, phase>>

NoteLine(i) == Edit(Inserted(text, i, CommentLine)) /\ MayComment /\ UNCHANGED meant
NoteEnd(i) == Edit(Inserted(text, i, Comment)) /\ MayComment /\ UNCHANGED meant
EmptyLine(i) == Edit(Inserted(text, i, <<LF>>)) /\ how # "folded" /\ UNCHANGED meant

\* A text is saved, in an editor or by YAML::toFile, and read from the file by
\* YAML::fromFile or a FileSource.
SaveFile(format, end) ==
    LET file == toFile(WithLineEnds(text, end), format)
    IN /\ Edit(IF fromFileThrows(file) THEN <<>> ELSE fromFile(file))
       /\ MaySave(format)
       /\ UNCHANGED meant
SaveSource(end) ==
    /\ Edit(FileSourceText(toFile(WithLineEnds(text, end), "utf8")))
    /\ UNCHANGED meant

\* A person moves a text below a key.
Nest(key) ==
    /\ how \in Styles
    /\ Edit(Nested(text, key))
    /\ meant' = <<<<Dictionary(<<DictionaryEntry(key, NoQuote, meant[1][1])>>)>>>>

\* A text gets damaged: a flow collection without its end, or a mapping or a
\* flow collection twice in a row.
Break(broken) ==
    /\ phase = "text"
    /\ docs \in ByHand
    /\ isCollection(docs[1][1])
    /\ text' = broken
    /\ how' = "broken"
    /\ UNCHANGED <<docs, accepted, phase, meant>>

Cut(i) == how \in FlowStyles /\ i < Len(text) - 1 /\ Break(SubSeq(text, 1, i))
Repeat ==
    /\ how \in Styles
    /\ how \in FlowStyles \/ docs[1][1].kind = "dictionary"
    /\ Break(text \o text)

\* YAML::parse.
Load ==
    /\ phase = "text"
    /\ LET read == parse(text)
       IN docs' = read.docs /\ accepted' = ~thrown(read.src)
    /\ phase' = "read"
    /\ UNCHANGED <<text, meant, how>>

RoundTripNext ==
    \/ \E step \in Steps : PrintDocuments(step)
    \/ PrintJson
    \/ \E style \in Styles : Write(style)
    \/ \E i \in LineStarts(text) : NoteLine(i) \/ EmptyLine(i)
    \/ \E i \in LineEnds(text) : NoteEnd(i)
    \/ \E format \in Formats : SaveFile(format, <<CR, LF>>)
    \/ \E end \in {<<CR>>, <<CR, LF>>} : SaveSource(end)
    \/ Nest(<<"k">>)
    \/ \E i \in DOMAIN text : Cut(i)
    \/ Repeat
    \/ Load

RoundTripSpec == RoundTripInit /\ [][RoundTripNext]_roundTrip
-----------------------------------------------------------------------------
ReadBack == accepted /\ docs = meant

\* What the library prints it reads as the very same documents, at every
\* indentation: documents a program built, and those it read before.
PrintedReadsBack == phase = "read" /\ how = "printer" => ReadBack

\* The same tree written by a person, in flow style, over lines, with marked
\* keys, with folded scalars, is the same tree.
WrittenReadsBack == phase = "read" /\ how \in Styles => ReadBack

\* Comments, empty lines and a deeper place do not change what is read.
EditedReadsBack == phase = "read" /\ how = "edited" => ReadBack

\* A text that lost its end, or that says everything twice, is not accepted.
BrokenIsRejected == phase = "read" /\ how = "broken" => ~accepted
=============================================================================
