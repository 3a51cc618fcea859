----------------------------- MODULE Stringify ------------------------------
(***************************************************************************)
(* How Default_Stringify prints a node tree as block style YAML.  An       *)
(* operator maps what the destination holds to what it holds afterwards.   *)
(* "step" is yamlIndentation, which setIndentation changes.  Tags,         *)
(* comments and timestamps are not part of the trees.                      *)
(***************************************************************************)
EXTENDS NodeParser

\* An indentation is printed at the start of a line only.
calculateIndent(out, indent) == IF EndsIn(out, {LF}) THEN Spaces(indent) ELSE <<>>

\* Broken: an apostrophe is not doubled.
BrokenEscapeSingleQuoted(value) == value

escapeSingleQuoted(value) ==
    FlattenSeq([i \in 1..Len(value) |->
        IF value[i] = "'" THEN <<"'", "'">> ELSE <<value[i]>>])

InQuotes(quote, text) == <<quote>> \o text \o <<quote>>

\* The lines of a string that is not quoted.  splitString drops the line break
\* at the end of the last one; the empty line behind it gets its indentation.
RECURSIVE PrintLines(_, _, _)
PrintLines(out, lines, indent) ==
    LET begun == out \o calculateIndent(out, indent)
        breaks == {i \in DOMAIN lines : lines[i] = LF}
    IN IF breaks = {} THEN begun \o lines
       ELSE PrintLines(begun \o SubSeq(lines, 1, Min(breaks)),
                       SubSeq(lines, Min(breaks) + 1, Len(lines)), indent)

stringifyString(out, node, indent) ==
    CASE node.quote = "\"" -> out \o InQuotes("\"", to(node.text))
      [] node.quote = "'" -> out \o InQuotes("'", escapeSingleQuoted(node.text))
      [] OTHER ->
           IF node.text = <<>> THEN out
           ELSE PrintLines(out, IF EndsIn(node.text, {LF}) THEN Front(node.text)
                                                           ELSE node.text, indent)

\* The header of a block scalar.
stringifyAnyBlockStyle(out, node) ==
    IF node.kind = "string" /\ node.quote \in {"|", ">"}
    THEN out \o <<node.quote, LF>> ELSE out

\* The text of a key is not escaped in double quotes.
KeyInQuotes(entry) ==
    CASE entry.quote = "\"" -> InQuotes("\"", entry.key)
      [] entry.quote = "'" -> InQuotes("'", escapeSingleQuoted(entry.key))
      [] OTHER -> entry.key

EndLine(out) == IF EndsIn(out, {LF}) THEN out ELSE Append(out, LF)
isCollection(node) == node.kind \in {"array", "dictionary"}

RECURSIVE stringifyNodes(_, _, _, _)
stringifyEntry(out, entry, indent, step) ==
    LET header == stringifyAnyBlockStyle(
                      out \o calculateIndent(out, indent)
                          \o KeyInQuotes(entry) \o <<":", Space>>, entry.node)
    IN IF isCollection(entry.node)
       THEN stringifyNodes(Append(header, LF), entry.node, indent + step, step)
       ELSE Append(stringifyNodes(header, entry.node, indent + step, step), LF)

stringifyElement(out, node, indent, step) ==
    LET header == stringifyAnyBlockStyle(
                      out \o calculateIndent(out, indent) \o <<"-", Space>>, node)
    IN EndLine(stringifyNodes(header, node, indent + step, step))

stringifyNodes(out, node, indent, step) ==
    CASE node.kind = "string" -> stringifyString(out, node, indent)
      [] node.kind \in {"boolean", "number"} -> out \o node.text
      [] node.kind \in {"null", "hole"} -> out \o NullText
      [] node.kind = "dictionary" ->
           FoldLeft(LAMBDA o, entry : stringifyEntry(o, entry, indent, step),
                    out, node.entries)
      [] node.kind = "array" ->
           FoldLeft(LAMBDA o, item : stringifyElement(o, item, indent, step),
                    out, node.items)

\* A document; one without a node has no contents.
stringifyDocument(out, doc, step) ==
    LET header == out \o <<"-", "-", "-">>
        body == IF doc = <<>> THEN header
                ELSE stringifyNodes(EndLine(stringifyAnyBlockStyle(header, doc[1])),
                                    doc[1], 0, step)
    IN EndLine(body) \o <<".", ".", ".", LF>>

\* YAML_Impl::stringify
stringify(docs, step) ==
    FoldLeft(LAMBDA out, doc : stringifyDocument(out, doc, step), <<>>, docs)
=============================================================================
