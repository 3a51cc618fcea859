--------------------------- MODULE JsonStringify ----------------------------
(***************************************************************************)
(* How JSON_Stringify prints a node tree: on one line, every string and    *)
(* every key in double quotes and through Default_Translator.  JSON is     *)
(* YAML, so that what is printed can be read by the same parser.           *)
(***************************************************************************)
EXTENDS Stringify

\* stringify_detail::addDelimited
addDelimited(open, parts, close) ==
    <<open>> \o FlattenSeq([i \in DOMAIN parts |->
                   IF i = 1 THEN parts[i] ELSE <<",">> \o parts[i]]) \o <<close>>

RECURSIVE stringifyJson(_)
stringifyJson(node) ==
    CASE node.kind = "string" -> InQuotes("\"", to(node.text))
      [] node.kind \in {"boolean", "number"} -> node.text
      [] node.kind = "null" -> NullText
      [] node.kind = "hole" -> <<>>
      [] node.kind = "dictionary" ->
           addDelimited("{", [i \in DOMAIN node.entries |->
                                 InQuotes("\"", to(node.entries[i].key)) \o <<":">>
                                 \o stringifyJson(node.entries[i].node)], "}")
      [] node.kind = "array" ->
           addDelimited("[", [i \in DOMAIN node.items |-> stringifyJson(node.items[i])], "]")
=============================================================================
