---------------------------- MODULE MCRoundTrip ----------------------------
(***************************************************************************)
(* Trees for RoundTrip: scalars that are easily taken for something else,  *)
(* alone, in small collections and in collections of collections.          *)
(***************************************************************************)
EXTENDS RoundTrip

Plain(chars) == String(chars, NoQuote)
a == Plain(<<"a">>)
aSpaceB == Plain(<<"a", Space, "b">>)
looksLikeKey == String(<<"a", ":", Space, "b">>, "\"")
eAcute == <<"xC3", "xA9">>
grin == <<"xF0", "x9F", "x98", "x80">>
Scalars ==
    {a, aSpaceB, looksLikeKey, Null, Boolean(TrueText),
     Number(<<"1">>), Number(<<"-", "1">>),
     Plain(<<"a", ":", "b", "#">>), Plain(<<"-", "a">>), String(<<>>, "\""),
     String(<<"#", Space, "a">>, "'"), String(<<"i", "'", "s">>, "'"),
     String(<<"a", LF, "b", Tab>>, "\""), String(TrueText, "'"),
     Plain(eAcute), String(eAcute \o grin, "\""), String(grin, "'")}
BlockStrings ==
    {String(<<"a", LF, "b">>, "|"), String(<<"a", Space, "b">>, ">"),
     String(<<"a", LF, LF, "b">>, ">")}

k == <<<<"k">>, NoQuote>>
Keys == {k, <<<<"j", Space, "j">>, NoQuote>>, <<<<"1">>, "\"">>,
         <<<<"x", ":", Space, "y">>, "\"">>, <<<<"'">>, "'">>,
         <<eAcute, NoQuote>>, <<grin, "\"">>}
ArraysOf(nodes) == {Array(<<n>>) : n \in nodes} \union {Array(<<n, m>>) : n, m \in nodes}
DictionariesOf(keys, nodes) ==
    LET Entry(key, node) == DictionaryEntry(key[1], key[2], node)
    IN {Dictionary(<<Entry(key, n)>>) : key \in keys, n \in nodes}
       \union {Dictionary(<<Entry(key, n), Entry(<<<<"l">>, NoQuote>>, m)>>) :
                   key \in keys, n, m \in nodes}
Collections(nodes) == ArraysOf(nodes) \union DictionariesOf({k}, nodes)

\* Any text of up to three characters that mean something to YAML.
Nasty == {"a", Space, LF, "\"", "\\", "#", ":", "'"}
AnyText == UNION {[1..n -> Nasty] : n \in 0..3}

Flat == Collections({a, looksLikeKey})
Innermost == ArraysOf({a}) \union {n \in DictionariesOf({k}, {a}) : Len(n.entries) = 2}
Small == Scalars \union Collections({aSpaceB, Null, looksLikeKey})
            \union Collections(Collections({Null}) \union {a})
Large == Collections(Scalars \union BlockStrings) \union DictionariesOf(Keys, {a, Null, looksLikeKey})
            \union Collections(Flat)
            \union Collections(Collections(Innermost))
Document(node) == <<<<node>>>>
MCHeld == {Document(n) : n \in Small \union Large \union {String(t, "\"") : t \in AnyText}}
          \union {<<<<n>>, <<m>>>> : n, m \in {a, Null, looksLikeKey} \union Flat}
MCByHand == {Document(n) : n \in Small}
=============================================================================
