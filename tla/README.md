# A TLA+ model of YAML_Lib

YAML_Lib is a C++20 library that parses YAML into a tree of nodes and writes
such trees as YAML, JSON, XML, TOML, CSV, Bencode and others. This directory
holds TLA+ modules of its core, configurations that check them with TLC on small
instances, and proofs that TLAPS checks for every value of the constants.

- [The system](#the-system): the parts, their state, how they interact
- [The modules](#the-modules): what models what
- [The runs](#the-runs): what TLC checks, the bounds and why they are enough
- [The proofs](#the-proofs)
- [Where code and documents differ](#where-code-and-documents-differ)
- [What is not modelled](#what-is-not-modelled)
- [Plan](#plan)

All paths are below `src/`; `parser/` stands for
`classes/source/implementation/parser/` and `io/` for
`classes/include/implementation/io/`.

## The system

| component | state it keeps | operations | what makes it right |
|---|---|---|---|
| Sources: `classes/include/interface/ISource.hpp`, `io/YAML_BufferedSourceBase.hpp` (with Buffer-, Span- and FileSource), `io/YAML_StreamSource.hpp` | a cursor (offset or stream position, line, column) and a stack of saved contexts | `current`, `more`, `next`, `match`, `ignoreWS`, `save`/`restore`/`discardSave`, `reset` | line and column are those of the cursor; a failed match and a restore leave no trace; all sources look the same to the parser |
| Parser, document loop: `parser/YAML_Parser.cpp` | `inDocument`, `pendingDirectives`, the documents read so far; in `ParseContext` the anchors, the tag prefixes and the version | `parse`, `parseDirective`, `resetDocumentState` | declarations stay in their document; directives reach theirs; content is never replaced |
| Parser, anchors and aliases: `parser/YAML_Parser_Directive.cpp`, `parser/YAML_Parser_Util.cpp` | `yamlAliasMap` (name to unparsed text), the names being expanded, the expansion count, the depth | `parseAnchor`, `parseAlias`, `parseOverride`, `parseFromBuffer` | every parse ends, limits hold, guards are balanced on every way out |
| Parser, merge keys: `mergeOverrides`, `upsertDictEntry` | the mapping under construction | merging `<<` into the mapping around it | one entry to a key, explicit keys first |
| Parser, router and block structure: `parser/YAML_Parser_Router.cpp`, `_Array.cpp`, `_Dictionary.cpp`, `_Util.cpp` | `arrayIndentLevel`, `inlineArrayDepth`, `inlineDictionaryDepth`, the source under `SourceGuard`s | choosing the parse function by lookahead, indentation | the tree is the one the text stands for, in every style it can be written in |
| Parser, scalars: `_Scalar.cpp`, `_FlowString.cpp`, `_BlockString.cpp`, `_Timestamp.cpp`, `_Tag.cpp` | none but the source | quoting, folding, chomping, tags, numbers, dates | the value of the text |
| Node tree: `classes/include/implementation/node/`, `variants/` | `Node` variants; `Dictionary` keeps entries and an index of them | `add`, `contains`, `operator[]`, assignment, initializer lists | index and entries agree; an access disturbs nothing |
| Static containers: `variants/YAML_Static*.hpp` | an array of N entries or nodes and a count | `add`, `resize`, `contains`, `operator[]` | they answer as the dynamic ones do until they are full |
| Destinations: `io/*Destination.hpp` | what was written, the last byte | `add`, `clear`, `last` | the same text everywhere, loss is reported |
| Stringifiers: `classes/include/implementation/stringify/` | a static indentation and a static indentation buffer | one printer per format | what is printed parses back |
| Translators and converters: `classes/source/implementation/translator/`, `converter/` | none | escapes, UTF-8/16/32 | no character lost |
| Files: `classes/source/implementation/file/YAML_File.cpp`, `io/YAML_FileSource.hpp` | none | byte order marks, UTF-16, line ends | the text that was written is the text that is read |
| `YAML_Impl`, `YAML` (`classes/source/implementation/YAML_Impl.cpp`, `classes/source/YAML.cpp`) | the tree of the last parse, the options, the parser, the stringifier | `parse`, `stringify`, `traverse`, `setStrictBooleans`, `document(i)` | objects do not disturb one another |
| Schema, SAX events, traversal | none | validation, events | |

Everything runs on the caller's thread. A YAML object calls its parser with a
source; the parser reads the source through `ISource`, calls itself for nested
nodes and, for an anchor, an alias or a `<<:*name`, on a new `BufferSource` over
stored text. The stringifier writes through `IDestination` and asks it for the
last byte. Objects share the static `Default_Parser::strictBooleans`, the static
indentation of `Default_Stringify`, and the default memory resource of the C++
library, which `YAML_Impl::parse` exchanges while it runs.

What is hard to test here:

- *exceptions*: every error is one, from any depth of recursion, and it crosses
  guards that restore the source, the depth, the active aliases and the memory
  resource; the same object can parse again;
- *lookahead*: the router tries and restores, dozens of times to a node; a
  source whose `restore` is a little off misparses silently;
- *textual aliases*: a stored text is parsed again in another context, by a
  parser in the middle of its work;
- *three ways a document can begin* and two it can end, each with its own
  resets;
- *state bits* of `std::istream` and `std::ofstream` that change with a look;
- *limits* that must hold on every path;
- *objects that share* a static and a process-wide default;
- *one value, many texts*: plain, three ways of quoting, flow, block, explicit
  keys, comments and empty lines anywhere; most pairs of these meet in no test;
- *access that makes things*: `operator[]` inserts what it does not find, throws
  half way down, and has the index to keep.

`PROJECT.json` lists the hazards at their lines with the properties that would
notice each going wrong.

## The modules

| module | models | by |
|---|---|---|
| `SourceText` | what a text is, and which line and column belong to an offset | functions and operators |
| `Source` | the promise of `ISource`: a cursor and marks, nothing else | abstract specification |
| `BufferedSource` | `BufferedSourceBase` with `match` and `ignoreWS` | implements `Source` |
| `StreamSource` | `StreamSource` over a `std::istream`, whose `peek`, `tellg`, `seekg` and state bits are external operators | implements `Source` |
| `AliasExpansion` | `parseAnchor`, `parseAlias`, `parseOverride`, `parseFromBuffer`, `DepthGuard`, `AliasGuard` | state machine |
| `DocumentStream` | the loop of `Default_Parser::parse`, `parseDirective`, the tables of `ParseContext`, the tree kept by `YAML_Impl::parse` | state machine |
| `Containers` | `Dictionary` with entries and index, `SequenceBase::resize`, `StaticDictionary`, `StaticSequenceBase` | operators on records |
| `MergeKeys` | `mergeOverrides`, on the dictionaries of `Containers` | state machine |
| `NodeTree` | a document in the hands of a program: `operator[]` of `YAML_Impl` and `Node`, assignment, copies into static containers | extends `MergeKeys` with steps of its own |
| `ParserText` | the moves and extractions of `_Util.cpp`, the predicates of `_Router.cpp` | operators from a source to a source |
| `Translator` | `Default_Translator` with all its escapes; the converters (external) | operators on bytes and UTF-16 units |
| `FlowString`, `BlockString` | quoted and plain strings, block scalars | operators |
| `KeyText` | `extractKey`, the tests for keys of every form | operators |
| `NodeParser` | the router, collections, the rest of the scalars, the document loop | recursive operators |
| `Stringify`, `JsonStringify` | `Default_Stringify`, `JSON_Stringify` | recursive operators |
| `YamlFile` | `toFile`, `getFileFormat`, `fromFile`, the line ends of `FileSource` | operators |
| `RoundTrip` | documents printed or written, edited, saved, read and printed again | state machine over the eight modules above |
| `FixedDestination`, `FileDestination` | the two destinations with behaviour of their own | state machines |
| `Destinations` | both of them, with Buffer-, Stream- and CallbackDestination, under the same calls | composition |
| `SharedState` | the static setting and the default resource, under two or more objects | state machine |

An `MC...` module gives constants to one of these (`MCOutput` to two, `Destinations`
and `RoundTrip`, side by side); a `..._proofs` module holds
the theorems of one. A definition whose name begins with `Broken` is not part of
any specification: it is a wrong version of a definition after it (a guard
missing, a reset forgotten), kept to show that the property it is listed with in
`PROJECT.json` fails when the code is wrong in that way.

Variables and actions have the names of the members and functions of the code.
Variables declared under "history" are not in the code; only properties read
them.

**Sources.** A step of `BufferedSource` is a call, except that `match` takes a
step to each character so that it can fail after any of them. `thrown` is the
exception on its way: after it only `restore` (a `SourceGuard` being destroyed)
and `reset` happen. In the abstract source a match in progress has not moved the
cursor; the refinement mapping subtracts the characters matched so far.
`StreamSource` computes `column - length` without a sign, as the code does, so
its `backup` refuses less; its mapping takes the start of the match from a
history variable.

**Aliases.** A text is an identifier and `contents` says which nodes it holds,
in order; `contents` is chosen at the start and never changes. `stack` holds the
nested `parseDocument` calls that read a buffer; each adds two to `parseDepth`,
its own call and that of the node it is in. An exception unwinds the stack one
frame to a step, each giving back its depth and its mark. Collections inside a
text are flattened into the order in which their nodes are parsed; deeper
nesting by collections uses the same `DepthGuard` and is covered by the choice
of `MaxParseDepth`.

**Documents.** One step is one turn of the loop in `parse()`. What the turn
finds is a choice, so that all streams are covered without spelling them. A
stored anchor text, tag prefix or version is represented by its *owner*, the
parse and the document it was declared for, and `uses` collects the owners of
what a document's content looked up. After a return or an exception the same
object parses again.

**Merge keys and the tree.** The input is a mapping as `parseDictionary` has
read it, with `<<` at any place. `calls` is the stack of `mergeOverrides`: a
frame holds the node it was called on, the base it builds, what is left of the
sequence and of the mapping in front, and the explicit keys still to be put on
top. A step takes up a mapping, adds or skips an entry, puts an explicit key on
top (calling itself for a value with a `<<` of its own), returns or throws.
`answers` remembers what each call returned for which node; the properties say
what a result must be without building it entry by entry, of the outermost call
and of those inside it. A program then goes on with the result, in expressions `yaml[..][..]`. Each
`operator[]` is a step: `IndexRoot` is the one of `YAML_Impl`, `Index` the one of
`Node`, which goes on from the `Node&` it is called on. `reference` is the path of
that node. Both make the hole or container they need and keep what earlier
steps of the expression made when they throw. An expression ends in an
assignment (`Assign`) or was for its own sake (`Look`). `written` remembers every
scalar by its path, so that `ContentsAreWritten` compares the tree with its
history, not with itself. `Walk` and `Put` follow a path down a tree and write
at its end; they are recursive functions, not `RECURSIVE` operators, so that the
module can be proved about.
`BeginCopy`, `Copy` and `Grow` fill a static container from the root.

**Texts.** `NodeParser` parses a text character by character, as the code does:
the order in which the router asks its questions is the order of the
cases, and lookahead is the same operator that later consumes. An exception
is a source that is nowhere. A printed text comes from `Stringify`; a text by
hand from `Written` in `RoundTrip`, which is not code of the library but of its
user: block and flow style, elements on lines of their own, explicit keys,
folded scalars, double-quoted scalars with every character by number. One edit
may follow: a comment on a line or behind one, an empty line, a file in one of
four encodings with either line end, a `FileSource`, a new place below a key. Or
the text is cut, or doubled. `Load` parses it, after which the result may be
printed and read once more.

A text is a sequence of bytes. Bytes that are printable are characters, the
others have names (`"xC3"`). The texts of the runs hold whole characters of
UTF-8; raw bytes are sign-extended by `Default_Translator::from` as the compiled
`char` does.

**Destinations.** `Destinations` gives each byte, each empty string and each
`clear` to all five at once. The `std::ofstream` of `FileDestination` may fail
to open, in the constructor and in `clear`, and drops what it is given while it
is not good. Its string forms of `add` read the byte before an empty string: any
byte, or the end of the program.

**Shared state.** Each object belongs to a thread; `MayParse` is the note in
`YAML_Impl::parse`, "single-threaded use only", for objects that have a memory
resource. Reading and writing the static are single steps. (The bool is not
atomic in the code, so that two threads that touch it at once are a data race; a
bool has only two values to read, and the model gives both of them by
interleaving.)

## The runs

| run | what it shows |
|---|---|
| `buffered_source` | on every text of up to four characters, line and column are true, contexts can be returned to, `backup` refuses only strings with a line feed, and the source implements `Source` |
| `stream_source` | line, column, saved contexts and `Source` likewise for the stream, on texts without CR LF and control characters, when no guard is opened at the end inside another; failbit is only ever set at the end |
| `stream_restore_at_end` | *violation*: a guard opened at the end inside another: after its `restore` the outer one does not seek back |
| `alias_expansion` | marks and depth are balanced on every way out, both limits hold for aliases, the text being read is never replaced in the map, every parse ends |
| `alias_override_limit` | *violation*: `<<:*name` expansions are not counted |
| `document_stream` | nothing leaks between documents or parses; directives are in force in their document and never lost; documents are only appended |
| `shared_state` | containers come from the object's own resource; the default resource is given back |
| `strict_booleans` | *violation*: constructing one object changes the setting of another |
| `node_tree` | merging gives each key once, from the source the rules give it; whatever a program then indexes and assigns, index and entries agree and every scalar stays where it was written; static copies answer alike until full |
| `merge_priority` | *violation*: in `<<: [*a, *b]` a key of both has its value from the first |
| `output` | what becomes of a text that is written. The destinations: the same text on all five, `last` answered alike, overflow reported exactly. The text: what is printed reads back, at every indentation, as YAML and as JSON; so does what is written by hand in six styles, with an edit or through a file; cut and doubled texts are refused |
| `flow_sequence` | *violation*: `[null, {a: b}]` and its like are read as something else or refused |

### Bounds, and why they are enough

- *Sources*: texts of up to four characters over a letter, the first character
  of the match targets, a blank, the line feed and a control character (for the
  stream: a carriage return instead), up to two open guards, targets `"---"`,
  `"- "` and one that begins with a line feed. Four characters hold a target and
  one more before or behind it, or two line feeds with a character on each side;
  two guards are what nesting means. The proofs cover all texts: any for the
  buffered sources, those of `PlainUse` for the stream. `MaxText = 2` is enough for `stream_restore_at_end`, where nothing
  but the end matters.
- *Aliases*: two names, two anchored texts, one to be nested in the other, a
  document of three nodes that begins with an anchor, every content of the texts
  built from one or two nodes. Two names make a cycle through one another; the
  limits, seven calls and two expansions, are both reached and both leave room
  for a legal expansion of a nested anchor. `expansions` counts to one past the
  limit. The run has a liveness property, so it uses no symmetry;
  `alias_override_limit` has none and does.
- *Documents*: three documents to a stream, two parses, one name, a built-in and
  a named handle, `max_documents` two. One name and one handle suffice, because
  owners tell who declared them; two parses, because `parse` clears the tables
  whatever was in them. Content after the bound `MaxTree` is not offered, which
  is why deadlock is not checked there: the loop may meet the bound in the
  middle of a stream, and the last parse may have returned.
- *Node tree*: the constant `Nodes` is the set of nodes the parser makes here,
  `KeyBefore` the order in which `std::set` gives the keys. The inputs are
  mappings of two keys, in both orders, `<<` before or after them,
  up to two sources, a nested `<<` in a source and in a value, all merged; six
  of them, an array, a scalar, an empty document and no document at all go on to
  two expressions (`Operations`), each of one or two `operator[]` (`MaxSteps`), by
  two keys (one that mappings have, one that none has) and two indices (0, and 2,
  which makes room for two holes), assigning a scalar, an array or a dictionary
  that was given a key twice. Two expressions are one that makes something and one
  that meets it. `Places` are all paths of up to three steps by the keys and the
  indices that occur: two steps to a node that is assigned, and one in it. `Depth`
  is four, one more than these trees are deep. (`merge_priority` has the same inputs and no
  operations behind the merge.) Capacity two, so that the copies fit, just fit or do not. A
  program may stop anywhere: deadlock is not checked.
- *Texts*: 17 scalars that look like something else (a key, a comment, a number,
  an entry, a boolean, empty, beyond ASCII up to a surrogate pair), three block
  scalars, seven keys (plain, with a space, quoted ones with `: ` or an
  apostrophe in them), every text of up to three of eight characters that mean
  something to YAML, collections of one or two elements, nested up to three
  deep, and pairs of documents; 3306 streams in all, of which 101
  small documents are also written by hand and edited in every place. A text is edited once.
  Indentations 1, 2 and 4. Two elements are needed for a separator, three levels
  for an indentation that is returned to from inside another. The run ends where
  the last text was read: deadlock is not checked.
- *Destinations*: six bytes in all, an array of three, a letter and a line feed;
  the array fills before or after a `clear`, and with a rest of the old text
  behind the new. After undefined behaviour and at the bound nothing more
  happens: deadlock is not checked. `output` checks destinations and texts in one
  search, but a behaviour is of one of them: they share no state, and the texts
  are not those of the destinations.
- *Shared state*: two objects and two resources, enough for one object to be
  left what the other set, and no other bound.

### What is avoided

`RoundTrip` has a constant `Avoided`, the places where the library is known to
misread its own or a person's text. `output` avoids all five; taking one out
of `Avoided` in `MCOutput.cfg` has TLC show a document that goes wrong, and all five were confirmed on the compiled library.

- *colon in a flow sequence*: run `flow_sequence`, below.
- *collection in a sequence*: with `setIndentation(n)`, n other than 2, a
  collection in a sequence is printed at an indentation its own parser does not
  expect (`classes/include/implementation/stringify/Default_Stringify.hpp`).
- *comment in an explicit key*: a comment between `? key` and `: value`, or
  behind the key, becomes part of the key or ends in an error.
- *beyond ASCII in a quoted key*: a double-quoted key is printed without escapes
  but read with them, and a raw byte of 128 or more inside double quotes is
  sign-extended (`Default_Translator.cpp:219`): `"é"` is read as U+FFC3 U+FFA9.
- *beyond ASCII in UTF-16*: `readYAMLString` adds the low byte of a unit as a
  signed `char` (`YAML_File.cpp:62-85`).

### Fairness

Only `Termination` in `alias_expansion` needs it: `WF_vars(ParseStep)`. A parse
is one call on one thread, which runs until it returns or throws; nothing in it
waits. Starting the next document or the next parse is up to the caller and has
no fairness. Overrides are not counted, so it is `max_parse_depth` that ends an
anchor which holds an override of itself.

## The proofs

| module | theorems | for all |
|---|---|---|
| `BufferedSource_proofs` | `TypeCorrect`, `CursorCorrect`, `ContextsCorrect`, `BackupCorrect`, `ImplementsSource` | texts, targets, numbers of guards |
| `StreamSource_proofs` | `StreamTypeCorrect`, `StreamPositionCorrect`, `StreamContextsCorrect`, `FailOnlyAtEndCorrect`, `RestoreCorrect`, `StreamImplementsSource` | texts, targets, numbers of guards; the hypotheses are below |
| `AliasExpansion_proofs` | `TypeCorrect`, `ActiveCorrect`, `DepthCorrect`, `DepthLimitCorrect`, `ExpansionsCorrect`, `ExpandedCorrect` | names, texts, contents, limits |
| `DocumentStream_proofs` | `TypeCorrect`, `IsolationCorrect`, `DirectivesCorrect`, `DirectivesKept`, `AppendedCorrect` | names, handles, limits, numbers of documents and parses |
| `SharedState_proofs` | `TypeCorrect`, `ResourceCorrect`, `DefaultCorrect` | objects, resources, with and without calls of `setStrictBooleans` |
| `Destinations_proofs` | `TypeCorrect`, `TruncationCorrect`, `PrefixCorrect`, `FileCorrect`, `TextsCorrect`, `LastsCorrect` | capacities, bytes, failures to open |
| `NodeTree_proofs` | `AddCorrect`, `AssignCorrect`, `UpsertCorrect`, `AddIfAbsentCorrect`, `StaticFindsTheSame`; `EveryKeyCorrect`, `UnionCorrect`, `TreeEveryKeyCorrect`, `TreeUnionCorrect`; `ReplacedCorrect`, `OpenedCorrect`, `PutCorrect`, `IndexKeepsContents`, `AssignChangesContents`; `IndexCorrect`, `ContentsCorrect`, `StaticCorrect` | dictionaries, keys, trees of any width and depth, paths of any length, numbers of expressions, capacities |

The assumptions are the named `ASSUME`s of the modules: the types of the
constants, and that marker values are not members of the sets they are used
beside (`SourceAssumption`, `StreamAssumption`, `AliasAssumption`,
`DocumentAssumption`, `ResourcesAssumption`, `FixedAssumption`,
`DestinationsAssumption`). Three say more. `AliasAssumption` says that the empty
text holds no node. `NodesAssumption` says what the parser's dictionaries are: a
key once, the index in agreement with the entries
(`parser/YAML_Parser_Dictionary.cpp:21-57` throws on a second key or assigns to
the first entry), and that of two keys at most one comes before the other in a
`std::set`. It and `TreeAssumption` say that a set of nodes holds what its
dictionaries and arrays hold: the nodes that are read are made of nodes that
are read, and an assigned value of nodes that could be assigned. A value may
have a key twice, as an initializer list leaves it
(`classes/include/implementation/node/YAML_Node_Creation.hpp`). `Places` is any
set of paths and `Depth` any number, so that what is proved for them is proved
for the whole tree.

The theorems about `StreamSource` have hypotheses as well, and they are those of
the run. `LineFeedFirst`: a string that is matched has a line feed, if at all, as
its first character (those of the parser have none). `PlainUse` adds texts
without control characters and CR LF, and no guard opened at the end inside
another (`~NestedSaveAtEnd`); where these do not hold the stream is known to
differ, see below. Types need `LineFeedFirst` alone.

Each proof about a state machine has an inductive invariant, shown to hold at
first and to be kept by every action.

- *BufferedSource*: the four properties of the run and `MatchedPrefix`, which
  says that the characters before the cursor are those matched so far. Without
  it nothing would tell where a failed match returns to. `PositionBack` (in
  `SourceText_proofs`) is the lemma that matters: going back over characters
  that are no line feeds keeps line and column true. `ImplementsSource` uses the
  invariant to map every step to a step of `Source` or to a stutter.
- *StreamSource*: the same, and the state bits. `FailOnlyAtEnd` is not inductive:
  failbit comes from a `restore` to the mark -1. `MarkAtEnd` says that a guard
  opened at the end is the only one and that the stream has not moved since,
  `EofOnlyAtEnd` that eofbit is set nowhere else, `FailKept` that while failbit is
  set alone every guard was opened at the end. `Behind` says that a match has
  read no more characters than the line has, which is what makes
  `column - length` safe.
- *AliasExpansion*: `Shape` says that the names in alias frames are distinct and
  are the marked ones, that only the first frame is the document's, and that
  `parseDepth` is the length of the stack, twice, less one; `DoneIsUnwound` that
  a parse that is done has no frames. The depth limit alone is not inductive: it
  needs the count. Nor is the limit of expansions: `CountInv` adds that every
  expansion was counted, which fails as soon as an override is in front of the
  parser (`NoOverrideInFront` is where the assumption is used).

  `ExpandedCorrect` needs to know the past. That an anchor inside a stored text
  does not bind the name the text is stored under follows from an earlier parse:
  the anchor that stored the text parsed it on the spot, before any alias could
  use it, so an anchor of that name in it would have bound the name to another
  text already. `KInv` says this for every name *n*: there is a set `done` of
  nodes parsed since *n* got its text, and a height `low` of the stack above
  which every frame began after that (`Since`). A node in `done` is `Harmless`:
  parsing it again binds *n* to nothing else, and leads only to nodes that are
  in `done` themselves, or lie ahead in an anchor that is still storing its text
  (`Covered`). The last is the case of a text that is parsed inside itself;
  there `NoneAhead` says that the inner parse is never further than the outer
  one. From these, `NoConflict` goes up the stack from the frame of the expanded
  name to the node in front of the parser, which is harmless too.
- *DocumentStream*: the properties speak of the moment content is parsed, the
  tables of all moments. `OwnTables` says that whatever is in a table belongs to
  the document that is open, or to the next one when none is; `InForce` that the
  tables hold every directive declared for it; `DeclaredFor` and `TreeOwned`
  bind both to the documents read so far. That documents are only appended needs
  `OpenIsBare`: content is parsed for a document without a root, and only the end
  of content writes to a document.
- *SharedState*: `ScopeInv` says who holds the default: the object whose parse
  with a resource is under way, with the heap remembered to give back; there is
  at most one, by `MayParse`.
- *Destinations*: `FixedInv` is the properties of the bounded destination with
  its type. `FileInv` says that the file holds what it was given, line ends
  translated: by position, since the byte *i* of what was given stands *i* plus
  the number of line feeds before it into the file (`Place`). Every step of the
  five is a step of the bounded one (`StepIsFixed`); `Together` and `SentInv` say
  that all were given the same.
- *MergeKeys*: the frames of `mergeOverrides`. `Rest` says that what a frame has
  left is the end of what it started with, so that the mappings before are those
  taken up; `Merged` that the base has the explicit keys put on top so far, with
  their values merged, and for every other key the entry of the first of those
  mappings; `Waits` that every call but the innermost one waits for the value of
  its next explicit key. `AnswerInv` is the same of a call that returned. The
  order of the explicit keys matters only in that there is one: a caller must
  put the answer under the key it called for, which is where `KeyBefore` must not
  go both ways. The theorems of the same module about `add`, `assign`,
  `upsertDictEntry` and the step of a merge, for every dictionary whose index
  agrees with its entries, are what the actions rest on.

- *NodeTree*: `TreeInv`. While the merge is under way it is the invariant of
  `MergeKeys`; `EveryKeyCorrect` and `UnionCorrect` are about the specification of
  that module, `TreeEveryKeyCorrect` and `TreeUnionCorrect` about this one. Behind
  it, the tree is `Sound`: it is in some set of nodes (`Forest`) whose
  dictionaries have true indexes and hold nodes of the set, as do its arrays. That
  is how a property of all depths is stated without recursion: the set grows with
  what is made and assigned (`ForestsMerge`), and the nodes of the tree never
  leave it (`SoundIndexes`). `Valid` says that each step of `reference` leads to
  something, which `Put` needs: a path that is written through must be there.
  What a recursive function computes is proved from a function that satisfies
  its equation up to *n*, for every *n* up to the length of the path (`WalkIs`,
  `PutsIs`), by going up or down from one end (`Upward`, `Downward`). `PutCorrect`
  then compares a path with the one written through: it goes on from its end,
  ends on the way, or leaves it at a first step (`HowPathsMeet`). `CopyInv` says
  that a static container is the first *k* things of the root, and that it has
  thrown when these are not all.

Only checked, not proved:

- the properties of `RoundTrip`: parser and printers are recursive, and what
  they do to every tree needs induction over trees;
- all liveness.

## Where code and documents differ

The first five are runs that fail; the source line and the sentence it
contradicts are in `PROJECT.json` under "findings".

1. `StreamSource::restore` clears the stream only when eofbit is set
   (`io/YAML_StreamSource.hpp:92`). A `save` at the end stores `tellg() = -1`;
   restoring it, with the eofbit of the look at the end cleared, sets failbit alone,
   and the `restore` of the guard around it, opened anywhere, seeks in vain.
2. `parseOverride` (`parser/YAML_Parser_Directive.cpp:274`) does not count
   against `max_alias_expansions`, and does not mark the name: an anchor that
   holds `<<:*name` of itself is expanded in itself until `max_parse_depth`
   stops it.
3. `strict_booleans` is an option of an object and a static of the class
   (`classes/source/implementation/YAML_Impl.cpp:31`). It matters only under
   `%YAML 1.1`: without a directive the version is 1.2, which is strict already.
4. `keyStopDelimiters` (`parser/YAML_Parser_Util.cpp:381`) stops a key at `,`
   only in a flow mapping: in a flow sequence a `:` behind a `,` takes everything
   before it for its key. `[null, {a: b}]`, `[a,b: c]` and `[null, "a: b"]` are
   read as something else or refused.

5. `docs/guide.md:391` says of `<<: [*base, *overrides]` that "overrides takes
   priority over base". `mergeOverrides` adds what is not there yet, in the order
   of the sequence (`parser/YAML_Parser_Directive.cpp:57`): base has priority, as
   the comment at line 47 says ("first wins"). The code and its comment are what
   `EveryKeyFromItsSource` states and the proof shows; `LaterSourceWins` states
   what the guide says, and fails.

The others were met while modelling, most of them by comparing the modules with
the compiled library; the modules follow the code, and no run is spent on them.

Reading:

- In a flow sequence over lines, a number on a line of its own is a string.
- `- # c` before an entry makes it a sequence in a sequence; `- a:` before `- b`
  makes `[b]` the value of `a`.
- A `#` in a block scalar, and the line feed at its end, are lost; a block scalar
  directly behind `---` takes a `...` for content.
- A block sequence as an explicit key is read as one plain string.
- Whether a single-quoted string is a key is decided by a look for the `:` behind
  its opening quote, not behind its closing one
  (`parser/YAML_Parser_FlowString.cpp:292-302`).
- `\x`, `\u` and `\U` check that there are enough characters counting the
  letter itself, so that a text that ends one digit early is read behind its end
  (`Default_Translator.cpp:73`). A low surrogate as the first unit is not seen to
  be unpaired, and the converter throws.
- `%YAML 1.` with a very long minor version ends in `std::out_of_range`, not in
  a `SyntaxError` (`parser/YAML_Parser.cpp:191`).
- `max_documents` is compared only where `---` begins a document
  (`parser/YAML_Parser.cpp:80`); documents that follow `...` without it, and
  empty ones, are not counted.
- An alias is bound late: its text is parsed at every use, and the names in it
  mean what they were last anchored to (`parser/YAML_Parser_Directive.cpp:210`).
- A merged or overwritten key loses the way it was quoted.

Printing:

- Empty collections print as nothing, and are read as null; so the documents of
  `output` have none.
- A single-quoted string with a line feed is printed raw and folded when read.
- The indentation that `setIndentation` sets is a static: it is that of all
  printers of the process.
- `document(i)` of an empty document makes a hole, which prints as null in YAML
  and as nothing in JSON. Several documents in JSON run together. The translator
  of JSON is an inline static, too.

Trees:

- The comment on `StaticDictionary` ("last write wins on operator[]", line 33)
  is what `Dictionary` does, but `findIndex` gives the first entry of a key.
- An initializer list with a key twice keeps and prints both entries, a text the
  parser refuses.
- `operator[]` makes room in the containers: references into them that were
  taken before may be left behind
  (`classes/include/implementation/node/YAML_Node_Index.hpp:32`).

Files, sources and destinations:

- `fromFile` strips a byte order mark and turns CR LF into LF; `FileSource` keeps
  the mark and turns a lone CR into LF as well.
- `toFile` in a format of UTF-32 throws after the file was opened, and emptied.
- `StreamSource` steps over the control characters that the buffered sources
  refuse (`io/YAML_StreamSource.hpp:36`); it backs up by bytes after a failed
  match that crossed a CR LF, which counts as one character; after a `save` at
  the end `position()` answers -1, as a size.
- A `FixedDestination` that holds exactly N bytes reports no overflow and leaves
  no room for the terminator of the usage in its comment.
- `FileDestination::add` of an empty string, which is what the indentation of
  the outermost level is, reads the byte before it; bytes for a file that did
  not open are dropped without an error.

## What is not modelled

- *In the texts*: anchors, aliases, tags, directives and merge keys, which have
  state machines of their own (`AliasExpansion`, `DocumentStream`, `MergeKeys`);
  floats, numbers in other bases, timestamps and the coercion of tags, which are
  conversions without state that the tests of the repository cover by example.
- *Traversal and events*: `traverse` and `traverseEvents` walk a finished tree
  and change nothing. (`traverse` throws on a timestamp.)
- *XML, TOML, CSV, Bencode and other printers*, the XML translator, the Windows
  converter: recursive printers and calls without state.
- *Schema*: a recursive check of a tree without state.
- *Public interface*: forwards to `YAML_Impl`, whose operations are actions of
  the modules above.
- *Files that do not open or end early*; the platform's file system.
- *The arena* (`YAML_Arena.hpp`): a `std::pmr::monotonic_buffer_resource`.
- *Overlapping parses with memory resources*: forbidden by the note that
  `MayParse` takes from the code. Two threads in one printer, whose indentation
  buffer is a static (`Default_Stringify.hpp:88`), are outside every module.
- *References into the tree* that a program keeps behind the expression that made
  them: a node of the model is a value, `reference` the path of one.

## Plan

Done, in the order in which they matter: the sources (everything rests on the
cursor), the alias expansion, the document loop, the shared state, merge keys
and destinations; then the tree with its containers, and the parser and printers
composed over files and edits.

Left:

1. `Traversal`: the events of `traverseEvents` and their nesting, over the trees
   of `RoundTrip`.
2. Anchors, aliases and merge keys in the texts of `RoundTrip`, so that
   `AliasExpansion` is seen to be what `NodeParser` does to them.
3. Whether a reference kept over an access still leads to its node, with nodes
   that have an address, and containers that move them.
