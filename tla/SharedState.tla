---------------------------- MODULE SharedState ----------------------------
(***************************************************************************)
(* What the YAML objects of one process share: the strict boolean setting  *)
(* of Default_Parser, a static, and the default memory resource of the     *)
(* C++ library, which YAML_Impl::parse() exchanges for its own while it    *)
(* runs.  Each object is used by a thread of its own; everything else of   *)
(* a parse is in the object (ParseContext) and is seen here only as the    *)
(* version a %YAML directive selects.                                      *)
(*                                                                         *)
(* The threads keep to the note in YAML_Impl::parse(): while an object     *)
(* with a memory resource parses, no other object does.                    *)
(***************************************************************************)
EXTENDS Integers

CONSTANTS
    Objects,        \* the YAML objects of the process
    Resources,      \* the memory resources a caller can supply
    NoResource,     \* nullptr
    Heap            \* the default resource before any parse

ASSUME ResourcesAssumption ==
    /\ NoResource \notin Resources
    /\ Heap \notin Resources
    /\ Heap # NoResource

VARIABLES
    strictBooleans,     \* Default_Parser::strictBooleans
    defaultResource,    \* std::pmr::get_default_resource()
    options,            \* the object's options, or Unmade before its constructor
    parsing,            \* the parse of the object that is under way
    prev,               \* ResourceScope::prev_
    yamlDirectiveMinor, \* ctx_.yamlDirectiveMinor
    containers,         \* the resources the containers of the last parse came from
    words               \* what that parse made of the words yes, no, on, off

vars == <<strictBooleans, defaultResource, options, parsing, prev,
          yamlDirectiveMinor, containers, words>>

Unmade == [made |-> FALSE, strict |-> FALSE, resource |-> NoResource]
Suppliable == Resources \union {Heap, NoResource}
Options == [made : BOOLEAN, strict : BOOLEAN, resource : Suppliable]

\* What a router makes of a plain word.
Readings == {"unread", "boolean", "string"}

Init ==
    /\ strictBooleans = FALSE
    /\ defaultResource = Heap
    /\ options = [o \in Objects |-> Unmade]
    /\ parsing = [o \in Objects |-> FALSE]
    /\ prev = [o \in Objects |-> NoResource]
    /\ yamlDirectiveMinor = [o \in Objects |-> 2]
    /\ containers = [o \in Objects |-> {}]
    /\ words = [o \in Objects |-> {}]
-----------------------------------------------------------------------------
active(o) == options[o].resource # NoResource

\* "This modifies the process-wide PMR default; single-threaded use only."
MayParse(o) ==
    \A other \in Objects : parsing[other] => ~active(other) /\ ~active(o)

\* YAML(options) and YAML(memory_resource); only the first has the setting.
MakeWithOptions(o, strict, resource) ==
    /\ ~options[o].made
    /\ options' = [options EXCEPT
          ![o] = [made |-> TRUE, strict |-> strict, resource |-> resource]]
    /\ strictBooleans' = strict
    /\ UNCHANGED <<defaultResource, parsing, prev, yamlDirectiveMinor,
                   containers, words>>

MakeWithResource(o, resource) ==
    /\ ~options[o].made
    /\ options' = [options EXCEPT
          ![o] = [made |-> TRUE, strict |-> FALSE, resource |-> resource]]
    /\ UNCHANGED <<strictBooleans, defaultResource, parsing, prev,
                   yamlDirectiveMinor, containers, words>>

\* Broken: remembers the default after it has been exchanged.
BrokenParse(o) ==
    /\ options[o].made
    /\ ~parsing[o]
    /\ MayParse(o)
    /\ parsing' = [parsing EXCEPT ![o] = TRUE]
    /\ prev' = [prev EXCEPT ![o] = options[o].resource]
    /\ defaultResource' = IF active(o) THEN options[o].resource ELSE defaultResource
    /\ yamlDirectiveMinor' = [yamlDirectiveMinor EXCEPT ![o] = 2]
    /\ containers' = [containers EXCEPT ![o] = {}]
    /\ words' = [words EXCEPT ![o] = {}]
    /\ UNCHANGED <<strictBooleans, options>>

\* The ResourceScope of parse() is entered, the parser clears its context.
parse(o) ==
    /\ options[o].made
    /\ ~parsing[o]
    /\ MayParse(o)
    /\ parsing' = [parsing EXCEPT ![o] = TRUE]
    /\ prev' = [prev EXCEPT ![o] = IF active(o) THEN defaultResource ELSE NoResource]
    /\ defaultResource' = IF active(o) THEN options[o].resource ELSE defaultResource
    /\ yamlDirectiveMinor' = [yamlDirectiveMinor EXCEPT ![o] = 2]
    /\ containers' = [containers EXCEPT ![o] = {}]
    /\ words' = [words EXCEPT ![o] = {}]
    /\ UNCHANGED <<strictBooleans, options>>

\* A %YAML directive of the text.
Directive(o, minor) ==
    /\ parsing[o]
    /\ "unread" \notin words[o]
    /\ yamlDirectiveMinor' = [yamlDirectiveMinor EXCEPT ![o] = minor]
    /\ UNCHANGED <<strictBooleans, defaultResource, options, parsing, prev,
                   containers, words>>

\* A sequence or a mapping is made with a default constructed allocator.
Allocate(o) ==
    /\ parsing[o]
    /\ "unread" \notin words[o]
    /\ containers' = [containers EXCEPT ![o] = @ \union {defaultResource}]
    /\ UNCHANGED <<strictBooleans, defaultResource, options, parsing, prev,
                   yamlDirectiveMinor, words>>

strictMode(o) == strictBooleans \/ yamlDirectiveMinor[o] >= 2

\* isBoolean() sees the first letter of such a word ...
isBoolean(o) ==
    /\ parsing[o]
    /\ "unread" \notin words[o]
    /\ words' = [words EXCEPT
          ![o] = @ \union {IF strictMode(o) THEN "string" ELSE "unread"}]
    /\ UNCHANGED <<strictBooleans, defaultResource, options, parsing, prev,
                   yamlDirectiveMinor, containers>>

\* ... and parseBoolean(), next on the same thread, looks at the setting
\* again to look up the word.
parseBoolean(o) ==
    /\ parsing[o]
    /\ "unread" \in words[o]
    /\ words' = [words EXCEPT
          ![o] = (@ \ {"unread"}) \union
                 {IF strictMode(o) THEN "string" ELSE "boolean"}]
    /\ UNCHANGED <<strictBooleans, defaultResource, options, parsing, prev,
                   yamlDirectiveMinor, containers>>

\* Broken: an exception passes the restore by; or nothing was exchanged and it is
\* restored all the same.
BrokenLeaveThrown(o, thrown) ==
    /\ parsing[o]
    /\ "unread" \in words[o] => thrown
    /\ parsing' = [parsing EXCEPT ![o] = FALSE]
    /\ defaultResource' = IF active(o) /\ ~thrown THEN prev[o] ELSE defaultResource
    /\ containers' = [containers EXCEPT ![o] = IF thrown THEN {} ELSE @]
    /\ words' = [words EXCEPT ![o] = IF thrown THEN {} ELSE @]
    /\ UNCHANGED <<strictBooleans, options, prev, yamlDirectiveMinor>>
BrokenLeaveAlways(o, thrown) ==
    /\ parsing[o]
    /\ "unread" \in words[o] => thrown
    /\ parsing' = [parsing EXCEPT ![o] = FALSE]
    /\ defaultResource' = prev[o]
    /\ containers' = [containers EXCEPT ![o] = IF thrown THEN {} ELSE @]
    /\ words' = [words EXCEPT ![o] = IF thrown THEN {} ELSE @]
    /\ UNCHANGED <<strictBooleans, options, prev, yamlDirectiveMinor>>

\* parse() returns, or an exception leaves it (in the middle of a word, even) and
\* what it made is destroyed; in both cases ~ResourceScope() runs.
LeaveParse(o, thrown) ==
    /\ parsing[o]
    /\ "unread" \in words[o] => thrown
    /\ parsing' = [parsing EXCEPT ![o] = FALSE]
    /\ defaultResource' = IF active(o) THEN prev[o] ELSE defaultResource
    /\ containers' = [containers EXCEPT ![o] = IF thrown THEN {} ELSE @]
    /\ words' = [words EXCEPT ![o] = IF thrown THEN {} ELSE @]
    /\ UNCHANGED <<strictBooleans, options, prev, yamlDirectiveMinor>>

\* YAML::setStrictBooleans()
setStrictBooleans(strict) ==
    /\ strictBooleans' = strict
    /\ UNCHANGED <<defaultResource, options, parsing, prev, yamlDirectiveMinor,
                   containers, words>>

Construct(o) ==
    \E resource \in Suppliable :
        \/ \E strict \in BOOLEAN : MakeWithOptions(o, strict, resource)
        \/ MakeWithResource(o, resource)

Step(o) ==
    \/ parse(o)
    \/ \E minor \in 1..2 : Directive(o, minor)
    \/ Allocate(o)
    \/ isBoolean(o)
    \/ parseBoolean(o)
    \/ \E thrown \in BOOLEAN : LeaveParse(o, thrown)

ObjectsNext == \E o \in Objects : Construct(o) \/ Step(o)

\* A program that never calls the static, and one that may.
Spec == Init /\ [][ObjectsNext]_vars
SpecWithStatic ==
    Init /\ [][ObjectsNext \/ \E b \in BOOLEAN : setStrictBooleans(b)]_vars
-----------------------------------------------------------------------------
\* The static, the default resource and the members of each object have their
\* types; the default is never nullptr.
TypeOK ==
    /\ strictBooleans \in BOOLEAN
    /\ defaultResource \in Resources \union {Heap}
    /\ options \in [Objects -> Options]
    /\ parsing \in [Objects -> BOOLEAN]
    /\ prev \in [Objects -> Suppliable]
    /\ yamlDirectiveMinor \in [Objects -> 1..2]
    /\ containers \in [Objects -> SUBSET (Resources \union {Heap})]
    /\ words \in [Objects -> SUBSET Readings]

\* What the containers of an object are to come from.
OwnResource(o) == IF active(o) THEN options[o].resource ELSE Heap

\* The containers of a document come from the resource its object was given and
\* from the heap when it was given none, whatever other objects have parsed, or
\* failed to parse, before: an arena may be gone when the next object parses.
OwnContainers == \A o \in Objects : containers[o] \subseteq {OwnResource(o)}

\* The default resource of the process is the caller's again when no parse with a
\* resource is under way, the parse that threw included.
DefaultRestored ==
    (\A o \in Objects : parsing[o] => ~active(o)) => defaultResource = Heap

\* Options::strict_booleans "Enable strict YAML 1.2 boolean parsing": an object
\* made with it makes no boolean of yes, no, on or off.
StrictAsOptioned ==
    \A o \in Objects : options[o].strict => "boolean" \notin words[o]
=============================================================================
