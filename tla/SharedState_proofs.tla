------------------------- MODULE SharedState_proofs -------------------------
(***************************************************************************)
(* OwnContainers and DefaultRestored hold for any number of objects and    *)
(* resources, whether or not the program calls the static setting.         *)
(***************************************************************************)
EXTENDS SharedState, TLAPS

\* A parse with a resource is alone; while it runs the default is its resource and
\* what it will restore is the heap; otherwise the default is the heap.
ScopeInv ==
    /\ \A o \in Objects : parsing[o] /\ active(o) =>
          /\ \A other \in Objects : parsing[other] => other = o
          /\ defaultResource = options[o].resource
          /\ prev[o] = Heap
    /\ DefaultRestored

\* An object that is not made yet has done nothing.
UnmadeInv ==
    \A o \in Objects : ~options[o].made => ~parsing[o] /\ containers[o] = {}

Inv == TypeOK /\ ScopeInv /\ UnmadeInv /\ OwnContainers

NextWithStatic == ObjectsNext \/ \E b \in BOOLEAN : setStrictBooleans(b)

\* The program's first state.
LEMMA InitInv == Init => Inv
<1> SUFFICES ASSUME Init PROVE Inv
  OBVIOUS
<1>1. Unmade \in Options
  BY DEF Unmade, Options, Suppliable
<1>2. TypeOK
  <2>1. options \in [Objects -> Options]
    BY <1>1 DEF Init
  <2>2. strictBooleans \in BOOLEAN /\ parsing \in [Objects -> BOOLEAN]
    BY Zenon DEF Init
  <2>3. /\ defaultResource \in Resources \union {Heap}
        /\ prev \in [Objects -> Suppliable]
        /\ yamlDirectiveMinor \in [Objects -> 1..2]
    BY DEF Init, Suppliable
  <2>4. /\ containers \in [Objects -> SUBSET (Resources \union {Heap})]
        /\ words \in [Objects -> SUBSET Readings]
    BY DEF Init
  <2> QED BY <2>1, <2>2, <2>3, <2>4 DEF TypeOK
<1>3. ScopeInv
  BY DEF Init, ScopeInv, DefaultRestored
<1>4. UnmadeInv
  BY DEF Init, UnmadeInv
<1>5. OwnContainers
  BY DEF Init, OwnContainers
<1> QED BY <1>2, <1>3, <1>4, <1>5 DEF Inv

\* A constructor leaves the default resource to whoever has it.
LEMMA ConstructInv ==
    ASSUME Inv, NEW o \in Objects, Construct(o) PROVE Inv'
<1>1. PICK resource \in Suppliable, strict \in BOOLEAN :
        /\ ~options[o].made
        /\ options' = [options EXCEPT
              ![o] = [made |-> TRUE, strict |-> strict, resource |-> resource]]
        /\ strictBooleans' \in BOOLEAN
        /\ UNCHANGED <<defaultResource, parsing, prev, yamlDirectiveMinor,
                       containers, words>>
  BY DEF Construct, MakeWithOptions, MakeWithResource, Inv, TypeOK
<1>2. ~parsing[o] /\ containers[o] = {}
  BY <1>1 DEF Inv, UnmadeInv
<1>3. TypeOK'
  BY <1>1 DEF Inv, TypeOK, Options
<1>4. \A p \in Objects : p # o => options'[p] = options[p]
  BY <1>1 DEF Inv, TypeOK
<1>5. options'[o].made
  BY <1>1 DEF Inv, TypeOK
<1>6. ScopeInv'
  BY <1>1, <1>2, <1>4 DEF Inv, ScopeInv, DefaultRestored, active
<1>7. UnmadeInv'
  BY <1>1, <1>4, <1>5 DEF Inv, UnmadeInv
<1>8. OwnContainers'
  BY <1>1, <1>2, <1>4 DEF Inv, OwnContainers, OwnResource, active
<1> QED BY <1>3, <1>6, <1>7, <1>8 DEF Inv

\* The scope is entered only when no other scope is open.
LEMMA ParseInv ==
    ASSUME Inv, NEW o \in Objects, parse(o) PROVE Inv'
<1>1. /\ ~parsing[o] /\ options[o].made
      /\ \A other \in Objects : parsing[other] => ~active(other) /\ ~active(o)
  BY DEF parse, MayParse
<1>2. defaultResource = Heap
  BY <1>1 DEF Inv, ScopeInv, DefaultRestored
<1>3. TypeOK'
  BY DEF Inv, TypeOK, parse, active, Options, Suppliable
<1>4. parsing' = [parsing EXCEPT ![o] = TRUE] /\ UNCHANGED options
  BY DEF parse
<1>5. ScopeInv'
  <2>1. CASE active(o)
    BY <1>1, <1>2, <1>4, <2>1
       DEF Inv, TypeOK, ScopeInv, DefaultRestored, active, parse
  <2>2. CASE ~active(o)
    BY <1>1, <1>2, <1>4, <2>2
       DEF Inv, TypeOK, ScopeInv, DefaultRestored, active, parse
  <2> QED BY <2>1, <2>2
<1>6. UnmadeInv'
  BY <1>1, <1>4 DEF Inv, TypeOK, UnmadeInv, parse
<1>7. OwnContainers'
  BY <1>4 DEF Inv, TypeOK, OwnContainers, OwnResource, active, parse
<1> QED BY <1>3, <1>5, <1>6, <1>7 DEF Inv

\* What a parse allocates it allocates from its own resource.
LEMMA AllocateInv ==
    ASSUME Inv, NEW o \in Objects, Allocate(o) PROVE Inv'
<1>1. defaultResource = OwnResource(o)
  <2>1. CASE active(o)
    BY <2>1 DEF Allocate, Inv, ScopeInv, OwnResource
  <2>2. CASE ~active(o)
    <3>1. \A p \in Objects : parsing[p] => ~active(p)
      BY <2>2 DEF Allocate, Inv, ScopeInv
    <3> QED BY <2>2, <3>1 DEF Inv, ScopeInv, DefaultRestored, OwnResource
  <2> QED BY <2>1, <2>2
<1>2. TypeOK'
  BY DEF Inv, TypeOK, Allocate
<1>3. ScopeInv'
  BY DEF Inv, ScopeInv, DefaultRestored, active, Allocate
<1>4. UnmadeInv'
  BY DEF Inv, TypeOK, UnmadeInv, Allocate
<1>5. OwnContainers'
  BY <1>1 DEF Inv, TypeOK, OwnContainers, OwnResource, active, Allocate
<1> QED BY <1>2, <1>3, <1>4, <1>5 DEF Inv

\* Leaving a parse, by an exception too, gives the heap back.
LEMMA LeaveInv ==
    ASSUME Inv, NEW o \in Objects, NEW thrown \in BOOLEAN, LeaveParse(o, thrown)
    PROVE  Inv'
<1>1. parsing[o] /\ parsing' = [parsing EXCEPT ![o] = FALSE] /\ UNCHANGED options
  BY DEF LeaveParse
<1>2. TypeOK'
  BY DEF Inv, TypeOK, ScopeInv, LeaveParse
<1>3. ScopeInv'
  <2>1. CASE active(o)
    <3>1. \A p \in Objects : ~parsing'[p]
      BY <1>1, <2>1 DEF Inv, TypeOK, ScopeInv
    <3>2. defaultResource' = Heap
      BY <1>1, <2>1 DEF Inv, ScopeInv, LeaveParse
    <3> QED BY <3>1, <3>2 DEF ScopeInv, DefaultRestored
  <2>2. CASE ~active(o)
    <3>1. \A p \in Objects : parsing[p] => ~active(p)
      BY <1>1, <2>2 DEF Inv, ScopeInv
    <3>2. \A p \in Objects : parsing'[p] => ~active(p)'
      BY <1>1, <3>1 DEF Inv, TypeOK, active
    <3>3. defaultResource' = Heap
      BY <2>2, <3>1 DEF Inv, ScopeInv, DefaultRestored, LeaveParse
    <3> QED BY <3>2, <3>3 DEF ScopeInv, DefaultRestored
  <2> QED BY <2>1, <2>2
<1>4. UnmadeInv'
  BY DEF Inv, TypeOK, UnmadeInv, LeaveParse
<1>5. OwnContainers'
  BY DEF Inv, TypeOK, OwnContainers, OwnResource, active, LeaveParse
<1> QED BY <1>2, <1>3, <1>4, <1>5 DEF Inv

\* The other steps touch neither the scope nor the containers.
LEMMA OtherInv ==
    ASSUME Inv,
           UNCHANGED <<defaultResource, options, parsing, prev, containers>>,
           strictBooleans' \in BOOLEAN,
           yamlDirectiveMinor' \in [Objects -> 1..2],
           words' \in [Objects -> SUBSET Readings]
    PROVE  Inv'
  BY DEF Inv, TypeOK, ScopeInv, DefaultRestored, UnmadeInv, OwnContainers,
         OwnResource, active

\* Every step of the process.
LEMMA NextInv == Inv /\ [NextWithStatic]_vars => Inv'
<1> SUFFICES ASSUME Inv, [NextWithStatic]_vars PROVE Inv'
  OBVIOUS
<1> USE DEF NextWithStatic, ObjectsNext
<1>1. CASE UNCHANGED vars
  BY <1>1, OtherInv DEF vars, Inv, TypeOK
<1>2. ASSUME NEW b \in BOOLEAN, setStrictBooleans(b) PROVE Inv'
  BY <1>2, OtherInv DEF setStrictBooleans, Inv, TypeOK
<1>3. ASSUME NEW o \in Objects, Construct(o) PROVE Inv'
  BY <1>3, ConstructInv
<1>4. ASSUME NEW o \in Objects, Step(o) PROVE Inv'
  <2>1. CASE parse(o)
    BY <2>1, ParseInv
  <2>2. CASE Allocate(o)
    BY <2>2, AllocateInv
  <2>3. ASSUME NEW minor \in 1..2, Directive(o, minor) PROVE Inv'
    BY <2>3, OtherInv DEF Directive, Inv, TypeOK
  <2>4. CASE isBoolean(o)
    BY <2>4, OtherInv DEF isBoolean, Inv, TypeOK, Readings
  <2>5. CASE parseBoolean(o)
    BY <2>5, OtherInv DEF parseBoolean, Inv, TypeOK, Readings
  <2>6. ASSUME NEW thrown \in BOOLEAN, LeaveParse(o, thrown) PROVE Inv'
    BY <2>6, LeaveInv
  <2> QED BY <1>4, <2>1, <2>2, <2>3, <2>4, <2>5, <2>6 DEF Step
<1> QED BY <1>1, <1>2, <1>3, <1>4

\* The type invariant.
THEOREM TypeCorrect == SpecWithStatic => []TypeOK
<1>1. Inv => TypeOK
  BY DEF Inv
<1> QED BY InitInv, NextInv, <1>1, PTL DEF SpecWithStatic, NextWithStatic

\* No object is left the memory resource of another, thrown parses included.
THEOREM ResourceCorrect == SpecWithStatic => [](OwnContainers /\ DefaultRestored)
<1>1. Inv => OwnContainers /\ DefaultRestored
  BY DEF Inv, ScopeInv
<1> QED BY InitInv, NextInv, <1>1, PTL DEF SpecWithStatic, NextWithStatic

\* When no parse is under way the default resource is the one of the program,
\* whatever was thrown.
THEOREM DefaultCorrect == SpecWithStatic => []DefaultRestored
<1>1. (OwnContainers /\ DefaultRestored) => DefaultRestored
  OBVIOUS
<1> QED
  BY <1>1, ResourceCorrect, PTL
=============================================================================
