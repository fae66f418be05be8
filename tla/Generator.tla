------------------------------- MODULE Generator -------------------------------
(***************************************************************************)
(* xtask: one run of `just generate-methods`.  It reads the vendored schema*)
(* and rewrites two directories, the method names and the typed protocol.  *)
(* For the second it indexes every declared type (types::registry), asks   *)
(* of each whether it can derive Default, and renders each domain, boxing  *)
(* the fields that would make a type contain itself.                       *)
(*                                                                         *)
(* A run may be killed anywhere, in the middle of clearing a directory or  *)
(* of writing a file too: it then just takes no further step, and whatever *)
(* it left is what a later run finds.  The names of domains are those of   *)
(* their modules, and an enum stated inside a field is a declared one:     *)
(* neither tells the two apart.                                            *)
(***************************************************************************)
EXTENDS Naturals, FiniteSets, SequencesExt, ProtocolSyntax

CONSTANT Inputs  \* the schemas a run may read, in families, each with what the two
                 \* directories may hold before

VARIABLES
    schema,    \* the domains read, by name
    step,      \* where the run is
    panicked,  \* an assert or an expect has failed
    todo,      \* the domains of the current loop that are still to come
    known,     \* the memo of registry: whether each type can derive Default, "yes",
               \* "no" or still "unknown"
    methods,   \* the directory methods/: its modules, what its mod.rs lists, and which
               \* files were opened and not, or not all, written
    protocol   \* the directory protocol/

vars == <<schema, step, panicked, todo, known, methods, protocol>>

ModRs   == "mod.rs"  \* no module has that name
NoIndex == {ModRs}
Nothing == [x \in {} |-> x]
Empty   == [files |-> Nothing, index |-> NoIndex, torn |-> {}]

\* A field of a schema names a type: of this domain, or of the one it says.
References == [module : STRING, name : STRING, optional : BOOLEAN, array : BOOLEAN]

\* A domain is faulty that has a primitive with no Rust type, a field with no type, an
\* enum two values of which become one variant, or one the catch-all's, or an item
\* twice: it cannot be rendered.
IsSchema(s) ==
    /\ IsFiniteSet(DOMAIN s) /\ ModRs \notin DOMAIN s
    /\ \A d \in DOMAIN s :
           /\ IsFiniteSet(DOMAIN s[d].types)
           /\ \A n \in DOMAIN s[d].types : s[d].types[n].fields \in Seq(References)
           /\ \A n \in DOMAIN s[d].commands :
                  /\ s[d].commands[n].params \in Seq(References)
                  /\ s[d].commands[n].returns.fields \in Seq(References)
           /\ \A n \in DOMAIN s[d].events : s[d].events[n] \in Seq(References)

\* What parses as one; load panics over another before it touches anything.
ASSUME SchemasAssumption == \A input \in Inputs : \A s \in input.schemas : IsSchema(s)

IsDirectory(directory) ==
    /\ directory = [files |-> directory.files, index |-> directory.index, torn |-> directory.torn]
    /\ directory.files = [d \in DOMAIN directory.files |-> directory.files[d]]

\* A run may find anything there.
ASSUME LeftoversAssumption ==
    \A input \in Inputs : \A left \in input.leftovers :
        IsDirectory(left[1]) /\ IsDirectory(left[2])

\* The domains come sorted by name; any fixed order would do.
NextDomain == CHOOSE d \in todo : TRUE

With(f, k, v) == [x \in DOMAIN f \cup {k} |-> IF x = k THEN v ELSE f[x]]

-----------------------------------------------------------------------------
(* Schema types.  A field refers to a type, optionally, or to an array of  *)
(* it.                                                                     *)

resolve(d, f) == <<IF f.module = Here THEN d ELSE f.module, f.name>>

Declared == UNION {{<<d, n>> : n \in DOMAIN schema[d].types} : d \in DOMAIN schema}
Type(key) == schema[key[1]].types[key[2]]

Init ==
    /\ \E input \in Inputs :
           /\ schema \in input.schemas
           /\ \E left \in input.leftovers : methods = left[1] /\ protocol = left[2]
    /\ step = "loaded"
    /\ panicked = FALSE
    /\ todo = {}
    /\ known = [key \in Declared |-> "unknown"]

Inline(d, fields) == {resolve(d, fields[i]) : i \in {j \in DOMAIN fields : ~fields[j].array}}

\* Mutation: Option is taken for a pointer.
ContainsRequired == [key \in Declared |->
    LET fields == Type(key).fields
    IN  Inline(key[1], SelectSeq(fields, LAMBDA f : ~f.optional))]

\* What a value of each type holds inline, optional or not.
contains == [key \in Declared |-> Inline(key[1], Type(key).fields)]

\* What a set grows into by adding, again and again, what `more` says it leads to.
Grown(S, more) ==
    LET Grow[T \in SUBSET S] == IF more[T] \subseteq T THEN T ELSE Grow[T \cup more[T]]
    IN  Grow

\* The search from one type along the edges, by what has been seen.
reaches(edges, from, target) ==
    LET Keys == {from} \cup UNION Range(edges)
        held == [seen \in SUBSET Keys |-> UNION {edges[k] : k \in seen \cap DOMAIN edges}]
    IN  target \in Grown(Keys, held)[{from}]

\* Mutation: whether the owner reaches what it holds, which it always does.
IsCyclicSwapped(edges, owner, key) == reaches(edges, owner, key)

\* Whether a field of `owner` that holds `key` inline would make it infinite.
is_cyclic(edges, owner, key) == reaches(edges, key, owner)

-----------------------------------------------------------------------------
(* Default.                                                                *)

\* A question: can the type `key` derive Default, in the middle of asking the same of
\* those in `asking`?  Once it is on that stack, `at` is the field to look at.
Questions == [memo   : [Declared -> {"unknown", "yes", "no"}],
              asking : SUBSET Declared,
              key    : Declared,
              at     : Nat]

Question(memo, asking, key, at) == [memo |-> memo, asking |-> asking, key |-> key, at |-> at]

Required(f) == ~f.optional /\ ~f.array

\* The memo with the answer to a question not yet answered, `ask` being asked others.
\* A cycle cannot bottom out, so what is being asked counts as no; so does an enum; a
\* type nobody declares is left to checked.
Answered(ask, q) ==
    LET fields  == Type(q.key).fields
        k       == resolve(q.key[1], fields[q.at])
        after   == ask[Question(q.memo, q.asking, k, 0)]
        Goes(m) == ask[Question(m, q.asking, q.key, q.at + 1)]
        Is(m, answer) == [m EXCEPT ![q.key] = answer]
    IN  IF q.at = 0
        THEN IF q.memo[q.key] # "unknown" \/ q.key \in q.asking THEN q.memo
             ELSE IF Type(q.key).kind = "enum" THEN Is(q.memo, "no")
             ELSE ask[Question(q.memo, q.asking \cup {q.key}, q.key, 1)]
        ELSE IF q.at > Len(fields) THEN Is(q.memo, "yes")
        ELSE IF ~Required(fields[q.at]) \/ k \notin Declared THEN Goes(q.memo)
        ELSE IF after[k] = "yes" THEN Goes(after)
        ELSE Is(after, "no")

defaultable == LET Asking[q \in Questions] == Answered(Asking, q) IN Asking

\* The memo once this type has been asked for, by nobody else's question.
Asked(key) == defaultable[Question(known, {}, key, 0)]

\* Mutation: only the fields' own types are looked at, not what those require.
IsDefaultableDirect(d, fields) ==
    \A i \in DOMAIN fields :
        \/ fields[i].optional \/ fields[i].array
        \/ LET k == resolve(d, fields[i]) IN k \in Declared => Type(k).kind # "enum"

\* Whether a struct with these fields can derive Default.
is_defaultable(d, fields) ==
    \A i \in DOMAIN fields :
        Required(fields[i]) =>
            LET k == resolve(d, fields[i]) IN k \in Declared /\ known[k] = "yes"

-----------------------------------------------------------------------------
(* Rendering.                                                              *)

\* The type of a field: boxed or not, then in an Option if it is optional.
Rust(f, boxed) ==
    [wrap   |-> IF f.array THEN IF f.optional THEN "Option Vec" ELSE "Vec"
                ELSE IF boxed THEN IF f.optional THEN "Option Box" ELSE "Box"
                ELSE IF f.optional THEN "Option" ELSE "",
     module |-> f.module,
     name   |-> f.name]

\* A type the schema declares may be in a cycle, and an array breaks one.
field_type(edges, owner, f) ==
    Rust(f, ~f.array /\ is_cyclic(edges, owner, resolve(owner[1], f)))

render_type(edges, key) ==
    LET t == Type(key)
    IN  Item(t.kind, t.kind = "struct" /\ is_defaultable(key[1], t.fields),
             [i \in DOMAIN t.fields |-> field_type(edges, key, t.fields[i])])

\* Nothing refers to the structs made for a command or an event.
render_struct(d, fields) ==
    Item("struct", is_defaultable(d, fields), [i \in DOMAIN fields |-> Rust(fields[i], FALSE)])

render_command(d, c) ==
    Command(render_struct(d, c.params),
            IF c.returns.kind = "none" THEN NoReturns ELSE render_struct(d, c.returns.fields))

render_domain(d) ==
    LET edges == contains
        dom   == schema[d]
    IN  [types    |-> [n \in DOMAIN dom.types |-> render_type(edges, <<d, n>>)],
         commands |-> [n \in DOMAIN dom.commands |-> render_command(d, dom.commands[n])],
         events   |-> [n \in DOMAIN dom.events |-> Event(render_struct(d, dom.events[n]))]]

Fields(d) ==
    LET dom == schema[d]
    IN  UNION ({Range(dom.types[n].fields) : n \in DOMAIN dom.types}
               \cup {Range(dom.commands[n].params) : n \in DOMAIN dom.commands}
               \cup {Range(dom.commands[n].returns.fields) : n \in DOMAIN dom.commands}
               \cup {Range(dom.events[n]) : n \in DOMAIN dom.events})

\* Mutation: only what a domain says of its own types is checked.
DanglingHere(d) ==
    ~({resolve(d, f) : f \in {g \in Fields(d) : g.module = Here}} \subseteq Declared)

\* checked: a reference to a type that no domain declares.
Dangling(d) == ~({resolve(d, f) : f \in Fields(d)} \subseteq Declared)

-----------------------------------------------------------------------------
(* The run: generate, generate_methods, generate_protocol.                 *)

At(s) == step = s /\ ~panicked

\* What remove_dir_all has to remove, one by one in no order it promises.
Entries(directory) ==
    DOMAIN directory.files \cup directory.torn
        \cup (IF directory.index = NoIndex THEN {} ELSE {ModRs})

Removed(directory, name) ==
    [files |-> [d \in DOMAIN directory.files \ {name} |-> directory.files[d]],
     index |-> IF name = ModRs THEN NoIndex ELSE directory.index,
     torn  |-> directory.torn \ {name}]

\* Mutation: the modules an index names are not cleared without it.
FreshKeeping(directory) == directory.index = NoIndex

\* Whether remove_dir_all is through with it, so that create_dir_all can follow.
fresh(directory) == Entries(directory) = {}

\* fs::write opens a file, which cuts it short, and then writes it.
Opened(directory, name) == [directory EXCEPT !.torn = @ \cup {name}]

Write(directory, d, content) ==
    [directory EXCEPT !.files = With(@, d, content), !.torn = @ \ {d}]

Publish(directory, modules) ==
    [directory EXCEPT !.index = modules, !.torn = @ \ {ModRs}]

WithCommands == {d \in DOMAIN schema : schema[d].commands # Nothing}
Declaring == {d \in DOMAIN schema : \/ schema[d].commands # Nothing
                                    \/ schema[d].types # Nothing
                                    \/ schema[d].events # Nothing}

\* The index comes after the modules.
NextFile == IF todo = {} THEN ModRs ELSE NextDomain

RemoveMethods ==
    /\ At("loaded")
    /\ \E name \in Entries(methods) : methods' = Removed(methods, name)
    /\ UNCHANGED <<schema, step, panicked, todo, known, protocol>>

\* Domains with nothing to put in the directory are passed over.
FreshMethods ==
    /\ At("loaded") /\ fresh(methods)
    /\ step' = "methods"
    /\ todo' = WithCommands
    /\ UNCHANGED <<schema, panicked, known, methods, protocol>>

OpenMethods ==
    /\ At("methods") /\ methods.torn = {}
    /\ methods' = Opened(methods, NextFile)
    /\ UNCHANGED <<schema, step, panicked, todo, known, protocol>>

WriteMethods ==
    /\ At("methods") /\ todo # {} /\ methods.torn = {NextFile}
    /\ methods' = Write(methods, NextDomain, DOMAIN schema[NextDomain].commands)
    /\ todo' = todo \ {NextDomain}
    /\ UNCHANGED <<schema, step, panicked, known, protocol>>

IndexMethods ==
    /\ At("methods") /\ todo = {} /\ methods.torn = {NextFile}
    /\ step' = "indexed"
    /\ methods' = Publish(methods, WithCommands)
    /\ UNCHANGED <<schema, panicked, todo, known, protocol>>

RemoveProtocol ==
    /\ At("indexed")
    /\ \E name \in Entries(protocol) : protocol' = Removed(protocol, name)
    /\ UNCHANGED <<schema, step, panicked, todo, known, methods>>

FreshProtocol ==
    /\ At("indexed") /\ fresh(protocol)
    /\ step' = "asking"
    /\ UNCHANGED <<schema, panicked, todo, known, methods, protocol>>

\* The loop of registry over the declared types: a type whose answer is known
\* already is passed over.
Ask ==
    /\ At("asking")
    /\ LET unknown == {key \in Declared : known[key] = "unknown"}
       IN  /\ unknown # {}
           /\ known' = Asked(CHOOSE key \in unknown : TRUE)
    /\ UNCHANGED <<schema, step, panicked, todo, methods, protocol>>

Registered ==
    /\ At("asking") /\ \A key \in Declared : known[key] # "unknown"
    /\ step' = "protocol"
    /\ todo' = Declaring
    /\ UNCHANGED <<schema, panicked, known, methods, protocol>>

\* A domain is rendered before its file is opened, and not every one can be.
Unrenderable(d) == schema[d].faulty \/ Dangling(d)

OpenProtocol ==
    /\ At("protocol") /\ protocol.torn = {} /\ ~(todo # {} /\ Unrenderable(NextDomain))
    /\ protocol' = Opened(protocol, NextFile)
    /\ UNCHANGED <<schema, step, panicked, todo, known, methods>>

\* The asserts and panics of the renderer.
Panic ==
    /\ At("protocol") /\ protocol.torn = {} /\ todo # {} /\ Unrenderable(NextDomain)
    /\ panicked' = TRUE
    /\ UNCHANGED <<schema, step, todo, known, methods, protocol>>

WriteProtocol ==
    /\ At("protocol") /\ todo # {} /\ protocol.torn = {NextFile}
    /\ protocol' = Write(protocol, NextDomain, render_domain(NextDomain))
    /\ todo' = todo \ {NextDomain}
    /\ UNCHANGED <<schema, step, panicked, known, methods>>

\* The assert on the two counts of commands holds: they are sums over one list.
IndexProtocol ==
    /\ At("protocol") /\ todo = {} /\ protocol.torn = {NextFile}
    /\ step' = "done"
    /\ protocol' = Publish(protocol, Declaring)
    /\ UNCHANGED <<schema, panicked, todo, known, methods>>

\* The expect of any call of the file system.
DiskFails ==
    /\ \E s \in {"loaded", "methods", "indexed", "protocol"} : At(s)
    /\ panicked' = TRUE
    /\ UNCHANGED <<schema, step, todo, known, methods, protocol>>

Next == \/ RemoveMethods \/ FreshMethods \/ OpenMethods \/ WriteMethods \/ IndexMethods
        \/ RemoveProtocol \/ FreshProtocol \/ Ask \/ Registered
        \/ OpenProtocol \/ WriteProtocol \/ IndexProtocol
        \/ Panic \/ DiskFails

Spec == Init /\ [][Next]_vars

-----------------------------------------------------------------------------
(* What the Rust that a finished run leaves has to be.                     *)

\* The declared structs, enums and aliases as they were written.
Written == [key \in Declared |-> protocol.files[key[1]].types[key[2]]]

Targets(key, wraps) ==
    {resolve(key[1], f) : f \in {g \in Range(Written[key].fields) : g.wrap \in wraps}}

\* Types with a size, given those in S have one: a Box or a Vec is a pointer.
Sized == Grown(Declared,
               [S \in SUBSET Declared |->
                   {k \in Declared : Targets(k, {"", "Option"}) \subseteq S}])[{}]

\* What the types in S would hold inline, were nothing boxed.
Holds == [S \in SUBSET Declared |->
             UNION {Targets(k, {"", "Option", "Box", "Option Box"}) : k \in S}]

\* Every type written has a finite size, recursive as the schema may be, through
\* optional fields or across domains, and a field is boxed only where it is on a
\* cycle.
SizesAreFinite ==
    step = "done" =>
        /\ Sized = Declared
        /\ \A k \in Declared : \A l \in Targets(k, {"Box", "Option Box"}) :
               k \in Grown(Declared, Holds)[{l}]

\* Types whose default ends, given those of S do: what Option and Vec default to
\* needs nothing of what they are of.
Ends(S, d, item) == \A f \in Range(item.fields) : f.wrap \in {"", "Box"} => resolve(d, f) \in S
Defaulting ==
    Grown(Declared,
          [S \in SUBSET Declared |->
              {k \in Declared : Written[k].kind # "enum" /\ Ends(S, k[1], Written[k])}])[{}]

\* A struct derives Default exactly where that compiles and ends: never over an
\* enum however far down, nor round a cycle, and not less often either, whichever
\* type the memo was asked for first.
DefaultsAreExact ==
    step = "done" =>
        LET D == Defaulting
            Exact(d, item) == item.kind = "struct" => (item.default <=> Ends(D, d, item))
        IN  \A d \in DOMAIN protocol.files :
                LET file == protocol.files[d]
                IN  /\ \A n \in DOMAIN file.types : Exact(d, file.types[n])
                    /\ \A n \in DOMAIN file.commands : /\ Exact(d, file.commands[n].params)
                                                       /\ Exact(d, file.commands[n].returns)
                    /\ \A n \in DOMAIN file.events : Exact(d, file.events[n].payload)

\* A reference to nothing, wherever it stands, never gets into the Rust: the file of
\* its domain is not opened, and so neither is mod.rs; once mod.rs is there or begun,
\* every reference of the schema is to a type that is written.
DanglingReferencesStopTheRun ==
    step \notin {"loaded", "methods", "indexed"} =>
        /\ \A d \in DOMAIN schema \cap (DOMAIN protocol.files \cup protocol.torn) : ~Dangling(d)
        /\ protocol.index # NoIndex \/ ModRs \in protocol.torn =>
               \A d \in DOMAIN schema : \A f \in Fields(d) :
                   LET key == resolve(d, f)
                   IN  /\ key[1] \in DOMAIN protocol.files
                       /\ key[2] \in DOMAIN protocol.files[key[1]].types

\* A directory with nothing in it but whole modules of those to be written, and at most
\* one file that is cut short, and a mod.rs only if it names just what is there.
OnlyOf(directory, modules) ==
    /\ DOMAIN directory.files \subseteq modules
    /\ \E name \in modules \cup {ModRs} :
           name \notin DOMAIN directory.files /\ directory.torn \subseteq {name}
    /\ directory.index # NoIndex =>
           directory.index = DOMAIN directory.files /\ directory.torn = {}

\* Whatever an earlier run left, one that was killed while it removed or wrote a file
\* included, nothing of it is in a directory from the first module of this run on; so
\* that wherever this run stops, a mod.rs of its own names exactly the modules that
\* are there.  A run that ends has written both, with the same commands.
OutputIsOfThisRun ==
    /\ step # "loaded" =>
           /\ OnlyOf(methods, WithCommands)
           /\ \A d \in DOMAIN methods.files : methods.files[d] = DOMAIN schema[d].commands
    /\ step \notin {"loaded", "methods", "indexed"} => OnlyOf(protocol, Declaring)
    /\ step = "done" =>
           /\ methods.index # NoIndex /\ protocol.index # NoIndex
           /\ \A d \in DOMAIN schema : \A n \in DOMAIN schema[d].commands :
                  /\ d \in DOMAIN methods.files \cap DOMAIN protocol.files
                  /\ n \in methods.files[d]
                  /\ n \in DOMAIN protocol.files[d].commands
           /\ \A d \in DOMAIN methods.files :
                  methods.files[d] = DOMAIN protocol.files[d].commands

-----------------------------------------------------------------------------
(* The inductive invariant behind these four, proved in Generator_proofs.   *)

\* The loops over the domains; between them there is nothing to do.
LoopsGoOn ==
    /\ step \in {"loaded", "methods", "indexed", "asking", "protocol", "done"}
    /\ todo \subseteq IF step = "methods" THEN WithCommands
                      ELSE IF step = "protocol" THEN Declaring ELSE {}

\* From the first step on methods/ is of this run: the names of each domain done.
MethodsAreOfThisRun ==
    step # "loaded" =>
        LET done == WithCommands \ (IF step = "methods" THEN todo ELSE {})
        IN  /\ methods = [files |-> [d \in done |-> DOMAIN schema[d].commands],
                          index |-> IF step = "methods" THEN NoIndex ELSE WithCommands,
                          torn  |-> methods.torn]
            /\ methods.torn \subseteq IF step = "methods" THEN {NextFile} ELSE {}

\* And protocol/ is, from when it is emptied: each domain done, rendered with the
\* answers of the registry, which no longer change then.
ProtocolIsOfThisRun ==
    step \in {"asking", "protocol", "done"} =>
        LET done == IF step = "asking" THEN {} ELSE Declaring \ todo
        IN  /\ protocol = [files |-> [d \in done |-> render_domain(d)],
                           index |-> IF step = "done" THEN Declaring ELSE NoIndex,
                           torn  |-> protocol.torn]
            /\ protocol.torn \subseteq IF step = "protocol" THEN {NextFile} ELSE {}

\* Until then each is what an earlier run left, or what is left of that.
EarlierDirectories ==
    /\ step = "loaded" => IsDirectory(methods)
    /\ step \in {"loaded", "methods", "indexed"} => IsDirectory(protocol)

\* Every domain rendered was checked, and so was the one whose file is open.
CheckedSoFar ==
    /\ step \in {"protocol", "done"} => \A d \in Declaring \ todo : ~Dangling(d)
    /\ step = "protocol" /\ todo # {} /\ protocol.torn # {} => ~Dangling(NextDomain)

\* The declared types without which a type has no default, and those whose default
\* ends, given those of S do.
RequiredOf(key) ==
    LET fields == Type(key).fields
    IN  {resolve(key[1], fields[i]) : i \in {j \in DOMAIN fields : Required(fields[j])}}
            \cap Declared
Requiring == [S \in SUBSET Declared |->
                 {k \in Declared : Type(k).kind # "enum" /\ RequiredOf(k) \subseteq S}]
Derivable == Grown(Declared, Requiring)[{}]

\* Every answer the registry has is right, whatever it was asked before, and the
\* domains are rendered when it has them all.
IsRight(memo) ==
    /\ memo \in [Declared -> {"unknown", "yes", "no"}]
    /\ \A key \in Declared :
           /\ memo[key] = "yes" => key \in Derivable
           /\ memo[key] = "no" => key \notin Derivable
AnswersAreRight ==
    /\ IsRight(known)
    /\ step \in {"protocol", "done"} => \A key \in Declared : known[key] # "unknown"

\* The inductive invariant.
GInv ==
    /\ IsSchema(schema)
    /\ LoopsGoOn
    /\ MethodsAreOfThisRun
    /\ ProtocolIsOfThisRun
    /\ EarlierDirectories
    /\ CheckedSoFar
    /\ AnswersAreRight
=============================================================================
