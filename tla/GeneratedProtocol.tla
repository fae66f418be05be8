--------------------------- MODULE GeneratedProtocol ---------------------------
(***************************************************************************)
(* The committed modules against the generator.  The schema they state is  *)
(* what is left of them without what the generator adds: the boxes and the *)
(* derives.  Generating from it has to give the committed modules back.    *)
(***************************************************************************)
EXTENDS Generator, Protocol

EraseFields(fields) ==
    [i \in DOMAIN fields |->
        [module   |-> fields[i].module,
         name     |-> fields[i].name,
         optional |-> fields[i].wrap \in {"Option", "Option Box", "Option Vec"},
         array    |-> fields[i].wrap \in {"Vec", "Option Vec"}]]

EraseItem(item) == [kind |-> item.kind, fields |-> EraseFields(item.fields)]

Erase(module) ==
    [types    |-> [n \in DOMAIN module.types |-> EraseItem(module.types[n])],
     commands |-> [n \in DOMAIN module.commands |->
                      [params  |-> EraseFields(module.commands[n].params.fields),
                       returns |-> EraseItem(module.commands[n].returns)]],
     events   |-> [n \in DOMAIN module.events |->
                      EraseFields(module.events[n].payload.fields)],
     faulty   |-> FALSE]

CommittedSchema == [d \in DOMAIN Modules |-> Erase(Modules[d])]

\* The committed modules are what the generator makes of their schema: every type,
\* command and event of the 58 domains with its boxes and derives, and a method name
\* for each command and no other.
RegenerationChangesNothing ==
    step = "done" /\ schema = CommittedSchema =>
        /\ protocol.files = Modules
        /\ methods.files = MethodModules
=============================================================================
