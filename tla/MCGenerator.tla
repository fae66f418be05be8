------------------------------ MODULE MCGenerator ------------------------------
EXTENDS GeneratedProtocol

Ref(m, n, optional, array) ==
    [module |-> m, name |-> n, optional |-> optional, array |-> array]

\* The types a and b of a domain d, and c of a domain e, to which b refers by the
\* full name and c to itself by the bare one.
Refs(here, to, wraps) ==
    LET m == IF here = to[1] THEN Here ELSE to[1]
    IN  (IF "none" \in wraps THEN {<< >>} ELSE {})
        \cup {<<Ref(m, to[2], w \in {"opt", "optmany"}, w \in {"many", "optmany"})>> :
                 w \in wraps \ {"none"}}

FieldLists(here, wraps, wrapsOfC) ==
    {x \o y \o z : x \in Refs(here, <<"d", "a">>, wraps),
                   y \in Refs(here, <<"d", "b">>, wraps),
                   z \in Refs(here, <<"e", "c">>, wrapsOfC)}

T(kind, fields) == [kind |-> kind, fields |-> fields]
Struct(fields)  == T("struct", fields)
Quiet == [params |-> << >>, returns |-> T("none", << >>)]

Domain(types, commands, events) ==
    [types |-> types, commands |-> commands, events |-> events, faulty |-> FALSE]

TwoDomains(a, b, c, commands, events) ==
    [d |-> Domain([a |-> a, b |-> b], [run |-> Quiet], Nothing),
     e |-> Domain([c |-> c], commands, events)]

\* Every way three structs can hold each other, optionally or not.
Graphs == {TwoDomains(Struct(x), Struct(y), Struct(z), Nothing, Nothing) :
              x \in FieldLists("d", {"none", "one", "opt"}, {"none", "one", "opt"}),
              y \in FieldLists("d", {"none", "one", "opt"}, {"none", "one", "opt"}),
              z \in FieldLists("e", {"none", "one", "opt"}, {"none", "one"})}

\* The same of two, through arrays too, over an enum or an alias.
Arrays == {TwoDomains(Struct(x), Struct(y), T(k, << >>), Nothing, Nothing) :
              x \in FieldLists("d", {"none", "one", "opt", "many"}, {"none", "one"}),
              y \in FieldLists("d", {"none", "one", "opt", "many"}, {"none", "one", "optmany"}),
              k \in {"enum", "alias"}}

\* Commands and events over types with and without a default, and references to a
\* type that is not there, from anywhere.
Uses == {TwoDomains(Struct(x), T("enum", << >>), T("alias", << >>),
                    [get |-> [params |-> p, returns |-> T("struct", r)]], [got |-> v]) :
            x \in {<< >>, <<Ref(Here, "b", FALSE, FALSE)>>, <<Ref(Here, "b", TRUE, FALSE)>>,
                   <<Ref("e", "missing", TRUE, FALSE)>>, <<Ref(Here, "missing", FALSE, TRUE)>>},
            p \in {<< >>, <<Ref("d", "a", FALSE, FALSE)>>, <<Ref("d", "a", FALSE, TRUE)>>,
                   <<Ref(Here, "a", FALSE, FALSE)>>},
            r \in {<< >>, <<Ref("d", "a", TRUE, FALSE), Ref("d", "b", FALSE, FALSE)>>},
            v \in {<< >>, <<Ref("d", "a", FALSE, FALSE)>>, <<Ref("d", "c", TRUE, TRUE)>>}}

\* A domain with nothing to write, and no domain at all.
Odd == {[f |-> Domain(Nothing, Nothing, Nothing)], Nothing}

\* Either of two domains cannot be rendered.
Faulty == {[TwoDomains(Struct(<< >>), Struct(<< >>), Struct(<< >>), Nothing, Nothing)
                EXCEPT ![d].faulty = TRUE] : d \in {"d", "e"}}

\* The directories of an earlier run that ended, of a schema with two more domains and
\* another command; of one killed before it wrote either index, in the middle of a
\* module; and of one killed while it cleared what such a run had left, after some of
\* the modules and before mod.rs, or while it wrote a mod.rs.
Of(names, index, torn) == [files |-> [d \in names |-> {"was"}], index |-> index, torn |-> torn]
Whole   == Of({"d", "old", "gone"}, {"d", "old", "gone"}, {})
Killed  == Of({"d"}, NoIndex, {"old"})
Partly  == Of({"old"}, {"d", "old", "gone"}, {})
AtIndex == Of({"d", "old"}, NoIndex, {ModRs})
Stale   == {<<Whole, Whole>>, <<Killed, Whole>>, <<Partly, Killed>>, <<Whole, Partly>>,
            <<AtIndex, AtIndex>>}

MCInputs == {[schemas |-> Graphs, leftovers |-> {<<Empty, Empty>>}],
             [schemas |-> Arrays, leftovers |-> {<<Empty, Empty>>}],
             [schemas |-> {CommittedSchema}, leftovers |-> {<<Empty, Empty>>}],
             [schemas |-> Uses, leftovers |-> Stale],
             [schemas |-> Odd, leftovers |-> Stale],
             [schemas |-> Faulty, leftovers |-> Stale]}
=============================================================================
