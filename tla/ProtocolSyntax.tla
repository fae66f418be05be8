---------------------------- MODULE ProtocolSyntax ----------------------------
(***************************************************************************)
(* The shapes of a domain's Rust items in crates/cdp-protocol/src/protocol,*)
(* as far as they refer to each other.  A field of a primitive type is     *)
(* left out: it has a size and a Default whatever surrounds it.  So are    *)
(* names on the wire, docs and the derives every item has.                 *)
(***************************************************************************)

\* The module a reference without a path is resolved in: the one it stands in.
Here == ""

\* A field, or the element of an alias: how its type wraps which named type.
Field(wrap, name) == [wrap |-> wrap, module |-> Here, name |-> name]

One(name)     == Field("", name)             \* T
Box(name)     == Field("Box", name)          \* Box<T>
Opt(name)     == Field("Option", name)       \* Option<T>
OptBox(name)  == Field("Option Box", name)   \* Option<Box<T>>
Many(name)    == Field("Vec", name)          \* Vec<T>
OptMany(name) == Field("Option Vec", name)   \* Option<Vec<T>>

\* The same, of a type of another module: crate::protocol::module::T.
In(module, field) == [field EXCEPT !.module = module]

-----------------------------------------------------------------------------
Item(kind, default, fields) ==
    [kind |-> kind, default |-> default, fields |-> fields]

Default(fields) == Item("struct", TRUE, fields)   \* a struct that derives Default
Plain(fields)   == Item("struct", FALSE, fields)  \* and one that does not
Bare            == Default(<< >>)
Enum            == Item("enum", FALSE, << >>)
Alias           == Item("alias", FALSE, << >>)    \* of a primitive, or of a Vec of one
AliasOf(fields) == Item("alias", FALSE, fields)
NoReturns       == Item("none", FALSE, << >>)     \* crate::typed::NoReturns

\* impl Command: the struct of the parameters and that of the answer.
Command(params, returns) == [kind |-> "command", params |-> params, returns |-> returns]

\* impl Event: the struct of the payload.
Event(payload) == [kind |-> "event", payload |-> payload]
=============================================================================
