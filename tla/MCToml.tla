------------------------------- MODULE MCToml -------------------------------
(***************************************************************************)
(* Toml with two keys, headers of up to four steps (one more than TPATH    *)
(* allows), and values of every form; a scalar's text is the path *)
(* it was assigned to.                                                     *)
(***************************************************************************)
EXTENDS Toml

CONSTANTS a, b

Scalar(type, text) == [is |-> "scalar", type |-> type, text |-> text]
Array(items)       == [is |-> "array", items |-> items]
Inline(keyvals)    == [is |-> "inline", keyvals |-> keyvals]
Set(path, val)     == [path |-> path, val |-> val]

HeaderPaths == {<<a>>, <<b>>, <<a, a>>, <<a, b>>, <<b, a>>, <<a, a, a>>, <<a, b, a, b>>}
AssignPaths == {<<a>>, <<a, b>>, <<b>>}

ValuesAt(p) == {Scalar("i", p), Inline(<<Set(<<b>>, Scalar("s", p))>>),
                Array(<<Scalar("i", p), Scalar("s", p)>>)}

MoreValuesAt(p) == {Array(<<>>),
                    Array(<<Inline(<<Set(<<a, b>>, Scalar("i", p))>>), Scalar("i", p)>>),
                    Array(<<Inline(<<>>), Inline(<<Set(<<a>>, Scalar("s", p))>>)>>),
                    Array(<<Array(<<Scalar("s", p)>>), Array(<<>>)>>)}

Assignments(p, vals) == {[line |-> "keyval", path |-> p, val |-> v] : v \in vals}

MCLines ==
    {[line |-> k, path |-> p] : k \in {"table", "array"}, p \in HeaderPaths}
    \cup UNION {Assignments(p, ValuesAt(p)) : p \in AssignPaths}
    \cup Assignments(<<b>>, MoreValuesAt(<<b>>))

=============================================================================
