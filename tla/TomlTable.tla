----------------------------- MODULE TomlTable -----------------------------
(***************************************************************************)
(* The tables the TOML reader (toml.c) builds, line by line, and the       *)
(* lookups on them.                                                        *)
(*                                                                         *)
(* The toml_table_t, toml_array_t and toml_keyval_t reachable from the     *)
(* root are a function from places to entries.  A place is the sequence of *)
(* steps that lead there from the root, Key(k) into a table and Item(i)    *)
(* into an array; the root is <<>>.                                        *)
(*                                                                         *)
(* A line is what its tokens say: [path], [[path]] or path = value, where  *)
(* a value is a scalar, an array of values or an inline table of           *)
(* assignments.  Lines that are not of these forms end the parse with a    *)
(* syntax error and are left out, as is malloc failing.  A scalar is its   *)
(* type, which toml.c tells from its text, and its text.                   *)
(***************************************************************************)
EXTENDS Integers, Sequences, TLC

CONSTANT TPATH  \* the longest path of a header (10 in the code)

ASSUME TomlAssumption == TPATH \in Nat \ {0}

Key(k)  == <<k, 0>>
Item(i) == <<"[]", i>>
Under(place, k) == Append(place, Key(k))

(* toml_table_t, toml_array_t, toml_keyval_t; kind and type are NONE while *)
(* the array is empty.                                                     *)
TableAt(implicit)  == [is |-> "t", implicit |-> implicit, readonly |-> FALSE]
ArrayAt(kind)      == [is |-> "a", kind |-> kind, type |-> "NONE", nitem |-> 0]
ValueAt(val)       == [is |-> "v", type |-> val.type, text |-> val.text]

(* The parser: the tables so far, the table assignments go to, and whether *)
(* a line was refused; then the tables are freed (toml_free).              *)
Context == [tab |-> (<<>> :> TableAt(FALSE)), curtab |-> <<>>, ok |-> TRUE]
Refused == [tab |-> <<>>, curtab |-> <<>>, ok |-> FALSE]

Create(c, place, entry) == [c EXCEPT !.tab = (place :> entry) @@ @]

(***************************************************************************)
(* Lookups: check_key, toml_table_in, toml_array_in, toml_raw_in,          *)
(* toml_table_at.  A key names one thing, so their order does not matter.  *)
(***************************************************************************)
check_key(tab, place, k) == IF Under(place, k) \in DOMAIN tab THEN tab[Under(place, k)].is ELSE "none"

toml_array_nelem(tab, place, k) == IF check_key(tab, place, k) = "a" THEN tab[Under(place, k)].nitem ELSE 0
toml_table_at(place, k, i)      == Append(Under(place, k), Item(i))

(* Whether the string at a key is s; a key without a string is none. *)
toml_string_is(tab, place, k, s) ==
    /\ check_key(tab, place, k) = "v"
    /\ tab[Under(place, k)].type = "s" /\ tab[Under(place, k)].text = s

(***************************************************************************)
(* create_keytable_in_table: a table that exists is an error, unless only  *)
(* a longer header made it.                                                *)
(***************************************************************************)
create_keytable_in_table_strict(c, place, k) ==  \* mutation: an implicit table counts as existing
    IF check_key(c.tab, place, k) # "none" THEN Refused
    ELSE Create(c, Under(place, k), TableAt(FALSE))
create_keytable_in_table_again(c, place, k) ==  \* mutation: the table stays implicit
    LET kind == check_key(c.tab, place, k) IN
    IF kind = "none" THEN Create(c, Under(place, k), TableAt(FALSE))
    ELSE IF kind = "t" /\ c.tab[Under(place, k)].implicit THEN c ELSE Refused
create_keytable_in_table(c, place, k) ==
    LET kind == check_key(c.tab, place, k) IN
    IF kind = "none" THEN Create(c, Under(place, k), TableAt(FALSE))
    ELSE IF kind = "t" /\ c.tab[Under(place, k)].implicit
    THEN [c EXCEPT !.tab[Under(place, k)].implicit = FALSE]
    ELSE Refused

(* create_keyval_in_table and create_keyarray_in_table: a key that exists  *)
(* in any way is an error.                                                 *)
CreateNew(c, place, k, entry) ==
    IF check_key(c.tab, place, k) # "none" THEN Refused ELSE Create(c, Under(place, k), entry)

(***************************************************************************)
(* parse_keyval, parse_array and parse_inline_table                        *)
(***************************************************************************)
RECURSIVE parse_keyval(_, _, _, _), parse_array(_, _, _), parse_inline_table(_, _, _)

(* path = val, in the table at place. *)
parse_keyval(c, place, path, val) ==
    LET k   == Head(path)
        sub == Under(place, k)
        \* the table a dotted key goes through, created when it is not there
        via == IF check_key(c.tab, place, k) = "t" THEN c ELSE create_keytable_in_table(c, place, k)
        \* the table of an inline value
        new == create_keytable_in_table(c, place, k)
        arr == CreateNew(c, place, k, ArrayAt("NONE"))
    IN  IF c.tab[place].readonly THEN Refused
        ELSE IF Len(path) > 1 THEN IF via.ok THEN parse_keyval(via, sub, Tail(path), val) ELSE Refused
        ELSE CASE val.is = "scalar" -> CreateNew(c, place, k, ValueAt(val))
               [] val.is = "array"  -> IF arr.ok THEN parse_array(arr, sub, val.items) ELSE Refused
               [] val.is = "inline" -> IF new.ok THEN parse_inline_table(new, sub, val.keyvals) ELSE Refused

parse_inline_table(c, place, keyvals) ==
    IF keyvals = <<>> THEN [c EXCEPT !.tab[place].readonly = TRUE]
    ELSE LET next == parse_keyval(c, place, Head(keyvals).path, Head(keyvals).val)
         IN  IF next.ok THEN parse_inline_table(next, place, Tail(keyvals)) ELSE Refused

KindOf(val) == CASE val.is = "scalar" -> "v" [] val.is = "array" -> "a" [] val.is = "inline" -> "t"

(* The array with one item more: kind and type of the items so far, or "m" *)
(* when they differ; only scalars set the type.                            *)
Appended(arr, val) ==
    [arr EXCEPT
        !.nitem = @ + 1,
        !.kind = IF @ = "NONE" THEN KindOf(val) ELSE IF @ # KindOf(val) THEN "m" ELSE @,
        !.type = IF val.is # "scalar" THEN @ ELSE IF arr.nitem = 0 THEN val.type
                 ELSE IF @ # val.type THEN "m" ELSE @]

parse_array(c, place, items) ==
    IF items = <<>> THEN c
    ELSE LET val  == Head(items)
             at   == Append(place, Item(c.tab[place].nitem + 1))
             with == [c EXCEPT !.tab[place] = Appended(@, val)]
             next == CASE val.is = "scalar" -> Create(with, at, ValueAt(val))
                       [] val.is = "array"  -> parse_array(Create(with, at, ArrayAt("NONE")), at, val.items)
                       [] val.is = "inline" -> parse_inline_table(Create(with, at, TableAt(FALSE)), at, val.keyvals)
         IN  IF next.ok THEN parse_array(next, place, Tail(items)) ELSE Refused

(***************************************************************************)
(* walk_tabpath: from the root along path; an array stands for its last    *)
(* table, and what is missing becomes an implicit table.                   *)
(***************************************************************************)
RECURSIVE walk_tabpath(_, _, _)
walk_tabpath_first(c, place, path) ==  \* mutation: an array stands for its first table
    IF path = <<>> THEN [c EXCEPT !.curtab = place]
    ELSE LET next == Under(place, Head(path)) IN
         CASE check_key(c.tab, place, Head(path)) = "t" -> walk_tabpath(c, next, Tail(path))
           [] check_key(c.tab, place, Head(path)) = "a" ->
                IF c.tab[next].kind = "t" THEN walk_tabpath(c, Append(next, Item(1)), Tail(path)) ELSE Refused
           [] check_key(c.tab, place, Head(path)) = "v" -> Refused
           [] OTHER -> walk_tabpath(Create(c, next, TableAt(TRUE)), next, Tail(path))
walk_tabpath(c, place, path) ==
    IF path = <<>> THEN [c EXCEPT !.curtab = place]
    ELSE LET next == Under(place, Head(path)) IN
         CASE check_key(c.tab, place, Head(path)) = "t" -> walk_tabpath(c, next, Tail(path))
           [] check_key(c.tab, place, Head(path)) = "a" ->
                IF c.tab[next].kind = "t"
                THEN walk_tabpath(c, Append(next, Item(c.tab[next].nitem)), Tail(path)) ELSE Refused
           [] check_key(c.tab, place, Head(path)) = "v" -> Refused
           [] OTHER -> walk_tabpath(Create(c, next, TableAt(TRUE)), next, Tail(path))

(***************************************************************************)
(* parse_select: [path] opens a table, [[path]] the next table of an array *)
(* of tables.                                                              *)
(***************************************************************************)
SelectTable(c, z) ==
    LET new == create_keytable_in_table(c, c.curtab, z)
    IN  IF new.ok THEN [new EXCEPT !.curtab = Under(c.curtab, z)] ELSE Refused

SelectItem(c, z) ==
    LET arr == IF check_key(c.tab, c.curtab, z) = "a" THEN c ELSE CreateNew(c, c.curtab, z, ArrayAt("t"))
        at  == Under(c.curtab, z)
        dest == Append(at, Item(arr.tab[at].nitem + 1))
    IN  IF ~arr.ok \/ arr.tab[at].kind # "t" THEN Refused
        ELSE [Create([arr EXCEPT !.tab[at].nitem = @ + 1], dest, TableAt(FALSE)) EXCEPT !.curtab = dest]

(* fill_tabpath: the keys of a header. *)
PathFits(path) == Len(path) <= TPATH

parse_select(c, path, llb) ==
    LET z == path[Len(path)]
        w == walk_tabpath(c, <<>>, SubSeq(path, 1, Len(path) - 1))
    IN  IF ~PathFits(path) \/ ~w.ok THEN Refused
        ELSE IF llb THEN SelectItem(w, z) ELSE SelectTable(w, z)

(***************************************************************************)
(* One round of toml_parse's loop, and the whole file.                     *)
(***************************************************************************)
parse_line(c, line) ==
    CASE line.line = "table"  -> parse_select(c, line.path, FALSE)
      [] line.line = "array"  -> parse_select(c, line.path, TRUE)
      [] line.line = "keyval" -> parse_keyval(c, c.curtab, line.path, line.val)

RECURSIVE ParseFrom(_, _)
ParseFrom(c, lines) ==
    IF lines = <<>> \/ ~c.ok THEN c ELSE ParseFrom(parse_line(c, Head(lines)), Tail(lines))

toml_parse(lines) == ParseFrom(Context, lines)

=============================================================================
