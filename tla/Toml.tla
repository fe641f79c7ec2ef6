-------------------------------- MODULE Toml --------------------------------
(***************************************************************************)
(* The TOML reader at work: any document, one line at a time, and what the *)
(* document means, stated on its lines alone.                              *)
(*                                                                         *)
(* toml_parse stops at the first line it refuses, so a document grows only *)
(* while it is accepted.                                                   *)
(***************************************************************************)
EXTENDS TomlTable, FiniteSets, SequencesExt

CONSTANTS
    Lines,     \* the lines a document may have
    MaxLines   \* the longest document (bound)

VARIABLES
    doc,  \* the lines read so far
    ctx   \* the parser

vars == <<doc, ctx>>

Init == doc = <<>> /\ ctx = Context

(* One round of the loop of toml_parse. *)
toml_parse_line ==
    /\ ctx.ok /\ Len(doc) < MaxLines
    /\ \E line \in Lines :
          /\ doc' = Append(doc, line)
          /\ ctx' = parse_line(ctx, line)

Next == toml_parse_line

Spec == Init /\ [][Next]_vars

(***************************************************************************)
(* What a document means.  A header's path leads through the last table of *)
(* each array of tables it meets: those that headers before it have opened *)
(* and those of an array value, which [[path]] continues.                  *)
(***************************************************************************)
Numbers(kind) == {i \in DOMAIN doc : doc[i].line = kind}
Headers       == Numbers("table") \cup Numbers("array")

Along(place, path) == place \o [i \in DOMAIN path |-> Key(path[i])]

(* A value with those inside it, each with its place. *)
RECURSIVE Given(_, _)
Given(place, val) ==
    {[at |-> place, val |-> val]} \cup
    CASE val.is = "scalar" -> {}
      [] val.is = "array"  -> UNION {Given(Append(place, Item(i)), val.items[i]) : i \in DOMAIN val.items}
      [] val.is = "inline" -> UNION {Given(Along(place, val.keyvals[i].path), val.keyvals[i].val) :
                                     i \in DOMAIN val.keyvals}

RECURSIVE Resolve(_, _), Assigned(_)

Values(i) == IF doc[i].line = "keyval" THEN Given(Assigned(i), doc[i].val) ELSE {}

(* The items the array at a place has before line i. *)
Opened(i, place) == {j \in Numbers("array") : j < i /\ Resolve(j, doc[j].path) = place}
Items(i, place) ==
    LET arrays == {g \in UNION {Values(j) : j \in 1 .. i - 1} : g.at = place /\ g.val.is = "array"}
    IN  Cardinality(Opened(i, place)) + IF arrays = {} THEN 0 ELSE Len((CHOOSE g \in arrays : TRUE).val.items)

(* The place that path names at line i. *)
Resolve(i, path) ==
    LET up    == Resolve(i, Front(path))
        items == Items(i, up)
    IN  IF path = <<>> THEN <<>>
        ELSE Under(IF items > 0 THEN Append(up, Item(items)) ELSE up, Last(path))

Target(i) == Resolve(i, doc[i].path)

(* The table that the assignments after line i go to. *)
Section(i) ==
    LET headers == {j \in Headers : j <= i}
        h == CHOOSE j \in headers : \A k \in headers : k <= j
    IN  IF headers = {} THEN <<>>
        ELSE IF doc[h].line = "table" THEN Target(h)
        ELSE Append(Target(h), Item(1 + Items(h, Target(h))))

Assigned(i) == Along(Section(i), doc[i].path)

(* What a line defines, and the tables its dotted key goes through. *)
Defined(i) == IF i \in Headers THEN {Target(i)} ELSE {g.at : g \in Values(i)}
Through(i) == IF i \in Headers THEN {}
              ELSE {Along(Section(i), SubSeq(doc[i].path, 1, n)) : n \in 1 .. Len(doc[i].path) - 1}

StrictlyUnder(p, q) == Len(q) < Len(p) /\ IsPrefix(q, p)

(* Line i adds to the array of tables that line j has at p. *)
Continues(i, j, p) ==
    /\ j < i /\ doc[i].line = "array"
    /\ \/ doc[j].line = "array"
       \/ \E g \in Values(j) : /\ g.at = p /\ g.val.is = "array" /\ g.val.items # <<>>
                               /\ \A k \in DOMAIN g.val.items : g.val.items[k].is = "inline"

(* A document that keeps what its lines define apart: nothing is defined   *)
(* twice, an array's items apart, values are left as they are, dotted keys *)
(* stay clear of headers, and an array's first header comes before what    *)
(* leads through the array.                                                *)
Wellformed ==
    /\ \A i, j \in DOMAIN doc : i # j /\ Defined(i) \cap Defined(j) # {} => {i, j} \subseteq Numbers("array")
    /\ \A i \in Headers : Len(doc[i].path) <= TPATH
    /\ \A i, j \in DOMAIN doc : Through(i) \cap Defined(j) = {}
    /\ \A i \in DOMAIN doc, j \in Numbers("keyval") :
          i # j => \A p \in Defined(i) : ~StrictlyUnder(p, Assigned(j))
    /\ \A i \in Numbers("array"), j \in DOMAIN doc :
          j < i /\ Opened(i, Target(i)) = {} =>
              ~IsPrefix(Target(i), IF doc[j].line = "keyval" THEN Assigned(j) ELSE Target(j))

(***************************************************************************)
(* Properties                                                              *)
(***************************************************************************)
(* A document that keeps its definitions apart is accepted, whatever the   *)
(* order of its headers (an array's own first header apart): the implicit  *)
(* tables of longer headers do not count as defined                        *)
(* (create_keytable_in_table, walk_tabpath, parse_keyval).                 *)
AcceptsWellformed == Wellformed => ctx.ok

(* An accepted document defines nothing twice, under whatever headers and  *)
(* inside whatever values (check_key before every creation), but that      *)
(* [[path]] continues an array of tables, of headers or of a value.  A     *)
(* dotted key may go through the table of a header before it; what it went *)
(* through is not defined after it, unless a longer header had made that   *)
(* table before: then it is still implicit, and a header or an inline      *)
(* value may take it over (create_keytable_in_table, parse_keyval).        *)
DefinedOnce ==
    ctx.ok => \A i, j \in DOMAIN doc :
        /\ \A p \in Defined(i) \cap Defined(j) : i = j \/ Continues(i, j, p) \/ Continues(j, i, p)
        /\ \A p \in Through(j) \cap Defined(i) :
              \/ i < j /\ doc[i].line = "table"
              \/ /\ j < i /\ doc[i].line # "array"
                 /\ \E k \in Headers : k < j /\ StrictlyUnder(Target(k), p)

(* Every array says what its items are: its kind is theirs, or "m" when    *)
(* they differ, and so is its type for scalars (parse_array, parse_select).*)
KindsAgree ==
    ctx.ok => \A p \in DOMAIN ctx.tab : ctx.tab[p].is = "a" =>
        LET arr   == ctx.tab[p]
            items == [i \in 1 .. arr.nitem |-> ctx.tab[Append(p, Item(i))]]
            one(s) == IF Cardinality(s) = 1 THEN CHOOSE x \in s : TRUE ELSE "m"
        IN  /\ arr.nitem > 0 => arr.kind = one({items[i].is : i \in DOMAIN items})
            /\ arr.kind = "v" => arr.type = one({items[i].type : i \in DOMAIN items})

(* Every scalar of an accepted document is found at the place its line     *)
(* names, and nothing else is there: no assignment is lost, overwritten or *)
(* put into another table of an array, and every array knows its items     *)
(* (walk_tabpath, parse_keyval).                                           *)
ReadsBack ==
    /\ KindsAgree
    /\ ctx.ok =>
          {<<p, ctx.tab[p].text>> : p \in {q \in DOMAIN ctx.tab : ctx.tab[q].is = "v"}}
              = {<<g.at, g.val.text>> : g \in {h \in UNION {Values(i) : i \in DOMAIN doc} : h.val.is = "scalar"}}

=============================================================================
