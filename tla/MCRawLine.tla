------------------------------ MODULE MCRawLine ------------------------------
(* RawLine with a record of refused history keys, and what it implements.   *)
EXTENDS RawLine

MCChar == {"a", "b"}
MCAtExits == {NoLine, <<"a">>}
MCCompletions == {<<"a", "b">>}
(* More pieces than there is room for, and one that ends in equal ones. *)
MCSerials == {<<<<"b">>, <<>>, <<"a">>>>, <<<<"a">>, <<"a">>>>}

(* bound: of a history that has grown, and the line, the characters *)
GrownChars == 4

VARIABLE astray  \* did a refused history key move the cursor unseen in this input?

(* The cursor jumps to the end of the line and nothing is redrawn. *)
Unseen == pc = "reading" /\ cursor' # cursor /\ column' = column

MCInit == Init /\ astray = FALSE
MCNext == /\ Next
          /\ max' > 2 => Len(FlattenSeq(history')) + Len(line') <= GrownChars
          /\ astray => pc' # "reading"  \* bound: an input is not followed further
          /\ astray' = (pc = "reading" /\ pc' = "reading" /\ Unseen)
MCSpec == MCInit /\ [][MCNext]_<<vars, astray>>

(* While no history key was refused, the terminal shows the line and the   *)
(* cursor, whatever was typed, erased, recalled or completed: _raw_redraw  *)
(* only ever moves relative to where it believes the cursor to be.         *)
ShownUnlessAstray == ~astray => ScreenShowsLine

Reading == pc \in {"reading", "crashed"}
Entry(i) == IF i >= 0 THEN history[i + 1] ELSE IF index < 0 THEN line ELSE original
Places == IF hist = "on" THEN -1 .. (Len(history) - 1) ELSE {-1}

Editor == INSTANCE LineEditor WITH
    AtExits <- AtExits \ {NoLine},
    place <- IF Reading THEN [i \in Places |-> Entry(i)] ELSE [i \in {-1} |-> <<>>],
    at <- IF Reading THEN index ELSE -1,
    cursor <- IF Reading THEN cursor ELSE 0,
    kept <- IF Reading /\ hist = "on" THEN copy ELSE history,
    limit <- max,
    busy <- Reading,
    answer <- IF pc = "answered" THEN {line} ELSE {}

(* The editor with its buffers, its copy of the history and its note of    *)
(* every round is the column of lines of LineEditor: an edit reaches one   *)
(* line only, moving up and back down finds every line as it was left, and *)
(* an input leaves what is remembered alone.                               *)
ImplementsEditor == Editor!Spec
=============================================================================
