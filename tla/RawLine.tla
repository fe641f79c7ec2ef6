-------------------------------- MODULE RawLine --------------------------------
(***************************************************************************)
(* rawline, the line editor behind mtm's command line and label editor     *)
(* (rawline.c): the line and its cursor, the history and the copy of it    *)
(* made for an input, the redrawing of the terminal line, and the calls of *)
(* a program.  One step is one call, or one round of the loop of           *)
(* raw_input: a key, what it does, the redraw and the note in the history. *)
(* The program is that of rawline/tests/main.c: it may add a line to the   *)
(* history once raw_input has answered with one.                           *)
(***************************************************************************)
EXTENDS Integers, Sequences, SequencesExt

CONSTANTS
    Char,         \* the characters a key can give
    AtExits,      \* the lines raw_new may be given for control-D, or NoLine
    NoLine,       \* the null pointer for a string
    Completions,  \* the table the completion callback returns
    Serials,      \* serialised histories given to raw_hist_set
    Sizes,        \* history sizes given to raw_hist
    LineMax       \* bound: no character is typed into a line of this length

(* What a key, the program or a completion may put into a line. *)
Letter == Char \cup UNION {ToSet(a) : a \in (AtExits \ {NoLine}) \cup Completions
                                            \cup UNION {ToSet(s) : s \in Serials}}
Text == Seq(Letter)

ASSUME RawLineAssumption ==
    /\ (AtExits \ {NoLine}) \cup Completions \subseteq Text
    /\ Serials \subseteq Seq(Text)
    /\ Sizes \subseteq Nat /\ LineMax \in Nat

VARIABLES
    line, cursor,     \* raw->line: the text and the cursor in it
    hist,             \* raw->hist: "none" (NULL), "on" or "freed"
    history,          \* its len strings, history[1] the newest
    max, index, original,
    copy,             \* raw_input's copy of the history (hist)
    atexit,           \* the line control-D returns, or NoLine
    pc,               \* "ready", "reading", "answered", "crashed" or "undefined"
    text, column      \* the terminal line after the prompt and its cursor's column

lineVars == <<line, cursor>>
histVars == <<hist, history, max, index, original>>
termVars == <<text, column>>
vars == <<lineVars, histVars, copy, atexit, pc, termVars>>

LineMin(a, b) == IF a < b THEN a ELSE b
Prefix(s, k) == SubSeq(s, 1, LineMin(k, Len(s)))

TypeOK ==
    /\ line \in Text /\ cursor \in Nat /\ text \in Text /\ column \in Int
    /\ hist \in {"none", "on", "freed"}
    /\ history \in Seq(Text) /\ max \in Nat /\ index \in Nat \cup {-1} /\ original \in Text
    /\ copy \in Seq(Text) /\ atexit \in AtExits
    /\ pc \in {"ready", "reading", "answered", "crashed", "undefined"}

-----------------------------------------------------------------------------
(* The history.  history[0] of the code is history[1] here. *)

(* _raw_hist_add_str while no entry is being edited (index < 0). *)
Push(h, str, m) == IF h # <<>> /\ h[1] = str THEN h ELSE Prefix(<<str>> \o h, m)

(* _raw_hist_from_serial: the history may hold as many entries as before,  *)
(* or as there are separators if these are more, and one; each piece that  *)
(* is not empty is added in turn.                                          *)
SerialMax(s, m) == IF Len(s) > m THEN Len(s) ELSE m
FromSerial(s, m) ==
    LET added[i \in 0 .. Len(s)] ==
            IF i = 0 THEN <<>>
            ELSE IF s[i] = <<>> THEN added[i - 1] ELSE Push(added[i - 1], s[i], m)
    IN  added[Len(s)]

(* The index is put back before every piece, and ends at the newest entry  *)
(* unless the last piece was like the one before it.                       *)
Pieces(s) == {i \in 1 .. Len(s) : s[i] # <<>>}
NextPiece(s, j, i) == j < i /\ \A k \in Pieces(s) : k <= j \/ i <= k
LastAdded(s) == \E i \in Pieces(s) :
                    /\ \A j \in Pieces(s) : j <= i
                    /\ \A j \in Pieces(s) : NextPiece(s, j, i) => s[j] # s[i]

-----------------------------------------------------------------------------
(* The end of a round in which nothing went wrong: _raw_redraw moves back  *)
(* over the line as it was (oldcursor), prints it again if it may have     *)
(* changed, and moves to the cursor; the line is noted in the history      *)
(* entry it came from; enter leaves the loop and takes the copy for the    *)
(* history.  Without a history, raw->hist is read all the same: a null     *)
(* pointer, or memory that was freed and need not have changed yet.        *)
Start == column - cursor

RedrawToEnd(l, c, change) ==  \* mutation: the cursor stays after what was printed
    /\ column' = Start + (IF change THEN Len(l) ELSE c)
    /\ text' = IF change THEN Prefix(text, Start) \o l ELSE text
Redraw(l, c, change) ==
    /\ column' = Start + c
    /\ text' = IF change THEN Prefix(text, Start) \o l ELSE text

NotNoted(l, i) == history  \* mutation: edits of a recalled entry are lost
Noted(l, i) == IF i >= 0 THEN [history EXCEPT ![i + 1] = l] ELSE history

Leave ==
    /\ pc' = "answered"
    /\ IF hist = "on" THEN history' = copy /\ index' = -1 ELSE UNCHANGED <<history, index>>
    /\ copy' = <<>>

Crash == pc' = "crashed" /\ UNCHANGED <<lineVars, histVars, copy, atexit, termVars>>

Done(l, c, i, change, enter) ==
    /\ hist # "none"
    /\ line' = l /\ cursor' = c
    /\ Redraw(l, c, change)
    /\ IF enter THEN Leave ELSE index' = i /\ history' = Noted(l, i) /\ UNCHANGED <<copy, pc>>
    /\ UNCHANGED <<hist, max, atexit>>

Edit(l, c) == Done(l, c, index, TRUE, FALSE) /\ UNCHANGED original
Move(c)    == Done(line, c, index, FALSE, FALSE) /\ UNCHANGED original

-----------------------------------------------------------------------------
(* The keys.  A key that rings the bell and changes nothing is no step. *)

add_char(ch) == Len(line) < LineMax /\ Edit(InsertAt(line, cursor + 1, ch), cursor + 1)

(* _raw_del_char: beyond the last character it takes the one before.       *)
DelPos == IF cursor >= Len(line) /\ cursor > 0 THEN cursor - 1 ELSE cursor
del_char  == line # <<>> /\ Edit(RemoveAt(line, DelPos + 1), DelPos)
backspace == line # <<>> /\ cursor >= 1 /\ Edit(RemoveAt(line, cursor), cursor - 1)

move_cur_beyond(offset) ==  \* mutation: one past the end of the line is allowed
    cursor + offset \in 0 .. (Len(line) + 1) /\ Move(cursor + offset)
move_cur(offset) == cursor + offset \in 0 .. Len(line) /\ Move(cursor + offset)
home == Move(0)
end  == Move(Len(line))

(* _raw_hist_move and what follows it: the line becomes the entry, or the  *)
(* line that was left for the history, and the cursor goes to its end,     *)
(* which happens to the cursor even when there is no entry to move to.     *)
LastLine == line  \* mutation: every move keeps the line it leaves
Left == IF index < 0 THEN line ELSE original
Recalled(i) == IF i < 0 THEN Left ELSE history[i + 1]

hist_move(d) ==
    LET i == index + d IN
    /\ hist = "on"
    /\ IF i \in -1 .. (Len(history) - 1)
         THEN /\ original' = Left
              /\ Done(Recalled(i), Len(Recalled(i)), i, TRUE, FALSE)
         ELSE /\ cursor' = Len(line)
              /\ UNCHANGED <<line, histVars, copy, atexit, pc, termVars>>

(* Tab: the longest common prefix of the entries the line is a prefix of. *)
Matches == {w \in Completions : IsPrefix(line, w)}
complete ==
    LET l == LongestCommonPrefix(Matches) IN
    Matches # {} /\ l # line /\ Edit(l, Len(l))

enter == Done(line, cursor, index, TRUE, TRUE) /\ UNCHANGED original

(* Control-D: the line of raw_new ends the input; without one it deletes   *)
(* a character and ends the input when there is none.                      *)
control_d ==
    \/ atexit # NoLine /\ Done(atexit, 0, index, TRUE, TRUE) /\ UNCHANGED original
    \/ atexit = NoLine /\ del_char
    \/ atexit = NoLine /\ line = <<>> /\ enter

(* Control-C: the copy of the history is freed, and the history kept. *)
control_c ==
    /\ pc' = "ready" /\ copy' = <<>>
    /\ UNCHANGED <<lineVars, histVars, atexit, termVars>>

Key ==
    /\ pc = "reading"
    /\ \/ \E ch \in Char : add_char(ch)
       \/ del_char \/ backspace
       \/ move_cur(-1) \/ move_cur(1) \/ home \/ end
       \/ hist_move(1) \/ hist_move(-1)
       \/ complete
       \/ control_d \/ control_c \/ enter
       \/ hist # "on" /\ Crash

-----------------------------------------------------------------------------
(* The calls of the program. *)

Idle == pc \in {"ready", "answered"}

raw_input ==
    /\ Idle /\ pc' = "reading"
    /\ line' = <<>> /\ cursor' = 0 /\ text' = <<>> /\ column' = 0
    /\ IF hist = "on" THEN index' = -1 /\ copy' = history ELSE UNCHANGED <<index, copy>>
    /\ UNCHANGED <<hist, history, max, original, atexit>>

raw_hist(set, size) ==
    /\ Idle /\ pc' = "ready"
    /\ IF set THEN hist # "on" /\ hist' = "on" /\ max' = size + 1
              ELSE hist = "on" /\ hist' = "freed" /\ UNCHANGED max
    /\ history' = <<>> /\ index' = -1 /\ original' = <<>>
    /\ UNCHANGED <<lineVars, copy, atexit, termVars>>

raw_hist_add ==
    /\ pc = "answered" /\ hist = "on" /\ pc' = "ready"
    /\ history' = Push(history, line, max)
    /\ index' = IF history' = history /\ history # <<>> /\ history[1] = line THEN index ELSE 0
    /\ UNCHANGED <<lineVars, hist, max, original, copy, atexit, termVars>>

(* raw_hist_set, of a serialised history or of a copy of what raw_hist_get *)
(* gives.                                                                  *)
raw_hist_set(s) ==
    /\ Idle /\ hist = "on" /\ s # <<>> /\ pc' = "ready"
    /\ max' = SerialMax(s, max)
    /\ history' = FromSerial(s, SerialMax(s, max))
    /\ index' = IF LastAdded(s) THEN 0 ELSE -1
    /\ original' = <<>>
    /\ UNCHANGED <<lineVars, hist, copy, atexit, termVars>>

(* raw_hist_set of the pointer raw_hist_get gave: it is freed with the old *)
(* history and read after that.  Nothing is said of what follows.          *)
raw_hist_set_buffer ==
    /\ Idle /\ hist = "on" /\ history # <<>> /\ pc' = "undefined"
    /\ UNCHANGED <<lineVars, histVars, copy, atexit, termVars>>

Call ==
    \/ raw_input
    \/ \E size \in Sizes : raw_hist(TRUE, size) \/ raw_hist(FALSE, size)
    \/ raw_hist_add
    \/ \E s \in Serials \cup {history} : raw_hist_set(s)
    \/ raw_hist_set_buffer

-----------------------------------------------------------------------------
(* raw_new *)
Init ==
    /\ line = <<>> /\ cursor = 0 /\ text = <<>> /\ column = 0
    /\ hist = "none" /\ history = <<>> /\ max = 0 /\ index = -1 /\ original = <<>>
    /\ copy = <<>> /\ atexit \in AtExits /\ pc = "ready"

Next == Key \/ Call

Spec == Init /\ [][Next]_vars

-----------------------------------------------------------------------------
(* Every memcpy of add_char and del_char and every use of history[index]   *)
(* stays inside what was allocated, whatever was edited, recalled and      *)
(* completed before.                                                       *)
InBounds ==
    /\ TypeOK
    /\ cursor \in 0 .. Len(line)
    /\ index \in -1 .. (Len(history) - 1)
    /\ Len(history) <= max

(* The terminal shows the line being edited, with its cursor where the     *)
(* next character will go: the redraw moves relative to a cursor it only   *)
(* believes to know.                                                       *)
ScreenShowsLine == pc = "reading" => text = line /\ column = cursor

(* The line shown for a place of the history is the one noted there: after *)
(* moving away and back, an edited entry is found as it was left.          *)
EntryIsLine == pc = "reading" /\ hist = "on" /\ index >= 0 => history[index + 1] = line
=============================================================================
