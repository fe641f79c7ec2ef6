-------------------------------- MODULE Curses --------------------------------
(***************************************************************************)
(* The curses windows mtm keeps a terminal's text in, as far as mtm uses   *)
(* them: a cursor, a scrolling region and the rows that hold text.  Rows   *)
(* and columns count from 0.  A call with a bad argument returns ERR and   *)
(* changes nothing; mtm never looks at the result except in csr.           *)
(* The text of a row is abstracted to whether there may be any.            *)
(***************************************************************************)
EXTENDS Integers

WindowType(Rows, Columns) ==
    [rows : Rows, columns : Columns, y : Nat, x : Nat, top : Nat, bot : Nat,
     text : SUBSET Nat]

newpad(h, w) ==
    [rows |-> h, columns |-> w, y |-> 0, x |-> 0, top |-> 0, bot |-> h - 1, text |-> {}]

wmove(win, y, x) ==
    IF y \in 0 .. (win.rows - 1) /\ x \in 0 .. (win.columns - 1)
    THEN [win EXCEPT !.y = y, !.x = x]
    ELSE win

RegionFits(win, top, bot) == 0 <= top /\ top < bot /\ bot < win.rows

wsetscrreg(win, top, bot) ==
    IF RegionFits(win, top, bot) THEN [win EXCEPT !.top = top, !.bot = bot] ELSE win

(* Scroll the region up by k rows, down if k is negative; what leaves the  *)
(* region is lost and what enters it is blank.                             *)
wscrl(win, k) ==
    LET region == win.top .. win.bot IN
    [win EXCEPT !.text = (@ \ region) \cup {r \in region : r + k \in @ \cap region}]

(* Clear from the cursor to the end of the line, or of the window; a row   *)
(* counts as blank only once all of it was cleared.                        *)
wclrtoeol(win) == [win EXCEPT !.text = IF win.x = 0 THEN @ \ {win.y} ELSE @]
wclrtobot(win) ==
    LET below == {r \in win.text : r > win.y} IN
    [wclrtoeol(win) EXCEPT !.text = @ \ below]
werase(win) == [wmove(win, 0, 0) EXCEPT !.text = {}]

WriteRow(win, r) == [win EXCEPT !.text = @ \cup {r}]

(* One narrow character that does not end the line; the last column of a   *)
(* line is written with wins_nwstr, which leaves the cursor where it is.   *)
waddnwstr(win) == wmove(WriteRow(win, win.y), win.y, win.x + 1)
wins_nwstr(win) == WriteRow(win, win.y)

wresize(win, h, w) ==
    LET AtMost(a, max) == IF a > max THEN max ELSE a IN
    [rows |-> h, columns |-> w,
     y |-> AtMost(win.y, h - 1), x |-> AtMost(win.x, w - 1),
     top |-> AtMost(win.top, h - 1),
     bot |-> IF win.bot = win.rows - 1 THEN h - 1 ELSE AtMost(win.bot, h - 1),
     text |-> {r \in win.text : r < h}]
=============================================================================
