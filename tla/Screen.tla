-------------------------------- MODULE Screen --------------------------------
(***************************************************************************)
(* The terminal of one view: what the callbacks registered by setupevents  *)
(* do to its two screens (mtm.c, "TERMINAL EMULATION HANDLERS"), how it is *)
(* reshaped, scrolled back and drawn.                                      *)
(*                                                                         *)
(* The primary screen is the last h rows of a pad that also holds the      *)
(* scroll-back; tos is the pad row of the top of the screen.  Characters   *)
(* are narrow and only their rows are kept.  Of the rendition the colours  *)
(* and their curses pairs (pair.c) are kept.  Character sets, the keypad   *)
(* mode, the visibility of the cursor and replies other than the cursor    *)
(* report are in no property here and left out.                            *)
(***************************************************************************)
EXTENDS Curses, Sequences

CONSTANTS
    SCROLLBACK,  \* rows of the primary pad
    Heights,     \* heights reshape may be called with; 0 happens below a low container
    Widths,      \* widths reshape may be called with
    Counts,      \* argument lists the parser passes to a handler that counts,
    Places,      \*   to one that takes a place or a region,
    Modes,       \*   to mode
    Renditions,  \*   and to sgr
    Handlers,    \* the handlers that may be called (a subset of AllHandlers)
    TabStop,     \* distance of the initial tab stops (8)
    COLOR_MAX,   \* colours pair.c has room for
    MaxPairs     \* pairs curses has besides pair 0 (COLOR_PAIRS - 1)

ASSUME ScreenAssumption ==
    /\ SCROLLBACK \in Nat \ {0, 1}
    /\ Heights \subseteq Nat /\ Widths \subseteq Nat
    /\ (Heights \cap Widths) \ {0, 1} # {} \/ (Heights \ {0, 1} # {} /\ Widths \ {0, 1} # {})
    /\ Counts \cup Places \cup Modes \cup Renditions \subseteq Seq(Nat)
    /\ TabStop \in Nat \ {0} /\ COLOR_MAX \in Nat /\ MaxPairs \in Nat

VARIABLE n  \* the NODE of the view

Least(a, b) == IF a < b THEN a ELSE b     \* MIN
Largest(a, b) == IF a > b THEN a ELSE b   \* MAX

(* PD, P0 and P1: argv has room behind its argc arguments, and reset fills *)
(* it with 0.                                                              *)
PD(a, i, default) ==
    IF Len(a) < i \/ a = <<>> THEN default ELSE IF Len(a) = i THEN 0 ELSE a[i + 1]
P0(a, i) == PD(a, i, 0)
P1(a, i) == IF P0(a, i) = 0 THEN 1 ELSE P0(a, i)

-----------------------------------------------------------------------------
(* COMMONVARS of the current screen. *)
Scr(m)  == m.scr[m.s]
Win(m)  == Scr(m).win
Tos(m)  == Scr(m).tos
Py(m)   == Win(m).y
X(m)    == Win(m).x
Y(m)    == Py(m) - Tos(m)
My(m)   == Win(m).rows - Tos(m)
Mx(m)   == Win(m).columns
Top(m)  == IF Win(m).top <= Tos(m) THEN 0 ELSE Win(m).top - Tos(m)
Bot(m)  == Win(m).bot + 1 - Tos(m)

SetWin(m, win) == [m EXCEPT !.scr[m.s].win = win]
Move(m, y, x)  == SetWin(m, wmove(Win(m), y, x))
Scroll(m, k)   == SetWin(m, wscrl(Win(m), k))
NoWrap(m)      == [m EXCEPT !.scr[m.s].xenl = FALSE]

(* Every handler but print forgets the character to repeat. *)
Done(m) == [m EXCEPT !.repc = FALSE]

(* f applied k times to m. *)
Repeated(f(_), m, k) ==
    LET r[i \in 0 .. k] == IF i = 0 THEN m ELSE f(r[i - 1]) IN r[k]

-----------------------------------------------------------------------------
(* Moving the cursor. *)
cup_ignores_tos(m, a) ==  \* mutation: rows counted from the top of the pad
    Done(Move(NoWrap(m), (IF m.decom THEN Top(m) ELSE 0) + P1(a, 0) - 1, P1(a, 1) - 1))
cup(m, a) ==
    Done(Move(NoWrap(m), Tos(m) + (IF m.decom THEN Top(m) ELSE 0) + P1(a, 0) - 1,
              P1(a, 1) - 1))
cuu(m, a) == Done(Move(m, Largest(Py(m) - P1(a, 0), Tos(m) + Top(m)), X(m)))
cud(m, a) == Done(Move(m, Least(Py(m) + P1(a, 0), Tos(m) + Bot(m) - 1), X(m)))
cuf(m, a) == Done(Move(m, Py(m), Least(X(m) + P1(a, 0), Mx(m) - 1)))
cub(m, a) == Done(Move(NoWrap(m), Py(m), Largest(X(m) - P1(a, 0), 0)))
hpa(m, a) == Done(Move(m, Py(m), Least(P1(a, 0) - 1, Mx(m) - 1)))
hpr(m, a) == Done(Move(m, Py(m), Least(X(m) + P1(a, 0), Mx(m) - 1)))
InRegion(m, y) == Least(Tos(m) + Bot(m) - 1, Largest(Tos(m) + Top(m), y))
vpa(m, a) == Done(Move(m, InRegion(m, Tos(m) + P1(a, 0) - 1), X(m)))
vpr(m, a) == Done(Move(m, InRegion(m, Py(m) + P1(a, 0)), X(m)))
cpl(m, a) == Done(Move(m, Largest(Tos(m) + Top(m), Py(m) - P1(a, 0)), 0))
cnl(m, a) == Done(Move(m, Least(Tos(m) + Bot(m) - 1, Py(m) + P1(a, 0)), 0))
cr(m)     == Done(Move(NoWrap(m), Py(m), 0))

(* Tab stops are columns below w: ntabs is w. *)
LastBefore(T, x) == {i \in T : i < x /\ \A j \in T : j < x => j <= i}
FirstAfter(T, x) == {i \in T : i > x /\ \A j \in T : j > x => i <= j}
ht(m) ==
    LET stop == FirstAfter(m.tabs, X(m)) IN
    Done(Move(m, Py(m), IF stop = {} THEN Mx(m) - 1 ELSE CHOOSE i \in stop : TRUE))
cbt(m) ==
    LET stop == IF X(m) - 1 < m.w THEN LastBefore(m.tabs, X(m)) ELSE {} IN
    Done(Move(m, Py(m), IF stop = {} THEN 0 ELSE CHOOSE i \in stop : TRUE))
tab(m, a, w) ==
    LET step(k) == IF w = "Z" THEN cbt(k) ELSE ht(k) IN Done(Repeated(step, m, P1(a, 0)))
hts(m) == Done([m EXCEPT !.tabs = IF X(m) < m.w /\ X(m) > 0 THEN @ \cup {X(m)} ELSE @])
tbc(m, a) ==
    LET here == IF X(m) < m.w THEN X(m) ELSE 0
        cleared == CASE P0(a, 0) = 0 -> {here} [] P0(a, 0) = 3 -> m.tabs [] OTHER -> {} IN
    Done([m EXCEPT !.tabs = @ \ cleared])

-----------------------------------------------------------------------------
(* Scrolling. *)
ind(m) == Done(IF Y(m) = Bot(m) - 1 THEN Scroll(m, 1) ELSE Move(m, Py(m) + 1, X(m)))
nel(m) == Done(ind(cr(m)))
pnl(m) == Done(IF m.lnm THEN nel(m) ELSE ind(m))
su(m, a, w) == Done(Scroll(m, IF w = "T" THEN -P1(a, 0) ELSE P1(a, 0)))

(* Scroll by k within rows top to bot, whatever the region is. *)
ScrollWithin(m, top, bot, k) ==
    LET win == wscrl(wsetscrreg(Win(m), top, bot), k) IN
    SetWin(m, wsetscrreg(win, Win(m).top, Win(m).bot))

ri(m) ==
    Done(IF Y(m) = Top(m)
         THEN ScrollWithin(m, Largest(Win(m).top, Tos(m)), Win(m).bot, -1)
         ELSE Move(m, Largest(Tos(m), Py(m) - 1), X(m)))

idl_region(m, a, w) ==  \* mutation: the whole region scrolls
    LET p1 == Least(P1(a, 0), (My(m) - 1) - Y(m)) IN
    Done(Move(Scroll(m, IF w = "L" THEN -p1 ELSE p1), Py(m), 0))
idl(m, a, w) ==
    LET p1 == Least(P1(a, 0), (My(m) - 1) - Y(m))
        scrolled == ScrollWithin(m, Py(m), Win(m).bot, IF w = "L" THEN -p1 ELSE p1) IN
    Done(Move(scrolled, Py(m), 0))

csr(m, a) ==
    LET top == Tos(m) + P1(a, 0) - 1
        bot == Tos(m) + PD(a, 1, My(m)) - 1 IN
    IF RegionFits(Win(m), top, bot)
    THEN Done(cup(SetWin(m, wsetscrreg(Win(m), top, bot)), <<>>))
    ELSE Done(m)

-----------------------------------------------------------------------------
(* Colours.  mtm_alloc_pair gives (fg, bg) the number of its curses pair,  *)
(* taking the next one on first use; -1 is the terminal's own colour.      *)
(* AllocPair is the table after the call, PairOf the number returned.      *)
FindPair(pairs, c) == {i \in 1 .. Len(pairs) : pairs[i] = c}
NoPair(pairs, c) ==
    \/ c[1] >= COLOR_MAX \/ c[2] >= COLOR_MAX
    \/ FindPair(pairs, c) = {} /\ Len(pairs) >= MaxPairs
AllocPair(pairs, c) ==
    IF NoPair(pairs, c) \/ FindPair(pairs, c) # {} THEN pairs ELSE Append(pairs, c)
PairOf(pairs, c) ==
    IF NoPair(pairs, c) THEN -1 ELSE CHOOSE i \in FindPair(AllocPair(pairs, c), c) : TRUE

Colours(m) == <<Scr(m).fg, Scr(m).bg>>
AllocColours(m) == [m EXCEPT !.pairs = AllocPair(@, Colours(m))]
wcolor_set(m, p) == IF p < 0 THEN m ELSE [m EXCEPT !.scr[m.s].pair = p]
SetColours(m, fg, bg) ==
    LET k == [m EXCEPT !.scr[m.s].fg = fg, !.scr[m.s].bg = bg] IN
    wcolor_set(AllocColours(k), PairOf(k.pairs, <<fg, bg>>))

sgr0(m) == Done(wcolor_set([m EXCEPT !.scr[m.s].fg = -1, !.scr[m.s].bg = -1], 0))

(* The loop over the arguments.  fg and bg are copies taken before it: an  *)
(* argument 0 resets the colours of the screen but not the copies, so that *)
(* a later colour in the same sequence brings the old ones back.           *)
SgrArgument(r, a, i) ==
    LET code == P0(a, i)
        indexed(old) == IF P0(a, i + 1) = 5 THEN P0(a, i + 2) ELSE old
        fg(c) == [r EXCEPT !.fg = c, !.doc = TRUE]
        bg(c) == [r EXCEPT !.bg = c, !.doc = TRUE] IN
    CASE r.skip > 0 -> [r EXCEPT !.skip = @ - 1]
      [] r.skip = 0 /\ code = 0 -> [r EXCEPT !.m = sgr0(@)]
      [] r.skip = 0 /\ code \in 30 .. 37 -> fg(code - 30)
      [] r.skip = 0 /\ code \in 90 .. 97 -> fg(code - 90)
      [] r.skip = 0 /\ code \in 40 .. 47 -> bg(code - 40)
      [] r.skip = 0 /\ code \in 100 .. 107 -> bg(code - 100)
      [] r.skip = 0 /\ code = 38 -> [fg(indexed(Scr(r.m).fg)) EXCEPT !.skip = 2]
      [] r.skip = 0 /\ code = 48 -> [bg(indexed(Scr(r.m).bg)) EXCEPT !.skip = 2]
      [] r.skip = 0 /\ code = 39 -> fg(-1)
      [] r.skip = 0 /\ code = 49 -> bg(-1)
      [] OTHER -> r

sgr(m, a) ==
    LET k == IF a = <<>> THEN sgr0(m) ELSE m
        loop[i \in 0 .. Len(a)] ==
            IF i = 0
            THEN [m |-> k, fg |-> Scr(k).fg, bg |-> Scr(k).bg, doc |-> FALSE, skip |-> 0]
            ELSE SgrArgument(loop[i - 1], a, i - 1)
        end == loop[Len(a)] IN
    IF end.doc THEN SetColours(end.m, end.fg, end.bg) ELSE end.m

-----------------------------------------------------------------------------
(* Erasing and printing. *)
el(m, a) ==
    LET erased ==
        CASE P0(a, 0) = 0 -> wclrtoeol(Win(m))
          [] P0(a, 0) = 2 -> wclrtoeol(wmove(Win(m), Py(m), 0))
          [] OTHER -> Win(m) IN
    Done(Move(SetWin(AllocColours(m), erased), Py(m), X(m)))

ed(m, a) ==
    LET above == {r \in Win(m).text : Tos(m) <= r /\ r < Py(m)}
        erased ==
        CASE P0(a, 0) = 0 -> wclrtobot(Win(m))
          [] P0(a, 0) = 1 -> [Win(m) EXCEPT !.text = @ \ above]
          [] P0(a, 0) = 2 -> wclrtobot(wmove(Win(m), Tos(m), 0))
          [] P0(a, 0) = 3 -> werase(Win(m))
          [] OTHER -> Win(m) IN
    Done(Move(SetWin(IF P0(a, 0) = 1 THEN AllocColours(m) ELSE m, erased), Py(m), X(m)))

decaln(m) ==
    LET screen == Tos(m) .. (Win(m).rows - 1) IN
    Done([m EXCEPT !.scr[m.s].win.text = @ \cup screen])

(* ech overwrites with blanks and dch and ich shift: the row may hold text *)
(* afterwards exactly if it did, since blanks are none.                    *)
ich(m) == Done(m)
dch(m) == Done(m)
ech(m) == Done(AllocColours(m))

(* ich comes before the pending break is taken: in insert mode it shifts   *)
(* the row that was just filled and pushes its last character off.  Which  *)
(* columns of a row hold text is not kept here, so this loss is not seen.  *)
print_at_once(m) ==  \* mutation: the line breaks when its last column is written
    LET put == SetWin(m, waddnwstr(Win(m))) IN
    [IF X(m) = Mx(m) - 1 THEN nel(SetWin(m, wins_nwstr(Win(m)))) ELSE put EXCEPT !.repc = TRUE]
print(m) ==
    LET k == IF Scr(m).insert THEN ich(m) ELSE m
        wrapped == IF Scr(k).xenl THEN (IF k.am THEN nel(NoWrap(k)) ELSE NoWrap(k)) ELSE k
        put == IF X(wrapped) = Mx(wrapped) - 1
               THEN [SetWin(wrapped, wins_nwstr(Win(wrapped))) EXCEPT !.scr[m.s].xenl = TRUE]
               ELSE SetWin(wrapped, waddnwstr(Win(wrapped))) IN
    [put EXCEPT !.repc = TRUE]

rep(m, a) ==
    Done(IF m.repc THEN Repeated(print, m, P1(a, 0)) ELSE m)

-----------------------------------------------------------------------------
(* Saving the cursor, the two screens, and modes. *)
sc(m) ==
    Done([m EXCEPT !.scr[m.s] =
        [@ EXCEPT !.sx = X(m), !.sy = Py(m), !.sfg = Scr(m).fg, !.sbg = Scr(m).bg,
                  !.sp = Scr(m).pair, !.oxenl = Scr(m).xenl, !.saved = TRUE]])
rc_wrong_colours(m) ==  \* mutation: only the window gets its colours back
    IF ~Scr(m).saved THEN m
    ELSE Done([wcolor_set(Move(m, Scr(m).sy, Scr(m).sx), Scr(m).sp)
                  EXCEPT !.scr[m.s].xenl = Scr(m).oxenl])
rc(m) ==
    IF ~Scr(m).saved THEN m
    ELSE LET back == [wcolor_set(Move(m, Scr(m).sy, Scr(m).sx), Scr(m).sp)
                         EXCEPT !.scr[m.s].xenl = Scr(m).oxenl] IN
         Done(SetColours(back, Scr(m).sfg, Scr(m).sbg))

cls(m) == LET home == cup(m, <<>>) IN Done(cup(SetWin(home, wclrtobot(Win(home))), <<>>))

InitialTabs(w) == {i \in 0 .. (w - 1) : i % TabStop = 0}

(* wsetscrreg of both windows as a reset and a reshape do it. *)
FullRegions(m) ==
    [m EXCEPT !.scr["pri"].win = wsetscrreg(@, 0, Largest(SCROLLBACK, m.h) - 1),
              !.scr["alt"].win = wsetscrreg(@, 0, m.h - 1)]

ris(m) ==
    LET cleared == cls([m EXCEPT !.decom = FALSE, !.lnm = FALSE, !.scr[m.s].insert = FALSE,
                                 !.scr[m.s].oxenl = FALSE, !.scr[m.s].xenl = FALSE]) IN
    Done([FullRegions(sgr0(cleared)) EXCEPT !.am = TRUE, !.s = "pri", !.tabs = InitialTabs(m.w)])

ToAlt_cls_first(m) ==  \* mutation: the screen that is left is cleared
    IF m.s # "alt" THEN [cls(m) EXCEPT !.s = "alt"] ELSE m
ToAlt(m) == IF m.s # "alt" THEN cls([m EXCEPT !.s = "alt"]) ELSE m
ToPri(m) == [m EXCEPT !.s = "pri"]

(* One argument of mode; s is the screen that was current when mode was    *)
(* called, which an earlier argument may have left.                        *)
SetMode(m, s, code, set) ==
    LET saved == IF set THEN sc(m) ELSE rc(m)
        switched(k) == IF set THEN ToAlt(k) ELSE ToPri(k) IN
    CASE code = 3 -> cls(m)
      [] code = 4 -> [m EXCEPT !.scr[s].insert = set]
      [] code = 6 -> cup([m EXCEPT !.decom = set], <<>>)
      [] code = 7 -> [m EXCEPT !.am = set]
      [] code = 20 -> [m EXCEPT !.lnm = set]
      [] code = 1048 -> saved
      [] code = 1049 -> switched(saved)
      [] code \in {47, 1047} -> switched(m)
      [] OTHER -> m

mode(m, a, set) ==
    LET r[i \in 0 .. Len(a)] == IF i = 0 THEN m ELSE SetMode(r[i - 1], m.s, a[i], set)
    IN  Done(r[Len(a)])

-----------------------------------------------------------------------------
(* Reshaping, scrolling back and drawing. *)

(* The sizes are given to the windows and what depends on them. *)
Resized(m, rows, columns) ==
    LET pri == m.scr["pri"]
        alt == m.scr["alt"]
        top == Largest(0, SCROLLBACK - rows) IN
    [m EXCEPT
        !.scr["pri"] = [pri EXCEPT
            !.win = wresize(@, Largest(rows, SCROLLBACK), Largest(columns, 2)),
            !.tos = top, !.off = top],
        !.scr["alt"] = [alt EXCEPT
            !.win = wresize(@, Largest(rows, 2), Largest(columns, 2)), !.tos = 0, !.off = 0],
        !.h = rows, !.w = columns,
        !.tabs = {i \in @ : i < columns} \cup (InitialTabs(columns) \ (0 .. (m.w - 1)))]

reshapeview_keeps_region(m, d, rows, columns) ==  \* mutation: no reset before the scroll
    LET resized == Resized(m, rows, columns) IN
    IF d > 0 THEN Scroll(Move(resized, Py(m) + d, X(m)), -d) ELSE resized
reshapeview(m, d, rows, columns) ==
    LET resized == FullRegions(Resized(m, rows, columns)) IN
    IF d > 0 THEN Scroll(Move(resized, Py(m) + d, X(m)), -d) ELSE resized

(* reshape asks for h rows, which may be 0, and w columns.  The rows to    *)
(* scroll by are counted with h, not with the height the view then gets.   *)
reshape(m, h, w) == reshapeview(m, m.h - h, Largest(h, 1), Largest(w, 1))

(* In full screen a view gets all lines but the last of the terminal.  A   *)
(* root is asked to take just those, as outside full screen; of a child    *)
(* reshapechildren asks that it take all the h lines.                      *)
reshape_full(m, h, columns) == reshapeview(m, m.h - h, h - 1, columns)

SetOff(m, off) == [m EXCEPT !.scr[m.s].off = off]
scrollback(m)    == SetOff(m, Largest(0, Scr(m).off - m.h \div 2))
scrollforward(m) == SetOff(m, Least(Tos(m), Scr(m).off + m.h \div 2))
scrollbottom(m)  == SetOff(m, Tos(m))

(* The cursor of the focused view is brought into the screen before it is  *)
(* drawn.                                                                  *)
fixcursor(m) == Move(m, Least(Largest(Py(m), Tos(m)), Tos(m) + m.h - 1), X(m))

-----------------------------------------------------------------------------
NewScreen(rows, w, tos) ==
    [win |-> newpad(rows, w), tos |-> tos, off |-> tos, xenl |-> FALSE, oxenl |-> FALSE,
     saved |-> FALSE, sx |-> 0, sy |-> 0, insert |-> FALSE,
     fg |-> 0, bg |-> 0, sfg |-> 0, sbg |-> 0, pair |-> 0, sp |-> 0]

(* newview, of a view that newnode accepts. *)
Init ==
    \E h \in Heights \ {0, 1}, w \in Widths \ {0, 1} :
        n = ris([s |-> "pri", h |-> h, w |-> w, tabs |-> {}, repc |-> FALSE,
                 decom |-> FALSE, am |-> FALSE, lnm |-> FALSE, pairs |-> <<>>,
                 scr |-> [pri |-> NewScreen(Largest(h, SCROLLBACK), w, Largest(0, SCROLLBACK - h)),
                          alt |-> NewScreen(h, w, 0)]])

AllHandlers ==
    {"cup", "cuu", "cud", "cuf", "cub", "hpa", "hpr", "vpa", "vpr", "cpl", "cnl", "cr",
     "tab", "hts", "tbc", "ind", "nel", "pnl", "su", "ri", "idl", "csr", "el", "ed",
     "decaln", "ich", "dch", "ech", "print", "rep", "sc", "rc", "ris", "mode", "sgr"}

Calls(h, m) == h \in Handlers /\ n' = m

Motion ==
    \/ \E a \in Places : Calls("cup", cup(n, a))
    \/ \E a \in Counts :
        \/ Calls("cuu", cuu(n, a))
        \/ Calls("cud", cud(n, a))
        \/ Calls("cuf", cuf(n, a))
        \/ Calls("cub", cub(n, a))
        \/ Calls("hpa", hpa(n, a))
        \/ Calls("hpr", hpr(n, a))
        \/ Calls("vpa", vpa(n, a))
        \/ Calls("vpr", vpr(n, a))
        \/ Calls("cpl", cpl(n, a))
        \/ Calls("cnl", cnl(n, a))
        \/ Calls("cr", cr(n))

Tabs ==
    \E a \in Counts :
        \/ \E w \in {"I", "Z"} : Calls("tab", tab(n, a, w))
        \/ Calls("hts", hts(n))
        \/ Calls("tbc", tbc(n, a))

Index == Calls("ind", ind(n)) \/ Calls("nel", nel(n)) \/ Calls("pnl", pnl(n))
ReverseIndex == Calls("ri", ri(n))
InsertLines == \E a \in Counts, w \in {"L", "M"} : Calls("idl", idl(n, a, w))
ScrollUp == \E a \in Counts, w \in {"S", "T"} : Calls("su", su(n, a, w))
SetRegion == \E a \in Places : Calls("csr", csr(n, a))

Erase ==
    \E a \in Counts :
        \/ Calls("el", el(n, a))
        \/ Calls("ed", ed(n, a))
        \/ Calls("decaln", decaln(n))
        \/ Calls("ich", ich(n)) \/ Calls("dch", dch(n)) \/ Calls("ech", ech(n))

Printing == Calls("print", print(n)) \/ \E a \in Counts : Calls("rep", rep(n, a))

Save == Calls("sc", sc(n)) \/ Calls("rc", rc(n))
Rendition == \E a \in Renditions : Calls("sgr", sgr(n, a))
Reset == Calls("ris", ris(n))
Mode == \E a \in Modes, set \in BOOLEAN : Calls("mode", mode(n, a, set))

(* A reshape to the same size happens too, when only the place changes. *)
ReshapeTo(h) ==
    \/ h \in Heights /\ \E w \in Widths : n' = reshape(n, h, w)
    \/ h - 1 \in Heights \ {0} /\ \E columns \in Widths \ {0} : n' = reshape_full(n, h, columns)
Asked == Heights \cup {k + 1 : k \in Heights}
Reshape == \E h \in Asked : ReshapeTo(h)

Keys == n' = scrollback(n) \/ n' = scrollforward(n) \/ n' = scrollbottom(n)
Draw == n' = fixcursor(n)

Next == \/ Motion \/ Tabs \/ Index \/ ReverseIndex \/ InsertLines \/ ScrollUp \/ SetRegion
        \/ Erase \/ Printing \/ Save \/ Rendition \/ Reset \/ Mode \/ Reshape \/ Keys \/ Draw

Spec == Init /\ [][Next]_n

-----------------------------------------------------------------------------
(* Properties. *)
Screens == {"pri", "alt"}

(* Cursor, region and saved text lie in their windows, the view into the   *)
(* scroll-back lies in the pad, and tab stops on the line.                 *)
TypeOK ==
    /\ n.s \in Screens /\ n.h \in Nat \ {0} /\ n.w \in Nat \ {0}
    /\ n.tabs \subseteq 0 .. (n.w - 1)
    /\ {n.repc, n.decom, n.am, n.lnm} \subseteq BOOLEAN
    /\ \A s \in Screens :
        LET k == n.scr[s]
            win == k.win IN
        /\ win.rows = (IF s = "pri" THEN Largest(n.h, SCROLLBACK) ELSE Largest(n.h, 2))
        /\ win.columns = Largest(n.w, 2)
        /\ k.tos + (IF s = "pri" THEN n.h ELSE win.rows) = win.rows
        /\ k.off \in 0 .. k.tos
        /\ win.y \in 0 .. (win.rows - 1) /\ win.x \in 0 .. (win.columns - 1)
        /\ 0 <= win.top /\ win.top <= win.bot /\ win.bot < win.rows
        /\ win.text \subseteq 0 .. (win.rows - 1)
        /\ {k.xenl, k.oxenl, k.saved, k.insert} \subseteq BOOLEAN
        /\ k.sy \in Nat /\ k.sx \in Nat
        /\ {k.fg, k.bg, k.sfg, k.sbg} \subseteq Nat \cup {-1}
        /\ {k.pair, k.sp} \subseteq 0 .. Len(n.pairs)

(* The cursor and the saved cursor of a screen are below the scroll-back,  *)
(* where what is printed can be seen.                                      *)
OnScreen(m, s) ==
    LET k == m.scr[s] IN k.win.y >= k.tos /\ (k.saved => k.sy >= k.tos)

(* Only a view that loses rows can leave a cursor in the scroll-back: no   *)
(* handler moves it there from the screen, in any mode and region.         *)
CursorStaysOnScreen ==
    [][\A s \in Screens : OnScreen(n, s) /\ ~OnScreen(n', s) => n'.h < n.h]_n

(* A program that asks where the cursor is and sends the answer back with  *)
(* CUP finds the cursor where it was, in origin mode too; dsr and cup      *)
(* count from the same row.  The windows are as TypeOK says.               *)
ReportedRow(m) == (IF m.decom THEN Y(m) - Top(m) ELSE Y(m)) + 1
ReportReturns ==
    /\ TypeOK
    /\ ReportedRow(n) >= 1 =>
          LET m == cup(n, <<ReportedRow(n), X(n) + 1>>) IN Py(m) = Py(n) /\ X(m) = X(n)

OutsideInsert(m) == {r \in 0 .. (Win(m).rows - 1) : r < Py(m) \/ r > Win(m).bot}
ScrolledBack(m) == 0 .. (Tos(m) - 1)
Changed(S) == Win(n').text # Win(n).text /\ Win(n').text \cap S # Win(n).text \cap S

(* Inserting and deleting lines above the bottom margin leaves the lines   *)
(* above the cursor and below the margin alone; reverse index leaves what  *)
(* is above the screen alone, if two rows of the region are on the screen. *)
LinesStay ==
    [][ /\ (Y(n) < Bot(n) - 1 /\ Changed(OutsideInsert(n))) => ~InsertLines
        /\ (Y(n) >= 0 /\ Top(n) < Bot(n) - 1 /\ Changed(ScrolledBack(n))) => ~ReverseIndex ]_n

(* A full-screen program leaves no trace: entering and leaving the         *)
(* alternate screen, and all it does there, keep the text and the cursor   *)
(* of the primary screen unless the view changes its size (modes 1049, 47).*)
PrimaryKept ==
    [][ ("alt" \in {n.s, n'.s} /\ n'.h = n.h /\ n'.w = n.w)
        => LET before == n.scr["pri"].win
               after == n'.scr["pri"].win
           IN  after.text = before.text /\ after.y = before.y /\ after.x = before.x ]_n

(* The alternate screen comes up blank with the cursor in the corner,      *)
(* whatever it held, unless origin mode keeps the cursor below a margin.   *)
AlternateBlank ==
    [][(n.s = "pri" /\ n'.s = "alt" /\ ~n.decom)
           => Win(n').text = {} /\ Py(n') = 0 /\ X(n') = 0]_n

(* What is printed appears in the colours the program asked for last: the  *)
(* pair the window draws with shows fg and bg, across resets, saves and    *)
(* restores, unless no pair was to be had.  (calloc leaves the colours of  *)
(* the alternate screen at 0, black, although it starts with pair 0.)      *)
ColoursShown ==
    \A s \in Screens :
        LET k == n.scr[s]
            asked == <<k.fg, k.bg>>
            shown == IF k.pair = 0 THEN <<-1, -1>> ELSE n.pairs[k.pair] IN
        \/ shown = asked
        \/ NoPair(n.pairs, asked)
        \/ s = "alt" /\ k.pair = 0 /\ asked = <<0, 0>>

(* Where the next character of a line goes: beyond the last column while   *)
(* the line break is pending.                                              *)
Column(m) == X(m) + (IF Scr(m).xenl THEN 1 ELSE 0)

(* Automatic margins: a printed character takes the next column, and after *)
(* the last column the first of the next line: a line is filled to its     *)
(* last column before the break comes.  This is about where a character    *)
(* is put, not about what becomes of those before it (see print).  (A      *)
(* motion other than cup, cub and cr keeps the break pending: then X is    *)
(* not the last.)                                                          *)
LineFills ==
    [][ (n.am /\ (Scr(n).xenl => X(n) = Mx(n) - 1) /\ n' # n /\ n' = print(n))
        => IF Column(n) < Mx(n)
           THEN Py(n') = Py(n) /\ Column(n') = Column(n) + 1
           ELSE /\ Column(n') = 1
                /\ Py(n') = Py(n) + 1 \/ Y(n) = Bot(n) - 1 \/ Py(n) = Win(n).rows - 1 ]_n

(* A view on its primary screen that loses rows and gets those it was      *)
(* asked to take keeps its top line, and those below it as far as there is *)
(* room ("make sure the new top line syncs up after reshape").  Asked for  *)
(* none it gets one, and shows the line above its old top; in full screen, *)
(* asked for one more than it gets, it loses its top line to the           *)
(* scroll-back.  No line is lost or comes twice in any case: row r shows   *)
(* what was as many rows further down as were asked for and not given.     *)
TopLineStays ==
    [][ (n.s = "pri" /\ n'.h < n.h /\ n.h <= SCROLLBACK)
        => \A h \in Asked : ReshapeTo(h) =>
              \A r \in 0 .. (n'.h - 1) :
                 (Tos(n) + r + (h - n'.h) \in Win(n).text) = (Tos(n') + r \in Win(n').text) ]_n
=============================================================================
