----------------------------- MODULE ScreenProofs -----------------------------
(***************************************************************************)
(* Proofs about the terminal of a view, for every size of the scroll-back, *)
(* every height and width, all arguments and every number of colour pairs. *)
(***************************************************************************)
EXTENDS Screen, Loops, SequenceTheorems, TLAPS

Colour == Nat \cup {-1}
WindowRecord ==
    [rows : Nat, columns : Nat, y : Nat, x : Nat, top : Nat, bot : Nat, text : SUBSET Nat]
ScreenRecord ==
    [win : WindowRecord, tos : Nat, off : Nat, xenl : BOOLEAN, oxenl : BOOLEAN,
     saved : BOOLEAN, sx : Nat, sy : Nat, insert : BOOLEAN,
     fg : Colour, bg : Colour, sfg : Colour, sbg : Colour, pair : Nat, sp : Nat]
NodeRecord ==
    [s : Screens, h : Nat, w : Nat, tabs : SUBSET Nat, repc : BOOLEAN, decom : BOOLEAN,
     am : BOOLEAN, lnm : BOOLEAN, pairs : Seq(Colour \X Colour),
     scr : [Screens -> ScreenRecord]]

(* What the window and the screen record of a view of h x w hold. *)
WindowFits(win, rows, columns) ==
    /\ win.rows = rows /\ win.columns = columns
    /\ win.y < rows /\ win.x < columns
    /\ win.top <= win.bot /\ win.bot < rows
    /\ win.text \subseteq 0 .. (rows - 1)
Rows(h, s) == IF s = "pri" THEN Largest(h, SCROLLBACK) ELSE Largest(h, 2)
TopOfScreen(h, s) == IF s = "pri" THEN Rows(h, s) - h ELSE 0
ScreenFits(k, s, h, w) ==
    /\ WindowFits(k.win, Rows(h, s), Largest(w, 2))
    /\ k.tos = TopOfScreen(h, s) /\ k.off <= k.tos /\ k.tos <= k.win.bot

(* The pair the window draws with shows the colours asked for, or no pair  *)
(* is left for them; only what calloc leaves is exempt (fg and bg 0).      *)
Drawn(k, pairs) ==
    LET asked == <<k.fg, k.bg>>
        shown == IF k.pair = 0 THEN <<-1, -1>> ELSE pairs[k.pair] IN
    shown = asked \/ NoPair(pairs, asked)
Painted(k, pairs) ==
    /\ k.pair <= Len(pairs) /\ k.sp <= Len(pairs)
    /\ Drawn(k, pairs) \/ (k.pair = 0 /\ k.fg = 0 /\ k.bg = 0)

NodeInv(m) ==
    /\ m \in NodeRecord
    /\ m.h # 0 /\ m.w # 0 /\ m.tabs \subseteq 0 .. (m.w - 1)
    /\ \A s \in Screens : ScreenFits(m.scr[s], s, m.h, m.w) /\ Painted(m.scr[s], m.pairs)

-----------------------------------------------------------------------------
(* Nodes and their screens. *)

LEMMA NodeFields ==
    ASSUME NEW m \in NodeRecord
    PROVE  /\ m.s \in Screens /\ m.h \in Nat /\ m.w \in Nat /\ m.tabs \in SUBSET Nat
           /\ m.repc \in BOOLEAN /\ m.decom \in BOOLEAN /\ m.am \in BOOLEAN /\ m.lnm \in BOOLEAN
           /\ m.pairs \in Seq(Colour \X Colour)
           /\ m.scr \in [Screens -> ScreenRecord] /\ Scr(m) \in ScreenRecord
           /\ Scr(m) = m.scr[m.s] /\ Win(m) = Scr(m).win
           /\ \A s \in Screens : m.scr[s] \in ScreenRecord
<1>1. /\ m.s \in Screens /\ m.h \in Nat /\ m.w \in Nat /\ m.tabs \in SUBSET Nat
      /\ m.repc \in BOOLEAN /\ m.decom \in BOOLEAN /\ m.am \in BOOLEAN /\ m.lnm \in BOOLEAN
      /\ m.pairs \in Seq(Colour \X Colour) /\ m.scr \in [Screens -> ScreenRecord]
  <2> HIDE DEF ScreenRecord, Colour
  <2> QED BY DEF NodeRecord
<1> HIDE DEF ScreenRecord, Colour
<1> QED BY <1>1 DEF Scr, Win

LEMMA ScreenFields ==
    ASSUME NEW k \in ScreenRecord
    PROVE  /\ k.win \in WindowRecord /\ k.tos \in Nat /\ k.off \in Nat /\ k.xenl \in BOOLEAN
           /\ k.oxenl \in BOOLEAN /\ k.saved \in BOOLEAN /\ k.insert \in BOOLEAN
           /\ k.sx \in Nat /\ k.sy \in Nat /\ k.fg \in Colour /\ k.bg \in Colour
           /\ k.sfg \in Colour /\ k.sbg \in Colour /\ k.pair \in Nat /\ k.sp \in Nat
<1> HIDE DEF WindowRecord, Colour
<1> QED BY DEF ScreenRecord

LEMMA WindowFields ==
    ASSUME NEW win \in WindowRecord
    PROVE  /\ win.rows \in Nat /\ win.columns \in Nat /\ win.y \in Nat /\ win.x \in Nat
           /\ win.top \in Nat /\ win.bot \in Nat /\ win.text \in SUBSET Nat
BY DEF WindowRecord

(* The node after one of its screens was replaced. *)
Put(m, s, k) == [m EXCEPT !.scr[s] = k]

LEMMA PutNode ==
    ASSUME NEW m \in NodeRecord, NEW s \in Screens, NEW k \in ScreenRecord
    PROVE  /\ Put(m, s, k) \in NodeRecord
           /\ Put(m, s, k).scr[s] = k
           /\ \A t \in Screens \ {s} : Put(m, s, k).scr[t] = m.scr[t]
           /\ Put(m, s, k).s = m.s /\ Put(m, s, k).h = m.h /\ Put(m, s, k).w = m.w
           /\ Put(m, s, k).tabs = m.tabs /\ Put(m, s, k).repc = m.repc
           /\ Put(m, s, k).decom = m.decom /\ Put(m, s, k).am = m.am
           /\ Put(m, s, k).lnm = m.lnm /\ Put(m, s, k).pairs = m.pairs
<1> HIDE DEF ScreenRecord, Colour
<1> DEFINE f == [m.scr EXCEPT ![s] = k]
<1>1. f \in [Screens -> ScreenRecord] /\ f[s] = k /\ \A t \in Screens \ {s} : f[t] = m.scr[t]
  BY DEF NodeRecord
<1>2. Put(m, s, k) = [m EXCEPT !.scr = f]
  BY DEF Put
<1> HIDE DEF f
<1> QED BY <1>1, <1>2 DEF NodeRecord

(* The numbers the handlers work with. *)
LEMMA NodeNumbers ==
    ASSUME NEW m, NodeInv(m)
    PROVE  /\ m.h \in Nat /\ m.w \in Nat /\ Win(m) \in WindowRecord
           /\ Tos(m) \in Nat /\ Py(m) \in Nat /\ X(m) \in Nat
           /\ Y(m) = Py(m) - Tos(m) /\ My(m) = Win(m).rows - Tos(m) /\ Mx(m) = Win(m).columns
           /\ Win(m).rows \in Nat /\ Win(m).columns \in Nat
           /\ Win(m).top \in Nat /\ Win(m).bot \in Nat
           /\ Py(m) < Win(m).rows /\ X(m) < Win(m).columns
           /\ Win(m).top <= Win(m).bot /\ Win(m).bot < Win(m).rows
           /\ Tos(m) <= Win(m).bot
           /\ Top(m) \in Nat /\ Tos(m) + Top(m) <= Win(m).bot
           /\ Top(m) = (IF Win(m).top <= Tos(m) THEN 0 ELSE Win(m).top - Tos(m))
           /\ Bot(m) \in Nat /\ Bot(m) = Win(m).bot + 1 - Tos(m)
           /\ Win(m).columns = Largest(m.w, 2) /\ Win(m).columns >= 2
           /\ Win(m).rows = Rows(m.h, m.s) /\ Tos(m) = TopOfScreen(m.h, m.s)
           /\ Win(m).text \subseteq 0 .. (Win(m).rows - 1)
<1>1. m \in NodeRecord
  BY DEF NodeInv
<1>2. /\ m.s \in Screens /\ m.h \in Nat /\ m.w \in Nat /\ Scr(m) \in ScreenRecord
      /\ Scr(m) = m.scr[m.s] /\ Win(m) = Scr(m).win
  BY <1>1, NodeFields
<1>3. /\ Win(m) \in WindowRecord /\ Scr(m).tos \in Nat
  BY <1>2, ScreenFields
<1>4. /\ Win(m).rows \in Nat /\ Win(m).columns \in Nat /\ Win(m).y \in Nat /\ Win(m).x \in Nat
      /\ Win(m).top \in Nat /\ Win(m).bot \in Nat
  BY <1>3, WindowFields
<1>5. ScreenFits(Scr(m), m.s, m.h, m.w)
  BY <1>2 DEF NodeInv
<1>6. /\ WindowFits(Win(m), Rows(m.h, m.s), Largest(m.w, 2))
      /\ Tos(m) = TopOfScreen(m.h, m.s) /\ Tos(m) <= Win(m).bot /\ Tos(m) = Scr(m).tos
  BY <1>2, <1>5 DEF ScreenFits, Tos
<1>7. Py(m) = Win(m).y /\ X(m) = Win(m).x
  BY DEF Py, X
<1>8. /\ Top(m) = (IF Win(m).top <= Tos(m) THEN 0 ELSE Win(m).top - Tos(m))
      /\ Bot(m) = Win(m).bot + 1 - Tos(m)
  BY DEF Top, Bot
<1>9. Largest(m.w, 2) >= 2
  BY <1>2 DEF Largest
<1>10. Y(m) = Py(m) - Tos(m) /\ My(m) = Win(m).rows - Tos(m) /\ Mx(m) = Win(m).columns
  BY DEF Y, My, Mx
<1> QED BY <1>2, <1>3, <1>4, <1>6, <1>7, <1>8, <1>9, <1>10 DEF WindowFits

-----------------------------------------------------------------------------
(* What a handler does to the screen it works on: the view keeps its size, *)
(* the other screen is left alone and no cursor enters the scroll-back.    *)
Kept(m, k) ==
    /\ NodeInv(k)
    /\ k.h = m.h /\ k.w = m.w /\ k.s = m.s
    /\ \A s \in Screens \ {m.s} : k.scr[s] = m.scr[s]
    /\ \A s \in Screens :
        (OnScreen(m, s) => OnScreen(k, s)) /\ (Drawn(m.scr[s], m.pairs) => Drawn(k.scr[s], k.pairs))

LEMMA KeptSelf ==
    ASSUME NEW m, NodeInv(m)
    PROVE  Kept(m, m)
BY DEF Kept

LEMMA KeptTwice ==
    ASSUME NEW m, NEW k, NEW l, Kept(m, k), Kept(k, l)
    PROVE  Kept(m, l)
BY DEF Kept

(* A screen is replaced by one that fits. *)
LEMMA PutKept ==
    ASSUME NEW m, NodeInv(m), NEW k \in ScreenRecord,
           ScreenFits(k, m.s, m.h, m.w), Painted(k, m.pairs),
           Drawn(Scr(m), m.pairs) => Drawn(k, m.pairs),
           OnScreen(m, m.s) => (k.win.y >= k.tos /\ (k.saved => k.sy >= k.tos))
    PROVE  Kept(m, Put(m, m.s, k)) /\ Scr(Put(m, m.s, k)) = k
<1> DEFINE p == Put(m, m.s, k)
<1>1. m \in NodeRecord /\ m.s \in Screens
  BY NodeFields DEF NodeInv
<1>2. /\ p \in NodeRecord /\ p.scr[m.s] = k
      /\ \A t \in Screens \ {m.s} : p.scr[t] = m.scr[t]
      /\ p.s = m.s /\ p.h = m.h /\ p.w = m.w /\ p.tabs = m.tabs /\ p.pairs = m.pairs
  BY <1>1, PutNode
<1> HIDE DEF p
<1>3. NodeInv(p)
  BY <1>1, <1>2 DEF NodeInv
<1>4. \A s \in Screens :
        (OnScreen(m, s) => OnScreen(p, s)) /\ (Drawn(m.scr[s], m.pairs) => Drawn(p.scr[s], p.pairs))
  <2>1. \A s \in Screens : OnScreen(m, s) => OnScreen(p, s)
    BY <1>1, <1>2 DEF OnScreen
  <2>2. \A s \in Screens : Drawn(m.scr[s], m.pairs) => Drawn(p.scr[s], p.pairs)
    BY <1>1, <1>2 DEF Scr
  <2> QED BY <2>1, <2>2
<1>5. Scr(p) = k
  BY <1>2 DEF Scr
<1> QED BY <1>2, <1>3, <1>4, <1>5 DEF Kept, p
LEMMA SetWinKept ==
    ASSUME NEW m, NodeInv(m), NEW win \in WindowRecord,
           WindowFits(win, Win(m).rows, Win(m).columns), Tos(m) <= win.bot,
           win.y >= Tos(m) \/ win.y >= Py(m)
    PROVE  /\ Kept(m, SetWin(m, win))
           /\ Win(SetWin(m, win)) = win /\ Tos(SetWin(m, win)) = Tos(m)
           /\ Scr(SetWin(m, win)) = [Scr(m) EXCEPT !.win = win]
           /\ SetWin(m, win) = Put(m, m.s, [Scr(m) EXCEPT !.win = win])
<1> DEFINE k == [Scr(m) EXCEPT !.win = win]
<1>1. /\ m \in NodeRecord /\ m.s \in Screens /\ Scr(m) \in ScreenRecord
      /\ Scr(m) = m.scr[m.s] /\ Win(m) = Scr(m).win /\ m.scr \in [Screens -> ScreenRecord]
  BY NodeFields DEF NodeInv
<1>2. /\ k \in ScreenRecord /\ k.win = win /\ k.tos = Scr(m).tos /\ k.off = Scr(m).off
      /\ k.saved = Scr(m).saved /\ k.sy = Scr(m).sy /\ k.fg = Scr(m).fg /\ k.bg = Scr(m).bg
      /\ k.pair = Scr(m).pair /\ k.sp = Scr(m).sp
  <2> HIDE DEF WindowRecord, Colour
  <2> QED BY <1>1 DEF ScreenRecord
<1>3. SetWin(m, win) = Put(m, m.s, k)
  BY <1>1 DEF SetWin, Put, Scr
<1> HIDE DEF k
<1>4. Tos(m) = Scr(m).tos /\ Py(m) = Win(m).y /\ Tos(m) \in Nat /\ Py(m) \in Nat
  BY NodeNumbers DEF Tos, Py
<1>5. ScreenFits(k, m.s, m.h, m.w)
  <2>1. Win(m).rows = Rows(m.h, m.s) /\ Win(m).columns = Largest(m.w, 2)
    BY NodeNumbers
  <2>2. k.tos = TopOfScreen(m.h, m.s) /\ k.off <= k.tos
    BY <1>1, <1>2 DEF NodeInv, ScreenFits
  <2> QED BY <2>1, <2>2, <1>2, <1>4 DEF ScreenFits
<1>6. Painted(k, m.pairs) /\ (Drawn(Scr(m), m.pairs) => Drawn(k, m.pairs))
  BY <1>1, <1>2 DEF NodeInv, Painted, Drawn
<1>7. OnScreen(m, m.s) => (k.win.y >= k.tos /\ (k.saved => k.sy >= k.tos))
  <2>1. win.y \in Nat
    BY WindowFields
  <2> QED BY <1>1, <1>2, <1>4, <2>1 DEF OnScreen
<1>8. Kept(m, Put(m, m.s, k)) /\ Scr(Put(m, m.s, k)) = k
  BY <1>2, <1>5, <1>6, <1>7, PutKept
<1> QED BY <1>2, <1>3, <1>4, <1>8 DEF Win, Tos, k

(* The calls of curses keep a window as it should be. *)
LEMMA Moved ==
    ASSUME NEW win \in WindowRecord, NEW y \in Int, NEW x \in Int
    PROVE  LET v == wmove(win, y, x) IN
           /\ v \in WindowRecord /\ v.rows = win.rows /\ v.columns = win.columns
           /\ v.top = win.top /\ v.bot = win.bot /\ v.text = win.text
           /\ IF y \in 0 .. (win.rows - 1) /\ x \in 0 .. (win.columns - 1)
              THEN v.y = y /\ v.x = x ELSE v.y = win.y /\ v.x = win.x
<1>1. CASE y \in 0 .. (win.rows - 1) /\ x \in 0 .. (win.columns - 1)
  <2>1. wmove(win, y, x) = [win EXCEPT !.y = y, !.x = x]
    BY <1>1 DEF wmove
  <2>2. y \in Nat /\ x \in Nat
    BY <1>1
  <2> QED BY <1>1, <2>1, <2>2 DEF WindowRecord
<1>2. CASE ~(y \in 0 .. (win.rows - 1) /\ x \in 0 .. (win.columns - 1))
  <2>1. wmove(win, y, x) = win
    BY <1>2 DEF wmove
  <2> QED BY <1>2, <2>1
<1> QED BY <1>1, <1>2

LEMMA MoveKept ==
    ASSUME NEW m, NodeInv(m), NEW y \in Int, NEW x \in Int, y >= Tos(m) \/ y >= Py(m) \/ y < 0
    PROVE  /\ Kept(m, Move(m, y, x)) /\ Tos(Move(m, y, x)) = Tos(m)
           /\ Win(Move(m, y, x)) = wmove(Win(m), y, x)
           /\ Move(m, y, x) = Put(m, m.s, [Scr(m) EXCEPT !.win = wmove(Win(m), y, x)])
           /\ Scr(Move(m, y, x)) = [Scr(m) EXCEPT !.win = wmove(Win(m), y, x)]
<1> DEFINE v == wmove(Win(m), y, x)
<1>1. Win(m) \in WindowRecord /\ Tos(m) <= Win(m).bot /\ Py(m) = Win(m).y /\ Py(m) \in Nat
  BY NodeNumbers DEF Py
<1>2. /\ v \in WindowRecord /\ v.rows = Win(m).rows /\ v.columns = Win(m).columns
      /\ v.top = Win(m).top /\ v.bot = Win(m).bot /\ v.text = Win(m).text
      /\ IF y \in 0 .. (Win(m).rows - 1) /\ x \in 0 .. (Win(m).columns - 1)
         THEN v.y = y /\ v.x = x ELSE v.y = Win(m).y /\ v.x = Win(m).x
  BY <1>1, Moved
<1> HIDE DEF v
<1>3. WindowFits(v, Win(m).rows, Win(m).columns)
  <2>1. /\ Win(m).rows \in Nat /\ Win(m).columns \in Nat /\ Win(m).y < Win(m).rows
        /\ Win(m).x < Win(m).columns /\ Win(m).top <= Win(m).bot /\ Win(m).bot < Win(m).rows
        /\ Win(m).text \subseteq 0 .. (Win(m).rows - 1)
    BY NodeNumbers DEF Py, X
  <2> QED BY <1>2, <2>1 DEF WindowFits
<1>4. v.y >= Tos(m) \/ v.y >= Py(m)
  BY <1>1, <1>2
<1>5. Tos(m) <= v.bot
  BY <1>1, <1>2
<1> QED BY <1>2, <1>3, <1>4, <1>5, SetWinKept DEF Move, v

(* Fields of the node beside its screens. *)
LEMMA DoneKept ==
    ASSUME NEW m, NodeInv(m)
    PROVE  Kept(m, Done(m)) /\ Done(m).scr = m.scr /\ Done(m).s = m.s
<1>1. m \in NodeRecord
  BY DEF NodeInv
<1>2. /\ Done(m) \in NodeRecord /\ Done(m).scr = m.scr /\ Done(m).s = m.s /\ Done(m).h = m.h
      /\ Done(m).w = m.w /\ Done(m).tabs = m.tabs /\ Done(m).pairs = m.pairs
  <2> HIDE DEF ScreenRecord, Colour
  <2> QED BY <1>1 DEF Done, NodeRecord
<1> QED BY <1>2 DEF Kept, NodeInv, OnScreen
(* The pending line break and insert mode say nothing about the rest. *)
LEMMA FlagsKept ==
    ASSUME NEW m, NodeInv(m), NEW k \in ScreenRecord,
           k.win = Win(m), k.tos = Scr(m).tos, k.off = Scr(m).off,
           k.saved = Scr(m).saved, k.sy = Scr(m).sy, k.fg = Scr(m).fg, k.bg = Scr(m).bg,
           k.pair = Scr(m).pair, k.sp = Scr(m).sp
    PROVE  /\ Kept(m, Put(m, m.s, k)) /\ Scr(Put(m, m.s, k)) = k
           /\ Win(Put(m, m.s, k)) = Win(m) /\ Tos(Put(m, m.s, k)) = Tos(m)
<1>1. /\ m.s \in Screens /\ Scr(m) = m.scr[m.s] /\ Win(m) = Scr(m).win
  BY NodeFields DEF NodeInv
<1>2. /\ ScreenFits(k, m.s, m.h, m.w) /\ Painted(k, m.pairs)
      /\ Drawn(Scr(m), m.pairs) => Drawn(k, m.pairs)
  BY <1>1 DEF NodeInv, ScreenFits, Painted, Drawn
<1>3. OnScreen(m, m.s) => (k.win.y >= k.tos /\ (k.saved => k.sy >= k.tos))
  BY <1>1 DEF OnScreen
<1> QED BY <1>2, <1>3, PutKept DEF Win, Tos

LEMMA NoWrapKept ==
    ASSUME NEW m, NodeInv(m)
    PROVE  /\ Kept(m, NoWrap(m)) /\ Win(NoWrap(m)) = Win(m) /\ Tos(NoWrap(m)) = Tos(m)
           /\ Scr(NoWrap(m)) = [Scr(m) EXCEPT !.xenl = FALSE]
           /\ NoWrap(m) = Put(m, m.s, [Scr(m) EXCEPT !.xenl = FALSE])
<1> DEFINE k == [Scr(m) EXCEPT !.xenl = FALSE]
<1>1. /\ m \in NodeRecord /\ Scr(m) \in ScreenRecord /\ Scr(m) = m.scr[m.s] /\ Win(m) = Scr(m).win
  BY NodeFields DEF NodeInv
<1>2. /\ k \in ScreenRecord /\ k.win = Win(m) /\ k.tos = Scr(m).tos /\ k.off = Scr(m).off
      /\ k.saved = Scr(m).saved /\ k.sy = Scr(m).sy /\ k.fg = Scr(m).fg /\ k.bg = Scr(m).bg
      /\ k.pair = Scr(m).pair /\ k.sp = Scr(m).sp
  <2> HIDE DEF WindowRecord, Colour
  <2> QED BY <1>1 DEF ScreenRecord
<1>3. NoWrap(m) = Put(m, m.s, k)
  BY <1>1 DEF NoWrap, Put, Scr
<1> HIDE DEF k
<1>4. /\ Kept(m, Put(m, m.s, k)) /\ Scr(Put(m, m.s, k)) = k
      /\ Win(Put(m, m.s, k)) = Win(m) /\ Tos(Put(m, m.s, k)) = Tos(m)
  BY <1>2, FlagsKept
<1> QED BY <1>3, <1>4 DEF k

-----------------------------------------------------------------------------
(* Arguments. *)

LEMMA ArgumentNat ==
    ASSUME NEW a \in Seq(Nat), NEW i \in Nat, NEW d \in Int
    PROVE  PD(a, i, d) \in Nat \cup {d} /\ P0(a, i) \in Nat /\ P1(a, i) \in Nat /\ P1(a, i) >= 1
<1>1. \A e \in Int : PD(a, i, e) \in Nat \cup {e}
  <2> TAKE e \in Int
  <2>1. Len(a) \in Nat
    OBVIOUS
  <2>2. CASE Len(a) > i
    <3>1. i + 1 \in 1 .. Len(a)
      BY <2>1, <2>2
    <3>2. a[i + 1] \in Nat
      BY <3>1, ElementOfSeq
    <3> QED BY <3>2, <2>2, <2>1 DEF PD
  <2> QED BY <2>1, <2>2 DEF PD
<1>2. P0(a, i) \in Nat
  BY <1>1 DEF P0
<1>3. P1(a, i) \in Nat /\ P1(a, i) >= 1
  BY <1>2 DEF P1
<1> QED BY <1>1, <1>2, <1>3

-----------------------------------------------------------------------------
(* Moving the cursor. *)

LEMMA MoveDone ==
    ASSUME NEW m, NodeInv(m), NEW y \in Int, NEW x \in Int, y >= Tos(m) \/ y >= Py(m) \/ y < 0
    PROVE  /\ Kept(m, Done(Move(m, y, x))) /\ Win(Done(Move(m, y, x))) = wmove(Win(m), y, x)
           /\ Tos(Done(Move(m, y, x))) = Tos(m)
<1>1. /\ Kept(m, Move(m, y, x)) /\ Tos(Move(m, y, x)) = Tos(m)
      /\ Win(Move(m, y, x)) = wmove(Win(m), y, x)
  BY MoveKept
<1>2. /\ Kept(Move(m, y, x), Done(Move(m, y, x)))
      /\ Done(Move(m, y, x)).scr = Move(m, y, x).scr /\ Done(Move(m, y, x)).s = Move(m, y, x).s
  BY <1>1, DoneKept DEF Kept
<1> QED BY <1>1, <1>2, KeptTwice DEF Win, Scr, Tos

LEMMA NoWrapMoveDone ==
    ASSUME NEW m, NodeInv(m), NEW y \in Int, NEW x \in Int, y >= Tos(m) \/ y >= Py(m) \/ y < 0
    PROVE  /\ Kept(m, Done(Move(NoWrap(m), y, x)))
           /\ Win(Done(Move(NoWrap(m), y, x))) = wmove(Win(m), y, x)
           /\ Tos(Done(Move(NoWrap(m), y, x))) = Tos(m)
<1> DEFINE k == NoWrap(m)
<1>1. Kept(m, k) /\ Win(k) = Win(m) /\ Tos(k) = Tos(m) /\ Py(k) = Py(m)
  BY NoWrapKept DEF Py
<1> HIDE DEF k
<1>2. /\ Kept(k, Done(Move(k, y, x))) /\ Win(Done(Move(k, y, x))) = wmove(Win(k), y, x)
      /\ Tos(Done(Move(k, y, x))) = Tos(k)
  BY <1>1, MoveDone DEF Kept
<1>3. Kept(m, Done(Move(k, y, x)))
  BY <1>1, <1>2, KeptTwice
<1> QED BY <1>1, <1>2, <1>3 DEF k

(* The rows of the cursor's motions. *)
LEMMA MotionKept ==
    ASSUME NEW m, NodeInv(m), NEW a \in Seq(Nat)
    PROVE  /\ Kept(m, cup(m, a)) /\ Kept(m, cuu(m, a)) /\ Kept(m, cud(m, a))
           /\ Kept(m, cuf(m, a)) /\ Kept(m, cub(m, a)) /\ Kept(m, hpa(m, a))
           /\ Kept(m, hpr(m, a)) /\ Kept(m, vpa(m, a)) /\ Kept(m, vpr(m, a))
           /\ Kept(m, cpl(m, a)) /\ Kept(m, cnl(m, a)) /\ Kept(m, cr(m))
<1>1. /\ Tos(m) \in Nat /\ Py(m) \in Nat /\ X(m) \in Nat /\ Top(m) \in Nat /\ Bot(m) \in Nat
      /\ Mx(m) \in Nat /\ Tos(m) + Top(m) <= Tos(m) + Bot(m) - 1
  BY NodeNumbers, SMTT(30)
<1>2. P1(a, 0) \in Nat /\ P1(a, 0) >= 1 /\ P1(a, 1) \in Nat /\ P1(a, 1) >= 1
  BY ArgumentNat
<1> USE <1>1, <1>2
<1>3. Kept(m, cup(m, a))
  <2> DEFINE y == Tos(m) + (IF m.decom THEN Top(m) ELSE 0) + P1(a, 0) - 1
  <2>1. y \in Int /\ y >= Tos(m) /\ P1(a, 1) - 1 \in Int
    OBVIOUS
  <2> HIDE DEF y
  <2>2. Kept(m, Done(Move(NoWrap(m), y, P1(a, 1) - 1)))
    BY <2>1, NoWrapMoveDone
  <2> QED BY <2>2 DEF cup, y
<1>4. Kept(m, cuu(m, a))
  <2>1. Largest(Py(m) - P1(a, 0), Tos(m) + Top(m)) \in Int
        /\ Largest(Py(m) - P1(a, 0), Tos(m) + Top(m)) >= Tos(m)
    BY DEF Largest
  <2> QED BY <2>1, MoveDone DEF cuu
<1>5. Kept(m, cud(m, a)) /\ Kept(m, cnl(m, a))
  <2>1. Least(Py(m) + P1(a, 0), Tos(m) + Bot(m) - 1) \in Int
        /\ (\/ Least(Py(m) + P1(a, 0), Tos(m) + Bot(m) - 1) >= Tos(m)
            \/ Least(Py(m) + P1(a, 0), Tos(m) + Bot(m) - 1) >= Py(m))
        /\ Least(Tos(m) + Bot(m) - 1, Py(m) + P1(a, 0)) \in Int
        /\ (\/ Least(Tos(m) + Bot(m) - 1, Py(m) + P1(a, 0)) >= Tos(m)
            \/ Least(Tos(m) + Bot(m) - 1, Py(m) + P1(a, 0)) >= Py(m))
    BY DEF Least
  <2> QED BY <2>1, MoveDone DEF cud, cnl
<1>6. Kept(m, cuf(m, a)) /\ Kept(m, hpr(m, a)) /\ Kept(m, hpa(m, a))
  <2>1. Least(X(m) + P1(a, 0), Mx(m) - 1) \in Int /\ Least(P1(a, 0) - 1, Mx(m) - 1) \in Int
    BY DEF Least
  <2> QED BY <2>1, MoveDone DEF cuf, hpr, hpa
<1>7. Kept(m, cub(m, a)) /\ Kept(m, cr(m))
  <2> DEFINE x == Largest(X(m) - P1(a, 0), 0)
  <2>1. x \in Int
    BY DEF Largest
  <2> HIDE DEF x
  <2>2. Py(NoWrap(m)) = Py(m) /\ X(NoWrap(m)) = X(m)
    BY NoWrapKept DEF Py, X
  <2>3. Py(m) \in Int /\ Py(m) >= Py(m) /\ 0 \in Int
    OBVIOUS
  <2>4. Kept(m, Done(Move(NoWrap(m), Py(m), x)))
    BY <2>1, <2>3, NoWrapMoveDone
  <2>5. Kept(m, Done(Move(NoWrap(m), Py(m), 0)))
    BY <2>3, NoWrapMoveDone
  <2> QED BY <2>2, <2>4, <2>5 DEF cub, cr, x
<1>8. Kept(m, vpa(m, a)) /\ Kept(m, vpr(m, a))
  <2>1. \A y \in Int : InRegion(m, y) \in Int /\ InRegion(m, y) >= Tos(m)
    BY DEF InRegion, Least, Largest
  <2>2. Tos(m) + P1(a, 0) - 1 \in Int /\ Py(m) + P1(a, 0) \in Int /\ X(m) \in Int
    OBVIOUS
  <2>3. Kept(m, vpa(m, a))
    BY <2>1, <2>2, MoveDone DEF vpa
  <2>4. Kept(m, vpr(m, a))
    BY <2>1, <2>2, MoveDone DEF vpr
  <2> QED BY <2>3, <2>4
<1>9. Kept(m, cpl(m, a))
  <2>1. Largest(Tos(m) + Top(m), Py(m) - P1(a, 0)) \in Int
        /\ Largest(Tos(m) + Top(m), Py(m) - P1(a, 0)) >= Tos(m)
    BY DEF Largest
  <2> QED BY <2>1, MoveDone DEF cpl
<1> QED BY <1>3, <1>4, <1>5, <1>6, <1>7, <1>8, <1>9
-----------------------------------------------------------------------------
(* Handlers that repeat a step: what each round keeps the loop keeps. *)
Kin(m) == {k \in NodeRecord : Kept(m, k)}

LEMMA KinStep ==
    ASSUME NEW m, NEW k, NEW l, k \in Kin(m), Kept(k, l)
    PROVE  l \in Kin(m)
<1>1. Kept(m, l)
  BY KeptTwice DEF Kin
<1> QED BY <1>1 DEF Kin, Kept, NodeInv

LEMMA KinSelf ==
    ASSUME NEW m, NodeInv(m)
    PROVE  m \in Kin(m)
BY KeptSelf DEF Kin, NodeInv

LEMMA StopKept ==
    ASSUME NEW m, NodeInv(m)
    PROVE  Kept(m, ht(m)) /\ Kept(m, cbt(m))
<1>1. Py(m) \in Int /\ Py(m) >= Py(m) /\ Mx(m) - 1 \in Int /\ 0 \in Int
  BY NodeNumbers
<1>2. m.tabs \subseteq Int
  BY NodeFields DEF NodeInv
<1>3. Kept(m, ht(m))
  <2> DEFINE stop == FirstAfter(m.tabs, X(m))
             x == IF stop = {} THEN Mx(m) - 1 ELSE CHOOSE i \in stop : TRUE
  <2>1. stop \subseteq Int
    BY <1>2 DEF FirstAfter
  <2>2. x \in Int
    <3> HIDE DEF stop
    <3> QED BY <1>1, <2>1
  <2>3. ht(m) = Done(Move(m, Py(m), x))
    BY DEF ht
  <2> HIDE DEF x
  <2> QED BY <1>1, <2>2, <2>3, MoveDone
<1>4. Kept(m, cbt(m))
  <2> DEFINE stop == IF X(m) - 1 < m.w THEN LastBefore(m.tabs, X(m)) ELSE {}
             x == IF stop = {} THEN 0 ELSE CHOOSE i \in stop : TRUE
  <2>1. stop \subseteq Int
    BY <1>2 DEF LastBefore
  <2>2. x \in Int
    <3> HIDE DEF stop
    <3> QED BY <1>1, <2>1
  <2>3. cbt(m) = Done(Move(m, Py(m), x))
    BY DEF cbt
  <2> HIDE DEF x
  <2> QED BY <1>1, <2>2, <2>3, MoveDone
<1> QED BY <1>3, <1>4

LEMMA TabKept ==
    ASSUME NEW m, NodeInv(m), NEW a \in Seq(Nat), NEW w
    PROVE  Kept(m, tab(m, a, w))
<1> DEFINE Step(k) == IF w = "Z" THEN cbt(k) ELSE ht(k)
           V == Kin(m)
           c == P1(a, 0)
           G == [i \in 1 .. c |-> [k \in V |-> Step(k)]]
           Loop(r) == r = [i \in 0 .. c |-> IF i = 0 THEN m ELSE Step(r[i - 1])]
<1>1. m \in V /\ c \in Nat
  BY KinSelf, ArgumentNat
<1>2. \A k \in V : Step(k) \in V
  <2> TAKE k \in V
  <2>1. NodeInv(k)
    BY DEF Kin, Kept
  <2>2. Kept(k, Step(k))
    BY <2>1, StopKept
  <2> QED BY <2>2, KinStep
<1>3. G \in Rounds(c, V)
  <2> HIDE DEF Step, V, c
  <2> QED BY <1>2 DEF Rounds
<1>4. \E r : Loop(r)
  <2> HIDE DEF Step, V, c
  <2>1. PICK f : Runs(c, V, m, G, f)
    <3> HIDE DEF G
    <3> QED BY <1>1, <1>3, LoopStates
  <2>2. f \in [0 .. c -> V] /\ f[0] = m /\ \A i \in 1 .. c : f[i] = G[i][f[i - 1]]
    <3> HIDE DEF G
    <3> QED BY <2>1 DEF Runs
  <2>3. \A i \in 1 .. c : f[i] = Step(f[i - 1])
    <3>1. \A i \in 1 .. c : f[i - 1] \in V
      BY <1>1, <2>2
    <3> QED BY <2>2, <3>1
  <2>4. Loop(f)
    BY <1>1, <2>2, <2>3
  <2> QED BY <2>4
<1> DEFINE r == CHOOSE r : Loop(r)
<1>5. tab(m, a, w) = Done(r[c])
  BY DEF tab, Repeated
<1>6. Loop(r)
  <2> HIDE DEF Loop
  <2> QED BY <1>4
<1> HIDE DEF r
<1>7. r[c] \in V
  <2> HIDE DEF Step, V, c
  <2>1. r[0] \in V /\ \A i \in 1 .. c : i \in 0 .. c /\ i # 0
    BY <1>1, <1>6
  <2>2. \A i \in 1 .. c : r[i] = Step(r[i - 1])
    BY <1>6, <2>1
  <2>3. \A i \in 1 .. c : r[i - 1] \in V => r[i] \in V
    BY <1>2, <2>2
  <2> HIDE DEF Loop
  <2> QED BY <1>1, <2>1, <2>3, LoopEnds
<1>8. Kept(m, r[c]) /\ NodeInv(r[c])
  BY <1>7 DEF Kin, Kept
<1> QED BY <1>5, <1>8, DoneKept, KeptTwice
LEMMA TabsKept ==
    ASSUME NEW m, NodeInv(m), NEW T, T \subseteq 0 .. (m.w - 1)
    PROVE  Kept(m, Done([m EXCEPT !.tabs = T]))
<1> DEFINE k == [m EXCEPT !.tabs = T]
<1>1. m \in NodeRecord /\ m.w \in Nat /\ T \in SUBSET Nat
  BY NodeFields DEF NodeInv
<1>2. /\ k \in NodeRecord /\ k.scr = m.scr /\ k.s = m.s /\ k.h = m.h
      /\ k.w = m.w /\ k.tabs = T /\ k.pairs = m.pairs
  <2> HIDE DEF ScreenRecord, Colour
  <2> QED BY <1>1 DEF NodeRecord
<1> HIDE DEF k
<1>3. Kept(m, k)
  BY <1>2 DEF Kept, NodeInv, OnScreen
<1>4. Kept(m, Done(k))
  BY <1>3, DoneKept, KeptTwice DEF Kept
<1> QED BY <1>4 DEF k

LEMMA StopsKept ==
    ASSUME NEW m, NodeInv(m), NEW a \in Seq(Nat)
    PROVE  Kept(m, hts(m)) /\ Kept(m, tbc(m, a))
<1>1. m.tabs \subseteq 0 .. (m.w - 1) /\ m.w \in Nat /\ X(m) \in Nat
  BY NodeFields, NodeNumbers DEF NodeInv
<1>2. Kept(m, hts(m))
  <2> DEFINE T == IF X(m) < m.w /\ X(m) > 0 THEN m.tabs \cup {X(m)} ELSE m.tabs
  <2>1. T \subseteq 0 .. (m.w - 1)
    BY <1>1
  <2>2. hts(m) = Done([m EXCEPT !.tabs = T])
    BY DEF hts
  <2> HIDE DEF T
  <2> QED BY <2>1, <2>2, TabsKept
<1>3. Kept(m, tbc(m, a))
  <2> DEFINE here == IF X(m) < m.w THEN X(m) ELSE 0
             cleared == CASE P0(a, 0) = 0 -> {here} [] P0(a, 0) = 3 -> m.tabs [] OTHER -> {}
  <2>1. tbc(m, a) = Done([m EXCEPT !.tabs = m.tabs \ cleared])
    BY DEF tbc
  <2> HIDE DEF cleared
  <2>2. m.tabs \ cleared \subseteq 0 .. (m.w - 1)
    BY <1>1
  <2> QED BY <2>1, <2>2, TabsKept
<1> QED BY <1>2, <1>3

-----------------------------------------------------------------------------
(* Scrolling. *)

(* A window whose region and text changed, the cursor where it was. *)
LEMMA SameCursorKept ==
    ASSUME NEW m, NodeInv(m), NEW win \in WindowRecord,
           win.rows = Win(m).rows, win.columns = Win(m).columns, win.y = Win(m).y,
           win.x = Win(m).x, win.top <= win.bot, win.bot < win.rows, Tos(m) <= win.bot,
           win.text \subseteq 0 .. (win.rows - 1)
    PROVE  /\ Kept(m, SetWin(m, win)) /\ Win(SetWin(m, win)) = win
           /\ Tos(SetWin(m, win)) = Tos(m)
<1>1. /\ Py(m) = Win(m).y /\ X(m) = Win(m).x /\ Py(m) \in Nat
      /\ Py(m) < Win(m).rows /\ X(m) < Win(m).columns
  BY NodeNumbers DEF Py, X
<1>2. WindowFits(win, Win(m).rows, Win(m).columns)
  BY <1>1 DEF WindowFits
<1>3. win.y >= Py(m)
  BY <1>1
<1> QED BY <1>2, <1>3, SetWinKept

LEMMA Scrolled ==
    ASSUME NEW win \in WindowRecord, NEW k \in Int, win.bot < win.rows,
           win.text \subseteq 0 .. (win.rows - 1)
    PROVE  LET v == wscrl(win, k) IN
           /\ v \in WindowRecord /\ v.rows = win.rows /\ v.columns = win.columns
           /\ v.y = win.y /\ v.x = win.x /\ v.top = win.top /\ v.bot = win.bot
           /\ v.text \subseteq 0 .. (v.rows - 1)
<1> DEFINE region == win.top .. win.bot
           t == (win.text \ region) \cup {r \in region : r + k \in win.text \cap region}
<1>1. wscrl(win, k) = [win EXCEPT !.text = t]
  BY DEF wscrl
<1>2. win.top \in Nat /\ win.bot \in Nat /\ win.rows \in Nat
  BY WindowFields
<1>3. t \subseteq 0 .. (win.rows - 1)
  BY <1>2
<1>4. t \in SUBSET Nat
  BY <1>3
<1> HIDE DEF t
<1> QED BY <1>1, <1>3, <1>4 DEF WindowRecord

LEMMA ScrollKept ==
    ASSUME NEW m, NodeInv(m), NEW k \in Int
    PROVE  /\ Kept(m, Scroll(m, k)) /\ Win(Scroll(m, k)) = wscrl(Win(m), k)
           /\ Tos(Scroll(m, k)) = Tos(m)
<1>1. /\ Win(m) \in WindowRecord /\ Win(m).bot < Win(m).rows /\ Tos(m) <= Win(m).bot
      /\ Win(m).top <= Win(m).bot /\ Win(m).text \subseteq 0 .. (Win(m).rows - 1)
  BY NodeNumbers
<1> DEFINE v == wscrl(Win(m), k)
<1>2. /\ v \in WindowRecord /\ v.rows = Win(m).rows /\ v.columns = Win(m).columns
      /\ v.y = Win(m).y /\ v.x = Win(m).x /\ v.top = Win(m).top /\ v.bot = Win(m).bot
      /\ v.text \subseteq 0 .. (v.rows - 1)
  BY <1>1, Scrolled
<1> HIDE DEF v
<1>3. Kept(m, SetWin(m, v)) /\ Win(SetWin(m, v)) = v /\ Tos(SetWin(m, v)) = Tos(m)
  BY <1>1, <1>2, SameCursorKept
<1> QED BY <1>3 DEF Scroll, v

LEMMA RegionSet ==
    ASSUME NEW win \in WindowRecord, NEW top \in Int, NEW bot \in Int
    PROVE  LET v == wsetscrreg(win, top, bot) IN
           /\ v \in WindowRecord /\ v.rows = win.rows /\ v.columns = win.columns
           /\ v.y = win.y /\ v.x = win.x /\ v.text = win.text
           /\ IF RegionFits(win, top, bot)
              THEN v.top = top /\ v.bot = bot
              ELSE v.top = win.top /\ v.bot = win.bot
<1>1. CASE RegionFits(win, top, bot)
  <2>1. top \in Nat /\ bot \in Nat
    BY <1>1, WindowFields DEF RegionFits
  <2>2. wsetscrreg(win, top, bot) = [win EXCEPT !.top = top, !.bot = bot]
    BY <1>1 DEF wsetscrreg
  <2> QED BY <1>1, <2>1, <2>2 DEF WindowRecord
<1>2. CASE ~RegionFits(win, top, bot)
  BY <1>2 DEF wsetscrreg
<1> QED BY <1>1, <1>2

LEMMA ScrollWithinKept ==
    ASSUME NEW m, NodeInv(m), NEW top \in Int, NEW k \in Int
    PROVE  /\ Kept(m, ScrollWithin(m, top, Win(m).bot, k))
           /\ Py(ScrollWithin(m, top, Win(m).bot, k)) = Py(m)
           /\ Tos(ScrollWithin(m, top, Win(m).bot, k)) = Tos(m)
<1> DEFINE bot == Win(m).bot
           u == wsetscrreg(Win(m), top, bot)
           v == wscrl(u, k)
           w == wsetscrreg(v, Win(m).top, bot)
<1>1. /\ Win(m) \in WindowRecord /\ bot < Win(m).rows /\ Tos(m) <= bot
      /\ Win(m).top <= bot /\ Win(m).text \subseteq 0 .. (Win(m).rows - 1)
      /\ bot \in Nat /\ Win(m).top \in Nat /\ Win(m).rows \in Nat
  BY NodeNumbers
<1>2. /\ u \in WindowRecord /\ u.rows = Win(m).rows /\ u.columns = Win(m).columns
      /\ u.y = Win(m).y /\ u.x = Win(m).x /\ u.text = Win(m).text
      /\ u.top <= u.bot /\ u.bot = bot
  BY <1>1, RegionSet DEF RegionFits
<1> HIDE DEF u
<1>3. /\ v \in WindowRecord /\ v.rows = u.rows /\ v.columns = u.columns
      /\ v.y = u.y /\ v.x = u.x /\ v.top = u.top /\ v.bot = u.bot
      /\ v.text \subseteq 0 .. (v.rows - 1)
  BY <1>1, <1>2, Scrolled
<1> HIDE DEF v
<1>4. /\ w \in WindowRecord /\ w.rows = v.rows /\ w.columns = v.columns
      /\ w.y = v.y /\ w.x = v.x /\ w.text = v.text /\ w.top <= w.bot /\ w.bot = bot
  BY <1>1, <1>2, <1>3, RegionSet DEF RegionFits
<1> HIDE DEF w
<1>5. Kept(m, SetWin(m, w)) /\ Win(SetWin(m, w)) = w /\ Tos(SetWin(m, w)) = Tos(m)
  BY <1>1, <1>2, <1>3, <1>4, SameCursorKept
<1>6. ScrollWithin(m, top, bot, k) = SetWin(m, w)
  BY DEF ScrollWithin, u, v, w
<1> QED BY <1>2, <1>3, <1>4, <1>5, <1>6 DEF Py
LEMMA ScrollDone ==
    ASSUME NEW m, NodeInv(m), NEW k \in Int
    PROVE  Kept(m, Done(Scroll(m, k)))
BY ScrollKept, DoneKept, KeptTwice DEF Kept

LEMMA IndexKept ==
    ASSUME NEW m, NodeInv(m)
    PROVE  Kept(m, ind(m)) /\ Kept(m, nel(m)) /\ Kept(m, pnl(m))
<1>1. ASSUME NEW k, NodeInv(k) PROVE Kept(k, ind(k))
  <2>1. Py(k) + 1 \in Int /\ Py(k) + 1 >= Py(k) /\ X(k) \in Int
    BY <1>1, NodeNumbers
  <2>2. Kept(k, Done(Scroll(k, 1))) /\ Kept(k, Done(Move(k, Py(k) + 1, X(k))))
    BY <1>1, <2>1, ScrollDone, MoveDone
  <2> QED BY <2>2 DEF ind
<1>2. Kept(m, cr(m))
  <2>1. <<>> \in Seq(Nat)
    OBVIOUS
  <2> QED BY <2>1, MotionKept
<1>3. Kept(m, ind(cr(m)))
  BY <1>1, <1>2, KeptTwice DEF Kept
<1>4. Kept(m, nel(m))
  BY <1>3, DoneKept, KeptTwice DEF nel, Kept
<1>5. Kept(m, pnl(m))
  BY <1>1, <1>4, DoneKept, KeptTwice DEF pnl, Kept
<1> QED BY <1>1, <1>4, <1>5

LEMMA ScrollsKept ==
    ASSUME NEW m, NodeInv(m), NEW a \in Seq(Nat), NEW w
    PROVE  Kept(m, su(m, a, w)) /\ Kept(m, ri(m)) /\ Kept(m, idl(m, a, w))
<1>1. /\ Tos(m) \in Nat /\ Py(m) \in Nat /\ X(m) \in Nat /\ Win(m).top \in Nat
      /\ Win(m).rows \in Nat /\ My(m) \in Int /\ Y(m) \in Int
  BY NodeNumbers
<1>2. P1(a, 0) \in Nat
  BY ArgumentNat
<1>3. Kept(m, su(m, a, w))
  <2>1. (IF w = "T" THEN -P1(a, 0) ELSE P1(a, 0)) \in Int
    BY <1>2
  <2> QED BY <2>1, ScrollDone DEF su
<1>4. Kept(m, ri(m))
  <2>1. Largest(Win(m).top, Tos(m)) \in Int /\ -1 \in Int
    BY <1>1 DEF Largest
  <2>2. Kept(m, ScrollWithin(m, Largest(Win(m).top, Tos(m)), Win(m).bot, -1))
    BY <2>1, ScrollWithinKept
  <2>3. Largest(Tos(m), Py(m) - 1) \in Int /\ Largest(Tos(m), Py(m) - 1) >= Tos(m)
    BY <1>1 DEF Largest
  <2>4. Kept(m, Move(m, Largest(Tos(m), Py(m) - 1), X(m)))
    <3>1. X(m) \in Int
      BY <1>1
    <3> QED BY <2>3, <3>1, MoveKept
  <2> QED BY <2>2, <2>4, DoneKept, KeptTwice DEF ri, Kept
<1>5. Kept(m, idl(m, a, w))
  <2> DEFINE p1 == Least(P1(a, 0), (My(m) - 1) - Y(m))
             k == IF w = "L" THEN -p1 ELSE p1
             scrolled == ScrollWithin(m, Py(m), Win(m).bot, k)
  <2>1. k \in Int
    BY <1>1, <1>2 DEF Least
  <2>2. idl(m, a, w) = Done(Move(scrolled, Py(m), 0))
    BY DEF idl
  <2> HIDE DEF k
  <2>3. Kept(m, scrolled) /\ Py(scrolled) = Py(m)
    BY <1>1, <2>1, ScrollWithinKept
  <2> HIDE DEF scrolled
  <2>4. Kept(scrolled, Done(Move(scrolled, Py(m), 0)))
    <3>1. Py(m) \in Int /\ Py(m) >= Py(scrolled) /\ 0 \in Int
      BY <1>1, <2>3
    <3> QED BY <2>3, <3>1, MoveDone DEF Kept
  <2> QED BY <2>2, <2>3, <2>4, KeptTwice
<1> QED BY <1>3, <1>4, <1>5

LEMMA RegionKept ==
    ASSUME NEW m, NodeInv(m), NEW a \in Seq(Nat)
    PROVE  Kept(m, csr(m, a))
<1> DEFINE top == Tos(m) + P1(a, 0) - 1
           bot == Tos(m) + PD(a, 1, My(m)) - 1
           win == wsetscrreg(Win(m), top, bot)
<1>1. /\ Win(m) \in WindowRecord /\ Win(m).text \subseteq 0 .. (Win(m).rows - 1)
      /\ Tos(m) \in Nat /\ My(m) \in Int /\ Win(m).rows \in Nat
  BY NodeNumbers
<1>2. top \in Int /\ bot \in Int /\ top >= Tos(m)
  <2>1. P1(a, 0) \in Nat /\ P1(a, 0) >= 1 /\ PD(a, 1, My(m)) \in Int
    BY <1>1, ArgumentNat
  <2> QED BY <1>1, <2>1
<1>3. csr(m, a) = IF RegionFits(Win(m), top, bot) THEN Done(cup(SetWin(m, win), <<>>)) ELSE Done(m)
  BY DEF csr
<1>4. CASE RegionFits(Win(m), top, bot)
  <2> HIDE DEF top, bot
  <2>1. /\ win \in WindowRecord /\ win.rows = Win(m).rows /\ win.columns = Win(m).columns
        /\ win.y = Win(m).y /\ win.x = Win(m).x /\ win.text = Win(m).text
        /\ win.top = top /\ win.bot = bot
    BY <1>1, <1>2, <1>4, RegionSet
  <2> HIDE DEF win
  <2>2. top <= bot /\ bot < Win(m).rows /\ Tos(m) <= bot
    BY <1>1, <1>2, <1>4 DEF RegionFits
  <2>3. Kept(m, SetWin(m, win))
    BY <1>1, <2>1, <2>2, SameCursorKept
  <2>4. <<>> \in Seq(Nat)
    OBVIOUS
  <2>5. Kept(m, cup(SetWin(m, win), <<>>))
    <3>1. NodeInv(SetWin(m, win))
      BY <2>3 DEF Kept
    <3>2. Kept(SetWin(m, win), cup(SetWin(m, win), <<>>))
      BY <2>4, <3>1, MotionKept
    <3> QED BY <2>3, <3>2, KeptTwice
  <2> QED BY <1>3, <1>4, <2>5, DoneKept, KeptTwice DEF Kept
<1>5. CASE ~RegionFits(Win(m), top, bot)
  BY <1>3, <1>5, DoneKept
<1> QED BY <1>4, <1>5
-----------------------------------------------------------------------------
(* Colours. *)

LEMMA FoundPair ==
    ASSUME NEW pairs \in Seq(Colour \X Colour), NEW c \in Colour \X Colour
    PROVE  LET q == AllocPair(pairs, c) IN
           /\ q \in Seq(Colour \X Colour) /\ Len(pairs) <= Len(q)
           /\ \A i \in 1 .. Len(pairs) : q[i] = pairs[i]
           /\ \A d \in Colour \X Colour : NoPair(pairs, d) => NoPair(q, d)
           /\ NoPair(pairs, c) => PairOf(pairs, c) = -1
           /\ ~NoPair(pairs, c) => PairOf(pairs, c) \in 1 .. Len(q) /\ q[PairOf(pairs, c)] = c
<1> DEFINE q == AllocPair(pairs, c)
<1> HIDE DEF Colour
<1>0. Len(pairs) \in Nat
  BY LenProperties
<1>1. CASE NoPair(pairs, c) \/ FindPair(pairs, c) # {}
  <2>1. q = pairs
    BY <1>1 DEF AllocPair
  <2>2. NoPair(pairs, c) => PairOf(pairs, c) = -1
    BY DEF PairOf
  <2>3. ASSUME ~NoPair(pairs, c)
        PROVE  PairOf(pairs, c) \in 1 .. Len(q) /\ q[PairOf(pairs, c)] = c
    <3>1. PairOf(pairs, c) = CHOOSE i \in FindPair(pairs, c) : TRUE
      BY <2>1, <2>3 DEF PairOf
    <3>2. PairOf(pairs, c) \in FindPair(pairs, c)
      BY <1>1, <2>3, <3>1
    <3> QED BY <2>1, <3>2 DEF FindPair
  <2> QED BY <1>0, <2>1, <2>2, <2>3
<1>2. CASE ~NoPair(pairs, c) /\ FindPair(pairs, c) = {}
  <2>1. q = Append(pairs, c)
    BY <1>2 DEF AllocPair
  <2>2. /\ q \in Seq(Colour \X Colour) /\ Len(q) = Len(pairs) + 1 /\ q[Len(pairs) + 1] = c
        /\ \A i \in 1 .. Len(pairs) : q[i] = pairs[i]
    BY <1>0, <2>1, AppendProperties
  <2> HIDE DEF q
  <2>3. Len(pairs) < MaxPairs
    BY <1>0, <1>2, ScreenAssumption DEF NoPair
  <2>4. \A d \in Colour \X Colour : NoPair(pairs, d) => NoPair(q, d)
    BY <1>0, <2>3, ScreenAssumption DEF NoPair
  <2>5. PairOf(pairs, c) \in 1 .. Len(q) /\ q[PairOf(pairs, c)] = c
    <3>1. PairOf(pairs, c) = CHOOSE i \in FindPair(q, c) : TRUE
      BY <1>2 DEF PairOf, q
    <3>2. Len(pairs) + 1 \in FindPair(q, c)
      BY <1>0, <2>2 DEF FindPair
    <3>3. PairOf(pairs, c) \in FindPair(q, c)
      BY <3>1, <3>2
    <3> QED BY <3>3 DEF FindPair
  <2> QED BY <1>0, <1>2, <2>2, <2>4, <2>5 DEF q
<1> QED BY <1>1, <1>2

LEMMA PaintedStill ==
    ASSUME NEW pairs \in Seq(Colour \X Colour), NEW c \in Colour \X Colour,
           NEW k \in ScreenRecord, Painted(k, pairs)
    PROVE  /\ Painted(k, AllocPair(pairs, c))
           /\ Drawn(k, pairs) => Drawn(k, AllocPair(pairs, c))
<1> DEFINE q == AllocPair(pairs, c)
<1>1. /\ q \in Seq(Colour \X Colour) /\ Len(pairs) <= Len(q)
      /\ \A i \in 1 .. Len(pairs) : q[i] = pairs[i]
      /\ \A d \in Colour \X Colour : NoPair(pairs, d) => NoPair(q, d)
  BY FoundPair
<1> HIDE DEF q
<1>2. k.pair \in Nat /\ k.sp \in Nat /\ <<k.fg, k.bg>> \in Colour \X Colour
  BY ScreenFields
<1>3. Len(pairs) \in Nat /\ Len(q) \in Nat
  BY <1>1, LenProperties
<1>4. k.pair <= Len(q) /\ k.sp <= Len(q)
  BY <1>1, <1>2, <1>3 DEF Painted
<1>5. k.pair # 0 => q[k.pair] = pairs[k.pair]
  BY <1>1, <1>2, <1>3 DEF Painted
<1>6. Drawn(k, pairs) => Drawn(k, q)
  <2> HIDE DEF Colour
  <2> QED BY <1>1, <1>2, <1>5 DEF Drawn
<1> QED BY <1>4, <1>6 DEF Painted, q

(* The node when the current screen and the table of pairs were replaced.  *)
LEMMA PaintKept ==
    ASSUME NEW m, NodeInv(m), NEW k \in ScreenRecord, NEW c \in Colour \X Colour,
           ScreenFits(k, m.s, m.h, m.w), Painted(k, AllocPair(m.pairs, c)),
           Drawn(Scr(m), m.pairs) => Drawn(k, AllocPair(m.pairs, c)),
           OnScreen(m, m.s) => (k.win.y >= k.tos /\ (k.saved => k.sy >= k.tos))
    PROVE  LET p == [Put(m, m.s, k) EXCEPT !.pairs = AllocPair(m.pairs, c)] IN
           Kept(m, p) /\ Scr(p) = k
<1> DEFINE q == AllocPair(m.pairs, c)
           j == Put(m, m.s, k)
           p == [j EXCEPT !.pairs = q]
<1>1. /\ m \in NodeRecord /\ m.s \in Screens /\ Scr(m) = m.scr[m.s] /\ Win(m) = Scr(m).win
      /\ m.pairs \in Seq(Colour \X Colour) /\ \A s \in Screens : m.scr[s] \in ScreenRecord
  BY NodeFields DEF NodeInv
<1>2. /\ j \in NodeRecord /\ j.scr[m.s] = k /\ \A t \in Screens \ {m.s} : j.scr[t] = m.scr[t]
      /\ j.s = m.s /\ j.h = m.h /\ j.w = m.w /\ j.tabs = m.tabs
  BY <1>1, PutNode
<1> HIDE DEF j
<1>3. q \in Seq(Colour \X Colour)
  BY <1>1, FoundPair
<1>4. \A s \in Screens \ {m.s} :
        Painted(m.scr[s], q) /\ (Drawn(m.scr[s], m.pairs) => Drawn(m.scr[s], q))
  BY <1>1, PaintedStill DEF NodeInv
<1> HIDE DEF q
<1>5. /\ p \in NodeRecord /\ p.scr = j.scr /\ p.s = j.s /\ p.h = j.h /\ p.w = j.w
      /\ p.tabs = j.tabs /\ p.pairs = q
  <2> HIDE DEF ScreenRecord, Colour
  <2> QED BY <1>2, <1>3 DEF NodeRecord
<1> HIDE DEF p
<1>6. ScreenFits(k, m.s, m.h, m.w) /\ Painted(k, q)
  BY DEF q
<1>7. NodeInv(p)
  BY <1>1, <1>2, <1>4, <1>5, <1>6 DEF NodeInv
<1>8. \A s \in Screens :
        (OnScreen(m, s) => OnScreen(p, s)) /\ (Drawn(m.scr[s], m.pairs) => Drawn(p.scr[s], p.pairs))
  <2>1. \A s \in Screens : OnScreen(m, s) => OnScreen(p, s)
    BY <1>1, <1>2, <1>5 DEF OnScreen
  <2>2. \A s \in Screens : Drawn(m.scr[s], m.pairs) => Drawn(p.scr[s], p.pairs)
    BY <1>1, <1>2, <1>4, <1>5 DEF q
  <2> QED BY <2>1, <2>2
<1>9. Kept(m, p) /\ Scr(p) = k
  BY <1>2, <1>5, <1>7, <1>8 DEF Kept, Scr
<1> QED BY <1>9 DEF p, j, q

LEMMA AllocKept ==
    ASSUME NEW m, NodeInv(m)
    PROVE  Kept(m, AllocColours(m)) /\ Scr(AllocColours(m)) = Scr(m)
<1>1. /\ m \in NodeRecord /\ m.s \in Screens /\ Scr(m) = m.scr[m.s] /\ Scr(m) \in ScreenRecord
      /\ m.pairs \in Seq(Colour \X Colour) /\ Win(m) = Scr(m).win /\ m.scr \in [Screens -> ScreenRecord]
  BY NodeFields DEF NodeInv
<1>2. Colours(m) \in Colour \X Colour
  BY <1>1, ScreenFields DEF Colours
<1>3. /\ Painted(Scr(m), AllocPair(m.pairs, Colours(m)))
      /\ Drawn(Scr(m), m.pairs) => Drawn(Scr(m), AllocPair(m.pairs, Colours(m)))
  BY <1>1, <1>2, PaintedStill DEF NodeInv
<1>4. Put(m, m.s, Scr(m)) = m
  <2>1. [m.scr EXCEPT ![m.s] = Scr(m)] = m.scr
    BY <1>1
  <2> HIDE DEF ScreenRecord, Colour
  <2> QED BY <1>1, <2>1 DEF Put, NodeRecord
<1>5. AllocColours(m) = [m EXCEPT !.pairs = AllocPair(m.pairs, Colours(m))]
  BY DEF AllocColours
<1> DEFINE p == [Put(m, m.s, Scr(m)) EXCEPT !.pairs = AllocPair(m.pairs, Colours(m))]
<1>6. Kept(m, p) /\ Scr(p) = Scr(m)
  <2>1. ScreenFits(Scr(m), m.s, m.h, m.w)
    BY <1>1 DEF NodeInv
  <2>2. OnScreen(m, m.s) => (Scr(m).win.y >= Scr(m).tos /\ (Scr(m).saved => Scr(m).sy >= Scr(m).tos))
    BY <1>1 DEF OnScreen
  <2> QED BY <1>1, <1>2, <1>3, <2>1, <2>2, PaintKept
<1> QED BY <1>4, <1>5, <1>6
(* SetColours puts a screen that shows them, or that no pair was left for. *)
Coloured(k, m, fg, bg) ==
    LET p == PairOf(m.pairs, <<fg, bg>>) IN
    [k EXCEPT !.fg = fg, !.bg = bg, !.pair = IF p < 0 THEN @ ELSE p]

LEMMA ColouredFields ==
    ASSUME NEW m \in NodeRecord, NEW j \in ScreenRecord, NEW fg \in Colour, NEW bg \in Colour
    PROVE  LET p == PairOf(m.pairs, <<fg, bg>>)
               k == Coloured(j, m, fg, bg) IN
           /\ k \in ScreenRecord /\ k.win = j.win /\ k.tos = j.tos /\ k.off = j.off
           /\ k.saved = j.saved /\ k.sy = j.sy /\ k.fg = fg /\ k.bg = bg /\ k.sp = j.sp
           /\ k.pair = (IF p < 0 THEN j.pair ELSE p)
           /\ p \in Nat \cup {-1}
<1> DEFINE c == <<fg, bg>>
           p == PairOf(m.pairs, c)
           x == IF p < 0 THEN j.pair ELSE p
<1>1. m.pairs \in Seq(Colour \X Colour) /\ c \in Colour \X Colour
  BY NodeFields
<1>2. p \in Nat \cup {-1}
  <2> HIDE DEF c
  <2>1. /\ NoPair(m.pairs, c) => p = -1
        /\ ~NoPair(m.pairs, c) => p \in 1 .. Len(AllocPair(m.pairs, c))
    BY <1>1, FoundPair
  <2> QED BY <2>1
<1> HIDE DEF p
<1>3. x \in Nat
  <2>1. j.pair \in Nat
    BY ScreenFields
  <2> QED BY <1>2, <2>1
<1>4. Coloured(j, m, fg, bg) = [j EXCEPT !.fg = fg, !.bg = bg, !.pair = x]
  BY DEF Coloured, p
<1>5. LET k == [j EXCEPT !.fg = fg, !.bg = bg, !.pair = x] IN
      /\ k \in ScreenRecord /\ k.win = j.win /\ k.tos = j.tos /\ k.off = j.off
      /\ k.saved = j.saved /\ k.sy = j.sy /\ k.fg = fg /\ k.bg = bg /\ k.sp = j.sp
      /\ k.pair = x
  <2> HIDE DEF WindowRecord, Colour, x
  <2> QED BY <1>3 DEF ScreenRecord
<1> QED BY <1>2, <1>4, <1>5 DEF p

LEMMA ColouredSame ==
    ASSUME NEW m \in NodeRecord, NEW j \in ScreenRecord, NEW fg \in Colour, NEW bg \in Colour,
           NEW k, k = Coloured(j, m, fg, bg)
    PROVE  /\ k \in ScreenRecord /\ k.win = j.win /\ k.tos = j.tos /\ k.off = j.off
           /\ k.saved = j.saved /\ k.sy = j.sy
<1> DEFINE q == Coloured(j, m, fg, bg)
           p == PairOf(m.pairs, <<fg, bg>>)
<1>1. /\ q \in ScreenRecord /\ q.win = j.win /\ q.tos = j.tos /\ q.off = j.off
      /\ q.saved = j.saved /\ q.sy = j.sy /\ q.fg = fg /\ q.bg = bg /\ q.sp = j.sp
      /\ q.pair = (IF p < 0 THEN j.pair ELSE p)
      /\ p \in Nat \cup {-1}
  BY ColouredFields, ZenonT(30)
<1> HIDE DEF q, p
<1>2. k = q
  BY DEF q
<1> QED BY <1>1, <1>2

LEMMA ColouredPainted ==
    ASSUME NEW m \in NodeRecord, NEW j \in ScreenRecord, NEW fg \in Colour, NEW bg \in Colour,
           j.pair <= Len(m.pairs), j.sp <= Len(m.pairs)
    PROVE  LET k == Coloured(j, m, fg, bg)
               q == AllocPair(m.pairs, <<fg, bg>>) IN Painted(k, q) /\ Drawn(k, q)
<1> DEFINE c == <<fg, bg>>
           p == PairOf(m.pairs, c)
           q == AllocPair(m.pairs, c)
           k == Coloured(j, m, fg, bg)
<1>1. m.pairs \in Seq(Colour \X Colour) /\ c \in Colour \X Colour
  BY NodeFields
<1>2. /\ q \in Seq(Colour \X Colour) /\ Len(m.pairs) <= Len(q)
      /\ (NoPair(m.pairs, c) => p = -1 /\ NoPair(q, c))
      /\ (~NoPair(m.pairs, c) => p \in 1 .. Len(q) /\ q[p] = c)
  <2> HIDE DEF c
  <2> QED BY <1>1, FoundPair
<1>3. Len(q) \in Nat /\ Len(m.pairs) \in Nat /\ j.pair \in Nat /\ j.sp \in Nat
  BY <1>1, <1>2, LenProperties, ScreenFields
<1>4. k.fg = fg /\ k.bg = bg /\ k.sp = j.sp /\ k.pair = (IF p < 0 THEN j.pair ELSE p)
  BY ColouredFields
<1> HIDE DEF k, q, p
<1>5. CASE NoPair(m.pairs, c)
  <2>1. k.pair = j.pair /\ NoPair(q, c)
    BY <1>2, <1>4, <1>5
  <2>2. k.pair <= Len(q) /\ k.sp <= Len(q)
    BY <1>2, <1>3, <1>4, <2>1
  <2>3. Painted(k, q) /\ Drawn(k, q)
    BY <1>4, <2>1, <2>2 DEF Painted, Drawn
  <2> QED BY <2>3 DEF k, q
<1>6. CASE ~NoPair(m.pairs, c)
  <2>1. k.pair = p /\ p # 0 /\ q[p] = c /\ p <= Len(q)
    BY <1>2, <1>3, <1>4, <1>6
  <2>2. k.sp <= Len(q)
    BY <1>2, <1>3, <1>4
  <2>3. Painted(k, q) /\ Drawn(k, q)
    BY <1>4, <2>1, <2>2 DEF Painted, Drawn
  <2> QED BY <2>3 DEF k, q
<1> QED BY <1>5, <1>6

LEMMA SetColoursIs ==
    ASSUME NEW m \in NodeRecord, NEW fg \in Colour, NEW bg \in Colour
    PROVE  SetColours(m, fg, bg) =
               [Put(m, m.s, Coloured(Scr(m), m, fg, bg))
                   EXCEPT !.pairs = AllocPair(m.pairs, <<fg, bg>>)]
<1> DEFINE c == <<fg, bg>>
           q == AllocPair(m.pairs, c)
           p == PairOf(m.pairs, c)
           k0 == [Scr(m) EXCEPT !.fg = fg, !.bg = bg]
           k == Coloured(Scr(m), m, fg, bg)
           j == [m EXCEPT !.scr[m.s].fg = fg, !.scr[m.s].bg = bg]
<1>1. /\ m.s \in Screens /\ Scr(m) = m.scr[m.s] /\ Scr(m) \in ScreenRecord
      /\ m.scr \in [Screens -> ScreenRecord]
  BY NodeFields
<1>2. k0 \in ScreenRecord /\ k0.fg = fg /\ k0.bg = bg
  <2> HIDE DEF WindowRecord, Colour
  <2> QED BY <1>1 DEF ScreenRecord
<1>3. j = Put(m, m.s, k0)
  BY <1>1 DEF Put, Scr
<1>4. k = IF p < 0 THEN k0 ELSE [k0 EXCEPT !.pair = p]
  <2> HIDE DEF p
  <2>1. k = [Scr(m) EXCEPT !.fg = fg, !.bg = bg, !.pair = IF p < 0 THEN @ ELSE p]
    BY DEF Coloured, p
  <2> HIDE DEF k
  <2>2. CASE p < 0
    <3> HIDE DEF WindowRecord, Colour
    <3> QED BY <1>1, <2>1, <2>2 DEF ScreenRecord
  <2>3. CASE ~(p < 0)
    BY <2>1, <2>3
  <2> QED BY <2>2, <2>3
<1> HIDE DEF k0
<1>5. /\ j \in NodeRecord /\ j.s = m.s /\ j.scr[m.s] = k0 /\ j.pairs = m.pairs
      /\ j.scr \in [Screens -> ScreenRecord]
  <2>1. /\ Put(m, m.s, k0) \in NodeRecord /\ Put(m, m.s, k0).s = m.s
        /\ Put(m, m.s, k0).scr[m.s] = k0 /\ Put(m, m.s, k0).pairs = m.pairs
    BY <1>1, <1>2, PutNode
  <2> QED BY <1>3, <2>1, NodeFields
<1>6. SetColours(m, fg, bg) = wcolor_set([j EXCEPT !.pairs = q], p)
  <2>1. SetColours(m, fg, bg) = wcolor_set(AllocColours(j), PairOf(j.pairs, c))
    BY DEF SetColours
  <2> HIDE DEF j
  <2>2. Colours(j) = c
    BY <1>2, <1>5 DEF Colours, Scr
  <2> HIDE DEF c
  <2>3. AllocColours(j) = [j EXCEPT !.pairs = q]
    BY <1>5, <2>2 DEF AllocColours
  <2> QED BY <1>5, <2>1, <2>3
<1> HIDE DEF j, q, p, c, k
<1>7. wcolor_set([j EXCEPT !.pairs = q], p) = [Put(m, m.s, k) EXCEPT !.pairs = q]
  <2>1. CASE p < 0
    BY <1>3, <1>4, <2>1 DEF wcolor_set
  <2>2. CASE ~(p < 0)
    <3> HIDE DEF ScreenRecord, Colour
    <3>1. wcolor_set([j EXCEPT !.pairs = q], p) = [[j EXCEPT !.pairs = q] EXCEPT !.scr[m.s].pair = p]
      BY <1>5, <2>2 DEF wcolor_set, NodeRecord
    <3>2. [[j EXCEPT !.pairs = q] EXCEPT !.scr[m.s].pair = p] = [[j EXCEPT !.scr[m.s].pair = p] EXCEPT !.pairs = q]
      BY <1>5 DEF NodeRecord
    <3>3. [j EXCEPT !.scr[m.s].pair = p] = Put(j, m.s, [k0 EXCEPT !.pair = p])
      BY <1>5 DEF Put, NodeRecord
    <3>4. Put(Put(m, m.s, k0), m.s, k) = Put(m, m.s, k)
      BY <1>1 DEF Put, NodeRecord
    <3> QED BY <1>3, <1>4, <2>2, <3>1, <3>2, <3>3, <3>4
  <2> QED BY <2>1, <2>2
<1> QED BY <1>6, <1>7 DEF j, q, p, c, k

LEMMA SetColoursKept ==
    ASSUME NEW m, NodeInv(m), NEW fg \in Colour, NEW bg \in Colour
    PROVE  Kept(m, SetColours(m, fg, bg))
<1> DEFINE c == <<fg, bg>>
           k == Coloured(Scr(m), m, fg, bg)
<1>1. /\ m \in NodeRecord /\ m.s \in Screens /\ Scr(m) = m.scr[m.s] /\ Scr(m) \in ScreenRecord
      /\ c \in Colour \X Colour
  BY NodeFields DEF NodeInv
<1>2. /\ k \in ScreenRecord /\ k.win = Scr(m).win /\ k.tos = Scr(m).tos /\ k.off = Scr(m).off
      /\ k.saved = Scr(m).saved /\ k.sy = Scr(m).sy
  BY <1>1, ColouredFields
<1>3. ScreenFits(k, m.s, m.h, m.w)
  <2> HIDE DEF k
  <2> QED BY <1>1, <1>2 DEF NodeInv, ScreenFits
<1>4. Painted(k, AllocPair(m.pairs, c)) /\ Drawn(k, AllocPair(m.pairs, c))
  <2>1. Scr(m).pair <= Len(m.pairs) /\ Scr(m).sp <= Len(m.pairs)
    BY <1>1 DEF NodeInv, Painted
  <2> QED BY <1>1, <2>1, ColouredPainted
<1>5. OnScreen(m, m.s) => (k.win.y >= k.tos /\ (k.saved => k.sy >= k.tos))
  <2> HIDE DEF k
  <2> QED BY <1>1, <1>2 DEF OnScreen
<1>6. SetColours(m, fg, bg) = [Put(m, m.s, k) EXCEPT !.pairs = AllocPair(m.pairs, c)]
  BY <1>1, SetColoursIs
<1> HIDE DEF k, c
<1> QED BY <1>1, <1>2, <1>3, <1>4, <1>5, <1>6, PaintKept
LEMMA Sgr0Kept ==
    ASSUME NEW m, NodeInv(m)
    PROVE  Kept(m, sgr0(m)) /\ Drawn(Scr(sgr0(m)), sgr0(m).pairs)
<1> DEFINE k == [Scr(m) EXCEPT !.fg = -1, !.bg = -1, !.pair = 0]
<1>1. /\ m \in NodeRecord /\ m.s \in Screens /\ Scr(m) = m.scr[m.s] /\ Scr(m) \in ScreenRecord
      /\ m.scr \in [Screens -> ScreenRecord]
  BY NodeFields DEF NodeInv
<1>2. /\ k \in ScreenRecord /\ k.win = Scr(m).win /\ k.tos = Scr(m).tos /\ k.off = Scr(m).off
      /\ k.saved = Scr(m).saved /\ k.sy = Scr(m).sy /\ k.fg = -1 /\ k.bg = -1
      /\ k.pair = 0 /\ k.sp = Scr(m).sp
  <2>1. -1 \in Colour /\ 0 \in Nat
    BY DEF Colour
  <2> HIDE DEF WindowRecord, Colour
  <2> QED BY <1>1, <2>1 DEF ScreenRecord
<1>3. sgr0(m) = Done(Put(m, m.s, k))
  <2> DEFINE j == [m EXCEPT !.scr[m.s].fg = -1, !.scr[m.s].bg = -1]
             k0 == [Scr(m) EXCEPT !.fg = -1, !.bg = -1]
  <2>1. j = Put(m, m.s, k0) /\ k = [k0 EXCEPT !.pair = 0]
    BY <1>1 DEF Put, Scr
  <2>2. wcolor_set(j, 0) = [j EXCEPT !.scr[j.s].pair = 0]
    BY DEF wcolor_set
  <2>3. sgr0(m) = Done(wcolor_set(j, 0))
    BY DEF sgr0
  <2> HIDE DEF j, k0, k
  <2>4. wcolor_set(j, 0) = Put(m, m.s, k)
    <3> HIDE DEF ScreenRecord, Colour
    <3> QED BY <1>1, <2>1, <2>2 DEF Put, NodeRecord
  <2> QED BY <2>3, <2>4
<1> HIDE DEF k
<1>4. ScreenFits(k, m.s, m.h, m.w)
  BY <1>1, <1>2 DEF NodeInv, ScreenFits
<1>5. Painted(k, m.pairs) /\ Drawn(k, m.pairs)
  <2>1. Len(m.pairs) \in Nat
    BY <1>1, NodeFields, LenProperties
  <2>2. k.sp <= Len(m.pairs) /\ k.pair <= Len(m.pairs)
    BY <1>1, <1>2, <2>1 DEF NodeInv, Painted
  <2>3. Drawn(k, m.pairs)
    BY <1>2 DEF Drawn
  <2> QED BY <2>2, <2>3 DEF Painted
<1>6. OnScreen(m, m.s) => (k.win.y >= k.tos /\ (k.saved => k.sy >= k.tos))
  BY <1>1, <1>2 DEF OnScreen
<1> DEFINE p == Put(m, m.s, k)
<1>7. Kept(m, p) /\ Scr(p) = k
  BY <1>2, <1>4, <1>5, <1>6, PutKept
<1>8. p.pairs = m.pairs
  BY <1>1, <1>2, PutNode
<1> HIDE DEF p
<1>9. Kept(p, Done(p)) /\ Scr(Done(p)) = k
  BY <1>7, DoneKept DEF Kept, Scr
<1>10. Done(p).pairs = m.pairs
  <2>1. p \in NodeRecord
    BY <1>7 DEF Kept, NodeInv
  <2> HIDE DEF ScreenRecord, Colour
  <2> QED BY <1>8, <2>1 DEF Done, NodeRecord
<1>11. sgr0(m) = Done(p)
  BY <1>3 DEF p
<1> QED BY <1>5, <1>7, <1>9, <1>10, <1>11, KeptTwice

-----------------------------------------------------------------------------
(* The saved cursor. *)

LEMMA SaveKept ==
    ASSUME NEW m, NodeInv(m)
    PROVE  Kept(m, sc(m))
<1> DEFINE k == [Scr(m) EXCEPT !.sx = X(m), !.sy = Py(m), !.sfg = Scr(m).fg, !.sbg = Scr(m).bg,
                               !.sp = Scr(m).pair, !.oxenl = Scr(m).xenl, !.saved = TRUE]
<1>1. /\ m \in NodeRecord /\ m.s \in Screens /\ Scr(m) = m.scr[m.s] /\ Scr(m) \in ScreenRecord
      /\ m.scr \in [Screens -> ScreenRecord] /\ Win(m) = Scr(m).win
  BY NodeFields DEF NodeInv
<1>2. X(m) \in Nat /\ Py(m) \in Nat /\ Py(m) = Win(m).y
  BY NodeNumbers DEF Py
<1>3. /\ k \in ScreenRecord /\ k.win = Scr(m).win /\ k.tos = Scr(m).tos /\ k.off = Scr(m).off
      /\ k.saved = TRUE /\ k.sy = Py(m) /\ k.fg = Scr(m).fg /\ k.bg = Scr(m).bg
      /\ k.pair = Scr(m).pair /\ k.sp = Scr(m).pair
  <2> HIDE DEF WindowRecord, Colour
  <2> QED BY <1>1, <1>2 DEF ScreenRecord
<1>4. sc(m) = Done(Put(m, m.s, k))
  <2>1. sc(m) = Done([m EXCEPT !.scr[m.s] = k])
    <3>1. m.scr[m.s] = Scr(m)
      BY <1>1
    <3> QED BY <3>1 DEF sc
  <2> QED BY <2>1 DEF Put
<1> HIDE DEF k
<1>5. /\ ScreenFits(k, m.s, m.h, m.w) /\ Painted(k, m.pairs)
      /\ Drawn(Scr(m), m.pairs) => Drawn(k, m.pairs)
  BY <1>1, <1>3 DEF NodeInv, ScreenFits, Painted, Drawn
<1>6. OnScreen(m, m.s) => (k.win.y >= k.tos /\ (k.saved => k.sy >= k.tos))
  BY <1>1, <1>2, <1>3 DEF OnScreen
<1>7. Kept(m, Put(m, m.s, k))
  BY <1>3, <1>5, <1>6, PutKept
<1> QED BY <1>4, <1>7, DoneKept, KeptTwice DEF Kept

(* Until its colours are set, the screen that comes back may show others,  *)
(* but its cursor is where it was saved.                                   *)
LEMMA RestoreKept ==
    ASSUME NEW m, NodeInv(m)
    PROVE  Kept(m, rc(m))
<1>1. /\ m \in NodeRecord /\ m.s \in Screens /\ Scr(m) = m.scr[m.s] /\ Scr(m) \in ScreenRecord
      /\ m.scr \in [Screens -> ScreenRecord] /\ Win(m) = Scr(m).win
  BY NodeFields DEF NodeInv
<1>2. CASE ~Scr(m).saved
  BY <1>2, KeptSelf DEF rc
<1>3. CASE Scr(m).saved
  <2> DEFINE sy == Scr(m).sy
             sx == Scr(m).sx
             win == wmove(Win(m), sy, sx)
             g == [Scr(m) EXCEPT !.win = win, !.pair = Scr(m).sp, !.xenl = Scr(m).oxenl]
             back == [wcolor_set(Move(m, sy, sx), Scr(m).sp) EXCEPT !.scr[m.s].xenl = Scr(m).oxenl]
  <2>1. sy \in Nat /\ sx \in Nat /\ Scr(m).sp \in Nat /\ Scr(m).sfg \in Colour /\ Scr(m).sbg \in Colour
    BY <1>1, ScreenFields
  <2>2. rc(m) = Done(SetColours(back, Scr(m).sfg, Scr(m).sbg))
    BY <1>3 DEF rc
  <2>3. /\ win \in WindowRecord /\ win.rows = Win(m).rows /\ win.columns = Win(m).columns
        /\ win.top = Win(m).top /\ win.bot = Win(m).bot /\ win.text = Win(m).text
        /\ win.y \in {Win(m).y, sy}
        /\ win.y < Win(m).rows /\ win.x < Win(m).columns
    <3>1. Win(m) \in WindowRecord /\ Win(m).y < Win(m).rows /\ Win(m).x < Win(m).columns
      BY NodeNumbers DEF Py, X
    <3>2. Win(m).rows \in Nat /\ Win(m).columns \in Nat
      BY NodeNumbers
    <3> HIDE DEF sy, sx
    <3> QED BY <2>1, <3>1, <3>2, Moved
  <2>4. back = Put(m, m.s, g)
    <3> DEFINE j1 == [Scr(m) EXCEPT !.win = win]
    <3>1. Move(m, sy, sx) = Put(m, m.s, j1)
      BY <1>1 DEF Move, SetWin, Put, Scr
    <3>2. back = [wcolor_set(Put(m, m.s, j1), Scr(m).sp) EXCEPT !.scr[m.s].xenl = Scr(m).oxenl]
      BY <3>1
    <3> HIDE DEF win, back
    <3>3. j1 \in ScreenRecord /\ g = [j1 EXCEPT !.pair = Scr(m).sp, !.xenl = Scr(m).oxenl]
      BY <1>1, <2>3 DEF ScreenRecord
    <3> HIDE DEF j1, g, ScreenRecord, Colour
    <3>4. LET p == Put(m, m.s, j1) IN
          /\ p \in NodeRecord /\ p.s = m.s /\ p.scr[m.s] = j1
      BY <1>1, <3>3, PutNode
    <3>5. wcolor_set(Put(m, m.s, j1), Scr(m).sp) = Put(m, m.s, [j1 EXCEPT !.pair = Scr(m).sp])
      <4> DEFINE p == Put(m, m.s, j1)
      <4>1. wcolor_set(p, Scr(m).sp) = [p EXCEPT !.scr[p.s].pair = Scr(m).sp]
        <5>1. ~(Scr(m).sp < 0)
          BY <2>1
        <5> HIDE DEF p
        <5> QED BY <5>1 DEF wcolor_set
      <4>2. [p EXCEPT !.scr[m.s].pair = Scr(m).sp] = Put(p, m.s, [j1 EXCEPT !.pair = Scr(m).sp])
        <5> HIDE DEF p
        <5> QED BY <1>1, <3>4 DEF p, Put, NodeRecord
      <4>3. Put(p, m.s, [j1 EXCEPT !.pair = Scr(m).sp]) = Put(m, m.s, [j1 EXCEPT !.pair = Scr(m).sp])
        BY <1>1 DEF Put, NodeRecord
      <4> QED BY <3>4, <4>1, <4>2, <4>3
    <3> DEFINE j2 == [j1 EXCEPT !.pair = Scr(m).sp]
    <3>6. g = [j2 EXCEPT !.xenl = Scr(m).oxenl]
      BY <3>3
    <3> HIDE DEF j2
    <3>7. [Put(m, m.s, j2) EXCEPT !.scr[m.s].xenl = Scr(m).oxenl] = Put(m, m.s, g)
      BY <1>1, <3>6 DEF Put, NodeRecord
    <3> QED BY <3>2, <3>5, <3>7 DEF j2
  <2> HIDE DEF win, back, sy, sx
  <2>5. /\ g \in ScreenRecord /\ g.win = win /\ g.tos = Scr(m).tos /\ g.off = Scr(m).off
        /\ g.saved = Scr(m).saved /\ g.sy = Scr(m).sy /\ g.pair = Scr(m).sp /\ g.sp = Scr(m).sp
    <3>1. Scr(m).oxenl \in BOOLEAN
      BY <1>1, ScreenFields
    <3> HIDE DEF WindowRecord, Colour
    <3> QED BY <1>1, <2>1, <2>3, <3>1 DEF ScreenRecord
  <2> HIDE DEF g
  <2>6. back \in NodeRecord /\ back.s = m.s /\ Scr(back) = g /\ back.pairs = m.pairs
    <3>1. /\ Put(m, m.s, g) \in NodeRecord /\ Put(m, m.s, g).s = m.s
          /\ Put(m, m.s, g).scr[m.s] = g /\ Put(m, m.s, g).pairs = m.pairs
      BY <1>1, <2>5, PutNode
    <3> QED BY <2>4, <3>1 DEF Scr
  <2> DEFINE ink == Scr(m).sfg
             paper == Scr(m).sbg
             c == <<ink, paper>>
             k == Coloured(g, m, ink, paper)
  <2>7. Coloured(g, back, ink, paper) = k
    BY <2>6 DEF Coloured
  <2>8. SetColours(back, ink, paper) = [Put(m, m.s, k) EXCEPT !.pairs = AllocPair(m.pairs, c)]
    <3>1. SetColours(back, ink, paper) = [Put(back, m.s, k) EXCEPT !.pairs = AllocPair(m.pairs, c)]
      BY <2>1, <2>6, <2>7, SetColoursIs
    <3> HIDE DEF k, ScreenRecord, Colour
    <3>2. Put(Put(m, m.s, g), m.s, k) = Put(m, m.s, k)
      BY <1>1 DEF Put, NodeRecord
    <3> QED BY <2>4, <3>1, <3>2
  <2>9. /\ k \in ScreenRecord /\ k.win = win /\ k.tos = Scr(m).tos /\ k.off = Scr(m).off
        /\ k.saved = Scr(m).saved /\ k.sy = Scr(m).sy
    <3>1. ink \in Colour /\ paper \in Colour
      BY <2>1
    <3>2. /\ k \in ScreenRecord /\ k.win = g.win /\ k.tos = g.tos /\ k.off = g.off
          /\ k.saved = g.saved /\ k.sy = g.sy
      <4>1. k = Coloured(g, m, ink, paper)
        OBVIOUS
      <4> HIDE DEF ink, paper, k
      <4> QED BY <1>1, <2>5, <3>1, <4>1, ColouredSame
    <3> HIDE DEF k
    <3> QED BY <2>5, <3>2
  <2>10. Painted(k, AllocPair(m.pairs, c)) /\ Drawn(k, AllocPair(m.pairs, c))
    <3>1. Scr(m).sp <= Len(m.pairs)
      BY <1>1 DEF NodeInv, Painted
    <3> QED BY <1>1, <2>1, <2>5, <3>1, ColouredPainted
  <2>11. c \in Colour \X Colour
    BY <2>1
  <2> HIDE DEF k, ink, paper, c
  <2>12. ScreenFits(k, m.s, m.h, m.w)
    BY <1>1, <2>3, <2>9 DEF NodeInv, ScreenFits, WindowFits
  <2>13. OnScreen(m, m.s) => (k.win.y >= k.tos /\ (k.saved => k.sy >= k.tos))
    BY <1>1, <1>3, <2>3, <2>9 DEF OnScreen, sy
  <2>14. Kept(m, SetColours(back, ink, paper))
    BY <2>8, <2>9, <2>10, <2>11, <2>12, <2>13, PaintKept
  <2> QED BY <2>2, <2>14, DoneKept, KeptTwice DEF Kept, ink, paper
<1> QED BY <1>2, <1>3
-----------------------------------------------------------------------------
(* The loop of sgr: the node it works on, the copies of the colours and    *)
(* what is left of an indexed colour.                                      *)
SgrStates(m) ==
    [m : Kin(m), fg : Colour, bg : Colour, doc : BOOLEAN, skip : Nat]

LEMMA SgrArgumentKept ==
    ASSUME NEW m, NEW r \in SgrStates(m), NEW a \in Seq(Nat), NEW i \in Nat
    PROVE  SgrArgument(r, a, i) \in SgrStates(m)
<1> DEFINE code == P0(a, i)
           fg(c) == [r EXCEPT !.fg = c, !.doc = TRUE]
           bg(c) == [r EXCEPT !.bg = c, !.doc = TRUE]
           f38 == IF P0(a, i + 1) = 5 THEN P0(a, i + 2) ELSE Scr(r.m).fg
           b48 == IF P0(a, i + 1) = 5 THEN P0(a, i + 2) ELSE Scr(r.m).bg
<1> HIDE DEF Colour
<1>1. r.m \in Kin(m) /\ r.fg \in Colour /\ r.bg \in Colour /\ r.doc \in BOOLEAN /\ r.skip \in Nat
  BY DEF SgrStates
<1>2. \A c \in Colour : fg(c) \in SgrStates(m) /\ bg(c) \in SgrStates(m)
                        /\ fg(c).skip = r.skip /\ bg(c).skip = r.skip
  BY <1>1 DEF SgrStates
<1>3. \A q \in SgrStates(m) : [q EXCEPT !.skip = 2] \in SgrStates(m)
  BY DEF SgrStates
<1>4. [r EXCEPT !.m = sgr0(@)] \in SgrStates(m)
  <2>1. sgr0(r.m) \in Kin(m)
    <3>1. NodeInv(r.m)
      BY <1>1 DEF Kin, Kept
    <3> QED BY <1>1, <3>1, Sgr0Kept, KinStep
  <2> QED BY <1>1, <2>1 DEF SgrStates
<1>5. code \in Nat /\ f38 \in Colour /\ b48 \in Colour
  <2>1. /\ P0(a, i) \in Nat /\ P0(a, i + 1) \in Nat /\ P0(a, i + 2) \in Nat
    <3>1. \A e \in Nat : P0(a, e) \in Nat
      BY ArgumentNat
    <3>2. i + 1 \in Nat /\ i + 2 \in Nat
      OBVIOUS
    <3> QED BY <3>1, <3>2
  <2>2. Scr(r.m).fg \in Colour /\ Scr(r.m).bg \in Colour
    BY <1>1, NodeFields, ScreenFields DEF Kin
  <2> QED BY <2>1, <2>2 DEF Colour
<1>6. r.skip > 0 => [r EXCEPT !.skip = @ - 1] \in SgrStates(m)
  BY <1>1 DEF SgrStates
<1>7. /\ code \in 30 .. 37 => code - 30 \in Colour
      /\ code \in 90 .. 97 => code - 90 \in Colour
      /\ code \in 40 .. 47 => code - 40 \in Colour
      /\ code \in 100 .. 107 => code - 100 \in Colour
      /\ -1 \in Colour
  <2> HIDE DEF code
  <2> QED BY <1>5 DEF Colour
<1>8. SgrArgument(r, a, i) =
        CASE r.skip > 0 -> [r EXCEPT !.skip = @ - 1]
          [] r.skip = 0 /\ code = 0 -> [r EXCEPT !.m = sgr0(@)]
          [] r.skip = 0 /\ code \in 30 .. 37 -> fg(code - 30)
          [] r.skip = 0 /\ code \in 90 .. 97 -> fg(code - 90)
          [] r.skip = 0 /\ code \in 40 .. 47 -> bg(code - 40)
          [] r.skip = 0 /\ code \in 100 .. 107 -> bg(code - 100)
          [] r.skip = 0 /\ code = 38 -> [fg(f38) EXCEPT !.skip = 2]
          [] r.skip = 0 /\ code = 48 -> [bg(b48) EXCEPT !.skip = 2]
          [] r.skip = 0 /\ code = 39 -> fg(-1)
          [] r.skip = 0 /\ code = 49 -> bg(-1)
          [] OTHER -> r
  BY DEF SgrArgument
<1> HIDE DEF code, fg, bg, f38, b48
<1>9. /\ [fg(f38) EXCEPT !.skip = 2] \in SgrStates(m) /\ [bg(b48) EXCEPT !.skip = 2] \in SgrStates(m)
      /\ fg(-1) \in SgrStates(m) /\ bg(-1) \in SgrStates(m)
  BY <1>2, <1>3, <1>5, <1>7
<1>10. /\ code \in 30 .. 37 => fg(code - 30) \in SgrStates(m)
       /\ code \in 90 .. 97 => fg(code - 90) \in SgrStates(m)
       /\ code \in 40 .. 47 => bg(code - 40) \in SgrStates(m)
       /\ code \in 100 .. 107 => bg(code - 100) \in SgrStates(m)
  BY <1>2, <1>7
<1> QED BY <1>1, <1>4, <1>6, <1>8, <1>9, <1>10
LEMMA SgrKept ==
    ASSUME NEW m, NodeInv(m), NEW a \in Seq(Nat)
    PROVE  Kept(m, sgr(m, a))
<1> DEFINE k == IF a = <<>> THEN sgr0(m) ELSE m
           V == SgrStates(m)
           v == [m |-> k, fg |-> Scr(k).fg, bg |-> Scr(k).bg, doc |-> FALSE, skip |-> 0]
           c == Len(a)
           G == [i \in 1 .. c |-> [r \in V |-> SgrArgument(r, a, i - 1)]]
           Loop(r) == r = [i \in 0 .. c |-> IF i = 0 THEN v ELSE SgrArgument(r[i - 1], a, i - 1)]
<1>1. v \in V /\ c \in Nat
  <2>1. k \in Kin(m)
    BY Sgr0Kept, KinSelf, KinStep
  <2> HIDE DEF k
  <2>2. Scr(k).fg \in Colour /\ Scr(k).bg \in Colour
    BY <2>1, NodeFields, ScreenFields DEF Kin
  <2>3. v \in V
    <3> HIDE DEF Colour
    <3> QED BY <2>1, <2>2 DEF SgrStates
  <2>4. c \in Nat
    BY LenProperties
  <2> QED BY <2>3, <2>4
<1>2. \A i \in 1 .. c, r \in V : SgrArgument(r, a, i - 1) \in V
  <2>1. \A i \in 1 .. c : i - 1 \in Nat
    BY <1>1
  <2> QED BY <2>1, SgrArgumentKept
<1>3. sgr(m, a) = LET r == CHOOSE r : Loop(r) IN
                  IF r[c].doc THEN SetColours(r[c].m, r[c].fg, r[c].bg) ELSE r[c].m
  BY DEF sgr
<1> HIDE DEF k, v, V, c
<1>4. G \in Rounds(c, V)
  BY <1>2 DEF Rounds
<1>5. \E r : Loop(r)
  <2>1. PICK f : Runs(c, V, v, G, f)
    <3> HIDE DEF G
    <3> QED BY <1>1, <1>4, LoopStates
  <2>2. f \in [0 .. c -> V] /\ f[0] = v /\ \A i \in 1 .. c : f[i] = G[i][f[i - 1]]
    <3> HIDE DEF G
    <3> QED BY <2>1 DEF Runs
  <2>3. \A i \in 1 .. c : f[i] = SgrArgument(f[i - 1], a, i - 1)
    <3>1. \A i \in 1 .. c : f[i - 1] \in V
      BY <1>1, <2>2
    <3> QED BY <2>2, <3>1
  <2>4. Loop(f)
    BY <1>1, <2>2, <2>3
  <2> QED BY <2>4
<1> DEFINE r == CHOOSE r : Loop(r)
<1>6. Loop(r)
  <2> HIDE DEF Loop
  <2> QED BY <1>5
<1>7. sgr(m, a) = IF r[c].doc THEN SetColours(r[c].m, r[c].fg, r[c].bg) ELSE r[c].m
  BY <1>3
<1> HIDE DEF r
<1>8. r[c] \in V
  <2>1. r[0] \in V /\ \A i \in 1 .. c : i \in 0 .. c /\ i # 0
    BY <1>1, <1>6
  <2>2. \A i \in 1 .. c : r[i] = SgrArgument(r[i - 1], a, i - 1)
    BY <1>6, <2>1
  <2>3. \A i \in 1 .. c : r[i - 1] \in V => r[i] \in V
    BY <1>2, <2>2
  <2> HIDE DEF Loop
  <2> QED BY <1>1, <2>1, <2>3, LoopEnds
<1>9. r[c].m \in Kin(m) /\ r[c].fg \in Colour /\ r[c].bg \in Colour
  <2> HIDE DEF Colour
  <2> QED BY <1>8 DEF SgrStates, V
<1>10. Kept(m, r[c].m) /\ NodeInv(r[c].m)
  BY <1>9 DEF Kin, Kept
<1> QED BY <1>7, <1>9, <1>10, SetColoursKept, KeptTwice

-----------------------------------------------------------------------------
(* Erasing and printing. *)

(* The text of a window that keeps its size and its region; the cursor may *)
(* have been moved to do it and is moved back. *)
LEMMA TextKept ==
    ASSUME NEW m, NodeInv(m), NEW win \in WindowRecord,
           win.rows = Win(m).rows, win.columns = Win(m).columns,
           win.y < win.rows, win.x < win.columns, win.y >= Tos(m) \/ win.y >= Py(m),
           win.top = Win(m).top, win.bot = Win(m).bot,
           win.text \subseteq 0 .. (win.rows - 1)
    PROVE  Kept(m, SetWin(m, win)) /\ Win(SetWin(m, win)) = win /\ Tos(SetWin(m, win)) = Tos(m)
<1>1. Win(m).top <= Win(m).bot /\ Win(m).bot < Win(m).rows /\ Tos(m) <= Win(m).bot
  BY NodeNumbers
<1>2. WindowFits(win, Win(m).rows, Win(m).columns)
  BY <1>1 DEF WindowFits
<1> QED BY <1>1, <1>2, SetWinKept

LEMMA TextSet ==
    ASSUME NEW win \in WindowRecord, NEW T, T \subseteq 0 .. (win.rows - 1)
    PROVE  LET v == [win EXCEPT !.text = T] IN
           /\ v \in WindowRecord /\ v.rows = win.rows /\ v.columns = win.columns
           /\ v.y = win.y /\ v.x = win.x /\ v.top = win.top /\ v.bot = win.bot /\ v.text = T
<1>1. T \in SUBSET Nat
  BY WindowFields
<1> QED BY <1>1 DEF WindowRecord
LEMMA SetWinTwice ==
    ASSUME NEW m \in NodeRecord, NEW e \in WindowRecord, NEW v
    PROVE  /\ Win(SetWin(m, e)) = e /\ SetWin(SetWin(m, e), v) = SetWin(m, v)
<1>1. /\ m.s \in Screens /\ Scr(m) = m.scr[m.s] /\ Scr(m) \in ScreenRecord
      /\ m.scr \in [Screens -> ScreenRecord]
  BY NodeFields
<1> DEFINE k == [Scr(m) EXCEPT !.win = e]
           j == Put(m, m.s, k)
<1>2. k \in ScreenRecord /\ k.win = e
  <2> HIDE DEF WindowRecord, Colour
  <2> QED BY <1>1 DEF ScreenRecord
<1>3. SetWin(m, e) = j
  BY <1>1 DEF SetWin, Put
<1>4. SetWin(m, v) = Put(m, m.s, [Scr(m) EXCEPT !.win = v])
  BY <1>1 DEF SetWin, Put
<1>5. [k EXCEPT !.win = v] = [Scr(m) EXCEPT !.win = v]
  <2> HIDE DEF WindowRecord, Colour
  <2> QED BY <1>1 DEF ScreenRecord
<1> HIDE DEF k
<1>6. /\ j \in NodeRecord /\ j.s = m.s /\ j.scr[m.s] = k
  BY <1>1, <1>2, PutNode
<1>7. SetWin(j, v) = Put(j, m.s, [k EXCEPT !.win = v])
  <2> HIDE DEF j
  <2> QED BY <1>6 DEF SetWin, Put
<1>8. Put(j, m.s, [k EXCEPT !.win = v]) = Put(m, m.s, [k EXCEPT !.win = v])
  <2> HIDE DEF ScreenRecord, Colour
  <2> QED BY <1>1 DEF Put, NodeRecord
<1>9. Win(j) = e
  <2> HIDE DEF j
  <2> QED BY <1>2, <1>6 DEF Win, Scr
<1> QED BY <1>3, <1>4, <1>5, <1>7, <1>8, <1>9

(* Erasing moves the cursor of the window and moves it back. *)
LEMMA EraseKept ==
    ASSUME NEW m, NodeInv(m), NEW e \in WindowRecord,
           e.rows = Win(m).rows, e.columns = Win(m).columns,
           e.top = Win(m).top, e.bot = Win(m).bot, e.text \subseteq 0 .. (e.rows - 1)
    PROVE  /\ Kept(m, Move(SetWin(m, e), Py(m), X(m)))
           /\ Win(Move(SetWin(m, e), Py(m), X(m))) = wmove(e, Py(m), X(m))
<1>1. /\ Py(m) \in Nat /\ X(m) \in Nat /\ Py(m) < Win(m).rows /\ X(m) < Win(m).columns
      /\ Win(m).rows \in Nat /\ Win(m).columns \in Nat
  BY NodeNumbers
<1>2. m \in NodeRecord
  BY DEF NodeInv
<1> DEFINE v == wmove(e, Py(m), X(m))
<1>3. Move(SetWin(m, e), Py(m), X(m)) = SetWin(m, v)
  <2>1. Win(SetWin(m, e)) = e /\ SetWin(SetWin(m, e), v) = SetWin(m, v)
    BY <1>2, SetWinTwice
  <2> QED BY <2>1 DEF Move
<1>4. /\ v \in WindowRecord /\ v.rows = e.rows /\ v.columns = e.columns
      /\ v.top = e.top /\ v.bot = e.bot /\ v.text = e.text /\ v.y = Py(m) /\ v.x = X(m)
  BY <1>1, Moved
<1> HIDE DEF v
<1>5. Kept(m, SetWin(m, v)) /\ Win(SetWin(m, v)) = v
  BY <1>1, <1>4, TextKept
<1> QED BY <1>3, <1>5 DEF v

LEMMA Cleared ==
    ASSUME NEW win \in WindowRecord, win.text \subseteq 0 .. (win.rows - 1),
           NEW v \in {wclrtoeol(win), wclrtobot(win), werase(win)}
    PROVE  /\ v \in WindowRecord /\ v.rows = win.rows /\ v.columns = win.columns
           /\ v.top = win.top /\ v.bot = win.bot /\ v.text \subseteq win.text
           /\ v # werase(win) => v.y = win.y /\ v.x = win.x
<1> DEFINE line == IF win.x = 0 THEN win.text \ {win.y} ELSE win.text
           below == {r \in win.text : r > win.y}
<1>1. line \subseteq 0 .. (win.rows - 1)
  OBVIOUS
<1>2. CASE v = wclrtoeol(win)
  <2>1. v = [win EXCEPT !.text = line]
    BY <1>2 DEF wclrtoeol
  <2> HIDE DEF line
  <2>2. LET u == [win EXCEPT !.text = line] IN
        /\ u \in WindowRecord /\ u.rows = win.rows /\ u.columns = win.columns
        /\ u.y = win.y /\ u.x = win.x /\ u.top = win.top /\ u.bot = win.bot /\ u.text = line
    BY <1>1, TextSet
  <2> QED BY <2>1, <2>2 DEF line
<1>3. CASE v = wclrtobot(win)
  <2> DEFINE e == [win EXCEPT !.text = line]
  <2>1. wclrtoeol(win) = e
    BY DEF wclrtoeol
  <2>2. v = [e EXCEPT !.text = @ \ below]
    BY <1>3, <2>1 DEF wclrtobot
  <2>3. e.text = line
    BY DEF WindowRecord
  <2>4. v = [win EXCEPT !.text = line \ below]
    BY <2>2, <2>3 DEF WindowRecord
  <2>5. line \ below \subseteq win.text /\ line \ below \subseteq 0 .. (win.rows - 1)
    BY <1>1
  <2> HIDE DEF line, below, e
  <2>6. LET u == [win EXCEPT !.text = line \ below] IN
        /\ u \in WindowRecord /\ u.rows = win.rows /\ u.columns = win.columns
        /\ u.y = win.y /\ u.x = win.x /\ u.top = win.top /\ u.bot = win.bot
        /\ u.text = line \ below
    BY <2>5, TextSet
  <2> QED BY <2>4, <2>5, <2>6
<1>4. CASE v = werase(win)
  <2> DEFINE w == wmove(win, 0, 0)
  <2>1. /\ w \in WindowRecord /\ w.rows = win.rows /\ w.columns = win.columns
        /\ w.top = win.top /\ w.bot = win.bot
    BY Moved
  <2>2. v = [w EXCEPT !.text = {}]
    BY <1>4 DEF werase
  <2> HIDE DEF w
  <2>3. LET u == [w EXCEPT !.text = {}] IN
        /\ u \in WindowRecord /\ u.rows = w.rows /\ u.columns = w.columns
        /\ u.y = w.y /\ u.x = w.x /\ u.top = w.top /\ u.bot = w.bot /\ u.text = {}
    BY <2>1, TextSet
  <2> QED BY <1>4, <2>1, <2>2, <2>3
<1> QED BY <1>2, <1>3, <1>4

LEMMA EraseLineKept ==
    ASSUME NEW m, NodeInv(m), NEW a \in Seq(Nat)
    PROVE  Kept(m, el(m, a))
<1> DEFINE erased == CASE P0(a, 0) = 0 -> wclrtoeol(Win(m))
                       [] P0(a, 0) = 2 -> wclrtoeol(wmove(Win(m), Py(m), 0))
                       [] OTHER -> Win(m)
           k == AllocColours(m)
           u == wmove(Win(m), Py(m), 0)
<1>1. Kept(m, k) /\ Win(k) = Win(m) /\ Py(k) = Py(m) /\ X(k) = X(m)
  BY AllocKept DEF Win, Py, X
<1>2. el(m, a) = Done(Move(SetWin(k, erased), Py(m), X(m)))
  BY DEF el
<1>3. /\ Win(m) \in WindowRecord /\ Win(m).text \subseteq 0 .. (Win(m).rows - 1)
      /\ Py(m) \in Nat
  BY NodeNumbers
<1>4. /\ u \in WindowRecord /\ u.rows = Win(m).rows /\ u.columns = Win(m).columns
      /\ u.top = Win(m).top /\ u.bot = Win(m).bot /\ u.text = Win(m).text
  BY <1>3, Moved
<1>5. erased \in {wclrtoeol(Win(m)), wclrtoeol(u), Win(m)}
  OBVIOUS
<1> HIDE DEF erased, k, u
<1>6. /\ erased \in WindowRecord /\ erased.rows = Win(m).rows /\ erased.columns = Win(m).columns
      /\ erased.top = Win(m).top /\ erased.bot = Win(m).bot /\ erased.text \subseteq Win(m).text
  <2>1. CASE erased = wclrtoeol(Win(m))
    BY <1>3, <2>1, Cleared
  <2>2. CASE erased = wclrtoeol(u)
    BY <1>3, <1>4, <2>2, Cleared
  <2>3. CASE erased = Win(m)
    BY <1>3, <2>3
  <2> QED BY <1>5, <2>1, <2>2, <2>3
<1>7. Kept(k, Move(SetWin(k, erased), Py(k), X(k)))
  BY <1>1, <1>3, <1>6, EraseKept DEF Kept
<1> QED BY <1>1, <1>2, <1>7, DoneKept, KeptTwice DEF Kept

LEMMA EraseDisplayKept ==
    ASSUME NEW m, NodeInv(m), NEW a \in Seq(Nat)
    PROVE  Kept(m, ed(m, a))
<1> DEFINE above == {r \in Win(m).text : Tos(m) <= r /\ r < Py(m)}
           cut == [Win(m) EXCEPT !.text = @ \ above]
           u == wmove(Win(m), Tos(m), 0)
           erased == CASE P0(a, 0) = 0 -> wclrtobot(Win(m))
                       [] P0(a, 0) = 1 -> cut
                       [] P0(a, 0) = 2 -> wclrtobot(u)
                       [] P0(a, 0) = 3 -> werase(Win(m))
                       [] OTHER -> Win(m)
           k == IF P0(a, 0) = 1 THEN AllocColours(m) ELSE m
<1>1. Kept(m, k) /\ Win(k) = Win(m) /\ Py(k) = Py(m) /\ X(k) = X(m)
  BY AllocKept, KeptSelf DEF Win, Py, X
<1>2. ed(m, a) = Done(Move(SetWin(k, erased), Py(m), X(m)))
  BY DEF ed
<1>3. /\ Win(m) \in WindowRecord /\ Win(m).text \subseteq 0 .. (Win(m).rows - 1)
      /\ Tos(m) \in Nat
  BY NodeNumbers
<1>4. /\ u \in WindowRecord /\ u.rows = Win(m).rows /\ u.columns = Win(m).columns
      /\ u.top = Win(m).top /\ u.bot = Win(m).bot /\ u.text = Win(m).text
  BY <1>3, Moved
<1>5. /\ cut \in WindowRecord /\ cut.rows = Win(m).rows /\ cut.columns = Win(m).columns
      /\ cut.top = Win(m).top /\ cut.bot = Win(m).bot /\ cut.text \subseteq Win(m).text
  <2> DEFINE T == Win(m).text \ above
  <2>1. T \subseteq 0 .. (Win(m).rows - 1) /\ T \subseteq Win(m).text
    BY <1>3
  <2>2. cut = [Win(m) EXCEPT !.text = T]
    OBVIOUS
  <2> HIDE DEF T
  <2>3. LET w == [Win(m) EXCEPT !.text = T] IN
        /\ w \in WindowRecord /\ w.rows = Win(m).rows /\ w.columns = Win(m).columns
        /\ w.top = Win(m).top /\ w.bot = Win(m).bot /\ w.text = T
    BY <1>3, <2>1, TextSet
  <2> QED BY <2>1, <2>2, <2>3
<1> HIDE DEF cut, u
<1>6. erased \in {wclrtobot(Win(m)), cut, wclrtobot(u), werase(Win(m)), Win(m)}
  OBVIOUS
<1> HIDE DEF erased, k
<1>7. /\ erased \in WindowRecord /\ erased.rows = Win(m).rows /\ erased.columns = Win(m).columns
      /\ erased.top = Win(m).top /\ erased.bot = Win(m).bot /\ erased.text \subseteq Win(m).text
  <2>1. CASE erased \in {wclrtobot(Win(m)), werase(Win(m))}
    BY <1>3, <2>1, Cleared
  <2>2. CASE erased = wclrtobot(u)
    BY <1>3, <1>4, <2>2, Cleared
  <2>3. CASE erased \in {cut, Win(m)}
    BY <1>3, <1>5, <2>3
  <2> QED BY <1>6, <2>1, <2>2, <2>3
<1>8. Kept(k, Move(SetWin(k, erased), Py(k), X(k)))
  BY <1>1, <1>3, <1>7, EraseKept DEF Kept
<1> QED BY <1>1, <1>2, <1>8, DoneKept, KeptTwice DEF Kept
LEMMA FillKept ==
    ASSUME NEW m, NodeInv(m)
    PROVE  Kept(m, decaln(m)) /\ Kept(m, ich(m)) /\ Kept(m, dch(m)) /\ Kept(m, ech(m))
<1>1. Kept(m, decaln(m))
  <2> DEFINE screen == Tos(m) .. (Win(m).rows - 1)
             T == Win(m).text \cup screen
             v == [Win(m) EXCEPT !.text = T]
  <2>1. /\ m \in NodeRecord /\ m.s \in Screens /\ Scr(m) = m.scr[m.s] /\ Win(m) = Scr(m).win
        /\ m.scr \in [Screens -> ScreenRecord] /\ Scr(m) \in ScreenRecord
    BY NodeFields DEF NodeInv
  <2>2. /\ Win(m) \in WindowRecord /\ Win(m).text \subseteq 0 .. (Win(m).rows - 1)
        /\ Tos(m) \in Nat /\ Win(m).rows \in Nat /\ Py(m) = Win(m).y /\ X(m) = Win(m).x
        /\ Py(m) < Win(m).rows /\ X(m) < Win(m).columns /\ Py(m) \in Nat
    BY NodeNumbers DEF Py, X
  <2>3. T \subseteq 0 .. (Win(m).rows - 1)
    BY <2>2
  <2>4. decaln(m) = Done(SetWin(m, v))
    BY <2>1 DEF decaln, SetWin, Scr, Win
  <2> HIDE DEF T
  <2>5. /\ v \in WindowRecord /\ v.rows = Win(m).rows /\ v.columns = Win(m).columns
        /\ v.y = Win(m).y /\ v.x = Win(m).x /\ v.top = Win(m).top /\ v.bot = Win(m).bot /\ v.text = T
    BY <2>2, <2>3, TextSet
  <2> HIDE DEF v
  <2>6. v.y >= Py(m)
    BY <2>2, <2>5
  <2>7. Kept(m, SetWin(m, v))
    BY <2>2, <2>3, <2>5, <2>6, TextKept
  <2> QED BY <2>4, <2>7, DoneKept, KeptTwice DEF Kept
<1>2. Kept(m, ich(m)) /\ Kept(m, dch(m))
  BY DoneKept DEF ich, dch
<1>3. Kept(m, ech(m))
  BY AllocKept, DoneKept, KeptTwice DEF ech, Kept
<1> QED BY <1>1, <1>2, <1>3

(* A character in the last column leaves the line break pending. *)
LEMMA LastColumn ==
    ASSUME NEW m, NodeInv(m)
    PROVE  LET p == [SetWin(m, wins_nwstr(Win(m))) EXCEPT !.scr[m.s].xenl = TRUE] IN
           /\ Kept(m, p) /\ Py(p) = Py(m) /\ X(p) = X(m) /\ Scr(p).xenl = TRUE
           /\ Win(p).columns = Win(m).columns
<1> DEFINE v == wins_nwstr(Win(m))
           j == SetWin(m, v)
           k == [Scr(j) EXCEPT !.xenl = TRUE]
<1>1. /\ Win(m) \in WindowRecord /\ Win(m).text \subseteq 0 .. (Win(m).rows - 1)
      /\ Win(m).rows \in Nat /\ Py(m) = Win(m).y /\ X(m) = Win(m).x
      /\ Py(m) < Win(m).rows /\ X(m) < Win(m).columns /\ Py(m) \in Nat
  BY NodeNumbers DEF Py, X
<1>2. Win(m).text \cup {Win(m).y} \subseteq 0 .. (Win(m).rows - 1)
  BY <1>1
<1>3. v = [Win(m) EXCEPT !.text = Win(m).text \cup {Win(m).y}]
  BY DEF wins_nwstr, WriteRow
<1>4. /\ v \in WindowRecord /\ v.rows = Win(m).rows /\ v.columns = Win(m).columns
      /\ v.y = Win(m).y /\ v.x = Win(m).x /\ v.top = Win(m).top /\ v.bot = Win(m).bot
      /\ v.text = Win(m).text \cup {Win(m).y}
  <2> DEFINE T == Win(m).text \cup {Win(m).y}
  <2> HIDE DEF T
  <2>1. T \subseteq 0 .. (Win(m).rows - 1) /\ v = [Win(m) EXCEPT !.text = T]
    BY <1>2, <1>3 DEF T
  <2> HIDE DEF v
  <2>2. LET w == [Win(m) EXCEPT !.text = T] IN
        /\ w \in WindowRecord /\ w.rows = Win(m).rows /\ w.columns = Win(m).columns
        /\ w.y = Win(m).y /\ w.x = Win(m).x
        /\ w.top = Win(m).top /\ w.bot = Win(m).bot /\ w.text = T
    BY <1>1, <2>1, TextSet
  <2> QED BY <2>1, <2>2 DEF T
<1> HIDE DEF v
<1>5. v.y >= Py(m)
  BY <1>1, <1>4
<1>6. Kept(m, j) /\ Win(j) = v
  BY <1>1, <1>2, <1>4, <1>5, TextKept
<1> HIDE DEF j
<1>7. /\ j \in NodeRecord /\ j.s = m.s /\ NodeInv(j)
  BY <1>6 DEF Kept, NodeInv
<1>8. /\ Scr(j) \in ScreenRecord /\ Scr(j) = j.scr[j.s] /\ Win(j) = Scr(j).win
      /\ j.s \in Screens /\ j.scr \in [Screens -> ScreenRecord]
  BY <1>7, NodeFields
<1>9. /\ k \in ScreenRecord /\ k.win = Win(j) /\ k.tos = Scr(j).tos /\ k.off = Scr(j).off
      /\ k.saved = Scr(j).saved /\ k.sy = Scr(j).sy /\ k.fg = Scr(j).fg /\ k.bg = Scr(j).bg
      /\ k.pair = Scr(j).pair /\ k.sp = Scr(j).sp /\ k.xenl = TRUE
  <2> HIDE DEF WindowRecord, Colour
  <2> QED BY <1>8 DEF ScreenRecord
<1>10. [j EXCEPT !.scr[m.s].xenl = TRUE] = Put(j, j.s, k)
  BY <1>7, <1>8 DEF Put
<1> HIDE DEF k
<1> DEFINE p == Put(j, j.s, k)
<1>11. Kept(j, p) /\ Scr(p) = k /\ Win(p) = v
  BY <1>6, <1>7, <1>9, FlagsKept
<1> HIDE DEF p
<1>12. Kept(m, p)
  BY <1>6, <1>11, KeptTwice
<1>13. Py(p) = Py(m) /\ X(p) = X(m)
  BY <1>1, <1>4, <1>11 DEF Py, X
<1> QED BY <1>4, <1>9, <1>10, <1>11, <1>12, <1>13 DEF p, j, v

LEMMA NextColumn ==
    ASSUME NEW m, NodeInv(m)
    PROVE  LET p == SetWin(m, waddnwstr(Win(m))) IN
           /\ Kept(m, p) /\ Py(p) = Py(m) /\ Scr(p).xenl = Scr(m).xenl
           /\ X(m) < Win(m).columns - 1 => X(p) = X(m) + 1
<1> DEFINE T == Win(m).text \cup {Win(m).y}
           u == [Win(m) EXCEPT !.text = T]
           v == waddnwstr(Win(m))
<1>1. /\ Win(m) \in WindowRecord /\ Win(m).text \subseteq 0 .. (Win(m).rows - 1)
      /\ Win(m).rows \in Nat /\ Py(m) = Win(m).y /\ X(m) = Win(m).x /\ Win(m).columns \in Nat
      /\ Py(m) < Win(m).rows /\ X(m) < Win(m).columns /\ Py(m) \in Nat /\ X(m) \in Nat
  BY NodeNumbers DEF Py, X
<1>2. T \subseteq 0 .. (Win(m).rows - 1)
  BY <1>1
<1>3. v = wmove(u, Win(m).y, Win(m).x + 1)
  BY DEF waddnwstr, WriteRow
<1> HIDE DEF T
<1>4. /\ u \in WindowRecord /\ u.rows = Win(m).rows /\ u.columns = Win(m).columns
      /\ u.y = Win(m).y /\ u.x = Win(m).x /\ u.top = Win(m).top /\ u.bot = Win(m).bot /\ u.text = T
  BY <1>1, <1>2, TextSet
<1> HIDE DEF u, v
<1>5. /\ v \in WindowRecord /\ v.rows = Win(m).rows /\ v.columns = Win(m).columns
      /\ v.y = Win(m).y /\ v.top = Win(m).top /\ v.bot = Win(m).bot /\ v.text = T
      /\ v.x < v.columns /\ (X(m) < Win(m).columns - 1 => v.x = X(m) + 1)
  <2>1. Win(m).y \in Int /\ Win(m).x + 1 \in Int
    BY <1>1
  <2>2. LET w == wmove(u, Win(m).y, Win(m).x + 1) IN
        /\ w \in WindowRecord /\ w.rows = u.rows /\ w.columns = u.columns
        /\ w.top = u.top /\ w.bot = u.bot /\ w.text = u.text
        /\ IF Win(m).y \in 0 .. (u.rows - 1) /\ Win(m).x + 1 \in 0 .. (u.columns - 1)
           THEN w.y = Win(m).y /\ w.x = Win(m).x + 1 ELSE w.y = u.y /\ w.x = u.x
    BY <1>4, <2>1, Moved
  <2> QED BY <1>1, <1>3, <1>4, <2>2
<1>6. v.y >= Py(m)
  BY <1>1, <1>5
<1>7. Kept(m, SetWin(m, v)) /\ Win(SetWin(m, v)) = v
  BY <1>1, <1>2, <1>5, <1>6, TextKept
<1>8. Scr(SetWin(m, v)).xenl = Scr(m).xenl
  <2>1. Tos(m) <= Win(m).bot /\ Win(m).bot < Win(m).rows /\ Win(m).top <= Win(m).bot
    BY NodeNumbers
  <2>2. WindowFits(v, Win(m).rows, Win(m).columns)
    BY <1>1, <1>2, <1>5, <2>1 DEF WindowFits
  <2>3. Scr(SetWin(m, v)) = [Scr(m) EXCEPT !.win = v]
    BY <1>5, <1>6, <2>1, <2>2, SetWinKept
  <2>4. Scr(m) \in ScreenRecord
    BY NodeFields DEF NodeInv
  <2> HIDE DEF WindowRecord, Colour
  <2> QED BY <2>3, <2>4 DEF ScreenRecord
<1>9. Py(SetWin(m, v)) = Py(m) /\ (X(m) < Win(m).columns - 1 => X(SetWin(m, v)) = X(m) + 1)
  BY <1>1, <1>5, <1>7 DEF Py, X
<1> QED BY <1>7, <1>8, <1>9 DEF v
LEMMA RememberKept ==
    ASSUME NEW m, NodeInv(m)
    PROVE  LET p == [m EXCEPT !.repc = TRUE] IN Kept(m, p) /\ p.scr = m.scr /\ p.s = m.s
<1> DEFINE p == [m EXCEPT !.repc = TRUE]
<1>1. m \in NodeRecord
  BY DEF NodeInv
<1>2. /\ p \in NodeRecord /\ p.scr = m.scr /\ p.s = m.s /\ p.h = m.h
      /\ p.w = m.w /\ p.tabs = m.tabs /\ p.pairs = m.pairs
  <2> HIDE DEF ScreenRecord, Colour
  <2> QED BY <1>1 DEF NodeRecord
<1> HIDE DEF p
<1>3. Kept(m, p)
  BY <1>2 DEF Kept, NodeInv, OnScreen
<1> QED BY <1>2, <1>3 DEF p

(* The view before the character is put: on the next line if the break was *)
(* pending and margins are automatic. *)
Before(m) == IF Scr(m).insert THEN ich(m) ELSE m
Wrapped(m) ==
    LET k == Before(m) IN
    IF Scr(k).xenl THEN (IF k.am THEN nel(NoWrap(k)) ELSE NoWrap(k)) ELSE k

LEMMA WrappedKept ==
    ASSUME NEW m, NodeInv(m)
    PROVE  Kept(m, Wrapped(m))
<1> DEFINE k == Before(m)
<1>1. Kept(m, k) /\ NodeInv(k)
  BY FillKept, KeptSelf DEF Before, Kept
<1> HIDE DEF k
<1>2. Kept(k, NoWrap(k)) /\ NodeInv(NoWrap(k))
  BY <1>1, NoWrapKept DEF Kept
<1>3. Kept(k, nel(NoWrap(k)))
  BY <1>2, IndexKept, KeptTwice
<1>4. Wrapped(m) = IF Scr(k).xenl THEN (IF k.am THEN nel(NoWrap(k)) ELSE NoWrap(k)) ELSE k
  BY DEF Wrapped, k
<1> QED BY <1>1, <1>2, <1>3, <1>4, KeptTwice

LEMMA PrintKept ==
    ASSUME NEW m, NodeInv(m)
    PROVE  Kept(m, print(m))
<1> DEFINE k == Wrapped(m)
           last == [SetWin(k, wins_nwstr(Win(k))) EXCEPT !.scr[m.s].xenl = TRUE]
           next == SetWin(k, waddnwstr(Win(k)))
           put == IF X(k) = Mx(k) - 1 THEN last ELSE next
<1>1. print(m) = [put EXCEPT !.repc = TRUE]
  BY DEF print, Wrapped, Before
<1>2. Kept(m, k) /\ NodeInv(k) /\ k.s = m.s
  BY WrappedKept DEF Kept
<1> HIDE DEF k
<1>3. Kept(k, last) /\ Kept(k, next)
  BY <1>2, LastColumn, NextColumn
<1> HIDE DEF last, next
<1>4. Kept(m, put) /\ NodeInv(put)
  BY <1>2, <1>3, KeptTwice DEF Kept
<1> HIDE DEF put
<1> QED BY <1>1, <1>4, RememberKept, KeptTwice

LEMMA RepeatKept ==
    ASSUME NEW m, NodeInv(m), NEW a \in Seq(Nat)
    PROVE  Kept(m, rep(m, a))
<1> DEFINE V == Kin(m)
           c == P1(a, 0)
           G == [i \in 1 .. c |-> [k \in V |-> print(k)]]
           Loop(r) == r = [i \in 0 .. c |-> IF i = 0 THEN m ELSE print(r[i - 1])]
<1>1. m \in V /\ c \in Nat
  BY KinSelf, ArgumentNat
<1>2. \A k \in V : print(k) \in V
  <2> TAKE k \in V
  <2>1. NodeInv(k)
    BY DEF Kin, Kept
  <2>2. Kept(k, print(k))
    BY <2>1, PrintKept
  <2> QED BY <2>2, KinStep
<1>3. rep(m, a) = LET r == CHOOSE r : Loop(r) IN Done(IF m.repc THEN r[c] ELSE m)
  BY DEF rep, Repeated
<1> HIDE DEF V, c
<1>4. G \in Rounds(c, V)
  BY <1>2 DEF Rounds
<1>5. \E r : Loop(r)
  <2>1. PICK f : Runs(c, V, m, G, f)
    <3> HIDE DEF G
    <3> QED BY <1>1, <1>4, LoopStates
  <2>2. f \in [0 .. c -> V] /\ f[0] = m /\ \A i \in 1 .. c : f[i] = G[i][f[i - 1]]
    <3> HIDE DEF G
    <3> QED BY <2>1 DEF Runs
  <2>3. \A i \in 1 .. c : f[i] = print(f[i - 1])
    <3>1. \A i \in 1 .. c : f[i - 1] \in V
      BY <1>1, <2>2
    <3> QED BY <2>2, <3>1
  <2>4. Loop(f)
    BY <1>1, <2>2, <2>3
  <2> QED BY <2>4
<1> DEFINE r == CHOOSE r : Loop(r)
<1>6. Loop(r)
  <2> HIDE DEF Loop
  <2> QED BY <1>5
<1>7. rep(m, a) = Done(IF m.repc THEN r[c] ELSE m)
  BY <1>3
<1> HIDE DEF r
<1>8. r[c] \in V
  <2>1. r[0] \in V /\ \A i \in 1 .. c : i \in 0 .. c /\ i # 0
    BY <1>1, <1>6
  <2>2. \A i \in 1 .. c : r[i] = print(r[i - 1])
    BY <1>6, <2>1
  <2>3. \A i \in 1 .. c : r[i - 1] \in V => r[i] \in V
    BY <1>2, <2>2
  <2> HIDE DEF Loop
  <2> QED BY <1>1, <2>1, <2>3, LoopEnds
<1>9. Kept(m, r[c]) /\ NodeInv(r[c])
  BY <1>8 DEF Kin, Kept, V
<1> QED BY <1>7, <1>9, DoneKept, KeptTwice

-----------------------------------------------------------------------------
(* The two screens: cls, ris and the loop of mode. *)

LEMMA ClsKept ==
    ASSUME NEW m, NodeInv(m)
    PROVE  Kept(m, cls(m))
<1> DEFINE home == cup(m, <<>>)
           k == SetWin(home, wclrtobot(Win(home)))
<1>1. \A j : NodeInv(j) => Kept(j, cup(j, <<>>))
  <2>1. <<>> \in Seq(Nat)
    OBVIOUS
  <2> QED BY <2>1, MotionKept
<1>2. Kept(m, home) /\ NodeInv(home)
  BY <1>1 DEF Kept
<1> HIDE DEF home
<1>3. Kept(home, k)
  <2> DEFINE v == wclrtobot(Win(home))
  <2>1. /\ Win(home) \in WindowRecord /\ Win(home).text \subseteq 0 .. (Win(home).rows - 1)
        /\ Py(home) = Win(home).y /\ X(home) = Win(home).x
        /\ Py(home) < Win(home).rows /\ X(home) < Win(home).columns /\ Py(home) \in Nat
        /\ Win(home).rows \in Nat
    BY <1>2, NodeNumbers DEF Py, X
  <2>2. /\ v \in WindowRecord /\ v.rows = Win(home).rows /\ v.columns = Win(home).columns
        /\ v.top = Win(home).top /\ v.bot = Win(home).bot /\ v.text \subseteq Win(home).text
    BY <2>1, Cleared
  <2>3. v.y = Win(home).y /\ v.x = Win(home).x
    <3> DEFINE e == wclrtoeol(Win(home))
               T == e.text \ {r \in Win(home).text : r > Win(home).y}
    <3>1. e \in WindowRecord /\ e.y = Win(home).y /\ e.x = Win(home).x
      BY <2>1 DEF wclrtoeol, WindowRecord
    <3>2. v = [e EXCEPT !.text = T]
      BY DEF wclrtobot
    <3> HIDE DEF e, v, T
    <3> QED BY <3>1, <3>2 DEF WindowRecord
  <2> HIDE DEF v
  <2>4. v.y >= Py(home)
    BY <2>1, <2>3
  <2>5. Kept(home, SetWin(home, v))
    BY <1>2, <2>1, <2>2, <2>3, <2>4, TextKept
  <2> QED BY <2>5 DEF v
<1>4. Kept(m, k) /\ NodeInv(k)
  BY <1>2, <1>3, KeptTwice DEF Kept
<1>5. cls(m) = Done(cup(k, <<>>))
  BY DEF cls, home
<1> HIDE DEF k
<1>6. Kept(m, cup(k, <<>>)) /\ NodeInv(cup(k, <<>>))
  BY <1>1, <1>4, KeptTwice DEF Kept
<1> QED BY <1>5, <1>6, DoneKept, KeptTwice
(* What a handler that may change screens does: the view keeps its size,   *)
(* no cursor enters the scroll-back and what is drawn shows its colours.   *)
Stays(m, k) ==
    /\ NodeInv(k) /\ k.h = m.h /\ k.w = m.w
    /\ \A s \in Screens :
        (OnScreen(m, s) => OnScreen(k, s)) /\ (Drawn(m.scr[s], m.pairs) => Drawn(k.scr[s], k.pairs))

LEMMA KeptStays ==
    ASSUME NEW m, NEW k, Kept(m, k)
    PROVE  Stays(m, k) /\ NodeInv(k)
BY DEF Kept, Stays

LEMMA StaysTwice ==
    ASSUME NEW m, NEW k, NEW l, Stays(m, k), Stays(k, l)
    PROVE  Stays(m, l)
BY DEF Stays

LEMMA FieldsStay ==
    ASSUME NEW m, NodeInv(m), NEW k \in NodeRecord, k.scr = m.scr, k.h = m.h, k.w = m.w,
           k.tabs \subseteq 0 .. (m.w - 1), k.pairs = m.pairs
    PROVE  Stays(m, k)
BY DEF Stays, NodeInv, OnScreen

LEMMA SwitchStays ==
    ASSUME NEW m, NodeInv(m), NEW b \in BOOLEAN, NEW t \in Screens
    PROVE  /\ Stays(m, [m EXCEPT !.decom = b]) /\ Stays(m, [m EXCEPT !.am = b])
           /\ Stays(m, [m EXCEPT !.lnm = b]) /\ Stays(m, [m EXCEPT !.s = t])
           /\ [m EXCEPT !.s = t].s = t /\ [m EXCEPT !.s = t].scr = m.scr
           /\ [m EXCEPT !.s = t].decom = m.decom
<1> HIDE DEF ScreenRecord, Colour
<1>1. m \in NodeRecord /\ m.tabs \subseteq 0 .. (m.w - 1)
  BY DEF NodeInv
<1>2. Stays(m, [m EXCEPT !.decom = b])
  <2> DEFINE k == [m EXCEPT !.decom = b]
  <2>1. /\ k \in NodeRecord /\ k.scr = m.scr /\ k.h = m.h /\ k.w = m.w
        /\ k.tabs = m.tabs /\ k.pairs = m.pairs
    BY <1>1 DEF NodeRecord
  <2> HIDE DEF k
  <2>2. Stays(m, k)
    BY <1>1, <2>1, FieldsStay
  <2> QED BY <2>2 DEF k
<1>3. Stays(m, [m EXCEPT !.am = b])
  <2> DEFINE k == [m EXCEPT !.am = b]
  <2>1. /\ k \in NodeRecord /\ k.scr = m.scr /\ k.h = m.h /\ k.w = m.w
        /\ k.tabs = m.tabs /\ k.pairs = m.pairs
    BY <1>1 DEF NodeRecord
  <2> HIDE DEF k
  <2>2. Stays(m, k)
    BY <1>1, <2>1, FieldsStay
  <2> QED BY <2>2 DEF k
<1>4. Stays(m, [m EXCEPT !.lnm = b])
  <2> DEFINE k == [m EXCEPT !.lnm = b]
  <2>1. /\ k \in NodeRecord /\ k.scr = m.scr /\ k.h = m.h /\ k.w = m.w
        /\ k.tabs = m.tabs /\ k.pairs = m.pairs
    BY <1>1 DEF NodeRecord
  <2> HIDE DEF k
  <2>2. Stays(m, k)
    BY <1>1, <2>1, FieldsStay
  <2> QED BY <2>2 DEF k
<1>5. /\ Stays(m, [m EXCEPT !.s = t]) /\ [m EXCEPT !.s = t].s = t
      /\ [m EXCEPT !.s = t].scr = m.scr /\ [m EXCEPT !.s = t].decom = m.decom
  <2> DEFINE k == [m EXCEPT !.s = t]
  <2>1. /\ k \in NodeRecord /\ k.scr = m.scr /\ k.h = m.h /\ k.w = m.w
        /\ k.tabs = m.tabs /\ k.pairs = m.pairs /\ k.s = t /\ k.decom = m.decom
    BY <1>1 DEF NodeRecord
  <2> HIDE DEF k
  <2>2. Stays(m, k)
    BY <1>1, <2>1, FieldsStay
  <2> QED BY <2>1, <2>2 DEF k
<1> QED BY <1>2, <1>3, <1>4, <1>5

(* A screen, current or not, gets a record that differs in flags only. *)
LEMMA ScreenStays ==
    ASSUME NEW m, NodeInv(m), NEW s \in Screens, NEW k \in ScreenRecord,
           k.win = m.scr[s].win, k.tos = m.scr[s].tos, k.off = m.scr[s].off,
           k.saved = m.scr[s].saved, k.sy = m.scr[s].sy, k.fg = m.scr[s].fg,
           k.bg = m.scr[s].bg, k.pair = m.scr[s].pair, k.sp = m.scr[s].sp
    PROVE  Stays(m, Put(m, s, k)) /\ Put(m, s, k).s = m.s
<1> DEFINE p == Put(m, s, k)
<1>1. m \in NodeRecord
  BY DEF NodeInv
<1>2. /\ p \in NodeRecord /\ p.scr[s] = k /\ \A t \in Screens \ {s} : p.scr[t] = m.scr[t]
      /\ p.s = m.s /\ p.h = m.h /\ p.w = m.w /\ p.tabs = m.tabs /\ p.pairs = m.pairs
  BY <1>1, PutNode
<1> HIDE DEF p
<1>3. ScreenFits(k, s, m.h, m.w) /\ Painted(k, m.pairs)
  BY DEF NodeInv, ScreenFits, Painted, Drawn
<1>4. NodeInv(p)
  BY <1>1, <1>2, <1>3 DEF NodeInv
<1>5. \A t \in Screens : OnScreen(m, t) => OnScreen(p, t)
  BY <1>2 DEF OnScreen
<1>6. \A t \in Screens : Drawn(m.scr[t], m.pairs) => Drawn(p.scr[t], p.pairs)
  BY <1>2 DEF Drawn
<1> QED BY <1>2, <1>4, <1>5, <1>6 DEF Stays, p

LEMMA ToScreenStays ==
    ASSUME NEW m, NodeInv(m)
    PROVE  Stays(m, ToAlt(m)) /\ Stays(m, ToPri(m))
<1>1. Stays(m, [m EXCEPT !.s = "alt"]) /\ Stays(m, [m EXCEPT !.s = "pri"]) /\ Stays(m, m)
  <2>1. "alt" \in Screens /\ "pri" \in Screens
    BY DEF Screens
  <2> QED BY <2>1, SwitchStays, KeptSelf, KeptStays
<1>2. Stays([m EXCEPT !.s = "alt"], cls([m EXCEPT !.s = "alt"]))
  BY <1>1, ClsKept, KeptStays, ZenonT(30) DEF Stays
<1> QED BY <1>1, <1>2, StaysTwice DEF ToAlt, ToPri

LEMMA SetModeStays ==
    ASSUME NEW m, NodeInv(m), NEW s \in Screens, NEW code \in Nat, NEW set \in BOOLEAN
    PROVE  Stays(m, SetMode(m, s, code, set))
<1> DEFINE saved == IF set THEN sc(m) ELSE rc(m)
           switched(k) == IF set THEN ToAlt(k) ELSE ToPri(k)
           insert == [m EXCEPT !.scr[s].insert = set]
           origin == cup([m EXCEPT !.decom = set], <<>>)
           value == SetMode(m, s, code, set)
<1>1. value \in {cls(m), insert, origin, [m EXCEPT !.am = set], [m EXCEPT !.lnm = set], saved,
                 switched(saved), switched(m), m}
  BY DEF SetMode
<1>2. Stays(m, cls(m)) /\ Stays(m, m)
  BY ClsKept, KeptSelf, KeptStays
<1>3. Stays(m, insert)
  <2> DEFINE k == [m.scr[s] EXCEPT !.insert = set]
  <2>1. m.scr[s] \in ScreenRecord
    BY NodeFields DEF NodeInv
  <2>2. /\ k \in ScreenRecord /\ k.win = m.scr[s].win /\ k.tos = m.scr[s].tos
        /\ k.off = m.scr[s].off /\ k.saved = m.scr[s].saved /\ k.sy = m.scr[s].sy
        /\ k.fg = m.scr[s].fg /\ k.bg = m.scr[s].bg /\ k.pair = m.scr[s].pair /\ k.sp = m.scr[s].sp
    <3> HIDE DEF WindowRecord, Colour
    <3> QED BY <2>1 DEF ScreenRecord
  <2>3. insert = Put(m, s, k)
    BY DEF Put
  <2> HIDE DEF insert, k
  <2> QED BY <2>2, <2>3, ScreenStays
<1>4. Stays(m, origin)
  <2> DEFINE k == [m EXCEPT !.decom = set]
  <2>1. Stays(m, k) /\ NodeInv(k)
    <3>1. "pri" \in Screens
      BY DEF Screens
    <3> QED BY <3>1, SwitchStays DEF Stays
  <2> HIDE DEF k
  <2>2. <<>> \in Seq(Nat)
    OBVIOUS
  <2>3. Stays(k, cup(k, <<>>))
    BY <2>1, <2>2, MotionKept, KeptStays
  <2>4. Stays(m, cup(k, <<>>))
    BY <2>1, <2>3, StaysTwice
  <2> QED BY <2>4 DEF k
<1>5. Stays(m, [m EXCEPT !.am = set]) /\ Stays(m, [m EXCEPT !.lnm = set])
  BY SwitchStays DEF Screens
<1>6. Stays(m, saved) /\ NodeInv(saved)
  BY SaveKept, RestoreKept, KeptStays
<1>7. Stays(m, switched(m))
  BY ToScreenStays
<1>8. Stays(m, switched(saved))
  <2> HIDE DEF saved
  <2> QED BY <1>6, ToScreenStays, StaysTwice
<1> HIDE DEF value, saved, switched, insert, origin
<1>9. Stays(m, value)
  BY <1>1, <1>2, <1>3, <1>4, <1>5, <1>6, <1>7, <1>8
<1> QED BY <1>9 DEF value
LEMMA ModeStays ==
    ASSUME NEW m, NodeInv(m), NEW a \in Seq(Nat), NEW set \in BOOLEAN
    PROVE  Stays(m, mode(m, a, set))
<1> DEFINE V == {k \in NodeRecord : Stays(m, k)}
           c == Len(a)
           s == m.s
           Step(i, k) == SetMode(k, s, a[i], set)
           G == [i \in 1 .. c |-> [k \in V |-> Step(i, k)]]
           Loop(r) == r = [i \in 0 .. c |-> IF i = 0 THEN m ELSE SetMode(r[i - 1], m.s, a[i], set)]
<1>1. m \in V /\ c \in Nat /\ s \in Screens
  <2>1. Stays(m, m)
    BY KeptSelf, KeptStays
  <2> QED BY <2>1, NodeFields, LenProperties DEF NodeInv
<1>2. \A i \in 1 .. c, k \in V : Step(i, k) \in V
  <2> TAKE i \in 1 .. c, k \in V
  <2>1. NodeInv(k) /\ Stays(m, k)
    BY DEF Stays
  <2>2. a[i] \in Nat
    BY ElementOfSeq
  <2> DEFINE l == Step(i, k)
  <2>3. Stays(k, l)
    BY <1>1, <2>1, <2>2, SetModeStays
  <2> HIDE DEF l
  <2>4. Stays(m, l) /\ l \in NodeRecord
    BY <2>1, <2>3, StaysTwice DEF Stays, NodeInv
  <2> QED BY <2>4 DEF l
<1>3. mode(m, a, set) = LET r == CHOOSE r : Loop(r) IN Done(r[c])
  BY DEF mode
<1>4. \A f : Loop(f) <=> f = [i \in 0 .. c |-> IF i = 0 THEN m ELSE Step(i, f[i - 1])]
  OBVIOUS
<1> HIDE DEF V, c, Step, Loop
<1>5. G \in Rounds(c, V)
  BY <1>2 DEF Rounds
<1>6. \E r : Loop(r)
  <2>1. PICK f : Runs(c, V, m, G, f)
    <3> HIDE DEF G
    <3> QED BY <1>1, <1>5, LoopStates
  <2>2. f \in [0 .. c -> V] /\ f[0] = m /\ \A i \in 1 .. c : f[i] = G[i][f[i - 1]]
    <3> HIDE DEF G
    <3> QED BY <2>1 DEF Runs
  <2>3. \A i \in 1 .. c : f[i] = Step(i, f[i - 1])
    <3>1. \A i \in 1 .. c : f[i - 1] \in V
      BY <1>1, <2>2
    <3> QED BY <2>2, <3>1
  <2>4. f = [i \in 0 .. c |-> IF i = 0 THEN m ELSE Step(i, f[i - 1])]
    BY <1>1, <2>2, <2>3
  <2> QED BY <1>4, <2>4
<1> DEFINE r == CHOOSE r : Loop(r)
<1>7. r = [i \in 0 .. c |-> IF i = 0 THEN m ELSE Step(i, r[i - 1])]
  <2>1. Loop(r)
    BY <1>6
  <2> HIDE DEF r
  <2> QED BY <1>4, <2>1
<1>8. mode(m, a, set) = Done(r[c])
  BY <1>3
<1> HIDE DEF r
<1>9. r[c] \in V
  <2>1. r[0] \in V /\ \A i \in 1 .. c : i \in 0 .. c /\ i # 0
    BY <1>1, <1>7
  <2>2. \A i \in 1 .. c : r[i] = Step(i, r[i - 1])
    BY <1>7, <2>1
  <2>3. \A i \in 1 .. c : r[i - 1] \in V => r[i] \in V
    BY <1>2, <2>2
  <2> QED BY <1>1, <2>1, <2>3, LoopEnds
<1>10. Stays(m, r[c]) /\ NodeInv(r[c])
  BY <1>9 DEF Stays, V
<1> QED BY <1>8, <1>10, DoneKept, KeptStays, StaysTwice

LEMMA TabsOfWidth ==
    ASSUME NEW w \in Nat
    PROVE  InitialTabs(w) \subseteq 0 .. (w - 1)
BY DEF InitialTabs

(* The regions of both windows are set to all rows of the view, if it has two. *)
LEMMA RegionsStay ==
    ASSUME NEW m, NodeInv(m)
    PROVE  /\ Stays(m, FullRegions(m)) /\ FullRegions(m).s = m.s
           /\ \A s \in Screens : /\ FullRegions(m).scr[s].win.text = m.scr[s].win.text
                                 /\ FullRegions(m).scr[s].win.y = m.scr[s].win.y
                                 /\ FullRegions(m).scr[s].win.x = m.scr[s].win.x
           /\ \A s \in Screens : Drawn(m.scr[s], m.pairs) <=> Drawn(FullRegions(m).scr[s], FullRegions(m).pairs)
<1> DEFINE pri == m.scr["pri"]
           alt == m.scr["alt"]
           u == wsetscrreg(pri.win, 0, Largest(SCROLLBACK, m.h) - 1)
           v == wsetscrreg(alt.win, 0, m.h - 1)
           j == [pri EXCEPT !.win = u]
           k == [alt EXCEPT !.win = v]
           q == Put(Put(m, "pri", j), "alt", k)
<1>1. /\ m \in NodeRecord /\ m.h \in Nat /\ m.h # 0 /\ m.w \in Nat /\ SCROLLBACK \in Nat /\ SCROLLBACK > 1
      /\ pri \in ScreenRecord /\ alt \in ScreenRecord /\ m.scr \in [Screens -> ScreenRecord]
      /\ ScreenFits(pri, "pri", m.h, m.w) /\ ScreenFits(alt, "alt", m.h, m.w)
      /\ Painted(pri, m.pairs) /\ Painted(alt, m.pairs)
  BY NodeFields, ScreenAssumption DEF NodeInv, Screens
<1>2. pri.win \in WindowRecord /\ alt.win \in WindowRecord /\ pri.tos \in Nat /\ alt.tos \in Nat
  BY <1>1, ScreenFields
<1>3. Largest(SCROLLBACK, m.h) - 1 \in Int /\ m.h - 1 \in Int
  BY <1>1 DEF Largest
<1>4. /\ u \in WindowRecord /\ u.rows = pri.win.rows /\ u.columns = pri.win.columns
      /\ u.y = pri.win.y /\ u.x = pri.win.x /\ u.text = pri.win.text
      /\ u.top <= u.bot /\ u.bot < u.rows /\ pri.tos <= u.bot
  <2>1. /\ u \in WindowRecord /\ u.rows = pri.win.rows /\ u.columns = pri.win.columns
        /\ u.y = pri.win.y /\ u.x = pri.win.x /\ u.text = pri.win.text
        /\ IF RegionFits(pri.win, 0, Largest(SCROLLBACK, m.h) - 1)
           THEN u.top = 0 /\ u.bot = Largest(SCROLLBACK, m.h) - 1
           ELSE u.top = pri.win.top /\ u.bot = pri.win.bot
    BY <1>2, <1>3, RegionSet
  <2>2. pri.win.rows = Largest(m.h, SCROLLBACK) /\ pri.tos = Largest(m.h, SCROLLBACK) - m.h
        /\ pri.win.top <= pri.win.bot /\ pri.win.bot < pri.win.rows /\ pri.tos <= pri.win.bot
    BY <1>1 DEF ScreenFits, WindowFits, Rows, TopOfScreen
  <2> HIDE DEF u, pri
  <2> QED BY <1>1, <1>2, <2>1, <2>2 DEF Largest, RegionFits
<1>5. /\ v \in WindowRecord /\ v.rows = alt.win.rows /\ v.columns = alt.win.columns
      /\ v.y = alt.win.y /\ v.x = alt.win.x /\ v.text = alt.win.text
      /\ v.top <= v.bot /\ v.bot < v.rows /\ alt.tos <= v.bot
  <2>1. /\ v \in WindowRecord /\ v.rows = alt.win.rows /\ v.columns = alt.win.columns
        /\ v.y = alt.win.y /\ v.x = alt.win.x /\ v.text = alt.win.text
        /\ IF RegionFits(alt.win, 0, m.h - 1)
           THEN v.top = 0 /\ v.bot = m.h - 1
           ELSE v.top = alt.win.top /\ v.bot = alt.win.bot
    BY <1>2, <1>3, RegionSet
  <2>2. alt.tos = 0 /\ alt.win.top <= alt.win.bot /\ alt.win.bot < alt.win.rows
    BY <1>1 DEF ScreenFits, WindowFits, TopOfScreen
  <2>3. alt.win.rows \in Nat /\ alt.win.top \in Nat /\ alt.win.bot \in Nat
    BY <1>2, WindowFields
  <2> HIDE DEF v, alt
  <2>4. v.top <= v.bot /\ v.bot < v.rows /\ alt.tos <= v.bot
    BY <1>1, <2>1, <2>2, <2>3 DEF RegionFits
  <2> QED BY <2>1, <2>4
<1> HIDE DEF u, v
<1>6. /\ j \in ScreenRecord /\ j.win = u /\ j.tos = pri.tos /\ j.off = pri.off /\ j.saved = pri.saved
      /\ j.sy = pri.sy /\ j.fg = pri.fg /\ j.bg = pri.bg /\ j.pair = pri.pair /\ j.sp = pri.sp
  <2> HIDE DEF WindowRecord, Colour, pri
  <2> QED BY <1>1, <1>4 DEF ScreenRecord
<1>7. /\ k \in ScreenRecord /\ k.win = v /\ k.tos = alt.tos /\ k.off = alt.off /\ k.saved = alt.saved
      /\ k.sy = alt.sy /\ k.fg = alt.fg /\ k.bg = alt.bg /\ k.pair = alt.pair /\ k.sp = alt.sp
  <2> HIDE DEF WindowRecord, Colour, alt
  <2> QED BY <1>1, <1>5 DEF ScreenRecord
<1>8. FullRegions(m) = q
  <2> HIDE DEF WindowRecord, Colour, ScreenRecord
  <2> QED BY <1>1 DEF FullRegions, Put, NodeRecord, Screens, u, v
<1> HIDE DEF j, k, q
<1>9. /\ q \in NodeRecord /\ q.scr["pri"] = j /\ q.scr["alt"] = k
      /\ q.s = m.s /\ q.h = m.h /\ q.w = m.w /\ q.tabs = m.tabs /\ q.pairs = m.pairs
  <2>1. "pri" \in Screens /\ "alt" \in Screens \ {"pri"} /\ "pri" \in Screens \ {"alt"}
    BY DEF Screens
  <2> DEFINE p == Put(m, "pri", j)
  <2>2. /\ p \in NodeRecord /\ p.scr["pri"] = j
        /\ p.s = m.s /\ p.h = m.h /\ p.w = m.w /\ p.tabs = m.tabs /\ p.pairs = m.pairs
    BY <1>1, <1>6, <2>1, PutNode
  <2> HIDE DEF p
  <2>3. /\ Put(p, "alt", k) \in NodeRecord /\ Put(p, "alt", k).scr["alt"] = k
        /\ Put(p, "alt", k).scr["pri"] = p.scr["pri"]
        /\ Put(p, "alt", k).s = p.s /\ Put(p, "alt", k).h = p.h /\ Put(p, "alt", k).w = p.w
        /\ Put(p, "alt", k).tabs = p.tabs /\ Put(p, "alt", k).pairs = p.pairs
    BY <1>7, <2>1, <2>2, PutNode
  <2>4. q = Put(p, "alt", k)
    BY DEF q, p
  <2> QED BY <2>2, <2>3, <2>4
<1>10. ScreenFits(j, "pri", m.h, m.w) /\ ScreenFits(k, "alt", m.h, m.w)
  BY <1>1, <1>4, <1>5, <1>6, <1>7 DEF ScreenFits, WindowFits
<1>11. Painted(j, m.pairs) /\ Painted(k, m.pairs)
       /\ (Drawn(pri, m.pairs) <=> Drawn(j, m.pairs)) /\ (Drawn(alt, m.pairs) <=> Drawn(k, m.pairs))
  BY <1>1, <1>6, <1>7 DEF Painted, Drawn
<1>12. NodeInv(q)
  BY <1>9, <1>10, <1>11 DEF NodeInv, Screens
<1>13. \A s \in Screens : OnScreen(m, s) => OnScreen(q, s)
  BY <1>4, <1>5, <1>6, <1>7, <1>9 DEF OnScreen, Screens
<1> QED BY <1>4, <1>5, <1>6, <1>7, <1>8, <1>9, <1>11, <1>12, <1>13 DEF Stays, Screens
LEMMA ResetStays ==
    ASSUME NEW m, NodeInv(m)
    PROVE  /\ Stays(m, ris(m)) /\ Drawn(ris(m).scr[m.s], ris(m).pairs) /\ ris(m).s = "pri"
           /\ \A s \in Screens \ {m.s} : /\ ris(m).scr[s].win.text = m.scr[s].win.text
                                         /\ ris(m).scr[s].win.y = m.scr[s].win.y
                                         /\ ris(m).scr[s].win.x = m.scr[s].win.x
<1> DEFINE k0 == [Scr(m) EXCEPT !.insert = FALSE, !.oxenl = FALSE, !.xenl = FALSE]
           m0 == Put(m, m.s, k0)
           m1 == [m0 EXCEPT !.decom = FALSE, !.lnm = FALSE]
           m2 == cls(m1)
           m3 == sgr0(m2)
           m4 == FullRegions(m3)
           m5 == [m4 EXCEPT !.am = TRUE, !.s = "pri", !.tabs = InitialTabs(m.w)]
<1>1. /\ m \in NodeRecord /\ m.s \in Screens /\ Scr(m) = m.scr[m.s] /\ Scr(m) \in ScreenRecord
      /\ m.scr \in [Screens -> ScreenRecord] /\ m.w \in Nat /\ m.tabs \subseteq 0 .. (m.w - 1)
  BY NodeFields DEF NodeInv
<1>2. /\ k0 \in ScreenRecord /\ k0.win = Scr(m).win /\ k0.tos = Scr(m).tos
      /\ k0.off = Scr(m).off /\ k0.saved = Scr(m).saved /\ k0.sy = Scr(m).sy
      /\ k0.fg = Scr(m).fg /\ k0.bg = Scr(m).bg /\ k0.pair = Scr(m).pair /\ k0.sp = Scr(m).sp
  <2> HIDE DEF WindowRecord, Colour
  <2> QED BY <1>1 DEF ScreenRecord
<1>3. [m EXCEPT !.decom = FALSE, !.lnm = FALSE, !.scr[m.s].insert = FALSE,
                !.scr[m.s].oxenl = FALSE, !.scr[m.s].xenl = FALSE] = m1
  <2> HIDE DEF WindowRecord, Colour, ScreenRecord
  <2> QED BY <1>1 DEF Put, NodeRecord
<1>4. ris(m) = Done(m5)
  <2> HIDE DEF m1
  <2> QED BY <1>3 DEF ris
<1> HIDE DEF k0
<1>5. Stays(m, m0) /\ NodeInv(m0) /\ m0.s = m.s /\ \A s \in Screens \ {m.s} : m0.scr[s] = m.scr[s]
  <2>1. Stays(m, m0) /\ m0.s = m.s
    BY <1>1, <1>2, ScreenStays
  <2>2. \A s \in Screens \ {m.s} : m0.scr[s] = m.scr[s]
    BY <1>1, <1>2, PutNode
  <2> QED BY <2>1, <2>2 DEF Stays
<1> HIDE DEF m0
<1>6. Stays(m, m1) /\ NodeInv(m1) /\ m1.s = m.s /\ m1.scr = m0.scr
  <2>1. m0 \in NodeRecord /\ m0.tabs \subseteq 0 .. (m0.w - 1)
    BY <1>5 DEF NodeInv
  <2>2. /\ m1 \in NodeRecord /\ m1.scr = m0.scr /\ m1.h = m0.h /\ m1.w = m0.w
        /\ m1.tabs = m0.tabs /\ m1.pairs = m0.pairs /\ m1.s = m0.s
    <3> HIDE DEF ScreenRecord, Colour
    <3> QED BY <2>1 DEF NodeRecord
  <2> HIDE DEF m1
  <2>3. Stays(m0, m1)
    BY <1>5, <2>1, <2>2, FieldsStay
  <2> QED BY <1>5, <2>2, <2>3, StaysTwice DEF Stays
<1> HIDE DEF m1
<1>7. Kept(m1, m2) /\ NodeInv(m2)
  BY <1>6, ClsKept DEF Kept
<1> HIDE DEF m2
<1>8. Kept(m1, m3) /\ NodeInv(m3) /\ Drawn(m3.scr[m.s], m3.pairs)
  <2>1. Kept(m2, m3) /\ Drawn(Scr(m3), m3.pairs)
    BY <1>7, Sgr0Kept
  <2>2. Kept(m1, m3) /\ m3.s = m.s
    BY <1>6, <1>7, <2>1, KeptTwice DEF Kept
  <2> HIDE DEF m3
  <2> QED BY <2>1, <2>2 DEF Kept, Scr
<1> HIDE DEF m3
<1>9. \A s \in Screens \ {m.s} : m3.scr[s] = m.scr[s]
  BY <1>5, <1>6, <1>8 DEF Kept
<1>10. /\ Stays(m, m4) /\ NodeInv(m4) /\ Drawn(m4.scr[m.s], m4.pairs)
       /\ \A s \in Screens : /\ m4.scr[s].win.text = m3.scr[s].win.text
                             /\ m4.scr[s].win.y = m3.scr[s].win.y
                             /\ m4.scr[s].win.x = m3.scr[s].win.x
  <2>1. Stays(m, m3)
    BY <1>6, <1>8, KeptStays, StaysTwice
  <2>2. /\ Stays(m3, m4) /\ Drawn(m4.scr[m.s], m4.pairs)
        /\ \A s \in Screens : /\ m4.scr[s].win.text = m3.scr[s].win.text
                              /\ m4.scr[s].win.y = m3.scr[s].win.y
                              /\ m4.scr[s].win.x = m3.scr[s].win.x
    BY <1>1, <1>8, RegionsStay
  <2> HIDE DEF m4
  <2> QED BY <2>1, <2>2, StaysTwice DEF Stays
<1> HIDE DEF m4
<1>11. /\ Stays(m, m5) /\ NodeInv(m5) /\ m5.scr = m4.scr /\ m5.pairs = m4.pairs /\ m5.s = "pri"
  <2>1. m4 \in NodeRecord /\ m4.w = m.w /\ InitialTabs(m.w) \subseteq 0 .. (m.w - 1)
    BY <1>1, <1>10, TabsOfWidth DEF NodeInv, Stays
  <2>2. InitialTabs(m.w) \in SUBSET Nat /\ "pri" \in Screens
    BY <2>1 DEF Screens
  <2>3. /\ m5 \in NodeRecord /\ m5.scr = m4.scr /\ m5.h = m4.h /\ m5.w = m4.w
        /\ m5.tabs = InitialTabs(m.w) /\ m5.pairs = m4.pairs /\ m5.s = "pri"
    <3> HIDE DEF ScreenRecord, Colour
    <3> QED BY <2>1, <2>2 DEF NodeRecord
  <2> HIDE DEF m5
  <2>4. Stays(m4, m5)
    BY <1>10, <2>1, <2>3, FieldsStay
  <2> QED BY <1>10, <2>3, <2>4, StaysTwice DEF Stays
<1> HIDE DEF m5
<1>12. /\ Kept(m5, Done(m5)) /\ Done(m5).scr = m5.scr /\ Done(m5).pairs = m5.pairs
       /\ Done(m5).s = m5.s
  <2>1. Kept(m5, Done(m5)) /\ Done(m5).scr = m5.scr /\ Done(m5).s = m5.s
    BY <1>11, DoneKept
  <2>2. Done(m5).pairs = m5.pairs
    <3>1. m5 \in NodeRecord
      BY <1>11 DEF NodeInv
    <3> HIDE DEF ScreenRecord, Colour
    <3> QED BY <3>1 DEF Done, NodeRecord
  <2> QED BY <2>1, <2>2
<1>13. Stays(m, Done(m5))
  BY <1>11, <1>12, KeptStays, StaysTwice
<1> QED BY <1>4, <1>9, <1>10, <1>11, <1>12, <1>13
-----------------------------------------------------------------------------
(* Reshaping. *)
LEMMA ResizedWindow ==
    ASSUME NEW win \in WindowRecord, NEW rows \in Nat \ {0, 1}, NEW columns \in Nat \ {0, 1},
           win.top <= win.bot
    PROVE  LET v == wresize(win, rows, columns) IN
           /\ v \in WindowRecord /\ WindowFits(v, rows, columns)
           /\ v.y = (IF win.y > rows - 1 THEN rows - 1 ELSE win.y)
           /\ v.x = (IF win.x > columns - 1 THEN columns - 1 ELSE win.x)
           /\ v.text = {r \in win.text : r < rows}
<1> DEFINE v == wresize(win, rows, columns)
           y == IF win.y > rows - 1 THEN rows - 1 ELSE win.y
           x == IF win.x > columns - 1 THEN columns - 1 ELSE win.x
           top == IF win.top > rows - 1 THEN rows - 1 ELSE win.top
           bot == IF win.bot = win.rows - 1 THEN rows - 1
                  ELSE IF win.bot > rows - 1 THEN rows - 1 ELSE win.bot
           text == {r \in win.text : r < rows}
<1>1. /\ win.y \in Nat /\ win.x \in Nat /\ win.top \in Nat /\ win.bot \in Nat /\ win.rows \in Nat
      /\ win.text \subseteq Nat
  BY WindowFields
<1>2. v = [rows |-> rows, columns |-> columns, y |-> y, x |-> x, top |-> top, bot |-> bot, text |-> text]
  BY DEF wresize
<1>3. /\ y \in Nat /\ x \in Nat /\ top \in Nat /\ bot \in Nat /\ y < rows /\ x < columns
      /\ top <= bot /\ bot < rows
  BY <1>1
<1>4. text \subseteq 0 .. (rows - 1) /\ text \in SUBSET Nat
  BY <1>1
<1> HIDE DEF v, y, x, top, bot, text
<1>5. v \in WindowRecord
  BY <1>2, <1>3, <1>4 DEF WindowRecord
<1>6. WindowFits(v, rows, columns) /\ v.y = y /\ v.x = x /\ v.text = text
  BY <1>2, <1>3, <1>4 DEF WindowFits
<1> QED BY <1>5, <1>6 DEF v, y, x, text

(* The screen t of a view resized to h rows, and then with all rows in its region. *)
ResizedScreen(j, h, w, t) ==
    [j EXCEPT !.win = wresize(@, Rows(h, t), Largest(w, 2)),
              !.tos = IF t = "pri" THEN Largest(0, SCROLLBACK - h) ELSE 0,
              !.off = IF t = "pri" THEN Largest(0, SCROLLBACK - h) ELSE 0]
ReshapedScreen(j, h, w, t) ==
    [ResizedScreen(j, h, w, t)
        EXCEPT !.win = wsetscrreg(@, 0, IF t = "pri" THEN Largest(SCROLLBACK, h) - 1 ELSE h - 1)]

LEMMA ReshapedScreenFits ==
    ASSUME NEW m, NodeInv(m), NEW h \in Nat \ {0}, NEW w \in Nat \ {0}, NEW t \in Screens
    PROVE  LET old == m.scr[t]
               k == ReshapedScreen(old, h, w, t) IN
           /\ ResizedScreen(old, h, w, t) \in ScreenRecord /\ k \in ScreenRecord
           /\ ScreenFits(k, t, h, w)
           /\ t = "pri" => k.win.top = 0 /\ k.win.bot = Rows(h, t) - 1
           /\ k.win.y = (IF old.win.y > Rows(h, t) - 1 THEN Rows(h, t) - 1 ELSE old.win.y)
           /\ k.win.x = (IF old.win.x > Largest(w, 2) - 1 THEN Largest(w, 2) - 1 ELSE old.win.x)
           /\ k.win.text = {r \in old.win.text : r < Rows(h, t)}
           /\ k.saved = old.saved /\ k.sy = old.sy
           /\ k.fg = old.fg /\ k.bg = old.bg /\ k.pair = old.pair /\ k.sp = old.sp
<1> DEFINE old == m.scr[t]
           wide == Largest(w, 2)
           top == IF t = "pri" THEN Largest(0, SCROLLBACK - h) ELSE 0
           last == IF t = "pri" THEN Largest(SCROLLBACK, h) - 1 ELSE h - 1
           u == wresize(old.win, Rows(h, t), wide)
           v == wsetscrreg(u, 0, last)
           j == ResizedScreen(old, h, w, t)
           k == ReshapedScreen(old, h, w, t)
<1>1. /\ m \in NodeRecord /\ SCROLLBACK \in Nat /\ SCROLLBACK > 1 /\ h \in Nat /\ h > 0
      /\ w \in Nat /\ w > 0 /\ old \in ScreenRecord /\ ScreenFits(old, t, m.h, m.w)
  BY NodeFields, ScreenAssumption DEF NodeInv
<1>2. old.win \in WindowRecord /\ old.win.top <= old.win.bot
  BY <1>1, ScreenFields DEF ScreenFits, WindowFits
<1> HIDE DEF old
<1>3. /\ wide \in Nat \ {0, 1} /\ Rows(h, t) \in Nat \ {0, 1} /\ top \in Nat
      /\ top = TopOfScreen(h, t) /\ last \in Int
  BY <1>1 DEF Largest, Rows, TopOfScreen
<1>4. t = "pri" => last = Rows(h, t) - 1 /\ top <= last
  BY <1>1 DEF Largest, Rows
<1>5. t # "pri" => top = 0
  OBVIOUS
<1> HIDE DEF top, last, wide
<1>6. /\ u \in WindowRecord /\ WindowFits(u, Rows(h, t), wide)
      /\ u.y = (IF old.win.y > Rows(h, t) - 1 THEN Rows(h, t) - 1 ELSE old.win.y)
      /\ u.x = (IF old.win.x > wide - 1 THEN wide - 1 ELSE old.win.x)
      /\ u.text = {r \in old.win.text : r < Rows(h, t)}
  BY <1>2, <1>3, ResizedWindow
<1> HIDE DEF u
<1>7. /\ v \in WindowRecord /\ v.rows = u.rows /\ v.columns = u.columns
      /\ v.y = u.y /\ v.x = u.x /\ v.text = u.text
      /\ IF RegionFits(u, 0, last) THEN v.top = 0 /\ v.bot = last ELSE v.top = u.top /\ v.bot = u.bot
  BY <1>3, <1>6, RegionSet
<1> HIDE DEF v
<1>8. WindowFits(v, Rows(h, t), wide) /\ top <= v.bot
  <2>1. /\ u.rows = Rows(h, t) /\ u.top \in Nat /\ u.bot \in Nat /\ u.top <= u.bot /\ u.bot < u.rows
    BY <1>6, WindowFields DEF WindowFits
  <2>2. v.top <= v.bot /\ v.bot < v.rows
    BY <1>3, <1>7, <2>1 DEF RegionFits
  <2>3. top <= v.bot
    BY <1>3, <1>4, <1>5, <1>7, <2>1 DEF RegionFits
  <2> QED BY <1>6, <1>7, <2>2, <2>3 DEF WindowFits
<1>9. /\ j \in ScreenRecord /\ j.win = u /\ j.tos = top /\ j.off = top
      /\ j.saved = old.saved /\ j.sy = old.sy
      /\ j.fg = old.fg /\ j.bg = old.bg /\ j.pair = old.pair /\ j.sp = old.sp
  <2>1. j = [old EXCEPT !.win = u, !.tos = top, !.off = top]
    <3> HIDE DEF WindowRecord, Colour
    <3> QED BY <1>1 DEF ResizedScreen, ScreenRecord, u, top, wide
  <2> HIDE DEF WindowRecord, Colour, j
  <2> QED BY <1>1, <1>3, <1>6, <2>1 DEF ScreenRecord
<1>10. k = [j EXCEPT !.win = v]
  <2> HIDE DEF WindowRecord, Colour
  <2> QED BY <1>9 DEF ReshapedScreen, ScreenRecord, v, last
<1> HIDE DEF j, k
<1>11. /\ k \in ScreenRecord /\ k.win = v /\ k.tos = top /\ k.off = top
       /\ k.saved = old.saved /\ k.sy = old.sy
       /\ k.fg = old.fg /\ k.bg = old.bg /\ k.pair = old.pair /\ k.sp = old.sp
  <2> HIDE DEF WindowRecord, Colour
  <2> QED BY <1>7, <1>9, <1>10 DEF ScreenRecord
<1>12. ScreenFits(k, t, h, w)
  BY <1>3, <1>8, <1>11 DEF ScreenFits, wide
<1>13. t = "pri" => v.top = 0 /\ v.bot = Rows(h, t) - 1
  <2>1. u.rows = Rows(h, t)
    BY <1>6 DEF WindowFits
  <2> QED BY <1>3, <1>4, <1>7, <2>1 DEF RegionFits
<1> QED BY <1>6, <1>7, <1>9, <1>11, <1>12, <1>13 DEF j, k, old, wide

LEMMA PutBoth ==
    ASSUME NEW m \in NodeRecord, NEW j, NEW k
    PROVE  Put(Put(m, "pri", j), "alt", k) = [m EXCEPT !.scr = [m.scr EXCEPT !["pri"] = j, !["alt"] = k]]
<1> HIDE DEF ScreenRecord, Colour
<1> QED BY DEF Put, NodeRecord, Screens

LEMMA ReshapedFits ==
    ASSUME NEW m, NodeInv(m), NEW h \in Nat \ {0}, NEW w \in Nat \ {0}
    PROVE  LET k == FullRegions(Resized(m, h, w)) IN
           /\ NodeInv(k) /\ k.h = h /\ k.w = w /\ k.s = m.s
           /\ \A t \in Screens :
                k.scr[t] = ReshapedScreen(m.scr[t], h, w, t)
           /\ \A t \in Screens : Drawn(m.scr[t], m.pairs) <=> Drawn(k.scr[t], k.pairs)
<1> DEFINE rows == h
           columns == w
           New(t) == ResizedScreen(m.scr[t], rows, columns, t)
           Full(t) == ReshapedScreen(m.scr[t], rows, columns, t)
           tabs == {i \in m.tabs : i < columns} \cup (InitialTabs(columns) \ (0 .. (m.w - 1)))
           scr == [t \in Screens |-> New(t)]
           full == [t \in Screens |-> Full(t)]
           q == [m EXCEPT !.h = rows, !.w = columns, !.tabs = tabs, !.scr = scr]
           k == [m EXCEPT !.h = rows, !.w = columns, !.tabs = tabs, !.scr = full]
<1>1. m \in NodeRecord /\ m.w \in Nat /\ m.tabs \subseteq Nat /\ m.scr \in [Screens -> ScreenRecord]
  BY NodeFields DEF NodeInv
<1>2. rows \in Nat \ {0} /\ columns \in Nat \ {0}
  OBVIOUS
<1>3. tabs \subseteq 0 .. (columns - 1) /\ tabs \in SUBSET Nat
  <2>1. InitialTabs(columns) \subseteq 0 .. (columns - 1)
    BY <1>2, TabsOfWidth
  <2> HIDE DEF columns
  <2> QED BY <1>1, <1>2, <2>1
<1> HIDE DEF rows, columns, tabs
<1>4. \A t \in Screens :
        /\ New(t) \in ScreenRecord /\ Full(t) \in ScreenRecord
        /\ ScreenFits(Full(t), t, rows, columns)
        /\ Full(t).fg = m.scr[t].fg /\ Full(t).bg = m.scr[t].bg
        /\ Full(t).pair = m.scr[t].pair /\ Full(t).sp = m.scr[t].sp
  <2> TAKE t \in Screens
  <2> QED BY <1>2, ReshapedScreenFits
<1>5. Resized(m, h, w) = q
  <2>1. Rows(rows, "pri") = Largest(rows, SCROLLBACK) /\ Rows(rows, "alt") = Largest(rows, 2)
    BY DEF Rows
  <2>2. scr = [m.scr EXCEPT !["pri"] = New("pri"), !["alt"] = New("alt")]
    BY <1>1 DEF Screens
  <2>3. /\ New("pri") = [m.scr["pri"] EXCEPT
                           !.win = wresize(@, Largest(rows, SCROLLBACK), Largest(columns, 2)),
                           !.tos = Largest(0, SCROLLBACK - rows),
                           !.off = Largest(0, SCROLLBACK - rows)]
        /\ New("alt") = [m.scr["alt"] EXCEPT
                           !.win = wresize(@, Largest(rows, 2), Largest(columns, 2)),
                           !.tos = 0, !.off = 0]
    BY <2>1 DEF ResizedScreen
  <2>4. Resized(m, h, w) =
            [Put(Put(m, "pri", New("pri")), "alt", New("alt"))
                EXCEPT !.h = rows, !.w = columns, !.tabs = tabs]
    <3> HIDE DEF ScreenRecord, Colour, WindowRecord, New
    <3> QED BY <1>1, <2>3 DEF Resized, Put, NodeRecord, Screens, rows, columns, tabs
  <2>5. Put(Put(m, "pri", New("pri")), "alt", New("alt")) = [m EXCEPT !.scr = scr]
    BY <1>1, <2>2, PutBoth
  <2> HIDE DEF ScreenRecord, Colour, New, scr
  <2> QED BY <1>1, <2>4, <2>5 DEF NodeRecord
<1>6. /\ q \in NodeRecord /\ q.scr = scr /\ q.h = rows
      /\ \A t \in Screens : q.scr[t] = New(t)
  <2>1. scr \in [Screens -> ScreenRecord] /\ \A t \in Screens : scr[t] = New(t)
    BY <1>4
  <2> HIDE DEF ScreenRecord, Colour, scr, New
  <2> QED BY <1>1, <1>2, <1>3, <2>1 DEF NodeRecord
<1>7. FullRegions(q) = k
  <2>1. /\ Full("pri") = [New("pri") EXCEPT
                            !.win = wsetscrreg(@, 0, Largest(SCROLLBACK, rows) - 1)]
        /\ Full("alt") = [New("alt") EXCEPT !.win = wsetscrreg(@, 0, rows - 1)]
    BY DEF ReshapedScreen
  <2>2. full = [scr EXCEPT !["pri"] = Full("pri"), !["alt"] = Full("alt")]
    BY <1>6 DEF Screens
  <2>3. k = [q EXCEPT !.scr = full]
    BY <1>1 DEF NodeRecord
  <2>4. FullRegions(q) = Put(Put(q, "pri", Full("pri")), "alt", Full("alt"))
    <3>1. "pri" \in Screens /\ "alt" \in Screens
      BY DEF Screens
    <3> HIDE DEF q, ScreenRecord, Colour, WindowRecord, New, Full, scr, full
    <3> QED BY <1>6, <2>1, <3>1 DEF FullRegions, Put, NodeRecord, Screens
  <2> HIDE DEF k, q, full, scr, Full
  <2> QED BY <1>6, <2>2, <2>3, <2>4, PutBoth
<1>8. /\ k \in NodeRecord /\ k.h = rows /\ k.w = columns /\ k.tabs = tabs /\ k.s = m.s
      /\ k.pairs = m.pairs /\ \A t \in Screens : k.scr[t] = Full(t)
  <2>1. full \in [Screens -> ScreenRecord] /\ \A t \in Screens : full[t] = Full(t)
    BY <1>4
  <2> HIDE DEF ScreenRecord, Colour, full, Full
  <2> QED BY <1>1, <1>2, <1>3, <2>1 DEF NodeRecord
<1> HIDE DEF k, q, scr, full, New, Full
<1>9. \A t \in Screens : /\ Painted(Full(t), m.pairs)
                         /\ Drawn(m.scr[t], m.pairs) <=> Drawn(Full(t), m.pairs)
  BY <1>4 DEF NodeInv, Painted, Drawn
<1>10. NodeInv(k)
  BY <1>2, <1>3, <1>4, <1>8, <1>9 DEF NodeInv
<1> QED BY <1>5, <1>7, <1>8, <1>9, <1>10 DEF rows, columns, Full
(* Nothing of the text and the cursor of a screen changed. *)
Undisturbed(m, k, s) ==
    /\ k.scr[s].win.text = m.scr[s].win.text
    /\ k.scr[s].win.y = m.scr[s].win.y /\ k.scr[s].win.x = m.scr[s].win.x

LEMMA ReshapeFits ==
    ASSUME NEW m, NodeInv(m), NEW d \in Int, NEW h \in Nat \ {0}, NEW w \in Nat \ {0}
    PROVE  LET k == reshapeview(m, d, h, w) IN
           /\ NodeInv(k) /\ k.h = h /\ k.w = w /\ k.s = m.s
           /\ \A t \in Screens : Drawn(m.scr[t], m.pairs) => Drawn(k.scr[t], k.pairs)
           /\ k.h >= m.h => \A t \in Screens : OnScreen(m, t) => OnScreen(k, t)
           /\ (k.h = m.h /\ k.w = m.w) => \A t \in Screens \ {m.s} : Undisturbed(m, k, t)
<1> DEFINE j == FullRegions(Resized(m, h, w))
           k == reshapeview(m, d, h, w)
<1>1. /\ m \in NodeRecord /\ m.h \in Nat /\ m.h # 0 /\ m.w \in Nat /\ m.w # 0 /\ m.s \in Screens
      /\ SCROLLBACK \in Nat /\ SCROLLBACK > 1
      /\ \A t \in Screens : m.scr[t] \in ScreenRecord /\ ScreenFits(m.scr[t], t, m.h, m.w)
  BY NodeFields, ScreenAssumption DEF NodeInv
<1>2. h \in Nat \ {0} /\ w \in Nat \ {0}
  OBVIOUS
<1>3. /\ NodeInv(j) /\ j.h = h /\ j.w = w /\ j.s = m.s
      /\ \A t \in Screens : j.scr[t] = ReshapedScreen(m.scr[t], h, w, t)
      /\ \A t \in Screens : Drawn(m.scr[t], m.pairs) <=> Drawn(j.scr[t], j.pairs)
  BY ReshapedFits
<1> HIDE DEF j
<1>4. \A t \in Screens :
        /\ ScreenFits(j.scr[t], t, h, w)
        /\ j.scr[t].win.y = (IF m.scr[t].win.y > Rows(h, t) - 1
                             THEN Rows(h, t) - 1 ELSE m.scr[t].win.y)
        /\ j.scr[t].win.x = (IF m.scr[t].win.x > Largest(w, 2) - 1
                             THEN Largest(w, 2) - 1 ELSE m.scr[t].win.x)
        /\ j.scr[t].win.text = {r \in m.scr[t].win.text : r < Rows(h, t)}
        /\ j.scr[t].saved = m.scr[t].saved /\ j.scr[t].sy = m.scr[t].sy
  BY <1>2, <1>3, ReshapedScreenFits
<1>5. \A t \in Screens : /\ m.scr[t].win.y \in Nat /\ m.scr[t].win.x \in Nat /\ m.scr[t].sy \in Nat
                         /\ m.scr[t].win.text \subseteq Nat
  BY <1>1, ScreenFields, WindowFields
<1>6. j.h >= m.h => \A t \in Screens : OnScreen(m, t) => OnScreen(j, t)
  <2> SUFFICES ASSUME j.h >= m.h, NEW t \in Screens, OnScreen(m, t) PROVE OnScreen(j, t)
    OBVIOUS
  <2>1. /\ m.scr[t].tos = TopOfScreen(m.h, t) /\ m.scr[t].win.y >= m.scr[t].tos
        /\ m.scr[t].saved => m.scr[t].sy >= m.scr[t].tos
    BY <1>1 DEF OnScreen, ScreenFits
  <2>2. j.scr[t].tos = TopOfScreen(h, t)
    BY <1>4 DEF ScreenFits
  <2>3. /\ TopOfScreen(h, t) <= TopOfScreen(m.h, t)
        /\ TopOfScreen(h, t) <= Rows(h, t) - 1
        /\ TopOfScreen(h, t) \in Nat /\ TopOfScreen(m.h, t) \in Nat
        /\ Rows(h, t) \in Nat
    BY <1>1, <1>2, <1>3 DEF TopOfScreen, Rows, Largest
  <2>4. j.scr[t].win.y >= j.scr[t].tos
    BY <1>4, <1>5, <2>1, <2>2, <2>3
  <2>5. j.scr[t].saved => j.scr[t].sy >= j.scr[t].tos
    BY <1>4, <1>5, <2>1, <2>2, <2>3
  <2> QED BY <2>4, <2>5 DEF OnScreen
<1>7. (j.h = m.h /\ j.w = m.w) => \A t \in Screens : Undisturbed(m, j, t)
  <2> SUFFICES ASSUME j.h = m.h, j.w = m.w, NEW t \in Screens PROVE Undisturbed(m, j, t)
    OBVIOUS
  <2>1. /\ m.scr[t].win.y < Rows(m.h, t) /\ m.scr[t].win.x < Largest(m.w, 2)
        /\ m.scr[t].win.text \subseteq 0 .. (Rows(m.h, t) - 1)
    BY <1>1 DEF ScreenFits, WindowFits
  <2>2. Rows(m.h, t) \in Nat /\ Largest(m.w, 2) \in Nat
    BY <1>1 DEF Rows, Largest
  <2>3. j.scr[t].win.y = m.scr[t].win.y /\ j.scr[t].win.x = m.scr[t].win.x
    BY <1>3, <1>4, <1>5, <2>1, <2>2
  <2>4. j.scr[t].win.text = m.scr[t].win.text
    <3>1. \A r \in m.scr[t].win.text : r < Rows(m.h, t)
      BY <2>1, <2>2
    <3>2. j.scr[t].win.text = {r \in m.scr[t].win.text : r < Rows(m.h, t)}
      BY <1>3, <1>4
    <3> QED BY <3>1, <3>2
  <2> QED BY <2>3, <2>4 DEF Undisturbed
<1>8. CASE d > 0
  <2>1. Py(m) \in Nat /\ X(m) \in Nat /\ Py(m) = m.scr[m.s].win.y
    BY NodeNumbers DEF Py, X, Win, Scr
  <2>2. Py(j) <= Py(m) + d
    <3>1. Py(j) = j.scr[m.s].win.y
      BY <1>3 DEF Py, Win, Scr
    <3>2. Py(j) \in Nat
      BY <1>3, NodeNumbers
    <3> QED BY <1>1, <1>4, <1>8, <2>1, <3>1, <3>2
  <2>3. Py(m) + d \in Int /\ Py(m) + d >= Py(j) /\ X(m) \in Int
    BY <1>1, <2>1, <2>2
  <2>4. Kept(j, Move(j, Py(m) + d, X(m)))
    BY <1>3, <2>3, MoveKept
  <2>5. -d \in Int
    BY <1>1
  <2>6. Kept(Move(j, Py(m) + d, X(m)), Scroll(Move(j, Py(m) + d, X(m)), -d))
    BY <2>4, <2>5, ScrollKept DEF Kept
  <2>7. k = Scroll(Move(j, Py(m) + d, X(m)), -d)
    BY <1>8 DEF reshapeview, j
  <2> HIDE DEF k
  <2>8. Kept(j, k)
    BY <2>4, <2>6, <2>7, KeptTwice
  <2> QED BY <1>3, <1>6, <1>7, <2>8 DEF Kept, Undisturbed, k
<1>9. CASE ~(d > 0)
  <2>1. k = j
    BY <1>9 DEF reshapeview, j
  <2> QED BY <1>3, <1>6, <1>7, <2>1
<1> QED BY <1>8, <1>9

-----------------------------------------------------------------------------
(* Scrolling back and drawing. *)
LEMMA OffKept ==
    ASSUME NEW m, NodeInv(m), NEW off \in Nat, off <= Tos(m)
    PROVE  Kept(m, SetOff(m, off))
<1> DEFINE k == [Scr(m) EXCEPT !.off = off]
<1>1. /\ m \in NodeRecord /\ m.s \in Screens /\ Scr(m) \in ScreenRecord /\ Scr(m) = m.scr[m.s]
  BY NodeFields DEF NodeInv
<1>2. /\ k \in ScreenRecord /\ k.win = Scr(m).win /\ k.tos = Scr(m).tos /\ k.off = off
      /\ k.saved = Scr(m).saved /\ k.sy = Scr(m).sy /\ k.fg = Scr(m).fg /\ k.bg = Scr(m).bg
      /\ k.pair = Scr(m).pair /\ k.sp = Scr(m).sp
  <2> HIDE DEF WindowRecord, Colour
  <2> QED BY <1>1 DEF ScreenRecord
<1>3. SetOff(m, off) = Put(m, m.s, k)
  BY <1>1 DEF SetOff, Put, Scr
<1> HIDE DEF k
<1>4. ScreenFits(k, m.s, m.h, m.w) /\ Painted(k, m.pairs) /\ (Drawn(Scr(m), m.pairs) => Drawn(k, m.pairs))
  BY <1>1, <1>2 DEF NodeInv, ScreenFits, Painted, Drawn, Tos
<1>5. OnScreen(m, m.s) => (k.win.y >= k.tos /\ (k.saved => k.sy >= k.tos))
  BY <1>1, <1>2 DEF OnScreen
<1> QED BY <1>2, <1>3, <1>4, <1>5, PutKept

LEMMA ViewKept ==
    ASSUME NEW m, NodeInv(m)
    PROVE  /\ Kept(m, scrollback(m)) /\ Kept(m, scrollforward(m)) /\ Kept(m, scrollbottom(m))
           /\ Kept(m, fixcursor(m))
<1>1. Scr(m).off \in Nat /\ Scr(m).off <= Tos(m) /\ Tos(m) \in Nat /\ m.h \in Nat /\ m.h # 0
      /\ Py(m) \in Nat /\ X(m) \in Nat
  <2>1. m.s \in Screens /\ Scr(m) \in ScreenRecord /\ Scr(m) = m.scr[m.s]
    BY NodeFields DEF NodeInv
  <2>2. Scr(m).off \in Nat /\ Scr(m).off <= Tos(m)
    BY <2>1, ScreenFields DEF NodeInv, ScreenFits, Tos
  <2> QED BY <2>2, NodeNumbers DEF NodeInv
<1>2. m.h \div 2 \in Nat
  BY <1>1
<1> DEFINE half == m.h \div 2
<1> HIDE DEF half
<1>3. /\ Largest(0, Scr(m).off - half) \in Nat /\ Largest(0, Scr(m).off - half) <= Tos(m)
      /\ Least(Tos(m), Scr(m).off + half) \in Nat /\ Least(Tos(m), Scr(m).off + half) <= Tos(m)
  BY <1>1, <1>2 DEF Largest, Least, half
<1>4. Kept(m, scrollback(m)) /\ Kept(m, scrollforward(m)) /\ Kept(m, scrollbottom(m))
  BY <1>1, <1>3, OffKept DEF scrollback, scrollforward, scrollbottom, half
<1>5. /\ Least(Largest(Py(m), Tos(m)), Tos(m) + m.h - 1) \in Int
      /\ Least(Largest(Py(m), Tos(m)), Tos(m) + m.h - 1) >= Tos(m)
  BY <1>1 DEF Least, Largest
<1>6. Kept(m, fixcursor(m))
  <2>1. X(m) \in Int
    BY <1>1
  <2> QED BY <1>5, <2>1, MoveKept DEF fixcursor
<1> QED BY <1>4, <1>6
-----------------------------------------------------------------------------
(* The steps of the specification. *)
Reached(m) == NodeInv(m) /\ Drawn(m.scr["pri"], m.pairs)

LEMMA NewScreenFits ==
    ASSUME NEW rows \in Nat \ {0, 1}, NEW w \in Nat \ {0, 1}, NEW tos \in Nat, tos < rows
    PROVE  LET k == NewScreen(rows, w, tos) IN
           /\ k \in ScreenRecord /\ WindowFits(k.win, rows, w) /\ k.win.bot = rows - 1
           /\ k.tos = tos /\ k.off = tos /\ k.pair = 0 /\ k.sp = 0 /\ k.fg = 0 /\ k.bg = 0
<1> DEFINE win == newpad(rows, w)
           k == NewScreen(rows, w, tos)
<1>1. win \in WindowRecord /\ WindowFits(win, rows, w) /\ win.bot = rows - 1
  BY DEF newpad, WindowRecord, WindowFits
<1>2. k = [win |-> win, tos |-> tos, off |-> tos, xenl |-> FALSE, oxenl |-> FALSE,
           saved |-> FALSE, sx |-> 0, sy |-> 0, insert |-> FALSE,
           fg |-> 0, bg |-> 0, sfg |-> 0, sbg |-> 0, pair |-> 0, sp |-> 0]
  BY DEF NewScreen
<1> HIDE DEF win, k
<1>3. k \in ScreenRecord
  <2>1. 0 \in Colour /\ 0 \in Nat /\ FALSE \in BOOLEAN
    BY DEF Colour
  <2> HIDE DEF WindowRecord, Colour
  <2> QED BY <1>1, <1>2, <2>1 DEF ScreenRecord
<1>4. /\ k.win = win /\ k.tos = tos /\ k.off = tos
      /\ k.pair = 0 /\ k.sp = 0 /\ k.fg = 0 /\ k.bg = 0
  BY <1>2
<1> QED BY <1>1, <1>3, <1>4 DEF k

LEMMA InitReached == Init => Reached(n)
<1> SUFFICES ASSUME NEW h \in Heights \ {0, 1}, NEW w \in Widths \ {0, 1},
       n = ris([s |-> "pri", h |-> h, w |-> w, tabs |-> {}, repc |-> FALSE,
                 decom |-> FALSE, am |-> FALSE, lnm |-> FALSE, pairs |-> <<>>,
                 scr |-> [pri |-> NewScreen(Largest(h, SCROLLBACK), w, Largest(0, SCROLLBACK - h)),
                          alt |-> NewScreen(h, w, 0)]])
             PROVE  Reached(n)
  BY DEF Init
<1> DEFINE j == NewScreen(Largest(h, SCROLLBACK), w, Largest(0, SCROLLBACK - h))
           k == NewScreen(h, w, 0)
           scr == [pri |-> j, alt |-> k]
           m == [s |-> "pri", h |-> h, w |-> w, tabs |-> {}, repc |-> FALSE,
                 decom |-> FALSE, am |-> FALSE, lnm |-> FALSE, pairs |-> <<>>, scr |-> scr]
<1>1. h \in Nat \ {0, 1} /\ w \in Nat \ {0, 1} /\ SCROLLBACK \in Nat \ {0, 1}
  BY ScreenAssumption
<1>2. /\ Largest(h, SCROLLBACK) \in Nat \ {0, 1} /\ Largest(0, SCROLLBACK - h) \in Nat
      /\ Largest(0, SCROLLBACK - h) < Largest(h, SCROLLBACK) /\ Largest(w, 2) = w
      /\ Rows(h, "pri") = Largest(h, SCROLLBACK) /\ Rows(h, "alt") = h
      /\ TopOfScreen(h, "pri") = Largest(0, SCROLLBACK - h) /\ TopOfScreen(h, "alt") = 0
  BY <1>1 DEF Largest, Rows, TopOfScreen
<1>3. /\ j \in ScreenRecord /\ WindowFits(j.win, Largest(h, SCROLLBACK), w)
      /\ j.win.bot = Largest(h, SCROLLBACK) - 1 /\ j.tos = Largest(0, SCROLLBACK - h)
      /\ j.off = Largest(0, SCROLLBACK - h) /\ j.pair = 0 /\ j.sp = 0 /\ j.fg = 0 /\ j.bg = 0
  BY <1>1, <1>2, NewScreenFits
<1>4. /\ k \in ScreenRecord /\ WindowFits(k.win, h, w)
      /\ k.win.bot = h - 1 /\ k.tos = 0 /\ k.off = 0 /\ k.pair = 0 /\ k.sp = 0 /\ k.fg = 0 /\ k.bg = 0
  BY <1>1, NewScreenFits
<1> HIDE DEF j, k
<1>5. ScreenFits(j, "pri", h, w) /\ ScreenFits(k, "alt", h, w)
  BY <1>1, <1>2, <1>3, <1>4 DEF ScreenFits
<1>6. Painted(j, <<>>) /\ Painted(k, <<>>)
  BY <1>3, <1>4 DEF Painted
<1>7. scr \in [Screens -> ScreenRecord] /\ scr["pri"] = j /\ scr["alt"] = k
  <2> HIDE DEF ScreenRecord
  <2> QED BY <1>3, <1>4 DEF Screens
<1> HIDE DEF scr
<1>8. /\ m \in NodeRecord /\ m.s = "pri" /\ m.h = h /\ m.w = w /\ m.tabs = {} /\ m.pairs = <<>>
      /\ m.scr = scr
  <2> HIDE DEF ScreenRecord, Colour
  <2>1. <<>> \in Seq(Colour \X Colour) /\ "pri" \in Screens /\ FALSE \in BOOLEAN /\ {} \in SUBSET Nat
    BY DEF Screens
  <2> QED BY <1>1, <1>7, <2>1 DEF NodeRecord
<1>9. n = ris(m)
  BY DEF scr, j, k
<1> HIDE DEF m
<1>10. NodeInv(m)
  BY <1>1, <1>5, <1>6, <1>7, <1>8 DEF NodeInv, Screens
<1> QED BY <1>8, <1>9, <1>10, ResetStays DEF Reached, Stays

(* Every step but Reset, Mode and Reshape is Kept, in the words of the lemmas above. *)
HandlerStep ==
    Motion \/ Tabs \/ Index \/ ReverseIndex \/ InsertLines \/ ScrollUp \/ SetRegion
        \/ Erase \/ Printing \/ Save \/ Rendition \/ Keys \/ Draw

LEMMA ArgumentLists ==
    /\ Counts \subseteq Seq(Nat) /\ Places \subseteq Seq(Nat)
    /\ Modes \subseteq Seq(Nat) /\ Renditions \subseteq Seq(Nat)
    /\ Heights \subseteq Nat /\ Widths \subseteq Nat
BY ScreenAssumption

(* What a view is asked to take decides what it gets. *)
LEMMA ReshapeGives ==
    ASSUME NEW h \in Asked, NodeInv(n), ReshapeTo(h)
    PROVE  /\ h \in Nat /\ n.h - h \in Int
           /\ \E rows \in Nat \ {0}, columns \in Nat \ {0} :
                 /\ n' = reshapeview(n, n.h - h, rows, columns)
                 /\ rows = h \/ rows = h - 1 \/ (h = 0 /\ rows = 1)
<1>1. h \in Nat /\ n.h \in Nat
  BY ArgumentLists, NodeNumbers DEF Asked
<1>2. ASSUME NEW w \in Widths, n' = reshape(n, h, w)
      PROVE  \E rows \in Nat \ {0}, columns \in Nat \ {0} :
                 /\ n' = reshapeview(n, n.h - h, rows, columns)
                 /\ rows = h \/ rows = h - 1 \/ (h = 0 /\ rows = 1)
  <2>1. /\ Largest(h, 1) \in Nat \ {0} /\ Largest(w, 1) \in Nat \ {0}
        /\ Largest(h, 1) = h \/ (h = 0 /\ Largest(h, 1) = 1)
    BY <1>1, ArgumentLists DEF Largest
  <2> QED BY <1>2, <2>1 DEF reshape
<1>3. ASSUME NEW w \in Widths \ {0}, h - 1 \in Heights \ {0}, n' = reshape_full(n, h, w)
      PROVE  \E rows \in Nat \ {0}, columns \in Nat \ {0} :
                 /\ n' = reshapeview(n, n.h - h, rows, columns)
                 /\ rows = h \/ rows = h - 1 \/ (h = 0 /\ rows = 1)
  <2>1. h - 1 \in Nat \ {0} /\ w \in Nat \ {0}
    BY <1>3, ArgumentLists
  <2> QED BY <1>3, <2>1 DEF reshape_full
<1> QED BY <1>1, <1>2, <1>3 DEF ReshapeTo

LEMMA ReshapeStep ==
    ASSUME NodeInv(n), Reshape
    PROVE  /\ \E d \in Int, rows \in Nat \ {0}, columns \in Nat \ {0} :
                 n' = reshapeview(n, d, rows, columns)
           /\ n'.s = n.s
           /\ (n'.h = n.h /\ n'.w = n.w) => \A t \in Screens \ {n.s} : Undisturbed(n, n', t)
<1>1. PICK h \in Asked : ReshapeTo(h)
  BY DEF Reshape
<1>2. n.h - h \in Int /\ \E rows \in Nat \ {0}, columns \in Nat \ {0} :
                            n' = reshapeview(n, n.h - h, rows, columns)
  BY <1>1, ReshapeGives
<1>3. PICK d \in Int, rows \in Nat \ {0}, columns \in Nat \ {0} :
            n' = reshapeview(n, d, rows, columns)
  BY <1>2
<1> DEFINE k == reshapeview(n, d, rows, columns)
<1>4. /\ k.s = n.s
      /\ (k.h = n.h /\ k.w = n.w) => \A t \in Screens \ {n.s} : Undisturbed(n, k, t)
  BY ReshapeFits
<1> HIDE DEF k
<1>5. n' = k
  BY <1>3 DEF k
<1> QED BY <1>3, <1>4, <1>5

LEMMA HandlerKept ==
    ASSUME NodeInv(n), HandlerStep
    PROVE  Kept(n, n')
<1>1. CASE Motion
  BY <1>1, ArgumentLists, MotionKept DEF Motion, Calls
<1>2. CASE Tabs
  BY <1>2, ArgumentLists, TabKept, StopsKept DEF Tabs, Calls
<1>3. CASE Index
  BY <1>3, IndexKept DEF Index, Calls
<1>4. CASE ReverseIndex
  <2>1. <<>> \in Seq(Nat)
    OBVIOUS
  <2> QED BY <1>4, <2>1, ScrollsKept DEF ReverseIndex, Calls
<1>5. CASE InsertLines
  BY <1>5, ArgumentLists, ScrollsKept DEF InsertLines, Calls
<1>6. CASE ScrollUp
  BY <1>6, ArgumentLists, ScrollsKept DEF ScrollUp, Calls
<1>7. CASE SetRegion
  BY <1>7, ArgumentLists, RegionKept DEF SetRegion, Calls
<1>8. CASE Erase
  BY <1>8, ArgumentLists, EraseLineKept, EraseDisplayKept, FillKept DEF Erase, Calls
<1>9. CASE Printing
  BY <1>9, ArgumentLists, PrintKept, RepeatKept DEF Printing, Calls
<1>10. CASE Save
  BY <1>10, SaveKept, RestoreKept DEF Save, Calls
<1>11. CASE Rendition
  BY <1>11, ArgumentLists, SgrKept DEF Rendition, Calls
<1>12. CASE Keys
  BY <1>12, ViewKept DEF Keys
<1>13. CASE Draw
  BY <1>13, ViewKept DEF Draw
<1> QED BY <1>1, <1>2, <1>3, <1>4, <1>5, <1>6, <1>7, <1>8, <1>9, <1>10, <1>11, <1>12, <1>13
        DEF HandlerStep

LEMMA NextSteps == Next <=> HandlerStep \/ Reset \/ Mode \/ Reshape
BY DEF Next, HandlerStep

LEMMA NextReached ==
    ASSUME Reached(n), [Next]_n
    PROVE  /\ Reached(n)'
           /\ n'.h >= n.h => \A s \in Screens : OnScreen(n, s) => OnScreen(n', s)
<1> USE DEF Reached
<1>1. n.h \in Nat /\ "pri" \in Screens
  BY NodeNumbers DEF Screens
<1>2. CASE n' = n
  BY <1>2
<1>3. CASE HandlerStep
  BY <1>1, <1>3, HandlerKept DEF Kept
<1>4. CASE Reset
  BY <1>1, <1>4, ResetStays DEF Reset, Calls, Stays
<1>5. CASE Mode
  BY <1>1, <1>5, ArgumentLists, ModeStays DEF Mode, Calls, Stays
<1>6. CASE Reshape
  <2>1. PICK d \in Int, h \in Nat \ {0}, w \in Nat \ {0} : n' = reshapeview(n, d, h, w)
    BY <1>6, ReshapeStep
  <2> QED BY <1>1, <2>1, ReshapeFits
<1> QED BY <1>2, <1>3, <1>4, <1>5, <1>6, NextSteps

LEMMA AlwaysReached == Spec => []Reached(n)
<1>1. Init => Reached(n)
  BY InitReached
<1>2. Reached(n) /\ [Next]_n => Reached(n)'
  BY NextReached
<1> QED BY <1>1, <1>2, PTL DEF Spec

(* No handler, in any mode, region and order of calls, moves a cursor or a *)
(* saved cursor from the screen into the scroll-back: only a reshape to    *)
(* fewer rows does.                                                        *)
THEOREM CursorStays == Spec => CursorStaysOnScreen
<1>1. Reached(n) /\ [Next]_n
        => [\A s \in Screens : OnScreen(n, s) /\ ~OnScreen(n', s) => n'.h < n.h]_n
  <2> SUFFICES ASSUME Reached(n), [Next]_n, NEW s \in Screens, OnScreen(n, s), ~OnScreen(n', s)
               PROVE  n'.h < n.h
    OBVIOUS
  <2>1. Reached(n)' /\ ~(n'.h >= n.h)
    BY NextReached
  <2>2. n.h \in Nat /\ n'.h \in Nat
    BY <2>1, NodeNumbers DEF Reached
  <2> QED BY <2>1, <2>2
<1> QED BY <1>1, AlwaysReached, PTL DEF Spec, CursorStaysOnScreen
-----------------------------------------------------------------------------
(* What the pair of a window shows. *)

(* What is printed appears in the colours asked for last, on both screens, *)
(* whatever sgr, sc, rc, ris and the modes did before, unless no pair was  *)
(* left; only the alternate screen that never got a colour is exempt.      *)
THEOREM ColoursAreShown == Spec => []ColoursShown
<1>1. Reached(n) => ColoursShown
  <2> SUFFICES ASSUME Reached(n), NEW s \in Screens
               PROVE  LET k == n.scr[s]
                          asked == <<k.fg, k.bg>>
                          shown == IF k.pair = 0 THEN <<-1, -1>> ELSE n.pairs[k.pair] IN
                      \/ shown = asked
                      \/ NoPair(n.pairs, asked)
                      \/ s = "alt" /\ k.pair = 0 /\ asked = <<0, 0>>
    BY DEF ColoursShown
  <2>1. Painted(n.scr[s], n.pairs) /\ Drawn(n.scr["pri"], n.pairs)
    BY DEF Reached, NodeInv
  <2>2. s = "pri" \/ s = "alt"
    BY DEF Screens
  <2> QED BY <2>1, <2>2 DEF Painted, Drawn
<1> QED BY <1>1, AlwaysReached, PTL

LEMMA ReachedTypes == ASSUME NodeInv(n) PROVE TypeOK
<1>1. n \in NodeRecord
  BY DEF NodeInv
<1>2. /\ n.s \in Screens /\ n.h \in Nat \ {0} /\ n.w \in Nat \ {0}
      /\ n.tabs \subseteq 0 .. (n.w - 1)
      /\ {n.repc, n.decom, n.am, n.lnm} \subseteq BOOLEAN
  BY <1>1, NodeFields DEF NodeInv
<1>3. ASSUME NEW s \in Screens
      PROVE  LET k == n.scr[s]
                 win == k.win IN
             /\ win.rows = (IF s = "pri" THEN Largest(n.h, SCROLLBACK) ELSE Largest(n.h, 2))
             /\ win.columns = Largest(n.w, 2)
             /\ k.tos + (IF s = "pri" THEN n.h ELSE win.rows) = win.rows
             /\ k.off \in 0 .. k.tos
             /\ win.y \in 0 .. (win.rows - 1) /\ win.x \in 0 .. (win.columns - 1)
             /\ 0 <= win.top /\ win.top <= win.bot /\ win.bot < win.rows
             /\ win.text \subseteq 0 .. (win.rows - 1)
             /\ {k.xenl, k.oxenl, k.saved, k.insert} \subseteq BOOLEAN
             /\ k.sy \in Nat /\ k.sx \in Nat
             /\ {k.fg, k.bg, k.sfg, k.sbg} \subseteq Nat \cup {-1}
             /\ {k.pair, k.sp} \subseteq 0 .. Len(n.pairs)
  <2> DEFINE k == n.scr[s]
  <2>1. k \in ScreenRecord /\ ScreenFits(k, s, n.h, n.w) /\ Painted(k, n.pairs)
    BY <1>1, NodeFields DEF NodeInv
  <2>2. Len(n.pairs) \in Nat
    BY <1>1, NodeFields
  <2> HIDE DEF k
  <2>3. /\ k.win \in WindowRecord /\ k.tos \in Nat /\ k.off \in Nat /\ k.xenl \in BOOLEAN
        /\ k.oxenl \in BOOLEAN /\ k.saved \in BOOLEAN /\ k.insert \in BOOLEAN
        /\ k.sx \in Nat /\ k.sy \in Nat /\ k.fg \in Colour /\ k.bg \in Colour
        /\ k.sfg \in Colour /\ k.sbg \in Colour /\ k.pair \in Nat /\ k.sp \in Nat
    BY <2>1, ScreenFields
  <2>4. /\ k.win.rows \in Nat /\ k.win.columns \in Nat /\ k.win.y \in Nat /\ k.win.x \in Nat
        /\ k.win.top \in Nat /\ k.win.bot \in Nat
    BY <2>3, WindowFields
  <2>5. /\ k.win.rows = Rows(n.h, s) /\ k.win.columns = Largest(n.w, 2) /\ k.win.y < k.win.rows
        /\ k.win.x < k.win.columns /\ k.win.top <= k.win.bot /\ k.win.bot < k.win.rows
        /\ k.win.text \subseteq 0 .. (k.win.rows - 1) /\ k.tos = TopOfScreen(n.h, s) /\ k.off <= k.tos
    BY <2>1 DEF ScreenFits, WindowFits
  <2>6. /\ k.win.rows = (IF s = "pri" THEN Largest(n.h, SCROLLBACK) ELSE Largest(n.h, 2))
        /\ k.tos + (IF s = "pri" THEN n.h ELSE k.win.rows) = k.win.rows
    BY <1>2, <2>4, <2>5 DEF Rows, TopOfScreen
  <2>7. /\ k.off \in 0 .. k.tos
        /\ k.win.y \in 0 .. (k.win.rows - 1) /\ k.win.x \in 0 .. (k.win.columns - 1)
        /\ 0 <= k.win.top
    BY <2>3, <2>4, <2>5
  <2>8. {k.pair, k.sp} \subseteq 0 .. Len(n.pairs)
    BY <2>1, <2>2, <2>3 DEF Painted
  <2>9. /\ {k.xenl, k.oxenl, k.saved, k.insert} \subseteq BOOLEAN
        /\ {k.fg, k.bg, k.sfg, k.sbg} \subseteq Nat \cup {-1}
    BY <2>3 DEF Colour
  <2> QED BY <2>3, <2>5, <2>6, <2>7, <2>8, <2>9 DEF k
<1> QED BY <1>2, <1>3 DEF TypeOK

(* The windows of a view have the sizes reshape asked for, cursors,        *)
(* regions, text and tab stops lie in them, and a cursor reported by dsr   *)
(* and sent back with cup is where it was, in origin mode too.             *)
THEOREM ReportsReturn == Spec => []ReportReturns
<1>1. ASSUME Reached(n), ReportedRow(n) >= 1
      PROVE  LET m == cup(n, <<ReportedRow(n), X(n) + 1>>) IN Py(m) = Py(n) /\ X(m) = X(n)
  <2> DEFINE row == ReportedRow(n)
             a == <<row, X(n) + 1>>
             y == Tos(n) + (IF n.decom THEN Top(n) ELSE 0) + P1(a, 0) - 1
             x == P1(a, 1) - 1
             m == cup(n, a)
  <2>1. /\ NodeInv(n) /\ Win(n) \in WindowRecord /\ Tos(n) \in Nat /\ Py(n) \in Nat /\ X(n) \in Nat
        /\ Top(n) \in Nat /\ Y(n) = Py(n) - Tos(n)
        /\ Py(n) < Win(n).rows /\ X(n) < Win(n).columns
        /\ Win(n).rows \in Nat /\ Win(n).columns \in Nat
        /\ Py(n) = Win(n).y /\ X(n) = Win(n).x
    BY <1>1, NodeNumbers DEF Reached, Py, X
  <2>2. row = (IF n.decom THEN Py(n) - Tos(n) - Top(n) ELSE Py(n) - Tos(n)) + 1 /\ row \in Int /\ row >= 1
    BY <1>1, <2>1 DEF ReportedRow
  <2> HIDE DEF row
  <2>3. P1(a, 0) = row /\ P1(a, 1) = X(n) + 1
    BY <2>1, <2>2 DEF P1, P0, PD
  <2>4. y = Py(n) /\ x = X(n)
    BY <2>1, <2>2, <2>3
  <2>5. m = Done(Move(NoWrap(n), y, x))
    BY DEF cup
  <2> HIDE DEF a, y, x, m
  <2>6. /\ y \in Int /\ x \in Int /\ y >= Py(n)
        /\ y \in 0 .. (Win(n).rows - 1) /\ x \in 0 .. (Win(n).columns - 1)
    BY <2>1, <2>4
  <2>7. Win(m) = wmove(Win(n), y, x)
    BY <2>1, <2>5, <2>6, NoWrapMoveDone
  <2>8. Win(m).y = y /\ Win(m).x = x
    BY <2>1, <2>6, <2>7, Moved
  <2> QED BY <2>1, <2>4, <2>8 DEF Py, X, m, a, row
<1>2. Reached(n) => ReportReturns
  BY <1>1, ReachedTypes DEF ReportReturns, Reached
<1> QED BY <1>2, AlwaysReached, PTL
-----------------------------------------------------------------------------
(* What scrolling leaves alone. *)
LEMMA MoveText ==
    ASSUME NEW m, NodeInv(m), NEW y \in Int, NEW x \in Int, y >= Tos(m) \/ y >= Py(m) \/ y < 0
    PROVE  Win(Done(Move(m, y, x))).text = Win(m).text
<1>1. Win(m) \in WindowRecord
  BY NodeNumbers
<1>2. Win(Done(Move(m, y, x))) = wmove(Win(m), y, x)
  BY MoveDone
<1> QED BY <1>1, <1>2, Moved

LEMMA ScrollWithinText ==
    ASSUME NEW m, NodeInv(m), NEW top \in Int, NEW k \in Int, RegionFits(Win(m), top, Win(m).bot)
    PROVE  \A r : r \notin top .. Win(m).bot =>
               (r \in Win(ScrollWithin(m, top, Win(m).bot, k)).text <=> r \in Win(m).text)
<1> DEFINE win == Win(m)
           u == wsetscrreg(win, top, win.bot)
           v == wscrl(u, k)
           e == wsetscrreg(v, win.top, win.bot)
<1>1. /\ m \in NodeRecord /\ win \in WindowRecord /\ win.rows \in Nat /\ win.top \in Nat
      /\ win.bot \in Nat /\ win.bot < win.rows /\ win.text \subseteq 0 .. (win.rows - 1)
  BY NodeNumbers DEF NodeInv
<1>2. /\ u \in WindowRecord /\ u.rows = win.rows /\ u.text = win.text
      /\ u.top = top /\ u.bot = win.bot
  BY <1>1, RegionSet
<1> HIDE DEF u
<1>3. v \in WindowRecord /\ v.text = (u.text \ (u.top .. u.bot))
                                        \cup {r \in u.top .. u.bot : r + k \in u.text \cap (u.top .. u.bot)}
  <2>1. v \in WindowRecord
    BY <1>1, <1>2, Scrolled
  <2>2. v.text = (u.text \ (u.top .. u.bot))
                     \cup {r \in u.top .. u.bot : r + k \in u.text \cap (u.top .. u.bot)}
    BY <1>2 DEF wscrl, WindowRecord
  <2> QED BY <2>1, <2>2
<1> HIDE DEF v
<1>4. e \in WindowRecord /\ e.text = v.text
  BY <1>1, <1>3, RegionSet
<1> HIDE DEF e
<1>5. ScrollWithin(m, top, Win(m).bot, k) = SetWin(m, e)
  BY DEF ScrollWithin, e, v, u
<1>6. Win(SetWin(m, e)) = e
  BY <1>1, <1>4, SetWinTwice
<1> HIDE DEF win
<1>7. \A r : r \notin top .. win.bot => (r \in e.text <=> r \in win.text)
  BY <1>2, <1>3, <1>4
<1> QED BY <1>5, <1>6, <1>7 DEF win

LEMMA InsertStays ==
    ASSUME NEW m, NodeInv(m), NEW a \in Seq(Nat), NEW w, Y(m) < Bot(m) - 1
    PROVE  \A r : r < Py(m) \/ r > Win(m).bot =>
               (r \in Int => (r \in Win(idl(m, a, w)).text <=> r \in Win(m).text))
<1> DEFINE p1 == Least(P1(a, 0), (My(m) - 1) - Y(m))
           k == IF w = "L" THEN -p1 ELSE p1
           j == ScrollWithin(m, Py(m), Win(m).bot, k)
<1>1. /\ Py(m) \in Nat /\ Tos(m) \in Nat /\ Y(m) = Py(m) - Tos(m) /\ Bot(m) = Win(m).bot + 1 - Tos(m)
      /\ Win(m).bot \in Nat /\ Win(m).rows \in Nat /\ Win(m).bot < Win(m).rows
      /\ My(m) = Win(m).rows - Tos(m)
  BY NodeNumbers
<1>2. P1(a, 0) \in Nat
  BY ArgumentNat
<1>3. p1 \in Int
  BY <1>1, <1>2 DEF Least
<1> HIDE DEF p1
<1>4. k \in Int /\ Py(m) \in Int
  BY <1>1, <1>3
<1>5. RegionFits(Win(m), Py(m), Win(m).bot)
  BY <1>1 DEF RegionFits
<1> HIDE DEF k
<1>6. \A r : r \notin Py(m) .. Win(m).bot => (r \in Win(j).text <=> r \in Win(m).text)
  BY <1>4, <1>5, ScrollWithinText
<1>7. NodeInv(j) /\ Py(j) = Py(m)
  BY <1>4, ScrollWithinKept DEF Kept
<1>8. idl(m, a, w) = Done(Move(j, Py(m), 0))
  BY DEF idl, j, k, p1
<1> HIDE DEF j
<1>9. Win(Done(Move(j, Py(m), 0))).text = Win(j).text
  <2>1. 0 \in Int /\ Py(m) >= Py(j)
    BY <1>1, <1>7
  <2> QED BY <1>4, <1>7, <2>1, MoveText
<1> QED BY <1>1, <1>6, <1>8, <1>9

LEMMA ReverseStays ==
    ASSUME NEW m, NodeInv(m), Y(m) >= 0, Top(m) < Bot(m) - 1
    PROVE  \A r \in 0 .. (Tos(m) - 1) : r \in Win(ri(m)).text <=> r \in Win(m).text
<1>1. /\ Py(m) \in Nat /\ X(m) \in Nat /\ Tos(m) \in Nat /\ Y(m) = Py(m) - Tos(m)
      /\ Bot(m) = Win(m).bot + 1 - Tos(m) /\ Win(m).top \in Nat
      /\ Top(m) = (IF Win(m).top <= Tos(m) THEN 0 ELSE Win(m).top - Tos(m))
      /\ Win(m).bot \in Nat /\ Win(m).rows \in Nat /\ Win(m).bot < Win(m).rows
  BY NodeNumbers
<1>2. CASE Y(m) = Top(m)
  <2> DEFINE top == Largest(Win(m).top, Tos(m))
             j == ScrollWithin(m, top, Win(m).bot, -1)
  <2>1. top \in Int /\ top >= Tos(m) /\ RegionFits(Win(m), top, Win(m).bot) /\ -1 \in Int
    BY <1>1 DEF Largest, RegionFits
  <2> HIDE DEF top
  <2>2. \A r : r \notin top .. Win(m).bot => (r \in Win(j).text <=> r \in Win(m).text)
    BY <2>1, ScrollWithinText
  <2>3. NodeInv(j)
    BY <2>1, ScrollWithinKept DEF Kept
  <2>4. ri(m) = Done(j)
    BY <1>2 DEF ri, top
  <2> HIDE DEF j
  <2>5. Win(Done(j)) = Win(j)
    BY <2>3, DoneKept DEF Win, Scr
  <2> QED BY <1>1, <2>1, <2>2, <2>4, <2>5
<1>3. CASE Y(m) # Top(m)
  <2> DEFINE y == Largest(Tos(m), Py(m) - 1)
  <2>1. y \in Int /\ y >= Tos(m) /\ X(m) \in Int
    BY <1>1 DEF Largest
  <2>2. ri(m) = Done(Move(m, y, X(m)))
    BY <1>3 DEF ri
  <2> HIDE DEF y
  <2>3. Win(ri(m)).text = Win(m).text
    BY <2>1, <2>2, MoveText
  <2> QED BY <2>3
<1> QED BY <1>2, <1>3

(* Inserting and deleting lines leaves the rows above the cursor and below *)
(* the bottom margin alone, and reverse index the scroll-back.             *)
THEOREM LinesDoStay == Spec => LinesStay
<1> DEFINE A == /\ (Y(n) < Bot(n) - 1 /\ Changed(OutsideInsert(n))) => ~InsertLines
                /\ (Y(n) >= 0 /\ Top(n) < Bot(n) - 1 /\ Changed(ScrolledBack(n))) => ~ReverseIndex
<1>1. ASSUME Reached(n), Y(n) < Bot(n) - 1, InsertLines
      PROVE  ~Changed(OutsideInsert(n))
  <2>1. PICK a \in Seq(Nat), w \in {"L", "M"} : n' = idl(n, a, w)
    BY <1>1, ArgumentLists DEF InsertLines, Calls
  <2>2. \A r : r < Py(n) \/ r > Win(n).bot =>
               (r \in Int => (r \in Win(n').text <=> r \in Win(n).text))
    BY <1>1, <2>1, InsertStays DEF Reached
  <2>3. \A r \in OutsideInsert(n) : r \in Int /\ (r < Py(n) \/ r > Win(n).bot)
    BY <1>1, NodeNumbers DEF OutsideInsert, Reached
  <2>4. Win(n').text \cap OutsideInsert(n) = Win(n).text \cap OutsideInsert(n)
    BY <2>2, <2>3
  <2> QED BY <2>4 DEF Changed
<1>2. ASSUME Reached(n), Y(n) >= 0, Top(n) < Bot(n) - 1, ReverseIndex
      PROVE  ~Changed(ScrolledBack(n))
  <2>1. n' = ri(n)
    BY <1>2 DEF ReverseIndex, Calls
  <2>2. \A r \in 0 .. (Tos(n) - 1) : r \in Win(n').text <=> r \in Win(n).text
    BY <1>2, <2>1, ReverseStays DEF Reached
  <2>3. Win(n').text \cap ScrolledBack(n) = Win(n).text \cap ScrolledBack(n)
    BY <2>2 DEF ScrolledBack
  <2> QED BY <2>3 DEF Changed
<1>3. Reached(n) => A
  BY <1>1, <1>2
<1>4. Reached(n) /\ [Next]_n => [A]_n
  BY <1>3
<1> HIDE DEF A
<1>5. Spec => [][A]_n
  BY <1>4, AlwaysReached, PTL DEF Spec
<1> QED BY <1>5 DEF LinesStay, A
-----------------------------------------------------------------------------
(* Printing along a line. *)
LEMMA BreakStays ==
    ASSUME NEW m, NodeInv(m), NEW win \in WindowRecord
    PROVE  Scr(SetWin(m, win)).xenl = Scr(m).xenl
<1>1. /\ m \in NodeRecord /\ m.s \in Screens /\ Scr(m) \in ScreenRecord
      /\ Scr(m) = m.scr[m.s] /\ m.scr \in [Screens -> ScreenRecord]
  BY NodeFields DEF NodeInv
<1> DEFINE k == [Scr(m) EXCEPT !.win = win]
<1>2. k \in ScreenRecord /\ k.xenl = Scr(m).xenl
  <2> HIDE DEF WindowRecord, Colour
  <2> QED BY <1>1 DEF ScreenRecord
<1>3. SetWin(m, win) = Put(m, m.s, k)
  BY <1>1 DEF SetWin, Put, Scr
<1> HIDE DEF k
<1>4. Scr(Put(m, m.s, k)) = k
  BY <1>1, <1>2, PutNode DEF Scr
<1> QED BY <1>2, <1>3, <1>4

LEMMA DoneView ==
    ASSUME NEW m, NodeInv(m)
    PROVE  Scr(Done(m)) = Scr(m) /\ Win(Done(m)) = Win(m)
BY DoneKept DEF Scr, Win

LEMMA NextLine ==
    ASSUME NEW m, NodeInv(m)
    PROVE  LET k == nel(NoWrap(m)) IN
           /\ X(k) = 0 /\ Scr(k).xenl = FALSE /\ Mx(k) = Mx(m)
           /\ Py(k) = Py(m) + 1 \/ Y(m) = Bot(m) - 1 \/ Py(m) = Win(m).rows - 1
<1> DEFINE j == NoWrap(m)
           i == NoWrap(j)
           c == cr(j)
           k == nel(j)
<1>1. NodeInv(j) /\ Win(j) = Win(m) /\ Tos(j) = Tos(m) /\ Py(j) = Py(m)
  BY NoWrapKept DEF Kept, Py
<1>2. /\ NodeInv(i) /\ Win(i) = Win(m) /\ Tos(i) = Tos(m) /\ Py(i) = Py(m)
      /\ Scr(i).xenl = FALSE
  <2>1. NodeInv(i) /\ Win(i) = Win(j) /\ Tos(i) = Tos(j) /\ Scr(i) = [Scr(j) EXCEPT !.xenl = FALSE]
    BY <1>1, NoWrapKept DEF Kept
  <2>2. Scr(j) \in ScreenRecord
    BY <1>1, NodeFields DEF NodeInv
  <2>3. Scr(i).xenl = FALSE
    <3> HIDE DEF i, j, WindowRecord, Colour
    <3> QED BY <2>1, <2>2 DEF ScreenRecord
  <2> QED BY <1>1, <2>1, <2>3 DEF Py
<1>3. /\ Win(m) \in WindowRecord /\ Py(m) \in Nat /\ Tos(m) \in Nat /\ Win(m).rows \in Nat
      /\ Win(m).columns \in Nat /\ Win(m).columns >= 2 /\ Py(m) < Win(m).rows /\ Py(m) = Win(m).y
      /\ Y(m) = Py(m) - Tos(m) /\ Bot(m) = Win(m).bot + 1 - Tos(m) /\ Win(m).bot \in Nat
      /\ Mx(m) = Win(m).columns /\ Py(m) \in Int /\ 0 \in Int
  BY NodeNumbers DEF Py
<1> HIDE DEF j, i
<1>4. /\ NodeInv(c) /\ Py(c) = Py(m) /\ X(c) = 0 /\ Tos(c) = Tos(m) /\ Win(c).bot = Win(m).bot
      /\ Win(c).rows = Win(m).rows /\ Win(c).columns = Win(m).columns /\ Scr(c).xenl = FALSE
      /\ Win(c) \in WindowRecord
  <2> DEFINE v == wmove(Win(m), Py(m), 0)
             p == SetWin(i, v)
  <2>1. /\ v \in WindowRecord /\ v.rows = Win(m).rows /\ v.columns = Win(m).columns
        /\ v.bot = Win(m).bot /\ v.y = Py(m) /\ v.x = 0
    BY <1>3, Moved
  <2>2. c = Done(p) /\ Move(i, Py(m), 0) = p
    BY <1>1, <1>2 DEF cr, i, Move
  <2> HIDE DEF v, p, c
  <2>3. NodeInv(p) /\ Win(p) = v /\ Tos(p) = Tos(m)
    <3>1. Py(m) \in Int /\ 0 \in Int /\ Py(m) >= Py(i)
      BY <1>2, <1>3
    <3>2. /\ Kept(i, Move(i, Py(m), 0)) /\ Tos(Move(i, Py(m), 0)) = Tos(i)
          /\ Win(Move(i, Py(m), 0)) = wmove(Win(i), Py(m), 0)
      BY <1>2, <3>1, MoveKept
    <3> QED BY <1>2, <2>2, <3>2 DEF Kept, v
  <2>4. Scr(p).xenl = FALSE
    BY <1>2, <2>1, BreakStays DEF p
  <2>5. NodeInv(c) /\ Scr(c) = Scr(p) /\ Win(c) = v
    BY <2>2, <2>3, DoneKept, DoneView DEF Kept
  <2> QED BY <2>1, <2>3, <2>4, <2>5 DEF Py, X, Tos
<1> HIDE DEF c
<1>5. /\ Y(c) = Y(m) /\ Bot(c) = Bot(m) /\ Mx(c) = Mx(m)
  BY <1>3, <1>4, NodeNumbers
<1>6. CASE Y(c) = Bot(c) - 1
  <2> DEFINE v == wscrl(Win(c), 1)
             p == SetWin(c, v)
  <2>1. v \in WindowRecord /\ v.y = Win(c).y /\ v.x = Win(c).x /\ v.columns = Win(c).columns
    <3>1. /\ Win(c).bot < Win(c).rows /\ Win(c).text \subseteq 0 .. (Win(c).rows - 1) /\ 1 \in Int
      BY <1>4, NodeNumbers
    <3> QED BY <1>4, <3>1, Scrolled
  <2>2. k = Done(Done(p)) /\ Scroll(c, 1) = p
    BY <1>6 DEF nel, ind, Scroll, c
  <2> HIDE DEF v, p, k
  <2>3. NodeInv(p) /\ Win(p) = v
    <3>1. 1 \in Int
      OBVIOUS
    <3> QED BY <1>4, <2>2, <3>1, ScrollKept DEF Kept, v
  <2>4. Scr(p).xenl = FALSE
    BY <1>4, <2>1, BreakStays DEF p
  <2>5. NodeInv(Done(p)) /\ Scr(Done(p)) = Scr(p) /\ Win(Done(p)) = v
    BY <2>3, DoneKept, DoneView DEF Kept
  <2>6. Scr(k) = Scr(p) /\ Win(k) = v
    BY <2>2, <2>5, DoneView
  <2>7. X(k) = 0 /\ Scr(k).xenl = FALSE /\ Mx(k) = Mx(m)
    BY <1>3, <1>4, <2>1, <2>4, <2>6 DEF X, Mx
  <2> QED BY <1>5, <1>6, <2>7 DEF k, j
<1>7. CASE Y(c) # Bot(c) - 1
  <2> DEFINE v == wmove(Win(c), Py(c) + 1, X(c))
             p == SetWin(c, v)
  <2>0. Py(c) + 1 \in Int /\ X(c) \in Int /\ Py(c) + 1 >= Py(c) /\ Win(c).x = X(c) /\ Win(c).y = Py(c)
    BY <1>3, <1>4 DEF X, Py
  <2>1. /\ v \in WindowRecord /\ v.x = 0 /\ v.columns = Win(c).columns
        /\ Py(m) # Win(m).rows - 1 => v.y = Py(m) + 1
    <3> HIDE DEF v
    <3>1. /\ v \in WindowRecord /\ v.columns = Win(c).columns
          /\ IF Py(c) + 1 \in 0 .. (Win(c).rows - 1) /\ X(c) \in 0 .. (Win(c).columns - 1)
             THEN v.y = Py(c) + 1 /\ v.x = X(c) ELSE v.y = Win(c).y /\ v.x = Win(c).x
      BY <1>4, <2>0, Moved DEF v
    <3> QED BY <1>3, <1>4, <2>0, <3>1
  <2>2. k = Done(Done(p)) /\ Move(c, Py(c) + 1, X(c)) = p
    BY <1>7 DEF nel, ind, Move, c
  <2> HIDE DEF v, p, k
  <2>3. NodeInv(p) /\ Win(p) = v
    <3> DEFINE r == Py(c) + 1
               d == X(c)
    <3>1. r \in Int /\ d \in Int /\ r >= Py(c) /\ v = wmove(Win(c), r, d) /\ Move(c, r, d) = p
      BY <2>0, <2>2 DEF v
    <3> HIDE DEF r, d
    <3>2. Kept(c, Move(c, r, d)) /\ Win(Move(c, r, d)) = wmove(Win(c), r, d)
      BY <1>4, <3>1, MoveKept
    <3> QED BY <3>1, <3>2 DEF Kept
  <2>4. Scr(p).xenl = FALSE
    BY <1>4, <2>1, BreakStays DEF p
  <2>5. NodeInv(Done(p)) /\ Scr(Done(p)) = Scr(p) /\ Win(Done(p)) = v
    BY <2>3, DoneKept, DoneView DEF Kept
  <2>6. Scr(k) = Scr(p) /\ Win(k) = v
    BY <2>2, <2>5, DoneView
  <2>7. X(k) = 0 /\ Scr(k).xenl = FALSE /\ Mx(k) = Mx(m)
    BY <1>3, <1>4, <2>1, <2>4, <2>6 DEF X, Mx
  <2>8. Py(m) # Win(m).rows - 1 => Py(k) = Py(m) + 1
    BY <2>1, <2>6 DEF Py
  <2> QED BY <2>7, <2>8 DEF k, j
<1> QED BY <1>6, <1>7
LEMMA PrintFills ==
    ASSUME NEW m, NodeInv(m), m.am, Scr(m).xenl => X(m) = Mx(m) - 1
    PROVE  LET k == print(m) IN
           IF Column(m) < Mx(m)
           THEN Py(k) = Py(m) /\ Column(k) = Column(m) + 1
           ELSE /\ Column(k) = 1
                /\ Py(k) = Py(m) + 1 \/ Y(m) = Bot(m) - 1 \/ Py(m) = Win(m).rows - 1
<1> DEFINE b == Before(m)
           j == Wrapped(m)
           last == [SetWin(j, wins_nwstr(Win(j))) EXCEPT !.scr[m.s].xenl = TRUE]
           next == SetWin(j, waddnwstr(Win(j)))
           put == IF X(j) = Mx(j) - 1 THEN last ELSE next
           k == print(m)
<1>1. /\ NodeInv(b) /\ Scr(b) = Scr(m) /\ Win(b) = Win(m) /\ b.am = m.am /\ b.s = m.s
  <2>1. NodeInv(Done(m)) /\ Scr(Done(m)) = Scr(m) /\ Win(Done(m)) = Win(m) /\ Done(m).s = m.s
    BY DoneKept, DoneView DEF Kept
  <2>2. Done(m).am = m.am
    <3>1. m \in NodeRecord
      BY DEF NodeInv
    <3> HIDE DEF ScreenRecord, Colour
    <3> QED BY <3>1 DEF Done, NodeRecord
  <2> QED BY <2>1, <2>2 DEF Before, ich
<1>2. /\ Py(b) = Py(m) /\ X(b) = X(m) /\ Mx(b) = Mx(m) /\ Y(b) = Y(m) /\ Bot(b) = Bot(m)
  BY <1>1 DEF Py, X, Mx, Y, Bot, Tos
<1>3. /\ Py(m) \in Nat /\ X(m) \in Nat /\ Mx(m) \in Nat /\ Mx(m) >= 2 /\ X(m) < Mx(m)
      /\ Scr(m).xenl \in BOOLEAN
  <2>1. Scr(m) \in ScreenRecord
    BY NodeFields DEF NodeInv
  <2> QED BY <2>1, ScreenFields, NodeNumbers
<1>4. /\ NodeInv(j) /\ j.s = m.s /\ Scr(j).xenl = FALSE /\ Mx(j) = Mx(m)
      /\ ~Scr(m).xenl => Py(j) = Py(m) /\ X(j) = X(m)
      /\ Scr(m).xenl =>
            /\ X(j) = 0
            /\ Py(j) = Py(m) + 1 \/ Y(m) = Bot(m) - 1 \/ Py(m) = Win(m).rows - 1
  <2>1. NodeInv(j) /\ j.s = m.s
    BY WrappedKept DEF Kept
  <2>2. CASE Scr(m).xenl
    <3>1. j = nel(NoWrap(b))
      BY <1>1, <2>2 DEF Wrapped, b
    <3> HIDE DEF j, b
    <3>2. /\ X(j) = 0 /\ Scr(j).xenl = FALSE /\ Mx(j) = Mx(b)
          /\ Py(j) = Py(b) + 1 \/ Y(b) = Bot(b) - 1 \/ Py(b) = Win(b).rows - 1
      BY <1>1, <3>1, NextLine
    <3> QED BY <1>1, <1>2, <2>1, <2>2, <3>2
  <2>3. CASE ~Scr(m).xenl
    <3>1. j = b
      BY <1>1, <2>3 DEF Wrapped, b
    <3> HIDE DEF j, b
    <3> QED BY <1>1, <1>2, <1>3, <2>1, <2>3, <3>1
  <2> QED BY <2>2, <2>3
<1> HIDE DEF j, b
<1>5. /\ Kept(j, last) /\ Py(last) = Py(j) /\ X(last) = X(j) /\ Scr(last).xenl = TRUE
      /\ Win(last).columns = Win(j).columns
      /\ Kept(j, next) /\ Py(next) = Py(j) /\ Scr(next).xenl = Scr(j).xenl
      /\ X(j) < Win(j).columns - 1 => X(next) = X(j) + 1
  BY <1>4, LastColumn, NextColumn
<1>6. k = [put EXCEPT !.repc = TRUE]
  BY DEF print, j, Wrapped, Before
<1> HIDE DEF last, next
<1>7. NodeInv(put)
  BY <1>5 DEF Kept
<1> HIDE DEF k, put
<1>8. Scr(k) = Scr(put) /\ X(k) = X(put) /\ Py(k) = Py(put)
  BY <1>6, <1>7, RememberKept DEF Scr, X, Py, Win
<1>9. Mx(j) = Win(j).columns /\ X(j) \in Nat /\ X(j) < Win(j).columns /\ Win(j).columns \in Nat
  BY <1>4, NodeNumbers
<1>10. CASE X(j) = Mx(j) - 1
  <2>1. put = last
    BY <1>10 DEF put
  <2>2. Column(k) = X(j) + 1 /\ Py(k) = Py(j)
    BY <1>5, <1>8, <2>1 DEF Column
  <2>3. ~Scr(m).xenl
    BY <1>3, <1>4, <1>10
  <2>4. Column(m) = X(m)
    BY <1>3, <2>3 DEF Column
  <2> QED BY <1>3, <1>4, <1>10, <2>2, <2>3, <2>4 DEF k
<1>11. CASE X(j) # Mx(j) - 1
  <2>1. put = next
    BY <1>11 DEF put
  <2>2. X(j) < Win(j).columns - 1
    BY <1>9, <1>11
  <2>3. Column(k) = X(j) + 1 /\ Py(k) = Py(j)
    BY <1>4, <1>5, <1>8, <1>9, <2>1, <2>2 DEF Column
  <2>4. CASE Scr(m).xenl
    <3>1. Column(m) = Mx(m)
      BY <1>3, <2>4 DEF Column
    <3> QED BY <1>3, <1>4, <2>3, <2>4, <3>1 DEF k
  <2>5. CASE ~Scr(m).xenl
    <3>1. Column(m) = X(m)
      BY <1>3, <2>5 DEF Column
    <3> QED BY <1>3, <1>4, <2>3, <2>5, <3>1 DEF k
  <2> QED BY <1>3, <2>4, <2>5
<1> QED BY <1>10, <1>11

(* With automatic margins every printed character is put in the column      *)
(* after the one before, and after the last in the first of the next line,  *)
(* in insert mode too.                                                      *)
THEOREM LinesFill == Spec => LineFills
<1> DEFINE A == (n.am /\ (Scr(n).xenl => X(n) = Mx(n) - 1) /\ n' # n /\ n' = print(n))
                => IF Column(n) < Mx(n)
                   THEN Py(n') = Py(n) /\ Column(n') = Column(n) + 1
                   ELSE /\ Column(n') = 1
                        /\ Py(n') = Py(n) + 1 \/ Y(n) = Bot(n) - 1 \/ Py(n) = Win(n).rows - 1
<1>1. Reached(n) => A
  BY PrintFills DEF Reached
<1>2. Reached(n) /\ [Next]_n => [A]_n
  BY <1>1
<1> HIDE DEF A
<1>3. Spec => [][A]_n
  BY <1>2, AlwaysReached, PTL DEF Spec
<1> QED BY <1>3 DEF LineFills, A
-----------------------------------------------------------------------------
(* The top of a screen that loses rows. *)
LEMMA TopScrolled ==
    ASSUME NEW m, NodeInv(m), NEW d \in Nat \ {0}, NEW h \in Nat \ {0}, NEW w \in Nat \ {0},
           m.s = "pri", h < m.h, m.h <= SCROLLBACK
    PROVE  LET k == reshapeview(m, d, h, w) IN
           \A r \in 0 .. (h - 1) :
              (Tos(m) + r + (m.h - d - h) \in Win(m).text) = (Tos(k) + r \in Win(k).text)
<1> DEFINE j == FullRegions(Resized(m, h, w))
           y == Py(m) + d
           p == Move(j, y, X(m))
           k == reshapeview(m, d, h, w)
<1>1. /\ m.h \in Nat /\ SCROLLBACK \in Nat /\ SCROLLBACK > 1 /\ "pri" \in Screens
      /\ Py(m) \in Nat /\ X(m) \in Nat /\ Win(m) = m.scr["pri"].win /\ Win(m) \in WindowRecord
      /\ Win(m).rows = Rows(m.h, "pri") /\ Tos(m) = TopOfScreen(m.h, "pri") /\ Py(m) < Win(m).rows
      /\ Win(m).text \subseteq 0 .. (Win(m).rows - 1) /\ Py(m) = Win(m).y
  <2>1. Win(m) = m.scr["pri"].win
    BY DEF Win, Scr
  <2>2. "pri" \in Screens /\ Py(m) = Win(m).y
    BY DEF Screens, Py
  <2>3. /\ m.h \in Nat /\ Win(m) \in WindowRecord /\ Py(m) \in Nat /\ X(m) \in Nat
        /\ Py(m) < Win(m).rows /\ Win(m).rows = Rows(m.h, m.s) /\ Tos(m) = TopOfScreen(m.h, m.s)
        /\ Win(m).text \subseteq 0 .. (Win(m).rows - 1)
    BY NodeNumbers
  <2> QED BY <2>1, <2>2, <2>3, ScreenAssumption
<1>2. h \in Nat /\ w \in Nat \ {0}
  OBVIOUS
<1>3. /\ Rows(m.h, "pri") = SCROLLBACK /\ Rows(h, "pri") = SCROLLBACK
      /\ TopOfScreen(m.h, "pri") = SCROLLBACK - m.h /\ TopOfScreen(h, "pri") = SCROLLBACK - h
  BY <1>1 DEF Rows, TopOfScreen, Largest
<1>4. /\ NodeInv(j) /\ j.s = "pri"
      /\ j.scr["pri"] = ReshapedScreen(m.scr["pri"], h, w, "pri")
  <2>1. /\ NodeInv(j) /\ j.s = m.s
        /\ \A t \in Screens :
             j.scr[t] = ReshapedScreen(m.scr[t], h, w, t)
    BY <1>2, ReshapedFits
  <2> HIDE DEF j
  <2> QED BY <1>1, <1>2, <2>1
<1> HIDE DEF j
<1>5. /\ ScreenFits(j.scr["pri"], "pri", h, w)
      /\ Win(j) = j.scr["pri"].win /\ Win(j).top = 0 /\ Win(j).bot = SCROLLBACK - 1
      /\ Win(j).y = (IF Win(m).y > SCROLLBACK - 1 THEN SCROLLBACK - 1 ELSE Win(m).y)
      /\ Win(j).text = {r \in Win(m).text : r < SCROLLBACK}
      /\ Win(j) \in WindowRecord
  <2>1. /\ ScreenFits(j.scr["pri"], "pri", h, w)
        /\ j.scr["pri"].win.top = 0 /\ j.scr["pri"].win.bot = SCROLLBACK - 1
        /\ j.scr["pri"].win.y = (IF Win(m).y > SCROLLBACK - 1 THEN SCROLLBACK - 1 ELSE Win(m).y)
        /\ j.scr["pri"].win.text = {r \in Win(m).text : r < SCROLLBACK}
    BY <1>1, <1>2, <1>3, <1>4, ReshapedScreenFits
  <2>2. Win(j) = j.scr["pri"].win
    BY <1>4 DEF Win, Scr
  <2>3. Win(j) \in WindowRecord
    BY <1>4, NodeNumbers
  <2> QED BY <2>1, <2>2, <2>3
<1>6. Tos(j) = SCROLLBACK - h
  BY <1>3, <1>4, <1>5 DEF ScreenFits, Tos, Scr
<1>7. Py(j) = Py(m) /\ Win(j).text = Win(m).text
  <2>1. Py(j) = Py(m)
    BY <1>1, <1>3, <1>5 DEF Py
  <2>2. \A r \in Win(m).text : r < SCROLLBACK
    BY <1>1, <1>3
  <2> QED BY <1>5, <2>1, <2>2
<1>8. y \in Int /\ y >= Py(j) /\ X(m) \in Int /\ -d \in Int
  BY <1>1, <1>7
<1>9. k = Scroll(p, -d)
  BY <1>8 DEF reshapeview, j
<1> HIDE DEF y
<1>10. /\ NodeInv(p) /\ Tos(p) = Tos(j) /\ Win(p) = wmove(Win(j), y, X(m))
  BY <1>4, <1>8, MoveKept DEF Kept
<1>11. Win(p).text = Win(m).text /\ Win(p).top = 0 /\ Win(p).bot = SCROLLBACK - 1 /\ Win(p) \in WindowRecord
  BY <1>5, <1>7, <1>8, <1>10, Moved
<1> HIDE DEF p, k
<1>12. Win(k) = wscrl(Win(p), -d) /\ Tos(k) = SCROLLBACK - h
  BY <1>6, <1>8, <1>9, <1>10, ScrollKept
<1> DEFINE region == 0 .. (SCROLLBACK - 1)
           T == Win(m).text
<1>13. Win(k).text = (T \ region) \cup {r \in region : r + (-d) \in T \cap region}
  BY <1>11, <1>12 DEF wscrl, WindowRecord
<1>14. T \subseteq region
  BY <1>1, <1>3
<1> HIDE DEF T
<1>15. ASSUME NEW r \in 0 .. (h - 1)
       PROVE  (Tos(m) + r + (m.h - d - h) \in T) = (Tos(k) + r \in Win(k).text)
  <2>1. Tos(k) + r \in region /\ Tos(k) + r + (-d) = Tos(m) + r + (m.h - d - h)
    BY <1>1, <1>2, <1>3, <1>12
  <2> HIDE DEF region
  <2> QED BY <1>13, <1>14, <2>1
<1> QED BY <1>15 DEF T, k

LEMMA TopStays ==
    ASSUME NEW m, NodeInv(m), NEW d \in Nat, NEW h \in Nat \ {0}, NEW w \in Nat \ {0},
           m.s = "pri", h < m.h, m.h <= SCROLLBACK
    PROVE  LET k == reshapeview(m, d, h, w) IN
           \A r \in 0 .. (h - 1) :
              (Tos(m) + r + (m.h - d - h) \in Win(m).text) = (Tos(k) + r \in Win(k).text)
<1> DEFINE j == FullRegions(Resized(m, h, w))
           k == reshapeview(m, d, h, w)
<1>1. /\ m.h \in Nat /\ SCROLLBACK \in Nat /\ SCROLLBACK > 1 /\ "pri" \in Screens
      /\ Py(m) \in Nat /\ X(m) \in Nat /\ Win(m) = m.scr["pri"].win /\ Win(m) \in WindowRecord
      /\ Win(m).rows = Rows(m.h, "pri") /\ Tos(m) = TopOfScreen(m.h, "pri") /\ Py(m) < Win(m).rows
      /\ Win(m).text \subseteq 0 .. (Win(m).rows - 1) /\ Py(m) = Win(m).y
  <2>1. Win(m) = m.scr["pri"].win
    BY DEF Win, Scr
  <2>2. "pri" \in Screens /\ Py(m) = Win(m).y
    BY DEF Screens, Py
  <2>3. /\ m.h \in Nat /\ Win(m) \in WindowRecord /\ Py(m) \in Nat /\ X(m) \in Nat
        /\ Py(m) < Win(m).rows /\ Win(m).rows = Rows(m.h, m.s) /\ Tos(m) = TopOfScreen(m.h, m.s)
        /\ Win(m).text \subseteq 0 .. (Win(m).rows - 1)
    BY NodeNumbers
  <2> QED BY <2>1, <2>2, <2>3, ScreenAssumption
<1>2. h \in Nat /\ w \in Nat \ {0}
  OBVIOUS
<1>3. /\ Rows(m.h, "pri") = SCROLLBACK /\ Rows(h, "pri") = SCROLLBACK
      /\ TopOfScreen(m.h, "pri") = SCROLLBACK - m.h /\ TopOfScreen(h, "pri") = SCROLLBACK - h
  BY <1>1 DEF Rows, TopOfScreen, Largest
<1>4. /\ NodeInv(j) /\ j.s = "pri"
      /\ j.scr["pri"] = ReshapedScreen(m.scr["pri"], h, w, "pri")
  <2>1. /\ NodeInv(j) /\ j.s = m.s
        /\ \A t \in Screens :
             j.scr[t] = ReshapedScreen(m.scr[t], h, w, t)
    BY <1>2, ReshapedFits
  <2> HIDE DEF j
  <2> QED BY <1>1, <1>2, <2>1
<1> HIDE DEF j
<1>5. /\ ScreenFits(j.scr["pri"], "pri", h, w)
      /\ Win(j) = j.scr["pri"].win /\ Win(j).top = 0 /\ Win(j).bot = SCROLLBACK - 1
      /\ Win(j).y = (IF Win(m).y > SCROLLBACK - 1 THEN SCROLLBACK - 1 ELSE Win(m).y)
      /\ Win(j).text = {r \in Win(m).text : r < SCROLLBACK}
      /\ Win(j) \in WindowRecord
  <2>1. /\ ScreenFits(j.scr["pri"], "pri", h, w)
        /\ j.scr["pri"].win.top = 0 /\ j.scr["pri"].win.bot = SCROLLBACK - 1
        /\ j.scr["pri"].win.y = (IF Win(m).y > SCROLLBACK - 1 THEN SCROLLBACK - 1 ELSE Win(m).y)
        /\ j.scr["pri"].win.text = {r \in Win(m).text : r < SCROLLBACK}
    BY <1>1, <1>2, <1>3, <1>4, ReshapedScreenFits
  <2>2. Win(j) = j.scr["pri"].win
    BY <1>4 DEF Win, Scr
  <2>3. Win(j) \in WindowRecord
    BY <1>4, NodeNumbers
  <2> QED BY <2>1, <2>2, <2>3
<1>6. Tos(j) = SCROLLBACK - h
  BY <1>3, <1>4, <1>5 DEF ScreenFits, Tos, Scr
<1>7. Py(j) = Py(m) /\ Win(j).text = Win(m).text
  <2>1. Py(j) = Py(m)
    BY <1>1, <1>3, <1>5 DEF Py
  <2>2. \A r \in Win(m).text : r < SCROLLBACK
    BY <1>1, <1>3
  <2> QED BY <1>5, <2>1, <2>2
<1>8. CASE d = 0
  <2>1. k = j
    BY <1>8 DEF reshapeview, j
  <2> HIDE DEF k
  <2>2. ASSUME NEW r \in 0 .. (h - 1)
        PROVE  Tos(m) + r + (m.h - d - h) = Tos(k) + r
    BY <1>1, <1>3, <1>6, <1>8, <2>1
  <2> QED BY <1>7, <2>1, <2>2 DEF k
<1>9. CASE d # 0
  BY <1>9, TopScrolled
<1> QED BY <1>8, <1>9

(* A view on its primary screen that gets the rows it was asked to take     *)
(* keeps its top line on top, and the lines below it as far as there is     *)
(* room; where it gets one more or one less, as when none was asked for and *)
(* in full screen, it shows the lines from one above or one below.          *)
THEOREM TopLineDoesStay == Spec => TopLineStays
<1> DEFINE A == (n.s = "pri" /\ n'.h < n.h /\ n.h <= SCROLLBACK)
                => \A h \in Asked : ReshapeTo(h) =>
                     \A r \in 0 .. (n'.h - 1) :
                        (Tos(n) + r + (h - n'.h) \in Win(n).text) = (Tos(n') + r \in Win(n').text)
<1>1. Reached(n) => A
  <2> SUFFICES ASSUME Reached(n), n.s = "pri", n'.h < n.h, n.h <= SCROLLBACK,
                      NEW h \in Asked, ReshapeTo(h), NEW r \in 0 .. (n'.h - 1)
               PROVE  (Tos(n) + r + (h - n'.h) \in Win(n).text) = (Tos(n') + r \in Win(n').text)
    OBVIOUS
  <2>1. NodeInv(n) /\ n.h \in Nat
    BY NodeNumbers DEF Reached
  <2>2. PICK rows \in Nat \ {0}, columns \in Nat \ {0} :
            /\ n' = reshapeview(n, n.h - h, rows, columns)
            /\ rows = h \/ rows = h - 1 \/ (h = 0 /\ rows = 1)
    BY <2>1, ReshapeGives
  <2>3. h \in Nat /\ n.h - h \in Int
    BY <2>1, ReshapeGives
  <2>4. n'.h = rows
    <3>1. \A d \in Int : reshapeview(n, d, rows, columns).h = rows
      BY <2>1, ReshapeFits
    <3> QED BY <2>2, <2>3, <3>1
  <2>5. n.h - h \in Nat /\ n.h - (n.h - h) - rows = h - n'.h
    BY <2>1, <2>2, <2>3, <2>4
  <2> DEFINE d == n.h - h
  <2>6. \A i \in 0 .. (rows - 1) :
            (Tos(n) + i + (n.h - d - rows) \in Win(n).text)
                = (Tos(reshapeview(n, d, rows, columns)) + i
                      \in Win(reshapeview(n, d, rows, columns)).text)
    <3> HIDE DEF d
    <3>1. d \in Nat /\ rows < n.h
      BY <2>4, <2>5 DEF d
    <3> QED BY <2>1, <3>1, TopStays
  <2> QED BY <2>2, <2>4, <2>5, <2>6
<1>2. Reached(n) /\ [Next]_n => [A]_n
  BY <1>1
<1> HIDE DEF A
<1>3. Spec => [][A]_n
  BY <1>2, AlwaysReached, PTL DEF Spec
<1> QED BY <1>3 DEF TopLineStays, A
-----------------------------------------------------------------------------
(* Entering and leaving the alternate screen. *)
LEMMA HandlerUndisturbs ==
    ASSUME NEW m, NEW k, Kept(m, k), m.s = "alt"
    PROVE  Undisturbed(m, k, "pri") /\ k.s = "alt"
BY DEF Kept, Undisturbed, Screens

LEMMA SaveUndisturbs ==
    ASSUME NEW m, NodeInv(m)
    PROVE  /\ \A s \in Screens : Undisturbed(m, sc(m), s)
           /\ NodeInv(sc(m)) /\ sc(m).s = m.s /\ sc(m).decom = m.decom
<1> DEFINE k == [Scr(m) EXCEPT !.sx = X(m), !.sy = Py(m), !.sfg = Scr(m).fg, !.sbg = Scr(m).bg,
                               !.sp = Scr(m).pair, !.oxenl = Scr(m).xenl, !.saved = TRUE]
<1>1. /\ m \in NodeRecord /\ m.s \in Screens /\ Scr(m) = m.scr[m.s] /\ Scr(m) \in ScreenRecord
      /\ m.scr \in [Screens -> ScreenRecord]
  BY NodeFields DEF NodeInv
<1>2. X(m) \in Nat /\ Py(m) \in Nat
  BY NodeNumbers
<1>3. k \in ScreenRecord /\ k.win = Scr(m).win
  <2> HIDE DEF WindowRecord, Colour
  <2> QED BY <1>1, <1>2 DEF ScreenRecord
<1>4. sc(m) = Done(Put(m, m.s, k))
  <2>1. m.scr[m.s] = Scr(m)
    BY <1>1
  <2>2. sc(m) = Done([m EXCEPT !.scr[m.s] = k])
    BY <2>1 DEF sc
  <2> QED BY <2>2 DEF Put
<1> HIDE DEF k
<1>5. /\ Put(m, m.s, k) \in NodeRecord /\ Put(m, m.s, k).scr[m.s] = k
      /\ \A t \in Screens \ {m.s} : Put(m, m.s, k).scr[t] = m.scr[t]
      /\ Put(m, m.s, k).s = m.s /\ Put(m, m.s, k).decom = m.decom
  BY <1>1, <1>3, PutNode
<1> DEFINE p == Put(m, m.s, k)
<1> HIDE DEF p
<1>6. Done(p).scr = p.scr /\ Done(p).s = p.s /\ Done(p).decom = p.decom
  <2>1. p \in NodeRecord
    BY <1>5 DEF p
  <2> HIDE DEF ScreenRecord, Colour
  <2> QED BY <2>1 DEF Done, NodeRecord
<1>7. \A s \in Screens : sc(m).scr[s].win = m.scr[s].win
  BY <1>1, <1>3, <1>4, <1>5, <1>6 DEF p
<1> QED BY <1>4, <1>5, <1>6, <1>7, SaveKept DEF Kept, Undisturbed, p

(* The current screen is blank with its cursor in the corner. *)
Blank(m) == Win(m).text = {} /\ Py(m) = 0 /\ X(m) = 0

LEMMA AtHome ==
    ASSUME NEW m, NodeInv(m), m.s = "alt", ~m.decom
    PROVE  LET k == cup(m, <<>>) IN
           /\ NodeInv(k) /\ k.s = "alt" /\ ~k.decom /\ Py(k) = 0 /\ X(k) = 0 /\ Win(k).text = Win(m).text
<1> DEFINE k == cup(m, <<>>)
<1>1. P1(<<>>, 0) = 1 /\ P1(<<>>, 1) = 1
  BY DEF P1, P0, PD
<1>2. /\ Tos(m) = 0 /\ Win(m) \in WindowRecord /\ Win(m).rows \in Nat /\ Win(m).columns \in Nat
      /\ Py(m) < Win(m).rows /\ X(m) < Win(m).columns /\ Py(m) \in Nat /\ X(m) \in Nat
  <2>1. /\ Tos(m) = TopOfScreen(m.h, m.s) /\ Win(m) \in WindowRecord
        /\ Win(m).rows \in Nat /\ Win(m).columns \in Nat
        /\ Py(m) < Win(m).rows /\ X(m) < Win(m).columns /\ Py(m) \in Nat /\ X(m) \in Nat
    BY NodeNumbers
  <2> QED BY <2>1 DEF TopOfScreen
<1>3. k = Done(Move(NoWrap(m), 0, 0))
  <2>1. Tos(m) + 0 + 1 - 1 = 0 /\ 1 - 1 = 0
    BY <1>2
  <2> QED BY <1>1, <2>1 DEF cup
<1>4. 0 \in Int /\ 0 >= Tos(m) /\ 0 \in 0 .. (Win(m).rows - 1) /\ 0 \in 0 .. (Win(m).columns - 1)
  BY <1>2
<1>5. Kept(m, k) /\ Win(k) = wmove(Win(m), 0, 0)
  BY <1>3, <1>4, NoWrapMoveDone
<1>6. Win(k).y = 0 /\ Win(k).x = 0 /\ Win(k).text = Win(m).text
  BY <1>2, <1>4, <1>5, Moved
<1>7. k.decom = m.decom
  <2> DEFINE a == NoWrap(m)
             b == Move(a, 0, 0)
  <2>1. NodeInv(a) /\ a = Put(m, m.s, [Scr(m) EXCEPT !.xenl = FALSE]) /\ Tos(a) = Tos(m)
        /\ m \in NodeRecord /\ m.s \in Screens
    BY NoWrapKept, NodeFields DEF Kept, NodeInv
  <2> HIDE DEF a
  <2>2. NodeInv(b) /\ b = Put(a, a.s, [Scr(a) EXCEPT !.win = wmove(Win(a), 0, 0)])
    <3>1. 0 \in Int /\ 0 >= Tos(a)
      BY <1>4, <2>1
    <3>2. Kept(a, Move(a, 0, 0)) /\ Move(a, 0, 0) = Put(a, a.s, [Scr(a) EXCEPT !.win = wmove(Win(a), 0, 0)])
      BY <2>1, <3>1, MoveKept, ZenonT(30)
    <3> QED BY <3>2 DEF Kept
  <2> HIDE DEF b
  <2>3. a.decom = m.decom /\ b.decom = a.decom
    <3>1. \A l \in NodeRecord : \A s, j : Put(l, s, j).decom = l.decom
      BY DEF Put, NodeRecord
    <3> QED BY <2>1, <2>2, <3>1 DEF NodeInv
  <2>4. Done(b).decom = b.decom
    <3>1. b \in NodeRecord
      BY <2>2 DEF NodeInv
    <3> HIDE DEF ScreenRecord, Colour
    <3> QED BY <3>1 DEF Done, NodeRecord
  <2> QED BY <1>3, <2>3, <2>4 DEF a, b
<1> HIDE DEF k
<1>8. NodeInv(k) /\ k.s = "alt" /\ Py(k) = 0 /\ X(k) = 0 /\ Win(k).text = Win(m).text
  BY <1>5, <1>6 DEF Kept, Py, X
<1> QED BY <1>7, <1>8 DEF k

LEMMA ClearedIsBlank ==
    ASSUME NEW m, NodeInv(m), m.s = "alt", ~m.decom
    PROVE  Blank(cls(m))
<1> DEFINE home == cup(m, <<>>)
           v == wclrtobot(Win(home))
           k == SetWin(home, v)
<1>1. NodeInv(home) /\ home.s = "alt" /\ ~home.decom /\ Py(home) = 0 /\ X(home) = 0
  BY AtHome
<1> HIDE DEF home
<1>2. /\ Win(home) \in WindowRecord /\ Win(home).text \subseteq 0 .. (Win(home).rows - 1)
      /\ Win(home).y = 0 /\ Win(home).x = 0 /\ Win(home).rows \in Nat /\ Win(home).columns \in Nat
      /\ 0 < Win(home).rows /\ 0 < Win(home).columns /\ Tos(home) = 0
  <2>1. /\ Win(home) \in WindowRecord /\ Win(home).text \subseteq 0 .. (Win(home).rows - 1)
        /\ Win(home).rows \in Nat /\ Win(home).columns \in Nat
        /\ Py(home) < Win(home).rows /\ X(home) < Win(home).columns
        /\ Tos(home) = TopOfScreen(home.h, home.s)
    BY <1>1, NodeNumbers
  <2> QED BY <1>1, <2>1 DEF Py, X, TopOfScreen
<1>3. /\ v \in WindowRecord /\ v.rows = Win(home).rows /\ v.columns = Win(home).columns
      /\ v.top = Win(home).top /\ v.bot = Win(home).bot
  BY <1>2, Cleared
<1>4. v.text = {} /\ v.y = 0 /\ v.x = 0
  <2> DEFINE e == wclrtoeol(Win(home))
             T == e.text \ {r \in Win(home).text : r > Win(home).y}
  <2>1. e \in WindowRecord /\ e.y = 0 /\ e.x = 0 /\ e.text = Win(home).text \ {0}
    BY <1>2 DEF wclrtoeol, WindowRecord
  <2>2. v = [e EXCEPT !.text = T]
    BY DEF wclrtobot
  <2>3. T = {}
    BY <1>2, <2>1
  <2> HIDE DEF e, v, T
  <2> QED BY <2>1, <2>2, <2>3 DEF WindowRecord
<1> HIDE DEF v
<1>5. /\ NodeInv(k) /\ Win(k) = v /\ k.s = "alt"
  <2>1. /\ v.y < v.rows /\ v.x < v.columns /\ v.y >= Tos(home)
        /\ v.text \subseteq 0 .. (v.rows - 1)
    BY <1>2, <1>3, <1>4
  <2> QED BY <1>1, <1>3, <2>1, TextKept DEF Kept
<1>6. k.decom = home.decom
  <2>1. home \in NodeRecord
    BY <1>1 DEF NodeInv
  <2> HIDE DEF ScreenRecord, Colour
  <2> QED BY <2>1 DEF SetWin, NodeRecord
<1>7. cls(m) = Done(cup(k, <<>>))
  BY DEF cls, home, v
<1> HIDE DEF k
<1>8. /\ NodeInv(cup(k, <<>>)) /\ Py(cup(k, <<>>)) = 0 /\ X(cup(k, <<>>)) = 0
      /\ Win(cup(k, <<>>)).text = v.text
  BY <1>1, <1>5, <1>6, AtHome
<1> DEFINE j == cup(k, <<>>)
<1> HIDE DEF j
<1>9. Win(Done(j)) = Win(j)
  BY <1>8, DoneView DEF j
<1> QED BY <1>4, <1>7, <1>8, <1>9 DEF Blank, Py, X, j
(* One argument of mode, on the screen mode was called on. *)
LEMMA SwitchBlanks ==
    ASSUME NEW m, NodeInv(m), m.s = "pri", NEW code \in Nat, NEW set \in BOOLEAN,
           SetMode(m, "pri", code, set).s = "alt"
    PROVE  LET k == SetMode(m, "pri", code, set) IN
           Undisturbed(m, k, "pri") /\ (~m.decom => Blank(k))
<1> DEFINE saved == IF set THEN sc(m) ELSE rc(m)
           switched(j) == IF set THEN ToAlt(j) ELSE ToPri(j)
           insert == [m EXCEPT !.scr["pri"].insert = set]
           origin == cup([m EXCEPT !.decom = set], <<>>)
           value == SetMode(m, "pri", code, set)
<1>1. value \in {cls(m), insert, origin, [m EXCEPT !.am = set], [m EXCEPT !.lnm = set], saved,
                 switched(saved), switched(m), m}
  BY DEF SetMode
<1>2. m \in NodeRecord /\ "alt" # "pri" /\ "pri" \in Screens /\ "alt" \in Screens
  BY DEF NodeInv, Screens
<1>3. /\ cls(m).s = "pri" /\ m.s = "pri" /\ saved.s = "pri" /\ NodeInv(saved)
  BY ClsKept, SaveKept, RestoreKept DEF Kept
<1>4. insert.s = "pri" /\ [m EXCEPT !.am = set].s = "pri" /\ [m EXCEPT !.lnm = set].s = "pri"
  <2> HIDE DEF ScreenRecord, Colour
  <2> QED BY <1>2 DEF NodeRecord
<1>5. origin.s = "pri"
  <2> DEFINE j == [m EXCEPT !.decom = set]
  <2>1. NodeInv(j)
    BY <1>2, SwitchStays DEF Stays
  <2>2. j.s = "pri"
    <3> HIDE DEF ScreenRecord, Colour
    <3> QED BY <1>2 DEF NodeRecord
  <2> HIDE DEF j
  <2>3. <<>> \in Seq(Nat)
    OBVIOUS
  <2>4. Kept(j, cup(j, <<>>))
    BY <2>1, <2>3, MotionKept
  <2> QED BY <2>2, <2>4 DEF Kept, j
<1>6. ASSUME ~set, NEW j, NodeInv(j) PROVE switched(j).s = "pri"
  <2>1. switched(j) = [j EXCEPT !.s = "pri"]
    BY <1>6 DEF ToPri
  <2>2. [j EXCEPT !.s = "pri"].s = "pri"
    BY <1>2, <1>6, SwitchStays
  <2> QED BY <2>1, <2>2
<1> HIDE DEF value, saved, switched, insert, origin
<1>7. set /\ (value = switched(saved) \/ value = switched(m))
  BY <1>1, <1>2, <1>3, <1>4, <1>5, <1>6 DEF value
<1>8. PICK j : /\ j = m \/ j = sc(m)
               /\ value = ToAlt(j)
  BY <1>7 DEF switched, saved
<1>9. NodeInv(j) /\ j.s = "pri" /\ j.decom = m.decom /\ Undisturbed(m, j, "pri")
  BY <1>2, <1>8, SaveUndisturbs DEF Undisturbed
<1> DEFINE k == [j EXCEPT !.s = "alt"]
<1>10. NodeInv(k) /\ k.s = "alt" /\ k.scr = j.scr /\ k.decom = j.decom
  BY <1>2, <1>9, SwitchStays, ZenonT(30) DEF Stays
<1>11. value = cls(k)
  BY <1>2, <1>8, <1>9 DEF ToAlt
<1> HIDE DEF k
<1>12. Undisturbed(k, cls(k), "pri")
  BY <1>10, ClsKept, HandlerUndisturbs
<1>13. ~m.decom => Blank(cls(k))
  BY <1>9, <1>10, ClearedIsBlank
<1> QED BY <1>9, <1>10, <1>11, <1>12, <1>13 DEF Undisturbed, value

LEMMA ModeUndisturbs ==
    ASSUME NEW m, NodeInv(m), m.s = "alt", NEW code \in Nat, NEW set \in BOOLEAN
    PROVE  Undisturbed(m, SetMode(m, "alt", code, set), "pri")
<1> DEFINE saved == IF set THEN sc(m) ELSE rc(m)
           switched(j) == IF set THEN ToAlt(j) ELSE ToPri(j)
           insert == [m EXCEPT !.scr["alt"].insert = set]
           origin == cup([m EXCEPT !.decom = set], <<>>)
           value == SetMode(m, "alt", code, set)
<1>1. value \in {cls(m), insert, origin, [m EXCEPT !.am = set], [m EXCEPT !.lnm = set], saved,
                 switched(saved), switched(m), m}
  BY DEF SetMode
<1>2. m \in NodeRecord /\ "alt" # "pri" /\ "pri" \in Screens /\ "alt" \in Screens
  BY DEF NodeInv, Screens
<1>3. Undisturbed(m, cls(m), "pri") /\ Undisturbed(m, m, "pri")
  BY ClsKept, HandlerUndisturbs DEF Undisturbed
<1>4. /\ insert.scr["pri"] = m.scr["pri"] /\ [m EXCEPT !.am = set].scr = m.scr
      /\ [m EXCEPT !.lnm = set].scr = m.scr
  <2>1. m.scr \in [Screens -> ScreenRecord]
    BY <1>2, NodeFields
  <2> HIDE DEF ScreenRecord, Colour
  <2> QED BY <1>2, <2>1 DEF NodeRecord
<1>5. Undisturbed(m, origin, "pri")
  <2> DEFINE j == [m EXCEPT !.decom = set]
  <2>1. NodeInv(j)
    BY <1>2, SwitchStays DEF Stays
  <2>2. j.s = "alt" /\ j.scr = m.scr
    <3> HIDE DEF ScreenRecord, Colour
    <3> QED BY <1>2 DEF NodeRecord
  <2> HIDE DEF j
  <2>3. <<>> \in Seq(Nat)
    OBVIOUS
  <2>4. Kept(j, cup(j, <<>>))
    BY <2>1, <2>3, MotionKept
  <2>5. Undisturbed(j, cup(j, <<>>), "pri")
    BY <2>2, <2>4, HandlerUndisturbs
  <2> QED BY <2>2, <2>5 DEF Undisturbed, j
<1>6. Undisturbed(m, saved, "pri") /\ saved.s = "alt" /\ NodeInv(saved)
  BY SaveKept, RestoreKept, HandlerUndisturbs DEF Kept
<1>7. ASSUME NEW j, NodeInv(j), j.s = "alt" PROVE switched(j).scr = j.scr
  <2>1. [j EXCEPT !.s = "pri"].scr = j.scr
    BY <1>2, <1>7, SwitchStays
  <2> QED BY <1>7, <2>1 DEF ToPri, ToAlt
<1> HIDE DEF saved, switched, insert, origin, value
<1>8. Undisturbed(m, switched(saved), "pri") /\ Undisturbed(m, switched(m), "pri")
  BY <1>6, <1>7 DEF Undisturbed
<1>9. Undisturbed(m, insert, "pri") /\ Undisturbed(m, [m EXCEPT !.am = set], "pri")
      /\ Undisturbed(m, [m EXCEPT !.lnm = set], "pri")
  BY <1>4 DEF Undisturbed
<1>10. Undisturbed(m, value, "pri")
  BY <1>1, <1>3, <1>5, <1>6, <1>8, <1>9
<1> QED BY <1>10 DEF value
LEMMA OneMode ==
    ASSUME NEW m, NEW a \in Seq(Nat), NEW set, Len(a) <= 1
    PROVE  mode(m, a, set) = Done(IF Len(a) = 0 THEN m ELSE SetMode(m, m.s, a[1], set))
<1> DEFINE c == Len(a)
           Loop(r) == r = [i \in 0 .. c |-> IF i = 0 THEN m ELSE SetMode(r[i - 1], m.s, a[i], set)]
           f == [i \in 0 .. c |-> IF i = 0 THEN m ELSE SetMode(m, m.s, a[i], set)]
           r == CHOOSE r : Loop(r)
<1>1. c \in Nat /\ c <= 1
  BY LenProperties
<1>2. mode(m, a, set) = LET q == CHOOSE q : Loop(q) IN Done(q[c])
  BY DEF mode
<1> HIDE DEF c
<1>3. Loop(f)
  <2>1. \A i \in 0 .. c : i # 0 => i = 1 /\ f[i - 1] = m
    BY <1>1
  <2> QED BY <2>1
<1>4. Loop(r)
  <2> HIDE DEF Loop, f
  <2> QED BY <1>3
<1>5. r[0] = m /\ (c = 1 => r[1] = SetMode(m, m.s, a[1], set))
  <2> HIDE DEF r
  <2>1. r[0] = m
    BY <1>1, <1>4
  <2>2. c = 1 => r[1] = SetMode(r[0], m.s, a[1], set)
    BY <1>1, <1>4
  <2> QED BY <2>1, <2>2
<1> HIDE DEF r, Loop
<1>6. mode(m, a, set) = Done(r[c])
  BY <1>2 DEF r
<1>7. c = 0 \/ c = 1
  BY <1>1
<1> QED BY <1>5, <1>6, <1>7 DEF c

(* Modes are set and reset one at a time, as programs do.  In a sequence   *)
(* with several arguments the later ones act on the screen an earlier one  *)
(* switched to: 1049;3 reset on the alternate screen clears the primary.   *)
SingleModes == \A a \in Modes : Len(a) <= 1

LEMMA ModeStep ==
    ASSUME SingleModes, NodeInv(n), NEW a \in Modes, NEW set \in BOOLEAN, n' = mode(n, a, set)
    PROVE  /\ "alt" \in {n.s, n'.s} => Undisturbed(n, n', "pri")
           /\ (n.s = "pri" /\ n'.s = "alt" /\ ~n.decom) => Blank(n')
<1> DEFINE k == IF Len(a) = 0 THEN n ELSE SetMode(n, n.s, a[1], set)
<1>1. a \in Seq(Nat) /\ Len(a) <= 1 /\ Len(a) \in Nat
  BY ArgumentLists, LenProperties DEF SingleModes
<1>2. n' = Done(k)
  BY <1>1, OneMode
<1>3. n.s = "pri" \/ n.s = "alt"
  BY NodeFields DEF NodeInv, Screens
<1>4. CASE Len(a) = 0
  <2>1. k = n
    BY <1>4
  <2> HIDE DEF k
  <2>2. n'.scr = n.scr /\ n'.s = n.s
    BY <1>2, <2>1, DoneKept
  <2> QED BY <2>2 DEF Undisturbed
<1>5. CASE Len(a) # 0
  <2>1. a[1] \in Nat
    <3>1. 1 \in 1 .. Len(a)
      BY <1>1, <1>5
    <3> QED BY <1>1, <3>1, ElementOfSeq
  <2> DEFINE code == a[1]
  <2> HIDE DEF code
  <2>2. k = SetMode(n, n.s, code, set) /\ code \in Nat
    BY <1>5, <2>1 DEF code
  <2>3. NodeInv(k)
    <3>1. n.s \in Screens
      BY <1>3 DEF Screens
    <3> HIDE DEF k
    <3> QED BY <2>2, <3>1, SetModeStays DEF Stays
  <2> HIDE DEF k
  <2>4. n'.scr = k.scr /\ n'.s = k.s
    BY <1>2, <2>3, DoneKept
  <2>5. n.s = "alt" => Undisturbed(n, k, "pri")
    BY <2>2, ModeUndisturbs
  <2>6. (n.s = "pri" /\ k.s = "alt") => Undisturbed(n, k, "pri") /\ (~n.decom => Blank(k))
    BY <2>2, SwitchBlanks
  <2> QED BY <1>3, <2>4, <2>5, <2>6 DEF Undisturbed, Blank, Win, Scr, Py, X
<1> QED BY <1>4, <1>5

LEMMA PrimaryStep ==
    ASSUME SingleModes, Reached(n), Next, "alt" \in {n.s, n'.s}, n'.h = n.h, n'.w = n.w
    PROVE  Undisturbed(n, n', "pri")
<1>1. NodeInv(n) /\ (n.s = "pri" \/ n.s = "alt") /\ "pri" \in Screens /\ "alt" # "pri"
  BY NodeFields DEF Reached, NodeInv, Screens
<1>2. CASE HandlerStep
  <2>1. Kept(n, n')
    BY <1>1, <1>2, HandlerKept
  <2>2. n.s = "alt"
    BY <1>1, <2>1 DEF Kept
  <2> QED BY <2>1, <2>2, HandlerUndisturbs
<1>3. CASE Reset
  <2>1. n' = ris(n)
    BY <1>3 DEF Reset, Calls
  <2>2. n'.s = "pri"
    BY <1>1, <2>1, ResetStays
  <2>3. n.s = "alt"
    BY <1>1, <2>2
  <2>4. "pri" \in Screens \ {n.s}
    BY <1>1, <2>3
  <2> QED BY <1>1, <2>1, <2>4, ResetStays DEF Undisturbed
<1>4. CASE Mode
  BY <1>1, <1>4, ModeStep DEF Mode, Calls
<1>5. CASE Reshape
  <2>2. /\ n'.s = n.s
        /\ (n'.h = n.h /\ n'.w = n.w) => \A t \in Screens \ {n.s} : Undisturbed(n, n', t)
    BY <1>1, <1>5, ReshapeStep
  <2>3. "pri" \in Screens \ {n.s}
    BY <1>1, <2>2
  <2> QED BY <2>2, <2>3
<1> QED BY <1>2, <1>3, <1>4, <1>5, NextSteps

(* Entering and leaving the alternate screen, and all a program does there *)
(* meanwhile, keep the text and the cursor of the primary screen.          *)
THEOREM PrimaryStays ==
    ASSUME SingleModes
    PROVE  Spec => PrimaryKept
<1> DEFINE A == ("alt" \in {n.s, n'.s} /\ n'.h = n.h /\ n'.w = n.w)
                => LET before == n.scr["pri"].win
                       after == n'.scr["pri"].win
                   IN  after.text = before.text /\ after.y = before.y /\ after.x = before.x
<1>1. Reached(n) /\ [Next]_n => [A]_n
  BY PrimaryStep DEF Undisturbed
<1> HIDE DEF A
<1>2. Spec => [][A]_n
  BY <1>1, AlwaysReached, PTL DEF Spec
<1> QED BY <1>2 DEF PrimaryKept, A

(* The alternate screen comes up blank with its cursor in the corner,      *)
(* whatever it held and wherever its cursor and region were.               *)
THEOREM AlternateIsBlank ==
    ASSUME SingleModes
    PROVE  Spec => AlternateBlank
<1> DEFINE A == (n.s = "pri" /\ n'.s = "alt" /\ ~n.decom)
                => Win(n').text = {} /\ Py(n') = 0 /\ X(n') = 0
<1>1. ASSUME Reached(n), Next, n.s = "pri", n'.s = "alt", ~n.decom
      PROVE  Blank(n')
  <2>1. NodeInv(n) /\ "alt" # "pri"
    BY <1>1 DEF Reached
  <2>2. Mode
    <3>1. HandlerStep => n'.s = n.s
      BY <2>1, HandlerKept DEF Kept
    <3>2. Reset => n'.s = "pri"
      BY <2>1, ResetStays DEF Reset, Calls
    <3>3. Reshape => n'.s = n.s
      BY <2>1, ReshapeStep
    <3> QED BY <1>1, <2>1, <3>1, <3>2, <3>3, NextSteps
  <2> QED BY <1>1, <2>1, <2>2, ModeStep DEF Mode, Calls
<1>2. Reached(n) /\ [Next]_n => [A]_n
  BY <1>1 DEF Blank
<1> HIDE DEF A
<1>3. Spec => [][A]_n
  BY <1>2, AlwaysReached, PTL DEF Spec
<1> QED BY <1>3 DEF AlternateBlank, A
=============================================================================
