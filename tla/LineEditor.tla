------------------------------ MODULE LineEditor ------------------------------
(***************************************************************************)
(* What the line editor promises, without buffers, copies or a terminal:   *)
(* a column of lines, the one being written at place -1 and the remembered *)
(* ones above it, of which one at a time is edited at a cursor.  Moving up *)
(* and down changes the place and no line; an edit changes the line at the *)
(* place and no other.  What is remembered changes only when a line is     *)
(* added, and an edit of it lasts only when the input was broken off.      *)
(***************************************************************************)
EXTENDS Integers, Sequences, SequencesExt

CONSTANTS Char,        \* the characters a key can give
          AtExits,     \* the lines control-D may answer with
          Completions, \* the lines a prefix may be extended to
          Serials      \* the histories a program may give

VARIABLES place,   \* the lines: a function from the places -1 .. n - 1
          at,      \* the place being edited
          cursor,  \* how many characters of its line stand before the cursor
          kept,    \* the remembered lines, newest first
          limit,   \* how many are remembered
          busy,    \* is a line being edited?
          answer   \* the lines a finished input gave and the program may add

vars == <<place, at, cursor, kept, limit, busy, answer>>

Blank == [i \in {-1} |-> <<>>]
Here == place[at]

Idle == place' = Blank /\ at' = -1 /\ cursor' = 0 /\ busy' = FALSE
Init == place = Blank /\ at = -1 /\ cursor = 0 /\ kept = <<>> /\ limit = 0
        /\ busy = FALSE /\ answer = {}

Begin ==
    /\ ~busy /\ busy' = TRUE
    /\ place' = [i \in -1 .. (Len(kept) - 1) |-> IF i = -1 THEN <<>> ELSE kept[i + 1]]
    /\ at' = -1 /\ cursor' = 0 /\ answer' = {}
    /\ UNCHANGED <<kept, limit>>

Write(l, c) == /\ place' = [place EXCEPT ![at] = l]
               /\ cursor' = c
               /\ UNCHANGED at

Type(ch) == Write(InsertAt(Here, cursor + 1, ch), cursor + 1)
Erase(k) == k \in 1 .. Len(Here) /\ Write(RemoveAt(Here, k), k - 1)
Go(c)    == Write(Here, c)
Extend(w, k) == IsPrefix(Here, w) /\ Write(SubSeq(w, 1, k), k)

(* One line up or down; the cursor goes to its end. *)
Recall(i) ==
    /\ i \in DOMAIN place
    /\ at' = i /\ cursor' = Len(place[i])
    /\ UNCHANGED place

Edit ==
    /\ busy
    /\ \/ \E ch \in Char : Type(ch)
       \/ Erase(cursor) \/ Erase(cursor + 1)
       \/ \E c \in 0 .. Len(Here) : Go(c)
       \/ \E w \in Completions : \E k \in Len(Here) .. Len(w) : Extend(w, k)
       \/ Recall(at - 1) \/ Recall(at + 1)
    /\ UNCHANGED <<kept, limit, busy, answer>>

(* The line, or the one of control-D, is given to the program; nothing     *)
(* that is remembered has changed.                                         *)
Answer == /\ busy /\ Idle
          /\ \E l \in {Here} \cup AtExits : answer' = {l}
          /\ UNCHANGED <<kept, limit>>

(* The input is broken off: the lines recalled and edited stay edited. *)
BreakOff == /\ busy /\ Idle /\ answer' = {}
            /\ kept' = [k \in 1 .. Len(kept) |-> place[k - 1]]
            /\ UNCHANGED limit

(* The program remembers the answer as the newest line, with the oldest    *)
(* one giving way, starts an empty history, or gives one.                  *)
Add(l) ==
    /\ ~busy /\ answer = {l}
    /\ kept' = IF kept # <<>> /\ kept[1] = l THEN kept
               ELSE [i \in 1 .. (IF Len(kept) < limit THEN Len(kept) + 1 ELSE limit)
                         |-> IF i = 1 THEN l ELSE kept[i - 1]]
    /\ answer' = {}
    /\ UNCHANGED <<place, at, cursor, limit, busy>>

Forget == /\ ~busy /\ kept' = <<>> /\ limit' \in Nat /\ answer' = {}
          /\ UNCHANGED <<place, at, cursor, busy>>

(* What is kept of a history that is given: its lines that are not empty,  *)
(* the last one first, and of equal ones in a row one.                     *)
KeptOf(s, q) ==
    /\ ToSet(q) = ToSet(s) \ {<<>>}
    /\ \A k \in 2 .. Len(q) : q[k] # q[k - 1]
    /\ \E from \in [1 .. Len(q) -> DOMAIN s] :
          /\ \A k \in 1 .. Len(q) : q[k] = s[from[k]]
          /\ \A k \in 2 .. Len(q) : from[k] < from[k - 1]

(* All of it is kept: the limit is raised to the number of its lines.      *)
Given ==
    /\ ~busy /\ answer' = {}
    /\ \E s \in Serials \cup {kept} :
          /\ limit' = IF Len(s) > limit THEN Len(s) ELSE limit
          /\ kept' \in BoundedSeq(ToSet(s), limit') /\ KeptOf(s, kept')
    /\ UNCHANGED <<place, at, cursor, busy>>

(* The program does not add the answer. *)
Decline == ~busy /\ answer' = {} /\ UNCHANGED <<place, at, cursor, kept, limit, busy>>

Next ==
    \/ Begin \/ Edit \/ Answer \/ BreakOff
    \/ \E l \in answer : Add(l)
    \/ Forget \/ Given \/ Decline

Spec == Init /\ [][Next]_vars
=============================================================================
