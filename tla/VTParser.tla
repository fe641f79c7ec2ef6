------------------------------- MODULE VTParser -------------------------------
(***************************************************************************)
(* The parser of what a program writes to its terminal (vtparser.c):       *)
(* vtwrite turns bytes into characters, handlechar runs the state machine  *)
(* of control sequences on them and calls the terminal's handlers.         *)
(*                                                                         *)
(* One step is one round of vtwrite's loop.  Characters are their codes;   *)
(* those of more than one byte, which the tables never tell apart, are all *)
(* WIDE, and an invalid byte becomes BAD.  A handler that is not           *)
(* registered (vtonevent) is a call that does nothing.                     *)
(***************************************************************************)
EXTENDS Integers, Sequences

CONSTANTS
    Input,     \* the one-byte characters programs write
    MAXPARAM,  \* length of args
    MAXOSC,    \* what oscbuf holds besides its terminator
    Spare,     \* the words of struct VTPARSER from oscbuf to p: oscbuf and ms
    ArgMax     \* an argument this large takes no further digit (9999)

ASSUME ParserAssumption ==
    /\ Input \subseteq 0 .. 127
    /\ MAXPARAM \in Nat \ {0} /\ MAXOSC \in Nat /\ ArgMax \in Nat /\ Spare \in Nat

BAD  == 65533
WIDE == 233
Char == (0 .. 127) \cup {BAD, WIDE}

VARIABLES
    s,       \* the state of the machine (NULL, before the first character, acts as ground)
    inter,   \* the first intermediate of the sequence, or 0
    args,    \* args[0 .. narg - 1], what lies behind args included
    oscbuf,  \* oscbuf[0 .. nosc - 1]
    ms,      \* continuation bytes missing of a character that an earlier read began
    w,       \* the character handled last
    call,    \* the handler called for it, with its arguments
    overrun  \* a write behind args has reached p: not followed further

vars == <<s, inter, args, oscbuf, ms, w, call, overrun>>

States == {"ground", "escape", "escape_intermediate", "csi_entry", "csi_ignore",
           "csi_param", "csi_intermediate", "osc_string"}
Handlers == {"none", "control", "escape", "csi", "osc", "print"}

ESC == 27
BEL == 7
Semicolon == 59
C0 == (1 .. 6) \cup (8 .. 23) \cup {25} \cup (28 .. 31)
Digit == 48 .. 57
Private == 60 .. 63
Intermediate == 32 .. 47
OscOpeners == {33, 80, 93, 94, 95, 107}
EscFinal == ((48 .. 126) \ {88, 91}) \ OscOpeners

(* The call DO(...) makes for the character c, and none. *)
Call(cb, c, argv) == [cb |-> cb, w |-> c, inter |-> inter, argv |-> argv]
NoCall == [cb |-> "none", w |-> 0, inter |-> 0, argv |-> <<>>]

-----------------------------------------------------------------------------
(* The actions of the tables. *)

reset_narg == UNCHANGED args /\ inter' = 0 /\ oscbuf' = <<>>  \* mutation: narg stays
reset == inter' = 0 /\ args' = <<>> /\ oscbuf' = <<>>

Keep == UNCHANGED <<inter, args, oscbuf, overrun>>

(* control and ground: CAN and SUB cut a sequence short. *)
docontrol(c) ==
    /\ c \in C0 \cup {24, 26} \/ (c = BEL /\ s # "osc_string")
    /\ s' = IF c \in {24, 26} THEN "ground" ELSE s
    /\ call' = Call("control", c, <<>>) /\ Keep

(* ESC starts a sequence in every state, whatever it cuts. *)
StartEscape(c) ==
    /\ c = ESC
    /\ s' = "escape" /\ reset /\ call' = NoCall /\ UNCHANGED overrun

StartCsi(c) ==
    /\ s = "escape" /\ c = 91
    /\ s' = "csi_entry" /\ reset /\ call' = NoCall /\ UNCHANGED overrun

StartOsc(c) ==
    /\ s = "escape" /\ c \in OscOpeners
    /\ s' = "osc_string" /\ reset /\ call' = NoCall /\ UNCHANGED overrun

doprint(c) ==
    /\ s = "ground" /\ c >= 32 /\ c # 127
    /\ call' = Call("print", c, <<>>) /\ UNCHANGED s /\ Keep

AfterCollect(c) ==
    CASE s \in {"escape", "escape_intermediate"} -> "escape_intermediate"
      [] s = "csi_entry" /\ c \in Private -> "csi_param"
      [] OTHER -> "csi_intermediate"

LastInter(c) == c  \* mutation: a second intermediate replaces the first
FirstInter(c) == IF inter # 0 THEN inter ELSE c

collect(c) ==
    /\ \/ s = "escape" /\ c \in Intermediate \ OscOpeners
       \/ s \in {"escape_intermediate", "csi_entry", "csi_param", "csi_intermediate"}
            /\ c \in Intermediate
       \/ s = "csi_entry" /\ c \in Private
    /\ inter' = FirstInter(c)
    /\ s' = AfterCollect(c)
    /\ call' = NoCall /\ UNCHANGED <<args, oscbuf, overrun>>

(* A semicolon begins another argument, with no look at MAXPARAM: the     *)
(* limit is on the digits, which are dropped from the last argument that   *)
(* fits.  The struct has inter right behind args, then oscbuf and ms,      *)
(* which hold zeros during a control sequence, then the pointer p: the     *)
(* argument after the last that fits clears inter, the next ones change    *)
(* nothing, and the one that reaches p leaves no pane to call back.        *)
AddDigit(a, c) ==
    IF Len(a) < MAXPARAM /\ a[Len(a)] < ArgMax
      THEN [a EXCEPT ![Len(a)] = @ * 10 + (c - 48)]
      ELSE a

param(c) ==
    LET a == IF args = <<>> THEN <<0>> ELSE args IN
    /\ s \in {"csi_entry", "csi_param"} /\ c \in Digit \cup {Semicolon}
    /\ s' = "csi_param"
    /\ args' = IF c = Semicolon THEN Append(a, 0) ELSE AddDigit(a, c)
    /\ inter' = IF c = Semicolon /\ Len(a) = MAXPARAM THEN 0 ELSE inter
    /\ overrun' = (c = Semicolon /\ Len(a) > MAXPARAM + Spare)
    /\ call' = NoCall /\ UNCHANGED oscbuf

doescape(c) ==
    /\ \/ s = "escape" /\ c \in EscFinal
       \/ s = "escape_intermediate" /\ c \in 48 .. 126
    /\ s' = "ground"
    /\ call' = Call("escape", c, IF inter > 0 THEN <<inter>> ELSE <<>>) /\ Keep

(* What a handler reads as argv: behind args it finds inter. *)
argv == IF Len(args) > MAXPARAM THEN [args EXCEPT ![MAXPARAM + 1] = inter] ELSE args

docsi(c) ==
    /\ s \in {"csi_entry", "csi_param", "csi_intermediate"} /\ c \in 64 .. 126
    /\ s' = "ground"
    /\ call' = Call("csi", c, argv) /\ Keep

(* A malformed sequence is swallowed up to its final character. *)
NoPlace(c) ==
    \/ s = "csi_entry" /\ c = 58
    \/ s = "csi_param" /\ c \in {58} \cup Private
    \/ s = "csi_intermediate" /\ c \in 48 .. 63

GiveUp(c) == NoPlace(c) /\ s' = "ground" /\ call' = NoCall /\ Keep  \* mutation: at once
Malformed(c) == NoPlace(c) /\ s' = "csi_ignore" /\ call' = NoCall /\ Keep

EndMalformed(c) ==
    /\ s = "csi_ignore" /\ c \in 64 .. 126
    /\ s' = "ground" /\ call' = NoCall /\ Keep

AddOsc(o, c) == IF Len(o) < MAXOSC THEN Append(o, c) ELSE o

collectosc(c) ==
    /\ s = "osc_string" /\ c \in 32 .. 126
    /\ oscbuf' = AddOsc(oscbuf, c)
    /\ call' = NoCall /\ UNCHANGED <<s, inter, args, overrun>>

doosc(c) ==
    /\ s = "osc_string" /\ c = BEL
    /\ s' = "ground" /\ call' = Call("osc", c, oscbuf) /\ Keep

(* ignore, and the characters no row of the table matches. *)
ignore(c) ==
    /\ \/ c \in {0, 127}
       \/ s # "ground" /\ c > 127
       \/ s = "escape" /\ c = 88
       \/ s = "csi_ignore" /\ c \in 32 .. 63
    /\ call' = NoCall /\ UNCHANGED s /\ Keep

handlechar(c) ==
    /\ w' = c
    /\ \/ docontrol(c) \/ StartEscape(c) \/ StartCsi(c) \/ StartOsc(c) \/ doprint(c)
       \/ collect(c) \/ param(c) \/ doescape(c) \/ docsi(c) \/ Malformed(c)
       \/ EndMalformed(c) \/ collectosc(c) \/ doosc(c) \/ ignore(c)

-----------------------------------------------------------------------------
(* vtwrite: one call of mbrtowc and what is done with its result.  A       *)
(* character that breaks off inside a read is one invalid byte; one that   *)
(* breaks off at the end of a read is kept in ms, and then every byte that *)
(* does not continue it is invalid and leaves ms as it is.                 *)

(* A character of one byte. *)
OneByte(b) == handlechar(IF ms = 0 THEN b ELSE BAD) /\ UNCHANGED ms

(* A character of several bytes is complete. *)
Complete == handlechar(WIDE) /\ ms' = 0

(* A byte that no character can have there. *)
Invalid == handlechar(BAD) /\ UNCHANGED ms

(* The bytes read end inside a character, k bytes before its end. *)
Incomplete(k) ==
    /\ ms = 0 \/ k < ms
    /\ ms' = k
    /\ UNCHANGED <<s, inter, args, oscbuf, w, call, overrun>>

Character == ~overrun /\ ((\E b \in Input : OneByte(b)) \/ Complete \/ Invalid)
EndOfRead == ~overrun /\ \E k \in 1 .. 3 : Incomplete(k)

vtwrite == Character \/ EndOfRead

Init ==
    /\ s = "ground" /\ inter = 0 /\ args = <<>> /\ oscbuf = <<>>
    /\ ms = 0 /\ w = 0 /\ call = NoCall /\ overrun = FALSE

Spec == Init /\ [][vtwrite]_vars

-----------------------------------------------------------------------------
(* The values stay where the handlers expect them: no argument larger than *)
(* a capped number, and room for oscbuf's terminator.                      *)
ValuesBounded ==
    /\ args \in Seq(Nat) /\ \A i \in 1 .. Len(args) : args[i] <= 10 * ArgMax
    /\ oscbuf \in Seq(32 .. 126) /\ Len(oscbuf) <= MAXOSC

TypeOK ==
    /\ s \in States
    /\ inter \in {0} \cup Intermediate \cup Private
    /\ ms \in 0 .. 3
    /\ w \in Char
    /\ call.cb \in Handlers
    /\ overrun \in BOOLEAN
=============================================================================
