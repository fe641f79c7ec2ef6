------------------------------ MODULE MCVTParser ------------------------------
(* VTParser with a history variable: the characters of the control sequence *)
(* so far.  What a sequence means is defined here from its text alone, by   *)
(* its grammar, and compared with what the state machine does.              *)
EXTENDS VTParser, FiniteSets, SequencesExt

CONSTANT TextMax  \* bound on the length of a sequence

VARIABLE text     \* from ESC up to now, without the controls executed within

mcVars == <<vars, text>>

(* ESC [ starts a CSI sequence, ESC and an opener a string; any other       *)
(* sequence is an escape.                                                   *)
Kind == IF text[2] = 91 THEN "csi" ELSE IF text[2] \in OscOpeners THEN "osc" ELSE "escape"
Is(kind) == Len(text) >= 2 /\ Kind = kind

(* A sequence ends with its final character, a string with BEL. *)
Ended ==
    \/ Is("csi") /\ Len(text) > 2 /\ Last(text) \in 64 .. 126
    \/ Is("osc") /\ Last(text) = BEL
    \/ Is("escape") /\ Last(text) \in 48 .. 126

(* Characters that are part of no sequence, and those in the middle of one  *)
(* that do not belong to it: controls, DEL, what is not ASCII, and ESC X.   *)
Foreign(c) == \/ c \in {0, 127} \cup C0 \/ c > 127
              \/ c = BEL /\ ~Is("osc")
              \/ c = 88 /\ Len(text) = 1

TextAfter(c) ==
    IF c = ESC THEN <<ESC>>
    ELSE IF c \in {24, 26} \/ text = <<>> \/ Ended THEN <<>>
    ELSE IF Foreign(c) THEN text
    ELSE Append(text, c)

MCInit == Init /\ text = <<>>
MCNext == \/ Character /\ text' = TextAfter(w') /\ Len(text') <= TextMax
          \/ EndOfRead /\ UNCHANGED text
MCSpec == MCInit /\ [][MCNext]_mcVars

-----------------------------------------------------------------------------
Rest == SubSeq(text, 3, Len(text))
Body == SubSeq(text, 3, Len(text) - 1)
Parameter(c) == c \in Digit \cup {Semicolon}

(* A CSI sequence: perhaps a private marker, parameters, intermediates.     *)
Shape(b, i) == /\ \A j \in 1 .. i : Parameter(b[j]) \/ (j = 1 /\ b[j] \in Private)
               /\ \A j \in i + 1 .. Len(b) : b[j] \in Intermediate
WellFormed(b) == \E i \in 0 .. Len(b) : Shape(b, i)

(* Its arguments: the numbers between the semicolons, each cut once it has  *)
(* reached ArgMax.  From the last that fits on they are 0, but the first    *)
(* that does not fit shares its place with the intermediate.                *)
Argument(b, i) == 1 + Cardinality({j \in 1 .. i : b[j] = Semicolon})
Number(b, k) ==
    LET value[i \in 0 .. Len(b)] ==
            IF i = 0 THEN 0
            ELSE IF b[i] \in Digit /\ Argument(b, i) = k /\ value[i - 1] < ArgMax
                   THEN value[i - 1] * 10 + (b[i] - 48)
                   ELSE value[i - 1]
    IN  value[Len(b)]
Numbers(b) == [k \in 1 .. Argument(b, Len(b)) |-> IF k >= MAXPARAM THEN 0 ELSE Number(b, k)]

(* The first character that is no parameter is its private marker or its   *)
(* first intermediate.  A semicolon too many loses what came before it.    *)
FirstOf(q) == IF q = <<>> THEN 0 ELSE Head(q)
Lost(b, i) == Argument(b, i) <= MAXPARAM /\ Argument(b, Len(b)) > MAXPARAM
Marks(b) ==
    LET m == {i \in 1 .. Len(b) : ~Parameter(b[i]) /\ ~Lost(b, i)} IN
    IF m = {} THEN 0 ELSE b[CHOOSE i \in m : \A j \in m : i <= j]

Arguments(b) ==
    IF \A i \in 1 .. Len(b) : ~Parameter(b[i]) THEN <<>>
    ELSE IF Len(Numbers(b)) > MAXPARAM THEN [Numbers(b) EXCEPT ![MAXPARAM + 1] = Marks(b)]
    ELSE Numbers(b)

(* The handler called, and the arguments it gets, are those of the text of  *)
(* its own sequence: nothing of an earlier one, of one that was cut short,  *)
(* or of a control executed within is left in args, inter or oscbuf.        *)
CallFitsText ==
    /\ call.cb = "csi" <=> Is("csi") /\ Ended /\ WellFormed(Body)
    /\ call.cb = "csi" => call.argv = Arguments(Body) /\ call.inter = Marks(Body)
    /\ call.cb = "escape" <=> Is("escape") /\ Ended
    /\ call.cb = "escape" => call.inter = FirstOf(SubSeq(text, 2, Len(text) - 1))
    /\ call.cb = "osc" <=> Is("osc") /\ Ended
    /\ call.cb = "osc" =>
          call.argv = SubSeq(Body, 1, IF Len(Body) < MAXOSC THEN Len(Body) ELSE MAXOSC)
    /\ call.cb \in {"csi", "escape", "osc"} => call.w = Last(text)

(* A write behind args is the doing of the sequence itself: param writes    *)
(* there exactly while the text since ESC [ has more than MAXPARAM          *)
(* parameters, never because of what an earlier sequence, or one that was   *)
(* cut short, left in narg.  No argument exceeds ten times the cap, and     *)
(* oscbuf keeps the place of its terminator.                                *)
WritesBounded ==
    /\ ValuesBounded
    /\ s \in {"csi_entry", "csi_param", "csi_intermediate"} =>
          (Len(args) > MAXPARAM <=> Argument(Rest, Len(Rest)) > MAXPARAM)

(* Text is printed exactly outside sequences: a sequence never leaks onto   *)
(* the screen, and none swallows text beyond its end.                       *)
GroundOutside == s = "ground" <=> (text = <<>> \/ Ended)
=============================================================================
