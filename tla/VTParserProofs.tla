---------------------------- MODULE VTParserProofs ----------------------------
(***************************************************************************)
(* Proofs about the escape sequence parser, for every set of input         *)
(* characters and every size of its buffers.                               *)
(***************************************************************************)
EXTENDS MCVTParser, Loops, SequenceTheorems, FiniteSetTheorems, TLAPS

(* A digit is added to an argument that is below ArgMax only, so no        *)
(* argument exceeds ten times that; the sequence keeps its length.         *)
LEMMA DigitBounded ==
    ASSUME NEW a \in Seq(Nat), Len(a) >= 1,
           \A i \in 1 .. Len(a) : a[i] <= 10 * ArgMax, NEW c \in Digit
    PROVE  /\ AddDigit(a, c) \in Seq(Nat) /\ Len(AddDigit(a, c)) = Len(a)
           /\ \A i \in 1 .. Len(a) : AddDigit(a, c)[i] <= 10 * ArgMax
<1> DEFINE n == Len(a)
<1>1. n \in Nat /\ n \in 1 .. Len(a) /\ a[n] \in Nat /\ c - 48 \in 0 .. 9
  BY ParserAssumption DEF Digit
<1>2. CASE n < MAXPARAM /\ a[n] < ArgMax
  <2> DEFINE x == a[n] * 10 + (c - 48)
  <2>1. AddDigit(a, c) = [a EXCEPT ![n] = x]
    BY <1>2 DEF AddDigit
  <2>2. x \in Nat /\ x <= 10 * ArgMax
    <3>1. \A y, m \in Nat, d \in 0 .. 9 : y < m => y * 10 + d \in Nat /\ y * 10 + d <= 10 * m
      OBVIOUS
    <3> QED BY <3>1, <1>1, <1>2, ParserAssumption
  <2>3. /\ [a EXCEPT ![n] = x] \in Seq(Nat) /\ Len([a EXCEPT ![n] = x]) = n
        /\ \A j \in 1 .. n : [a EXCEPT ![n] = x][j] = IF j = n THEN x ELSE a[j]
    BY <1>1, <2>2, ExceptSeq
  <2> HIDE DEF x
  <2> QED BY <2>1, <2>2, <2>3, ExceptSeq
<1>3. CASE ~(n < MAXPARAM /\ a[n] < ArgMax)
  BY <1>3 DEF AddDigit
<1> QED BY <1>2, <1>3

(* The parameters of a sequence stay below the cap, whatever the character. *)
LEMMA ParamBounded ==
    ASSUME ValuesBounded, NEW c \in Char, param(c)
    PROVE  ValuesBounded'
<1> DEFINE a == IF args = <<>> THEN <<0>> ELSE args
<1>1. a \in Seq(Nat) /\ Len(a) \in Nat /\ Len(a) >= 1
      /\ \A i \in 1 .. Len(a) : a[i] <= 10 * ArgMax
  <2>1. CASE args = <<>>
    BY <2>1, ParserAssumption
  <2>2. CASE args # <<>>
    BY <2>2, EmptySeq, LenProperties DEF ValuesBounded
  <2> QED BY <2>1, <2>2
<1>2. oscbuf' = oscbuf /\ c \in Digit \cup {Semicolon}
  BY DEF param
<1>3. CASE c = Semicolon
  <2>1. args' = Append(a, 0)
    BY <1>3 DEF param
  <2>2. /\ Append(a, 0) \in Seq(Nat) /\ Len(Append(a, 0)) = Len(a) + 1
        /\ \A i \in 1 .. Len(a) : Append(a, 0)[i] = a[i]
        /\ Append(a, 0)[Len(a) + 1] = 0
    BY <1>1, AppendProperties
  <2>3. \A i \in 1 .. Len(a) + 1 : Append(a, 0)[i] <= 10 * ArgMax
    BY <1>1, <2>2, ParserAssumption
  <2> QED BY <2>1, <2>2, <2>3, <1>2 DEF ValuesBounded
<1>4. CASE c # Semicolon
  <2>1. args' = AddDigit(a, c) /\ c \in Digit
    BY <1>4, <1>2 DEF param
  <2>2. /\ AddDigit(a, c) \in Seq(Nat) /\ Len(AddDigit(a, c)) = Len(a)
        /\ \A i \in 1 .. Len(a) : AddDigit(a, c)[i] <= 10 * ArgMax
    BY <2>1, <1>1, DigitBounded
  <2> HIDE DEF a
  <2> QED BY <2>1, <2>2, <1>1, <1>2 DEF ValuesBounded
<1> QED BY <1>3, <1>4

(* OSC text never reaches the place of oscbuf's terminator.                *)
LEMMA OscBounded ==
    ASSUME ValuesBounded, NEW c \in Char, collectosc(c)
    PROVE  ValuesBounded'
<1>1. args' = args /\ c \in 32 .. 126 /\ oscbuf' = AddOsc(oscbuf, c)
  BY DEF collectosc
<1>2. CASE Len(oscbuf) < MAXOSC
  <2>1. oscbuf' = Append(oscbuf, c)
    BY <1>1, <1>2 DEF AddOsc
  <2>2. Append(oscbuf, c) \in Seq(32 .. 126) /\ Len(Append(oscbuf, c)) = Len(oscbuf) + 1
    BY <1>1, AppendProperties DEF ValuesBounded
  <2> QED BY <1>1, <1>2, <2>1, <2>2, ParserAssumption DEF ValuesBounded
<1>3. CASE ~(Len(oscbuf) < MAXOSC)
  BY <1>1, <1>3 DEF AddOsc, ValuesBounded
<1> QED BY <1>2, <1>3

(* A sequence begins with empty buffers.                                   *)
LEMMA ResetBounded == reset => ValuesBounded'
BY ParserAssumption, EmptySeq DEF reset, ValuesBounded

(* One character keeps the buffers within their bounds.                    *)
LEMMA CharacterBounded ==
    ASSUME ValuesBounded, NEW c \in Char, handlechar(c)
    PROVE  ValuesBounded'
<1>1. CASE StartEscape(c) \/ StartCsi(c) \/ StartOsc(c)
  BY <1>1, ResetBounded DEF StartEscape, StartCsi, StartOsc
<1>2. CASE param(c)
  BY <1>2, ParamBounded
<1>3. CASE collectosc(c)
  BY <1>3, OscBounded
<1>4. CASE UNCHANGED <<args, oscbuf>>
  BY <1>4 DEF ValuesBounded
<1>5. CASE docontrol(c) \/ doprint(c) \/ doescape(c) \/ docsi(c) \/ doosc(c)
  BY <1>5, <1>4 DEF docontrol, doprint, doescape, docsi, doosc, Keep
<1>6. CASE collect(c) \/ Malformed(c) \/ EndMalformed(c) \/ ignore(c)
  BY <1>6, <1>4 DEF collect, Malformed, EndMalformed, ignore, Keep
<1> QED BY <1>1, <1>2, <1>3, <1>5, <1>6 DEF handlechar

(* One character keeps the types: the machine stays in its eight states    *)
(* and inter holds an intermediate or a private marker.                    *)
LEMMA CharacterTyped ==
    ASSUME TypeOK, NEW c \in Char, handlechar(c)
    PROVE  /\ s' \in States /\ inter' \in {0} \cup Intermediate \cup Private
           /\ w' \in Char /\ call'.cb \in Handlers /\ overrun' \in BOOLEAN
<1> USE DEF TypeOK, States, Handlers
<1>0. w' \in Char
  BY DEF handlechar
<1>1. CASE StartEscape(c) \/ StartCsi(c) \/ StartOsc(c)
  BY <1>0, <1>1 DEF StartEscape, StartCsi, StartOsc, reset, NoCall
<1>2. CASE docontrol(c) \/ doprint(c)
  BY <1>0, <1>2 DEF docontrol, doprint, Keep, Call
<1>3. CASE collect(c)
  BY <1>0, <1>3 DEF collect, AfterCollect, FirstInter, NoCall, Intermediate, Private
<1>4. CASE param(c)
  BY <1>0, <1>4 DEF param, NoCall
<1>5. CASE doescape(c) \/ docsi(c) \/ doosc(c)
  BY <1>0, <1>5 DEF doescape, docsi, doosc, Keep, Call
<1>6. CASE Malformed(c) \/ EndMalformed(c)
  BY <1>0, <1>6 DEF Malformed, EndMalformed, Keep, NoCall
<1>7. CASE collectosc(c) \/ ignore(c)
  BY <1>0, <1>7 DEF collectosc, ignore, Keep, NoCall
<1> QED BY <1>1, <1>2, <1>3, <1>4, <1>5, <1>6, <1>7 DEF handlechar

(* The bytes of a round of vtwrite become one character at most.           *)
LEMMA RoundCases ==
    ASSUME TypeOK, vtwrite
    PROVE  \/ \E c \in Char : handlechar(c) /\ ms' \in 0 .. 3
           \/ ms' \in 0 .. 3 /\ UNCHANGED <<s, inter, args, oscbuf, w, call, overrun>>
<1>1. ASSUME NEW b \in Input, OneByte(b)
      PROVE  \E c \in Char : handlechar(c) /\ ms' \in 0 .. 3
  BY <1>1, ParserAssumption DEF OneByte, Char, TypeOK
<1>2. CASE Complete \/ Invalid
  BY <1>2 DEF Complete, Invalid, Char, TypeOK
<1>3. ASSUME NEW k \in 1 .. 3, Incomplete(k)
      PROVE  ms' \in 0 .. 3 /\ UNCHANGED <<s, inter, args, oscbuf, w, call, overrun>>
  BY <1>3 DEF Incomplete
<1> QED BY <1>1, <1>2, <1>3 DEF vtwrite, Character, EndOfRead

(* Every variable of the parser keeps its type (struct VTPARSER).          *)
THEOREM ParserTypes == Spec => []TypeOK
<1>1. Init => TypeOK
  <2>1. NoCall.cb \in Handlers
    BY DEF NoCall, Handlers
  <2>2. Init => overrun \in BOOLEAN
    BY Zenon DEF Init
  <2>3. Init => s \in States /\ inter = 0 /\ ms \in 0 .. 3 /\ w \in Char
    BY DEF Init, States, Char
  <2>4. Init => call.cb \in Handlers
    BY <2>1 DEF Init
  <2> QED BY <2>2, <2>3, <2>4, Zenon DEF TypeOK
<1>2. TypeOK /\ [vtwrite]_vars => TypeOK'
  <2>1. ASSUME TypeOK, vtwrite PROVE TypeOK'
    BY <2>1, RoundCases, CharacterTyped DEF TypeOK
  <2>2. ASSUME TypeOK, UNCHANGED vars PROVE TypeOK'
    BY <2>2 DEF TypeOK, vars
  <2> QED BY <2>1, <2>2
<1> QED BY <1>1, <1>2, PTL DEF Spec

(* Whatever a program writes, no argument is above ten times the cap of    *)
(* param, and oscbuf keeps the place of its terminator (collectosc).        *)
LEMMA ValuesAlways == Spec => []ValuesBounded
<1>1. Init => ValuesBounded
  BY ParserAssumption, EmptySeq DEF Init, ValuesBounded
<1>2. TypeOK /\ ValuesBounded /\ [vtwrite]_vars => ValuesBounded'
  <2>1. ASSUME TypeOK, ValuesBounded, vtwrite PROVE ValuesBounded'
    <3>1. CASE \E c \in Char : handlechar(c)
      BY <2>1, <3>1, CharacterBounded
    <3>2. CASE UNCHANGED <<args, oscbuf>>
      BY <2>1, <3>2 DEF ValuesBounded
    <3> QED BY <2>1, <3>1, <3>2, RoundCases
  <2>2. ASSUME ValuesBounded, UNCHANGED vars PROVE ValuesBounded'
    BY <2>2 DEF ValuesBounded, vars
  <2> QED BY <2>1, <2>2
<1> QED BY <1>1, <1>2, ParserTypes, PTL DEF Spec

-----------------------------------------------------------------------------
(* What the text of a sequence says, one character after the other.         *)

LEMMA AppendOf ==
    ASSUME NEW b \in Seq(Nat), NEW c \in Nat
    PROVE  /\ Append(b, c) \in Seq(Nat) /\ Len(b) \in Nat
           /\ Len(Append(b, c)) = Len(b) + 1
           /\ \A i \in 1 .. Len(b) : Append(b, c)[i] = b[i] /\ b[i] \in Nat
           /\ Append(b, c)[Len(b) + 1] = c
BY AppendProperties, LenProperties, ElementOfSeq

(* The argument a character belongs to. *)
LEMMA ArgumentOf ==
    ASSUME NEW b, NEW n \in Nat
    PROVE  /\ Argument(b, 0) = 1 /\ Argument(b, n) \in Nat /\ Argument(b, n) >= 1
           /\ Argument(b, n + 1) = Argument(b, n) + (IF b[n + 1] = Semicolon THEN 1 ELSE 0)
           /\ \A i \in 0 .. n : Argument(b, i) \in Nat /\ Argument(b, i) <= Argument(b, n)
<1> DEFINE S(i) == {j \in 1 .. i : b[j] = Semicolon}
<1>1. \A i \in Nat : IsFiniteSet(S(i)) /\ Cardinality(S(i)) \in Nat /\ Argument(b, i) = 1 + Cardinality(S(i))
  <2> SUFFICES ASSUME NEW i \in Nat
               PROVE  IsFiniteSet(S(i)) /\ Cardinality(S(i)) \in Nat
    BY DEF Argument
  <2>1. IsFiniteSet(1 .. i) /\ S(i) \in SUBSET (1 .. i)
    BY FS_Interval
  <2> HIDE DEF S
  <2> QED BY <2>1, FS_Subset, FS_CardinalityType
<1>2. Argument(b, 0) = 1
  <2>1. S(0) = {}
    OBVIOUS
  <2> QED BY <1>1, <2>1, FS_EmptySet
<1>3. \A i \in 0 .. n : Argument(b, i) \in Nat /\ Argument(b, i) <= Argument(b, n)
  <2> SUFFICES ASSUME NEW i \in 0 .. n
               PROVE  Argument(b, i) \in Nat /\ Argument(b, i) <= Argument(b, n)
    OBVIOUS
  <2>1. S(i) \in SUBSET S(n)
    OBVIOUS
  <2> HIDE DEF S
  <2>2. Cardinality(S(i)) <= Cardinality(S(n))
    BY <1>1, <2>1, FS_Subset
  <2> QED BY <1>1, <2>2
<1>4. Argument(b, n + 1) = Argument(b, n) + (IF b[n + 1] = Semicolon THEN 1 ELSE 0)
  <2>1. CASE b[n + 1] = Semicolon
    <3>1. S(n + 1) = S(n) \cup {n + 1} /\ n + 1 \notin S(n)
      BY <2>1
    <3> HIDE DEF S
    <3>2. Cardinality(S(n + 1)) = Cardinality(S(n)) + 1
      BY <1>1, <3>1, FS_AddElement
    <3> QED BY <1>1, <2>1, <3>2
  <2>2. CASE b[n + 1] # Semicolon
    <3>1. S(n + 1) = S(n)
      BY <2>2
    <3> HIDE DEF S
    <3> QED BY <1>1, <2>2, <3>1
  <2> QED BY <2>1, <2>2
<1> HIDE DEF S
<1>5. Argument(b, n) \in Nat /\ Argument(b, n) >= 1
  BY <1>1
<1> QED BY <1>2, <1>3, <1>4, <1>5

LEMMA ArgumentAppend ==
    ASSUME NEW b \in Seq(Nat), NEW c \in Nat, NEW i \in 0 .. Len(b)
    PROVE  Argument(Append(b, c), i) = Argument(b, i)
<1>1. \A j \in 1 .. i : Append(b, c)[j] = b[j]
  BY AppendOf
<1>2. {j \in 1 .. i : Append(b, c)[j] = Semicolon} = {j \in 1 .. i : b[j] = Semicolon}
  BY <1>1
<1> QED BY <1>2 DEF Argument

(* One round of Number, and the values it goes through. *)
Digits(b, k, i, v) ==
    IF b[i] \in Digit /\ Argument(b, i) = k /\ v < ArgMax THEN v * 10 + (b[i] - 48) ELSE v
Values(b, k, f) == /\ f \in [0 .. Len(b) -> Nat] /\ f[0] = 0
                   /\ \A i \in 1 .. Len(b) : f[i] = Digits(b, k, i, f[i - 1])
                   /\ Number(b, k) = f[Len(b)]

LEMMA NumberOf ==
    ASSUME NEW b \in Seq(Nat), NEW k \in Nat
    PROVE  \E f : Values(b, k, f)
<1> DEFINE n == Len(b)
           G == [i \in 1 .. n |-> [v \in Nat |-> Digits(b, k, i, v)]]
<1>1. n \in Nat /\ 0 \in Nat
  BY LenProperties
<1>2. \A i \in 1 .. n, v \in Nat : Digits(b, k, i, v) \in Nat
  <2> SUFFICES ASSUME NEW i \in 1 .. n, NEW v \in Nat PROVE Digits(b, k, i, v) \in Nat
    OBVIOUS
  <2>1. b[i] \in Digit => b[i] - 48 \in Nat
    BY DEF Digit
  <2>2. b[i] \in Digit => v * 10 + (b[i] - 48) \in Nat
    BY <2>1
  <2> QED BY <2>2 DEF Digits
<1>3. G \in Rounds(n, Nat)
  BY <1>2 DEF Rounds
<1>4. \A i \in 1 .. n, v \in Nat : G[i][v] = Digits(b, k, i, v)
  OBVIOUS
<1> DEFINE Loop(f) == f = [i \in 0 .. n |->
                IF i = 0 THEN 0
                ELSE IF b[i] \in Digit /\ Argument(b, i) = k /\ f[i - 1] < ArgMax
                       THEN f[i - 1] * 10 + (b[i] - 48)
                       ELSE f[i - 1]]
<1>5. \E f : Loop(f) /\ Values(b, k, f) 
  <2> HIDE DEF G, n
  <2>1. PICK f : Runs(n, Nat, 0, G, f)
    BY <1>1, <1>3, LoopStates
  <2>2. f \in [0 .. n -> Nat] /\ f[0] = 0 /\ \A i \in 1 .. n : f[i] = Digits(b, k, i, f[i - 1])
    <3>1. f \in [0 .. n -> Nat] /\ f[0] = 0 /\ \A i \in 1 .. n : f[i] = G[i][f[i - 1]]
      BY <2>1 DEF Runs
    <3>2. \A i \in 1 .. n : f[i - 1] \in Nat
      BY <1>1, <3>1
    <3> QED BY <1>4, <3>1, <3>2
  <2>3. Loop(f)
    BY <1>1, <2>2 DEF Digits
  <2>4. \A g : Loop(g) => g = f
    <3> SUFFICES ASSUME NEW g, Loop(g) PROVE g = f
      OBVIOUS
    <3> DEFINE T == {i \in 0 .. n : g[i] = f[i]}
    <3>1. 0 \in T
      BY <1>1, <2>2
    <3>2. ASSUME NEW i \in 0 .. (n - 1), i \in T PROVE i + 1 \in T
      <4>1. i + 1 \in 0 .. n /\ (i + 1) - 1 = i /\ i + 1 # 0 /\ g[i] = f[i]
        BY <1>1, <3>2
      <4>2. \A j \in 1 .. n : j \in 0 .. n /\ j # 0
        BY <1>1
      <4>3. \A j \in 1 .. n : g[j] = Digits(b, k, j, g[j - 1])
        BY <4>2 DEF Digits
      <4>4. g[i + 1] = f[i + 1]
        <5> HIDE DEF Loop, T
        <5>1. i + 1 \in 1 .. n
          BY <1>1
        <5>2. g[i + 1] = Digits(b, k, i + 1, g[i]) /\ f[i + 1] = Digits(b, k, i + 1, f[i])
          BY <2>2, <4>1, <4>3, <5>1
        <5> QED BY <4>1, <5>2
      <4> QED BY <4>1, <4>4
    <3> HIDE DEF T
    <3>3. 0 .. n \subseteq T
      BY <1>1, <3>1, <3>2, LoopInduction
    <3> USE DEF T
    <3>4. \A i \in 0 .. n : g[i] = f[i]
      BY <3>3
    <3>5. g = [i \in 0 .. n |-> g[i]] /\ f = [i \in 0 .. n |-> f[i]]
      BY <2>2
    <3> QED BY <3>4, <3>5
  <2> DEFINE value == CHOOSE g : Loop(g)
  <2>5. Number(b, k) = value[n]
    BY DEF Number, n
  <2>6. value = f
    <3> HIDE DEF Loop
    <3>1. Loop(value)
      BY <2>3
    <3> QED BY <2>4, <3>1
  <2> HIDE DEF value, Loop
  <2>7. Values(b, k, f)
    BY <2>2, <2>5, <2>6 DEF Values, n
  <2> QED BY <2>3, <2>7
<1> QED BY <1>5

LEMMA NumberAppend ==
    ASSUME NEW b \in Seq(Nat), NEW c \in Nat, NEW k \in Nat
    PROVE  /\ Number(b, k) \in Nat
           /\ Number(Append(b, c), k) =
                IF c \in Digit /\ Argument(Append(b, c), Len(b) + 1) = k /\ Number(b, k) < ArgMax
                  THEN Number(b, k) * 10 + (c - 48) ELSE Number(b, k)
<1> DEFINE n == Len(b)
           d == Append(b, c)
<1>1. /\ n \in Nat /\ d \in Seq(Nat) /\ Len(d) = n + 1 /\ d[n + 1] = c
      /\ \A i \in 1 .. n : d[i] = b[i]
  BY AppendOf
<1>2. PICK f : Values(b, k, f)
  BY NumberOf
<1>3. PICK g : Values(d, k, g)
  BY <1>1, NumberOf
<1>4. \A i \in 1 .. n : Argument(d, i) = Argument(b, i)
  <2>1. 1 .. n \subseteq 0 .. n
    OBVIOUS
  <2> QED BY <2>1, ArgumentAppend
<1> HIDE DEF n, d
<1>5. \A i \in 1 .. n : \A v : Digits(d, k, i, v) = Digits(b, k, i, v)
  BY <1>1, <1>4 DEF Digits
<1>6. /\ f \in [0 .. n -> Nat] /\ f[0] = 0 /\ \A i \in 1 .. n : f[i] = Digits(b, k, i, f[i - 1])
      /\ Number(b, k) = f[n]
  BY <1>2 DEF Values, n
<1>7. /\ g[0] = 0 /\ \A i \in 1 .. n + 1 : g[i] = Digits(d, k, i, g[i - 1])
      /\ Number(d, k) = g[n + 1]
  BY <1>1, <1>3 DEF Values
<1> DEFINE T == {i \in 0 .. n : g[i] = f[i]}
<1>8. 0 .. n \subseteq T
  <2>1. 0 \in T
    BY <1>1, <1>6, <1>7
  <2>2. ASSUME NEW i \in 0 .. (n - 1), i \in T PROVE i + 1 \in T
    <3>1. i + 1 \in 1 .. n /\ i + 1 \in 1 .. n + 1 /\ (i + 1) - 1 = i /\ g[i] = f[i]
      BY <1>1, <2>2
    <3>2. g[i + 1] = f[i + 1]
      BY <1>5, <1>6, <1>7, <3>1
    <3> QED BY <3>1, <3>2
  <2> HIDE DEF T
  <2> QED BY <1>1, <2>1, <2>2, LoopInduction
<1>9. g[n] = f[n] /\ n + 1 \in 1 .. n + 1 /\ (n + 1) - 1 = n /\ f[n] \in Nat
  BY <1>1, <1>6, <1>8
<1> HIDE DEF T
<1>10. g[n + 1] = Digits(d, k, n + 1, f[n])
  BY <1>7, <1>9
<1> QED BY <1>1, <1>6, <1>7, <1>9, <1>10 DEF Digits, n, d

(* An argument that no digit belongs to is 0. *)
LEMMA NumberNone ==
    ASSUME NEW b \in Seq(Nat), NEW k \in Nat,
           \A i \in 1 .. Len(b) : b[i] \notin Digit \/ Argument(b, i) # k
    PROVE  Number(b, k) = 0
<1> DEFINE n == Len(b)
<1>1. n \in Nat
  BY LenProperties
<1>2. PICK f : Values(b, k, f)
  BY NumberOf
<1>3. f[0] = 0 /\ \A i \in 1 .. n : f[i] = f[i - 1]
  BY <1>2 DEF Values, Digits
<1>4. Number(b, k) = f[n]
  BY <1>2 DEF Values
<1> HIDE DEF n
<1> DEFINE T == {i \in 0 .. n : f[i] = 0}
<1>5. 0 .. n \subseteq T
  <2>1. 0 \in T
    BY <1>1, <1>3
  <2>2. ASSUME NEW i \in 0 .. (n - 1), i \in T PROVE i + 1 \in T
    <3>1. i + 1 \in 1 .. n /\ (i + 1) - 1 = i /\ f[i] = 0
      BY <1>1, <2>2
    <3> QED BY <1>3, <3>1
  <2> HIDE DEF T
  <2> QED BY <1>1, <2>1, <2>2, LoopInduction
<1>6. f[n] = 0
  BY <1>1, <1>5
<1> QED BY <1>4, <1>6

(* The numbers of a sequence, as the parser collects them: a semicolon      *)
(* begins a number, a digit goes to the last one, any other character       *)
(* leaves them.                                                             *)
LEMMA NumbersOf ==
    ASSUME NEW b \in Seq(Nat)
    PROVE  /\ Numbers(b) \in Seq(Nat) /\ Len(Numbers(b)) = Argument(b, Len(b))
           /\ Len(Numbers(b)) \in Nat /\ Len(Numbers(b)) >= 1
           /\ \A k \in 1 .. Len(Numbers(b)) :
                Numbers(b)[k] = IF k >= MAXPARAM THEN 0 ELSE Number(b, k)
<1> DEFINE n == Argument(b, Len(b))
<1>1. n \in Nat /\ n >= 1
  BY ArgumentOf, LenProperties
<1> HIDE DEF n
<1>2. \A k \in 1 .. n : (IF k >= MAXPARAM THEN 0 ELSE Number(b, k)) \in Nat
  <2> SUFFICES ASSUME NEW k \in 1 .. n PROVE Number(b, k) \in Nat
    OBVIOUS
  <2>1. 0 \in Nat /\ k \in Nat
    BY <1>1
  <2> QED BY <2>1, NumberAppend
<1>3. Numbers(b) = [k \in 1 .. n |-> IF k >= MAXPARAM THEN 0 ELSE Number(b, k)]
  BY DEF Numbers, n
<1>4. Numbers(b) \in [1 .. n -> Nat]
  BY <1>2, <1>3
<1>5. Numbers(b) \in Seq(Nat) /\ Len(Numbers(b)) = n
  BY <1>1, <1>4, LenProperties
<1> QED BY <1>1, <1>3, <1>5 DEF n

LEMMA NumbersEmpty == Numbers(<<>>) = <<0>>
<1>1. <<>> \in Seq(Nat) /\ Len(<<>>) = 0 /\ Argument(<<>>, 0) = 1
  BY EmptySeq, ArgumentOf
<1>2. Number(<<>>, 1) = 0
  <2>1. 1 \in Nat /\ \A i \in 1 .. Len(<<>>) : FALSE
    BY <1>1
  <2> QED BY <1>1, <2>1, NumberNone
<1>3. Numbers(<<>>) = [k \in 1 .. 1 |-> IF k >= MAXPARAM THEN 0 ELSE Number(<<>>, k)]
  BY <1>1 DEF Numbers
<1>4. \A k \in 1 .. 1 : k = 1
  OBVIOUS
<1>5. Numbers(<<>>) = [k \in 1 .. 1 |-> 0]
  BY <1>2, <1>3, <1>4
<1> QED BY <1>5

LEMMA NumbersAppend ==
    ASSUME NEW b \in Seq(Nat), NEW c \in Nat
    PROVE  /\ c \notin Digit \cup {Semicolon} => Numbers(Append(b, c)) = Numbers(b)
           /\ c = Semicolon => Numbers(Append(b, c)) = Append(Numbers(b), 0)
           /\ c \in Digit =>
                Numbers(Append(b, c)) = AddDigit(Numbers(b), c)
<1> DEFINE d == Append(b, c)
           n == Argument(b, Len(b))
<1>1. /\ Len(b) \in Nat /\ d \in Seq(Nat) /\ Len(d) = Len(b) + 1 /\ d[Len(b) + 1] = c
      /\ \A i \in 1 .. Len(b) : d[i] = b[i]
  BY AppendOf
<1>2. /\ \A i \in 0 .. Len(b) : Argument(d, i) = Argument(b, i)
      /\ Argument(d, Len(d)) = n + (IF c = Semicolon THEN 1 ELSE 0)
      /\ n \in Nat /\ n >= 1 /\ \A i \in 0 .. Len(b) : Argument(b, i) <= n
  <2>1. \A i \in 0 .. Len(b) : Argument(d, i) = Argument(b, i)
    BY ArgumentAppend
  <2>2. Argument(d, Len(b) + 1) = Argument(d, Len(b)) + (IF c = Semicolon THEN 1 ELSE 0)
    BY <1>1, ArgumentOf
  <2>3. n \in Nat /\ n >= 1 /\ \A i \in 0 .. Len(b) : Argument(b, i) <= n
    BY <1>1, ArgumentOf
  <2> QED BY <1>1, <2>1, <2>2, <2>3
<1>3. /\ Numbers(b) \in Seq(Nat) /\ Len(Numbers(b)) = n
      /\ \A k \in 1 .. n : Numbers(b)[k] = IF k >= MAXPARAM THEN 0 ELSE Number(b, k)
  BY NumbersOf
<1>4. /\ Numbers(d) \in Seq(Nat) /\ Len(Numbers(d)) = Argument(d, Len(d))
      /\ \A k \in 1 .. Argument(d, Len(d)) :
            Numbers(d)[k] = IF k >= MAXPARAM THEN 0 ELSE Number(d, k)
  BY <1>1, NumbersOf
<1>5. \A k \in Nat : /\ Number(b, k) \in Nat
                     /\ Number(d, k) = IF c \in Digit /\ Argument(d, Len(d)) = k
                                             /\ Number(b, k) < ArgMax
                                         THEN Number(b, k) * 10 + (c - 48) ELSE Number(b, k)
  BY <1>1, NumberAppend
<1> HIDE DEF d, n
<1>6. CASE c \notin Digit \cup {Semicolon}
  <2>1. Argument(d, Len(d)) = n /\ \A k \in 1 .. n : k \in Nat
    BY <1>2, <1>6
  <2>2. \A k \in 1 .. n : Number(d, k) = Number(b, k)
    BY <1>5, <1>6, <2>1
  <2>3. \A k \in 1 .. n : Numbers(d)[k] = Numbers(b)[k]
    BY <1>3, <1>4, <2>1, <2>2
  <2>4. Numbers(d) = Numbers(b)
    BY <1>3, <1>4, <2>1, <2>3, SeqEqual
  <2>5. c # Semicolon /\ c \notin Digit
    BY <1>6
  <2> QED BY <2>4, <2>5 DEF d
<1>7. CASE c = Semicolon
  <2>0. c \notin Digit
    BY <1>7 DEF Semicolon, Digit
  <2>1. Argument(d, Len(d)) = n + 1 /\ \A k \in 1 .. n + 1 : k \in Nat
    BY <1>2, <1>7
  <2>2. \A k \in 1 .. n + 1 : Number(d, k) = Number(b, k)
    BY <1>5, <2>0, <2>1
  <2>3. Number(b, n + 1) = 0
    <3>1. n + 1 \in Nat /\ \A i \in 1 .. Len(b) : i \in 0 .. Len(b) /\ Argument(b, i) # n + 1
      <4>1. \A i \in 1 .. Len(b) : i \in 0 .. Len(b)
        OBVIOUS
      <4>2. \A i \in 1 .. Len(b) : Argument(b, i) <= n
        BY <1>2, <4>1
      <4> QED BY <1>2, <4>1, <4>2
    <3> QED BY <3>1, NumberNone
  <2>4. /\ Append(Numbers(b), 0) \in Seq(Nat) /\ Len(Append(Numbers(b), 0)) = n + 1
        /\ \A k \in 1 .. n : Append(Numbers(b), 0)[k] = Numbers(b)[k]
        /\ Append(Numbers(b), 0)[n + 1] = 0
    BY <1>3, AppendProperties
  <2>5. \A k \in 1 .. n + 1 : Numbers(d)[k] = Append(Numbers(b), 0)[k]
    <3> SUFFICES ASSUME NEW k \in 1 .. n + 1 PROVE Numbers(d)[k] = Append(Numbers(b), 0)[k]
      OBVIOUS
    <3>1. CASE k = n + 1
      <4>1. Numbers(d)[k] = IF k >= MAXPARAM THEN 0 ELSE Number(d, k)
        BY <1>4, <2>1
      <4>2. Number(d, k) = 0
        BY <2>2, <2>3, <3>1
      <4> QED BY <2>4, <3>1, <4>1, <4>2
    <3>2. CASE k \in 1 .. n
      BY <1>3, <1>4, <2>1, <2>2, <2>4, <3>2
    <3>3. k = n + 1 \/ k \in 1 .. n
      <4>1. n \in Nat
        BY <1>2
      <4> QED BY <4>1
    <3> QED BY <3>1, <3>2, <3>3
  <2>6. Numbers(d) = Append(Numbers(b), 0)
    BY <1>4, <2>1, <2>4, <2>5, SeqEqual
  <2> QED BY <1>7, <2>0, <2>6 DEF d
<1>8. CASE c \in Digit
  <2>0. c # Semicolon
    BY <1>8 DEF Semicolon, Digit
  <2>1. Argument(d, Len(d)) = n /\ n \in 1 .. n /\ \A k \in 1 .. n : k \in Nat
    BY <1>2, <2>0
  <2>2. \A k \in 1 .. n : k # n => Number(d, k) = Number(b, k)
    BY <1>5, <2>1
  <2>3. CASE n < MAXPARAM /\ Numbers(b)[n] < ArgMax
    <3>1. Numbers(b)[n] = Number(b, n) /\ Numbers(d)[n] = Number(d, n) /\ n \in Nat
      BY <1>3, <1>4, <2>1, <2>3, ParserAssumption
    <3> DEFINE x == Number(b, n) * 10 + (c - 48)
    <3>2. Number(d, n) = x
      BY <1>5, <1>8, <2>1, <2>3, <3>1
    <3>3. x \in Nat
      <4>1. Number(b, n) \in Nat /\ c - 48 \in Nat
        BY <1>5, <1>8, <3>1 DEF Digit
      <4> QED BY <4>1
    <3>4. AddDigit(Numbers(b), c) = [Numbers(b) EXCEPT ![n] = x]
      BY <1>3, <2>3, <3>1 DEF AddDigit
    <3> HIDE DEF x
    <3>5. /\ [Numbers(b) EXCEPT ![n] = x] \in Seq(Nat)
          /\ Len([Numbers(b) EXCEPT ![n] = x]) = n
          /\ \A k \in 1 .. n :
                [Numbers(b) EXCEPT ![n] = x][k] = IF k = n THEN x ELSE Numbers(b)[k]
      BY <1>3, <2>1, <3>3, ExceptSeq
    <3>6. \A k \in 1 .. n : Numbers(d)[k] = IF k = n THEN x ELSE Numbers(b)[k]
      <4> SUFFICES ASSUME NEW k \in 1 .. n
                   PROVE  Numbers(d)[k] = IF k = n THEN x ELSE Numbers(b)[k]
        OBVIOUS
      <4>1. CASE k = n
        BY <3>1, <3>2, <4>1
      <4>2. CASE k # n
        BY <1>3, <1>4, <2>1, <2>2, <4>2
      <4> QED BY <4>1, <4>2
    <3>7. Numbers(d) = [Numbers(b) EXCEPT ![n] = x]
      BY <1>4, <2>1, <3>5, <3>6, SeqEqual
    <3> QED BY <2>0, <3>4, <3>7, <1>8 DEF d
  <2>4. CASE ~(n < MAXPARAM /\ Numbers(b)[n] < ArgMax)
    <3>1. AddDigit(Numbers(b), c) = Numbers(b)
      BY <1>3, <2>4 DEF AddDigit
    <3>2. \A k \in 1 .. n : Numbers(d)[k] = Numbers(b)[k]
      <4> SUFFICES ASSUME NEW k \in 1 .. n PROVE Numbers(d)[k] = Numbers(b)[k]
        OBVIOUS
      <4>1. CASE k >= MAXPARAM
        BY <1>3, <1>4, <2>1, <4>1
      <4>2. CASE k # n
        BY <1>3, <1>4, <2>1, <2>2, <4>2
      <4>3. CASE k = n /\ ~(k >= MAXPARAM)
        <5>1. ~(Number(b, n) < ArgMax)
          <6>1. n < MAXPARAM /\ Numbers(b)[n] = Number(b, n)
            BY <1>2, <1>3, <1>8, <2>1, <4>3, ParserAssumption
          <6> QED BY <2>4, <6>1
        <5>2. Number(d, n) = Number(b, n)
          BY <1>2, <1>5, <5>1
        <5> QED BY <1>3, <1>4, <2>1, <4>3, <5>2
      <4> QED BY <4>1, <4>2, <4>3
    <3>3. Numbers(d) = Numbers(b)
      BY <1>3, <1>4, <2>1, <3>2, SeqEqual
    <3> QED BY <2>0, <3>1, <3>3, <1>8 DEF d
  <2> QED BY <2>3, <2>4
<1> QED BY <1>3, <1>6, <1>7, <1>8 DEF d

(* The grammar of a control sequence, one character after the other. *)
LEMMA ShapeAppend ==
    ASSUME NEW b \in Seq(Nat), NEW c \in Nat
    PROVE  /\ WellFormed(Append(b, c)) => WellFormed(b)
           /\ WellFormed(b) /\ c \in Intermediate => WellFormed(Append(b, c))
           /\ Shape(b, Len(b)) /\ Parameter(c) => Shape(Append(b, c), Len(b) + 1)
           /\ b = <<>> /\ c \in Private => Shape(Append(b, c), Len(b) + 1)
           /\ Shape(b, Len(b)) => WellFormed(b)
<1> DEFINE d == Append(b, c)
           n == Len(b)
<1>1. /\ n \in Nat /\ Len(d) = n + 1 /\ d[n + 1] = c /\ \A i \in 1 .. n : d[i] = b[i]
      /\ b = <<>> => n = 0
  BY AppendOf
<1> HIDE DEF d, n
<1>2. ASSUME WellFormed(d) PROVE WellFormed(b)
  <2>1. PICK i \in 0 .. n + 1 : /\ \A j \in 1 .. i : Parameter(d[j]) \/ (j = 1 /\ d[j] \in Private)
                                /\ \A j \in i + 1 .. n + 1 : d[j] \in Intermediate
    BY <1>1, <1>2 DEF WellFormed, Shape
  <2> DEFINE k == IF i = n + 1 THEN n ELSE i
  <2>2. /\ k \in 0 .. n /\ \A j \in 1 .. k : j \in 1 .. i /\ j \in 1 .. n
        /\ \A j \in k + 1 .. n : j \in i + 1 .. n + 1 /\ j \in 1 .. n
    BY <1>1
  <2>3. /\ \A j \in 1 .. k : Parameter(b[j]) \/ (j = 1 /\ b[j] \in Private)
        /\ \A j \in k + 1 .. n : b[j] \in Intermediate
    <3> HIDE DEF k
    <3> QED BY <1>1, <2>1, <2>2
  <2> QED BY <2>2, <2>3 DEF WellFormed, Shape, n
<1>3. ASSUME WellFormed(b), c \in Intermediate PROVE WellFormed(d)
  <2>1. PICK i \in 0 .. n : /\ \A j \in 1 .. i : Parameter(b[j]) \/ (j = 1 /\ b[j] \in Private)
                            /\ \A j \in i + 1 .. n : b[j] \in Intermediate
    BY <1>3 DEF WellFormed, Shape, n
  <2>2. /\ i \in 0 .. n + 1 /\ \A j \in 1 .. i : j \in 1 .. n
        /\ \A j \in i + 1 .. n + 1 : j = n + 1 \/ (j \in i + 1 .. n /\ j \in 1 .. n)
    BY <1>1
  <2>3. /\ \A j \in 1 .. i : Parameter(d[j]) \/ (j = 1 /\ d[j] \in Private)
        /\ \A j \in i + 1 .. n + 1 : d[j] \in Intermediate
    BY <1>1, <1>3, <2>1, <2>2
  <2> QED BY <1>1, <2>2, <2>3 DEF WellFormed, Shape
<1>4. ASSUME Shape(b, n), Parameter(c) PROVE Shape(d, n + 1)
  <2>1. \A j \in 1 .. n + 1 : j = n + 1 \/ j \in 1 .. n
    BY <1>1
  <2>2. \A j \in 1 .. n + 1 : Parameter(d[j]) \/ (j = 1 /\ d[j] \in Private)
    BY <1>1, <1>4, <2>1 DEF Shape
  <2>3. n + 1 + 1 .. n + 1 = {}
    BY <1>1
  <2> QED BY <1>1, <2>2, <2>3 DEF Shape
<1>5. ASSUME b = <<>>, c \in Private PROVE Shape(d, n + 1)
  <2>1. n = 0 /\ 1 .. n + 1 = {1} /\ n + 1 + 1 .. n + 1 = {}
    BY <1>1, <1>5
  <2>2. d[1] = c
    BY <1>1, <2>1
  <2> QED BY <1>1, <1>5, <2>1, <2>2 DEF Shape
<1>6. ASSUME Shape(b, n) PROVE WellFormed(b)
  <2>1. n \in 0 .. n
    BY <1>1
  <2> QED BY <1>6, <2>1 DEF WellFormed, n
<1> QED BY <1>2, <1>3, <1>4, <1>5, <1>6 DEF d, n

LEMMA ShapeBroken ==
    ASSUME NEW b \in Seq(Nat), NEW c \in Nat, c \notin Intermediate, WellFormed(Append(b, c))
    PROVE  /\ Parameter(c) \/ (b = <<>> /\ c \in Private)
           /\ b # <<>> => b[Len(b)] \notin Intermediate
<1> DEFINE d == Append(b, c)
           n == Len(b)
<1>1. /\ n \in Nat /\ Len(d) = n + 1 /\ d[n + 1] = c /\ \A i \in 1 .. n : d[i] = b[i]
      /\ b = <<>> <=> n = 0
  BY AppendOf, EmptySeq
<1> HIDE DEF d
<1>2. PICK i \in 0 .. n + 1 : /\ \A j \in 1 .. i : Parameter(d[j]) \/ (j = 1 /\ d[j] \in Private)
                              /\ \A j \in i + 1 .. n + 1 : d[j] \in Intermediate
  BY <1>1 DEF WellFormed, Shape, d
<1> HIDE DEF n
<1>3. i = n + 1
  BY <1>1, <1>2
<1>4. Parameter(c) \/ (n + 1 = 1 /\ c \in Private)
  BY <1>1, <1>2, <1>3
<1>5. n > 0 => Parameter(d[n]) \/ d[n] \in Private
  BY <1>1, <1>2, <1>3
<1>6. n > 0 => b[n] \notin Intermediate
  <2>1. n > 0 => b[n] = d[n]
    BY <1>1
  <2>2. \A x \in Nat : Parameter(x) \/ x \in Private => x \notin Intermediate
    BY DEF Parameter, Private, Intermediate, Digit, Semicolon
  <2>3. n > 0 => b[n] \in Nat
    BY <1>1, ElementOfSeq DEF n
  <2> QED BY <1>5, <2>1, <2>2, <2>3
<1> QED BY <1>1, <1>4, <1>6 DEF n

(* m is the first of its characters that is no parameter and that no        *)
(* semicolon too many has lost, or 0.                                       *)
Silent(b, i) == Parameter(b[i]) \/ Lost(b, i)
Marked(b, m) ==
    \/ m = 0 /\ \A j \in 1 .. Len(b) : Silent(b, j)
    \/ \E j \in 1 .. Len(b) : /\ m = b[j] /\ m # 0 /\ ~Silent(b, j)
                              /\ \A i \in 1 .. j - 1 : Silent(b, i)

LEMMA MarksOf ==
    ASSUME NEW b \in Seq(Nat), NEW m, Marked(b, m)
    PROVE  Marks(b) = m
<1> DEFINE M == {i \in 1 .. Len(b) : ~Parameter(b[i]) /\ ~Lost(b, i)}
           least(i) == \A j \in M : i <= j
<1>0. \A i \in 1 .. Len(b) : i \in M <=> ~Silent(b, i)
  BY DEF Silent
<1>1. CASE m = 0 /\ \A j \in 1 .. Len(b) : Silent(b, j)
  <2>1. M = {}
    BY <1>0, <1>1
  <2> QED BY <1>1, <2>1 DEF Marks
<1>2. ASSUME NEW j \in 1 .. Len(b), m = b[j], ~Silent(b, j),
             \A i \in 1 .. j - 1 : Silent(b, i)
      PROVE  Marks(b) = m
  <2>1. j \in M /\ \A i \in M : j <= i
    <3>1. Len(b) \in Nat /\ M \subseteq 1 .. Len(b)
      BY LenProperties
    <3> HIDE DEF M
    <3>2. \A i \in 1 .. Len(b) : ~(j <= i) => i \in 1 .. j - 1
      BY <3>1
    <3> QED BY <1>0, <1>2, <3>1, <3>2
  <2>2. \A i \in M : least(i) => i = j
    BY <2>1, LenProperties
  <2>3. (CHOOSE i \in M : least(i)) = j
    <3> HIDE DEF M, least
    <3>1. least(j)
      BY <2>1 DEF least
    <3> QED BY <2>1, <2>2, <3>1
  <2>4. Marks(b) = b[CHOOSE i \in M : least(i)]
    BY <2>1 DEF Marks
  <2> HIDE DEF M, least
  <2> QED BY <1>2, <2>3, <2>4
<1> QED BY <1>1, <1>2 DEF Marked

LEMMA MarkedAppend ==
    ASSUME NEW b \in Seq(Nat), NEW c \in Nat, NEW m, Marked(b, m)
    PROVE  /\ c = Semicolon /\ Argument(b, Len(b)) = MAXPARAM => Marked(Append(b, c), 0)
           /\ Parameter(c) /\ ~(c = Semicolon /\ Argument(b, Len(b)) = MAXPARAM)
                => Marked(Append(b, c), m)
           /\ ~Parameter(c) /\ c # 0 => Marked(Append(b, c), IF m # 0 THEN m ELSE c)
<1> DEFINE d == Append(b, c)
           n == Len(b)
           full == c = Semicolon /\ Argument(b, n) = MAXPARAM
<1>1. n \in Nat /\ Len(d) = n + 1 /\ d[n + 1] = c /\ \A i \in 1 .. n : d[i] = b[i]
  BY AppendOf
<1>2. /\ \A i \in 1 .. n : Lost(d, i) <=> full \/ Lost(b, i)
      /\ ~Lost(d, n + 1)
  <2>1. /\ \A i \in 1 .. n : Argument(d, i) = Argument(b, i) /\ Argument(b, i) \in Nat
                              /\ Argument(b, i) <= Argument(b, n)
        /\ Argument(d, n + 1) = Argument(b, n) + (IF c = Semicolon THEN 1 ELSE 0)
        /\ Argument(b, n) \in Nat
    <3>1. \A i \in 0 .. n : Argument(d, i) = Argument(b, i)
      BY ArgumentAppend
    <3>2. Argument(d, n + 1) = Argument(d, n) + (IF d[n + 1] = Semicolon THEN 1 ELSE 0)
      BY <1>1, ArgumentOf
    <3>3. \A i \in 0 .. n : Argument(b, i) \in Nat /\ Argument(b, i) <= Argument(b, n)
      BY <1>1, ArgumentOf
    <3> HIDE DEF d, n
    <3>4. n \in 0 .. n /\ \A i \in 1 .. n : i \in 0 .. n
      BY <1>1
    <3> QED BY <1>1, <3>1, <3>2, <3>3, <3>4
  <2> HIDE DEF d, n
  <2>2. ~Lost(d, n + 1)
    BY <1>1, <2>1, ParserAssumption DEF Lost
  <2>3. ASSUME NEW i \in 1 .. n PROVE Lost(d, i) <=> full \/ Lost(b, i)
    BY <1>1, <2>1, ParserAssumption DEF Lost, n
  <2> QED BY <2>2, <2>3
<1> HIDE DEF d, full
<1>3. /\ \A i \in 1 .. n : Silent(b, i) \/ full => Silent(d, i)
      /\ \A i \in 1 .. n : ~Silent(b, i) /\ ~full => ~Silent(d, i)
      /\ Parameter(c) <=> Silent(d, n + 1)
  BY <1>1, <1>2 DEF Silent
<1>4. full => Parameter(c)
  BY DEF full, Parameter
<1> USE DEF Marked
<1> HIDE DEF n
<1>5. \A j \in 1 .. n + 1 : j = n + 1 \/ j \in 1 .. n
  BY <1>1
<1>6. full => Marked(d, 0)
  BY <1>1, <1>3, <1>4, <1>5
<1>7. CASE ~full /\ m = 0 /\ \A j \in 1 .. n : Silent(b, j)
  <2>1. (n + 1) - 1 = n /\ n + 1 \in 1 .. n + 1
    BY <1>1
  <2>2. Parameter(c) => Marked(d, m)
    BY <1>1, <1>3, <1>5, <1>7
  <2>3. ~Parameter(c) /\ c # 0 => Marked(d, IF m # 0 THEN m ELSE c)
    <3> SUFFICES ASSUME ~Parameter(c), c # 0 PROVE Marked(d, c)
      BY <1>7
    <3>1. \A i \in 1 .. (n + 1) - 1 : Silent(d, i)
      BY <1>3, <1>7, <2>1
    <3> QED BY <1>1, <1>3, <2>1, <3>1
  <2> QED BY <1>7, <2>2, <2>3 DEF d, full, n
<1>8. ASSUME ~full, NEW j \in 1 .. n, m = b[j], m # 0, ~Silent(b, j),
             \A i \in 1 .. j - 1 : Silent(b, i)
      PROVE  Marked(d, m)
  <2>1. j \in 1 .. n + 1 /\ \A i \in 1 .. j - 1 : i \in 1 .. n
    BY <1>1
  <2>2. (\A i \in 1 .. j - 1 : Silent(d, i)) /\ ~Silent(d, j) /\ d[j] = m
    BY <1>1, <1>3, <1>8, <2>1
  <2> QED BY <1>1, <1>8, <2>1, <2>2
<1>9. CASE ~full /\ m # 0
  <2>1. Marked(d, m)
    BY <1>8, <1>9 DEF n
  <2> QED BY <1>9, <2>1 DEF d, full, n
<1>10. full \/ (~full /\ m # 0) \/ (~full /\ m = 0 /\ \A j \in 1 .. n : Silent(b, j))
  BY DEF n
<1>11. CASE full
  BY <1>4, <1>6, <1>11 DEF d, full, n
<1> QED BY <1>7, <1>9, <1>10, <1>11

LEMMA NoParameters ==
    ASSUME NEW b \in Seq(Nat), NEW c \in Nat
    PROVE  (\A j \in 1 .. Len(Append(b, c)) : ~Parameter(Append(b, c)[j]))
              <=> (~Parameter(c) /\ \A j \in 1 .. Len(b) : ~Parameter(b[j]))
<1> DEFINE d == Append(b, c)
           n == Len(b)
<1>1. n \in Nat /\ Len(d) = n + 1 /\ d[n + 1] = c /\ \A i \in 1 .. n : d[i] = b[i]
  BY AppendOf
<1> HIDE DEF d, n
<1>2. 1 .. n + 1 = (1 .. n) \cup {n + 1}
  BY <1>1
<1>3. (\A j \in 1 .. n + 1 : ~Parameter(d[j]))
         <=> (~Parameter(c) /\ \A j \in 1 .. n : ~Parameter(b[j]))
  BY <1>1, <1>2
<1> QED BY <1>1, <1>3 DEF d, n

-----------------------------------------------------------------------------
(* The state of the parser is determined by the text of the sequence: which *)
(* kind it is of, whether its grammar still holds, its marker or first      *)
(* intermediate, its numbers and its string.                                *)
Cut(r) == SubSeq(r, 1, IF Len(r) < MAXOSC THEN Len(r) ELSE MAXOSC)
Shaped == {"csi_entry", "csi_param", "csi_intermediate"}

OnText ==
    /\ text \in Seq(Nat) /\ s \in States
    /\ s = "ground" => text = <<>> \/ Ended
    /\ s = "escape" => Len(text) = 1 /\ inter = 0
    /\ s = "escape_intermediate" =>
          /\ Len(text) >= 2 /\ text[2] \in Intermediate \ OscOpeners
          /\ text[Len(text)] \in Intermediate /\ inter = text[2]
    /\ s = "osc_string" =>
          /\ Len(text) >= 2 /\ text[2] \in OscOpeners /\ text[Len(text)] # BEL
          /\ oscbuf = Cut(Rest)
    /\ s \in Shaped \cup {"csi_ignore"} =>
          Len(text) >= 2 /\ text[2] = 91 /\ (Len(text) = 2 \/ text[Len(text)] \in 32 .. 63)
    /\ s = "csi_entry" => Rest = <<>>
    /\ s = "csi_param" => Rest # <<>> /\ Shape(Rest, Len(Rest))
    /\ s = "csi_intermediate" =>
          Rest # <<>> /\ WellFormed(Rest) /\ Rest[Len(Rest)] \in Intermediate
    /\ s = "csi_ignore" => ~WellFormed(Rest)
    /\ s \in Shaped => Marked(Rest, inter)
    /\ s \in Shaped =>
          /\ args = <<>> <=> \A j \in 1 .. Len(Rest) : ~Parameter(Rest[j])
          /\ (IF args = <<>> THEN <<0>> ELSE args) = Numbers(Rest)

LEMMA Extended ==
    ASSUME NEW q \in Seq(Nat), NEW c \in Nat
    PROVE  /\ Append(q, c) \in Seq(Nat) /\ Len(q) \in Nat /\ Len(Append(q, c)) = Len(q) + 1
           /\ \A i \in 1 .. Len(q) : Append(q, c)[i] = q[i]
           /\ Append(q, c)[Len(Append(q, c))] = c
           /\ SubSeq(q, 3, Len(q)) \in Seq(Nat)
           /\ Len(q) >= 2 =>
                /\ SubSeq(Append(q, c), 3, Len(Append(q, c))) = Append(SubSeq(q, 3, Len(q)), c)
                /\ SubSeq(Append(q, c), 3, Len(Append(q, c)) - 1) = SubSeq(q, 3, Len(q))
                /\ Len(q) = 2 <=> SubSeq(q, 3, Len(q)) = <<>>
                /\ Len(q) > 2 => SubSeq(q, 3, Len(q))[Len(SubSeq(q, 3, Len(q)))] = q[Len(q)]
           /\ Len(q) = 1 => SubSeq(Append(q, c), 3, Len(Append(q, c))) = <<>>
<1> DEFINE d == Append(q, c)
           n == Len(q)
           r == SubSeq(q, 3, n)
           e == SubSeq(d, 3, n + 1)
           f == SubSeq(d, 3, n)
<1>1. /\ d \in Seq(Nat) /\ n \in Nat /\ Len(d) = n + 1 /\ d[n + 1] = c
      /\ \A i \in 1 .. n : d[i] = q[i] /\ q[i] \in Nat
  BY AppendOf
<1> HIDE DEF d, n
<1>2. r \in Seq(Nat) /\ Len(r) = (IF 3 <= n THEN n - 3 + 1 ELSE 0)
      /\ \A i \in 1 .. n - 3 + 1 : r[i] = q[3 + i - 1]
  <2>1. \A i \in 3 .. n : q[i] \in Nat
    BY <1>1
  <2> QED BY <1>1, <2>1, SubSeqProperties
<1>3. e \in Seq(Nat) /\ Len(e) = (IF 3 <= n + 1 THEN n + 1 - 3 + 1 ELSE 0)
      /\ \A i \in 1 .. n + 1 - 3 + 1 : e[i] = d[3 + i - 1]
  <2>1. \A i \in 3 .. n + 1 : d[i] \in Nat
    BY <1>1, ElementOfSeq
  <2> QED BY <1>1, <2>1, SubSeqProperties
<1>4. f \in Seq(Nat) /\ Len(f) = (IF 3 <= n THEN n - 3 + 1 ELSE 0)
      /\ \A i \in 1 .. n - 3 + 1 : f[i] = d[3 + i - 1]
  <2>1. \A i \in 3 .. n : d[i] \in Nat
    BY <1>1
  <2> QED BY <1>1, <2>1, SubSeqProperties
<1> HIDE DEF r, e, f
<1>5. /\ Append(r, c) \in Seq(Nat) /\ Len(Append(r, c)) = Len(r) + 1
      /\ \A i \in 1 .. Len(r) : Append(r, c)[i] = r[i]
      /\ Append(r, c)[Len(r) + 1] = c
  BY <1>2, AppendProperties
<1>6. ASSUME n >= 2 PROVE e = Append(r, c) /\ f = r /\ (n = 2 <=> r = <<>>)
                          /\ (n > 2 => r[Len(r)] = q[n])
  <2>1. Len(r) = n - 2 /\ Len(e) = n - 1 /\ Len(f) = n - 2
    BY <1>1, <1>2, <1>3, <1>4, <1>6
  <2>2. \A i \in 1 .. n - 2 : /\ i + 2 \in 1 .. n /\ r[i] = q[i + 2] /\ f[i] = d[i + 2]
                              /\ e[i] = d[i + 2] /\ d[i + 2] = q[i + 2]
    <3> SUFFICES ASSUME NEW i \in 1 .. n - 2
                 PROVE  /\ i + 2 \in 1 .. n /\ r[i] = q[i + 2] /\ f[i] = d[i + 2]
                        /\ e[i] = d[i + 2] /\ d[i + 2] = q[i + 2]
      OBVIOUS
    <3>1. i + 2 \in 1 .. n /\ 3 + i - 1 = i + 2 /\ i \in 1 .. n - 3 + 1 /\ i \in 1 .. n + 1 - 3 + 1
      BY <1>1, <1>6
    <3> QED BY <1>1, <1>2, <1>3, <1>4, <3>1
  <2>3. e[n - 1] = c
    <3>1. n - 1 \in 1 .. n + 1 - 3 + 1 /\ 3 + (n - 1) - 1 = n + 1
      BY <1>1, <1>6
    <3> QED BY <1>1, <1>3, <3>1
  <2>4. \A i \in 1 .. n - 1 : e[i] = Append(r, c)[i]
    <3>1. \A i \in 1 .. n - 1 : i = n - 1 \/ i \in 1 .. n - 2
      BY <1>1
    <3>2. n - 1 = Len(r) + 1
      BY <1>1, <2>1
    <3> QED BY <1>5, <2>1, <2>2, <2>3, <3>1, <3>2
  <2>5. e = Append(r, c)
    <3>1. Len(e) = Len(Append(r, c))
      BY <1>1, <1>5, <2>1
    <3> QED BY <1>3, <1>5, <2>1, <2>4, <3>1, SeqEqual
  <2>6. f = r
    <3>1. Len(f) = Len(r) /\ \A i \in 1 .. Len(f) : f[i] = r[i]
      BY <2>1, <2>2
    <3> QED BY <1>2, <1>4, <3>1, SeqEqual
  <2>7. n = 2 <=> r = <<>>
    BY <1>1, <1>2, <2>1, EmptySeq
  <2>8. n > 2 => r[Len(r)] = q[n]
    <3>1. n > 2 => n - 2 \in 1 .. n - 2 /\ (n - 2) + 2 = n
      BY <1>1
    <3> QED BY <2>1, <2>2, <3>1
  <2> QED BY <2>5, <2>6, <2>7, <2>8
<1>7. n = 1 => e = <<>>
  BY <1>1, <1>3, EmptySeq
<1>8. (n + 1) - 1 = n /\ Len(d) - 1 = n
  BY <1>1
<1> QED BY <1>1, <1>2, <1>6, <1>7, <1>8 DEF d, n, r, e, f

(* Only a sequence that has ended, or none, is text outside sequences. *)
LEMMA OpenText ==
    ASSUME OnText, s # "ground"
    PROVE  /\ text # <<>> /\ ~Ended /\ Len(text) \in Nat /\ Len(text) >= 1
           /\ Is("osc") <=> s = "osc_string"
<1>1. text \in Seq(Nat) /\ Len(text) \in Nat
  BY LenProperties DEF OnText
<1>2. s \in {"escape", "escape_intermediate", "osc_string", "csi_ignore"} \cup Shaped
  BY DEF OnText, States, Shaped
<1>3. Len(text) >= 1
  BY <1>1, <1>2 DEF OnText, Shaped
<1>4. text # <<>>
  BY <1>1, <1>3, EmptySeq
<1>5. CASE s = "escape"
  <2>1. Len(text) = 1
    BY <1>5 DEF OnText
  <2>2. \A k : ~Is(k)
    BY <2>1 DEF Is
  <2> QED BY <1>1, <1>3, <1>4, <1>5, <2>2 DEF Ended
<1>6. CASE s = "escape_intermediate"
  <2>1. Len(text) >= 2 /\ text[2] \notin {91} \cup OscOpeners /\ text[Len(text)] \in 32 .. 47
    BY <1>6, SMTT(30) DEF OnText, Intermediate
  <2>2. Kind = "escape"
    BY <2>1 DEF Kind
  <2>3. ~(text[Len(text)] \in 48 .. 126)
    <3> DEFINE x == text[Len(text)]
    <3>1. x \in 32 .. 47
      BY <2>1
    <3> HIDE DEF x
    <3>2. ~(x \in 48 .. 126)
      BY <3>1
    <3> QED BY <3>2 DEF x
  <2> QED BY <1>1, <1>3, <1>4, <1>6, <2>2, <2>3 DEF Ended, Is, Last
<1>7. CASE s = "osc_string"
  <2>1. Len(text) >= 2 /\ text[2] \in OscOpeners /\ text[2] # 91 /\ text[Len(text)] # BEL
    BY <1>7 DEF OnText, OscOpeners
  <2> QED BY <1>1, <1>3, <1>4, <1>7, <2>1 DEF Ended, Is, Kind, Last
<1>8. CASE s \in Shaped \cup {"csi_ignore"}
  <2>1. Len(text) >= 2 /\ text[2] = 91 /\ (Len(text) = 2 \/ text[Len(text)] \in 32 .. 63)
    BY <1>8 DEF OnText
  <2>2. 91 \notin OscOpeners /\ s # "osc_string"
    BY <1>8 DEF OscOpeners, Shaped
  <2>3. ~(Len(text) > 2 /\ text[Len(text)] \in 64 .. 126)
    <3>1. text[Len(text)] \in 32 .. 63 => text[Len(text)] \notin 64 .. 126
      <4> DEFINE x == text[Len(text)]
      <4> HIDE DEF x
      <4>1. x \in 32 .. 63 => x \notin 64 .. 126
        OBVIOUS
      <4> QED BY <4>1 DEF x
    <3>2. Len(text) = 2 => ~(Len(text) > 2)
      OBVIOUS
    <3> QED BY <2>1, <3>1, <3>2
  <2> QED BY <1>3, <1>4, <1>1, <2>1, <2>2, <2>3 DEF Ended, Is, Kind, Last
<1> QED BY <1>1, <1>2, <1>3, <1>5, <1>6, <1>7, <1>8

LEMMA OpenAfter == (OnText /\ s # "ground" => ~Ended)'
<1>1. OnText /\ s # "ground" => ~Ended
  BY OpenText
<1> QED BY <1>1, PTL

LEMMA Outside == OnText => GroundOutside
BY OpenText DEF OnText, GroundOutside

(* What one character adds to the text. *)
LEMMA NoText ==
    ASSUME OnText, NEW c, c # ESC, c \in {24, 26} \/ s = "ground"
    PROVE  TextAfter(c) = <<>>
BY DEF TextAfter, OnText

LEMMA SameText ==
    ASSUME OnText, NEW c, c \notin {ESC, 24, 26}, s # "ground", Foreign(c)
    PROVE  TextAfter(c) = text
BY OpenText DEF TextAfter

LEMMA MoreText ==
    ASSUME OnText, NEW c \in Nat, c \notin {ESC, 24, 26}, s # "ground", ~Foreign(c)
    PROVE  /\ TextAfter(c) = Append(text, c) /\ Len(text) \in Nat /\ Len(text) >= 1
           /\ text \in Seq(Nat)
BY OpenText DEF TextAfter, OnText

LEMMA Familiar ==
    ASSUME NEW c \in 32 .. 126, ~(c = 88 /\ Len(text) = 1)
    PROVE  c \in Nat /\ c \notin {ESC, 24, 26} /\ ~Foreign(c)
BY DEF Foreign, C0, BEL, ESC

(* A step that calls no handler of a sequence, and leaves one open or none. *)
LEMMA Quiet ==
    ASSUME OnText', call'.cb \notin {"csi", "escape", "osc"}, s' # "ground" \/ text' = <<>>
    PROVE  CallFitsText'
<1>1. ~Ended'
  <2>1. CASE s' # "ground"
    BY <2>1, OpenAfter
  <2>2. CASE text' = <<>>
    <3>1. Len(text') = 0
      BY <2>2, EmptySeq
    <3> QED BY <3>1 DEF Ended, Is
  <2> QED BY <2>1, <2>2
<1> QED BY <1>1 DEF CallFitsText

LEMMA Unmoved ==
    ASSUME OnText, UNCHANGED <<s, inter, args, oscbuf, overrun, text>>
    PROVE  OnText'
<1>1. Rest' = Rest /\ (Ended <=> Ended')
  BY DEF Rest, Ended, Is, Kind
<1> QED BY <1>1 DEF OnText

LEMMA ControlFits ==
    ASSUME OnText, NEW c \in Char, docontrol(c), text' = TextAfter(c)
    PROVE  OnText' /\ CallFitsText'
<1>1. c # ESC /\ call'.cb = "control"
  BY SMTT(30) DEF docontrol, C0, BEL, ESC, Call
<1>2. CASE c \in {24, 26} \/ s = "ground"
  <2>1. text' = <<>> /\ s' = "ground"
    BY <1>1, <1>2, NoText DEF docontrol
  <2>2. OnText'
    BY <2>1, EmptySeq DEF OnText, States, Shaped
  <2> QED BY <1>1, <2>1, <2>2, Quiet
<1>3. CASE ~(c \in {24, 26} \/ s = "ground")
  <2>1. Foreign(c)
    BY <1>3, OpenText DEF docontrol, Foreign
  <2>2. text' = text /\ s' = s /\ UNCHANGED <<inter, args, oscbuf, overrun>>
    BY <1>1, <1>3, <2>1, SameText DEF docontrol, Keep
  <2>3. OnText'
    BY <2>2, Unmoved
  <2> QED BY <1>1, <1>3, <2>2, <2>3, Quiet
<1> QED BY <1>2, <1>3

LEMMA IgnoreFits ==
    ASSUME OnText, NEW c \in Char, ignore(c), text' = TextAfter(c)
    PROVE  OnText' /\ CallFitsText'
<1>1. /\ c \in Nat /\ c \notin {ESC, 24, 26} /\ call'.cb = "none" /\ s' = s
      /\ UNCHANGED <<inter, args, oscbuf, overrun>>
  BY DEF ignore, ESC, NoCall, Keep, Char, BAD, WIDE
<1>2. CASE s = "ground"
  <2>1. text' = <<>>
    BY <1>1, <1>2, NoText
  <2>2. OnText'
    BY <1>1, <1>2, <2>1, EmptySeq DEF OnText, States, Shaped
  <2> QED BY <1>1, <2>1, <2>2, Quiet
<1>3. CASE s # "ground" /\ Foreign(c)
  <2>1. text' = text
    BY <1>1, <1>3, SameText
  <2>2. OnText'
    BY <1>1, <2>1, Unmoved
  <2> QED BY <1>1, <1>3, <2>2, Quiet
<1>4. CASE s = "csi_ignore" /\ c \in 32 .. 63
  <2>0. Len(text) >= 2 /\ ~(c = 88 /\ Len(text) = 1)
    BY <1>4 DEF OnText
  <2>1. text' = Append(text, c) /\ text \in Seq(Nat)
    <3>1. c \notin {ESC, 24, 26} /\ ~Foreign(c)
      <4>1. c \in 32 .. 126
        BY <1>4
      <4> QED BY <2>0, <4>1, Familiar
    <3> QED BY <1>1, <1>4, <3>1, MoreText
  <2>2. /\ text' \in Seq(Nat) /\ Len(text') = Len(text) + 1 /\ text'[2] = text[2]
        /\ text'[Len(text')] = c /\ Rest \in Seq(Nat) /\ Rest' = Append(Rest, c)
        /\ Len(text) \in Nat
    <3>1. /\ Append(text, c) \in Seq(Nat) /\ Len(text) \in Nat
          /\ Len(Append(text, c)) = Len(text) + 1
          /\ \A i \in 1 .. Len(text) : Append(text, c)[i] = text[i]
          /\ Append(text, c)[Len(Append(text, c))] = c
          /\ SubSeq(text, 3, Len(text)) \in Seq(Nat)
          /\ SubSeq(Append(text, c), 3, Len(Append(text, c)))
                = Append(SubSeq(text, 3, Len(text)), c)
      BY <1>1, <2>0, <2>1, Extended
    <3>2. 2 \in 1 .. Len(text)
      BY <2>0, <3>1
    <3> QED BY <2>1, <3>1, <3>2, SMTT(30) DEF Rest
  <2>3. ~WellFormed(Rest')
    BY <1>1, <1>4, <2>2, ShapeAppend DEF OnText
  <2>4. OnText'
    BY <1>1, <1>4, <2>0, <2>2, <2>3 DEF OnText, Shaped
  <2> QED BY <1>1, <1>4, <2>4, Quiet
<1>5. CASE s # "ground" /\ ~Foreign(c) /\ ~(s = "csi_ignore" /\ c \in 32 .. 63)
  BY <1>5 DEF ignore, Foreign, OnText
<1> QED BY <1>2, <1>3, <1>4, <1>5

(* A character that belongs to the sequence is added to its text. *)
LEMMA Grown ==
    ASSUME OnText, NEW c \in Nat, c \notin {ESC, 24, 26}, s # "ground", ~Foreign(c),
           text' = TextAfter(c)
    PROVE  /\ text' \in Seq(Nat) /\ Len(text) \in Nat /\ Len(text) >= 1
           /\ Len(text') = Len(text) + 1 /\ text'[Len(text')] = c /\ Rest \in Seq(Nat)
           /\ Len(text) >= 2 => text'[2] = text[2] /\ Rest' = Append(Rest, c) /\ Body' = Rest
           /\ Len(text) = 1 => text'[2] = c /\ Rest' = <<>>
           /\ Len(text) = 2 => Rest = <<>>
<1>1. text' = Append(text, c) /\ Len(text) \in Nat /\ Len(text) >= 1 /\ text \in Seq(Nat)
  BY MoreText
<1>2. /\ Append(text, c) \in Seq(Nat)
      /\ Len(Append(text, c)) = Len(text) + 1
      /\ \A i \in 1 .. Len(text) : Append(text, c)[i] = text[i]
      /\ Append(text, c)[Len(Append(text, c))] = c
      /\ SubSeq(text, 3, Len(text)) \in Seq(Nat)
      /\ Len(text) >= 2 =>
            /\ SubSeq(Append(text, c), 3, Len(Append(text, c)))
                  = Append(SubSeq(text, 3, Len(text)), c)
            /\ SubSeq(Append(text, c), 3, Len(Append(text, c)) - 1) = SubSeq(text, 3, Len(text))
            /\ Len(text) = 2 <=> SubSeq(text, 3, Len(text)) = <<>>
      /\ Len(text) = 1 => SubSeq(Append(text, c), 3, Len(Append(text, c))) = <<>>
  BY <1>1, Extended, ZenonT(30)
<1>3. Len(text) >= 2 => 2 \in 1 .. Len(text)
  BY <1>1
<1>4. Len(text) = 1 => Len(text') = 2
  BY <1>1, <1>2
<1>5. /\ Len(text) >= 2 => text'[2] = text[2]
      /\ Len(text) = 1 => text'[2] = c
  BY <1>1, <1>2, <1>3, <1>4
<1>6. /\ Len(text) >= 2 => Rest' = Append(Rest, c) /\ Body' = Rest
      /\ Len(text) = 1 => Rest' = <<>>
      /\ Len(text) = 2 => Rest = <<>>
      /\ Rest \in Seq(Nat)
  <2>1. /\ Rest' = SubSeq(Append(text, c), 3, Len(Append(text, c)))
        /\ Body' = SubSeq(Append(text, c), 3, Len(Append(text, c)) - 1)
        /\ Rest = SubSeq(text, 3, Len(text))
    BY <1>1 DEF Rest, Body
  <2>2. Len(text) = 2 => Len(text) >= 2
    OBVIOUS
  <2>3. Len(text) >= 2 => Rest' = Append(Rest, c) /\ Body' = Rest
    BY <1>2, <2>1
  <2>4. Len(text) = 2 => Rest = <<>>
    BY <1>2, <2>1, <2>2
  <2>5. (Len(text) = 1 => Rest' = <<>>) /\ Rest \in Seq(Nat)
    BY <1>2, <2>1
  <2> QED BY <2>3, <2>4, <2>5
<1>7. text' \in Seq(Nat) /\ Len(text') = Len(text) + 1 /\ text'[Len(text')] = c
  BY <1>1, <1>2
<1> QED BY <1>1, <1>5, <1>6, <1>7

LEMMA CutAppend ==
    ASSUME NEW r \in Seq(Nat), NEW c \in Nat
    PROVE  Cut(Append(r, c)) = AddOsc(Cut(r), c)
<1> DEFINE n == Len(r)
           d == Append(r, c)
<1>1. /\ n \in Nat /\ d \in Seq(Nat) /\ Len(d) = n + 1 /\ MAXOSC \in Nat
      /\ \A i \in 1 .. n : d[i] = r[i] /\ r[i] \in Nat
  BY AppendOf, ParserAssumption
<1>2. CASE n < MAXOSC
  <2>1. Cut(r) = SubSeq(r, 1, n) /\ Cut(d) = SubSeq(d, 1, Len(d))
    <3> HIDE DEF d
    <3> QED BY <1>1, <1>2 DEF Cut
  <2>2. Cut(r) = r /\ Cut(d) = d
    BY <1>1, <2>1, SubSeqFull
  <2> QED BY <1>2, <2>2 DEF AddOsc
<1>3. CASE ~(n < MAXOSC)
  <2>1. Cut(r) = SubSeq(r, 1, MAXOSC) /\ Cut(d) = SubSeq(d, 1, MAXOSC)
    <3> HIDE DEF d
    <3> QED BY <1>1, <1>3 DEF Cut
  <2> HIDE DEF d
  <2>2. \A i \in 1 .. MAXOSC : i \in 1 .. n /\ d[i] \in Nat /\ r[i] \in Nat /\ d[i] = r[i]
    BY <1>1, <1>3
  <2>3. /\ SubSeq(r, 1, MAXOSC) \in Seq(Nat)
        /\ Len(SubSeq(r, 1, MAXOSC)) = IF 1 <= MAXOSC THEN MAXOSC - 1 + 1 ELSE 0
        /\ \A i \in 1 .. MAXOSC - 1 + 1 : SubSeq(r, 1, MAXOSC)[i] = r[1 + i - 1]
    BY <1>1, <2>2, SubSeqProperties
  <2>4. /\ SubSeq(d, 1, MAXOSC) \in Seq(Nat)
        /\ Len(SubSeq(d, 1, MAXOSC)) = IF 1 <= MAXOSC THEN MAXOSC - 1 + 1 ELSE 0
        /\ \A i \in 1 .. MAXOSC - 1 + 1 : SubSeq(d, 1, MAXOSC)[i] = d[1 + i - 1]
    BY <1>1, <2>2, SubSeqProperties
  <2>5. Len(Cut(r)) = MAXOSC /\ Len(Cut(d)) = MAXOSC /\ Cut(r) \in Seq(Nat) /\ Cut(d) \in Seq(Nat)
    BY <1>1, <2>1, <2>3, <2>4
  <2>6. \A i \in 1 .. MAXOSC : Cut(r)[i] = Cut(d)[i]
    <3>1. \A i \in 1 .. MAXOSC : i \in 1 .. MAXOSC - 1 + 1 /\ 1 + i - 1 = i
      BY <1>1
    <3> QED BY <2>1, <2>2, <2>3, <2>4, <3>1
  <2>7. Cut(d) = Cut(r)
    BY <2>5, <2>6, SeqEqual
  <2>8. AddOsc(Cut(r), c) = Cut(r)
    BY <1>1, <2>5 DEF AddOsc
  <2> QED BY <2>7, <2>8 DEF d
<1> QED BY <1>2, <1>3

LEMMA StartFits ==
    ASSUME OnText, NEW c \in Char, StartEscape(c) \/ StartCsi(c) \/ StartOsc(c),
           text' = TextAfter(c)
    PROVE  OnText' /\ CallFitsText'
<1>1. c \in Nat /\ call'.cb = "none" /\ inter' = 0 /\ args' = <<>> /\ oscbuf' = <<>>
  BY DEF StartEscape, StartCsi, StartOsc, reset, NoCall, Char, BAD, WIDE
<1>2. CASE StartEscape(c)
  <2>1. text' = <<ESC>> /\ s' = "escape"
    BY <1>2 DEF StartEscape, TextAfter
  <2>2. OnText'
    <3>1. text' \in Seq(Nat) /\ Len(text') = 1
      BY <2>1 DEF ESC
    <3> QED BY <1>1, <2>1, <3>1 DEF OnText, States, Shaped
  <2> QED BY <1>1, <2>1, <2>2, Quiet
<1>3. CASE StartCsi(c) \/ StartOsc(c)
  <2>1. s = "escape" /\ Len(text) = 1 /\ c \in {91} \cup OscOpeners
    BY <1>3 DEF StartCsi, StartOsc, OnText
  <2>2. c \in 32 .. 126 /\ c # 88
    BY <2>1 DEF OscOpeners
  <2>3. c \notin {ESC, 24, 26} /\ ~Foreign(c)
    BY <2>2, Familiar
  <2>4. /\ text' \in Seq(Nat) /\ Len(text') = Len(text) + 1 /\ text'[Len(text')] = c
        /\ text'[2] = c /\ Rest' = <<>>
    BY <1>1, <2>1, <2>3, Grown
  <2>5. CASE StartCsi(c)
    <3>1. s' = "csi_entry" /\ c = 91
      BY <2>5 DEF StartCsi
    <3>2. Len(<<>>) = 0 /\ 1 .. 0 = {}
      BY EmptySeq
    <3>3. Marked(<<>>, 0) /\ \A j \in 1 .. Len(<<>>) : FALSE
      BY <3>2 DEF Marked
    <3>4. OnText'
      BY <1>1, <2>1, <2>4, <3>1, <3>3, NumbersEmpty DEF OnText, States, Shaped
    <3> QED BY <1>1, <3>1, <3>4, Quiet
  <2>6. CASE StartOsc(c)
    <3>1. s' = "osc_string" /\ c \in OscOpeners /\ c # BEL
      BY <2>2, <2>6 DEF StartOsc, BEL
    <3>2. SubSeq(<<>>, 1, IF Len(<<>>) < MAXOSC THEN Len(<<>>) ELSE MAXOSC) = <<>>
      <4>1. Len(<<>>) = 0 /\ (IF 0 < MAXOSC THEN 0 ELSE MAXOSC) = 0
        BY EmptySeq, ParserAssumption
      <4> QED BY <4>1, SubSeqEmpty
    <3>3. oscbuf' = Cut(Rest')
      BY <1>1, <2>4, <3>2 DEF Cut
    <3>4. Len(text') >= 2 /\ text'[2] \in OscOpeners /\ text'[Len(text')] # BEL
      BY <2>1, <2>4, <3>1
    <3>5. OnText'
      BY <2>4, <3>1, <3>3, <3>4 DEF OnText, States, Shaped
    <3> QED BY <1>1, <3>1, <3>5, Quiet
  <2> QED BY <1>3, <2>5, <2>6
<1> QED BY <1>2, <1>3

LEMMA PrintFits ==
    ASSUME OnText, NEW c \in Char, doprint(c), text' = TextAfter(c)
    PROVE  OnText' /\ CallFitsText'
<1>1. s = "ground" /\ s' = "ground" /\ c # ESC /\ call'.cb = "print"
  BY DEF doprint, ESC, Call
<1>2. text' = <<>>
  BY <1>1, NoText
<1>3. OnText'
  BY <1>1, <1>2, EmptySeq DEF OnText, States, Shaped
<1> QED BY <1>1, <1>2, <1>3, Quiet

LEMMA OscFits ==
    ASSUME OnText, NEW c \in Char, collectosc(c) \/ doosc(c), text' = TextAfter(c)
    PROVE  OnText' /\ CallFitsText'
<1>1. /\ c \in Nat /\ s = "osc_string" /\ Is("osc") /\ Len(text) >= 2
      /\ text[2] \in OscOpeners /\ c \in 32 .. 126 \cup {BEL}
      /\ oscbuf = Cut(Rest)
  BY OpenText DEF collectosc, doosc, OnText, Char, BAD, WIDE
<1>2. c \notin {ESC, 24, 26} /\ ~Foreign(c)
  BY <1>1 DEF Foreign, C0, BEL, ESC
<1>3. /\ text' \in Seq(Nat) /\ Len(text') = Len(text) + 1 /\ text'[Len(text')] = c
      /\ text'[2] = text[2] /\ Rest' = Append(Rest, c) /\ Body' = Rest /\ Rest \in Seq(Nat)
      /\ Len(text) \in Nat
  BY <1>1, <1>2, Grown
<1>4. CASE collectosc(c)
  <2>1. s' = s /\ oscbuf' = AddOsc(oscbuf, c) /\ call'.cb = "none" /\ c # BEL
    BY <1>4 DEF collectosc, NoCall, BEL
  <2>2. oscbuf' = Cut(Rest')
    BY <1>1, <1>3, <2>1, CutAppend
  <2>3. OnText'
    BY <1>1, <1>3, <2>1, <2>2 DEF OnText, States, Shaped
  <2> QED BY <1>1, <2>1, <2>3, Quiet
<1>5. CASE doosc(c)
  <2>1. s' = "ground" /\ c = BEL /\ call' = Call("osc", c, oscbuf)
    BY <1>5 DEF doosc
  <2>2. Len(text') >= 2 /\ Kind' = "osc" /\ Last(text') = c
    <3>1. text'[2] # 91
      BY <1>1, <1>3 DEF OscOpeners
    <3>2. Kind' = "osc"
      BY <1>1, <1>3, <3>1 DEF Kind
    <3> QED BY <1>1, <1>3, <3>2 DEF Last
  <2>3. (\A k : Is(k)' <=> k = "osc") /\ Ended'
    BY <2>1, <2>2 DEF Is, Ended
  <2>4. OnText'
    BY <1>3, <2>1, <2>3 DEF OnText, States, Shaped
  <2>5. call'.cb = "osc" /\ call'.w = c /\ call'.argv = oscbuf
    BY <2>1 DEF Call
  <2>6. oscbuf = SubSeq(Body', 1, IF Len(Body') < MAXOSC THEN Len(Body') ELSE MAXOSC)
    BY <1>1, <1>3 DEF Cut
  <2>7. ~Is("csi")' /\ ~Is("escape")' /\ Is("osc")'
    BY <2>3
  <2>8. CallFitsText'
    BY <2>2, <2>3, <2>5, <2>6, <2>7 DEF CallFitsText
  <2> QED BY <2>4, <2>8
<1> QED BY <1>4, <1>5

LEMMA EscapeFits ==
    ASSUME OnText, NEW c \in Char, doescape(c), text' = TextAfter(c)
    PROVE  OnText' /\ CallFitsText'
<1>1. /\ s \in {"escape", "escape_intermediate"} /\ c \in 48 .. 126 /\ c \in Nat
      /\ s = "escape" => c \in EscFinal
      /\ s' = "ground" /\ call' = Call("escape", c, IF inter > 0 THEN <<inter>> ELSE <<>>)
  <2>1. s \in {"escape", "escape_intermediate"} /\ (s = "escape" => c \in EscFinal)
    BY DEF doescape
  <2>2. c \in 48 .. 126
    BY DEF doescape, EscFinal
  <2>3. c \in Nat
    BY <2>2
  <2> QED BY <2>1, <2>2, <2>3 DEF doescape
<1>2. /\ s = "escape" => Len(text) = 1 /\ inter = 0 /\ c \notin {88, 91} \cup OscOpeners
      /\ s = "escape_intermediate" =>
            Len(text) >= 2 /\ text[2] \notin {91} \cup OscOpeners /\ inter = text[2]
  <2>1. 91 \notin Intermediate
    BY DEF Intermediate
  <2> QED BY <1>1, <2>1 DEF OnText, EscFinal
<1>3. c \notin {ESC, 24, 26} /\ ~Foreign(c)
  <2>1. c \in 32 .. 126 /\ ~(c = 88 /\ Len(text) = 1)
    BY <1>1, <1>2
  <2> QED BY <2>1, Familiar
<1>4. /\ text' \in Seq(Nat) /\ Len(text) \in Nat /\ Len(text) >= 1
      /\ Len(text') = Len(text) + 1 /\ text'[Len(text')] = c
      /\ Len(text) >= 2 => text'[2] = text[2]
      /\ Len(text) = 1 => text'[2] = c
  BY <1>1, <1>3, Grown
<1>5. text'[2] \notin {91} \cup OscOpeners
  BY <1>1, <1>2, <1>4
<1>6. Kind' = "escape" /\ Len(text') >= 2
  BY <1>4, <1>5 DEF Kind
<1>7. (\A k : Is(k)' <=> k = "escape") /\ Ended' /\ Last(text') = c
  <2>1. \A k : Is(k)' <=> k = "escape"
    BY <1>6 DEF Is
  <2>2. Last(text') = c
    BY <1>4 DEF Last
  <2> QED BY <1>1, <2>1, <2>2 DEF Ended
<1>8. OnText'
  BY <1>1, <1>4, <1>7 DEF OnText, States, Shaped
<1>9. FirstOf(SubSeq(text', 2, Len(text') - 1)) = inter
  <2>1. Len(text') - 1 = Len(text)
    BY <1>4
  <2>2. CASE s = "escape"
    <3>1. SubSeq(text', 2, 1) = <<>>
      BY SubSeqEmpty
    <3> QED BY <1>2, <2>1, <2>2, <3>1 DEF FirstOf
  <2>3. CASE s = "escape_intermediate"
    <3>1. 2 \in 1 .. Len(text') /\ Len(text) \in 2 .. Len(text')
      BY <1>2, <1>4, <2>3
    <3>2. Head(SubSeq(text', 2, Len(text))) = text'[2]
      BY <1>4, <3>1, HeadTailOfSubSeq
    <3>3. SubSeq(text', 2, Len(text)) # <<>>
      <4>1. \A i \in 2 .. Len(text) : text'[i] \in Nat
        BY <1>4, ElementOfSeq
      <4>2. SubSeq(text', 2, Len(text))[1] = text'[2 + 1 - 1]
            /\ SubSeq(text', 2, Len(text)) \in Seq(Nat)
            /\ Len(SubSeq(text', 2, Len(text))) = Len(text) - 2 + 1
        BY <1>2, <1>4, <2>3, <4>1, SubSeqProperties
      <4>3. Len(text) - 2 + 1 # 0
        BY <1>2, <1>4, <2>3
      <4> QED BY <4>2, <4>3, EmptySeq
    <3> QED BY <1>2, <1>4, <2>1, <2>3, <3>2, <3>3 DEF FirstOf
  <2> QED BY <1>1, <2>2, <2>3
<1>10. call'.cb = "escape" /\ call'.w = c /\ call'.inter = inter
  BY <1>1 DEF Call
<1>11. ~Is("csi")' /\ Is("escape")' /\ ~Is("osc")'
  BY <1>7
<1>12. CallFitsText'
  BY <1>7, <1>9, <1>10, <1>11 DEF CallFitsText
<1> QED BY <1>8, <1>12

(* The character after the introducer of a control sequence. *)
LEMMA CsiGrown ==
    ASSUME OnText, NEW c \in 32 .. 126, s \in Shaped \cup {"csi_ignore"}, text' = TextAfter(c)
    PROVE  /\ text' \in Seq(Nat) /\ Len(text') > 2 /\ text'[Len(text')] = c
           /\ text'[2] = 91 /\ Rest \in Seq(Nat) /\ Rest' = Append(Rest, c) /\ Body' = Rest
           /\ Rest' # <<>> /\ Rest'[Len(Rest')] = c /\ Kind' = "csi"
<1>1. Len(text) >= 2 /\ text[2] = 91 /\ s # "ground" /\ c \in Nat
  BY DEF OnText, Shaped
<1>2. c \notin {ESC, 24, 26} /\ ~Foreign(c)
  <2>1. ~(c = 88 /\ Len(text) = 1)
    BY <1>1
  <2> QED BY <2>1, Familiar
<1>3. /\ text' \in Seq(Nat) /\ Len(text) \in Nat
      /\ Len(text') = Len(text) + 1 /\ text'[Len(text')] = c /\ Rest \in Seq(Nat)
      /\ text'[2] = text[2] /\ Rest' = Append(Rest, c) /\ Body' = Rest
  BY <1>1, <1>2, Grown
<1>4. Rest' # <<>> /\ Rest'[Len(Rest')] = c
  <2>1. Len(Rest') = Len(Rest) + 1 /\ Rest'[Len(Rest) + 1] = c /\ Len(Rest) \in Nat
        /\ Rest' \in Seq(Nat)
    BY <1>1, <1>3, AppendOf
  <2> QED BY <2>1, EmptySeq
<1>5. Kind' = "csi"
  BY <1>1, <1>3 DEF Kind
<1>6. Len(text') > 2
  BY <1>1, <1>3
<1> QED BY <1>1, <1>3, <1>4, <1>5, <1>6

LEMMA WellShaped ==
    ASSUME OnText, s \in Shaped, Rest \in Seq(Nat)
    PROVE  WellFormed(Rest)
<1>1. s = "csi_entry" => Shape(Rest, Len(Rest))
  <2>1. s = "csi_entry" => Rest = <<>> /\ Len(Rest) = 0
    BY EmptySeq DEF OnText
  <2>2. 1 .. 0 = {} /\ 0 + 1 .. 0 = {}
    OBVIOUS
  <2> QED BY <2>1, <2>2 DEF Shape
<1>2. s = "csi_param" => Shape(Rest, Len(Rest))
  BY DEF OnText
<1>3. s = "csi_intermediate" => WellFormed(Rest)
  BY DEF OnText
<1>4. Shape(Rest, Len(Rest)) => WellFormed(Rest)
  <2>1. 0 \in Nat
    OBVIOUS
  <2> QED BY <2>1, ShapeAppend
<1> QED BY <1>1, <1>2, <1>3, <1>4 DEF Shaped

LEMMA CsiFits ==
    ASSUME OnText, NEW c \in Char, docsi(c) \/ EndMalformed(c), text' = TextAfter(c)
    PROVE  OnText' /\ CallFitsText'
<1>1. /\ s \in Shaped \cup {"csi_ignore"} /\ c \in 64 .. 126 /\ c \in 32 .. 126
      /\ s' = "ground" /\ (docsi(c) <=> s \in Shaped)
  BY DEF docsi, EndMalformed, Shaped
<1>2. /\ text' \in Seq(Nat) /\ Len(text') > 2 /\ text'[Len(text')] = c
      /\ Rest \in Seq(Nat) /\ Body' = Rest /\ Kind' = "csi"
  BY <1>1, CsiGrown
<1>3. (\A k : Is(k)' <=> k = "csi") /\ Ended' /\ Last(text') = c
  <2>1. \A k : Is(k)' <=> k = "csi"
    BY <1>2, LenProperties DEF Is
  <2>2. Last(text') = c
    BY <1>2 DEF Last
  <2> QED BY <1>1, <1>2, <2>1, <2>2 DEF Ended
<1>4. OnText'
  BY <1>1, <1>2, <1>3 DEF OnText, States, Shaped
<1>5. Is("csi")' /\ ~Is("escape")' /\ ~Is("osc")'
  BY <1>3
<1>6. CASE s = "csi_ignore"
  <2>1. ~WellFormed(Body') /\ call'.cb = "none"
    BY <1>1, <1>2, <1>6 DEF OnText, EndMalformed, docsi, Shaped, NoCall
  <2>2. CallFitsText'
    BY <1>5, <2>1 DEF CallFitsText
  <2> QED BY <1>4, <2>2
<1>7. CASE s \in Shaped
  <2>1. call' = Call("csi", c, argv)
    BY <1>1, <1>7 DEF docsi
  <2>2. call'.cb = "csi" /\ call'.w = c /\ call'.inter = inter /\ call'.argv = argv
    BY <2>1 DEF Call
  <2>3. WellFormed(Body')
    BY <1>2, <1>7, WellShaped
  <2>4. Marks(Body') = inter
    BY <1>2, <1>7, MarksOf DEF OnText
  <2>5. Arguments(Body') = argv
    <3>1. /\ args = <<>> <=> \A j \in 1 .. Len(Rest) : ~Parameter(Rest[j])
          /\ (IF args = <<>> THEN <<0>> ELSE args) = Numbers(Rest)
      BY <1>7 DEF OnText
    <3>2. CASE args = <<>>
      <4>1. ~(Len(args) > MAXPARAM)
        BY <3>2, EmptySeq, ParserAssumption
      <4> QED BY <1>2, <3>1, <3>2, <4>1 DEF Arguments, argv
    <3>3. CASE args # <<>>
      BY <1>2, <2>4, <3>1, <3>3 DEF Arguments, argv
    <3> QED BY <3>2, <3>3
  <2>6. CallFitsText'
    BY <1>3, <1>5, <2>2, <2>3, <2>4, <2>5 DEF CallFitsText
  <2> QED BY <1>4, <2>6
<1> QED BY <1>1, <1>6, <1>7

LEMMA MalformedFits ==
    ASSUME OnText, NEW c \in Char, Malformed(c), text' = TextAfter(c)
    PROVE  OnText' /\ CallFitsText'
<1>1. s \in Shaped /\ c \in {58} \cup (48 .. 63) /\ s' = "csi_ignore" /\ call'.cb = "none"
  BY DEF Malformed, NoPlace, Shaped, Private, NoCall
<1>2. c \in 32 .. 63 /\ c \in 32 .. 126 /\ c \notin Intermediate /\ c \in Nat
  BY <1>1 DEF Intermediate
<1>3. /\ text' \in Seq(Nat) /\ Len(text') > 2 /\ text'[Len(text')] = c /\ text'[2] = 91
      /\ Rest \in Seq(Nat) /\ Rest' = Append(Rest, c)
  BY <1>1, <1>2, CsiGrown
<1>4. ~WellFormed(Rest')
  <2> SUFFICES ASSUME WellFormed(Append(Rest, c)) PROVE FALSE
    BY <1>3
  <2>1. /\ Parameter(c) \/ (Rest = <<>> /\ c \in Private)
        /\ Rest # <<>> => Rest[Len(Rest)] \notin Intermediate
    BY <1>2, <1>3, ShapeBroken
  <2>2. CASE s = "csi_entry"
    BY <2>1, <2>2 DEF Malformed, NoPlace, Parameter, Private, Digit, Semicolon
  <2>3. CASE s = "csi_param"
    BY <2>1, <2>3 DEF Malformed, NoPlace, Parameter, Private, Digit, Semicolon, OnText
  <2>4. CASE s = "csi_intermediate"
    BY <2>1, <2>4 DEF OnText
  <2> QED BY <1>1, <2>2, <2>3, <2>4 DEF Shaped
<1>5. OnText'
  BY <1>1, <1>2, <1>3, <1>4, LenProperties, SMTT(30) DEF OnText, States, Shaped
<1> QED BY <1>1, <1>5, Quiet

LEMMA CollectFits ==
    ASSUME OnText, NEW c \in Char, collect(c), text' = TextAfter(c)
    PROVE  OnText' /\ CallFitsText'
<1>1. /\ c \in 32 .. 63 /\ c \in 32 .. 126 /\ c \in Nat /\ c # 0 /\ ~Parameter(c)
      /\ call'.cb = "none" /\ inter' = FirstInter(c) /\ s' = AfterCollect(c)
      /\ UNCHANGED <<args, oscbuf, overrun>>
      /\ s \in {"escape", "escape_intermediate"} \cup Shaped
  <2>1. c \in Intermediate \cup Private /\ s \in {"escape", "escape_intermediate"} \cup Shaped
    BY DEF collect, Shaped
  <2>2. c \in 32 .. 47 \/ c \in 60 .. 63
    BY <2>1 DEF Intermediate, Private
  <2>3. c \in 32 .. 63 /\ c \in 32 .. 126 /\ c # 0 /\ c \in Nat
    BY <2>2
  <2>4. ~Parameter(c)
    BY <2>2 DEF Parameter, Digit, Semicolon
  <2> QED BY <2>1, <2>3, <2>4 DEF collect, NoCall
<1>2. CASE s = "escape"
  <2>1. /\ Len(text) = 1 /\ inter' = c /\ c \in Intermediate \ OscOpeners
        /\ s' = "escape_intermediate"
    BY <1>1, <1>2 DEF OnText, FirstInter, AfterCollect, collect, Shaped
  <2>2. c \notin {ESC, 24, 26} /\ ~Foreign(c)
    <3>1. c # 88
      BY <1>1
    <3> QED BY <1>1, <3>1, Familiar
  <2>3. /\ text' \in Seq(Nat) /\ Len(text') = Len(text) + 1 /\ text'[Len(text')] = c
        /\ text'[2] = c
    BY <1>1, <1>2, <2>1, <2>2, Grown
  <2>4. OnText'
    BY <2>1, <2>3 DEF OnText, States, Shaped
  <2> QED BY <1>1, <2>1, <2>4, Quiet
<1>3. CASE s = "escape_intermediate"
  <2>1. /\ Len(text) >= 2 /\ inter = text[2] /\ inter # 0 /\ inter' = inter
        /\ c \in Intermediate /\ s' = "escape_intermediate"
        /\ text[2] \in Intermediate \ OscOpeners
    BY <1>1, <1>3 DEF OnText, FirstInter, AfterCollect, collect, Shaped, Intermediate
  <2>2. c \notin {ESC, 24, 26} /\ ~Foreign(c)
    <3>1. ~(c = 88 /\ Len(text) = 1)
      BY <1>1
    <3> QED BY <1>1, <3>1, Familiar
  <2>3. /\ text' \in Seq(Nat) /\ Len(text') = Len(text) + 1 /\ text'[Len(text')] = c
        /\ text'[2] = text[2] /\ Len(text) \in Nat
    BY <1>1, <1>3, <2>1, <2>2, Grown
  <2>4. OnText'
    BY <2>1, <2>3 DEF OnText, States, Shaped
  <2> QED BY <1>1, <2>1, <2>4, Quiet
<1>4. CASE s \in Shaped
  <2>1. /\ text' \in Seq(Nat) /\ Len(text') > 2 /\ text'[Len(text')] = c /\ text'[2] = 91
        /\ Rest \in Seq(Nat) /\ Rest' = Append(Rest, c)
        /\ Rest' # <<>> /\ Rest'[Len(Rest')] = c /\ Len(text') \in Nat
    BY <1>1, <1>4, CsiGrown, LenProperties
  <2>2. Marked(Rest', inter')
    <3>1. Marked(Rest, inter) /\ inter' = IF inter # 0 THEN inter ELSE c
      BY <1>1, <1>4 DEF OnText, FirstInter
    <3> QED BY <1>1, <2>1, <3>1, MarkedAppend
  <2>3. /\ args' = <<>> <=> \A j \in 1 .. Len(Rest') : ~Parameter(Rest'[j])
        /\ (IF args' = <<>> THEN <<0>> ELSE args') = Numbers(Rest')
    <3>1. /\ args = <<>> <=> \A j \in 1 .. Len(Rest) : ~Parameter(Rest[j])
          /\ (IF args = <<>> THEN <<0>> ELSE args) = Numbers(Rest)
      BY <1>4 DEF OnText
    <3>2. Numbers(Rest') = Numbers(Rest)
      BY <1>1, <2>1, NumbersAppend DEF Parameter
    <3>3. (\A j \in 1 .. Len(Rest') : ~Parameter(Rest'[j]))
             <=> (\A j \in 1 .. Len(Rest) : ~Parameter(Rest[j]))
      BY <1>1, <2>1, NoParameters
    <3> QED BY <1>1, <3>1, <3>2, <3>3
  <2>4. WellFormed(Rest)
    BY <1>4, <2>1, WellShaped
  <2>5. CASE c \in Intermediate
    <3>1. s' = "csi_intermediate"
      BY <1>1, <1>4, <2>5 DEF AfterCollect, Shaped, Intermediate, Private
    <3>2. WellFormed(Rest')
      BY <1>1, <2>1, <2>4, <2>5, ShapeAppend
    <3>3. Rest'[Len(Rest')] \in Intermediate /\ Len(text') >= 2 /\ text'[Len(text')] \in 32 .. 63
      BY <1>1, <2>1, <2>5
    <3>4. OnText'
      BY <2>1, <2>2, <2>3, <3>1, <3>2, <3>3 DEF OnText, States, Shaped
    <3> QED BY <1>1, <3>1, <3>4, Quiet
  <2>6. CASE c \notin Intermediate
    <3>1. s = "csi_entry" /\ c \in Private /\ s' = "csi_param" /\ Rest = <<>>
      BY <1>1, <1>4, <2>6 DEF collect, AfterCollect, Shaped, OnText
    <3>2. Shape(Rest', Len(Rest'))
      <4>1. Shape(Rest', Len(Rest) + 1)
        BY <1>1, <2>1, <3>1, ShapeAppend
      <4>2. Len(Rest') = Len(Rest) + 1
        BY <1>1, <2>1, AppendOf
      <4> QED BY <4>1, <4>2
    <3>3. OnText'
      BY <1>1, <2>1, <2>2, <2>3, <3>1, <3>2 DEF OnText, States, Shaped
    <3> QED BY <1>1, <3>1, <3>3, Quiet
  <2> QED BY <2>5, <2>6
<1> QED BY <1>1, <1>2, <1>3, <1>4

LEMMA ParamFits ==
    ASSUME OnText, NEW c \in Char, param(c), text' = TextAfter(c)
    PROVE  OnText' /\ CallFitsText'
<1> DEFINE a == IF args = <<>> THEN <<0>> ELSE args
<1>1. /\ s \in {"csi_entry", "csi_param"} /\ s \in Shaped /\ s' = "csi_param"
      /\ c \in Digit \cup {Semicolon} /\ Parameter(c) /\ call'.cb = "none"
      /\ inter' = IF c = Semicolon /\ Len(a) = MAXPARAM THEN 0 ELSE inter
      /\ args' = IF c = Semicolon THEN Append(a, 0) ELSE AddDigit(a, c)
  BY DEF param, Shaped, Parameter, NoCall
<1>2. c \in 48 .. 59 /\ c \in 32 .. 126 /\ c \in Nat /\ c \in 32 .. 63
  <2>1. c \in 48 .. 59
    BY <1>1 DEF Digit, Semicolon
  <2> QED BY <2>1
<1>3. /\ text' \in Seq(Nat) /\ Len(text') > 2 /\ text'[Len(text')] = c /\ text'[2] = 91
      /\ Rest \in Seq(Nat) /\ Rest' = Append(Rest, c)
      /\ Rest' # <<>> /\ Len(text') \in Nat
  BY <1>1, <1>2, CsiGrown, LenProperties
<1>4. /\ a = Numbers(Rest) /\ a \in Seq(Nat) /\ Len(a) \in Nat /\ Len(a) >= 1
      /\ Len(a) = Argument(Rest, Len(Rest))
  <2>1. a = Numbers(Rest)
    BY <1>1 DEF OnText
  <2> QED BY <1>3, <2>1, NumbersOf
<1> HIDE DEF a
<1>5. args' = Numbers(Rest') /\ args' # <<>>
  <2>1. CASE c = Semicolon
    <3>1. Numbers(Rest') = Append(Numbers(Rest), 0)
      BY <1>2, <1>3, <2>1, NumbersAppend
    <3>2. 0 \in Nat /\ Append(a, 0) # <<>>
      BY <1>4, AppendProperties
    <3> QED BY <1>1, <1>4, <2>1, <3>1, <3>2
  <2>2. CASE c # Semicolon
    <3>1. c \in Digit /\ args' = AddDigit(a, c)
      BY <1>1, <2>2
    <3>2. Numbers(Rest') = AddDigit(Numbers(Rest), c)
      BY <1>2, <1>3, <3>1, NumbersAppend
    <3>3. AddDigit(a, c) # <<>>
      <4>1. Len(AddDigit(a, c)) = Len(a)
        BY <1>4 DEF AddDigit
      <4> QED BY <1>4, <4>1, EmptySeq
    <3> QED BY <1>4, <3>1, <3>2, <3>3
  <2> QED BY <2>1, <2>2
<1>6. ~(\A j \in 1 .. Len(Rest') : ~Parameter(Rest'[j]))
  BY <1>1, <1>2, <1>3, NoParameters
<1>7. Shape(Rest', Len(Rest'))
  <2>1. Shape(Rest, Len(Rest))
    <3>1. s = "csi_entry" => Rest = <<>> /\ Len(Rest) = 0
      BY EmptySeq DEF OnText
    <3>2. 1 .. 0 = {} /\ 0 + 1 .. 0 = {}
      OBVIOUS
    <3>3. s = "csi_entry" => Shape(Rest, Len(Rest))
      BY <3>1, <3>2 DEF Shape
    <3>4. s = "csi_param" => Shape(Rest, Len(Rest))
      BY DEF OnText
    <3> QED BY <1>1, <3>3, <3>4
  <2>2. Len(Rest') = Len(Rest) + 1
    BY <1>2, <1>3, AppendOf
  <2> QED BY <1>1, <1>2, <1>3, <2>1, <2>2, ShapeAppend
<1>8. Marked(Rest', inter')
  <2>1. Marked(Rest, inter)
    BY <1>1 DEF OnText
  <2> QED BY <1>1, <1>2, <1>3, <1>4, <2>1, MarkedAppend
<1>9. Len(text') >= 2 /\ text'[Len(text')] \in 32 .. 63
  BY <1>2, <1>3
<1>10. OnText'
  BY <1>1, <1>3, <1>5, <1>6, <1>7, <1>8, <1>9 DEF OnText, States, Shaped
<1> QED BY <1>1, <1>10, Quiet

LEMMA CharacterFits ==
    ASSUME OnText, NEW c \in Char, handlechar(c), text' = TextAfter(c)
    PROVE  OnText' /\ CallFitsText'
BY ControlFits, StartFits, PrintFits, CollectFits, ParamFits, EscapeFits, CsiFits,
   MalformedFits, OscFits, IgnoreFits DEF handlechar

(* MCVTParser only records the text, within a bound on its length. *)
LEMMA TextRecorded == MCSpec => Spec
<1>1. MCInit => Init
  BY DEF MCInit
<1>2. [MCNext]_mcVars => [vtwrite]_vars
  BY DEF MCNext, mcVars, vtwrite
<1> QED BY <1>1, <1>2, PTL DEF MCSpec, Spec

LEMMA TextAlways == MCSpec => [](OnText /\ CallFitsText)
<1>1. MCInit => OnText /\ CallFitsText
  <2> SUFFICES ASSUME MCInit PROVE OnText /\ CallFitsText
    OBVIOUS
  <2>1. text = <<>> /\ Len(<<>>) = 0 /\ s = "ground" /\ call.cb = "none"
    BY EmptySeq DEF MCInit, Init, NoCall
  <2>2. OnText
    BY <2>1, EmptySeq DEF OnText, States, Shaped
  <2>3. \A k : ~Is(k)
    BY <2>1 DEF Is
  <2> QED BY <2>1, <2>2, <2>3 DEF CallFitsText
<1>2. OnText /\ CallFitsText /\ [MCNext]_mcVars
        => (OnText /\ CallFitsText)'
  <2> SUFFICES ASSUME OnText, CallFitsText, [MCNext]_mcVars
               PROVE  OnText' /\ CallFitsText'
    OBVIOUS
  <2>1. CASE Character /\ text' = TextAfter(w')
    <3>1. PICK c \in Char : handlechar(c)
      BY <2>1, ParserAssumption DEF Character, OneByte, Complete, Invalid, Char
    <3>2. text' = TextAfter(c)
      BY <2>1, <3>1 DEF handlechar
    <3> QED BY <3>1, <3>2, CharacterFits
  <2>2. CASE UNCHANGED <<s, inter, args, oscbuf, w, call, overrun, text>>
    <3>1. OnText'
      BY <2>2, Unmoved
    <3>2. Body' = Body /\ (Ended <=> Ended') /\ Kind' = Kind
      BY <2>2 DEF Body, Ended, Is, Kind
    <3>3. \A k : Is(k)' <=> Is(k)
      BY <2>2, <3>2 DEF Is
    <3>4. CallFitsText'
      BY <2>2, <3>2, <3>3 DEF CallFitsText
    <3> QED BY <3>1, <3>4
  <2>3. CASE EndOfRead /\ UNCHANGED text
    BY <2>2, <2>3 DEF EndOfRead, Incomplete
  <2>4. CASE UNCHANGED mcVars
    BY <2>2, <2>4 DEF mcVars, vars
  <2> QED BY <2>1, <2>3, <2>4 DEF MCNext
<1> QED BY <1>1, <1>2, PTL DEF MCSpec

(* Whatever a program writes: param writes behind args exactly in a         *)
(* sequence that has more parameters than args holds, whatever was cut      *)
(* short before it; no argument is above ten times the cap of param, and    *)
(* oscbuf keeps the place of its terminator.                                *)
THEOREM ParserBounds == MCSpec => []WritesBounded
<1>1. ASSUME OnText, ValuesBounded PROVE WritesBounded
  <2> SUFFICES ASSUME s \in Shaped
               PROVE  Len(args) > MAXPARAM <=> Argument(Rest, Len(Rest)) > MAXPARAM
    BY <1>1 DEF WritesBounded, Shaped
  <2>1. Rest \in Seq(Nat) /\ (IF args = <<>> THEN <<0>> ELSE args) = Numbers(Rest)
    BY <1>1, Extended DEF OnText, Rest
  <2>2. Len(Numbers(Rest)) = Argument(Rest, Len(Rest))
    BY <2>1, NumbersOf
  <2>3. CASE args = <<>>
    <3>1. Len(args) = 0 /\ Len(Numbers(Rest)) = 1
      BY <2>1, <2>3, EmptySeq
    <3> QED BY <2>2, <3>1, ParserAssumption
  <2> QED BY <2>1, <2>2, <2>3
<1>2. MCSpec => []OnText /\ []ValuesBounded
  BY TextAlways, TextRecorded, ValuesAlways, PTL
<1> QED BY <1>1, <1>2, PTL

(* Whatever a program writes and wherever its writes are cut, the handler   *)
(* called for a sequence, its arguments, intermediate and string are those  *)
(* of the text of that sequence (handlechar and the tables).                *)
THEOREM CallsFit == MCSpec => []CallFitsText
BY TextAlways, PTL

(* Characters are printed exactly outside sequences. *)
THEOREM TextPrinted == MCSpec => []GroundOutside
<1>1. OnText => GroundOutside
  BY Outside
<1> QED BY <1>1, TextAlways, PTL
=============================================================================
